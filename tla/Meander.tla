------------------------------ MODULE Meander ------------------------------
(***************************************************************************)
(* tune/meander.go, tune/shape.go: which stretches of a net's straight     *)
(* copper a meander fits beside, and the copper that replaces a track.     *)
(* An excursion of amplitude a adds 2a; the chamfers' loss is left out.    *)
(***************************************************************************)
EXTENDS LengthPlan

CONSTANTS
    MinAmplitude, MaxAmplitude,
    MinRun,          \* the shortest stretch a meander may have
    Keep,            \* what is left of a track at either end
    Flat, Space      \* the width of an excursion, and from one to the next

Teeth(span) == (span + Space) \div (Flat + Space)

Capacity(span, amp) == IF span <= 0 \/ amp < MinAmplitude THEN 0 ELSE 2 * amp * Teeth(span)

\* The strip beside a stretch of a track, amp wide.
Strip(p, a, b, side, amp) ==
    IF side = 1 THEN Box(a, b, p.lo, p.lo + amp) ELSE Box(a, b, p.lo - amp, p.lo)

\* How far a meander may stray: the widest strip that is clear, in the areas.
RoomBeside(p, a, b, side, copper, areas) ==
    LET fits(amp) == Clear(Candidate(<<Strip(p, a, b, side, amp)>>, p.layer, p.net, {p.id}, 0),
                           copper, areas)
        amps == {amp \in MinAmplitude .. MaxAmplitude : fits(amp)}
    IN  IF ~AllowsSpan(areas, a, b, p.lo) \/ amps = {} THEN 0
        ELSE Smaller(Max(amps), RoomToward(areas, a, b, p.lo, side, MaxAmplitude))

\* A track is profiled in steps of one; a stretch has the room of its tightest.
Stretches(p, copper, areas) ==
    LET steps == p.x0 + Keep .. p.x1 - Keep - 1
        prof == {[side |-> s, at |-> i, amp |-> RoomBeside(p, i, i + 1, s, copper, areas)] :
                   s \in {1, -1}, i \in steps}
        room(s, ab) == Min({q.amp : q \in {r \in prof : r.side = s /\ ab[1] <= r.at /\ r.at < ab[2]}})
        all == {[track |-> p, from |-> ab[1], to |-> ab[2], side |-> s, amp |-> room(s, ab)] :
                  s \in {1, -1},
                  ab \in {c \in steps \X {i + 1 : i \in steps} : c[2] - c[1] >= MinRun}}
    IN  {r \in all : Capacity(r.to - r.from, r.amp) > 0}

CapacityOf(r) == Capacity(r.to - r.from, r.amp)

\* The most capacious of the stretches that share no track with one taken.
MoreCapacious(r, s) ==
    \/ CapacityOf(r) > CapacityOf(s)
    \/ /\ CapacityOf(r) = CapacityOf(s)
       /\ \/ r.from < s.from
          \/ r.from = s.from /\ r.to < s.to
          \/ r.from = s.from /\ r.to = s.to /\ r.side > s.side

SubRuns(p, copper, areas) ==
    LET all == Stretches(p, copper, areas)
        best(left) == CHOOSE r \in left : \A s \in left \ {r} : MoreCapacious(r, s)
        taken[left \in SUBSET all] ==
            IF left = {} THEN {}
            ELSE LET r == best(left) IN {r} \cup taken[{s \in left : s.to <= r.from \/ r.to <= s.from}]
    IN  taken[all]

\* mutant: wherever the net has copper
TunableAnywhere(net, on, copper, areas) ==
    {p \in copper : /\ p.net = net /\ IsStraight(p) /\ p.x1 - p.x0 - 2 * Keep >= MinRun
                    /\ areas = {} \/ \E z \in areas : Overlaps(z, BoxOf(p))}

\* A net's tracks that may be tuned: no `on` means all of them.
TunableTracks(net, on, copper, areas) ==
    {p \in copper : /\ p.net = net /\ IsStraight(p)
                    /\ on = {} \/ p.id \in on
                    /\ p.x1 - p.x0 - 2 * Keep >= MinRun
                    /\ areas = {} \/ \E z \in areas : Overlaps(z, BoxOf(p))}

FindRuns(net, on, copper, areas) ==
    UNION {SubRuns(p, copper, areas) : p \in TunableTracks(net, on, copper, areas)}

\* The most capacious first, of equals the longest.
Earlier(r, s) ==
    \/ CapacityOf(r) > CapacityOf(s)
    \/ CapacityOf(r) = CapacityOf(s) /\ r.to - r.from > s.to - s.from
    \/ /\ CapacityOf(r) = CapacityOf(s) /\ r.to - r.from = s.to - s.from
       /\ \/ r.track.id < s.track.id
          \/ r.track.id = s.track.id /\ r.from < s.from

\* The most length a net could take.
Headroom(net, on, copper, areas) == MapThenSumSet(CapacityOf, FindRuns(net, on, copper, areas))

\* The runs of one track after another, tracks in the order of their best run.
RunsByTrack(runs) ==
    LET sorted == Ordered(runs, Earlier)
        add(groups, r) ==
            IF \E i \in DOMAIN groups : groups[i][1].track = r.track
            THEN [i \in DOMAIN groups |->
                    IF groups[i][1].track = r.track THEN Append(groups[i], r) ELSE groups[i]]
            ELSE Append(groups, <<r>>)
    IN  FoldLeft(add, <<>>, sorted)

\* The meander for a run: the most excursions that clear, of the amplitude that
\* adds what is wanted or the most there is room for; none when even the
\* smallest excursion adds too much.
Options(r, want, copper, areas) ==
    {count \in 1 .. Teeth(r.to - r.from) :
        /\ want >= 2 * count * MinAmplitude
        /\ LET gain == Smaller(want, 2 * count * r.amp)
               amp == (gain + 2 * count - 1) \div (2 * count)
           IN  Clear(Candidate(<<Strip(r.track, r.from, r.to, r.side, amp)>>,
                               r.track.layer, r.track.net, {r.track.id}, 0), copper, areas)}

PlanMeander(r, want, copper, areas) ==
    LET count == Max(Options(r, want, copper, areas))
        gain == Smaller(want, 2 * count * r.amp)
    IN  [from |-> r.from, to |-> r.to, gain |-> gain,
         box |-> Strip(r.track, r.from, r.to, r.side, (gain + 2 * count - 1) \div (2 * count))]

\* The meanders of one track's runs, each asked for what the others leave.
Shapes(runs, want, copper, areas) ==
    LET claimed(ms) == MapThenSumSet(LAMBDA m : m.gain, ms)
        next(ms, r) ==
            IF want - claimed(ms) <= 0 \/ Options(r, want - claimed(ms), copper, areas) = {}
            THEN ms ELSE ms \cup {PlanMeander(r, want - claimed(ms), copper, areas)}
    IN  FoldLeft(next, {}, runs)

\* mutant: the line ends with its last meander
ReplacementToLast(p, ms) ==
    LET inOrder == Ordered(ms, LAMBDA m, n : m.from < n.from)
        straight(a, b) == IF a < b THEN <<[box |-> Box(a, b, p.lo, p.lo), gain |-> 0]>> ELSE <<>>
        add(acc, m) == [at |-> m.to,
                        out |-> acc.out \o straight(acc.at, m.from) \o <<[box |-> m.box, gain |-> m.gain]>>]
    IN  FoldLeft(add, [at |-> p.x0, out |-> <<>>], inOrder).out

\* The line that replaces a track: its untouched stretches with the meanders
\* where they belong, as boxes in order with the length each adds.
Replacement(p, ms) ==
    LET inOrder == Ordered(ms, LAMBDA m, n : m.from < n.from)
        straight(a, b) == IF a < b THEN <<[box |-> Box(a, b, p.lo, p.lo), gain |-> 0]>> ELSE <<>>
        add(acc, m) == [at |-> m.to,
                        out |-> acc.out \o straight(acc.at, m.from) \o <<[box |-> m.box, gain |-> m.gain]>>]
        line == FoldLeft(add, [at |-> p.x0, out |-> <<>>], inOrder)
    IN  line.out \o straight(line.at, p.x1)

\* Board.ReplaceTrack: the pieces of the line instead of the track, with new ids.
Pieces(p, line, firstId, how) ==
    {[id |-> firstId + i - 1, net |-> p.net, layer |-> p.layer,
      how |-> IF line[i].box.hi = line[i].box.lo /\ line[i].box.lo = p.lo THEN p.how ELSE how,
      x0 |-> line[i].box.x0, x1 |-> line[i].box.x1, lo |-> line[i].box.lo, hi |-> line[i].box.hi,
      len |-> line[i].box.x1 - line[i].box.x0 + line[i].gain] : i \in DOMAIN line}

ReplaceTrack(copper, p, line, firstId, how) == (copper \ {p}) \cup Pieces(p, line, firstId, how)

Boxes(line) == [i \in DOMAIN line |-> line[i].box]

Gain(line) == FoldLeft(LAMBDA sum, s : sum + s.gain, 0, line)
=============================================================================
