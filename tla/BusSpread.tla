----------------------------- MODULE BusSpread -----------------------------
(***************************************************************************)
(* tune/bundle.go, tune/expand.go: the buses a group's nets run in, and    *)
(* spreading one to open room beside its traces.  A trace steps aside and  *)
(* back over as much track as it moves; the two steps of a move by d add   *)
(* d (0.83 d in the code).                                                 *)
(***************************************************************************)
EXTENDS Meander

CONSTANTS
    Layers,
    Coupled,         \* [Nets -> Nets]: the net it must move with, or itself
    MaxPitch, MinSpan, MinMembers,
    MaxFree,         \* how far to look for clear space beside a bus
    MaxDisplacement, MinGain

\* The straight tracks of the nets on a layer, in the order FindBundles sorts.
BusTracks(nets, layer, copper) ==
    Ordered({p \in copper : p.net \in nets /\ p.layer = layer /\ IsStraight(p) /\ p.len >= MinSpan},
                 LAMBDA p, q : \/ p.x0 < q.x0
                               \/ p.x0 = q.x0 /\ p.lo < q.lo
                               \/ p.x0 = q.x0 /\ p.lo = q.lo /\ p.id < q.id)

\* The stretch of the bus every member runs along.
SpanOf(members) == [from |-> Max({m.x0 : m \in members}), to |-> Min({m.x1 : m \in members})]

\* What a member joins at its ends is no obstacle to the bus.
JoinedTo(members, copper) ==
    {o.id : o \in {p \in copper : \E m \in members : p.net = m.net /\ (p.x0 = m.x1 \/ p.x1 = m.x0)}}

\* How far the bus could grow to one side, at the strictest of its clearances.
FreeBeside(members, side, copper, areas) ==
    LET span == SpanOf(members)
        edge == IF side = 1 THEN Max({m.lo : m \in members}) ELSE Min({m.lo : m \in members})
        strip(d) == IF side = 1 THEN Box(span.from, span.to, edge, edge + d)
                    ELSE Box(span.from, span.to, edge - d, edge)
        first == CHOOSE m \in members : \A o \in members : m.lo <= o.lo
        fits(d) == Clear(Candidate(<<strip(d)>>, first.layer, first.net,
                             {m.id : m \in members} \cup JoinedTo(members, copper),
                             Max({ClearanceOf[m.net] : m \in members})), copper, areas)
    IN  Max({0} \cup {d \in 1 .. MaxFree : fits(d)})

\* Tracks side by side, no gap wider than MaxPitch, at least MinMembers, with a
\* stretch in common: the buses of a layer, the longest first.
Bundles(nets, layer, copper, areas) ==
    LET tracks == ToSet(BusTracks(nets, layer, copper))
        linked(p, q) == \A y \in Between(p.lo, q.lo) :
                           \E r \in tracks, s \in tracks :
                              r.lo <= y /\ y < s.lo /\ s.lo - r.lo <= MaxPitch
        runs == {{q \in tracks : linked(p, q)} : p \in tracks}
        bus(run) == [layer |-> layer, members |-> run, span |-> SpanOf(run),
                     row |-> Head(BusTracks(nets, layer, copper)).lo,
                     above |-> FreeBeside(run, 1, copper, areas),
                     below |-> FreeBeside(run, -1, copper, areas)]
    IN  {bus(run) : run \in {r \in runs : /\ Cardinality(r) >= MinMembers
                                           /\ SpanOf(r).to - SpanOf(r).from >= MinSpan}}

FindBundles(nets, copper, areas) ==
    Ordered(UNION {Bundles(nets, l, copper, areas) : l \in Layers},
        LAMBDA b, c : LET sb == b.span.to - b.span.from
                          sc == c.span.to - c.span.from
                      IN  \/ sb > sc
                          \/ sb = sc /\ Cardinality(b.members) > Cardinality(c.members)
                          \/ /\ sb = sc /\ Cardinality(b.members) = Cardinality(c.members)
                             /\ Min({m.id : m \in b.members}) < Min({m.id : m \in c.members}))

----------------------------------------------------------------------------
(* Units: traces that move together *)

Neighbours(b, m, o) ==
    m.lo < o.lo /\ \A k \in b.members : k.lo <= m.lo \/ k.lo >= o.lo

\* A pair whose halves are not neighbours stops the spread.
PairsTogether(b) ==
    \A m \in b.members : Coupled[m.net] # m.net =>
        \E o \in b.members : o.net = Coupled[m.net] /\ (Neighbours(b, m, o) \/ Neighbours(b, o, m))

UnitOf(b, m) == {o \in b.members : o.net \in {m.net, Coupled[m.net]}}

\* Moving a unit lengthens all of it, so its smallest need is what it may take.
UnitNeed(tracks, need) == Larger(0, Min({need[m.net] : m \in tracks}))

\* The units across the bus, the last one furthest in the direction of travel.
EdgeOf(u, side) == IF side = 1 THEN Min({m.lo : m \in u}) ELSE -Max({m.lo : m \in u})

UnitsOf(b, side, need) ==
    Ordered({[tracks |-> u, need |-> UnitNeed(u, need)] : u \in {UnitOf(b, m) : m \in b.members}},
            LAMBDA u, v : EdgeOf(u.tracks, side) < EdgeOf(v.tracks, side))

SideOf(b) == IF b.below > b.above THEN -1 ELSE 1

FreeOf(b) == Larger(b.below, b.above)

UsableSpan(b) == b.span.to - b.span.from - 2 * Keep

\* Why a bus is left alone before anything is worked out.
Skipped(b, units, areas) ==
    \/ \E m \in b.members, o \in b.members : m # o /\ m.net = o.net
    \/ ~AllowsSpan(areas, b.span.from, b.span.to, b.row)
    \/ ~PairsTogether(b)
    \/ Len(units) < 2
    \/ FreeOf(b) = 0
    \/ units[Len(units)].need <= 0
    \/ UsableSpan(b) < MinRun

----------------------------------------------------------------------------
(* How far each unit travels *)

Cap(u) == Smaller(u.need, MaxDisplacement)

\* The outermost `moving` units travel, further the further out, in proportion
\* to what they need; the rest stay and take the room that opens.
NeedIn(units, range) == MapThenSumSet(LAMBDA i : units[i].need, range)

TravelOf(units, i, first, outer, total) ==
    IF i = Len(units) THEN Smaller(outer, Cap(units[i]))
    ELSE IF i < first \/ total = 0 THEN 0
    ELSE Smaller((outer * NeedIn(units, first .. i - 1)) \div total, Cap(units[i]))

Travel(units, first, outer) ==
    <<>> \o [i \in DOMAIN units |->
                TravelOf(units, i, first, outer, NeedIn(units, first .. Len(units) - 1))]

\* The straight run left to a unit, between its steps and those further out.
FlatRun(disp, span, i) ==
    IF disp[i] = 0 THEN span
    ELSE span - 2 * disp[i] - 2 * MapThenSumSet(LAMBDA j : disp[j], i + 1 .. Len(disp))

OpenedBeside(disp, free, i) ==
    IF i = Len(disp) THEN Larger(0, free - disp[i]) ELSE Larger(0, disp[i + 1] - disp[i])

\* What a unit can add: its steps, and a meander in the room beside it, which
\* runs only as far as the stretch the unit beyond it was moved over.
UnitGain(disp, free, span, i) ==
    LET along == IF i = Len(disp) THEN FlatRun(disp, span, i)
                 ELSE Smaller(FlatRun(disp, span, i), FlatRun(disp, span, i + 1))
    IN  disp[i] + Capacity(Larger(0, along - 2 * Keep), OpenedBeside(disp, free, i))

Fits(disp, span) == \A i \in DOMAIN disp : disp[i] > 0 => FlatRun(disp, span, i) >= MinRun

Gains(disp, free, span) == <<>> \o [i \in DOMAIN disp |-> UnitGain(disp, free, span, i)]

\* A travel is worth the traces it finishes, then the length it adds to what
\* the bus could do as it was.
Worth(units, disp, first, outer, was, now) ==
    [disp |-> disp, first |-> first, outer |-> outer,
     met |-> Cardinality({i \in DOMAIN units : units[i].need > 0 /\ now[i] >= units[i].need
                                                /\ was[i] < units[i].need}),
     useful |-> MapThenSumSet(LAMBDA i : Smaller(units[i].need, now[i]) - Smaller(units[i].need, was[i]),
                              DOMAIN units)]

\* Of equals the one with fewer units moving, then less far.
Better(s, t) ==
    \/ s.met > t.met
    \/ s.met = t.met /\ s.useful > t.useful
    \/ s.met = t.met /\ s.useful = t.useful /\ s.first > t.first
    \/ s.met = t.met /\ s.useful = t.useful /\ s.first = t.first /\ s.outer < t.outer

Best(tries) == CHOOSE s \in tries : \A t \in tries \ {s} : Better(s, t)

OuterMost(u, free, span) == Larger(0, Smaller(Smaller(Cap(u), free), (span - MinRun) \div 2))

Allocate(units, free, span) ==
    LET worth(first, outer, disp) ==
            Worth(units, disp, first, outer, Gains([i \in DOMAIN units |-> 0], free, span), Gains(disp, free, span))
    IN  Best({worth(t[1], t[2], Travel(units, t[1], t[2])) :
                t \in {r \in (2 .. Len(units)) \X (0 .. OuterMost(units[Len(units)], free, span)) :
                         Fits(Travel(units, r[1], r[2]), span)}})

----------------------------------------------------------------------------
(* Moving a unit *)

\* A trace steps aside inside its own extent, past the steps further out.
StepAside(b, m, d, side, stagger) ==
    LET r0 == Larger(b.span.from + Keep, m.x0) + stagger
        r1 == Smaller(b.span.to - Keep, m.x1) - stagger
        ramp(x0, x1) == IF side = 1 THEN Box(x0, x1, m.lo, m.lo + d) ELSE Box(x0, x1, m.lo - d, m.lo)
        flat(x0, x1, y, gain) == IF x0 < x1 THEN <<[box |-> Box(x0, x1, y, y), gain |-> gain]>> ELSE <<>>
    IN  flat(m.x0, r0, m.lo, 0) \o <<[box |-> ramp(r0, r0 + d), gain |-> d]>>
        \o flat(r0 + d, r1 - d, m.lo + side * d, 0)
        \o <<[box |-> ramp(r1 - d, r1), gain |-> 0]>> \o flat(r1, m.x1, m.lo, 0)

LeavesRun(b, m, d, stagger) ==
    Smaller(b.span.to - Keep, m.x1) - Larger(b.span.from + Keep, m.x0) - 2 * stagger >= 2 * d + MinRun

\* A unit moves as a whole or not at all.
MayMove(b, u, d, side, stagger, copper, areas) ==
    \A m \in u.tracks :
        /\ LeavesRun(b, m, d, stagger)
        /\ MayReplace(m, Boxes(StepAside(b, m, d, side, stagger)), m.net,
                      {o.id : o \in u.tracks}, copper, areas)

MoveTrack(m, line, acc) ==
    [acc EXCEPT !.copper = ReplaceTrack(@, m, line, acc.id, "spread"), !.id = @ + Len(line)]

MoveUnit(b, u, d, side, stagger, copper, firstId) ==
    FoldLeft(LAMBDA acc, m : MoveTrack(m, StepAside(b, m, d, side, stagger), acc),
             [copper |-> copper, id |-> firstId, stagger |-> stagger, stopped |-> FALSE],
             Ordered(u.tracks, LAMBDA m, n : m.lo < n.lo))

\* The units move from the far end inwards; the first refused stops the rest.
MoveNext(b, u, d, side, acc, areas) ==
    IF acc.stopped \/ d = 0 THEN acc
    ELSE IF ~MayMove(b, u, d, side, acc.stagger, acc.copper, areas) THEN [acc EXCEPT !.stopped = TRUE]
    ELSE LET moved == MoveUnit(b, u, d, side, acc.stagger, acc.copper, acc.id)
         IN  [moved EXCEPT !.stagger = acc.stagger + d]

MoveUnits(b, units, plan, copper, firstId, areas) ==
    FoldLeft(LAMBDA acc, i : MoveNext(b, units[i], plan.disp[i], SideOf(b), acc, areas),
             [copper |-> copper, id |-> firstId, stagger |-> 0, stopped |-> plan.useful < MinGain],
             [k \in DOMAIN units |-> Len(units) + 1 - k])

Spread(b, units, copper, firstId, areas) ==
    IF Skipped(b, units, areas) THEN [copper |-> copper, id |-> firstId]
    ELSE MoveUnits(b, units, Allocate(units, FreeOf(b), UsableSpan(b)), copper, firstId, areas)

SpreadBus(b, need, copper, firstId, areas) ==
    Spread(b, UnitsOf(b, SideOf(b), need), copper, firstId, areas)
=============================================================================
