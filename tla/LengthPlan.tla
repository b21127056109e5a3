----------------------------- MODULE LengthPlan -----------------------------
(***************************************************************************)
(* ddr/plan.go, ddr/flyby.go: which nets are matched to which, over which  *)
(* copper, and how much length each needs.  Every net runs from the        *)
(* controller away, past its pads; its tracks end at them.  Delay follows  *)
(* length, so tolerances in picoseconds are left out, and so are skipped   *)
(* nets, notes and the skew inside a pair.                                 *)
(***************************************************************************)
EXTENDS Clearance

CONSTANTS
    Role,            \* [Nets -> {"strobe", "data", "clock", "address"}]
    LaneOf,          \* the byte lane of a strobe or data net, -1 of others
    Lanes,           \* how many byte lanes
    Tolerance,       \* of a lane or a leg, unless it is given one of its own
    OffsetPercent,   \* how much longer than the clock a leg should be
    NoPad            \* stands for the place of a pad a net does not have

\* The netlist and the layout, which no step changes: at[net][ref] is how far
\* along the net its pad on ref is, stub[net][ref] the length from there to it.
PadOn(at, n, ref) == at[n][ref] # NoPad

Between(a, b) == Smaller(a, b) .. Larger(a, b) - 1

OnPath(copper, at, n, a, b) ==
    {p \in copper : /\ p.net = n
                    /\ p.x0 >= Smaller(at[n][a], at[n][b])
                    /\ p.x1 <= Larger(at[n][a], at[n][b])}

\* A path is found when copper goes all the way.
Found(copper, at, n, a, b) ==
    /\ PadOn(at, n, a) /\ PadOn(at, n, b)
    /\ \A x \in Between(at[n][a], at[n][b]) :
          \E p \in OnPath(copper, at, n, a, b) : p.x0 <= x /\ x < p.x1

PathLength(copper, at, stub, n, a, b) ==
    stub[n][a] + stub[n][b] + MapThenSumSet(LAMBDA p : p.len, OnPath(copper, at, n, a, b))

PathTracks(copper, at, n, a, b) == {p.id : p \in OnPath(copper, at, n, a, b)}

FlyByNets == {n \in Nets : Role[n] \in {"clock", "address"}}

----------------------------------------------------------------------------
(* The fly-by chain *)

Reached(board, copper, n, d) == Found(copper, board.at, n, "ctrl", d)

LengthTo(board, copper, n, d) == PathLength(copper, board.at, board.stub, n, "ctrl", d)

\* How far along the copper a device is, over the net that reaches it soonest.
Reach(board, copper, d) ==
    {LengthTo(board, copper, n, d) : n \in {m \in FlyByNets : Reached(board, copper, m, d)}}

\* The devices in the order the copper reaches them; one it does not reach
\* comes last, and equals keep their places.
ChainOrder(board, copper, devices) ==
    LET stops == {[dev |-> devices[i], far |-> Reach(board, copper, devices[i]), at |-> i] : i \in DOMAIN devices}
        before(p, q) ==
            IF p.far = {} \/ q.far = {} THEN p.far # {} \/ (q.far = {} /\ p.at < q.at)
            ELSE Min(p.far) < Min(q.far) \/ (Min(p.far) = Min(q.far) /\ p.at < q.at)
        seq == Ordered(stops, before)
    IN  [k \in DOMAIN devices |-> seq[k].dev]

\* The spans of the chain: the controller, the devices, the termination.
Hops(devices) ==
    LET stops == <<"ctrl">> \o devices \o <<"term">>
    IN  {<<stops[i], stops[i + 1]>> : i \in 1 .. Len(stops) - 1}

HopRouted(board, copper, hop) ==
    \A n \in FlyByNets : Found(copper, board.at, n, hop[1], hop[2])

\* The connections the chain lacks, as requests to the router.
MissingHops(board, copper, devices) ==
    {[net |-> n, from |-> hop[1], to |-> hop[2]] :
        n \in FlyByNets, hop \in {h \in Hops(devices) : ~HopRouted(board, copper, h)}}
    \ {r \in [net : FlyByNets, from : {"ctrl"} \cup ToSet(devices), to : ToSet(devices) \cup {"term"}] :
          \/ ~PadOn(board.at, r.net, r.from) \/ ~PadOn(board.at, r.net, r.to)
          \/ Found(copper, board.at, r.net, r.from, r.to)}

----------------------------------------------------------------------------
(* Groups *)

\* A member as measured, before it is compared with anything.
Measured(routed, length, tracks, reference) ==
    [routed |-> routed, length |-> IF routed THEN length ELSE 0,
     tracks |-> IF routed THEN tracks ELSE {}, reference |-> routed /\ reference]

\* The mean of the routed references, or the longest when there is none.
Target(ms, percent) ==
    LET refs == {n \in DOMAIN ms : ms[n].reference}
    IN  IF refs = {} THEN Max({ms[n].length : n \in DOMAIN ms})
        ELSE (MapThenSumSet(LAMBDA n : ms[n].length, refs) * (100 + percent))
             \div (100 * Cardinality(refs))

\* What each member needs, too much counted where it is more than tolerated.
FinishGroup(name, ms, percent, loose) ==
    LET target == Target(ms, percent)
        tol == IF name \in DOMAIN loose THEN loose[name] ELSE Tolerance
        off(n) == ms[n].length - target
        tuned(n) == ms[n].routed /\ ~ms[n].reference
    IN  [name |-> name, target |-> target, tol |-> tol,
         members |-> [n \in DOMAIN ms |->
            [routed |-> ms[n].routed, reference |-> ms[n].reference,
             length |-> ms[n].length, tracks |-> ms[n].tracks,
             inTol |-> ms[n].routed /\ off(n) <= tol /\ -off(n) <= tol,
             need |-> IF tuned(n) THEN Larger(0, -off(n)) ELSE 0,
             excess |-> IF tuned(n) /\ off(n) > tol THEN off(n) - tol ELSE 0]]]

LaneNets(lane) == {n \in Nets : LaneOf[n] = lane}

\* A byte lane is point to point: every net over its longest route.
LaneGroup(board, copper, devices, lane, loose) ==
    LET reached(n) == {d \in ToSet(devices) : Reached(board, copper, n, d)}
        to(n) == CHOOSE d \in reached(n) : \A e \in reached(n) :
                     LengthTo(board, copper, n, e) <= LengthTo(board, copper, n, d)
        ms == [n \in LaneNets(lane) |->
                 IF reached(n) = {} THEN Measured(FALSE, 0, {}, FALSE)
                 ELSE Measured(TRUE, LengthTo(board, copper, n, to(n)),
                               PathTracks(copper, board.at, n, "ctrl", to(n)), Role[n] = "strobe")]
    IN  FinishGroup(<<"lane", lane>>, ms, 0, loose)

\* The copper past the device before this one: what is added there changes
\* nothing that was matched before.
Beyond(tracks, before) == tracks \ before

\* mutant: a leg is planned as if nothing were added before it
CountNone(g, upstream) == g

\* What the legs before it will add is counted before what is left to add.
CountUpstream(g, upstream) ==
    LET later(n) ==
            LET m == g.members[n]
                over == m.length + upstream[n] - g.target
            IN  IF ~m.routed \/ m.reference \/ upstream[n] <= 0 THEN m
                ELSE [m EXCEPT !.need = Larger(0, -over),
                               !.excess = IF over > g.tol /\ @ = 0 THEN over - g.tol ELSE @]
    IN  [g EXCEPT !.members = [n \in DOMAIN g.members |-> later(n)]]

\* A leg is measured from the controller, and its length goes into the copper
\* past the device before.
Leg(board, copper, n, d, before) ==
    IF ~Reached(board, copper, n, d) THEN Measured(FALSE, 0, {}, FALSE)
    ELSE Measured(TRUE, LengthTo(board, copper, n, d),
                  IF before \in DOMAIN board.at[n] /\ Reached(board, copper, n, before)
                  THEN Beyond(PathTracks(copper, board.at, n, "ctrl", d),
                              PathTracks(copper, board.at, n, "ctrl", before))
                  ELSE PathTracks(copper, board.at, n, "ctrl", d),
                  Role[n] = "clock")

FlyByGroup(board, copper, d, before, upstream, loose) ==
    CountUpstream(FinishGroup(<<"leg", d>>, [n \in FlyByNets |-> Leg(board, copper, n, d, before)],
                              OffsetPercent, loose), upstream)

\* The groups, byte lanes first, then a leg for every device the chain reaches.
AddLeg(acc, d, g) ==
    IF \A n \in FlyByNets : ~g.members[n].routed THEN [acc EXCEPT !.before = d]
    ELSE [groups |-> Append(acc.groups, g), before |-> d,
          upstream |-> [n \in FlyByNets |-> acc.upstream[n] + g.members[n].need]]

Legs(board, copper, order, loose) ==
    FoldLeft(LAMBDA acc, d : AddLeg(acc, d, FlyByGroup(board, copper, d, acc.before, acc.upstream, loose)),
             [groups |-> <<>>, before |-> "none", upstream |-> [n \in FlyByNets |-> 0]], order)

GroupsOf(board, copper, order, loose) ==
    [groups |-> [i \in 1 .. Lanes |-> LaneGroup(board, copper, order, i - 1, loose)]
                \o Legs(board, copper, order, loose).groups,
     devices |-> order]

BuildPlan(board, copper, devices, loose) ==
    GroupsOf(board, copper,
             IF \E i \in DOMAIN devices : Reach(board, copper, devices[i]) # {}
             THEN ChainOrder(board, copper, devices) ELSE devices,
             loose)
=============================================================================
