------------------------------- MODULE Tuning -------------------------------
(***************************************************************************)
(* cmd/pcb-trace-length-analyzer/main.go (run with -apply) and, without    *)
(* routing and spreading, server/api.go handleApply: a board is planned,   *)
(* its missing hops are routed, its buses spread, and the nets that are    *)
(* short get meanders, one track after another.  In the web application    *)
(* the areas for them may be proposed first (server/suggest.go).           *)
(***************************************************************************)
EXTENDS BusSpread, AreaSuggestion

CONSTANTS
    Boards,          \* what may be loaded: at, stub, copper, areas and devices
    Name,            \* [Nets -> Nat], how the names sort
    Asked,           \* the flags: suggest, route, expand, which nets, tolerances by group
    NoJob

VARIABLES
    board, flags,    \* as given; areas may be added to the board once
    copper,          \* the board's tracks now
    devices,         \* Interface.Devices, in the order the last plan found
    nextId,          \* the next uuid
    phase,           \* how far run has come
    plan,            \* the plan in force
    groups, buses,   \* spreading: groups to come, buses of the one at hand
    targets,         \* the nets to tune, those to come
    job,             \* the one being tuned
    results,
    offered,         \* the areas proposed, and drawn
    headroom         \* Member.Headroom of each target, as the first plan measured it

vars == <<board, flags, copper, devices, nextId, phase, plan, groups, buses, targets, job, results, offered, headroom>>

\* One target for every leg a net is short on and not tolerated.
Short(p) ==
    UNION {{[net |-> n, group |-> p.groups[i].name, at |-> i,
             need |-> p.groups[i].members[n].need, on |-> p.groups[i].members[n].tracks] :
               n \in {m \in flags.nets \cap DOMAIN p.groups[i].members :
                         LET q == p.groups[i].members[m] IN q.routed /\ q.need > 0 /\ ~q.inTol}} :
           i \in DOMAIN p.groups}

\* What the groups say of a net that is out of tolerance, leg by leg.
OutMembers(p, n) ==
    {[at |-> i, need |-> p.groups[i].members[n].need] :
        i \in {j \in DOMAIN p.groups :
                 /\ n \in DOMAIN p.groups[j].members
                 /\ LET m == p.groups[j].members[n]
                    IN  m.routed /\ ~m.inTol /\ (m.need > 0 \/ m.excess > 0)}}

Shorter(s, t) ==
    \/ s.need > t.need
    \/ s.need = t.need /\ Name[s.net] < Name[t.net]
    \/ s.need = t.need /\ s.net = t.net /\ s.at < t.at

\* mutant: a net's worst leg only
SelectWorst(p) ==
    Ordered({s \in Short(p) : \A t \in Short(p) : t.net = s.net /\ t # s => Shorter(s, t)}, Shorter)

SelectTargets(p) == Ordered(Short(p), Shorter)

Planned(c, devs) == BuildPlan(board, c, devs, flags.loose)

Missing(c, p) == MissingHops(board, c, p.devices)

Init ==
    /\ board \in Boards /\ flags \in Asked
    /\ copper = board.copper /\ devices = board.devices
    /\ nextId = Max({p.id : p \in board.copper}) + 1
    /\ phase = IF flags.suggest THEN "suggest" ELSE "load"
    /\ offered = {} /\ plan = [groups |-> <<>>, devices |-> <<>>]
    /\ groups = <<>> /\ buses = <<>> /\ targets = <<>>
    /\ job = NoJob /\ results = <<>> /\ headroom = <<>>

\* A plan is made of the copper as it is, and the targets from the plan.
Replan(c) ==
    LET p == Planned(c, devices)
    IN  plan' = p /\ devices' = p.devices /\ targets' = SelectTargets(p)

----------------------------------------------------------------------------
(* handleSuggestAreas *)

\* The nets out of tolerance, short or long, with what they lack altogether.
Candidates(p) ==
    {[net |-> n, need |-> MapThenSumSet(LAMBDA m : m.need, OutMembers(p, n))] :
        n \in {m \in Nets : OutMembers(p, m) # {}}}

\* The copper of the first group that has the net.
TrackIDs(p, n) ==
    LET having == {i \in DOMAIN p.groups : n \in DOMAIN p.groups[i].members}
    IN  p.groups[Min(having)].members[n].tracks

MoreNeeded(c, d) == c.need > d.need \/ (c.need = d.need /\ Name[c.net] < Name[d.net])

\* The spots of every candidate, the one with most need first.
SpotsOf(p) ==
    LET nets == Ordered(Candidates(p), MoreNeeded)
        found(i) == Ordered(Spots(nets[i].net, TrackIDs(p, nets[i].net), copper),
                            LAMBDA s, t : Earlier(s.run, t.run))
    IN  FlattenSeq([i \in DOMAIN nets |-> found(i)])

Proposed(p) ==
    LET need == MapThenSumSet(LAMBDA c : c.need, Candidates(p))
    IN  IF need = 0 THEN {} ELSE Suggest(SpotsOf(p), need)

\* The user draws what is proposed, and the board is loaded with it.
SuggestAreas ==
    /\ phase = "suggest" /\ phase' = "load"
    /\ plan' = Planned(copper, devices)
    /\ offered' = Proposed(plan')
    /\ board' = [board EXCEPT !.areas = @ \cup {Drawn(c) : c \in offered'}]
    /\ UNCHANGED <<flags, copper, devices, nextId, groups, buses, targets, job, results, headroom>>

----------------------------------------------------------------------------
(* run *)

AfterRouting == IF flags.expand THEN "group" ELSE "tune"

\* What each target's copper has room for: what it could hold, whole.
MeasureHeadroom(ts) ==
    [i \in DOMAIN ts |-> [target |-> ts[i], room |-> Headroom(ts[i].net, ts[i].on, copper, board.areas)]]

\* The first plan: when nothing is short the run ends here, whatever else was asked.
Load ==
    /\ phase = "load" /\ Replan(copper)
    /\ phase' = IF targets' = <<>> THEN "done"
                ELSE IF flags.route /\ Missing(copper, plan') # {} THEN "route"
                ELSE AfterRouting
    /\ groups' = plan'.groups /\ headroom' = MeasureHeadroom(targets')
    /\ UNCHANGED <<board, flags, copper, nextId, buses, job, results, offered>>

\* The router lays some of the connections the chain lacks, clear of the rest.
HopTrack(r, id) ==
    LET a == board.at[r.net][r.from]
        b == board.at[r.net][r.to]
        row == board.row[r.net]
    IN  [id |-> id, net |-> r.net, layer |-> board.layerTo[r.to], how |-> "route",
         x0 |-> Smaller(a, b), x1 |-> Larger(a, b), lo |-> row, hi |-> row, len |-> Larger(a, b) - Smaller(a, b)]

RequestBefore(r, q) ==
    \/ Name[r.net] < Name[q.net]
    \/ r.net = q.net /\ board.at[r.net][r.from] < board.at[q.net][q.from]

MayLay(t, c) ==
    /\ Clear(Candidate(<<BoxOf(t)>>, t.layer, t.net, {}, 0), c, board.areas)
    /\ \A p \in c : p.net = t.net /\ p.layer = t.layer => p.x1 <= t.x0 \/ t.x1 <= p.x0

RouteHops ==
    /\ phase = "route"
    /\ \E reqs \in SUBSET Missing(copper, plan) :
          LET order == Ordered(reqs, RequestBefore)
              laid == {HopTrack(order[i], nextId + i - 1) : i \in DOMAIN order}
          IN  /\ \A t \in laid : MayLay(t, copper \cup (laid \ {t}))
              /\ copper' = copper \cup laid /\ nextId' = nextId + Cardinality(laid)
    /\ Replan(copper') /\ groups' = plan'.groups
    /\ phase' = AfterRouting
    /\ UNCHANGED <<board, flags, buses, job, results, offered, headroom>>

----------------------------------------------------------------------------
(* Spreading, group by group *)

\* The largest need of each routed net, as the plan before spreading has it.
NeedsOf(g) == [n \in {m \in DOMAIN g.members : g.members[m].routed} |-> g.members[n].need]

NextGroup ==
    /\ phase = "group" /\ groups # <<>>
    /\ phase' = "bus"
    /\ buses' = FindBundles(DOMAIN NeedsOf(Head(groups)), copper, board.areas)
    /\ UNCHANGED <<board, flags, copper, devices, nextId, plan, groups, targets, job, results, offered, headroom>>

NextBus ==
    /\ phase = "bus" /\ buses # <<>>
    /\ LET moved == SpreadBus(Head(buses), NeedsOf(Head(groups)), copper, nextId, board.areas)
       IN  copper' = moved.copper /\ nextId' = moved.id
    /\ buses' = Tail(buses)
    /\ UNCHANGED <<board, flags, devices, phase, plan, groups, targets, job, results, offered, headroom>>

GroupSpread ==
    /\ phase = "bus" /\ buses = <<>>
    /\ phase' = "group" /\ groups' = Tail(groups)
    /\ UNCHANGED <<board, flags, copper, devices, nextId, plan, buses, targets, job, results, offered, headroom>>

\* Moving a trace lengthens it, so everything is measured again.
AllSpread ==
    /\ phase = "group" /\ groups = <<>>
    /\ Replan(copper)
    /\ phase' = IF targets' = <<>> THEN "done" ELSE "tune"
    /\ UNCHANGED <<board, flags, copper, nextId, groups, buses, job, results, offered, headroom>>

----------------------------------------------------------------------------
(* Tuner.Tune, one track at a time *)

\* mutant: length is added anywhere on the net
StartAnywhere ==
    /\ phase = "tune" /\ job = NoJob /\ targets # <<>>
    /\ LET t == Head(targets)
       IN  job' = [target |-> t, left |-> t.need,
                   tracks |-> RunsByTrack(FindRuns(t.net, {}, copper, board.areas))]
    /\ targets' = Tail(targets)
    /\ UNCHANGED <<board, flags, copper, devices, nextId, phase, plan, groups, buses, results, offered, headroom>>

StartTarget ==
    /\ phase = "tune" /\ job = NoJob /\ targets # <<>>
    /\ LET t == Head(targets)
       IN  job' = [target |-> t, left |-> t.need,
                   tracks |-> RunsByTrack(FindRuns(t.net, t.on, copper, board.areas))]
    /\ targets' = Tail(targets)
    /\ UNCHANGED <<board, flags, copper, devices, nextId, phase, plan, groups, buses, results, offered, headroom>>

\* The next track gets what its runs hold of the rest; a replacement that is
\* worse than the track is not made, and the rest stays as it was.
TuneTrack ==
    /\ phase = "tune" /\ job # NoJob /\ job.tracks # <<>> /\ job.left > 0
    /\ LET runs == Head(job.tracks)
           p == runs[1].track
           line == Replacement(p, Shapes(runs, job.left, copper, board.areas))
           made == /\ Gain(line) > 0
                   /\ MayReplace(p, Boxes(line), p.net, {p.id}, copper, board.areas)
       IN  /\ IF made
              THEN copper' = ReplaceTrack(copper, p, line, nextId, "tune") /\ nextId' = nextId + Len(line)
              ELSE UNCHANGED <<copper, nextId>>
           /\ job' = [job EXCEPT !.tracks = Tail(@), !.left = IF made THEN @ - Gain(line) ELSE @]
    /\ UNCHANGED <<board, flags, devices, phase, plan, groups, buses, targets, results, offered, headroom>>

EndTarget ==
    /\ phase = "tune" /\ job # NoJob /\ (job.tracks = <<>> \/ job.left <= 0)
    /\ results' = Append(results, [target |-> job.target, added |-> job.target.need - job.left,
                                   shortfall |-> Larger(0, job.left)])
    /\ job' = NoJob
    /\ UNCHANGED <<board, flags, copper, devices, nextId, phase, plan, groups, buses, targets, offered, headroom>>

\* The board is measured again for the report, and written.
Finish ==
    /\ phase = "tune" /\ job = NoJob /\ targets = <<>>
    /\ phase' = "done"
    /\ UNCHANGED <<board, flags, copper, devices, nextId, plan, groups, buses, targets, job, results, offered, headroom>>

Stopped == phase = "done" /\ UNCHANGED vars

Next == \/ SuggestAreas \/ Load \/ RouteHops \/ NextGroup \/ NextBus \/ GroupSpread \/ AllSpread
        \/ StartTarget \/ TuneTrack \/ EndTarget \/ Finish \/ Stopped

Spec == Init /\ [][Next]_vars

----------------------------------------------------------------------------
(* Properties *)

TooNear(p, o) ==
    /\ p.net # o.net /\ Coupled[p.net] # o.net /\ p.layer = o.layer
    /\ Apart(BoxOf(p), BoxOf(o)) < Max({ClearanceOf[p.net], ClearanceOf[o.net],
                                        ZoneClearance(board.areas, BoxOf(p), BoxOf(o))})

\* Copper of two nets keeps its clearance through routing, spreading and tuning
\* on a board that was clear: each change is checked against what the changes
\* before it left (router, expand.go moveUnit, meander.go Tune).  The halves of
\* a pair move together and are not checked against each other.
CopperClear ==
    (\A p, o \in board.copper : ~TooNear(p, o)) => \A p, o \in copper : ~TooNear(p, o)

Now == Planned(copper, devices)

\* The chain on the copper is the chain the nets are pinned in: each net's pads
\* lie in the order the devices do.
InOrder ==
    \A n \in FlyByNets : \A i, j \in DOMAIN devices :
        i < j /\ PadOn(board.at, n, devices[i]) /\ PadOn(board.at, n, devices[j])
            => board.at[n][devices[i]] < board.at[n][devices[j]]

Tuned == phase = "done" /\ results # <<>>

\* What was added for a net on the way to a leg's device, or in a lane.
AddedBefore(n, i) ==
    MapThenSumSet(LAMBDA k : results[k].added,
        {k \in DOMAIN results :
            /\ results[k].target.net = n
            /\ \/ results[k].target.at = i
               \/ Role[n] = "address" /\ results[k].target.at < i})

\* Every routed member of the plan in force, with the same one measured now.
Members(now) ==
    {[at |-> i, net |-> n, was |-> plan.groups[i].members[n], is |-> now.groups[i].members[n]] :
        <<i, n>> \in {q \in (DOMAIN plan.groups) \X Nets :
                        /\ q[2] \in DOMAIN plan.groups[q[1]].members
                        /\ plan.groups[q[1]].members[q[2]].routed}}

\* The report is true: every route measures as much more at the end as the
\* results of its group, and of the legs before it, say was added.
ReportedIsDrawn ==
    Tuned /\ InOrder => \A m \in Members(Now) :
        m.is.routed /\ m.is.length = m.was.length + AddedBefore(m.net, m.at)

\* Nothing is made too long: a route that ends over what its group tolerates
\* was announced to (Member.Excess), though several legs lengthen one net.
ExcessAnnounced ==
    Tuned /\ InOrder => \A m \in Members(Now) : m.is.excess > 0 => m.was.excess > 0

\* When every target was met, and every net was asked for, every group is
\* matched: each leg counts what the legs before it add, and nothing else
\* (flyby.go upstream), where no group has a tolerance of its own.
MetMeansMatched ==
    /\ Tuned /\ InOrder /\ flags.nets = Nets /\ flags.loose = <<>>
    /\ \A k \in DOMAIN results : results[k].shortfall = 0
    => \A m \in Members(Now) : m.is.inTol \/ m.is.reference \/ m.was.excess > 0

\* An area that was proposed serves: within the areas drawn, a net finds at
\* least the room that was counted for it (server/suggest.go: "a proposal and a
\* hand-drawn area are the same kind of thing"), where no area asks for more space.
SuggestedServes ==
    phase = "load" /\ (\A z \in board.areas : z.gap = 0) =>
        \A n \in UNION {NetsOf(c) : c \in offered} :
            Headroom(n, TrackIDs(plan, n), copper, board.areas)
                >= MapThenSumSet(LAMBDA s : s.gain, {s \in UNION {c.spots : c \in offered} : s.net = n})

\* Headroom bounds what tuning achieves (tune/headroom_test.go), though the
\* nets are measured one by one on the board as it was, and tuned one after
\* another on what the others leave: nobody is told to reroute what would fit.
HeadroomBounds ==
    (\A p \in copper : p.how # "route" /\ p.how # "spread") =>
        \A k \in DOMAIN results : \A i \in DOMAIN headroom :
            headroom[i].target = results[k].target => results[k].added <= headroom[i].room

ConnectedNow == {r \in [net : FlyByNets, ref : ToSet(board.devices)] :
                   Found(copper, board.at, r.net, "ctrl", r.ref)}

\* No step takes a connection apart.
PathsKept == [][ConnectedNow \subseteq ConnectedNow']_vars
=============================================================================
