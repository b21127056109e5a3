------------------------------ MODULE Interfaces ------------------------------
(* The interfaces of a board as the user works through them (detectInterfaces of *)
(* server/interfaces.go): the names are read, the user says what an interface    *)
(* really is and what its limits are, missing connections are routed, and the    *)
(* nets that are short are given length, the report being made again after each. *)
EXTENDS NetLookup, DdrClassify

CONSTANTS
    Boards,         \* the sets of nets a board may have
    FirstLengths,   \* a board -> what its nets may measure to begin with
    Broken,         \* a board -> the islands of its nets that are not in one piece
    Wirings,        \* a board -> the parts its nets may have pads on
    Sayings,        \* an interface -> what the user may say of it
    Limits,         \* the limits the user may set for a group
    Rooms,          \* how much of it a candidate may have room for
    MaxEdits        \* bound: what the user says, in all

VARIABLES
    board,      \* the nets of the board
    found,      \* Detect(board): the names do not change, and neither does this
    wiring,     \* net -> the parts it has pads on
    ddr,        \* the structure of the memory bus, where there is one
    segments,   \* net -> the nets its signal runs on
    length,     \* net -> what its longest route measures, 0 with none
    signal,     \* net -> what its signal measures, over all its segments
    joined,     \* net -> its islands, where it has more than one
    over,       \* id -> what the user said of it (Params.Interfaces)
    tolerance,  \* <<interface name, group name>> -> limit (GroupToleranceMM)
    report,     \* the interfaces reported, with what they ask for
    edits

\* The islands of a net are sets of pads that have nothing in common.
IsIslands(islands) ==
    /\ IsFiniteSet(islands) /\ islands # {}
    /\ \A a \in islands : a \in SUBSET Int /\ a # {} /\ IsFiniteSet(a)
    /\ \A a \in islands, b \in islands : a # b => a \cap b = {}

\* What is said of an interface in general names no net of it.
ASSUME InterfacesAssumption ==
    /\ \A b \in Boards :
          /\ b \subseteq Nets
          /\ FirstLengths[b] \subseteq [b -> Nat]
          /\ DOMAIN Broken[b] \subseteq b
          /\ \A n \in DOMAIN Broken[b] : IsIslands(Broken[b][n])
    /\ \A k \in DOMAIN Label : GroupLimit[k] \in Nat /\ PairLimit[k] \in Nat
    /\ \A k \in DOMAIN Label : \A o \in Sayings[k] :
          o.kind \in DOMAIN Label \cup {""} /\ o.reference = 0
    /\ Limits \subseteq Nat /\ Rooms \subseteq Nat /\ MaxSeriesHops \in Nat

vars == <<board, found, wiring, ddr, segments, length, signal, joined, over, tolerance, report, edits>>

Nothing == [kind |-> "", reference |-> 0, ignore |-> FALSE]

\* What the user said of an interface: looked up by ID, not by the name reported.
Told(i, said) == IF ID(i) \in DOMAIN said THEN said[ID(i)] ELSE Nothing

Reassigned(i, kind) == IF kind \notin {"", i.kind} THEN Reassign(i.nets, kind) ELSE i

Referenced(i, reference) == IF reference # 0 THEN WithReference(i, reference) ELSE i

\* A limit the user set replaces the family's before anything is judged by it.
Tolerated(i, limits) ==
    [i EXCEPT !.groups =
        {IF <<i.name, g.name>> \in DOMAIN limits
         THEN [g EXCEPT !.limit = limits[<<i.name, g.name>>]] ELSE g : g \in i.groups}]

Reading(i, o, limits) == Tolerated(Referenced(Reassigned(i, o.kind), o.reference), limits)

Entry(i, reading, len, own) ==
    [of |-> i, as |-> reading, actionable |-> Actionable(reading, len), candidates |-> Candidates(reading, len, own)]

\* detectInterfaces: an entry of the report for every interface not ignored.
Reported(ifaces, said, limits, len, own) ==
    {Entry(i, Reading(i, Told(i, said), limits), len, own) : i \in {j \in ifaces : ~Told(j, said).ignore}}

Measure(runs, own) == [n \in DOMAIN own |-> Joined(runs[n], own)]

\* Each analysis is of the board and the parameters as they are then.
Analyse ==
    /\ signal' = Measure(segments', length')
    /\ report' = Reported(found', over', tolerance', signal', length')

Missing(n) == IF n \in DOMAIN joined THEN IslandJoins(joined[n]) ELSE {}

\* The analysis of the memory: none where no net of it is found.
Memory(nets) == IF nets = {} THEN <<>> ELSE Classify(nets, wiring)

--------------------------------------------------------------------------------
Init ==
    /\ board \in Boards
    /\ found = Detect(board)
    /\ wiring \in Wirings[board]
    /\ ddr = Memory(Classified(ScopeOf(board, found), wiring))
    /\ length \in FirstLengths[board]
    /\ joined = Broken[board]
    /\ over = <<>> /\ tolerance = <<>> /\ edits = 0
    /\ segments = [n \in board |-> Segments(n, board)]
    /\ signal = Measure(segments, length)
    /\ report = Reported(found, over, tolerance, signal, length)

Set(f, x, v) == [y \in DOMAIN f \cup {x} |-> IF y = x THEN v ELSE f[y]]

\* The user says something of an interface, naming it as the report does or as
\* ID does.
Say(e) ==
    /\ edits < MaxEdits
    /\ \E id \in {ID(e.of), e.as.name}, o \in Sayings[e.of.kind] \cup
            {[Nothing EXCEPT !.reference = n] : n \in e.as.nets} :
        /\ id \notin DOMAIN over
        /\ over' = Set(over, id, o)
    /\ edits' = edits + 1
    /\ UNCHANGED <<board, found, wiring, ddr, segments, length, joined, tolerance>>

\* The user sets the limit of a group.
Tolerate(e) ==
    /\ edits < MaxEdits
    /\ \E g \in e.as.groups, l \in Limits : tolerance' = Set(tolerance, <<e.as.name, g.name>>, l)
    /\ edits' = edits + 1
    /\ UNCHANGED <<board, found, wiring, ddr, segments, length, joined, over>>

\* The router makes one missing connection: two islands become one, and the
\* longest route of the net is now the one that spans it, where that is longer.
Connect(n) ==
    /\ n \in DOMAIN joined
    /\ \E l \in Missing(n) :
        LET ends == {a \in joined[n] : l[1] \in a \/ l[2] \in a}
            islands == (joined[n] \ ends) \cup {UNION ends}
        IN  /\ joined' = [joined EXCEPT ![n] = islands]
            /\ length' = [length EXCEPT ![n] = Larger(@, Max(UNION ends) - Min(UNION ends))]
    /\ UNCHANGED <<board, found, wiring, ddr, segments, over, tolerance, edits>>

Lengthened(e, room) ==
    [n \in board |->
        length[n] + Max({0} \cup {Smaller(c.need, room) : c \in {d \in e.candidates : d.net = n}})]

\* The user applies the report: every candidate of an interface is given the
\* length it asks for, or as much of it as there was room for.
Lengthen(e) ==
    /\ e.candidates # {}
    /\ \E room \in Rooms : length' = Lengthened(e, room)
    /\ UNCHANGED <<board, found, wiring, ddr, segments, joined, over, tolerance, edits>>

Act ==
    \/ \E e \in report : Say(e) \/ Tolerate(e) \/ Lengthen(e)
    \/ \E n \in board : Connect(n)

\* Every request is followed by an analysis.
Next == Act /\ Analyse

Spec == Init /\ [][Next]_vars

--------------------------------------------------------------------------------
(* Properties.                                                                   *)

\* Every differential pair of the board is held to a limit in exactly one of the
\* interfaces reported, whatever family the user gave it, unless the interface
\* both its halves are in was ignored (FindPairs, Reassign, Detect).
PairsChecked ==
    \A q \in FindPairs(board) :
        \/ \E i \in found : Told(i, over).ignore /\ {q.p, q.n} \subseteq i.nets
        \/ Cardinality({e \in report : q \in e.as.pairs}) = 1

\* Applying what the report asks of an interface, where there is room for it all,
\* settles the interface: measured again it asks for no more, so that rounds of
\* lengthening and measuring cannot chase each other upwards.  Where a clock pair
\* was itself made even, what is matched to it is asked for in the next round.
References(e) == UNION {ReferenceNets(e.as, g, signal, length) : g \in e.as.groups}

AppliedSettles ==
    [][\A e \in report :
          e.candidates # {} /\ {c.net : c \in e.candidates} \cap References(e) = {} /\ over' = over /\ tolerance' = tolerance /\ length' = Lengthened(e, Max(Rooms))
          => \A f \in report' : f.of = e.of => \A c \in f.candidates : c.need = 0]_vars

\* When an interface asks for nothing, it is matched: the routed members of a group
\* lie within twice its limit of each other, and a pair no group has a half of
\* is within the limit of its family.
Together(nets, limit) ==
    \A m, n \in nets : signal[m] > 0 /\ signal[n] > 0 => Abs(signal[m] - signal[n]) <= 2 * limit

SilentMeansMatched ==
    \A e \in report : e.candidates = {} =>
        /\ \A g \in e.as.groups : Together(g.members \ ReferenceNets(e.as, g, signal, length), g.limit)
        /\ \A q \in e.as.pairs :
               {q.p, q.n} \cap Grouped(e.as) = {} /\ PairRouted(q, signal) => PairWithin(e.as, q, signal)

\* A net is judged three times, for what is asked of it (interfaces.go:421-455 and
\* 497-514), for the page (396-419 and 515-540) and for the panel (kicad.go:88-99),
\* and the user is told the same each time: whatever has a candidate is in the
\* page's rows and in the panel's list of work with the same figures, and is what
\* a click on it shows, or on a net its signal runs on to that has no row of its
\* own; and nothing is to be changed on the page or in the panel that is not
\* asked for, the half of a pair whose other half alone is in a group aside.
Rows == NetRows({e.as : e \in report}, signal, length)

Tells(r, c) == r.net = c.net /\ r.group = c.group /\ r.need = c.need /\ r.excess = c.excess

Limited(e, c) == \A g \in e.as.groups : g.name = c.group => g.limit > 0

ToldOf(rows, c) ==
    \A n \in {c.net} \cup {m \in segments[c.net] : \A r \in rows : r.net # m} :
        \A asked \in {Names[n], [scope |-> <<>>, leaf |-> Shown(Names[n])]} :
            Meant(asked, board) = {n} => \E r \in Answer(rows, asked, board, segments) : NeedsAttention(r) /\ Tells(r, c)

AskedBy(e) == {c \in e.candidates : Limited(e, c)}

PageTells(rows, asks) ==
    /\ \A c \in asks : \E r \in rows : Tells(r, c)
    /\ \A r \in rows : r.need > 0 \/ r.excess > 0 => \E c \in asks : Tells(r, c)

PanelTells(rows, asks) ==
    /\ \A c \in asks : ToldOf(rows, c)
    /\ \A r \in WorkOrder(rows) : r.group[1] = "half" \/ \E c \in asks : Tells(r, c)

ToldAlike ==
    /\ \A e \in report : PageTells(PageRows(e.as, signal, length), AskedBy(e))
    /\ PanelTells(Rows, UNION {AskedBy(e) : e \in {f \in report : f.as.kind # "ddr"}})

\* Every byte lane that has data has one strobe, both halves of it, and the
\* strobe lands on a memory the data lands on (classify.go:302-308), on a board
\* that gives every memory as many strobes as lanes.
Strobes(lane) == {n \in DOMAIN ddr.signals : ddr.signals[n].role = "strobe" /\ ddr.signals[n].lane = lane}
Bits(lane) == {n \in DOMAIN ddr.signals : ddr.signals[n].role = "data" /\ ddr.signals[n].lane = lane}

StrobePerLane ==
    ddr # <<>> => \A lane \in {ddr.signals[n].lane : n \in DOMAIN ddr.signals} \ {-1} : Bits(lane) # {} =>
        /\ Cardinality(Strobes(lane)) = 2
        /\ \A n \in Strobes(lane) :
               /\ ddr.pairs[n] = Strobes(lane) \ {n}
               /\ \A m \in Bits(lane) : wiring[n] \cap wiring[m] \cap ddr.devices # {}

\* The connections a net is said to miss join its islands into one, with as
\* little copper between their pads as any set of connections that does.
Joins(links, islands) ==
    \A part \in (SUBSET islands) \ {{}, islands} :
        \E l \in links : (l[1] \in UNION part) # (l[2] \in UNION part)

Copper(links) == FoldSet(LAMBDA l, sum : sum + Abs(l[1] - l[2]), 0, links)

Trees(islands) ==
    {t \in kSubset(Cardinality(islands) - 1, {l \in (UNION islands) \X (UNION islands) : l[1] < l[2]}) :
        Joins(t, islands)}

FewestJoins ==
    \A n \in DOMAIN joined :
        /\ Joins(Missing(n), joined[n])
        /\ \A t \in Trees(joined[n]) : Copper(Missing(n)) <= Copper(t)

\* The id the report gives an interface names it in what the user then says of it
\* (interfaces.go:30-31 and 219, detect.go:673): an interface that was ignored is
\* no longer reported, and one that was given a family is reported as that.
OverridesHeeded ==
    \A e \in report : e.as.name \in DOMAIN over =>
        /\ ~over[e.as.name].ignore
        /\ over[e.as.name].kind \in {"", e.as.kind}
=============================================================================
