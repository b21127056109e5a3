------------------------------ MODULE NetLookup ------------------------------
(* What the plugin's panel is told of a net the user clicks (netRows and         *)
(* lookupNets of server/kicad.go, and the rows detectInterfaces makes for them):  *)
(* the rows of its own, or else those of the signals that run through a series    *)
(* part onto it.  The rows are judged apart from the candidates of the report,    *)
(* and both must come to the same.                                                *)
EXTENDS InterfaceReport, SeriesParts

Row(net, group, reference, routed, within, need, excess) ==
    [net |-> net, group |-> group, reference |-> reference, routed |-> routed,
     within |-> within, need |-> need, excess |-> excess]

\* judge: a net with no route is neither in tolerance nor short.
Judged(net, group, reference, routed, off, limit) ==
    LET within == routed /\ (limit = 0 \/ Abs(off) <= limit)
        wanting == routed /\ ~within /\ ~reference
    IN  Row(net, group, reference, routed, within,
            IF wanting THEN Larger(0, -off) ELSE 0, IF wanting THEN Larger(0, off - limit) ELSE 0)

RowsOfGroup(g, target, references, len) ==
    {Judged(m, g.name, m \in references, len[m] > 0, len[m] - target, g.limit) : m \in g.members}

GroupRows(i, len, own) ==
    UNION {RowsOfGroup(g, Target(i, g, len, own), ReferenceNets(i, g, len, own), len) : g \in i.groups}

HalfRow(i, q, half, other, len) ==
    Judged(half, <<"half", half>>, FALSE, PairRouted(q, len), len[half] - len[other], PairLimit[i.kind])

\* The half no group has, of a pair a group has the other half of.
HalfRows(i, len) ==
    {HalfRow(i, q, q.n, q.p, len) : q \in {r \in i.pairs : r.p \in Grouped(i) /\ r.n \notin Grouped(i)}} \cup
    {HalfRow(i, q, q.p, q.n, len) : q \in {r \in i.pairs : r.n \in Grouped(i) /\ r.p \notin Grouped(i)}}

\* mutant: each half is held to the other, and the longer is told to be shorter
PairRowsEach(i, len) ==
    UNION {{Judged(h, PairName(q), FALSE, PairRouted(q, len), len[h] - Smaller(len[q.p], len[q.n]),
                   PairLimit[i.kind]) : h \in {q.p, q.n}} : q \in OwnPairs(i)}

\* Both halves of a pair of its own are held to the longer.
PairRows(i, len) ==
    UNION {{Judged(h, PairName(q), FALSE, PairRouted(q, len), len[h] - Larger(len[q.p], len[q.n]),
                   PairLimit[i.kind]) : h \in {q.p, q.n}} : q \in OwnPairs(i)}

\* netRows: a memory bus has its rows from its own planner.
NetRows(readings, len, own) ==
    UNION {GroupRows(i, len, own) \cup HalfRows(i, len) \cup PairRows(i, len) :
        i \in {j \in readings : j.kind # "ddr"}}

--------------------------------------------------------------------------------
(* The rows of the page, judged a third time.                                    *)

\* A member as its group lists it: the halves of the reference are always in
\* tolerance, and so is a net with no route.
Listed(m, g, off, routed, isReference) ==
    LET within == isReference \/ ~routed \/ g.limit = 0 \/ Abs(off) <= g.limit
    IN  Row(m, g.name, isReference, routed, within,
            IF ~within /\ off < 0 THEN -off ELSE 0, IF ~within /\ off >= 0 THEN off - g.limit ELSE 0)

GroupList(g, target, references, len) ==
    {Listed(m, g, len[m] - target, len[m] > 0, m \in references) : m \in g.members}

\* A pair that is out lists the shorter half as short, and the other as reference.
PairList(q, len) ==
    {Row(h, PairName(q), h # Shorter(q, len), TRUE, h # Shorter(q, len),
         IF h = Shorter(q, len) THEN Skew(q, len) ELSE 0, 0) : h \in {q.p, q.n}}

PageRows(i, len, own) ==
    (UNION {GroupList(g, Target(i, g, len, own), ReferenceNets(i, g, len, own), len) : g \in i.groups}) \cup
    (UNION {PairList(q, len) : q \in OwnPairs(i) \cap PairsOut(i, len)})

--------------------------------------------------------------------------------
(* Looking a net up.                                                             *)

\* label: the sheet and a leading DDR_ are not shown.
Shown(name) == IF name.leaf[1] = "DDR" /\ Len(name.leaf) > 1 THEN Tail(name.leaf) ELSE name.leaf

\* The net a name is of: its own, or the one that alone is shown so.
Meant(asked, nets) ==
    LET named == {n \in nets : Names[n] = asked}
        shown == {n \in nets : Shown(Names[n]) = Shown(asked)}
    IN  IF named # {} THEN named ELSE IF Cardinality(shown) = 1 THEN shown ELSE {}

\* continuing: the rows of the signals that run on onto net.
Continuing(rows, net, runs) == {r \in rows : net \in runs[r.net] \ {r.net}}

RowsFor(rows, net, runs) ==
    LET own == {r \in rows : r.net = net} IN IF own # {} THEN own ELSE Continuing(rows, net, runs)

NeedsAttention(r) == r.routed /\ ~r.within /\ ~r.reference

\* lookupNets: what a name is answered with, and what all that needs attention is.
Answer(rows, asked, nets, runs) == UNION {RowsFor(rows, net, runs) : net \in Meant(asked, nets)}
WorkOrder(rows) == {r \in rows : NeedsAttention(r)}
=============================================================================
