---------------------------- MODULE InterfaceReport ----------------------------
(* What an interface needs (proto/measure.go, and detectInterfaces and            *)
(* islandJoins of server/interfaces.go): its pairs against each other, its groups *)
(* against their reference, who is to be lengthened and by how much, and the      *)
(* connections its nets have not got.  own[n] is what a net's longest route        *)
(* measures, 0 while it has none, and len[n] the whole signal's length, across the *)
(* series parts it passes through; lengths are whole units.                       *)
EXTENDS InterfaceNames

CONSTANTS
    PairLimit,      \* kind -> the limit between the halves of a pair, 0 for none
    MaxPairFix      \* the most that is added to one half of a pair

Abs(x) == IF x < 0 THEN -x ELSE x
Smaller(x, y) == IF x < y THEN x ELSE y
Larger(x, y) == IF x > y THEN x ELSE y

--------------------------------------------------------------------------------
(* Assess.                                                                       *)

\* Without a routed reference a group is judged against its own longest member.
ReferenceLength(g, len) ==
    IF g.reference # 0 /\ len[g.reference] > 0 THEN len[g.reference]
    ELSE Max({len[m] : m \in g.members} \cup {0})

PairRouted(q, len) == len[q.p] > 0 /\ len[q.n] > 0
Skew(q, len) == Abs(len[q.p] - len[q.n])
PairWithin(i, q, len) == PairLimit[i.kind] = 0 \/ Skew(q, len) <= PairLimit[i.kind]

PairsOut(i, len) == {q \in i.pairs : PairRouted(q, len) /\ ~PairWithin(i, q, len)}

MembersOut(i, len) ==
    UNION {{m \in g.members : /\ g.limit > 0 /\ len[m] > 0
                              /\ Abs(len[m] - ReferenceLength(g, len)) > g.limit} : g \in i.groups}

\* Actionable: something here that adding length could improve.
Actionable(i, len) == PairsOut(i, len) # {} \/ MembersOut(i, len) # {}

--------------------------------------------------------------------------------
(* The targets, the rows and the candidates (detectInterfaces).                  *)

\* The other half of the reference, where it is half of a pair and routed.
OtherHalves(i, g, len, own) ==
    {h \in UNION {IF q.p = g.reference THEN {q.n} ELSE IF q.n = g.reference THEN {q.p} ELSE {} : q \in i.pairs} :
        own[h] > 0 /\ ReferenceLength(g, len) > 0}

\* The target: the reference, or the mean of the pair it is half of, whose other
\* half is measured without what it passes through.
Mean(reference, others) == IF others = {} THEN reference ELSE (reference + Max(others)) \div 2

Target(i, g, len, own) == Mean(ReferenceLength(g, len), {own[h] : h \in OtherHalves(i, g, len, own)})

ReferenceNets(i, g, len, own) == {g.reference} \cup OtherHalves(i, g, len, own)

Candidate(net, group, length, need, excess, reroute) ==
    [net |-> net, group |-> group, length |-> length, need |-> need, excess |-> excess, reroute |-> reroute]

\* A member out of its group's limit, short or long.
MemberAsks(g, m, size, need, excess) ==
    Candidate(m, g.name, size, need, excess, excess > 0 \/ 4 * need > size)

\* mutant: a member that is too long is left out
OffShort(size, target, limit) == size > 0 /\ limit > 0 /\ size < target - limit

\* The routed members that are off the target, the reference's own halves aside.
Off(size, target, limit) == size > 0 /\ size # target /\ ~(limit > 0 /\ Abs(size - target) <= limit)

GroupAsks(g, members, target, len) ==
    {MemberAsks(g, m, len[m], Larger(0, target - len[m]), Larger(0, len[m] - target - g.limit)) :
        m \in {n \in members : Off(len[n], target, g.limit)}}

GroupCandidates(i, len, own) ==
    UNION {GroupAsks(g, g.members \ ReferenceNets(i, g, len, own), Target(i, g, len, own), len) : g \in i.groups}

Grouped(i) == UNION {g.members : g \in i.groups}

\* mutant: a pair is matched to itself whatever groups its halves are in
OwnPairsAll(i) == i.pairs

\* The pairs that are matched only to themselves: no half is in a group.
OwnPairs(i) == {q \in i.pairs : q.p \notin Grouped(i) /\ q.n \notin Grouped(i)}

PairName(q) == <<"pair", q.p>>

Shorter(q, len) == IF len[q.n] < len[q.p] THEN q.n ELSE q.p

PairAsks(q, net, size, need) ==
    Candidate(net, PairName(q), size, need, 0, 4 * need > size \/ (MaxPairFix > 0 /\ need > MaxPairFix))

PairCandidates(i, len) ==
    {PairAsks(q, Shorter(q, len), len[Shorter(q, len)], Skew(q, len)) : q \in OwnPairs(i) \cap PairsOut(i, len)}

Candidates(i, len, own) == GroupCandidates(i, len, own) \cup PairCandidates(i, len)

--------------------------------------------------------------------------------
(* islandJoins: from one island, again and again the nearest not yet reached.    *)
(* An island is the set of the places of its pads, along one line.               *)

\* A closest pair of pads between what is reached and what is not.
Shortest(links) == CHOOSE l \in links : \A o \in links : Abs(l[1] - l[2]) <= Abs(o[1] - o[2])

\* mutant: the nearest to the island it started from
NearestToFirst(reached, islands) ==
    Shortest((CHOOSE a \in islands : \A b \in islands : Min(a) <= Min(b)) \X UNION (islands \ reached))

Nearest(reached, islands) == Shortest((UNION reached) \X UNION (islands \ reached))

Reach(was, link, islands) ==
    [reached |-> was.reached \cup {a \in islands : link[2] \in a}, joins |-> was.joins \cup {link}]

IslandJoins(islands) ==
    FoldLeft(LAMBDA was, k : Reach(was, Nearest(was.reached, islands), islands),
             [reached |-> {CHOOSE a \in islands : \A b \in islands : Min(a) <= Min(b)}, joins |-> {}],
             [k \in 1 .. Cardinality(islands) - 1 |-> k]).joins
=============================================================================
