------------------------------ MODULE MCChecker ------------------------------
(***************************************************************************)
(* Checker on a small board: a part with two pads in its courtyard, the    *)
(* board edge, a pour on the back, one track, and paths of three nets that *)
(* may be laid in the part, across its edge and away from it, one of them  *)
(* through a via.  Three tracks may get a meander.                         *)
(***************************************************************************)
EXTENDS Checker

Track(id, net, box) == [id |-> id, kind |-> "track", net |-> net, on |-> <<"F">>, box |-> box]

Along(x0, x1, y) == Box(x0, x1, y, y)
Across(x, y0, y1) == Box(x, x, y0, y1)

a1 == Track("a1", "A", Along(1, 6, 1))
a2 == Track("a2", "A", Along(9, 11, 0))
b1 == Track("b1", "B", Along(1, 2, 2))
b2 == Track("b2", "B", Along(4, 7, 2))
b3 == Track("b3", "B", Along(9, 11, 4))
n1 == Track("n1", "N", Along(9, 11, 8))
v1 == [Track("v1", "A", Box(7, 7, 2, 2)) EXCEPT !.kind = "via", !.on = <<"F", "B">>]
w1 == [Track("w1", "A", Along(7, 9, 2)) EXCEPT !.on = <<"B">>]
g1 == [Track("g1", "B", Along(7, 9, 3)) EXCEPT !.on = <<"B">>]

MCPaths == {<<a1>>, <<b1>>, <<b2>>, <<b3>>, <<n1>>, <<v1, w1>>, <<g1>>}

MCMeanders ==
    {[of |-> a1, run |-> <<Track("a3", "A", Along(1, 4, 1)), Track("a4", "A", Across(4, 0, 1)),
                           Track("a5", "A", Along(4, 6, 0)), Track("a9", "A", Across(6, 0, 1))>>],
     [of |-> a2, run |-> <<Track("a6", "A", Across(9, 0, 1)), Track("a7", "A", Along(9, 11, 1)),
                           Track("a8", "A", Across(11, 0, 1))>>],
     [of |-> b3, run |-> <<Track("b4", "B", Along(9, 10, 4)), Track("b5", "B", Across(10, 3, 4)),
                           Track("b6", "B", Along(10, 11, 3)), Track("b7", "B", Across(11, 3, 4))>>]}

Copper(box, layer, net, kind, ref, owner) ==
    [box |-> box, layer |-> layer, net |-> net, kind |-> kind, ref |-> ref, owner |-> owner]

MCFixed ==
    <<Copper(Along(1, 1, 1), "F", "A", "pad", "U1.1", "U1"),
      Copper(Along(1, 1, 3), "F", "B", "pad", "U1.2", "U1"),
      Copper(Box(0, 4, 0, 5), "B", "N", "zone", "", ""),
      Copper(Along(0, 12, -2), "", "", "board-edge", "", "")>>

Found(says) == [says |-> says, form |-> AsFound, sep |-> AsFound]

MCFile == <<Found([name |-> "footprint", of |-> "U1"]), Found(NodeSays(a2)),
            Found([name |-> "gr_line", of |-> "edge"]), Found([name |-> "zone", of |-> "N"])>>

MCCopperLayers == <<"F", "I", "B">>

MCComponents == {Box(1, 1, 1, 3)}

MCCourtyards == [f \in {"U1", "U2"} |-> IF f = "U1" THEN {Box(0, 6, 0, 4)} ELSE {Box(9, 12, 3, 5)}]

MCItems ==
    {CandItem(t.net, t.box) : t \in Tracks} \cup {TrackItem(t) : t \in Tracks}
      \cup {ObstacleItem(MCFixed[i]) : i \in {j \in DOMAIN MCFixed : MCFixed[j].kind # "board-edge"}}

----------------------------------------------------------------------------
\* Conditions, token by token.
Op(o) == [tok |-> o]

Term(of, field, arg, eq) == [tok |-> "term", of |-> of, field |-> field, arg |-> arg, eq |-> eq]

In(f) == Term("A", "intersectsCourtyard", f, TRUE)

IsTrack == Term("A", "Type", {"Track"}, TRUE)

Rule(min, cond) == [min |-> min, cond |-> cond]

Fanout == Rule(1, <<In("U1"), Op("&&"), IsTrack>>)

\* (in U1 or in U2) and not N, with brackets that matter.
Either == Rule(1, <<Op("("), In("U1"), Op("||"), In("U2"), Op(")"), Op("&&"),
                    Op("!"), Term("A", "NetName", {"N"}, TRUE)>>)

PadRule == Rule(1, <<Term("A", "Type", {"Pad"}, TRUE), Op("&&"),
                     Op("("), Term("A", "memberOfFootprint", "U1", TRUE), Op("||"),
                     Term("A", "memberOfFootprint", "U2", TRUE), Op(")")>>)

\* What this cannot read: an unknown term behind one it knows, and a bracket
\* that is not closed.
ByClass == Rule(1, <<IsTrack, Op("&&"), Term("A", "NetClass", {"Signal"}, FALSE)>>)

Broken == Rule(1, <<IsTrack, Op("&&"), Op("("), In("U1")>>)

\* A rule with no clearance, which the reader leaves out.
NoValue == Rule(0, <<IsTrack>>)

MCRuleLists == << <<>>, <<Fanout, PadRule, ByClass>>, <<Broken, NoValue, Either>> >>

MCPatterns == <<[class |-> "Power", nets |-> {"N", "B"}], [class |-> "Signal", nets |-> {"A", "B"}],
                [class |-> "Gone", nets |-> {"B"}]>>

MCClassClearance == [c \in {"Default", "Signal", "Power"} |-> IF c = "Power" THEN 3 ELSE 2]

MCZones == {[box |-> Box(8, 12, 3, 8), gap |-> 5]}
==============================================================================
