------------------------------ MODULE MCTuning ------------------------------
(***************************************************************************)
(* Two memory devices behind a controller: a clock and three address nets  *)
(* that pass u1 on their way to u2, and a byte lane of three nets.  The     *)
(* boards differ in the lengths of their pads' stubs, in how near the next *)
(* net's copper is, in what is routed and in the areas given.              *)
(***************************************************************************)
EXTENDS Tuning

MCNets == {"ck", "a0", "a1", "a2", "qs", "q0", "q1", "gnd"}

MCRole == [n \in MCNets |->
    CASE n = "ck" -> "clock" [] n \in {"a0", "a1", "a2"} -> "address"
      [] n = "qs" -> "strobe" [] n \in {"q0", "q1"} -> "data" [] n = "gnd" -> "none"]

MCLaneOf == [n \in MCNets |-> IF n \in {"qs", "q0", "q1"} THEN 0 ELSE -1]

MCClearance == [n \in MCNets |-> IF n = "gnd" THEN 2 ELSE 1]

MCCoupled == [n \in MCNets |-> IF n = "a1" THEN "a2" ELSE IF n = "a2" THEN "a1" ELSE n]

Row == [n \in MCNets |->
    CASE n = "ck" -> 0 [] n = "a0" -> 3 [] n = "a1" -> 6 [] n = "a2" -> 8
      [] n = "qs" -> 0 [] n = "q0" -> 2 [] n = "q1" -> 4 [] n = "gnd" -> 11]

\* The fly-by nets change layers at u1.
LayerTo == [ctrl |-> 1, u1 |-> 1, u2 |-> 3, term |-> 3]

FlyBy == {"ck", "a0", "a1", "a2"}

Places(n) ==
    CASE n \in FlyBy -> [ctrl |-> 0, u1 |-> 11, u2 |-> 22, term |-> 25]
      [] n = "gnd" -> [ctrl |-> NoPad, u1 |-> NoPad, u2 |-> NoPad, term |-> NoPad]
      [] OTHER -> [ctrl |-> 0, u1 |-> 11, u2 |-> NoPad, term |-> NoPad]

Track(id, n, x0, x1) ==
    [id |-> id, net |-> n, layer |-> IF MCLaneOf[n] = 0 THEN 2 ELSE IF x0 < 11 THEN 1 ELSE 3, how |-> "board",
     x0 |-> x0, x1 |-> x1, lo |-> Row[n], hi |-> Row[n], len |-> x1 - x0]

Routed == {Track(1, "ck", 0, 11), Track(2, "ck", 11, 22), Track(3, "a0", 0, 11), Track(4, "a0", 11, 22),
           Track(5, "a1", 0, 11), Track(6, "a1", 11, 22), Track(7, "a2", 0, 11), Track(8, "a2", 11, 22),
           Track(9, "qs", 0, 11), Track(10, "q0", 0, 11), Track(11, "q1", 0, 11)}
          \cup {Track(11 + i, n, 22, 25) : <<i, n>> \in {<<1, "ck">>, <<2, "a0">>, <<3, "a1">>, <<4, "a2">>}}

Wall(x0, x1) == {Track(20, "gnd", x0, x1)}

\* Stubs: what the clock has more at u1 and at u2, the strobe at u1, and what
\* the other nets have of their own.
Stubs(c1, c2, q, own) == [n \in MCNets |->
    [ctrl |-> 0, term |-> 0,
     u1 |-> IF n = "ck" THEN c1 ELSE IF n = "qs" THEN q ELSE IF n = "a0" THEN own ELSE 0,
     u2 |-> IF n = "ck" THEN c2 ELSE IF n = "a2" THEN own ELSE 0]]

Board(tracks, stub, areas, order) ==
    [at |-> [n \in MCNets |-> Places(n)], stub |-> stub, copper |-> tracks, areas |-> areas,
     devices |-> order, row |-> Row, layerTo |-> LayerTo]

Area(x0, x1, lo, hi, gap) == [x0 |-> x0, x1 |-> x1, lo |-> lo, hi |-> hi, gap |-> gap]

MCName == [n \in MCNets |->
    CASE n = "a0" -> 0 [] n = "a1" -> 1 [] n = "a2" -> 2 [] n = "ck" -> 3
      [] n = "gnd" -> 4 [] n = "q0" -> 5 [] n = "q1" -> 6 [] n = "qs" -> 7]

MCBoards ==
    {Board(Routed \cup wall, Stubs(c1, c2, q, own), {}, <<"u1", "u2">>) :
        wall \in {{}, Wall(0, 11), Wall(12, 16)}, c1 \in {2, 11}, c2 \in {1, 7}, q \in {6}, own \in {1}}
    \cup {Board(Routed, Stubs(3, 9, 4, 0), areas, <<"u2", "u1">>) :
            areas \in {{Area(0, 25, 0, 10, 0)}, {Area(3, 18, 4, 11, 2), Area(0, 8, 2, 6, 1)}}}
    \cup {Board({p \in Routed : p.id \notin gone}, Stubs(3, 9, 4, 0), {}, <<"u1", "u2">>) :
            gone \in {{4}, {6, 8}, {2, 4, 6, 8}}}
    \cup {Board({[p EXCEPT !.layer = 1] : p \in Routed}, Stubs(5, 7, 4, 0), {}, <<"u1", "u2">>)}
    \cup {[Board(Routed, Stubs(c1, 4, 4, 0), {}, <<"u1", "u2">>)
             EXCEPT !.at["a0"] = [ctrl |-> 0, u1 |-> 22, u2 |-> 11, term |-> 25]] : c1 \in {3, 14}}

MCAsked == [suggest : {FALSE}, route : {TRUE}, expand : BOOLEAN, nets : {MCNets}, loose : {<<>>}]
           \cup [suggest : {FALSE}, route : {FALSE}, expand : {FALSE}, nets : {{"a0", "q1"}}, loose : {<<>>}]
           \cup [suggest : {TRUE}, route : {FALSE}, expand : {FALSE}, nets : {MCNets}, loose : {<<>>}]
=============================================================================
