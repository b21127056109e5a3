------------------------------ MODULE MCRouter ------------------------------
(***************************************************************************)
(* Router on a corridor of eight lanes: two hops of net n1, one each of n2 *)
(* and n3 that have fewer ways to go.                                      *)
(***************************************************************************)
EXTENDS Router

MCCells == 1 .. 8

MCNetOf(q) ==
    CASE q \in {"a", "b"} -> "n1" [] q = "c" -> "n2" [] q = "d" -> "n3"

MCStraight(q) == IF q = "a" THEN 2 ELSE 1

MCCorridor(q) == IF q = "d" THEN 5 .. 8 ELSE 1 .. 6

MCPaths(q) ==
    CASE q = "a" -> {{1, 2}, {3}, {5}, {4, 8}}
      [] q = "b" -> {{2}, {4}, {7}}
      [] q = "c" -> {{1}, {4}, {5}}
      [] q = "d" -> {{5}, {7}}

MCAround(c) == IF c \in {7, 8} THEN {7, 8} ELSE {c}

\* The checker sees what the grid does not: copper in some lanes is too close.
MCClash(P, Q) ==
    \/ P \cap Q # {}
    \/ \E tight \in {{1, 3}, {2, 3}, {3, 4}, {5, 6}} :
          /\ tight \cap P # {} /\ tight \cap Q # {}

MCExisting == {[id |-> 3, net |-> "n2", path |-> {6}],
               [id |-> 4, net |-> "n1", path |-> {}]}

=============================================================================
