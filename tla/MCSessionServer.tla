-------------------------- MODULE MCSessionServer --------------------------
(***************************************************************************)
(* SessionServer on small instances.                                       *)
(***************************************************************************)
EXTENDS SessionServer, TLC

\* An upload is one unit, and what is written into it one more.
MCBoardBytes(b) == IF b.hops = {} /\ b.tuned = NoParams THEN 1 ELSE 2

Symm == Permutations(Procs) \cup Permutations(Users) \cup Permutations(Ids)
=============================================================================
