--------------------------- MODULE MCSessionStore ---------------------------
(***************************************************************************)
(* SessionStore on a small instance: three sessions, two boards (of one    *)
(* byte and of two), a bound of four bytes, and a clock that lets a        *)
(* session expire.  The contract is checked with it.                       *)
(***************************************************************************)
EXTENDS SessionStore, TLC

MCSize(b) == IF b = "big" THEN 2 ELSE 1

Symm == Permutations(Ids)
=============================================================================
