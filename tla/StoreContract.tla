---------------------------- MODULE StoreContract ----------------------------
(***************************************************************************)
(* server/deps.go: what the Store interface promises the handlers, said of *)
(* what a caller can see and not of how it is kept.  A store may forget    *)
(* sessions at any time (they expire, and the memory store drops some to   *)
(* stay inside its bound), but it never brings one back, never changes one *)
(* behind the caller's back, and changes only the session it was asked to. *)
(***************************************************************************)
CONSTANTS
    Ids,        \* session ids
    Metas,      \* Session values
    Boards,     \* board files
    NoBoard,    \* no result was saved
    Absent      \* ErrNotFound

VARIABLE shown  \* what Get, Board and Result would answer for each id

Forgetting(lost, f) == [id \in Ids |-> IF id \in lost THEN Absent ELSE f[id]]

\* "Put saves a session and its board bytes.  An implementation may drop
\* anything else it holds for the session."  A session that is already past
\* its time is not seen again.
ContractPut(id, s, b) ==
    \E lost \in SUBSET Ids :
        shown' = Forgetting(lost,
            [shown EXCEPT ![id] = [s |-> s, board |-> b, result |-> NoBoard]])

\* "PutResult saves the tuned board for later download."
ContractPutResult(id, b) ==
    /\ shown[id] # Absent
    /\ \E lost \in SUBSET (Ids \ {id}) :
          shown' = Forgetting(lost, [shown EXCEPT ![id].result = b])

\* "Update replaces a session's metadata, leaving its boards alone."
ContractUpdate(id, s) ==
    /\ shown[id] # Absent
    /\ \E lost \in SUBSET {id} :
          shown' = Forgetting(lost, [shown EXCEPT ![id].s = s])

\* "Delete removes a session and everything belonging to it", a session
\* running out of time, and the dropping of old ones.
ContractForget ==
    \E lost \in SUBSET Ids : shown' = Forgetting(lost, shown)

ContractInit == shown = [id \in Ids |-> Absent]

ContractNext ==
    \/ \E id \in Ids, b \in Boards :
          \/ \E s \in Metas : ContractPut(id, s, b)
          \/ ContractPutResult(id, b)
    \/ \E id \in Ids, s \in Metas : ContractUpdate(id, s)
    \/ ContractForget

ContractSpec == ContractInit /\ [][ContractNext]_shown
=============================================================================
