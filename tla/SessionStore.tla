---------------------------- MODULE SessionStore ----------------------------
(***************************************************************************)
(* server/session.go: MemoryStore, the store that keeps uploaded boards    *)
(* and session metadata in the process.  Every method runs under one       *)
(* mutex, so each is one atomic step.  Boards are opaque values with a     *)
(* size; what the metadata means is the business of SessionServer.         *)
(***************************************************************************)
EXTENDS Integers, FiniteSets

CONSTANTS
    Ids,        \* session ids
    Users,      \* the identities the host vouches for
    Meta,       \* what a session records besides its owner and its dates
    Boards,     \* board files
    Size(_),    \* the bytes of a board file
    MaxBytes,   \* SetMaxBytes: the bytes held altogether, 0 for no bound
    TTL,        \* how long a session lives
    MaxTime,    \* BOUND: the clock stops here
    NoRow,      \* there is no row under this id
    NoBoard     \* the row holds no result

ASSUME StoreAssumption ==
    /\ IsFiniteSet(Ids)
    /\ MaxBytes \in Nat
    /\ TTL \in Nat
    /\ MaxTime \in Nat
    /\ \A b \in Boards : Size(b) \in Nat
    /\ NoBoard \notin Boards

VARIABLES
    rows,       \* MemoryStore.rows
    now         \* the clock the store was given

storeVars == <<rows, now>>

Times == 0 .. (MaxTime + TTL)

Sessions == [user : Users, created : Times, expires : Times, meta : Meta]

Rows == [s : Sessions, board : Boards, result : Boards \cup {NoBoard}]

ASSUME RowAssumption == NoRow \notin Rows

StoreTypeOK ==
    /\ rows \in [Ids -> Rows \cup {NoRow}]
    /\ now \in 0 .. MaxTime

----------------------------------------------------------------------------
Live(rs) == {id \in Ids : rs[id] # NoRow}

Expired(s) == now >= s.expires

\* What Get, Board, PutResult and Update look for: a row that has not expired.
Visible(id) == rows[id] # NoRow /\ ~Expired(rows[id].s)

Drop(rs, E) == [id \in Ids |-> IF id \in E THEN NoRow ELSE rs[id]]

\* sweepLocked
Sweep(rs) == Drop(rs, {id \in Live(rs) : Expired(rs[id].s)})

\* The bytes of a row, one element per byte: those of the board, then those
\* of the result.
RowBytes(r) ==
    ({"board"} \X (1 .. Size(r.board)))
        \cup (IF r.result = NoBoard THEN {}
              ELSE {"result"} \X (1 .. Size(r.result)))

Held(rs) == UNION {{id} \X RowBytes(rs[id]) : id \in Live(rs)}

Bytes(rs) == Cardinality(Held(rs))

Fits(rs, extra) == MaxBytes = 0 \/ Bytes(rs) + extra <= MaxBytes

Older(rs, a, b) == rs[a].s.created < rs[b].s.created

\* Slips in makeRoomLocked: the new bytes are left out of the sum, and the
\* newest session is dropped first.
EvictionsWithoutExtra(rs, extra, keep) ==
    LET others == Live(rs) \ {keep} IN
    {E \in SUBSET others :
        /\ \A a \in E, b \in others \ E : ~Older(rs, b, a)
        /\ Fits(Drop(rs, E), 0) \/ E = others}

EvictionsNewest(rs, extra, keep) ==
    LET others == Live(rs) \ {keep} IN
    {E \in SUBSET others :
        /\ \A a \in E, b \in others \ E : ~Older(rs, a, b)
        /\ Fits(Drop(rs, E), extra) \/ E = others}

\* makeRoomLocked: the sets of sessions it may drop to make room for extra
\* bytes.  It drops the oldest row other than keep for as long as the rest
\* does not fit, so: nothing older than a dropped row stays; when it stops
\* the rest fits or there is nothing left to drop; and the last row it
\* dropped, a newest one, was dropped because things did not fit with it.
Evictions(rs, extra, keep) ==
    LET others == Live(rs) \ {keep} IN
    {E \in SUBSET others :
        /\ \A a \in E, b \in others \ E : ~Older(rs, b, a)
        /\ Fits(Drop(rs, E), extra) \/ E = others
        /\ E # {} => \E last \in E :
                        /\ \A a \in E : ~Older(rs, last, a)
                        /\ ~Fits(Drop(rs, E \ {last}), extra)}

----------------------------------------------------------------------------
\* Put.  A row of the same id is replaced and its result is gone with it;
\* whether there was one is not asked.
Put(id, s, b) ==
    LET base == Drop(Sweep(rows), {id}) IN
    /\ \E E \in Evictions(base, Size(b), id) :
          rows' = [Drop(base, E) EXCEPT
                      ![id] = [s |-> s, board |-> b, result |-> NoBoard]]
    /\ UNCHANGED now

\* PutResult on a session that is there.  The old result is dropped before
\* room is made, so its bytes do not count twice.
PutResult(id, b) ==
    LET base == [rows EXCEPT ![id].result = NoBoard] IN
    /\ Visible(id)
    /\ \E E \in Evictions(base, Size(b), id) :
          rows' = [Drop(base, E) EXCEPT ![id].result = b]
    /\ UNCHANGED now

\* A slip in Update: an expired row is still found.
UpdateExpired(id, s) ==
    /\ rows[id] # NoRow
    /\ rows' = [rows EXCEPT ![id].s = s]
    /\ UNCHANGED now

\* Update on a session that is there: the metadata, not the boards.
Update(id, s) ==
    /\ Visible(id)
    /\ rows' = [rows EXCEPT ![id].s = s]
    /\ UNCHANGED now

\* Delete, which succeeds whether or not there is such a session.
Delete(id) ==
    /\ rows' = Drop(rows, {id})
    /\ UNCHANGED now

\* ListByUser drops what has expired before it looks.
SweepForList ==
    /\ rows' = Sweep(rows)
    /\ UNCHANGED now

UserRows(rs, u) == {id \in Live(rs) : rs[id].s.user = u}

Tick ==
    /\ now < MaxTime
    /\ now' = now + 1
    /\ UNCHANGED rows

----------------------------------------------------------------------------
StoreInit ==
    /\ rows = [id \in Ids |-> NoRow]
    /\ now = 0

\* Any caller: a session is dated when it is made and keeps its dates.
Stamped == {s \in Sessions : s.created <= now /\ s.expires = s.created + TTL}

StoreNext ==
    \/ \E id \in Ids, b \in Boards :
          \/ \E s \in Stamped : Put(id, s, b)
          \/ PutResult(id, b)
    \/ \E id \in Ids :
          \/ \E s \in Stamped : Update(id, s)
          \/ Delete(id)
    \/ SweepForList
    \/ Tick

StoreSpec == StoreInit /\ [][StoreNext]_storeVars

----------------------------------------------------------------------------
\* SetMaxBytes promises that the boards held stay inside the bound.  They may
\* go past it only when a single session is left, the one just written, which
\* is never dropped to make room for itself.
BudgetKept ==
    MaxBytes > 0 /\ Bytes(rows) > MaxBytes => Cardinality(Live(rows)) = 1

\* makeRoomLocked drops the oldest sessions first: a step that writes a row
\* (and so is no Delete) never takes away a session that has not expired
\* while it leaves an older one untouched.
OldestFirst ==
    [][(\E w \in Ids : rows'[w] \notin {NoRow, rows[w]}) =>
          \A a, b \in Ids :
             /\ Visible(a) /\ rows'[a] = NoRow
             /\ rows[b] # NoRow /\ rows'[b] = rows[b]
             => ~Older(rows, b, a)]_storeVars

\* What Get, Board and Result answer.
Shown == [id \in Ids |-> IF Visible(id) THEN rows[id] ELSE NoRow]

Dated == {s \in Sessions : s.expires = s.created + TTL}

Contract == INSTANCE StoreContract WITH
                Metas <- Dated, Absent <- NoRow, shown <- Shown

\* MemoryStore keeps what the Store interface promises: what a caller can see
\* changes only as the contract allows.  A session that expired, was deleted
\* or was dropped is seen again only after a Put.
ImplementsContract == Contract!ContractSpec
=============================================================================
