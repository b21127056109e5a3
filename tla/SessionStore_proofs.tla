------------------------- MODULE SessionStore_proofs -------------------------
(***************************************************************************)
(* Proofs about SessionStore, for any ids, boards, sizes and bound.        *)
(***************************************************************************)
EXTENDS SessionStore, FiniteSetTheorems, TLAPS

\* A table of rows, whatever it is missing.
Tables == [Ids -> Rows \cup {NoRow}]

----------------------------------------------------------------------------
\* makeRoomLocked drops rows, and never the one it makes room for.
LEMMA EvictionsAreIds ==
    ASSUME NEW rs, NEW extra, NEW keep, NEW E \in Evictions(rs, extra, keep)
    PROVE  E \in SUBSET Ids /\ keep \notin E /\ E \subseteq Live(rs)
  BY DEF Evictions, Live

LEMMA DropTyped ==
    ASSUME NEW rs \in Tables, NEW E
    PROVE  Drop(rs, E) \in Tables
  BY DEF Drop, Tables

\* Type correctness is kept by every operation of the store.
LEMMA StoreTypeStep ==
    ASSUME StoreTypeOK, [StoreNext]_storeVars
    PROVE  StoreTypeOK'
<1> USE StoreAssumption, RowAssumption DEF StoreTypeOK
<1>1. ASSUME NEW id \in Ids, NEW b \in Boards, NEW s \in Stamped,
             Put(id, s, b)
      PROVE  StoreTypeOK'
  <2> DEFINE base == Drop(Sweep(rows), {id})
  <2>1. PICK E \in Evictions(base, Size(b), id) :
           rows' = [Drop(base, E) EXCEPT
                       ![id] = [s |-> s, board |-> b, result |-> NoBoard]]
    BY <1>1 DEF Put
  <2>2. Drop(base, E) \in Tables
    BY DropTyped DEF Sweep, Tables
  <2>3. [s |-> s, board |-> b, result |-> NoBoard] \in Rows
    BY DEF Rows, Stamped
  <2> QED
    BY <1>1, <2>1, <2>2, <2>3 DEF Put, Tables
<1>2. ASSUME NEW id \in Ids, NEW b \in Boards, PutResult(id, b)
      PROVE  StoreTypeOK'
  <2> DEFINE base == [rows EXCEPT ![id].result = NoBoard]
  <2>1. PICK E \in Evictions(base, Size(b), id) :
           rows' = [Drop(base, E) EXCEPT ![id].result = b]
    BY <1>2 DEF PutResult
  <2>2. rows[id] \in Rows
    BY <1>2 DEF PutResult, Visible
  <2>3. base \in Tables
    BY <2>2 DEF Tables, Rows
  <2>4. Drop(base, E) \in Tables /\ Drop(base, E)[id] \in Rows
    BY <2>2, <2>3, DropTyped, EvictionsAreIds DEF Drop, Tables, Rows
  <2> QED
    BY <1>2, <2>1, <2>4 DEF PutResult, Tables, Rows
<1>3. ASSUME NEW id \in Ids, NEW s \in Stamped, Update(id, s)
      PROVE  StoreTypeOK'
  <2>1. rows[id] \in Rows /\ s \in Sessions
    BY <1>3 DEF Update, Visible, Stamped
  <2> QED
    BY <1>3, <2>1 DEF Update, Rows
<1>4. ASSUME NEW id \in Ids, Delete(id)
      PROVE  StoreTypeOK'
  BY <1>4, DropTyped DEF Delete, Tables
<1>5. CASE SweepForList
  BY <1>5, DropTyped DEF SweepForList, Sweep, Tables
<1>6. CASE Tick
  BY <1>6 DEF Tick
<1>7. CASE UNCHANGED storeVars
  BY <1>7 DEF storeVars
<1> QED
  BY <1>1, <1>2, <1>3, <1>4, <1>5, <1>6, <1>7 DEF StoreNext

\* The rows the store keeps are well formed: a result is stored only under a
\* session, and no step leaves half a row.
THEOREM StoreTypeCorrect == StoreSpec => []StoreTypeOK
<1>1. StoreInit => StoreTypeOK
  BY StoreAssumption DEF StoreInit, StoreTypeOK
<1>2. StoreTypeOK /\ [StoreNext]_storeVars => StoreTypeOK'
  BY StoreTypeStep
<1> QED
  BY <1>1, <1>2, PTL DEF StoreSpec

----------------------------------------------------------------------------
\* The bytes held.

\* Pairing a finite set with one thing changes nothing about its size.
LEMMA PairedSize ==
    ASSUME NEW x, NEW S, IsFiniteSet(S)
    PROVE  IsFiniteSet({x} \X S) /\ Cardinality({x} \X S) = Cardinality(S)
<1>1. IsFiniteSet({x}) /\ Cardinality({x}) = 1
  BY FS_Singleton
<1>2. /\ IsFiniteSet({x} \X S)
      /\ Cardinality({x} \X S) = Cardinality({x}) * Cardinality(S)
  BY <1>1, FS_Product
<1>3. Cardinality(S) \in Nat
  BY FS_CardinalityType
<1> QED
  BY <1>1, <1>2, <1>3

\* The bytes of a file of n bytes.
LEMMA FileSize ==
    ASSUME NEW part, NEW n \in Nat
    PROVE  /\ IsFiniteSet({part} \X (1 .. n))
           /\ Cardinality({part} \X (1 .. n)) = n
<1> DEFINE I == 1 .. n
<1>1. IsFiniteSet(I) /\ Cardinality(I) = n
  BY FS_Interval
<1> HIDE DEF I
<1>2. IsFiniteSet({part} \X I) /\ Cardinality({part} \X I) = n
  BY <1>1, PairedSize
<1> QED
  BY <1>2 DEF I

LEMMA RowBytesFinite ==
    ASSUME NEW r \in Rows
    PROVE  IsFiniteSet(RowBytes(r))
<1>1. Size(r.board) \in Nat /\ (r.result # NoBoard => Size(r.result) \in Nat)
  BY StoreAssumption DEF Rows
<1>2. IsFiniteSet({"board"} \X (1 .. Size(r.board)))
  BY <1>1, FileSize
<1>3. CASE r.result = NoBoard
  BY <1>2, <1>3, FS_EmptySet, FS_Union DEF RowBytes
<1>4. CASE r.result # NoBoard
  <2>1. IsFiniteSet({"result"} \X (1 .. Size(r.result)))
    BY <1>1, <1>4, FileSize
  <2> QED
    BY <1>2, <1>4, <2>1, FS_Union DEF RowBytes
<1> QED
  BY <1>3, <1>4

LEMMA HeldFinite ==
    ASSUME NEW rs \in Tables
    PROVE  IsFiniteSet(Held(rs)) /\ IsFiniteSet(Live(rs))
<1> DEFINE f == [id \in Live(rs) |-> {id} \X RowBytes(rs[id])]
           T == {{id} \X RowBytes(rs[id]) : id \in Live(rs)}
<1>1. IsFiniteSet(Live(rs))
  BY StoreAssumption, FS_Subset DEF Live
<1>2. f \in Surjection(Live(rs), T)
  BY DEF Surjection
<1>3. IsFiniteSet(T)
  BY <1>1, <1>2, FS_Surjection
<1>4. \A S \in T : IsFiniteSet(S)
  <2> SUFFICES ASSUME NEW id \in Live(rs)
               PROVE  IsFiniteSet({id} \X RowBytes(rs[id]))
    OBVIOUS
  <2>1. IsFiniteSet(RowBytes(rs[id]))
    BY RowBytesFinite DEF Live, Tables
  <2> QED
    BY <2>1, FS_Singleton, FS_Product
<1> QED
  BY <1>1, <1>3, <1>4, FS_UNION DEF Held

LEMMA BytesType ==
    ASSUME NEW rs \in Tables
    PROVE  Bytes(rs) \in Nat
  BY HeldFinite, FS_CardinalityType DEF Bytes

\* A table that holds no byte another one does not hold is no larger.
LEMMA BytesMonotone ==
    ASSUME NEW rs \in Tables, NEW rt, Held(rt) \subseteq Held(rs)
    PROVE  Bytes(rt) <= Bytes(rs)
  BY HeldFinite, FS_Subset DEF Bytes

\* Adding a file adds no more than its size.
LEMMA BytesAdded ==
    ASSUME NEW rs \in Tables, NEW rt, NEW id, NEW part, NEW n \in Nat,
           Held(rt) \subseteq
               Held(rs) \cup ({id} \X ({part} \X (1 .. n)))
    PROVE  Bytes(rt) <= Bytes(rs) + n
<1> DEFINE F == {part} \X (1 .. n)
           X == {id} \X F
<1>1. IsFiniteSet(F) /\ Cardinality(F) = n
  BY FileSize
<1> HIDE DEF F
<1>4. IsFiniteSet(X) /\ Cardinality(X) = n
  BY <1>1, PairedSize
<1>2. Held(rt) \subseteq Held(rs) \cup X
  BY DEF F
<1> HIDE DEF X
<1>5. /\ IsFiniteSet(Held(rs) \cup X)
      /\ Cardinality(Held(rs) \cup X) =
            Cardinality(Held(rs)) + Cardinality(X)
                - Cardinality(Held(rs) \cap X)
  BY <1>4, HeldFinite, FS_Union
<1>6. /\ Cardinality(Held(rt)) <= Cardinality(Held(rs) \cup X)
      /\ Cardinality(Held(rt)) \in Nat
  BY <1>2, <1>5, FS_Subset, FS_CardinalityType
<1>7. /\ Cardinality(Held(rs)) \in Nat
      /\ Cardinality(Held(rs) \cap X) \in Nat
  BY HeldFinite, FS_Intersection, FS_CardinalityType
<1> QED
  BY <1>4, <1>5, <1>6, <1>7 DEF Bytes

LEMMA HeldByRow ==
    ASSUME NEW rs, NEW x
    PROVE  x \in Held(rs) <=>
              \E id \in Live(rs) : x \in {id} \X RowBytes(rs[id])
  BY DEF Held

\* Two tables that differ by what X adds to one row.
LEMMA HeldGrows ==
    ASSUME NEW rs, NEW rt, NEW id, NEW X,
           \A i \in Live(rt) : \A y \in RowBytes(rt[i]) :
               \/ i \in Live(rs) /\ y \in RowBytes(rs[i])
               \/ i = id /\ y \in X
    PROVE  Held(rt) \subseteq Held(rs) \cup ({id} \X X)
<1> SUFFICES ASSUME NEW x \in Held(rt)
             PROVE  x \in Held(rs) \cup ({id} \X X)
  OBVIOUS
<1>1. PICK i \in Live(rt) : x \in {i} \X RowBytes(rt[i])
  BY HeldByRow
<1>2. PICK y \in RowBytes(rt[i]) : x = <<i, y>>
  BY <1>1
<1>3. CASE i \in Live(rs) /\ y \in RowBytes(rs[i])
  <2>1. x \in {i} \X RowBytes(rs[i])
    BY <1>2, <1>3
  <2> QED
    BY <1>3, <2>1, HeldByRow
<1>4. CASE i = id /\ y \in X
  BY <1>2, <1>4
<1> QED
  BY <1>3, <1>4

LEMMA DropHeld ==
    ASSUME NEW rs \in Tables, NEW E
    PROVE  /\ Held(Drop(rs, E)) \subseteq Held(rs)
           /\ Live(Drop(rs, E)) = Live(rs) \ E
<1>1. Live(Drop(rs, E)) = Live(rs) \ E
  BY DEF Live, Drop
<1>2. \A id \in Live(rs) \ E : Drop(rs, E)[id] = rs[id]
  BY DEF Live, Drop
<1>3. Held(Drop(rs, E)) \subseteq Held(rs) \cup ({NoRow} \X {})
  BY <1>1, <1>2, HeldGrows
<1> QED
  BY <1>1, <1>3

LEMMA NothingHeld ==
    ASSUME NEW rs, Live(rs) = {}
    PROVE  Bytes(rs) = 0
  BY HeldByRow, FS_EmptySet DEF Bytes

\* The bound on the bytes survives the dropping of rows.
LEMMA BudgetDrop ==
    ASSUME StoreTypeOK, BudgetKept, NEW E, rows' = Drop(rows, E)
    PROVE  BudgetKept'
<1> SUFFICES ASSUME MaxBytes > 0, Bytes(rows') > MaxBytes
             PROVE  Cardinality(Live(rows')) = 1
  BY DEF BudgetKept
<1>1. rows \in Tables /\ rows' \in Tables
  BY DropTyped DEF StoreTypeOK, Tables
<1>2. Bytes(rows') <= Bytes(rows)
  BY <1>1, BytesMonotone, DropHeld
<1>3. Bytes(rows) > MaxBytes
  BY <1>1, <1>2, BytesType, StoreAssumption
<1>4. Cardinality(Live(rows)) = 1
  BY <1>3 DEF BudgetKept
<1>5. Live(rows') # {}
  BY <1>1, NothingHeld, StoreAssumption
<1>6. Live(rows') \subseteq Live(rows)
  BY <1>1, DropHeld
<1>7. PICK x : Live(rows) = {x}
  BY <1>1, <1>4, HeldFinite, FS_Singleton
<1> QED
  BY <1>4, <1>5, <1>6, <1>7

\* What is kept of a table, and the row that was written, are within the
\* bound unless that row is all that is left.
LEMMA BudgetWrite ==
    ASSUME NEW base \in Tables, NEW id \in Ids, NEW n \in Nat, NEW part,
           NEW E \in Evictions(base, n, id),
           rows' \in Tables,
           Live(rows') = Live(Drop(base, E)) \cup {id},
           Held(rows') \subseteq
               Held(Drop(base, E)) \cup ({id} \X ({part} \X (1 .. n)))
    PROVE  BudgetKept'
<1> SUFFICES ASSUME MaxBytes > 0, Bytes(rows') > MaxBytes
             PROVE  Cardinality(Live(rows')) = 1
  BY DEF BudgetKept
<1>1. Drop(base, E) \in Tables
  BY DropTyped
<1>2. Bytes(rows') <= Bytes(Drop(base, E)) + n
  BY <1>1, BytesAdded
<1>3. ~Fits(Drop(base, E), n)
  BY <1>1, <1>2, BytesType, StoreAssumption DEF Fits
<1>4. E = Live(base) \ {id}
  BY <1>3 DEF Evictions
<1>5. Live(rows') = {id}
  BY <1>4, DropHeld
<1> QED
  BY <1>5, FS_Singleton

\* SetMaxBytes holds at every step: past the bound there is one session, the
\* one just written.
LEMMA BudgetStep ==
    ASSUME StoreTypeOK, BudgetKept, [StoreNext]_storeVars
    PROVE  BudgetKept'
<1>0. rows \in Tables /\ rows' \in Tables
  BY StoreTypeStep DEF StoreTypeOK, Tables
<1>1. ASSUME NEW id \in Ids, NEW b \in Boards, NEW s \in Stamped,
             Put(id, s, b)
      PROVE  BudgetKept'
  <2> DEFINE base == Drop(Sweep(rows), {id})
             new == [s |-> s, board |-> b, result |-> NoBoard]
  <2>1. PICK E \in Evictions(base, Size(b), id) :
           rows' = [Drop(base, E) EXCEPT ![id] = new]
    BY <1>1 DEF Put
  <2>2. base \in Tables
    BY <1>0, DropTyped DEF Sweep
  <2> DEFINE kept == Drop(base, E)
  <2>3. kept \in Tables /\ kept[id] = NoRow
    BY <2>2, DropTyped DEF Drop
  <2>4. new # NoRow
    BY RowAssumption DEF Rows, Stamped
  <2>5. /\ Live(rows') = Live(kept) \cup {id}
        /\ \A i \in Live(kept) : rows'[i] = kept[i]
        /\ rows'[id] = new
    BY <2>1, <2>3, <2>4 DEF Live, Tables
  <2>6. RowBytes(new) = {"board"} \X (1 .. Size(b))
    BY DEF RowBytes
  <2>7. Held(rows') \subseteq
            Held(kept) \cup ({id} \X ({"board"} \X (1 .. Size(b))))
    <3> DEFINE X == {"board"} \X (1 .. Size(b))
    <3>1. \A i \in Live(rows') : \A y \in RowBytes(rows'[i]) :
             \/ i \in Live(kept) /\ y \in RowBytes(kept[i])
             \/ i = id /\ y \in X
      BY <2>3, <2>5, <2>6 DEF Live
    <3> HIDE DEF X, kept
    <3>2. Held(rows') \subseteq Held(kept) \cup ({id} \X X)
      BY <3>1, HeldGrows
    <3> QED
      BY <3>2 DEF X
  <2>8. Size(b) \in Nat
    BY StoreAssumption
  <2> QED
    BY <1>0, <2>2, <2>5, <2>7, <2>8, BudgetWrite
<1>2. ASSUME NEW id \in Ids, NEW b \in Boards, PutResult(id, b)
      PROVE  BudgetKept'
  <2> DEFINE base == [rows EXCEPT ![id].result = NoBoard]
  <2>1. PICK E \in Evictions(base, Size(b), id) :
           rows' = [Drop(base, E) EXCEPT ![id].result = b]
    BY <1>2 DEF PutResult
  <2>2. rows[id] \in Rows
    BY <1>0, <1>2 DEF PutResult, Visible, Tables
  <2>3. base \in Tables /\ base[id] \in Rows /\ base[id].result = NoBoard
    BY <1>0, <2>2 DEF Tables, Rows
  <2> DEFINE kept == Drop(base, E)
  <2>4. kept \in Tables /\ kept[id] = base[id]
    <3>1. kept \in Tables
      BY <2>3, DropTyped
    <3>2. id \notin E
      BY EvictionsAreIds
    <3> QED
      BY <3>1, <3>2 DEF Drop
  <2>5. rows'[id] = [base[id] EXCEPT !.result = b]
    BY <2>1, <2>4 DEF Tables
  <2>6. rows'[id] \in Rows
    BY <2>3, <2>5 DEF Rows
  <2>7. /\ Live(rows') = Live(kept) \cup {id}
        /\ \A i \in Live(kept) \ {id} : rows'[i] = kept[i]
        /\ id \in Live(kept)
    BY <2>1, <2>3, <2>4, <2>6, RowAssumption DEF Live, Tables
  <2>8. RowBytes(rows'[id]) \subseteq
            RowBytes(kept[id]) \cup ({"result"} \X (1 .. Size(b)))
    BY <2>3, <2>4, <2>5, StoreAssumption DEF RowBytes, Rows
  <2>9. Held(rows') \subseteq
            Held(kept) \cup ({id} \X ({"result"} \X (1 .. Size(b))))
    <3> DEFINE X == {"result"} \X (1 .. Size(b))
    <3>1. \A i \in Live(rows') : \A y \in RowBytes(rows'[i]) :
             \/ i \in Live(kept) /\ y \in RowBytes(kept[i])
             \/ i = id /\ y \in X
      BY <2>7, <2>8
    <3> HIDE DEF X, kept
    <3>2. Held(rows') \subseteq Held(kept) \cup ({id} \X X)
      BY <3>1, HeldGrows
    <3> QED
      BY <3>2 DEF X
  <2>10. Size(b) \in Nat
    BY StoreAssumption
  <2> QED
    BY <1>0, <2>3, <2>7, <2>9, <2>10, BudgetWrite
<1>3. ASSUME NEW id \in Ids, NEW s \in Stamped, Update(id, s)
      PROVE  BudgetKept'
  <2>1. rows[id] \in Rows
    BY <1>0, <1>3 DEF Update, Visible, Tables
  <2>2. rows' = [rows EXCEPT ![id] = [rows[id] EXCEPT !.s = s]]
    BY <1>3 DEF Update
  <2>3. [rows[id] EXCEPT !.s = s] \in Rows
    BY <2>1 DEF Rows, Stamped
  <2>4. Live(rows') = Live(rows)
    BY <1>0, <2>1, <2>2, <2>3, RowAssumption DEF Live, Tables
  <2>5. \A i \in Live(rows) : RowBytes(rows'[i]) = RowBytes(rows[i])
    BY <1>0, <2>1, <2>2 DEF RowBytes, Live, Tables, Rows
  <2>6. Held(rows') \subseteq Held(rows) \cup ({id} \X {})
    BY <2>4, <2>5, HeldGrows
  <2>7. Held(rows) \subseteq Held(rows') \cup ({id} \X {})
    BY <2>4, <2>5, HeldGrows
  <2>8. Bytes(rows') = Bytes(rows)
    BY <2>6, <2>7 DEF Bytes
  <2> QED
    BY <2>4, <2>8 DEF BudgetKept
<1>4. ASSUME NEW id \in Ids, Delete(id)
      PROVE  BudgetKept'
  BY <1>4, BudgetDrop DEF Delete
<1>5. CASE SweepForList
  BY <1>5, BudgetDrop DEF SweepForList, Sweep
<1>6. CASE Tick
  BY <1>6 DEF Tick, BudgetKept
<1>7. CASE UNCHANGED storeVars
  BY <1>7 DEF storeVars, BudgetKept
<1> QED
  BY <1>1, <1>2, <1>3, <1>4, <1>5, <1>6, <1>7 DEF StoreNext

\* The memory bound of the store, for any number of sessions of any size:
\* MemoryStore never holds more than MaxBytes, except for a single session
\* that is by itself larger.
THEOREM StoreKeepsBudget == StoreSpec => []BudgetKept
<1>1. StoreInit => BudgetKept
  <2> SUFFICES ASSUME StoreInit PROVE BudgetKept
    OBVIOUS
  <2>1. Live(rows) = {}
    BY DEF StoreInit, Live
  <2> QED
    BY <2>1, NothingHeld, StoreAssumption DEF BudgetKept
<1>2. StoreTypeOK /\ BudgetKept /\ [StoreNext]_storeVars => BudgetKept'
  BY BudgetStep
<1> QED
  BY <1>1, <1>2, StoreTypeCorrect, PTL DEF StoreSpec

----------------------------------------------------------------------------
\* The memory store implements the Store interface.

\* Whoever is seen after a step was seen before it, unchanged: time only runs
\* forward and rows only go.
LEMMA SeenBefore ==
    ASSUME StoreTypeOK, now <= now', now' \in Nat, NEW i \in Ids,
           rows'[i] \in {rows[i], NoRow}
    PROVE  Shown'[i] \in {Shown[i], NoRow}
  BY StoreAssumption, RowAssumption
     DEF Shown, Visible, Expired, StoreTypeOK, Rows, Sessions, Times

LEMMA ContractStep ==
    ASSUME StoreTypeOK, [StoreNext]_storeVars
    PROVE  [Contract!ContractNext]_Shown
<1>0. StoreTypeOK'
  BY StoreTypeStep
<1>1. ASSUME NEW id \in Ids, NEW b \in Boards, NEW s \in Stamped,
             Put(id, s, b)
      PROVE  Contract!ContractNext
  <2> DEFINE base == Drop(Sweep(rows), {id})
             new == [s |-> s, board |-> b, result |-> NoBoard]
             goal == [Shown EXCEPT ![id] = new]
             lost == {i \in Ids : Shown'[i] = NoRow}
  <2>1. PICK E \in Evictions(base, Size(b), id) :
           rows' = [Drop(base, E) EXCEPT ![id] = new]
    BY <1>1 DEF Put
  <2>2. rows'[id] = new /\ now' = now
    BY <1>1, <2>1 DEF Put, Drop
  <2>3. \A i \in Ids \ {id} : rows'[i] \in {rows[i], NoRow}
    BY <2>1 DEF Drop, Sweep
  <2>4. \A i \in Ids \ {id} : Shown'[i] \in {Shown[i], NoRow}
    BY <2>2, <2>3, SeenBefore DEF StoreTypeOK
  <2>5. Shown'[id] \in {new, NoRow}
    BY <2>2 DEF Shown
  <2>6. Shown' = Contract!Forgetting(lost, goal)
    BY <2>4, <2>5 DEF Contract!Forgetting, Shown
  <2>7. s \in Dated
    BY DEF Stamped, Dated
  <2> QED
    BY <2>6, <2>7 DEF Contract!ContractNext, Contract!ContractPut
<1>2. ASSUME NEW id \in Ids, NEW b \in Boards, PutResult(id, b)
      PROVE  Contract!ContractNext
  <2> DEFINE base == [rows EXCEPT ![id].result = NoBoard]
             goal == [Shown EXCEPT ![id].result = b]
             lost == {i \in Ids \ {id} : Shown'[i] = NoRow}
  <2>1. PICK E \in Evictions(base, Size(b), id) :
           rows' = [Drop(base, E) EXCEPT ![id].result = b]
    BY <1>2 DEF PutResult
  <2>2. /\ Visible(id) /\ now' = now
        /\ rows[id] \in Rows /\ Shown[id] = rows[id]
    BY <1>2 DEF PutResult, Visible, StoreTypeOK, Shown
  <2>3. id \notin E
    BY <2>1, EvictionsAreIds
  <2>4. rows'[id] = [rows[id] EXCEPT !.result = b]
    BY <2>1, <2>2, <2>3 DEF Drop, StoreTypeOK, Rows
  <2>5. \A i \in Ids \ {id} : rows'[i] \in {rows[i], NoRow}
    BY <2>1 DEF Drop, StoreTypeOK
  <2>6. \A i \in Ids \ {id} : Shown'[i] \in {Shown[i], NoRow}
    BY <2>2, <2>5, SeenBefore DEF StoreTypeOK
  <2>7. rows'[id] # NoRow /\ rows'[id].s = rows[id].s
    BY <2>2, <2>4, RowAssumption DEF Rows
  <2>8. Shown'[id] = [Shown[id] EXCEPT !.result = b]
    BY <2>2, <2>4, <2>7 DEF Shown, Visible, Expired
  <2>9. Shown' = Contract!Forgetting(lost, goal)
    BY <2>6, <2>8 DEF Contract!Forgetting, Shown
  <2>10. Shown[id] # NoRow
    BY <2>2, RowAssumption
  <2> QED
    BY <2>9, <2>10 DEF Contract!ContractNext, Contract!ContractPutResult
<1>3. ASSUME NEW id \in Ids, NEW s \in Stamped, Update(id, s)
      PROVE  Contract!ContractNext
  <2> DEFINE goal == [Shown EXCEPT ![id].s = s]
             lost == {i \in {id} : Shown'[i] = NoRow}
  <2>1. /\ Visible(id) /\ now' = now
        /\ rows[id] \in Rows /\ Shown[id] = rows[id]
        /\ rows' = [rows EXCEPT ![id].s = s]
    BY <1>3 DEF Update, Visible, StoreTypeOK, Shown
  <2>2. rows'[id] = [rows[id] EXCEPT !.s = s]
    BY <2>1 DEF StoreTypeOK
  <2>3. \A i \in Ids \ {id} : Shown'[i] = Shown[i]
    BY <2>1 DEF Shown, Visible, Expired, StoreTypeOK
  <2>4. Shown'[id] \in {[Shown[id] EXCEPT !.s = s], NoRow}
    BY <2>1, <2>2 DEF Shown
  <2>5. Shown' = Contract!Forgetting(lost, goal)
    BY <2>3, <2>4 DEF Contract!Forgetting, Shown
  <2>6. Shown[id] # NoRow /\ s \in Dated
    BY <2>1, RowAssumption DEF Stamped, Dated
  <2> QED
    BY <2>5, <2>6 DEF Contract!ContractNext, Contract!ContractUpdate
<1>4. ASSUME now <= now', now' \in Nat,
             \A i \in Ids : rows'[i] \in {rows[i], NoRow}
      PROVE  Contract!ContractNext
  <2>1. \A i \in Ids : Shown'[i] \in {Shown[i], NoRow}
    BY <1>4, SeenBefore
  <2>2. /\ Shown = [i \in Ids |-> Shown[i]]
        /\ Shown' = [i \in Ids |-> Shown'[i]]
    BY DEF Shown
  <2>3. Shown' = Contract!Forgetting({i \in Ids : Shown'[i] = NoRow}, Shown)
    BY <2>1, <2>2 DEF Contract!Forgetting, Shown
  <2> QED
    BY <2>3 DEF Contract!ContractNext, Contract!ContractForget
<1>5. ASSUME NEW id \in Ids, Delete(id)
      PROVE  Contract!ContractNext
  BY <1>4, <1>5 DEF Delete, Drop, StoreTypeOK
<1>6. CASE SweepForList
  BY <1>4, <1>6 DEF SweepForList, Sweep, Drop, StoreTypeOK
<1>7. CASE Tick
  BY <1>4, <1>7 DEF Tick, StoreTypeOK
<1>8. CASE UNCHANGED storeVars
  BY <1>8 DEF storeVars, Shown, Visible, Expired
<1> QED
  BY <1>1, <1>2, <1>3, <1>5, <1>6, <1>7, <1>8 DEF StoreNext

\* MemoryStore implements the Store interface, for any users, boards, bound
\* and lifetime: every step of it is one the contract allows or changes
\* nothing a caller can see.
THEOREM StoreImplementsContract == StoreSpec => ImplementsContract
<1>1. StoreInit => Contract!ContractInit
  BY DEF StoreInit, Contract!ContractInit, Shown, Visible
<1>2. StoreTypeOK /\ [StoreNext]_storeVars => [Contract!ContractNext]_Shown
  BY ContractStep
<1> QED
  BY <1>1, <1>2, StoreTypeCorrect, PTL
  DEF StoreSpec, ImplementsContract, Contract!ContractSpec

----------------------------------------------------------------------------
\* Eviction goes by age.

\* What is left of a table whose rows have the dates of rows: nothing older
\* than what was dropped, keep apart.
LEMMA EvictsOldest ==
    ASSUME NEW base, NEW n, NEW keep, NEW E \in Evictions(base, n, keep),
           NEW a \in Ids, NEW b \in Ids, a \in E, b \notin E, b # keep,
           base[b] # NoRow, base[a].s = rows[a].s, base[b].s = rows[b].s
    PROVE  ~Older(rows, b, a)
<1>1. b \in Live(base) \ {keep}
  BY DEF Live
<1>2. ~Older(base, b, a)
  BY <1>1 DEF Evictions
<1> QED
  BY <1>2 DEF Older

LEMMA OldestFirstStep ==
    ASSUME StoreTypeOK, [StoreNext]_storeVars,
           NEW w \in Ids, rows'[w] \notin {NoRow, rows[w]},
           NEW a \in Ids, Visible(a), rows'[a] = NoRow,
           NEW b \in Ids, rows[b] # NoRow, rows'[b] = rows[b]
    PROVE  ~Older(rows, b, a)
<1>1. ASSUME NEW id \in Ids, NEW f \in Boards, NEW s \in Stamped,
             Put(id, s, f)
      PROVE  ~Older(rows, b, a)
  <2> DEFINE base == Drop(Sweep(rows), {id})
  <2>1. PICK E \in Evictions(base, Size(f), id) :
           rows' = [Drop(base, E) EXCEPT
                       ![id] = [s |-> s, board |-> f, result |-> NoBoard]]
    BY <1>1 DEF Put
  <2>2. w = id /\ a # id
    BY <2>1, RowAssumption DEF Drop, Sweep, Rows, Stamped
  <2>3. b # id
    BY <2>2
  <2>4. base[a] = rows[a] /\ base[b] \in {rows[b], NoRow}
    BY <2>2, <2>3 DEF Drop, Sweep, Visible
  <2>5. a \in E
    BY <2>1, <2>2, <2>4 DEF Drop, Visible
  <2>6. b \notin E /\ base[b] = rows[b]
    BY <2>1, <2>3, <2>4 DEF Drop
  <2> QED
    BY <2>3, <2>4, <2>5, <2>6, EvictsOldest
<1>2. ASSUME NEW id \in Ids, NEW f \in Boards, PutResult(id, f)
      PROVE  ~Older(rows, b, a)
  <2> DEFINE base == [rows EXCEPT ![id].result = NoBoard]
  <2>1. PICK E \in Evictions(base, Size(f), id) :
           rows' = [Drop(base, E) EXCEPT ![id].result = f]
    BY <1>2 DEF PutResult
  <2>2. \A i \in Ids \ {id} : base[i] = rows[i]
    BY DEF StoreTypeOK
  <2>3. w = id
    BY <2>1, <2>2 DEF Drop
  <2>4. a # id /\ b # id
    BY <2>3
  <2>5. a \in E
    BY <2>1, <2>2, <2>4 DEF Drop, Visible
  <2>6. b \notin E
    BY <2>1, <2>2, <2>4 DEF Drop
  <2> QED
    BY <2>2, <2>4, <2>5, <2>6, EvictsOldest
<1>3. ASSUME NEW id \in Ids, NEW s \in Stamped, Update(id, s)
      PROVE  FALSE
  <2>1. rows[id] \in Rows /\ rows' = [rows EXCEPT ![id].s = s]
    BY <1>3 DEF Update, Visible, StoreTypeOK
  <2>2. rows'[id] \in Rows /\ \A i \in Ids \ {id} : rows'[i] = rows[i]
    BY <2>1 DEF Rows, StoreTypeOK, Stamped
  <2> QED
    BY <2>2, RowAssumption DEF Visible
<1>4. ASSUME \A i \in Ids : rows'[i] \in {rows[i], NoRow}
      PROVE  FALSE
  BY <1>4
<1>5. ASSUME NEW id \in Ids, Delete(id)
      PROVE  FALSE
  BY <1>4, <1>5 DEF Delete, Drop
<1>6. CASE SweepForList
  BY <1>4, <1>6 DEF SweepForList, Sweep, Drop
<1>7. CASE Tick \/ UNCHANGED storeVars
  BY <1>4, <1>7 DEF Tick, storeVars
<1> QED
  BY <1>1, <1>2, <1>3, <1>5, <1>6, <1>7 DEF StoreNext

\* Whatever the sessions and their sizes, room is made by age: no write takes
\* away a session still in its time and leaves an older one.
THEOREM StoreEvictsOldestFirst == StoreSpec => OldestFirst
<1>1. StoreTypeOK /\ [StoreNext]_storeVars =>
         ((\E w \in Ids : rows'[w] \notin {NoRow, rows[w]}) =>
            \A a, b \in Ids :
               /\ Visible(a) /\ rows'[a] = NoRow
               /\ rows[b] # NoRow /\ rows'[b] = rows[b]
               => ~Older(rows, b, a))
  BY OldestFirstStep
<1> QED
  BY <1>1, StoreTypeCorrect, PTL DEF StoreSpec, OldestFirst
=============================================================================
