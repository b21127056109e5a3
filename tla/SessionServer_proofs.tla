------------------------ MODULE SessionServer_proofs ------------------------
(***************************************************************************)
(* SessionServer, proved for any number of requests, sessions, users and   *)
(* slots: types, the job slots, and what a session says of its board and   *)
(* of the result made of it.                                               *)
(***************************************************************************)
EXTENDS SessionServer, TLAPS, FiniteSetTheorems

----------------------------------------------------------------------------
(* The store.  A call writes at most the row it is asked for; any other row *)
(* stays or is dropped.                                                     *)

Table == [Ids -> Rows \cup {NoRow}]

KeptBut(I) == \A id \in Ids \ I : rows'[id] \in {rows[id], NoRow}

LEMMA DropRows ==
    ASSUME NEW rs \in Table, NEW E
    PROVE  /\ Drop(rs, E) \in Table
           /\ \A id \in Ids : Drop(rs, E)[id] = IF id \in E THEN NoRow ELSE rs[id]
BY DEF Drop, Table

LEMMA PutRows ==
    ASSUME rows \in Table, NEW id \in Ids, NEW s \in Sessions, NEW b \in BoardContents,
           Put(id, s, b)
    PROVE  /\ rows' \in Table /\ now' = now /\ KeptBut({id})
           /\ rows'[id] = [s |-> s, board |-> b, result |-> NoBoard]
<1> DEFINE base == Drop(Sweep(rows), {id})
           row == [s |-> s, board |-> b, result |-> NoBoard]
<1>1. Sweep(rows) \in Table /\ \A o \in Ids : Sweep(rows)[o] \in {rows[o], NoRow}
  BY DropRows DEF Sweep
<1>2. base \in Table /\ \A o \in Ids : base[o] \in {rows[o], NoRow}
  BY <1>1, DropRows
<1>3. PICK E : rows' = [Drop(base, E) EXCEPT ![id] = row]
  BY DEF Put
<1>4. row \in Rows
  BY DEF Rows
<1>5. now' = now
  BY DEF Put
<1> HIDE DEF row, base
<1>6. Drop(base, E) \in Table /\ \A o \in Ids : Drop(base, E)[o] \in {rows[o], NoRow}
  BY <1>2, DropRows
<1>7. rows' \in Table /\ KeptBut({id}) /\ rows'[id] = row
  BY <1>3, <1>4, <1>6 DEF Table, KeptBut
<1> QED
  BY <1>5, <1>7 DEF row

LEMMA PutResultRows ==
    ASSUME rows \in Table, NEW id \in Ids, NEW b \in BoardContents, PutResult(id, b)
    PROVE  /\ rows' \in Table /\ now' = now /\ KeptBut({id})
           /\ rows[id] \in Rows /\ rows'[id] = [rows[id] EXCEPT !.result = b]
<1>1. rows[id] \in Rows
  BY DEF PutResult, Visible, Table
<1> DEFINE base == [rows EXCEPT ![id].result = NoBoard]
<1>2. /\ base \in Table /\ \A o \in Ids \ {id} : base[o] = rows[o]
      /\ base[id] = [rows[id] EXCEPT !.result = NoBoard]
  BY <1>1 DEF Table, Rows
<1>3. PICK E : E \in SUBSET (Live(base) \ {id}) /\ rows' = [Drop(base, E) EXCEPT ![id].result = b]
  BY DEF PutResult, Evictions
<1>4. now' = now
  BY DEF PutResult
<1> HIDE DEF base
<1>5. Drop(base, E) \in Table /\ (\A o \in Ids \ {id} : Drop(base, E)[o] \in {rows[o], NoRow})
      /\ Drop(base, E)[id] = base[id]
  BY <1>2, <1>3, DropRows
<1>6. rows' = [Drop(base, E) EXCEPT ![id] = [base[id] EXCEPT !.result = b]]
  BY <1>3, <1>5
<1>7. [base[id] EXCEPT !.result = b] = [rows[id] EXCEPT !.result = b]
      /\ [rows[id] EXCEPT !.result = b] \in Rows
  BY <1>1, <1>2 DEF Rows
<1> QED
  BY <1>1, <1>4, <1>5, <1>6, <1>7 DEF Table, KeptBut

LEMMA UpdateRows ==
    ASSUME rows \in Table, NEW id \in Ids, NEW s \in Sessions, Update(id, s)
    PROVE  /\ rows' \in Table /\ now' = now /\ KeptBut({id})
           /\ rows[id] \in Rows /\ rows'[id] = [rows[id] EXCEPT !.s = s]
<1>1. rows[id] \in Rows
  BY DEF Update, Visible, Table
<1>2. rows' = [rows EXCEPT ![id] = [rows[id] EXCEPT !.s = s]]
  BY DEF Update, Table
<1>3. [rows[id] EXCEPT !.s = s] \in Rows
  BY <1>1 DEF Rows
<1> QED
  BY <1>1, <1>2, <1>3 DEF Table, KeptBut, Update

LEMMA LessRows ==
    ASSUME rows \in Table, (\E id : Delete(id)) \/ SweepForList
    PROVE  rows' \in Table /\ now' = now /\ KeptBut({})
<1>1. PICK E : rows' = Drop(rows, E)
  BY DEF Delete, SweepForList, Sweep
<1>2. now' = now
  BY DEF Delete, SweepForList
<1> QED
  BY <1>1, <1>2, DropRows DEF KeptBut

----------------------------------------------------------------------------
(* Types.  A request at a step has what the step needs: the copy of the     *)
(* session, the board it computed, an id that was handed out.               *)

Opening == {"idle", "list", "dropOld"}
Copied == {"wait", "reload", "result", "put", "putResult", "update", "delete", "create"}

Sound(r, ids) ==
    /\ r.pc # "idle" => r.user \in Users
    /\ r.pc \notin Opening => r.id \in ids
    /\ r.pc \in Copied => r.sess \in Sessions
    /\ r.pc \in {"put", "putResult", "create"} => r.board \in BoardContents
    /\ r.pc = "session" => r.op \in SessionOps
    /\ r.op = "plan" /\ r.pc \in {"session", "reload"} => r.params \in Params
    /\ r.pc = "wait" => r.op \in JobOps
    /\ r.pc = "delete" => r.op = "delete"
    /\ r.pc \in {"list", "dropOld", "create"} => r.op \in {"upload", "list"}
    /\ r.pc = "put" => r.op = "route"
    /\ r.pc = "putResult" => r.op \in {"route", "apply"}

TypeInv ==
    /\ rows \in Table /\ now \in 0 .. MaxTime
    /\ req \in [Procs -> Requests]
    /\ busy \in [JobKinds -> Int]
    /\ issued \subseteq Ids /\ deleted \subseteq issued
    /\ \A p \in Procs : Sound(req[p], issued)

LEMMA IdleSound == Idle \in Requests /\ \A ids : Sound(Idle, ids)
BY DEF Idle, Requests, Sound, Steps, SessionOps, FirstStep, Opening, Copied

\* A step of one request.
LEMMA OneRequest ==
    ASSUME TypeInv, NEW p \in Procs, NEW r \in Requests,
           req' = [req EXCEPT ![p] = r], issued \subseteq issued', Sound(r, issued')
    PROVE  req' \in [Procs -> Requests] /\ \A q \in Procs : Sound(req[q], issued)'
<1>1. \A q \in Procs : Sound(req[q], issued')
  BY DEF TypeInv, Sound
<1>2. req' \in [Procs -> Requests] /\ req'[p] = r /\ \A q \in Procs \ {p} : req'[q] = req[q]
  BY DEF TypeInv
<1>3. \A q \in Procs : Sound(req'[q], issued')
  BY <1>1, <1>2
<1> QED
  BY <1>2, <1>3 DEF Sound

LEMMA DoneTyped ==
    ASSUME TypeInv, NEW p \in Procs, Done(p)
    PROVE  /\ req' \in [Procs -> Requests] /\ \A q \in Procs : Sound(req[q], issued)'
           /\ busy' \in [JobKinds -> Int] /\ issued' = issued /\ deleted' = deleted
<1>1. issued' = issued /\ deleted' = deleted /\ req' = [req EXCEPT ![p] = Idle]
  BY DEF Done
<1>2. busy' \in [JobKinds -> Int]
  <2>1. KindOf(req[p].op) \in JobKinds
    BY DEF KindOf, JobKinds
  <2>2. busy' = busy \/ busy' = [busy EXCEPT ![KindOf(req[p].op)] = busy[KindOf(req[p].op)] - 1]
    BY DEF Done, Release
  <2>3. busy \in [JobKinds -> Int] /\ busy[KindOf(req[p].op)] \in Int
    BY <2>1 DEF TypeInv
  <2> QED
    BY <2>1, <2>2, <2>3
<1> QED
  BY <1>1, <1>2, IdleSound, OneRequest

\* A handler that goes on to its next step with its copy and its board.
Onward(p, r) ==
    /\ req' = [req EXCEPT ![p] = r]
    /\ r \in Requests /\ Sound(r, issued')
    /\ issued \subseteq issued' /\ issued' \subseteq Ids

LEMMA OnwardTyped ==
    ASSUME TypeInv, NEW p \in Procs, NEW r, Onward(p, r),
           busy' \in [JobKinds -> Int], deleted' = deleted
    PROVE  /\ req' \in [Procs -> Requests] /\ \A q \in Procs : Sound(req[q], issued)'
           /\ busy' \in [JobKinds -> Int] /\ issued' \subseteq Ids /\ deleted' \subseteq issued'
BY OneRequest DEF Onward, TypeInv

\* The answers that leave the store as it is.
Answers(p) ==
    \/ JobTimeout(p) \/ CallerLeft(p) \/ ReloadFails(p) \/ ReloadToReport(p)
    \/ RouteMakesNothing(p) \/ SaveFails(p) \/ ServeResult(p) \/ UploadRefused(p)

LEMMA AnswersDone ==
    ASSUME NEW p, Answers(p)
    PROVE  Done(p) /\ UNCHANGED <<rows, now>> /\ req[p].pc # "idle"
BY DEF Answers, JobTimeout, CallerLeft, ReloadFails, ReloadToReport, RouteMakesNothing,
       SaveFails, ServeResult, UploadRefused, At, Reload

\* Where the steps that do not answer lead.
LEMMA ArriveOnward ==
    ASSUME TypeInv, NEW p \in Procs, Arrive(p)
    PROVE  /\ UNCHANGED <<rows, now, busy, issued, deleted>>
           /\ \E r : Onward(p, r) /\ r.pc \in {"session", "list"} /\ r.sess = NoRow /\ r.id \in issued \cup {NoRow}
<1>0. (\E u \in Users, op \in SessionOps, id \in issued, ps \in Params \cup {NoParams} :
               /\ op = "plan" => ps # NoParams
               /\ req' = [req EXCEPT ![p] =
                       [Idle EXCEPT !.pc = "session", !.op = op, !.user = u, !.id = id, !.params = ps]])
      \/ (\E u \in Users, op \in {"upload", "list"} :
               req' = [req EXCEPT ![p] = [Idle EXCEPT !.pc = "list", !.op = op, !.user = u]])
  <2>1. PICK u \in Users :
          \/ \E op \in SessionOps, id \in issued, ps \in Params \cup {NoParams} :
               /\ op = "plan" => ps # NoParams
               /\ op \notin {"plan", "apply"} => ps = NoParams
               /\ req' = [req EXCEPT ![p] =
                       [Idle EXCEPT !.pc = "session", !.op = op, !.user = u, !.id = id, !.params = ps]]
          \/ \E op \in {"upload", "list"} :
               req' = [req EXCEPT ![p] = [Idle EXCEPT !.pc = "list", !.op = op, !.user = u]]
    BY Zenon DEF Arrive
  <2>2. CASE \E op \in SessionOps, id \in issued, ps \in Params \cup {NoParams} :
               /\ op = "plan" => ps # NoParams
               /\ op \notin {"plan", "apply"} => ps = NoParams
               /\ req' = [req EXCEPT ![p] =
                       [Idle EXCEPT !.pc = "session", !.op = op, !.user = u, !.id = id, !.params = ps]]
    BY <2>2, Zenon
  <2>3. CASE \E op \in {"upload", "list"} :
               req' = [req EXCEPT ![p] = [Idle EXCEPT !.pc = "list", !.op = op, !.user = u]]
    BY <2>3, Zenon
  <2> QED
    BY <2>1, <2>2, <2>3, Zenon
<1> USE DEF Onward, Requests, Sound, Steps, SessionOps, FirstStep, Opening, Copied, Idle, TypeInv
<1>1. UNCHANGED <<rows, now, busy, issued, deleted>>
  BY DEF Arrive, Ask
<1>2. CASE \E u \in Users, op \in SessionOps, id \in issued, ps \in Params \cup {NoParams} :
               /\ op = "plan" => ps # NoParams
               /\ req' = [req EXCEPT ![p] =
                       [Idle EXCEPT !.pc = "session", !.op = op, !.user = u, !.id = id, !.params = ps]]
  <2>1. PICK u \in Users, op \in SessionOps, id \in issued, ps \in Params \cup {NoParams} :
               /\ op = "plan" => ps # NoParams
               /\ req' = [req EXCEPT ![p] =
                       [Idle EXCEPT !.pc = "session", !.op = op, !.user = u, !.id = id, !.params = ps]]
    BY <1>2
  <2> DEFINE r == [Idle EXCEPT !.pc = "session", !.op = op, !.user = u, !.id = id, !.params = ps]
  <2>2. r \in Requests /\ Sound(r, issued')
    BY <1>1, <2>1
  <2>3. Onward(p, r) /\ r.pc = "session" /\ r.sess = NoRow /\ r.id \in issued
    BY <1>1, <2>1, <2>2
  <2> QED
    BY <1>1, <2>3
<1>3. CASE \E u \in Users, op \in {"upload", "list"} :
               req' = [req EXCEPT ![p] = [Idle EXCEPT !.pc = "list", !.op = op, !.user = u]]
  <2>1. PICK u \in Users, op \in {"upload", "list"} :
               req' = [req EXCEPT ![p] = [Idle EXCEPT !.pc = "list", !.op = op, !.user = u]]
    BY <1>3
  <2> DEFINE r == [Idle EXCEPT !.pc = "list", !.op = op, !.user = u]
  <2>2. r \in Requests /\ Sound(r, issued')
    BY <1>1, <2>1
  <2>3. Onward(p, r) /\ r.pc = "list" /\ r.sess = NoRow /\ r.id = NoRow
    BY <1>1, <2>1, <2>2
  <2> QED
    BY <1>1, <2>3
<1> QED
  BY <1>0, <1>2, <1>3

LEMMA GetSessionOnward ==
    ASSUME TypeInv, NEW p \in Procs, GetSession(p)
    PROVE  /\ UNCHANGED <<rows, now>> /\ req[p].pc = "session"
           /\ \/ Done(p)
              \/ /\ UNCHANGED <<busy, issued, deleted>>
                 /\ rows[req[p].id] \in Rows
                 /\ LET r == [req[p] EXCEPT !.sess = rows[req[p].id].s, !.pc = FirstStep[req[p].op]]
                    IN  Onward(p, r)
<1>1. UNCHANGED <<rows, now>> /\ req[p].pc = "session"
  BY DEF GetSession, At
<1>2. CASE Done(p)
  BY <1>1, <1>2
<1>3. CASE ~Done(p)
  <2>1. /\ Visible(req[p].id) /\ UNCHANGED <<busy, issued, deleted>>
        /\ req' = [req EXCEPT ![p].sess = rows[req[p].id].s, ![p].pc = FirstStep[req[p].op]]
    BY <1>3 DEF GetSession
  <2>2. req[p] \in Requests /\ req[p].id \in Ids /\ req[p].id \in issued /\ req[p].op \in SessionOps /\ Sound(req[p], issued)
    BY <1>1 DEF TypeInv, Sound, Opening
  <2>3. rows[req[p].id] \in Rows /\ rows[req[p].id].s \in Sessions
    <3>1. rows[req[p].id] \in Rows
      BY <2>1, <2>2 DEF Visible, TypeInv, Table
    <3> QED
      BY <3>1 DEF Rows
  <2> DEFINE r == [req[p] EXCEPT !.sess = rows[req[p].id].s, !.pc = FirstStep[req[p].op]]
  <2>4. req' = [req EXCEPT ![p] = r]
    BY <2>1
  <2>5. r \in Requests
    <3>1. FirstStep[req[p].op] \in Steps
      BY <2>2 DEF FirstStep, SessionOps, Steps
    <3> QED
      BY <2>2, <2>3, <3>1 DEF Requests
  <2>6. Sound(r, issued)
    BY <1>1, <2>2, <2>3 DEF Sound, Requests, FirstStep, SessionOps, Opening, Copied, JobOps
  <2> HIDE DEF r
  <2>7. Onward(p, r)
    BY <2>1, <2>4, <2>5, <2>6 DEF Onward, TypeInv
  <2> QED
    BY <1>1, <2>1, <2>3, <2>7 DEF r
<1> QED
  BY <1>2, <1>3

\* A handler's board: what it read, with connections made or tuned.
LEMMA BoardMade ==
    ASSUME NEW b \in BoardContents
    PROVE  /\ \A ps \in Params : [b EXCEPT !.tuned = ps] \in BoardContents
           /\ \A made \in SUBSET Hops : [b EXCEPT !.hops = b.hops \cup made] \in BoardContents
BY DEF BoardContents

LEMMA MetaMade ==
    ASSUME NEW s \in Sessions
    PROVE  /\ s.meta \in SessionMeta
           /\ \A ps \in Params : WithParams(s, ps) \in Sessions
           /\ \A b \in BoardContents : \A op : Recorded(op, s, b) \in Sessions
<1>1. s.meta \in SessionMeta
  BY DEF Sessions
<1>2. \A m \in SessionMeta : [s EXCEPT !.meta = m] \in Sessions
  BY DEF Sessions
<1>3. ASSUME NEW ps \in Params PROVE WithParams(s, ps) \in Sessions
  <2>1. [s.meta EXCEPT !.params = ps] \in SessionMeta
    BY <1>1 DEF SessionMeta
  <2> QED
    BY <1>2, <2>1 DEF WithParams
<1>4. ASSUME NEW b \in BoardContents, NEW op PROVE Recorded(op, s, b) \in Sessions
  <2>1. /\ [s.meta EXCEPT !.applied = b] \in SessionMeta
        /\ [s.meta EXCEPT !.applied = NoBoard, !.routed = b] \in SessionMeta
    BY <1>1 DEF SessionMeta
  <2> QED
    BY <1>2, <2>1 DEF Recorded
<1> QED
  BY <1>1, <1>3, <1>4

\* The row a handler reads again, and its own request.
LEMMA Reread ==
    ASSUME TypeInv, NEW p \in Procs, NEW op, Reload(p, op)
    PROVE  /\ rows[req[p].id] \in Rows /\ rows[req[p].id].board \in BoardContents
           /\ req[p] \in Requests /\ Sound(req[p], issued) /\ req[p].op = op /\ req[p].pc = "reload"
           /\ req[p].id \in Ids /\ req[p].sess \in Sessions
<1>1. req[p] \in Requests /\ Sound(req[p], issued) /\ req[p].op = op /\ req[p].pc = "reload"
  BY DEF Reload, At, TypeInv
<1>2. req[p].id \in Ids /\ req[p].sess \in Sessions
  BY <1>1 DEF Sound, Opening, Copied, TypeInv
<1>3. rows[req[p].id] \in Rows
  BY <1>2 DEF Reload, Visible, TypeInv, Table
<1>4. rows[req[p].id].board \in BoardContents
  BY <1>3 DEF Rows
<1> QED
  BY <1>1, <1>2, <1>3, <1>4

\* What a handler computes on its copy: it goes on with it, or with a board.
Computes(p) ==
    ReloadForChanges(p) \/ ReloadForPlan(p) \/ ReloadForApply(p) \/ ReloadForRoute(p)

\* A copy with nothing changed but its parameters.
SameRecord(s, t) == s.user = t.user /\ s.meta.applied = t.meta.applied

LEMMA ComputesOnward ==
    ASSUME TypeInv, NEW p \in Procs, Computes(p)
    PROVE  /\ UNCHANGED <<rows, now, busy, issued, deleted>>
           /\ req[p].pc = "reload" /\ req[p].id \in Ids /\ rows[req[p].id] \in Rows
           /\ \E r : /\ Onward(p, r) /\ r.op = req[p].op /\ r.id = req[p].id
                     /\ r.pc \in {"result", "update", "putResult", "put"}
                     /\ r.sess \in Sessions /\ r.sess.meta.routed = req[p].sess.meta.routed
                     /\ r.pc = "put" => r.board.hops # {}
                     /\ r.pc \in {"update", "putResult"} => r.op # "route"
                     /\ r.user = req[p].user /\ SameRecord(r.sess, req[p].sess)
                     /\ r.pc = "putResult" => r.board.hops = rows[req[p].id].board.hops
<1>0. UNCHANGED <<rows, now, busy, issued, deleted>>
  BY DEF Computes, ReloadForChanges, ReloadForPlan, ReloadForApply, ReloadForRoute
<1>r. \E op : Reload(p, op)
  BY DEF Computes, ReloadForChanges, ReloadForPlan, ReloadForApply, ReloadForRoute
<1>q. /\ rows[req[p].id] \in Rows /\ rows[req[p].id].board \in BoardContents
      /\ req[p] \in Requests /\ Sound(req[p], issued) /\ req[p].pc = "reload"
      /\ req[p].id \in issued /\ req[p].id \in Ids /\ req[p].sess \in Sessions /\ req[p].user \in Users
  BY <1>r, Reread DEF Sound, Opening
<1>m. \A ps \in Params : /\ WithParams(req[p].sess, ps) \in Sessions
                         /\ WithParams(req[p].sess, ps).meta.routed = req[p].sess.meta.routed
                         /\ SameRecord(WithParams(req[p].sess, ps), req[p].sess)
  <2>1. req[p].sess.meta \in SessionMeta
    BY <1>q, MetaMade
  <2> QED
    BY <1>q, <2>1, MetaMade DEF WithParams, Sessions, SessionMeta, SameRecord
<1>1. ASSUME ReloadForChanges(p)
      PROVE  LET r == [req[p] EXCEPT !.board = rows[req[p].id].board, !.pc = "result"]
             IN  /\ Onward(p, r) /\ r.op = req[p].op /\ r.id = req[p].id /\ r.sess = req[p].sess
                 /\ r.pc = "result" /\ r.user = req[p].user
  <2> DEFINE r == [req[p] EXCEPT !.board = rows[req[p].id].board, !.pc = "result"]
  <2>1. req' = [req EXCEPT ![p] = r]
    BY <1>1 DEF ReloadForChanges
  <2>2. /\ r \in Requests /\ Sound(r, issued) /\ r.op = req[p].op /\ r.id = req[p].id /\ r.sess = req[p].sess
        /\ r.pc = "result" /\ r.user = req[p].user
    BY <1>q DEF Requests, Sound, Steps, Opening, Copied
  <2> QED
    BY <1>0, <2>1, <2>2 DEF Onward, TypeInv
<1>2. ASSUME ReloadForPlan(p)
      PROVE  LET r == [req[p] EXCEPT !.sess = WithParams(req[p].sess, req[p].params), !.pc = "update"]
             IN  /\ Onward(p, r) /\ r.op = "plan" /\ r.op = req[p].op /\ r.id = req[p].id /\ r.pc = "update"
                 /\ r.sess \in Sessions /\ r.sess.meta.routed = req[p].sess.meta.routed
                 /\ r.user = req[p].user /\ SameRecord(r.sess, req[p].sess)
  <2> DEFINE s == WithParams(req[p].sess, req[p].params)
             r == [req[p] EXCEPT !.sess = s, !.pc = "update"]
  <2>1. req' = [req EXCEPT ![p] = r]
    BY <1>2 DEF ReloadForPlan
  <2>2. req[p].op = "plan" /\ req[p].params \in Params
    BY <1>2, <1>q DEF ReloadForPlan, Reload, Sound
  <2>3. s \in Sessions /\ s.meta.routed = req[p].sess.meta.routed /\ SameRecord(s, req[p].sess)
    BY <1>m, <2>2
  <2> HIDE DEF s
  <2>4. /\ r \in Requests /\ Sound(r, issued) /\ r.op = req[p].op /\ r.id = req[p].id /\ r.sess = s
        /\ r.pc = "update" /\ r.user = req[p].user
    BY <1>q, <2>2, <2>3 DEF Requests, Sound, Steps, Opening, Copied
  <2> QED
    BY <1>0, <2>1, <2>2, <2>3, <2>4 DEF Onward, TypeInv, s
<1>3. ASSUME ReloadForApply(p)
      PROVE  \E s \in Sessions, b \in BoardContents \cup {req[p].board}, pc \in {"update", "putResult"} :
             LET r == [req[p] EXCEPT !.sess = s, !.board = b, !.pc = pc]
             IN  /\ Onward(p, r) /\ r.op = "apply" /\ r.op = req[p].op /\ r.id = req[p].id /\ r.pc = pc
                 /\ r.sess = s /\ s.meta.routed = req[p].sess.meta.routed
                 /\ r.user = req[p].user /\ SameRecord(s, req[p].sess)
                 /\ pc = "putResult" => r.board.hops = rows[req[p].id].board.hops
  <2> DEFINE ps == IF req[p].params = NoParams THEN req[p].sess.meta.params ELSE req[p].params
             s == WithParams(req[p].sess, ps)
             b2 == [rows[req[p].id].board EXCEPT !.tuned = ps]
             r1 == [req[p] EXCEPT !.sess = s, !.board = req[p].board, !.pc = "update"]
             r2 == [req[p] EXCEPT !.sess = s, !.board = b2, !.pc = "putResult"]
  <2>0. r1 = [req[p] EXCEPT !.sess = s, !.pc = "update"]
    BY <1>q DEF Requests
  <2>1. req' = [req EXCEPT ![p] = r1] \/ req' = [req EXCEPT ![p] = r2]
    BY <1>3, <2>0 DEF ReloadForApply
  <2>2. req[p].op = "apply" /\ ps \in Params
    <3>1. req[p].sess.meta.params \in Params
      BY <1>q, MetaMade DEF SessionMeta
    <3>2. req[p].params \in Params \cup {NoParams}
      BY <1>q DEF Requests
    <3> QED
      BY <1>3, <3>1, <3>2 DEF ReloadForApply, Reload
  <2>3. s \in Sessions /\ s.meta.routed = req[p].sess.meta.routed /\ SameRecord(s, req[p].sess)
    BY <1>m, <2>2
  <2>4. b2 \in BoardContents /\ b2.hops = rows[req[p].id].board.hops
    BY <1>q, <2>2, BoardMade DEF BoardContents
  <2> HIDE DEF s, b2
  <2>5. /\ r1 \in Requests /\ Sound(r1, issued) /\ r1.op = req[p].op /\ r1.id = req[p].id /\ r1.sess = s
        /\ r1.pc = "update" /\ r1.user = req[p].user
    BY <1>q, <2>2, <2>3 DEF Requests, Sound, Steps, Opening, Copied
  <2>6. /\ r2 \in Requests /\ Sound(r2, issued) /\ r2.op = req[p].op /\ r2.id = req[p].id /\ r2.sess = s
        /\ r2.pc = "putResult" /\ r2.user = req[p].user /\ r2.board = b2
    BY <1>q, <2>2, <2>3, <2>4 DEF Requests, Sound, Steps, Opening, Copied
  <2>7. CASE req' = [req EXCEPT ![p] = r1]
    <3>1. Onward(p, r1)
      BY <1>0, <2>5, <2>7 DEF Onward, TypeInv
    <3> QED
      BY <2>2, <2>3, <2>5, <3>1
  <2>8. CASE req' = [req EXCEPT ![p] = r2]
    <3>1. Onward(p, r2)
      BY <1>0, <2>6, <2>8 DEF Onward, TypeInv
    <3> QED
      BY <2>2, <2>3, <2>4, <2>6, <3>1
  <2> QED
    BY <2>1, <2>7, <2>8
<1>4. ASSUME ReloadForRoute(p)
      PROVE  \E b \in BoardContents :
             LET r == [req[p] EXCEPT !.board = b, !.pc = "put"]
             IN  /\ Onward(p, r) /\ r.op = req[p].op /\ r.id = req[p].id /\ r.pc = "put"
                 /\ r.sess = req[p].sess /\ r.board = b /\ b.hops # {} /\ r.user = req[p].user
  <2>1. req[p].op = "route"
    BY <1>4 DEF ReloadForRoute, Reload
  <2>2. PICK made \in (SUBSET Missing(rows[req[p].id].board)) \ {{}} :
               req' = [req EXCEPT
                    ![p].board = [rows[req[p].id].board EXCEPT !.hops = rows[req[p].id].board.hops \cup made],
                    ![p].pc = "put"]
    BY <1>4 DEF ReloadForRoute
  <2> DEFINE b == [rows[req[p].id].board EXCEPT !.hops = rows[req[p].id].board.hops \cup made]
             r == [req[p] EXCEPT !.board = b, !.pc = "put"]
  <2>3. req' = [req EXCEPT ![p] = r]
    BY <2>2
  <2>4. b \in BoardContents /\ b.hops # {}
    <3>1. made \in SUBSET Hops /\ made # {}
      BY <2>2 DEF Missing
    <3>2. b.hops = rows[req[p].id].board.hops \cup made
      BY <1>q DEF BoardContents
    <3> QED
      BY <1>q, <3>1, <3>2, BoardMade
  <2> HIDE DEF b
  <2>5. /\ r \in Requests /\ Sound(r, issued) /\ r.op = req[p].op /\ r.id = req[p].id /\ r.sess = req[p].sess
        /\ r.pc = "put" /\ r.board = b /\ r.user = req[p].user
    BY <1>q, <2>1, <2>4 DEF Requests, Sound, Steps, Opening, Copied
  <2>6. Onward(p, r)
    BY <1>0, <2>3, <2>5 DEF Onward, TypeInv
  <2> QED
    BY <2>4, <2>5, <2>6
<1> DEFINE Goes(r) ==
             /\ Onward(p, r) /\ r.op = req[p].op /\ r.id = req[p].id
             /\ r.pc \in {"result", "update", "putResult", "put"}
             /\ r.sess \in Sessions /\ r.sess.meta.routed = req[p].sess.meta.routed
             /\ r.pc = "put" => r.board.hops # {}
             /\ r.pc \in {"update", "putResult"} => r.op # "route"
             /\ r.user = req[p].user /\ SameRecord(r.sess, req[p].sess)
             /\ r.pc = "putResult" => r.board.hops = rows[req[p].id].board.hops
<1>5. SameRecord(req[p].sess, req[p].sess)
  BY DEF SameRecord
<1>6. ReloadForChanges(p) => \E r : Goes(r)
  BY <1>q, <1>1, <1>5
<1>7. ReloadForPlan(p) => \E r : Goes(r)
  BY <1>2
<1>8. ASSUME ReloadForApply(p) PROVE \E r : Goes(r)
  <2>1. PICK s \in Sessions, b \in BoardContents \cup {req[p].board}, pc \in {"update", "putResult"} :
             LET r == [req[p] EXCEPT !.sess = s, !.board = b, !.pc = pc]
             IN  /\ Onward(p, r) /\ r.op = "apply" /\ r.op = req[p].op /\ r.id = req[p].id /\ r.pc = pc
                 /\ r.sess = s /\ s.meta.routed = req[p].sess.meta.routed
                 /\ r.user = req[p].user /\ SameRecord(s, req[p].sess)
                 /\ pc = "putResult" => r.board.hops = rows[req[p].id].board.hops
    BY <1>3, <1>8
  <2>2. Goes([req[p] EXCEPT !.sess = s, !.board = b, !.pc = pc])
    BY <2>1
  <2> QED
    BY <2>2
<1>9. ReloadForRoute(p) => \E r : Goes(r)
  BY <1>q, <1>4, <1>5
<1> QED
  BY <1>0, <1>q, <1>6, <1>7, <1>8, <1>9 DEF Computes

\* A request under way is that of somebody, and what it holds is whole.
LEMMA UnderWay ==
    ASSUME TypeInv, NEW p \in Procs
    PROVE  /\ req[p] \in Requests /\ Sound(req[p], issued)
           /\ req[p].pc \notin Opening => req[p].id \in issued /\ req[p].id \in Ids
           /\ req[p].pc \in Copied => req[p].sess \in Sessions
           /\ req[p].pc \in {"put", "putResult", "create"} => req[p].board \in BoardContents
BY DEF TypeInv, Sound

LEMMA JobStartOnward ==
    ASSUME TypeInv, NEW p \in Procs, JobStart(p)
    PROVE  /\ UNCHANGED <<rows, now, issued, deleted>>
           /\ LET r == [req[p] EXCEPT !.pc = "reload"]
              IN  /\ Onward(p, r) /\ r.op = req[p].op /\ r.id = req[p].id /\ r.sess = req[p].sess
                  /\ r.pc = "reload" /\ r.user = req[p].user
           /\ req[p].pc = "wait" /\ req[p].op \in JobOps
           /\ busy[KindOf(req[p].op)] < Slots(KindOf(req[p].op))
           /\ busy' = [busy EXCEPT ![KindOf(req[p].op)] = busy[KindOf(req[p].op)] + 1]
<1>1. req[p].pc = "wait" /\ req[p].op \in JobOps
  BY UnderWay DEF JobStart, At, Sound
<1>2. req' = [req EXCEPT ![p] = [req[p] EXCEPT !.pc = "reload"]] /\ UNCHANGED <<rows, now, issued, deleted>>
  BY DEF JobStart
<1>3. LET r == [req[p] EXCEPT !.pc = "reload"]
      IN  /\ r \in Requests /\ Sound(r, issued) /\ r.op = req[p].op /\ r.id = req[p].id /\ r.sess = req[p].sess
          /\ r.pc = "reload" /\ r.user = req[p].user
  BY <1>1, UnderWay DEF Requests, Sound, Steps, Opening, Copied, JobOps
<1> QED
  BY <1>1, <1>2, <1>3 DEF Onward, TypeInv, JobStart

LEMMA SaveBoardOnward ==
    ASSUME TypeInv, NEW p \in Procs, SaveBoard(p)
    PROVE  /\ Put(req[p].id, req[p].sess, req[p].board) /\ UNCHANGED <<busy, issued, deleted>>
           /\ req[p].pc = "put" /\ req[p].op = "route"
           /\ LET r == [req[p] EXCEPT !.pc = "putResult"]
              IN  /\ Onward(p, r) /\ r.op = req[p].op /\ r.id = req[p].id /\ r.sess = req[p].sess
                  /\ r.pc = "putResult" /\ r.board = req[p].board /\ r.user = req[p].user
<1>1. req[p].pc = "put" /\ req[p].op = "route"
  BY UnderWay DEF SaveBoard, At, Sound
<1>2. /\ Put(req[p].id, req[p].sess, req[p].board) /\ UNCHANGED <<busy, issued, deleted>>
      /\ req' = [req EXCEPT ![p] = [req[p] EXCEPT !.pc = "putResult"]]
  BY DEF SaveBoard, GoTo
<1>3. LET r == [req[p] EXCEPT !.pc = "putResult"]
      IN  /\ r \in Requests /\ Sound(r, issued) /\ r.op = req[p].op /\ r.id = req[p].id
          /\ r.sess = req[p].sess /\ r.pc = "putResult" /\ r.board = req[p].board /\ r.user = req[p].user
  BY <1>1, UnderWay DEF Requests, Sound, Steps, Opening, Copied
<1> QED
  BY <1>1, <1>2, <1>3 DEF Onward, TypeInv

LEMMA SaveResultOnward ==
    ASSUME TypeInv, NEW p \in Procs, SaveResult(p)
    PROVE  /\ PutResult(req[p].id, req[p].board) /\ UNCHANGED <<busy, issued, deleted>>
           /\ req[p].pc = "putResult" /\ req[p].op \in {"route", "apply"}
           /\ LET r == [req[p] EXCEPT !.sess = Recorded(req[p].op, req[p].sess, req[p].board), !.pc = "update"]
              IN  /\ Onward(p, r) /\ r.op = req[p].op /\ r.id = req[p].id /\ r.pc = "update"
                  /\ r.sess = Recorded(req[p].op, req[p].sess, req[p].board) /\ r.user = req[p].user
<1>1. req[p].pc = "putResult" /\ req[p].op \in {"route", "apply"}
  BY UnderWay DEF SaveResult, At, Sound
<1> DEFINE s == Recorded(req[p].op, req[p].sess, req[p].board)
<1>2. /\ PutResult(req[p].id, req[p].board) /\ UNCHANGED <<busy, issued, deleted>>
      /\ req' = [req EXCEPT ![p] = [req[p] EXCEPT !.sess = s, !.pc = "update"]]
  BY DEF SaveResult
<1>3. s \in Sessions
  <2>1. req[p].sess \in Sessions /\ req[p].board \in BoardContents
    BY <1>1, UnderWay DEF Copied
  <2> QED
    BY <2>1, MetaMade
<1> HIDE DEF s
<1>4. LET r == [req[p] EXCEPT !.sess = s, !.pc = "update"]
      IN  /\ r \in Requests /\ Sound(r, issued) /\ r.op = req[p].op /\ r.id = req[p].id
          /\ r.sess = s /\ r.pc = "update" /\ r.user = req[p].user
  BY <1>1, <1>3, UnderWay DEF Requests, Sound, Steps, Opening, Copied
<1> QED
  BY <1>1, <1>2, <1>4 DEF Onward, TypeInv, s

LEMMA ListOnward ==
    ASSUME TypeInv, NEW p \in Procs, ListSessions(p)
    PROVE  /\ SweepForList /\ req[p].pc = "list"
           /\ \/ Done(p)
              \/ /\ UNCHANGED <<busy, issued, deleted>>
                 /\ \E r : /\ Onward(p, r) /\ r.op = req[p].op /\ r.id = req[p].id
                           /\ r.sess = req[p].sess /\ r.pc = "dropOld" /\ r.user = req[p].user
<1>1. SweepForList /\ req[p].pc = "list"
  BY DEF ListSessions, At
<1>2. CASE Done(p)
  BY <1>1, <1>2
<1>3. CASE ~Done(p)
  <2>1. PICK old \in SUBSET UserRows(Sweep(rows), req[p].user) :
              req' = [req EXCEPT ![p].doomed = old, ![p].pc = "dropOld"]
    BY <1>3 DEF ListSessions
  <2>2. UNCHANGED <<busy, issued, deleted>>
    BY <1>3 DEF ListSessions
  <2>3. old \subseteq Ids
    BY <2>1 DEF UserRows, Live
  <2> DEFINE r == [req[p] EXCEPT !.doomed = old, !.pc = "dropOld"]
  <2>4. req' = [req EXCEPT ![p] = r]
    BY <2>1
  <2>5. /\ r \in Requests /\ Sound(r, issued) /\ r.op = req[p].op /\ r.id = req[p].id
        /\ r.sess = req[p].sess /\ r.pc = "dropOld" /\ r.user = req[p].user
    BY <1>1, <2>3, UnderWay DEF Requests, Sound, Steps, Opening, Copied
  <2>6. Onward(p, r)
    BY <2>2, <2>4, <2>5 DEF Onward, TypeInv
  <2> QED
    BY <1>1, <2>2, <2>5, <2>6
<1> QED
  BY <1>2, <1>3

LEMMA DropOldOnward ==
    ASSUME TypeInv, NEW p \in Procs, DropOld(p)
    PROVE  /\ \E id : Delete(id)
           /\ UNCHANGED <<busy, issued, deleted>> /\ req[p].pc = "dropOld"
           /\ \E r : /\ Onward(p, r) /\ r.op = req[p].op /\ r.id = req[p].id
                     /\ r.sess = req[p].sess /\ r.pc = "dropOld" /\ r.user = req[p].user
<1>1. UNCHANGED <<busy, issued, deleted>> /\ req[p].pc = "dropOld"
  BY DEF DropOld, At
<1>2. PICK id \in req[p].doomed :
        Delete(id) /\ req' = [req EXCEPT ![p].doomed = req[p].doomed \ {id}]
  BY DEF DropOld
<1> DEFINE r == [req[p] EXCEPT !.doomed = req[p].doomed \ {id}]
<1>3. req' = [req EXCEPT ![p] = r]
  BY <1>2
<1>4. /\ r \in Requests /\ Sound(r, issued) /\ r.op = req[p].op /\ r.id = req[p].id
      /\ r.sess = req[p].sess /\ r.pc = "dropOld" /\ r.user = req[p].user
  BY <1>1, UnderWay DEF Requests, Sound, Steps, Opening, Copied
<1>5. Onward(p, r)
  BY <1>1, <1>3, <1>4 DEF Onward, TypeInv
<1> QED
  BY <1>1, <1>2, <1>4, <1>5

LEMMA UploadOnward ==
    ASSUME TypeInv, NEW p \in Procs, UploadAccepted(p)
    PROVE  /\ UNCHANGED <<rows, now, busy, deleted>> /\ req[p].pc = "dropOld"
           /\ \E r : /\ Onward(p, r) /\ r.op = req[p].op /\ r.pc = "create"
                     /\ r.id \in Ids \ issued /\ issued' = issued \cup {r.id}
                     /\ r.sess \in Sessions /\ r.sess.meta.routed = NoBoard
                     /\ r.user = req[p].user /\ r.sess.user = r.user /\ r.sess.meta.applied = NoBoard
<1>1. UNCHANGED <<rows, now, busy, deleted>> /\ req[p].pc = "dropOld"
  BY DEF UploadAccepted, At
<1> DEFINE m == [params |-> DefaultParams, applied |-> NoBoard, routed |-> NoBoard]
           s == [user |-> req[p].user, created |-> now, expires |-> now + TTL, meta |-> m]
           b == [hops |-> {}, tuned |-> NoParams]
<1>0. PICK id \in Ids \ issued :
         /\ req' = [req EXCEPT ![p].pc = "create", ![p].id = id, ![p].sess = s, ![p].board = b]
         /\ issued' = issued \cup {id}
  BY Zenon DEF UploadAccepted
<1> HIDE DEF s, b
<1>2. /\ req' = [req EXCEPT ![p] = [req[p] EXCEPT !.pc = "create", !.id = id, !.sess = s, !.board = b]]
      /\ issued' = issued \cup {id} /\ id \in Ids \ issued
  BY <1>0
<1>3. m \in SessionMeta /\ m.routed = NoBoard /\ m.applied = NoBoard
  BY ServerAssumption DEF SessionMeta
<1>4. b \in BoardContents
  BY DEF BoardContents, b
<1>5. req[p].user \in Users /\ req[p].op \in {"upload", "list"}
  BY <1>1, UnderWay DEF Sound
<1>6. now \in Times /\ now + TTL \in Times
  BY ServerAssumption DEF TypeInv, Times
<1> HIDE DEF m
<1>7. s \in Sessions /\ s.meta = m /\ s.user = req[p].user
  BY <1>3, <1>5, <1>6 DEF Sessions, s
<1> DEFINE r == [req[p] EXCEPT !.pc = "create", !.id = id, !.sess = s, !.board = b]
<1>8. /\ r \in Requests /\ r.op = req[p].op /\ r.id = id /\ r.sess = s /\ r.pc = "create"
      /\ r.user = req[p].user /\ r.board = b
  BY <1>4, <1>7, UnderWay DEF Requests, Steps
<1>9. Sound(r, issued')
  BY <1>2, <1>4, <1>5, <1>7, <1>8 DEF Sound, Opening, Copied
<1>10. Onward(p, r)
  <2>1. req' = [req EXCEPT ![p] = r]
    BY <1>2
  <2>2. issued \subseteq issued' /\ issued' \subseteq Ids
    BY <1>2 DEF TypeInv
  <2> HIDE DEF r
  <2> QED
    BY <1>8, <1>9, <2>1, <2>2 DEF Onward
<1>11. /\ r.id \in Ids \ issued /\ issued' = issued \cup {r.id}
       /\ r.sess.user = r.user /\ r.sess.meta.routed = NoBoard /\ r.sess.meta.applied = NoBoard
  BY <1>2, <1>3, <1>7, <1>8
<1> HIDE DEF r
<1> QED
  BY <1>1, <1>7, <1>8, <1>10, <1>11

LEMMA DeleteOnward ==
    ASSUME TypeInv, NEW p \in Procs, DeleteSession(p)
    PROVE  /\ \E id : Delete(id)
           /\ UNCHANGED <<busy, issued>> /\ deleted' \subseteq issued
           /\ req[p].pc = "delete" /\ req[p].op = "delete" /\ Onward(p, Idle)
<1>1. req[p].pc = "delete" /\ req[p].op = "delete" /\ req[p].id \in issued
  BY UnderWay DEF DeleteSession, At, Sound, Opening
<1>2. UNCHANGED <<busy, issued>> /\ Delete(req[p].id)
  BY DEF DeleteSession
<1>3. deleted' = deleted \cup {req[p].id} /\ req' = [req EXCEPT ![p] = Idle]
  BY DEF DeleteSession
<1>4. Onward(p, Idle)
  BY <1>2, <1>3, IdleSound DEF Onward, TypeInv
<1> QED
  BY <1>1, <1>2, <1>3, <1>4 DEF TypeInv

LEMMA SaveSessionDone ==
    ASSUME TypeInv, NEW p \in Procs, SaveSession(p)
    PROVE  /\ Done(p) /\ req[p].pc = "update" /\ req[p].id \in issued /\ req[p].sess \in Sessions
           /\ rows' \in Table /\ now' = now /\ KeptBut({req[p].id})
           /\ rows[req[p].id] \in Rows
           /\ rows'[req[p].id] = [rows[req[p].id] EXCEPT !.s = req[p].sess]
<1>1. Done(p) /\ req[p].pc = "update" /\ Update(req[p].id, req[p].sess)
  BY DEF SaveSession, At
<1>2. req[p].id \in issued /\ req[p].id \in Ids /\ req[p].sess \in Sessions
  BY <1>1, UnderWay DEF Opening, Copied
<1>3. rows \in Table
  BY DEF TypeInv
<1> QED
  BY <1>1, <1>2, <1>3, UpdateRows

LEMMA CreateSessionDone ==
    ASSUME TypeInv, NEW p \in Procs, CreateSession(p)
    PROVE  /\ Done(p) /\ req[p].pc = "create" /\ req[p].id \in issued
           /\ req[p].sess \in Sessions /\ req[p].board \in BoardContents
           /\ rows' \in Table /\ now' = now /\ KeptBut({req[p].id})
           /\ rows'[req[p].id] = [s |-> req[p].sess, board |-> req[p].board, result |-> NoBoard]
<1>1. Done(p) /\ req[p].pc = "create" /\ Put(req[p].id, req[p].sess, req[p].board)
  BY DEF CreateSession, At
<1>2. req[p].id \in issued /\ req[p].id \in Ids /\ req[p].sess \in Sessions /\ req[p].board \in BoardContents
  BY <1>1, UnderWay DEF Opening, Copied
<1>3. rows \in Table
  BY DEF TypeInv
<1> QED
  BY <1>1, <1>2, <1>3, PutRows

\* The rows that saving a board, or a result, leaves behind.
LEMMA SavedRows ==
    ASSUME TypeInv, NEW p \in Procs
    PROVE  /\ SaveBoard(p) =>
                /\ rows' \in Table /\ now' = now /\ KeptBut({req[p].id}) /\ req[p].id \in issued
                /\ rows'[req[p].id] = [s |-> req[p].sess, board |-> req[p].board, result |-> NoBoard]
           /\ SaveResult(p) =>
                /\ rows' \in Table /\ now' = now /\ KeptBut({req[p].id}) /\ req[p].id \in issued
                /\ rows[req[p].id] \in Rows
                /\ rows'[req[p].id] = [rows[req[p].id] EXCEPT !.result = req[p].board]
<1>1. rows \in Table
  BY DEF TypeInv
<1>2. ASSUME SaveBoard(p)
      PROVE  /\ rows' \in Table /\ now' = now /\ KeptBut({req[p].id}) /\ req[p].id \in issued
             /\ rows'[req[p].id] = [s |-> req[p].sess, board |-> req[p].board, result |-> NoBoard]
  <2>1. Put(req[p].id, req[p].sess, req[p].board) /\ req[p].pc = "put"
    BY <1>2, SaveBoardOnward
  <2>2. /\ req[p].id \in issued /\ req[p].id \in Ids
        /\ req[p].sess \in Sessions /\ req[p].board \in BoardContents
    BY <2>1, UnderWay DEF Opening, Copied
  <2> QED
    BY <1>1, <2>1, <2>2, PutRows
<1>3. ASSUME SaveResult(p)
      PROVE  /\ rows' \in Table /\ now' = now /\ KeptBut({req[p].id}) /\ req[p].id \in issued
             /\ rows[req[p].id] \in Rows
             /\ rows'[req[p].id] = [rows[req[p].id] EXCEPT !.result = req[p].board]
  <2>1. PutResult(req[p].id, req[p].board) /\ req[p].pc = "putResult"
    BY <1>3, SaveResultOnward
  <2>2. /\ req[p].id \in issued /\ req[p].id \in Ids /\ req[p].board \in BoardContents
    BY <2>1, UnderWay DEF Opening, Copied
  <2> QED
    BY <1>1, <2>1, <2>2, PutResultRows
<1> QED
  BY <1>2, <1>3

\* What one request can do, by the shape of its step.
LEMMA Kinds ==
    ASSUME NEW p, Arrive(p) \/ CallerLeft(p) \/ Step(p)
    PROVE  \/ Answers(p) \/ Arrive(p) \/ GetSession(p) \/ JobStart(p) \/ Computes(p)
           \/ SaveBoard(p) \/ SaveResult(p) \/ SaveSession(p) \/ DeleteSession(p)
           \/ ListSessions(p) \/ DropOld(p) \/ UploadAccepted(p) \/ CreateSession(p)
BY Zenon DEF Step, Answers, Computes

LEMMA TypeInit == Init => TypeInv
<1> SUFFICES ASSUME Init PROVE TypeInv
  OBVIOUS
<1>1. rows \in Table /\ now \in 0 .. MaxTime
  BY ServerAssumption DEF Init, StoreInit, Table
<1>2. req \in [Procs -> Requests] /\ \A p \in Procs : Sound(req[p], issued)
  BY IdleSound DEF Init
<1> QED
  BY <1>1, <1>2 DEF Init, TypeInv

\* A step of a request that answers or goes on keeps the types.
LEMMA TypeMove ==
    ASSUME TypeInv, NEW p \in Procs, rows' \in Table, now' = now,
           \/ Done(p)
           \/ \E r : Onward(p, r) /\ busy' \in [JobKinds -> Int] /\ deleted' = deleted
    PROVE  TypeInv'
<1>1. /\ req' \in [Procs -> Requests] /\ \A q \in Procs : Sound(req[q], issued)'
      /\ busy' \in [JobKinds -> Int] /\ issued' \subseteq Ids /\ deleted' \subseteq issued'
  <2>1. CASE Done(p)
    BY <2>1, DoneTyped DEF TypeInv
  <2>2. CASE \E r : Onward(p, r) /\ busy' \in [JobKinds -> Int] /\ deleted' = deleted
    BY <2>2, OnwardTyped
  <2> QED
    BY <2>1, <2>2
<1> QED
  BY <1>1 DEF TypeInv

LEMMA TypeStep ==
    ASSUME TypeInv, [Next]_vars
    PROVE  TypeInv'
<1>0. rows \in Table /\ busy \in [JobKinds -> Int]
  BY DEF TypeInv
<1>1. CASE UNCHANGED vars
  BY <1>1 DEF vars, TypeInv, Table, Sound
<1>2. CASE TimePasses
  <2>1. rows' = rows /\ now' \in 0 .. MaxTime
    BY <1>2, ServerAssumption DEF TimePasses, Tick, TypeInv
  <2>2. UNCHANGED <<req, busy, issued, deleted>>
    BY <1>2 DEF TimePasses
  <2> QED
    BY <2>1, <2>2 DEF TypeInv, Sound
<1>3. ASSUME NEW p \in Procs, Arrive(p) \/ CallerLeft(p) \/ Step(p)
      PROVE  TypeInv'
  <2>1. CASE Answers(p)
    BY <1>0, <2>1, AnswersDone, TypeMove
  <2>2. CASE Arrive(p)
    BY <1>0, <2>2, ArriveOnward, TypeMove
  <2>3. CASE GetSession(p)
    BY <1>0, <2>3, GetSessionOnward, TypeMove
  <2>4. CASE JobStart(p)
    <3>0. KindOf(req[p].op) \in JobKinds
      BY DEF KindOf, JobKinds
    <3>2. busy' = [busy EXCEPT ![KindOf(req[p].op)] = busy[KindOf(req[p].op)] + 1]
      BY <2>4, JobStartOnward
    <3>1. busy' \in [JobKinds -> Int]
      BY <1>0, <3>0, <3>2
    <3> QED
      BY <1>0, <2>4, <3>1, JobStartOnward, TypeMove
  <2>5. CASE Computes(p)
    BY <1>0, <2>5, ComputesOnward, TypeMove
  <2>6. CASE SaveBoard(p)
    BY <1>0, <2>6, SaveBoardOnward, SavedRows, TypeMove
  <2>7. CASE SaveResult(p)
    BY <1>0, <2>7, SaveResultOnward, SavedRows, TypeMove
  <2>8. CASE SaveSession(p)
    BY <2>8, SaveSessionDone, TypeMove
  <2>9. CASE DeleteSession(p)
    <3>1. \E id : Delete(id)
      BY <2>9, DeleteOnward
    <3>2. rows' \in Table /\ now' = now
      BY <1>0, <3>1, LessRows
    <3>3. busy' = busy /\ issued' = issued /\ deleted' \subseteq issued /\ Onward(p, Idle)
      BY <2>9, DeleteOnward
    <3>4. req' \in [Procs -> Requests] /\ \A q \in Procs : Sound(req[q], issued)'
      BY <3>3, OneRequest, IdleSound DEF Onward
    <3> QED
      BY <3>2, <3>3, <3>4 DEF TypeInv
  <2>10. CASE ListSessions(p)
    <3>1. SweepForList
      BY <2>10, ListOnward
    <3>2. rows' \in Table /\ now' = now
      BY <1>0, <3>1, LessRows
    <3> QED
      BY <1>0, <2>10, <3>2, ListOnward, TypeMove
  <2>11. CASE DropOld(p)
    <3>1. \E id : Delete(id)
      BY <2>11, DropOldOnward
    <3>2. rows' \in Table /\ now' = now
      BY <1>0, <3>1, LessRows
    <3> QED
      BY <1>0, <2>11, <3>2, DropOldOnward, TypeMove
  <2>12. CASE UploadAccepted(p)
    BY <1>0, <2>12, UploadOnward, TypeMove
  <2>13. CASE CreateSession(p)
    BY <2>13, CreateSessionDone, TypeMove
  <2> QED
    BY <1>3, <2>1, <2>2, <2>3, <2>4, <2>5, <2>6, <2>7, <2>8, <2>9, <2>10, <2>11, <2>12, <2>13, Kinds
<1> QED
  BY <1>1, <1>2, <1>3 DEF Next


\* Every step keeps the types of the store, of the requests and of the ids.
LEMMA TypesAlways == Spec => []TypeInv
BY TypeInit, TypeStep, PTL DEF Spec

----------------------------------------------------------------------------
(* The job slots.                                                           *)

Holding(k) == {p \in Procs : HoldsSlot(p) /\ KindOf(req[p].op) = k}

HoldsNow(r) == r.op \in JobOps /\ r.pc \notin {"idle", "session", "wait"}

LEMMA HoldingFinite == \A k : IsFiniteSet(Holding(k)) /\ IsFiniteSet(Holding(k)')
<1>1. ASSUME NEW k PROVE IsFiniteSet(Holding(k)) /\ IsFiniteSet(Holding(k)')
  <2>1. Holding(k) \subseteq Procs /\ Holding(k)' \subseteq Procs
    BY DEF Holding
  <2> QED
    BY <2>1, FS_Subset, ServerAssumption
<1> QED
  BY <1>1

\* A request that goes on holds a slot afterwards if it held one before.
LEMMA SlotsStay ==
    ASSUME TypeInv, JobSlots, NEW p \in Procs, NEW r,
           req' = [req EXCEPT ![p] = r], busy' = busy,
           HoldsNow(r) <=> HoldsNow(req[p]),
           HoldsNow(r) => r.op = req[p].op
    PROVE  JobSlots'
<1>1. req'[p] = r /\ \A q \in Procs \ {p} : req'[q] = req[q]
  BY DEF TypeInv
<1>2. \A q \in Procs : (HoldsSlot(q)' <=> HoldsSlot(q)) /\ (HoldsSlot(q) => req'[q].op = req[q].op)
  BY <1>1 DEF HoldsSlot, HoldsNow
<1>3. \A k : Holding(k)' = Holding(k)
  BY <1>2 DEF Holding, KindOf
<1> QED
  BY <1>3 DEF JobSlots, Holding, Slots

\* One that answers gives its slot back.
LEMMA SlotsBack ==
    ASSUME TypeInv, JobSlots, NEW p \in Procs, Done(p)
    PROVE  JobSlots'
<1> DEFINE k0 == KindOf(req[p].op)
<1>1. req'[p] = Idle /\ \A q \in Procs \ {p} : req'[q] = req[q]
  BY DEF TypeInv, Done
<1>2. ~HoldsSlot(p)' /\ \A q \in Procs \ {p} : HoldsSlot(q)' <=> HoldsSlot(q)
  BY <1>1 DEF HoldsSlot, Idle
<1>3. \A k : Holding(k)' = Holding(k) \ {p}
  BY <1>1, <1>2 DEF Holding, KindOf
<1>4. k0 \in JobKinds
  BY DEF KindOf, JobKinds
<1>5. busy' = IF HoldsSlot(p) THEN [busy EXCEPT ![k0] = busy[k0] - 1] ELSE busy
  BY DEF Done, Release
<1>6. \A k \in JobKinds : busy[k] = Cardinality(Holding(k)) /\ busy[k] <= Slots(k)
  BY DEF JobSlots, Holding
<1>7. \A k \in JobKinds : Slots(k)' = Slots(k) /\ Slots(k) \in Nat
  BY ServerAssumption DEF Slots
<1> HIDE DEF k0
<1>8. ASSUME NEW k \in JobKinds
      PROVE  busy'[k] = Cardinality(Holding(k)') /\ busy'[k] <= Slots(k)
  <2>1. busy[k] \in Int
    BY DEF TypeInv
  <2>2. CASE HoldsSlot(p) /\ k = k0
    <3>1. p \in Holding(k)
      BY <2>2 DEF Holding, k0
    <3>2. Cardinality(Holding(k) \ {p}) = Cardinality(Holding(k)) - 1
      BY <3>1, HoldingFinite, FS_RemoveElement
    <3>3. busy'[k] = busy[k] - 1
      BY <1>4, <1>5, <2>2 DEF TypeInv
    <3>4. Holding(k)' = Holding(k) \ {p}
      BY <1>3
    <3>5. busy[k] = Cardinality(Holding(k)) /\ busy[k] <= Slots(k) /\ Slots(k) \in Int
      BY <1>6, <1>7
    <3>6. busy'[k] = Cardinality(Holding(k)')
      BY <3>2, <3>3, <3>4, <3>5
    <3>7. busy'[k] <= Slots(k)
      BY <2>1, <3>3, <3>5
    <3> QED
      BY <3>6, <3>7
  <2>3. CASE ~(HoldsSlot(p) /\ k = k0)
    <3>1. p \notin Holding(k)
      BY <2>3 DEF Holding, k0
    <3>2. Holding(k)' = Holding(k)
      BY <1>3, <3>1
    <3>3. busy'[k] = busy[k]
      BY <1>4, <1>5, <2>3 DEF TypeInv
    <3> QED
      BY <1>6, <3>2, <3>3
  <2> QED
    BY <2>2, <2>3
<1> QED
  BY <1>7, <1>8 DEF JobSlots, Holding

\* One that starts takes a slot that is free.
LEMMA SlotsTaken ==
    ASSUME TypeInv, JobSlots, NEW p \in Procs, JobStart(p)
    PROVE  JobSlots'
<1> DEFINE k0 == KindOf(req[p].op)
<1>0. /\ req[p].pc = "wait" /\ req[p].op \in JobOps /\ req[p] \in Requests
      /\ req' = [req EXCEPT ![p] = [req[p] EXCEPT !.pc = "reload"]]
  BY JobStartOnward, UnderWay DEF Onward
<1>1. req'[p].op = req[p].op /\ req'[p].pc = "reload" /\ \A q \in Procs \ {p} : req'[q] = req[q]
  BY <1>0 DEF TypeInv, Requests
<1>2. HoldsSlot(p)' /\ ~HoldsSlot(p) /\ \A q \in Procs \ {p} : HoldsSlot(q)' <=> HoldsSlot(q)
  BY <1>0, <1>1 DEF HoldsSlot
<1>3. \A k : Holding(k)' = IF k = k0 THEN Holding(k) \cup {p} ELSE Holding(k)
  BY <1>1, <1>2 DEF Holding, KindOf
<1>4. k0 \in JobKinds
  BY DEF KindOf, JobKinds
<1>5. busy' = [busy EXCEPT ![k0] = busy[k0] + 1] /\ busy[k0] < Slots(k0)
  BY JobStartOnward
<1>6. \A k \in JobKinds : busy[k] = Cardinality(Holding(k)) /\ busy[k] <= Slots(k)
  BY DEF JobSlots, Holding
<1>7. \A k \in JobKinds : Slots(k)' = Slots(k) /\ Slots(k) \in Nat
  BY ServerAssumption DEF Slots
<1> HIDE DEF k0
<1>8. ASSUME NEW k \in JobKinds
      PROVE  busy'[k] = Cardinality(Holding(k)') /\ busy'[k] <= Slots(k)
  <2>1. busy \in [JobKinds -> Int]
    BY DEF TypeInv
  <2>2. CASE k = k0
    <3>1. p \notin Holding(k)
      BY <1>2 DEF Holding
    <3>2. Cardinality(Holding(k) \cup {p}) = Cardinality(Holding(k)) + 1
      BY <3>1, HoldingFinite, FS_AddElement
    <3>3. busy'[k] = busy[k] + 1 /\ busy[k] < Slots(k) /\ busy[k] \in Int
      BY <1>5, <2>1, <2>2
    <3>4. Holding(k)' = Holding(k) \cup {p}
      BY <1>3, <2>2
    <3>5. busy[k] = Cardinality(Holding(k)) /\ busy[k] < Slots(k) /\ Slots(k) \in Int
      BY <1>6, <1>7, <2>2, <3>3
    <3>6. busy'[k] = Cardinality(Holding(k)')
      BY <3>2, <3>3, <3>4, <3>5
    <3>7. busy'[k] <= Slots(k)
      BY <3>3, <3>5
    <3> QED
      BY <3>6, <3>7
  <2>3. CASE k # k0
    BY <1>3, <1>5, <1>6, <2>1, <2>3
  <2> QED
    BY <2>2, <2>3
<1> QED
  BY <1>7, <1>8 DEF JobSlots, Holding

LEMMA SlotsInit == Init => JobSlots
<1> SUFFICES ASSUME Init PROVE JobSlots
  OBVIOUS
<1>1. \A k : Holding(k) = {}
  BY DEF Init, Holding, HoldsSlot, Idle
<1>2. Cardinality({}) = 0
  BY FS_EmptySet
<1>3. \A k \in JobKinds : Slots(k) \in Nat /\ busy[k] = 0
  BY ServerAssumption DEF Init, Slots
<1> QED
  BY <1>1, <1>2, <1>3 DEF JobSlots, Holding

LEMMA SlotsStep ==
    ASSUME TypeInv, JobSlots, [Next]_vars
    PROVE  JobSlots'
<1>1. CASE UNCHANGED vars
  BY <1>1 DEF vars, JobSlots, HoldsSlot, Slots
<1>2. CASE TimePasses
  BY <1>2 DEF TimePasses, JobSlots, HoldsSlot, Slots
<1>3. ASSUME NEW p \in Procs, Arrive(p) \/ CallerLeft(p) \/ Step(p)
      PROVE  JobSlots'
  <2>0. req[p] \in Requests /\ Sound(req[p], issued)
    BY UnderWay
  <2>1. CASE Answers(p)
    BY <2>1, AnswersDone, SlotsBack
  <2>2. CASE Arrive(p)
    <3>1. req[p].pc = "idle" /\ busy' = busy
      BY <2>2 DEF Arrive, Ask, Working
    <3>2. PICK r : Onward(p, r) /\ r.pc \in {"session", "list"}
      BY <2>2, ArriveOnward
    <3>3. ~HoldsNow(r) /\ ~HoldsNow(req[p]) /\ req' = [req EXCEPT ![p] = r]
      BY <3>1, <3>2 DEF Onward, Sound, HoldsNow, JobOps
    <3> QED
      BY <3>1, <3>3, SlotsStay
  <2>3. CASE GetSession(p)
    <3>1. CASE Done(p)
      BY <3>1, SlotsBack
    <3>2. CASE ~Done(p)
      <4> DEFINE r == [req[p] EXCEPT !.sess = rows[req[p].id].s, !.pc = FirstStep[req[p].op]]
      <4>1. busy' = busy /\ req[p].pc = "session" /\ req' = [req EXCEPT ![p] = r]
        BY <2>3, <3>2, GetSessionOnward DEF Onward
      <4>2. req[p].op \in SessionOps
        BY <2>0, <4>1 DEF Sound
      <4>3. r.op = req[p].op /\ r.pc = FirstStep[req[p].op]
        BY <2>0 DEF Requests
      <4>4. ~HoldsNow(r) /\ ~HoldsNow(req[p])
        BY <4>1, <4>2, <4>3 DEF HoldsNow, JobOps, FirstStep, SessionOps
      <4> HIDE DEF r
      <4> QED
        BY <4>1, <4>4, SlotsStay
    <3> QED
      BY <3>1, <3>2
  <2>4. CASE JobStart(p)
    BY <2>4, SlotsTaken
  <2>5. CASE Computes(p)
    <3>1. busy' = busy /\ req[p].pc = "reload"
      BY <2>5, ComputesOnward
    <3>2. PICK r : Onward(p, r) /\ r.op = req[p].op /\ r.pc \in {"result", "update", "putResult", "put"}
      BY <2>5, ComputesOnward
    <3>3. HoldsNow(r) <=> HoldsNow(req[p])
      BY <3>1, <3>2 DEF HoldsNow
    <3> QED
      BY <3>1, <3>2, <3>3, SlotsStay DEF Onward
  <2>6. CASE SaveBoard(p)
    <3> DEFINE r == [req[p] EXCEPT !.pc = "putResult"]
    <3>1. busy' = busy /\ req[p].pc = "put" /\ req' = [req EXCEPT ![p] = r]
          /\ r.op = req[p].op /\ r.pc = "putResult"
      BY <2>6, SaveBoardOnward DEF Onward
    <3> HIDE DEF r
    <3>2. HoldsNow(r) <=> HoldsNow(req[p])
      BY <3>1 DEF HoldsNow
    <3> QED
      BY <3>1, <3>2, SlotsStay
  <2>7. CASE SaveResult(p)
    <3> DEFINE r == [req[p] EXCEPT !.sess = Recorded(req[p].op, req[p].sess, req[p].board), !.pc = "update"]
    <3>1. busy' = busy /\ req[p].pc = "putResult" /\ req' = [req EXCEPT ![p] = r]
          /\ r.op = req[p].op /\ r.pc = "update"
      BY <2>7, SaveResultOnward DEF Onward
    <3> HIDE DEF r
    <3>2. HoldsNow(r) <=> HoldsNow(req[p])
      BY <3>1 DEF HoldsNow
    <3> QED
      BY <3>1, <3>2, SlotsStay
  <2>8. CASE SaveSession(p)
    BY <2>8, SaveSessionDone, SlotsBack
  <2>9. CASE DeleteSession(p)
    <3>1. busy' = busy /\ req[p].op = "delete" /\ req' = [req EXCEPT ![p] = Idle]
      BY <2>9, DeleteOnward DEF Onward
    <3>2. ~HoldsNow(Idle) /\ ~HoldsNow(req[p])
      BY <3>1 DEF HoldsNow, Idle, JobOps
    <3> QED
      BY <3>1, <3>2, SlotsStay
  <2>10. CASE ListSessions(p)
    <3>1. CASE Done(p)
      BY <3>1, SlotsBack
    <3>2. CASE ~Done(p)
      <4>1. busy' = busy /\ req[p].pc = "list" /\ \E r : Onward(p, r) /\ r.op = req[p].op
        BY <2>10, <3>2, ListOnward
      <4>2. PICK r : req' = [req EXCEPT ![p] = r] /\ r.op = req[p].op
        BY <4>1 DEF Onward
      <4>3. ~HoldsNow(r) /\ ~HoldsNow(req[p])
        BY <2>0, <4>1, <4>2 DEF Sound, HoldsNow, JobOps
      <4> QED
        BY <4>1, <4>2, <4>3, SlotsStay
    <3> QED
      BY <3>1, <3>2
  <2>11. CASE DropOld(p)
    <3>1. busy' = busy /\ req[p].pc = "dropOld" /\ \E r : Onward(p, r) /\ r.op = req[p].op
      BY <2>11, DropOldOnward
    <3>2. PICK r : req' = [req EXCEPT ![p] = r] /\ r.op = req[p].op
      BY <3>1 DEF Onward
    <3>3. ~HoldsNow(r) /\ ~HoldsNow(req[p])
      BY <2>0, <3>1, <3>2 DEF Sound, HoldsNow, JobOps
    <3> QED
      BY <3>1, <3>2, <3>3, SlotsStay
  <2>12. CASE UploadAccepted(p)
    <3>1. busy' = busy /\ req[p].pc = "dropOld" /\ \E r : Onward(p, r) /\ r.op = req[p].op
      BY <2>12, UploadOnward
    <3>2. PICK r : req' = [req EXCEPT ![p] = r] /\ r.op = req[p].op
      BY <3>1 DEF Onward
    <3>3. ~HoldsNow(r) /\ ~HoldsNow(req[p])
      BY <2>0, <3>1, <3>2 DEF Sound, HoldsNow, JobOps
    <3> QED
      BY <3>1, <3>2, <3>3, SlotsStay
  <2>13. CASE CreateSession(p)
    BY <2>13, CreateSessionDone, SlotsBack
  <2> QED
    BY <1>3, <2>1, <2>2, <2>3, <2>4, <2>5, <2>6, <2>7, <2>8, <2>9, <2>10, <2>11, <2>12, <2>13, Kinds
<1> QED
  BY <1>1, <1>2, <1>3 DEF Next

\* jobs.go: however requests interleave, time out and fail, the slots taken
\* are those of the handlers past job(), and no more than there are.
THEOREM ServerJobSlots == Spec => []JobSlots
<1>1. TypeInv /\ JobSlots /\ [Next]_vars => JobSlots'
  BY SlotsStep
<1> QED
  BY <1>1, SlotsInit, TypesAlways, PTL DEF Spec

\* session.go and the handlers: the store holds rows of its type, a request
\* holds what its step needs, and no slot is counted below zero.
THEOREM ServerTypes == Spec => []TypeOK
<1>1. TypeInv /\ JobSlots => TypeOK
  <2> SUFFICES ASSUME TypeInv, JobSlots PROVE TypeOK
    OBVIOUS
  <2>1. \A k \in JobKinds : busy[k] \in Nat
    <3>1. ASSUME NEW k \in JobKinds PROVE busy[k] \in Nat
      <4>1. busy[k] = Cardinality(Holding(k))
        BY DEF JobSlots, Holding
      <4> QED
        BY <4>1, HoldingFinite, FS_CardinalityType
    <3> QED
      BY <3>1
  <2> QED
    BY <2>1 DEF TypeInv, TypeOK, StoreTypeOK, Table
<1> QED
  BY <1>1, TypesAlways, ServerJobSlots, PTL

----------------------------------------------------------------------------
(* Routed means routed.  A session can only claim a routed board when the   *)
(* copy it is written from claims one, so the claim is followed through the *)
(* copies: whoever claims a routed board, the store holds one under that    *)
(* id, or no row at all.  An id that is being created is nobody else's.     *)

HasHops(rs, id) == rs[id] # NoRow => rs[id].board.hops # {}

Claims(r) ==
    /\ r.pc \in Copied
    /\ r.sess.meta.routed # NoBoard \/ (r.pc = "putResult" /\ r.op = "route")

RowsHonest(rs) ==
    \A id \in Ids : rs[id] # NoRow /\ rs[id].s.meta.routed # NoBoard => rs[id].board.hops # {}

ClaimsHeld == \A p \in Procs : Claims(req[p]) => HasHops(rows, req[p].id)

RoutesMade == \A p \in Procs : req[p].pc = "put" => req[p].board.hops # {}

CreatorsAlone ==
    \A p \in Procs : req[p].pc = "create" =>
        /\ rows[req[p].id] = NoRow
        /\ req[p].sess.meta.routed = NoBoard
        /\ \A q \in Procs \ {p} : req[q].pc \in Copied => req[q].id # req[p].id

NewIdsFree == \A id \in Ids : id \notin issued => rows[id] = NoRow

RouteInv ==
    RowsHonest(rows) /\ ClaimsHeld /\ RoutesMade /\ CreatorsAlone /\ NewIdsFree

\* A step of one request that writes no row: rows only go.
LEMMA RouteQuiet ==
    ASSUME TypeInv, RouteInv, NEW p \in Procs, NEW r, req' = [req EXCEPT ![p] = r],
           KeptBut({}), issued' = issued,
           Claims(r) => r.id \in Ids /\ HasHops(rows, r.id),
           r.pc = "put" => r.board.hops # {},
           r.pc # "create",
           r.pc \in Copied => r.id = req[p].id /\ (req[p].pc \in Copied \/ rows[r.id] # NoRow)
    PROVE  RouteInv'
<1>1. req'[p] = r /\ \A q \in Procs \ {p} : req'[q] = req[q]
  BY DEF TypeInv
<1>2. \A id \in Ids : rows'[id] \in {rows[id], NoRow}
  BY DEF KeptBut
<1>3. \A q \in Procs : req[q].pc \in Copied => req[q].id \in Ids
  BY UnderWay DEF Copied, Opening
<1>4. RowsHonest(rows')
  BY <1>2 DEF RouteInv, RowsHonest
<1>5. \A id \in Ids : HasHops(rows, id) => HasHops(rows', id)
  BY <1>2 DEF HasHops
<1>6. \A q \in Procs : Claims(req'[q]) => HasHops(rows', req'[q].id)
  <2>1. \A q \in Procs : Claims(req[q]) => req[q].id \in Ids /\ HasHops(rows, req[q].id)
    BY <1>3 DEF RouteInv, ClaimsHeld, Claims
  <2> QED
    BY <1>1, <1>5, <2>1
<1>7. \A q \in Procs : req'[q].pc = "put" => req'[q].board.hops # {}
  BY <1>1 DEF RouteInv, RoutesMade
<1>8. ASSUME NEW c \in Procs, req'[c].pc = "create"
      PROVE  /\ rows'[req'[c].id] = NoRow /\ req'[c].sess.meta.routed = NoBoard
             /\ \A q \in Procs \ {c} : req'[q].pc \in Copied => req'[q].id # req'[c].id
  <2>1. c # p /\ req'[c] = req[c] /\ req[c].pc = "create"
    BY <1>1, <1>8
  <2>2. /\ rows[req[c].id] = NoRow /\ req[c].sess.meta.routed = NoBoard
        /\ \A q \in Procs \ {c} : req[q].pc \in Copied => req[q].id # req[c].id
    BY <2>1 DEF RouteInv, CreatorsAlone
  <2>3. req[c].id \in Ids
    BY <1>3, <2>1 DEF Copied
  <2>4. r.pc \in Copied => r.id # req[c].id
    BY <2>1, <2>2
  <2> QED
    BY <1>1, <1>2, <2>1, <2>2, <2>3, <2>4
<1>9. \A id \in Ids : id \notin issued' => rows'[id] = NoRow
  BY <1>2 DEF RouteInv, NewIdsFree
<1> QED
  BY <1>4, <1>6, <1>7, <1>8, <1>9 DEF RouteInv, RowsHonest, ClaimsHeld, RoutesMade, CreatorsAlone, NewIdsFree

\* A step of one request that writes the row of its session.
LEMMA RouteWrite ==
    ASSUME TypeInv, RouteInv, NEW p \in Procs, NEW r, req' = [req EXCEPT ![p] = r],
           req[p].pc \in Copied, KeptBut({req[p].id}), issued' = issued,
           rows'[req[p].id].s.meta.routed # NoBoard => rows'[req[p].id].board.hops # {},
           req[p].pc = "create" \/ (HasHops(rows, req[p].id) => HasHops(rows', req[p].id)),
           Claims(r) => HasHops(rows', r.id),
           r.pc \notin {"put", "create"},
           r.pc \in Copied => r.id = req[p].id
    PROVE  RouteInv'
<1>1. req'[p] = r /\ \A q \in Procs \ {p} : req'[q] = req[q]
  BY DEF TypeInv
<1>2. \A id \in Ids : id # req[p].id => rows'[id] \in {rows[id], NoRow}
  BY DEF KeptBut
<1>3. \A q \in Procs : req[q].pc \in Copied => req[q].id \in Ids /\ req[q].id \in issued
  BY UnderWay DEF Copied, Opening
<1>4. RowsHonest(rows')
  BY <1>2 DEF RouteInv, RowsHonest
<1>5. \A id \in Ids : id # req[p].id /\ HasHops(rows, id) => HasHops(rows', id)
  BY <1>2 DEF HasHops
<1>6. ASSUME NEW q \in Procs, Claims(req'[q]) PROVE HasHops(rows', req'[q].id)
  <2>1. CASE q = p
    BY <1>1, <1>6, <2>1
  <2>2. CASE q # p
    <3>1. req'[q] = req[q] /\ Claims(req[q]) /\ req[q].pc \in Copied
      BY <1>1, <1>6, <2>2 DEF Claims
    <3>2. HasHops(rows, req[q].id) /\ req[q].id \in Ids
      BY <1>3, <3>1 DEF RouteInv, ClaimsHeld
    <3>3. CASE req[q].id # req[p].id
      BY <1>5, <3>1, <3>2, <3>3
    <3>4. CASE req[q].id = req[p].id
      <4>1. req[p].pc # "create"
        BY <2>2, <3>1, <3>4 DEF RouteInv, CreatorsAlone
      <4> QED
        BY <3>1, <3>2, <3>4, <4>1
    <3> QED
      BY <3>3, <3>4
  <2> QED
    BY <2>1, <2>2
<1>7. \A q \in Procs : req'[q].pc = "put" => req'[q].board.hops # {}
  BY <1>1 DEF RouteInv, RoutesMade
<1>8. ASSUME NEW c \in Procs, req'[c].pc = "create"
      PROVE  /\ rows'[req'[c].id] = NoRow /\ req'[c].sess.meta.routed = NoBoard
             /\ \A q \in Procs \ {c} : req'[q].pc \in Copied => req'[q].id # req'[c].id
  <2>1. c # p /\ req'[c] = req[c] /\ req[c].pc = "create"
    BY <1>1, <1>8
  <2>2. /\ rows[req[c].id] = NoRow /\ req[c].sess.meta.routed = NoBoard
        /\ \A q \in Procs \ {c} : req[q].pc \in Copied => req[q].id # req[c].id
    BY <2>1 DEF RouteInv, CreatorsAlone
  <2>3. req[c].id \in Ids
    BY <1>3, <2>1 DEF Copied
  <2>4. req[p].id # req[c].id
    BY <2>1, <2>2
  <2>5. r.pc \in Copied => r.id # req[c].id
    BY <2>4
  <2> QED
    BY <1>1, <1>2, <2>1, <2>2, <2>3, <2>4, <2>5
<1>9. \A id \in Ids : id \notin issued' => rows'[id] = NoRow
  <2>1. req[p].id \in issued
    BY <1>3
  <2> QED
    BY <1>2, <2>1 DEF RouteInv, NewIdsFree
<1> QED
  BY <1>4, <1>6, <1>7, <1>8, <1>9 DEF RouteInv, RowsHonest, ClaimsHeld, RoutesMade, CreatorsAlone, NewIdsFree

\* The id of a new session is one no copy and no row has.
LEMMA RouteUpload ==
    ASSUME TypeInv, RouteInv, NEW p \in Procs, UploadAccepted(p)
    PROVE  RouteInv'
<1>0. PICK r : /\ Onward(p, r) /\ r.pc = "create" /\ r.id \in Ids \ issued
               /\ issued' = issued \cup {r.id}
               /\ r.sess \in Sessions /\ r.sess.meta.routed = NoBoard
  BY UploadOnward
<1>1. /\ req'[p] = r /\ \A q \in Procs \ {p} : req'[q] = req[q]
      /\ rows' = rows
  BY <1>0, UploadOnward DEF TypeInv, Onward
<1>2. \A q \in Procs : req[q].pc \in Copied => req[q].id # r.id
  BY <1>0, UnderWay DEF Copied, Opening
<1>3. req[p].pc = "dropOld"
  BY UploadOnward
<1>4. RowsHonest(rows')
  BY <1>1 DEF RouteInv
<1>5. \A q \in Procs : Claims(req'[q]) => HasHops(rows', req'[q].id)
  <2>1. ~Claims(r)
    BY <1>0 DEF Claims
  <2> QED
    BY <1>1, <2>1 DEF RouteInv, ClaimsHeld
<1>6. \A q \in Procs : req'[q].pc = "put" => req'[q].board.hops # {}
  BY <1>0, <1>1 DEF RouteInv, RoutesMade
<1>7. ASSUME NEW c \in Procs, req'[c].pc = "create"
      PROVE  /\ rows'[req'[c].id] = NoRow /\ req'[c].sess.meta.routed = NoBoard
             /\ \A q \in Procs \ {c} : req'[q].pc \in Copied => req'[q].id # req'[c].id
  <2>1. CASE c = p
    <3>1. rows[r.id] = NoRow
      BY <1>0 DEF RouteInv, NewIdsFree
    <3> QED
      BY <1>0, <1>1, <1>2, <2>1, <3>1
  <2>2. CASE c # p
    <3>1. req'[c] = req[c] /\ req[c].pc = "create" /\ req[c].id # r.id
      BY <1>1, <1>2, <1>7, <2>2 DEF Copied
    <3> QED
      BY <1>1, <2>2, <3>1 DEF RouteInv, CreatorsAlone
  <2> QED
    BY <2>1, <2>2
<1>8. \A id \in Ids : id \notin issued' => rows'[id] = NoRow
  BY <1>0, <1>1 DEF RouteInv, NewIdsFree
<1> QED
  BY <1>4, <1>5, <1>6, <1>7, <1>8 DEF RouteInv, RowsHonest, ClaimsHeld, RoutesMade, CreatorsAlone, NewIdsFree

LEMMA RouteInit == Init => RouteInv
BY DEF Init, StoreInit, Idle, RouteInv, RowsHonest, ClaimsHeld, Claims, Copied, RoutesMade,
       CreatorsAlone, NewIdsFree

\* An answer that writes no row.
LEMMA RouteDone ==
    ASSUME TypeInv, RouteInv, NEW p \in Procs, Done(p), KeptBut({})
    PROVE  RouteInv'
<1>1. ~Claims(Idle) /\ Idle.pc = "idle"
  BY DEF Claims, Copied, Idle
<1>2. req' = [req EXCEPT ![p] = Idle] /\ issued' = issued
  BY DEF Done
<1> QED
  BY <1>1, <1>2, RouteQuiet DEF Copied

\* The copy that is to be recorded, and what it then claims.
LEMMA RecordedClaims ==
    ASSUME NEW s \in Sessions, NEW b \in BoardContents, NEW op \in {"route", "apply"},
           Recorded(op, s, b).meta.routed # NoBoard
    PROVE  op = "route" \/ s.meta.routed # NoBoard
<1>1. s.meta \in SessionMeta
  BY MetaMade
<1>2. CASE op = "apply"
  <2>1. Recorded(op, s, b) = [s EXCEPT !.meta = [s.meta EXCEPT !.applied = b]]
    BY <1>2 DEF Recorded
  <2>2. Recorded(op, s, b).meta = [s.meta EXCEPT !.applied = b]
    BY <2>1 DEF Sessions
  <2>3. [s.meta EXCEPT !.applied = b].routed = s.meta.routed
    BY <1>1 DEF SessionMeta
  <2> QED
    BY <2>2, <2>3
<1> QED
  BY <1>2

LEMMA RouteWriters ==
    ASSUME TypeInv, RouteInv, NEW p \in Procs,
           SaveBoard(p) \/ SaveResult(p) \/ SaveSession(p) \/ CreateSession(p)
    PROVE  RouteInv'
<1>0. ~Claims(Idle) /\ Idle.pc = "idle"
  BY DEF Claims, Copied, Idle
<1> DEFINE id == req[p].id
<1>1. CASE SaveBoard(p)
  <2> DEFINE r == [req[p] EXCEPT !.pc = "putResult"]
  <2>1. /\ req' = [req EXCEPT ![p] = r] /\ issued' = issued /\ req[p].pc = "put"
        /\ r.pc = "putResult" /\ r.id = id
    BY <1>1, SaveBoardOnward DEF Onward
  <2>2. KeptBut({id}) /\ rows'[id] = [s |-> req[p].sess, board |-> req[p].board, result |-> NoBoard]
    BY <1>1, SavedRows
  <2>3. rows'[id].board.hops # {}
    BY <2>1, <2>2 DEF RouteInv, RoutesMade
  <2> HIDE DEF r, id
  <2>4. HasHops(rows', id)
    BY <2>3 DEF HasHops
  <2> QED
    BY <2>1, <2>2, <2>3, <2>4, RouteWrite DEF id, Copied
<1>2. CASE SaveResult(p)
  <2> DEFINE s == Recorded(req[p].op, req[p].sess, req[p].board)
             r == [req[p] EXCEPT !.sess = s, !.pc = "update"]
  <2>1. /\ req' = [req EXCEPT ![p] = r] /\ issued' = issued /\ req[p].pc = "putResult"
        /\ r.pc = "update" /\ r.id = id /\ r.sess = s /\ req[p].op \in {"route", "apply"}
    BY <1>2, SaveResultOnward DEF Onward
  <2>2. KeptBut({id}) /\ rows[id] \in Rows /\ rows'[id] = [rows[id] EXCEPT !.result = req[p].board]
    BY <1>2, SavedRows
  <2>3. /\ rows'[id].s = rows[id].s /\ rows'[id].board = rows[id].board
        /\ rows[id] # NoRow /\ rows'[id] # NoRow /\ id \in Ids
    <3>1. rows'[id] \in Rows
      BY <2>1, <2>2, UnderWay DEF Rows, Opening
    <3>2. id \in Ids
      BY <2>1, UnderWay DEF Opening
    <3> QED
      BY <2>2, <3>1, <3>2, ServerAssumption DEF Rows
  <2>4. req[p].sess \in Sessions /\ req[p].board \in BoardContents
    BY <2>1, UnderWay DEF Copied
  <2>5. Claims(r) => HasHops(rows', id)
    <3>1. SUFFICES ASSUME s.meta.routed # NoBoard PROVE HasHops(rows', id)
      BY <2>1 DEF Claims
    <3>2. req[p].op = "route" \/ req[p].sess.meta.routed # NoBoard
      BY <2>1, <2>4, <3>1, RecordedClaims
    <3>3. Claims(req[p])
      BY <2>1, <3>2 DEF Claims, Copied
    <3>4. HasHops(rows, id)
      BY <3>3 DEF RouteInv, ClaimsHeld
    <3> QED
      BY <2>3, <3>4 DEF HasHops
  <2>6. rows'[id].s.meta.routed # NoBoard => rows'[id].board.hops # {}
    BY <2>3 DEF RouteInv, RowsHonest
  <2>7. HasHops(rows, id) => HasHops(rows', id)
    BY <2>3 DEF HasHops
  <2> HIDE DEF r, id, s
  <2> QED
    BY <2>1, <2>2, <2>5, <2>6, <2>7, RouteWrite DEF id, Copied
<1>3. CASE SaveSession(p)
  <2>1. /\ req' = [req EXCEPT ![p] = Idle] /\ issued' = issued /\ req[p].pc = "update"
        /\ KeptBut({id}) /\ rows[id] \in Rows /\ rows'[id] = [rows[id] EXCEPT !.s = req[p].sess]
    BY <1>3, SaveSessionDone DEF Done
  <2>2. rows'[id].s = req[p].sess /\ rows'[id].board = rows[id].board /\ rows[id] # NoRow
    BY <2>1, ServerAssumption DEF Rows
  <2>3. req[p].sess.meta.routed # NoBoard => HasHops(rows, id)
    BY <2>1 DEF RouteInv, ClaimsHeld, Claims, Copied
  <2>4. rows'[id].s.meta.routed # NoBoard => rows'[id].board.hops # {}
    BY <2>2, <2>3 DEF HasHops
  <2>5. HasHops(rows, id) => HasHops(rows', id)
    BY <2>2 DEF HasHops
  <2> HIDE DEF id
  <2> QED
    BY <1>0, <2>1, <2>4, <2>5, RouteWrite DEF id, Copied
<1>4. CASE CreateSession(p)
  <2>1. /\ req' = [req EXCEPT ![p] = Idle] /\ issued' = issued /\ req[p].pc = "create"
        /\ KeptBut({id})
        /\ rows'[id] = [s |-> req[p].sess, board |-> req[p].board, result |-> NoBoard]
    BY <1>4, CreateSessionDone DEF Done
  <2>2. rows'[id].s.meta.routed = NoBoard
    BY <2>1 DEF RouteInv, CreatorsAlone
  <2> HIDE DEF id
  <2> QED
    BY <1>0, <2>1, <2>2, RouteWrite DEF id, Copied
<1> QED
  BY <1>1, <1>2, <1>3, <1>4

LEMMA RouteStep ==
    ASSUME TypeInv, RouteInv, [Next]_vars
    PROVE  RouteInv'
<1>1. CASE UNCHANGED vars
  BY <1>1 DEF vars, RouteInv, RowsHonest, ClaimsHeld, RoutesMade, CreatorsAlone, NewIdsFree
<1>2. CASE TimePasses
  BY <1>2 DEF TimePasses, Tick, RouteInv, RowsHonest, ClaimsHeld, RoutesMade, CreatorsAlone, NewIdsFree
<1>3. ASSUME NEW p \in Procs, Arrive(p) \/ CallerLeft(p) \/ Step(p)
      PROVE  RouteInv'
  <2>0. rows \in Table
    BY DEF TypeInv
  <2>k. rows' = rows => KeptBut({})
    BY DEF KeptBut
  <2>1. CASE Answers(p)
    BY <2>1, <2>k, AnswersDone, RouteDone
  <2>2. CASE Arrive(p)
    <3>1. UNCHANGED <<rows, issued>> /\ \E r : Onward(p, r) /\ r.pc \in {"session", "list"}
      BY <2>2, ArriveOnward
    <3>2. PICK r : req' = [req EXCEPT ![p] = r] /\ r.pc \in {"session", "list"}
      BY <3>1 DEF Onward
    <3>3. ~Claims(r) /\ r.pc \notin Copied
      BY <3>2 DEF Claims, Copied
    <3> QED
      BY <2>k, <3>1, <3>2, <3>3, RouteQuiet
  <2>3. CASE GetSession(p)
    <3>1. CASE Done(p)
      BY <2>3, <2>k, <3>1, GetSessionOnward, RouteDone
    <3>2. CASE ~Done(p)
      <4> DEFINE id == req[p].id
                 r == [req[p] EXCEPT !.sess = rows[id].s, !.pc = FirstStep[req[p].op]]
      <4>1. /\ UNCHANGED <<rows, issued>> /\ req[p].pc = "session" /\ rows[id] \in Rows
            /\ req' = [req EXCEPT ![p] = r]
        BY <2>3, <3>2, GetSessionOnward DEF Onward
      <4>2. req[p] \in Requests /\ req[p].op \in SessionOps /\ id \in Ids
        BY <4>1, UnderWay DEF Sound, Opening
      <4>3. r.id = id /\ r.sess = rows[id].s /\ r.pc = FirstStep[req[p].op]
        BY <4>2 DEF Requests
      <4>4. r.pc \notin {"put", "putResult", "create"}
        BY <4>2, <4>3 DEF FirstStep, SessionOps
      <4>5. rows[id] # NoRow
        BY <4>1, ServerAssumption
      <4> HIDE DEF r
      <4>6. Claims(r) => HasHops(rows, r.id)
        BY <4>2, <4>3, <4>4, <4>5 DEF Claims, RouteInv, RowsHonest, HasHops
      <4> QED
        BY <2>k, <4>1, <4>2, <4>3, <4>4, <4>5, <4>6, RouteQuiet
    <3> QED
      BY <3>1, <3>2
  <2>4. CASE JobStart(p)
    <3> DEFINE r == [req[p] EXCEPT !.pc = "reload"]
    <3>1. /\ UNCHANGED <<rows, issued>> /\ req[p].pc = "wait" /\ req' = [req EXCEPT ![p] = r]
          /\ r.id = req[p].id /\ r.sess = req[p].sess
      BY <2>4, JobStartOnward DEF Onward
    <3>2. r.pc = "reload" /\ req[p].id \in Ids
      BY <3>1, UnderWay DEF Requests, Opening
    <3> HIDE DEF r
    <3>3. Claims(r) => HasHops(rows, r.id)
      BY <3>1, <3>2 DEF Claims, Copied, RouteInv, ClaimsHeld
    <3> QED
      BY <2>k, <3>1, <3>2, <3>3, RouteQuiet DEF Copied
  <2>5. CASE Computes(p)
    <3>1. /\ UNCHANGED <<rows, issued>> /\ req[p].pc = "reload" /\ req[p].id \in Ids
          /\ \E r : /\ Onward(p, r) /\ r.op = req[p].op /\ r.id = req[p].id
                    /\ r.pc \in {"result", "update", "putResult", "put"}
                    /\ r.sess \in Sessions /\ r.sess.meta.routed = req[p].sess.meta.routed
                    /\ r.pc = "put" => r.board.hops # {}
                    /\ r.pc \in {"update", "putResult"} => r.op # "route"
      BY <2>5, ComputesOnward
    <3>2. PICK r : /\ req' = [req EXCEPT ![p] = r] /\ r.op = req[p].op /\ r.id = req[p].id
                   /\ r.pc \in {"result", "update", "putResult", "put"}
                   /\ r.sess.meta.routed = req[p].sess.meta.routed
                   /\ r.pc = "put" => r.board.hops # {}
                   /\ r.pc \in {"update", "putResult"} => r.op # "route"
      BY <3>1 DEF Onward
    <3>3. Claims(r) => HasHops(rows, r.id)
      BY <3>1, <3>2 DEF Claims, Copied, RouteInv, ClaimsHeld
    <3> QED
      BY <2>k, <3>1, <3>2, <3>3, RouteQuiet DEF Copied
  <2>6. CASE SaveBoard(p) \/ SaveResult(p) \/ SaveSession(p) \/ CreateSession(p)
    BY <2>6, RouteWriters
  <2>7. CASE DeleteSession(p)
    <3>1. issued' = issued /\ req' = [req EXCEPT ![p] = Idle] /\ \E id : Delete(id)
      BY <2>7, DeleteOnward DEF Onward
    <3>2. KeptBut({})
      BY <2>0, <3>1, LessRows
    <3>3. ~Claims(Idle) /\ Idle.pc = "idle"
      BY DEF Claims, Copied, Idle
    <3> QED
      BY <3>1, <3>2, <3>3, RouteQuiet DEF Copied
  <2>8. CASE ListSessions(p)
    <3>1. SweepForList
      BY <2>8, ListOnward
    <3>2. KeptBut({})
      BY <2>0, <3>1, LessRows
    <3>3. CASE Done(p)
      BY <3>2, <3>3, RouteDone
    <3>4. CASE ~Done(p)
      <4>1. issued' = issued /\ \E r : Onward(p, r) /\ r.pc = "dropOld"
        BY <2>8, <3>4, ListOnward
      <4>2. PICK r : req' = [req EXCEPT ![p] = r] /\ r.pc = "dropOld"
        BY <4>1 DEF Onward
      <4>3. ~Claims(r) /\ r.pc \notin Copied
        BY <4>2 DEF Claims, Copied
      <4> QED
        BY <3>2, <4>1, <4>2, <4>3, RouteQuiet
    <3> QED
      BY <3>3, <3>4
  <2>9. CASE DropOld(p)
    <3>1. \E id : Delete(id)
      BY <2>9, DropOldOnward
    <3>2. KeptBut({})
      BY <2>0, <3>1, LessRows
    <3>3. issued' = issued /\ \E r : Onward(p, r) /\ r.pc = "dropOld"
      BY <2>9, DropOldOnward
    <3>4. PICK r : req' = [req EXCEPT ![p] = r] /\ r.pc = "dropOld"
      BY <3>3 DEF Onward
    <3>5. ~Claims(r) /\ r.pc \notin Copied
      BY <3>4 DEF Claims, Copied
    <3> QED
      BY <3>2, <3>3, <3>4, <3>5, RouteQuiet
  <2>10. CASE UploadAccepted(p)
    BY <2>10, RouteUpload
  <2> QED
    BY <1>3, <2>1, <2>2, <2>3, <2>4, <2>5, <2>6, <2>7, <2>8, <2>9, <2>10, Kinds
<1> QED
  BY <1>1, <1>2, <1>3 DEF Next

\* session.go, Session.Routed ("When it is set, the board in this session is
\* the routed one"): no session claims a routed board while it holds the
\* upload, however many requests work on it at once on copies of their own.
THEOREM ServerRoutedMeansRouted == Spec => []RoutedMeansRouted
<1>1. TypeInv /\ RouteInv /\ [Next]_vars => RouteInv'
  BY RouteStep
<1>2. RouteInv => RoutedMeansRouted
  BY DEF RouteInv, RowsHonest, RoutedMeansRouted, Live
<1> QED
  BY <1>1, <1>2, RouteInit, TypesAlways, PTL DEF Spec

----------------------------------------------------------------------------
(* What a session says of its result.  Clients that ask one thing at a time *)
(* keep everybody's requests apart: a session has one owner, so at most one *)
(* handler past session() has a copy of it, and until that handler saves,   *)
(* the copy is the row.  Between the two saves the row may say the wrong    *)
(* thing, which is why a settled session is one nobody works on.            *)

Describes(a, row) == a # NoBoard => row.result = a /\ row.board.hops = a.hops

\* A request, its copy and the row of its session.
Tied(r, rs) ==
    r.pc \in Copied =>
        /\ r.sess.user = r.user
        /\ r.pc = "create" => r.sess.meta.applied = NoBoard
        /\ rs[r.id] # NoRow =>
            /\ rs[r.id].s.user = r.user
            /\ r.pc \in {"wait", "reload"} => r.sess = rs[r.id].s
            /\ r.pc = "putResult" /\ r.op = "apply" => r.board.hops = rs[r.id].board.hops
            /\ r.pc = "update" => Describes(r.sess.meta.applied, rs[r.id])

Saving(r) == r.pc \in {"putResult", "update"}

UsersApart ==
    \A p, q \in Procs : p # q /\ Working(p) /\ Working(q) => req[p].user # req[q].user

CopiesApart ==
    \A p, q \in Procs :
        p # q /\ req[p].pc \in Copied /\ req[q].pc \in Copied => req[p].id # req[q].id

Truthful ==
    \A id \in Ids :
        Visible(id) /\ (\A p \in Procs : Saving(req[p]) => req[p].id # id)
            => Describes(rows[id].s.meta.applied, rows[id])

AppliedInv == UsersApart /\ CopiesApart /\ Truthful /\ \A p \in Procs : Tied(req[p], rows)

\* A step of one request: only the row of its copy is written, and that row
\* tells the truth unless the request goes on saving.
LEMMA AppliedMove ==
    ASSUME TypeInv, AppliedInv, NEW p \in Procs, NEW r, req' = [req EXCEPT ![p] = r], now' = now,
           KeptBut({req[p].id}), req[p].pc \in Copied \/ KeptBut({}),
           r.pc # "idle" => \A q \in Procs \ {p} : Working(q) => req[q].user # r.user,
           r.pc \in Copied => \A q \in Procs \ {p} : req[q].pc \in Copied => req[q].id # r.id,
           Tied(r, rows'),
           req[p].pc \in Copied /\ rows'[req[p].id] # NoRow /\ ~(now >= rows'[req[p].id].s.expires)
             => \/ Saving(r) /\ r.id = req[p].id
                \/ Describes(rows'[req[p].id].s.meta.applied, rows'[req[p].id])
    PROVE  AppliedInv'
<1>1. req'[p] = r /\ \A q \in Procs \ {p} : req'[q] = req[q]
  BY DEF TypeInv
<1>2. \A q \in Procs : req[q].pc \in Copied => req[q].id \in Ids
  BY UnderWay DEF Copied, Opening
<1>3. UsersApart'
  BY <1>1 DEF AppliedInv, UsersApart, Working
<1>4. CopiesApart'
  BY <1>1 DEF AppliedInv, CopiesApart
<1>5. ASSUME NEW q \in Procs PROVE Tied(req'[q], rows')
  <2>1. CASE q = p
    BY <1>1, <2>1
  <2>2. CASE q # p /\ req[q].pc \in Copied
    <3>1. req[q].id \in Ids /\ Tied(req[q], rows)
      BY <1>2, <2>2 DEF AppliedInv
    <3>2. rows'[req[q].id] \in {rows[req[q].id], NoRow}
      BY <2>2, <3>1 DEF AppliedInv, CopiesApart, KeptBut
    <3> QED
      BY <1>1, <2>2, <3>1, <3>2 DEF Tied
  <2>3. CASE q # p /\ req[q].pc \notin Copied
    BY <1>1, <2>3 DEF Tied
  <2> QED
    BY <2>1, <2>2, <2>3
<1>6. ASSUME NEW id \in Ids, rows'[id] # NoRow, ~(now >= rows'[id].s.expires),
             \A q \in Procs : Saving(req'[q]) => req'[q].id # id
      PROVE  Describes(rows'[id].s.meta.applied, rows'[id])
  <2>1. CASE req[p].pc \in Copied /\ req[p].id = id
    BY <1>1, <1>6, <2>1
  <2>2. CASE ~(req[p].pc \in Copied /\ req[p].id = id)
    <3>1. rows'[id] = rows[id]
      BY <1>6, <2>2 DEF KeptBut
    <3>2. Visible(id)
      BY <1>6, <3>1 DEF Visible, Expired
    <3>3. \A q \in Procs : Saving(req[q]) => req[q].id # id
      BY <1>1, <1>6, <2>2 DEF Saving, Copied
    <3> QED
      BY <3>1, <3>2, <3>3 DEF AppliedInv, Truthful
  <2> QED
    BY <2>1, <2>2
<1>7. Truthful'
  <2> SUFFICES ASSUME NEW id \in Ids, Visible(id)', \A q \in Procs : Saving(req'[q]) => req'[q].id # id
               PROVE  Describes(rows'[id].s.meta.applied, rows'[id])
    BY Zenon DEF Truthful, Saving, Describes
  <2>1. rows'[id] # NoRow /\ ~(now >= rows'[id].s.expires)
    BY DEF Visible, Expired
  <2> QED
    BY <1>6, <2>1
<1>8. (\A q \in Procs : Tied(req[q], rows))'
  BY <1>5 DEF Tied, Describes
<1> QED
  BY <1>3, <1>4, <1>7, <1>8 DEF AppliedInv

\* A step that writes no row, by a request that keeps to its session.
LEMMA AppliedQuiet ==
    ASSUME TypeInv, AppliedInv, NEW p \in Procs, NEW r, req' = [req EXCEPT ![p] = r], now' = now,
           KeptBut({}), Working(p),
           r.pc # "idle" => r.user = req[p].user,
           r.pc \in Copied => req[p].pc \in Copied /\ r.id = req[p].id,
           Tied(r, rows'),
           Saving(req[p]) => ~Visible(req[p].id)
    PROVE  AppliedInv'
<1>1. KeptBut({req[p].id})
  BY DEF KeptBut
<1>2. r.pc # "idle" => \A q \in Procs \ {p} : Working(q) => req[q].user # r.user
  BY DEF AppliedInv, UsersApart
<1>3. r.pc \in Copied => \A q \in Procs \ {p} : req[q].pc \in Copied => req[q].id # r.id
  BY DEF AppliedInv, CopiesApart
<1>4. ASSUME req[p].pc \in Copied, rows'[req[p].id] # NoRow, ~(now >= rows'[req[p].id].s.expires)
      PROVE  Describes(rows'[req[p].id].s.meta.applied, rows'[req[p].id])
  <2>1. req[p].id \in Ids
    BY <1>4, UnderWay DEF Copied, Opening
  <2>2. rows'[req[p].id] = rows[req[p].id]
    BY <1>4, <2>1 DEF KeptBut
  <2>3. Visible(req[p].id)
    BY <1>4, <2>2 DEF Visible, Expired
  <2>4. \A q \in Procs : Saving(req[q]) => req[q].id # req[p].id
    BY <1>4, <2>3 DEF AppliedInv, CopiesApart, Saving, Copied
  <2> QED
    BY <2>1, <2>2, <2>3, <2>4 DEF AppliedInv, Truthful
<1> QED
  BY <1>1, <1>2, <1>3, <1>4, AppliedMove

LEMMA IdleTied == Idle.pc = "idle" /\ \A rs : Tied(Idle, rs)
BY DEF Idle, Tied, Copied

LEMMA AppliedDone ==
    ASSUME TypeInv, AppliedInv, NEW p \in Procs, req' = [req EXCEPT ![p] = Idle], now' = now,
           KeptBut({}), Working(p), Saving(req[p]) => ~Visible(req[p].id)
    PROVE  AppliedInv'
<1>1. Idle.pc \notin Copied
  BY IdleTied DEF Copied
<1> QED
  BY <1>1, IdleTied, AppliedQuiet

\* An answer from a handler that was about to save is that of SaveFails.
LEMMA AnswersUnsaved ==
    ASSUME NEW p, Answers(p), Saving(req[p])
    PROVE  ~Visible(req[p].id)
BY DEF Answers, JobTimeout, CallerLeft, ReloadFails, ReloadToReport, RouteMakesNothing,
       SaveFails, ServeResult, UploadRefused, At, Reload, Saving

LEMMA AppliedArrive ==
    ASSUME TypeInv, AppliedInv, OneAtATime, NEW p \in Procs, Arrive(p)
    PROVE  AppliedInv'
<1>1. /\ UNCHANGED <<rows, now>>
      /\ \E r : Onward(p, r) /\ r.pc \in {"session", "list"}
  BY ArriveOnward
<1>2. PICK r : req' = [req EXCEPT ![p] = r] /\ r.pc \in {"session", "list"}
  BY <1>1 DEF Onward
<1>3. req' = [req EXCEPT ![p] = r] /\ req'[p] = r
  BY <1>2 DEF TypeInv
<1>4. \A q \in Procs : Working(q) => req[q].user # r.user
  <2>1. PICK u \in Users :
          /\ \A q \in Procs : Working(q) => req[q].user # u
          /\ \/ \E op \in SessionOps, id \in issued, ps \in Params \cup {NoParams} :
                  req' = [req EXCEPT ![p] =
                       [Idle EXCEPT !.pc = "session", !.op = op, !.user = u, !.id = id, !.params = ps]]
             \/ \E op \in {"upload", "list"} :
                  req' = [req EXCEPT ![p] = [Idle EXCEPT !.pc = "list", !.op = op, !.user = u]]
    BY Zenon DEF Arrive, Ask
  <2>2. r.user = u
    <3>1. CASE \E op \in SessionOps, id \in issued, ps \in Params \cup {NoParams} :
                  req' = [req EXCEPT ![p] =
                       [Idle EXCEPT !.pc = "session", !.op = op, !.user = u, !.id = id, !.params = ps]]
      BY <1>3, <3>1 DEF TypeInv, Idle
    <3>2. CASE \E op \in {"upload", "list"} :
                  req' = [req EXCEPT ![p] = [Idle EXCEPT !.pc = "list", !.op = op, !.user = u]]
      BY <1>3, <3>2 DEF TypeInv, Idle
    <3> QED
      BY <2>1, <3>1, <3>2
  <2> QED
    BY <2>1, <2>2
<1>5. KeptBut({}) /\ KeptBut({req[p].id}) /\ req[p].pc \notin Copied /\ r.pc \notin Copied
  BY <1>1, <1>2 DEF KeptBut, Arrive, Ask, Working, Copied
<1>6. Tied(r, rows')
  BY <1>5 DEF Tied
<1> QED
  BY <1>1, <1>3, <1>4, <1>5, <1>6, AppliedMove

LEMMA AppliedGet ==
    ASSUME TypeInv, AppliedInv, NEW p \in Procs, GetSession(p)
    PROVE  AppliedInv'
<1>1. UNCHANGED <<rows, now>> /\ req[p].pc = "session" /\ Working(p) /\ ~Saving(req[p])
  BY GetSessionOnward DEF Working, Saving
<1>2. KeptBut({})
  BY <1>1 DEF KeptBut
<1>3. CASE Done(p)
  BY <1>1, <1>2, <1>3, AppliedDone DEF Done
<1>4. CASE ~Done(p)
  <2> DEFINE id == req[p].id
             r == [req[p] EXCEPT !.sess = rows[id].s, !.pc = FirstStep[req[p].op]]
  <2>1. rows[id] \in Rows /\ req' = [req EXCEPT ![p] = r] /\ rows[id].s.user = req[p].user
    BY <1>4, GetSessionOnward DEF Onward, GetSession
  <2>2. req[p] \in Requests /\ req[p].op \in SessionOps /\ id \in Ids /\ rows[id] # NoRow
    BY <1>1, <2>1, UnderWay, ServerAssumption DEF Sound, Opening
  <2>3. /\ r.id = id /\ r.sess = rows[id].s /\ r.pc = FirstStep[req[p].op] /\ r.user = req[p].user
    BY <2>2 DEF Requests
  <2>4. r.pc \in {"wait", "reload", "result", "delete"}
    BY <2>2, <2>3 DEF FirstStep, SessionOps
  <2> HIDE DEF r, id
  <2>5. Tied(r, rows')
    BY <1>1, <2>1, <2>3, <2>4 DEF Tied
  <2>6. \A q \in Procs \ {p} : Working(q) => req[q].user # r.user
    BY <1>1, <2>3 DEF AppliedInv, UsersApart
  <2>7. ASSUME NEW q \in Procs \ {p}, req[q].pc \in Copied PROVE req[q].id # r.id
    <3>1. Working(q) /\ req[q].user # rows[id].s.user
      BY <2>1, <2>3, <2>6, <2>7 DEF Working, Copied
    <3>2. rows[req[q].id] # NoRow => rows[req[q].id].s.user = req[q].user
      BY <2>7 DEF AppliedInv, Tied
    <3> QED
      BY <2>2, <2>3, <3>1, <3>2
  <2>8. req[p].pc \notin Copied /\ KeptBut({id})
    BY <1>1, <1>2 DEF Copied, KeptBut
  <2> QED
    BY <1>1, <1>2, <2>1, <2>5, <2>6, <2>7, <2>8, AppliedMove DEF id
<1> QED
  BY <1>3, <1>4

LEMMA AppliedJob ==
    ASSUME TypeInv, AppliedInv, NEW p \in Procs, JobStart(p)
    PROVE  AppliedInv'
<1> DEFINE r == [req[p] EXCEPT !.pc = "reload"]
<1>1. /\ UNCHANGED <<rows, now>> /\ req' = [req EXCEPT ![p] = r] /\ req[p].pc = "wait"
      /\ r.id = req[p].id /\ r.sess = req[p].sess /\ r.pc = "reload" /\ r.user = req[p].user
  BY JobStartOnward DEF Onward
<1> HIDE DEF r
<1>2. Tied(req[p], rows)
  BY DEF AppliedInv
<1>3. Tied(r, rows')
  BY <1>1, <1>2 DEF Tied, Copied
<1>4. KeptBut({}) /\ Working(p) /\ ~Saving(req[p]) /\ req[p].pc \in Copied
  BY <1>1 DEF KeptBut, Working, Saving, Copied
<1> QED
  BY <1>1, <1>3, <1>4, AppliedQuiet

LEMMA AppliedComputes ==
    ASSUME TypeInv, AppliedInv, NEW p \in Procs, Computes(p)
    PROVE  AppliedInv'
<1> DEFINE id == req[p].id
<1>1. /\ UNCHANGED <<rows, now>> /\ req[p].pc = "reload" /\ id \in Ids /\ rows[id] \in Rows
  BY ComputesOnward
<1>2. PICK r : /\ req' = [req EXCEPT ![p] = r] /\ r.id = id
               /\ r.pc \in {"result", "update", "putResult", "put"}
               /\ r.user = req[p].user /\ SameRecord(r.sess, req[p].sess)
               /\ r.pc = "putResult" => r.board.hops = rows[id].board.hops
  BY ComputesOnward DEF Onward
<1>3. Visible(id) /\ rows[id] # NoRow
  BY DEF Computes, ReloadForChanges, ReloadForPlan, ReloadForApply, ReloadForRoute, Reload, Visible
<1>4. KeptBut({}) /\ Working(p) /\ ~Saving(req[p]) /\ req[p].pc \in Copied
  BY <1>1 DEF KeptBut, Working, Saving, Copied
<1>5. req[p].sess.user = req[p].user /\ rows[id].s.user = req[p].user /\ req[p].sess = rows[id].s
  BY <1>1, <1>3, <1>4 DEF AppliedInv, Tied
<1>6. Describes(rows[id].s.meta.applied, rows[id])
  <2>1. \A q \in Procs : Saving(req[q]) => req[q].id # id
    BY <1>4 DEF AppliedInv, CopiesApart, Saving, Copied
  <2> QED
    BY <1>1, <1>3, <2>1 DEF AppliedInv, Truthful
<1>7. Tied(r, rows')
  BY <1>1, <1>2, <1>5, <1>6 DEF Tied, SameRecord
<1> HIDE DEF id
<1> QED
  BY <1>1, <1>2, <1>4, <1>7, AppliedQuiet DEF id

\* What the record of an apply, and of a router run, leave in the copy.
LEMMA RecordedApplied ==
    ASSUME NEW s \in Sessions, NEW b \in BoardContents, NEW op \in {"route", "apply"}
    PROVE  /\ Recorded(op, s, b).user = s.user
           /\ op = "apply" => Recorded(op, s, b).meta.applied = b
           /\ op = "route" => Recorded(op, s, b).meta.applied = NoBoard
<1>1. s.meta \in SessionMeta
  BY MetaMade
<1>2. CASE op = "apply"
  <2>1. Recorded(op, s, b) = [s EXCEPT !.meta = [s.meta EXCEPT !.applied = b]]
    BY <1>2 DEF Recorded
  <2>2. Recorded(op, s, b).meta = [s.meta EXCEPT !.applied = b] /\ Recorded(op, s, b).user = s.user
    BY <2>1 DEF Sessions
  <2> QED
    BY <1>1, <1>2, <2>2 DEF SessionMeta
<1>3. CASE op = "route"
  <2>1. Recorded(op, s, b) = [s EXCEPT !.meta = [s.meta EXCEPT !.applied = NoBoard, !.routed = b]]
    BY <1>3 DEF Recorded
  <2>2. /\ Recorded(op, s, b).meta = [s.meta EXCEPT !.applied = NoBoard, !.routed = b]
        /\ Recorded(op, s, b).user = s.user
    BY <2>1 DEF Sessions
  <2> QED
    BY <1>1, <1>3, <2>2 DEF SessionMeta
<1> QED
  BY <1>2, <1>3

\* The request that saves keeps to its owner and to its session.
LEMMA SaverApart ==
    ASSUME AppliedInv, NEW p \in Procs, req[p].pc \in Copied
    PROVE  /\ Working(p)
           /\ \A q \in Procs \ {p} : Working(q) => req[q].user # req[p].user
           /\ \A q \in Procs \ {p} : req[q].pc \in Copied => req[q].id # req[p].id
<1>1. Working(p)
  BY DEF Working, Copied
<1> QED
  BY <1>1 DEF AppliedInv, UsersApart, CopiesApart

LEMMA AppliedSaveBoard ==
    ASSUME TypeInv, AppliedInv, NEW p \in Procs, SaveBoard(p)
    PROVE  AppliedInv'
<1> DEFINE id == req[p].id
           r == [req[p] EXCEPT !.pc = "putResult"]
<1>1. /\ req' = [req EXCEPT ![p] = r] /\ req[p].pc = "put" /\ req[p].op = "route"
      /\ r.op = "route" /\ r.id = id /\ r.sess = req[p].sess /\ r.pc = "putResult"
      /\ r.user = req[p].user
  BY SaveBoardOnward DEF Onward
<1>2. /\ now' = now /\ KeptBut({id})
      /\ rows'[id] = [s |-> req[p].sess, board |-> req[p].board, result |-> NoBoard]
  BY SavedRows
<1> HIDE DEF r, id
<1>3. req[p].pc \in Copied
  BY <1>1 DEF Copied
<1>4. req[p].sess.user = req[p].user
  BY <1>3 DEF AppliedInv, Tied
<1>5. Tied(r, rows')
  BY <1>1, <1>2, <1>4 DEF Tied
<1> QED
  BY <1>1, <1>2, <1>3, <1>5, SaverApart, AppliedMove DEF id, Saving

LEMMA AppliedSaveResult ==
    ASSUME TypeInv, AppliedInv, NEW p \in Procs, SaveResult(p)
    PROVE  AppliedInv'
<1> DEFINE id == req[p].id
           s == Recorded(req[p].op, req[p].sess, req[p].board)
           r == [req[p] EXCEPT !.sess = s, !.pc = "update"]
<1>1. /\ req' = [req EXCEPT ![p] = r] /\ req[p].pc = "putResult" /\ req[p].op \in {"route", "apply"}
      /\ r.id = id /\ r.sess = s /\ r.pc = "update" /\ r.user = req[p].user
  BY SaveResultOnward DEF Onward
<1>2. /\ now' = now /\ KeptBut({id})
      /\ rows[id] \in Rows /\ rows'[id] = [rows[id] EXCEPT !.result = req[p].board]
  BY SavedRows
<1>3. /\ rows[id] # NoRow /\ rows'[id].s = rows[id].s /\ rows'[id].board = rows[id].board
      /\ rows'[id].result = req[p].board
  BY <1>2, ServerAssumption DEF Rows
<1>4. req[p].pc \in Copied /\ req[p].sess \in Sessions /\ req[p].board \in BoardContents
  BY <1>1, UnderWay DEF Copied
<1>5. /\ req[p].sess.user = req[p].user /\ rows[id].s.user = req[p].user
      /\ req[p].op = "apply" => req[p].board.hops = rows[id].board.hops
  BY <1>1, <1>3, <1>4 DEF AppliedInv, Tied
<1>6. /\ s.user = req[p].user
      /\ req[p].op = "apply" => s.meta.applied = req[p].board
      /\ req[p].op = "route" => s.meta.applied = NoBoard
  BY <1>1, <1>4, <1>5, RecordedApplied
<1> HIDE DEF r, id, s
<1>7. Describes(s.meta.applied, rows'[id])
  BY <1>1, <1>3, <1>5, <1>6 DEF Describes
<1>8. Tied(r, rows')
  BY <1>1, <1>3, <1>5, <1>6, <1>7 DEF Tied
<1> QED
  BY <1>1, <1>2, <1>4, <1>8, SaverApart, AppliedMove DEF id, Saving

LEMMA AppliedSaveSession ==
    ASSUME TypeInv, AppliedInv, NEW p \in Procs, SaveSession(p)
    PROVE  AppliedInv'
<1> DEFINE id == req[p].id
<1>1. /\ req' = [req EXCEPT ![p] = Idle] /\ req[p].pc = "update" /\ now' = now /\ KeptBut({id})
      /\ rows[id] \in Rows /\ rows'[id] = [rows[id] EXCEPT !.s = req[p].sess]
  BY SaveSessionDone DEF Done
<1>2. /\ rows[id] # NoRow /\ rows'[id].s = req[p].sess /\ rows'[id].board = rows[id].board
      /\ rows'[id].result = rows[id].result
  BY <1>1, ServerAssumption DEF Rows
<1> HIDE DEF id
<1>3. req[p].pc \in Copied
  BY <1>1 DEF Copied
<1>4. Describes(req[p].sess.meta.applied, rows[id])
  BY <1>1, <1>2, <1>3 DEF AppliedInv, Tied, id
<1>5. Describes(rows'[id].s.meta.applied, rows'[id])
  BY <1>2, <1>4 DEF Describes
<1> QED
  BY <1>1, <1>3, <1>5, IdleTied, AppliedMove DEF id, Copied

LEMMA AppliedCreate ==
    ASSUME TypeInv, AppliedInv, NEW p \in Procs, CreateSession(p)
    PROVE  AppliedInv'
<1> DEFINE id == req[p].id
<1>1. /\ req' = [req EXCEPT ![p] = Idle] /\ req[p].pc = "create" /\ now' = now /\ KeptBut({id})
      /\ rows'[id] = [s |-> req[p].sess, board |-> req[p].board, result |-> NoBoard]
  BY CreateSessionDone DEF Done
<1>2. req[p].pc \in Copied /\ req[p].sess.meta.applied = NoBoard
  BY <1>1 DEF AppliedInv, Tied, Copied
<1>3. Describes(rows'[id].s.meta.applied, rows'[id])
  BY <1>1, <1>2 DEF Describes
<1> HIDE DEF id
<1> QED
  BY <1>1, <1>2, <1>3, IdleTied, AppliedMove DEF id, Copied

\* The id of a new session is nobody else's, and no row has it.
LEMMA AppliedUpload ==
    ASSUME TypeInv, RouteInv, AppliedInv, NEW p \in Procs, UploadAccepted(p)
    PROVE  AppliedInv'
<1>1. UNCHANGED <<rows, now>> /\ req[p].pc = "dropOld"
  BY UploadOnward
<1>2. PICK r : /\ req' = [req EXCEPT ![p] = r] /\ r.pc = "create" /\ r.id \in Ids \ issued
               /\ r.user = req[p].user /\ r.sess.user = r.user /\ r.sess.meta.applied = NoBoard
  BY UploadOnward DEF Onward
<1>3. rows[r.id] = NoRow
  BY <1>2 DEF RouteInv, NewIdsFree
<1>4. \A q \in Procs \ {p} : req[q].pc \in Copied => req[q].id # r.id
  BY <1>2, UnderWay DEF Copied, Opening
<1>5. \A q \in Procs \ {p} : Working(q) => req[q].user # r.user
  BY <1>1, <1>2 DEF AppliedInv, UsersApart, Working
<1>6. Tied(r, rows')
  BY <1>1, <1>2, <1>3 DEF Tied
<1>7. KeptBut({}) /\ KeptBut({req[p].id}) /\ req[p].pc \notin Copied
  BY <1>1 DEF KeptBut, Copied
<1> QED
  BY <1>1, <1>2, <1>4, <1>5, <1>6, <1>7, AppliedMove

LEMMA AppliedInit == Init => AppliedInv
BY DEF Init, StoreInit, Idle, AppliedInv, UsersApart, CopiesApart, Truthful, Tied, Working,
       Copied, Visible

\* A session that a user can see was one before the clock moved.
LEMMA AppliedTick ==
    ASSUME TypeInv, AppliedInv, UNCHANGED <<rows, req>>, now' \in {now, now + 1}
    PROVE  AppliedInv'
<1>1. UsersApart' /\ CopiesApart' /\ (\A p \in Procs : Tied(req[p], rows))'
  BY DEF AppliedInv, UsersApart, CopiesApart, Working, Tied, Describes
<1>2. ASSUME NEW id \in Ids, Visible(id)' PROVE Visible(id)
  <2>1. rows[id] # NoRow /\ ~(now' >= rows[id].s.expires)
    BY <1>2 DEF Visible, Expired
  <2>2. rows[id].s.expires \in Times
    BY <2>1 DEF TypeInv, Table, Rows, Sessions
  <2>3. rows[id].s.expires \in Int /\ now \in Int
    BY <2>2, ServerAssumption DEF Times, TypeInv
  <2>4. ~(now >= rows[id].s.expires)
    BY <2>1, <2>3
  <2> QED
    BY <2>1, <2>4 DEF Visible, Expired
<1>3. Truthful'
  <2> SUFFICES ASSUME NEW id \in Ids, Visible(id)', \A q \in Procs : Saving(req'[q]) => req'[q].id # id
               PROVE  Describes(rows'[id].s.meta.applied, rows'[id])
    BY Zenon DEF Truthful, Saving, Describes
  <2>1. Visible(id) /\ \A q \in Procs : Saving(req[q]) => req[q].id # id
    BY <1>2
  <2> QED
    BY <2>1 DEF AppliedInv, Truthful
<1> QED
  BY <1>1, <1>3 DEF AppliedInv

LEMMA AppliedStep ==
    ASSUME TypeInv, RouteInv, AppliedInv, OneAtATime, [Next]_vars
    PROVE  AppliedInv'
<1>1. CASE UNCHANGED vars
  BY <1>1, AppliedTick DEF vars
<1>2. CASE TimePasses
  BY <1>2, AppliedTick DEF TimePasses, Tick
<1>3. ASSUME NEW p \in Procs, Arrive(p) \/ CallerLeft(p) \/ Step(p)
      PROVE  AppliedInv'
  <2>0. rows \in Table
    BY DEF TypeInv
  <2>1. CASE Answers(p)
    <3>1. req' = [req EXCEPT ![p] = Idle] /\ UNCHANGED <<rows, now>> /\ Working(p)
      BY <2>1, AnswersDone DEF Done, Working
    <3>2. KeptBut({})
      BY <3>1 DEF KeptBut
    <3> QED
      BY <2>1, <3>1, <3>2, AnswersUnsaved, AppliedDone
  <2>2. CASE Arrive(p)
    BY <2>2, AppliedArrive
  <2>3. CASE GetSession(p)
    BY <2>3, AppliedGet
  <2>4. CASE JobStart(p)
    BY <2>4, AppliedJob
  <2>5. CASE Computes(p)
    BY <2>5, AppliedComputes
  <2>6. CASE SaveBoard(p) \/ SaveResult(p) \/ SaveSession(p)
    BY <2>6, AppliedSaveBoard, AppliedSaveResult, AppliedSaveSession
  <2>7. CASE DeleteSession(p)
    <3>1. /\ req' = [req EXCEPT ![p] = Idle] /\ req[p].pc = "delete" /\ \E id : Delete(id)
      BY <2>7, DeleteOnward DEF Onward
    <3>2. KeptBut({}) /\ now' = now
      BY <2>0, <3>1, LessRows
    <3> QED
      BY <3>1, <3>2, AppliedDone DEF Saving, Working
  <2>8. CASE ListSessions(p)
    <3>1. SweepForList /\ req[p].pc = "list"
      BY <2>8, ListOnward
    <3>2. KeptBut({}) /\ now' = now
      BY <2>0, <3>1, LessRows
    <3>3. CASE Done(p)
      BY <3>1, <3>2, <3>3, AppliedDone DEF Saving, Working, Done
    <3>4. CASE ~Done(p)
      <4>1. PICK r : req' = [req EXCEPT ![p] = r] /\ r.pc = "dropOld" /\ r.user = req[p].user
        BY <2>8, <3>4, ListOnward DEF Onward
      <4>2. Tied(r, rows') /\ r.pc \notin Copied
        BY <4>1 DEF Tied, Copied
      <4> QED
        BY <3>1, <3>2, <4>1, <4>2, AppliedQuiet DEF Saving, Working
    <3> QED
      BY <3>3, <3>4
  <2>9. CASE DropOld(p)
    <3>1. req[p].pc = "dropOld" /\ \E id : Delete(id)
      BY <2>9, DropOldOnward
    <3>2. KeptBut({}) /\ now' = now
      BY <2>0, <3>1, LessRows
    <3>3. PICK r : req' = [req EXCEPT ![p] = r] /\ r.pc = "dropOld" /\ r.user = req[p].user
      BY <2>9, DropOldOnward DEF Onward
    <3>4. Tied(r, rows') /\ r.pc \notin Copied
      BY <3>3 DEF Tied, Copied
    <3> QED
      BY <3>1, <3>2, <3>3, <3>4, AppliedQuiet DEF Saving, Working
  <2>10. CASE UploadAccepted(p)
    BY <2>10, AppliedUpload
  <2>11. CASE CreateSession(p)
    BY <2>11, AppliedCreate
  <2> QED
    BY <1>3, <2>1, <2>2, <2>3, <2>4, <2>5, <2>6, <2>7, <2>8, <2>9, <2>10, <2>11, Kinds
<1> QED
  BY <1>1, <1>2, <1>3 DEF Next

\* session.go, Session.Applied, and api.go ("the board that gets tuned is the
\* board that was analysed"): for clients that ask one thing at a time, a
\* session that can be seen and nobody works on describes the result that is
\* downloaded from it, made of the board it holds, whatever expires, is
\* evicted or fails to be saved half-way.
THEOREM ServerAppliedDescribesResult ==
    ASSUME OneAtATime
    PROVE  Spec => []AppliedDescribesResult
<1>1. TypeInv /\ RouteInv /\ AppliedInv /\ [Next]_vars => AppliedInv'
  BY AppliedStep
<1>2. TypeInv /\ AppliedInv => AppliedDescribesResult
  <2> SUFFICES ASSUME TypeInv, AppliedInv, NEW id \in Settled, rows[id].s.meta.applied # NoBoard
               PROVE  /\ rows[id].result = rows[id].s.meta.applied
                      /\ rows[id].result.hops = rows[id].board.hops
    BY DEF AppliedDescribesResult
  <2>1. id \in Ids /\ Visible(id)
    BY DEF Settled
  <2>2. \A p \in Procs : Saving(req[p]) => req[p].id # id
    BY DEF Settled, Quiet, Saving, Working
  <2> QED
    BY <2>1, <2>2 DEF AppliedInv, Truthful, Describes
<1>3. TypeInv /\ RouteInv /\ [Next]_vars => RouteInv'
  BY RouteStep
<1> QED
  BY <1>1, <1>2, <1>3, AppliedInit, RouteInit, TypesAlways, PTL DEF Spec
================================================================================
