----------------------------- MODULE Plugin_proofs -----------------------------
(***************************************************************************)
(* Plugin, proved for any set of decisions and any number of operations:   *)
(* types, that the rules on disk are what the user was or is being told,   *)
(* and that reading the board again keeps his decisions.  After it,        *)
(* SingleInstance, the other half of what runs beside KiCad.               *)
(*                                                                         *)
(* The invariant has two halves.  Sound holds whatever the user does: the  *)
(* types, the steps a job may stand at and the sessions it holds, and that *)
(* a thread writes exactly while its job or request is being saved.  Clean *)
(* holds until a request of the page has crossed another operation: who is *)
(* alone while the page asks, what the tmp file and the rules file hold at *)
(* each step of a save, and which session holds the agreed decisions.      *)
(***************************************************************************)
EXTENDS Plugin, SingleInstance, TLAPS, FiniteSetTheorems

Waiting == {"read", "ask"}
StepsOf(op) == IF op = "rescan" THEN {"read", "previous", "upload", "swap", "delete"} ELSE {"ask", "plan", "save"}

StepsInv ==
    \A i \in 1 .. Len(queue) :
          /\ queue[i].step \in StepsOf(queue[i].op)
          /\ i # 1 => queue[i].step \in Waiting
          /\ queue[i].op = "tolerance" => session # NoSession

HoldsInv ==
    /\ Doing("rescan", "swap") => Job.sid \in DOMAIN engine \ {session}
    /\ Doing("rescan", "delete") => session # NoSession /\ Job.sid # session
    /\ (Doing("tolerance", "plan") \/ Doing("tolerance", "save")) => Job.params \in Params

EngineInv == session # NoSession => session \in DOMAIN engine

WriterInv ==
    /\ writer["kicad"] # Idle <=> Doing("tolerance", "save")
    /\ writer["reader"] # Idle <=> plan.step = "saving"

Sound == TypeOK /\ StepsInv /\ HoldsInv /\ EngineInv /\ WriterInv

--------------------------------------------------------------------------------
(* Sequences of jobs and of results.                                             *)

LEMMA Worked ==
    ASSUME NEW S, NEW q \in Seq(S), q # <<>>, NEW j \in S
    PROVE  LET r == <<j>> \o Tail(q)
           IN  /\ r \in Seq(S) /\ r # <<>> /\ Head(r) = j
               /\ Len(r) = Len(q) /\ r[1] = j
               /\ \A i \in 1 .. Len(q) : i # 1 => r[i] = q[i]
  OBVIOUS

LEMMA Appended ==
    ASSUME NEW S, NEW q \in Seq(S), NEW j \in S
    PROVE  LET r == Append(q, j)
           IN  /\ r \in Seq(S) /\ r # <<>>
               /\ Head(r) = IF q = <<>> THEN j ELSE Head(q)
               /\ Len(r) = Len(q) + 1 /\ r[Len(q) + 1] = j
               /\ \A i \in 1 .. Len(q) : r[i] = q[i]
  OBVIOUS

LEMMA Dropped ==
    ASSUME NEW S, NEW q \in Seq(S), q # <<>>
    PROVE  /\ Tail(q) \in Seq(S) /\ Len(Tail(q)) = Len(q) - 1
           /\ Tail(q) # <<>> => Head(Tail(q)) = q[2] /\ 2 \in 1 .. Len(q)
           /\ \A i \in 1 .. Len(Tail(q)) : Tail(q)[i] = q[i + 1] /\ i + 1 \in 2 .. Len(q)
  OBVIOUS

LEMMA Heads ==
    ASSUME NEW S, NEW q \in Seq(S)
    PROVE  /\ q # <<>> => Head(q) \in S /\ Head(q) = q[1] /\ 1 \in 1 .. Len(q)
           /\ \A i \in 1 .. Len(q) : q[i] \in S
           /\ Len(q) \in Nat /\ (q = <<>> <=> Len(q) = 0)
  OBVIOUS

--------------------------------------------------------------------------------
(* Kinds of values.                                                              *)

LEMMA Marks ==
    /\ Unread \notin Params /\ Gone \notin Params /\ NoBoard \notin Params /\ Torn \notin Params
    /\ Unread # Gone /\ Unread # NoBoard /\ Unread # Torn
    /\ {} \in Params
    /\ \A p \in Params : Rules(p) = p
    /\ Rules(Unread) = {}
<1>1. Unread \notin Params /\ Gone \notin Params /\ NoBoard \notin Params /\ Torn \notin Params
  BY PluginAssumption DEF Params, Unread, Gone, NoBoard, Torn
<1> QED
  BY <1>1 DEF Rules, Unread, Gone, NoBoard, Torn, Params

Writing == [step : {"open", "write", "replace"}, at : {"tmp", "rules", "gone"}, params : Params]
Written == [step |-> "saved"]

LEMMA WriterKinds ==
    ASSUME TypeOK, NEW t \in Threads
    PROVE  /\ writer[t] = Idle \/ writer[t] = Written \/ writer[t] \in Writing
           /\ writer[t] = Idle <=> writer[t].step = "idle"
           /\ writer[t] = Written <=> writer[t].step = "saved"
           /\ writer[t] \in Writing <=> writer[t].step \in {"open", "write", "replace"}
<1>1. writer[t] \in {Idle, Written} \cup Writing
  BY DEF TypeOK, Writing, Written
<1>2. Idle.step = "idle" /\ Written.step = "saved" /\ \A w \in Writing : w.step \in {"open", "write", "replace"}
  BY DEF Idle, Written, Writing
<1> QED
  BY <1>1, <1>2

Plans == [step : {"sent", "saving"}, sid : Nat, live : BOOLEAN, params : Params]

LEMMA PlanKinds ==
    ASSUME TypeOK
    PROVE  /\ plan = Idle \/ plan \in Plans
           /\ plan = Idle <=> plan.step = "idle"
           /\ plan \in Plans <=> plan.step \in {"sent", "saving"}
<1>1. plan \in {Idle} \cup Plans
  BY DEF TypeOK, Plans
<1>2. Idle.step = "idle" /\ \A p \in Plans : p.step \in {"sent", "saving"}
  BY DEF Idle, Plans
<1> QED
  BY <1>1, <1>2

LEMMA NewRescan ==
    ASSUME NEW k \in 0 .. MaxOps
    PROVE  Rescan(k) \in Jobs /\ Rescan(k).op = "rescan" /\ Rescan(k).step = "read" /\ Rescan(k).token = k
  BY PluginAssumption DEF Rescan, Jobs, Steps, NoSession

LEMMA NewTolerance ==
    ASSUME NEW on \in BOOLEAN
    PROVE  /\ Tolerance(on) \in Jobs /\ Tolerance(on).op = "tolerance" /\ Tolerance(on).step = "ask"
           /\ Tolerance(on).token = 0
  BY PluginAssumption DEF Tolerance, Jobs, Steps, NoSession

LEMMA Zero == 0 \in 0 .. MaxOps /\ MaxOps \in 0 .. MaxOps
  BY PluginAssumption

LEMMA OneLess ==
    ASSUME ops \in 0 .. MaxOps, ops > 0
    PROVE  ops - 1 \in 0 .. MaxOps
  BY PluginAssumption

LEMMA Started ==
    ASSUME TypeOK, NEW b \in BOOLEAN, Starts(b)
    PROVE  ops' \in 0 .. MaxOps /\ crossed' \in BOOLEAN
<1>1. ops' \in 0 .. MaxOps
  BY OneLess DEF TypeOK, Starts
<1>2. crossed' \in BOOLEAN
  BY Zenon DEF Starts
<1> QED
  BY <1>1, <1>2

--------------------------------------------------------------------------------
(* What the queue's three moves keep.                                            *)

LEMMA WorksOn ==
    ASSUME TypeOK, StepsInv, queue # <<>>, NEW j \in Jobs, Works(j), j.op = Job.op, j.step \in StepsOf(j.op),
           session' # NoSession \/ session' = session
    PROVE  /\ queue' \in Seq(Jobs) /\ queue' # <<>> /\ Job' = j /\ StepsInv'
           /\ Len(queue') = Len(queue) /\ \A i \in 1 .. Len(queue) : i # 1 => queue'[i] = queue[i]
           /\ \A op, step : Doing(op, step)' <=> j.op = op /\ j.step = step
<1>1. queue \in Seq(Jobs) /\ queue' = <<j>> \o Tail(queue)
  BY DEF TypeOK, Works
<1>2. /\ queue' \in Seq(Jobs) /\ queue' # <<>> /\ Head(queue') = j
      /\ Len(queue') = Len(queue) /\ queue'[1] = j
      /\ \A i \in 1 .. Len(queue) : i # 1 => queue'[i] = queue[i]
  BY <1>1, Worked
<1>3. Job = queue[1] /\ 1 \in 1 .. Len(queue)
  BY <1>1, Heads DEF Job
<1>4. StepsInv'
  <2> SUFFICES ASSUME NEW i \in 1 .. Len(queue)
               PROVE  /\ queue'[i].step \in StepsOf(queue'[i].op)
                      /\ i # 1 => queue'[i].step \in Waiting
                      /\ queue'[i].op = "tolerance" => session' # NoSession
    BY <1>2 DEF StepsInv
  <2>1. CASE i = 1
    BY <2>1, <1>2, <1>3 DEF StepsInv
  <2>2. CASE i # 1
    BY <2>2, <1>2 DEF StepsInv
  <2> QED
    BY <2>1, <2>2
<1>5. Job' = j
  BY <1>2 DEF Job
<1> QED
  BY <1>2, <1>4, <1>5 DEF Doing

LEMMA Appends ==
    ASSUME TypeOK, StepsInv, NEW j \in Jobs, queue' = Append(queue, j), j.step \in StepsOf(j.op) \cap Waiting,
           session' = session, j.op = "tolerance" => session # NoSession
    PROVE  /\ queue' \in Seq(Jobs) /\ queue' # <<>> /\ StepsInv'
           /\ Len(queue') = Len(queue) + 1 /\ queue'[Len(queue) + 1] = j
           /\ \A i \in 1 .. Len(queue) : queue'[i] = queue[i]
           /\ queue # <<>> => Job' = Job
           /\ \A op, step : step \notin Waiting => (Doing(op, step)' <=> Doing(op, step))
<1>1. queue \in Seq(Jobs)
  BY DEF TypeOK
<1>2. /\ queue' \in Seq(Jobs) /\ queue' # <<>> /\ Head(queue') = IF queue = <<>> THEN j ELSE Head(queue)
      /\ Len(queue') = Len(queue) + 1 /\ queue'[Len(queue) + 1] = j
      /\ \A i \in 1 .. Len(queue) : queue'[i] = queue[i]
  BY <1>1, Appended
<1>3. StepsInv'
  <2> SUFFICES ASSUME NEW i \in 1 .. Len(queue')
               PROVE  /\ queue'[i].step \in StepsOf(queue'[i].op)
                      /\ i # 1 => queue'[i].step \in Waiting
                      /\ queue'[i].op = "tolerance" => session' # NoSession
    BY DEF StepsInv
  <2>1. CASE i \in 1 .. Len(queue)
    BY <2>1, <1>2 DEF StepsInv
  <2>2. CASE i \notin 1 .. Len(queue)
    <3>1. i = Len(queue) + 1
      BY <2>2, <1>2, <1>1, Heads
    <3> QED
      BY <3>1, <1>2
  <2> QED
    BY <2>1, <2>2
<1>4. Job' = IF queue = <<>> THEN j ELSE Job
  BY <1>2 DEF Job
<1> QED
  BY <1>2, <1>3, <1>4 DEF Doing

LEMMA Drops ==
    ASSUME TypeOK, StepsInv, queue # <<>>, queue' = Tail(queue), session' = session
    PROVE  /\ queue' \in Seq(Jobs) /\ StepsInv'
           /\ Len(queue') = Len(queue) - 1
           /\ \A i \in 1 .. Len(queue') : queue'[i] = queue[i + 1] /\ i + 1 \in 2 .. Len(queue)
           /\ queue' # <<>> => Job'.step \in Waiting
           /\ \A op, step : step \notin Waiting => ~Doing(op, step)'
<1>1. queue \in Seq(Jobs)
  BY DEF TypeOK
<1>2. /\ queue' \in Seq(Jobs) /\ Len(queue') = Len(queue) - 1
      /\ queue' # <<>> => Head(queue') = queue[2] /\ 2 \in 1 .. Len(queue)
      /\ \A i \in 1 .. Len(queue') : queue'[i] = queue[i + 1] /\ i + 1 \in 2 .. Len(queue)
  BY <1>1, Dropped
<1>3. StepsInv'
  <2> SUFFICES ASSUME NEW i \in 1 .. Len(queue')
               PROVE  /\ queue'[i].step \in StepsOf(queue'[i].op)
                      /\ i # 1 => queue'[i].step \in Waiting
                      /\ queue'[i].op = "tolerance" => session' # NoSession
    BY DEF StepsInv
  <2>1. queue'[i] = queue[i + 1] /\ i + 1 \in 1 .. Len(queue) /\ i + 1 # 1
    BY <1>2, <1>1, Heads
  <2> QED
    BY <2>1 DEF StepsInv
<1>4. queue' # <<>> => Job'.step \in Waiting
  <2>1. queue' # <<>> => Job' = queue[2] /\ 2 \in 1 .. Len(queue)
    BY <1>2 DEF Job
  <2> QED
    BY <2>1 DEF StepsInv
<1> QED
  BY <1>2, <1>3, <1>4 DEF Doing

LEMMA TheJob ==
    ASSUME TypeOK, StepsInv, queue # <<>>
    PROVE  /\ Job \in Jobs /\ Job = queue[1] /\ 1 \in 1 .. Len(queue) /\ Len(queue) \in Nat
           /\ Job.step \in StepsOf(Job.op) /\ Job.op \in {"rescan", "tolerance"}
           /\ Job.op = "tolerance" => session # NoSession
<1>1. Job \in Jobs /\ Job = queue[1] /\ 1 \in 1 .. Len(queue) /\ Len(queue) \in Nat
  BY Heads DEF TypeOK, Job
<1> QED
  BY <1>1 DEF StepsInv, Jobs

--------------------------------------------------------------------------------
(* Sound, whatever the user does.                                                *)

LEMMA SoundInit == Init => Sound
<1> SUFFICES ASSUME Init PROVE Sound
  OBVIOUS
<1> USE DEF Init
<1>1. Rescan(0) \in Jobs /\ Rescan(0).op = "rescan" /\ Rescan(0).step = "read"
  BY Zero, NewRescan
<1>2. queue \in Seq(Jobs) /\ Len(queue) = 1 /\ queue[1] = Rescan(0) /\ Job = Rescan(0)
  BY <1>1 DEF Job
<1>3. TypeOK
  <2>1. page \in [at : Nat, shows : Params \cup {Unread, Gone, NoBoard}, waits : 0 .. MaxOps]
    BY PluginAssumption DEF NoPage, NoSession
  <2>2. next \in Nat \ {0} /\ session \in Nat /\ qt \in Seq([kind : {"open", "answer", "reload", "failed", "refused"}, sid : Nat, token : 0 .. MaxOps])
    BY DEF NoSession
  <2>3. DOMAIN engine = {}
    OBVIOUS
  <2>4. writer \in [Threads -> {Idle, [step |-> "saved"]}
                      \cup [step : {"open", "write", "replace"}, at : {"tmp", "rules", "gone"}, params : Params]]
    BY DEF disk
  <2>5. {file, tmp} \subseteq Params \cup {Unread, Torn} /\ agreed \in Params
    BY DEF Params
  <2>6. ops \in 0 .. MaxOps
    BY Zero
  <2> QED
    BY <1>2, <2>1, <2>2, <2>3, <2>4, <2>5, <2>6 DEF TypeOK
<1>4. StepsInv
  BY <1>1, <1>2 DEF StepsInv, StepsOf, Waiting
<1>5. HoldsInv
  BY <1>1, <1>2 DEF HoldsInv, Doing
<1>6. EngineInv /\ WriterInv
  BY <1>1, <1>2 DEF EngineInv, WriterInv, Doing, Threads, Idle
<1> QED
  BY <1>3, <1>4, <1>5, <1>6 DEF Sound

\* A step that leaves the jobs and their sessions alone.
LEMMA JobsRest ==
    ASSUME Sound, UNCHANGED queue, UNCHANGED session, DOMAIN engine \subseteq DOMAIN engine'
    PROVE  /\ StepsInv' /\ HoldsInv' /\ EngineInv'
           /\ \A op, step : Doing(op, step)' <=> Doing(op, step)
<1>1. Job' = Job /\ \A op, step : Doing(op, step)' <=> Doing(op, step)
  BY DEF Job, Doing
<1>2. StepsInv'
  BY DEF Sound, StepsInv
<1>3. HoldsInv'
  BY <1>1 DEF Sound, HoldsInv
<1> QED
  BY <1>1, <1>2, <1>3 DEF Sound, EngineInv

LEMMA SoundEdit == ASSUME Sound, EditBoard PROVE Sound'
<1>1. TypeOK'
  BY OneLess DEF Sound, TypeOK, EditBoard, disk, told
<1>2. StepsInv' /\ HoldsInv' /\ EngineInv' /\ \A op, step : Doing(op, step)' <=> Doing(op, step)
  BY JobsRest DEF EditBoard
<1> QED
  BY <1>1, <1>2 DEF Sound, WriterInv, EditBoard, disk

LEMMA SoundAppend ==
    ASSUME Sound, NEW j \in Jobs, queue' = Append(queue, j), j.step \in StepsOf(j.op) \cap Waiting,
           j.op = "tolerance" => session # NoSession,
           UNCHANGED <<engine, session, plan, writer>>
    PROVE  queue' \in Seq(Jobs) /\ StepsInv' /\ HoldsInv' /\ EngineInv' /\ WriterInv'
<1>1. /\ queue' \in Seq(Jobs) /\ StepsInv'
      /\ queue # <<>> => Job' = Job
      /\ \A op, step : step \notin Waiting => (Doing(op, step)' <=> Doing(op, step))
  BY Appends DEF Sound
<1>2. \A step \in {"swap", "delete", "plan", "save"} : \A op : Doing(op, step)' <=> Doing(op, step)
  BY <1>1 DEF Waiting
<1>3. HoldsInv'
  BY <1>1, <1>2 DEF Sound, HoldsInv, Doing
<1> QED
  BY <1>1, <1>2, <1>3 DEF Sound, EngineInv, WriterInv

LEMMA SoundToolbarRescan == ASSUME Sound, ToolbarRescan PROVE Sound'
<1>1. Rescan(0) \in Jobs /\ Rescan(0).op = "rescan" /\ Rescan(0).step = "read"
  BY Zero, NewRescan
<1>2. queue' \in Seq(Jobs) /\ StepsInv' /\ HoldsInv' /\ EngineInv' /\ WriterInv'
  BY <1>1, SoundAppend DEF ToolbarRescan, StepsOf, Waiting, disk
<1>3. TypeOK'
  BY <1>2, Started DEF Sound, TypeOK, ToolbarRescan, disk, told
<1> QED
  BY <1>2, <1>3 DEF Sound

LEMMA SoundToolbarTolerance == ASSUME Sound, ToolbarTolerance PROVE Sound'
<1>1. PICK on \in BOOLEAN : queue' = Append(queue, Tolerance(on))
  BY DEF ToolbarTolerance
<1>2. Tolerance(on) \in Jobs /\ Tolerance(on).op = "tolerance" /\ Tolerance(on).step = "ask"
  BY NewTolerance
<1>3. queue' \in Seq(Jobs) /\ StepsInv' /\ HoldsInv' /\ EngineInv' /\ WriterInv'
  BY <1>1, <1>2, SoundAppend DEF ToolbarTolerance, StepsOf, Waiting, disk
<1>4. TypeOK'
  BY <1>3, Started DEF Sound, TypeOK, ToolbarTolerance, disk, told
<1> QED
  BY <1>3, <1>4 DEF Sound

LEMMA SoundPageRescan == ASSUME Sound, PageRescan PROVE Sound'
<1>1. ops \in 0 .. MaxOps /\ queue' = Append(queue, Rescan(ops))
  BY DEF PageRescan, Sound, TypeOK
<1>2. Rescan(ops) \in Jobs /\ Rescan(ops).op = "rescan" /\ Rescan(ops).step = "read"
  BY <1>1, NewRescan
<1>3. queue' \in Seq(Jobs) /\ StepsInv' /\ HoldsInv' /\ EngineInv' /\ WriterInv'
  BY <1>1, <1>2, SoundAppend DEF PageRescan, StepsOf, Waiting, disk
<1>4. page' \in [at : Nat, shows : Params \cup {Unread, Gone, NoBoard}, waits : 0 .. MaxOps]
  BY <1>1 DEF Sound, TypeOK, PageRescan
<1>5. TypeOK'
  BY <1>3, <1>4, Started DEF Sound, TypeOK, PageRescan, disk, told
<1> QED
  BY <1>3, <1>5 DEF Sound

LEMMA SoundPagePlan == ASSUME Sound, PagePlan PROVE Sound'
<1>1. PICK d \in Decisions :
        plan' = [step |-> "sent", sid |-> page.at, live |-> TRUE,
                 params |-> IF d \in page.shows THEN page.shows \ {d} ELSE page.shows \cup {d}]
  BY DEF PagePlan
<1>2. plan' \in Plans /\ plan'.step = "sent" /\ plan.step = "idle"
  <2>1. page.at \in Nat /\ page.shows \in Params
    BY DEF Sound, TypeOK, PagePlan
  <2>2. (IF d \in page.shows THEN page.shows \ {d} ELSE page.shows \cup {d}) \in Params
    BY <2>1 DEF Params
  <2> QED
    BY <1>1, <2>1, <2>2 DEF Plans, PagePlan, Idle
<1>3. StepsInv' /\ HoldsInv' /\ EngineInv' /\ \A op, step : Doing(op, step)' <=> Doing(op, step)
  BY JobsRest DEF PagePlan
<1>4. WriterInv'
  BY <1>2, <1>3 DEF Sound, WriterInv, PagePlan, disk
<1>5. TypeOK'
  BY <1>2, Started DEF Sound, TypeOK, PagePlan, Plans, disk, told
<1> QED
  BY <1>3, <1>4, <1>5 DEF Sound

\* A thread's write of the rules, step by step.
LEMMA TmpOpened ==
    ASSUME TypeOK, NEW t \in Threads, OpenTmp(t)
    PROVE  /\ writer[t] \in Writing /\ writer'[t].step = "write" /\ writer'[t].at = "tmp"
           /\ writer'[t].params = writer[t].params /\ writer'[t] \in Writing
           /\ \A u \in Threads : u # t => writer'[u] = writer[u]
           /\ DOMAIN writer' = Threads
<1>1. writer[t] \in Writing /\ DOMAIN writer = Threads
  BY WriterKinds DEF OpenTmp, TypeOK
<1>2. writer' = [writer EXCEPT ![t] = [[writer[t] EXCEPT !.step = "write"] EXCEPT !.at = "tmp"]]
  BY DEF OpenTmp
<1>3. /\ writer'[t] = [[writer[t] EXCEPT !.step = "write"] EXCEPT !.at = "tmp"]
      /\ \A u \in Threads : u # t => writer'[u] = writer[u]
      /\ DOMAIN writer' = Threads
  BY <1>1, <1>2
<1> QED
  BY <1>1, <1>3 DEF Writing

LEMMA TmpWritten ==
    ASSUME TypeOK, NEW t \in Threads, WriteTmp(t)
    PROVE  /\ writer[t] \in Writing /\ writer'[t].step = "replace" /\ writer'[t].at = writer[t].at
           /\ writer'[t].params = writer[t].params /\ writer'[t] \in Writing
           /\ \A u \in Threads : u # t => writer'[u] = writer[u]
           /\ DOMAIN writer' = Threads
           /\ {file', tmp'} \subseteq Params \cup {Unread, Torn}
<1>1. writer[t] \in Writing /\ DOMAIN writer = Threads
  BY WriterKinds DEF WriteTmp, TypeOK
<1>2. writer' = [writer EXCEPT ![t] = [writer[t] EXCEPT !.step = "replace"]]
  BY DEF WriteTmp
<1>3. /\ writer'[t] = [writer[t] EXCEPT !.step = "replace"]
      /\ \A u \in Threads : u # t => writer'[u] = writer[u]
      /\ DOMAIN writer' = Threads
  BY <1>1, <1>2
<1>4. \A old : Over(old, writer[t].params) \subseteq Params \cup {Unread, Torn}
  BY <1>1 DEF Over, Writing
<1>5. {file', tmp'} \subseteq Params \cup {Unread, Torn}
  <2>1. tmp' \in Over(tmp, writer[t].params) \/ tmp' = tmp
    BY DEF WriteTmp
  <2>2. file' \in Over(file, writer[t].params) \/ file' = file
    BY DEF WriteTmp
  <2> QED
    BY <1>4, <2>1, <2>2 DEF TypeOK
<1> QED
  BY <1>1, <1>3, <1>5 DEF Writing

LEMMA TmpReplaces ==
    ASSUME TypeOK, NEW t \in Threads, Replace(t)
    PROVE  /\ writer[t] \in Writing /\ writer'[t] = Written
           /\ \A u \in Threads : u # t =>
                 (writer'[u] = writer[u] \/ (writer[u] \in Writing /\ writer'[u] \in Writing))
           /\ DOMAIN writer' = Threads
<1>1. writer[t] \in Writing
  BY WriterKinds DEF Replace
<1>2. writer' = [u \in Threads |->
          IF u = t THEN Written
          ELSE IF tmp = Unread \/ writer[u].step \notin {"write", "replace"} THEN writer[u]
          ELSE [writer[u] EXCEPT !.at = IF @ = "tmp" THEN "rules" ELSE "gone"]]
  BY DEF Replace, Written
<1>3. ASSUME NEW u \in Threads, u # t, ~(tmp = Unread \/ writer[u].step \notin {"write", "replace"})
      PROVE  writer[u] \in Writing /\ writer'[u] \in Writing
  <2>1. writer[u] \in Writing
    BY <1>3, WriterKinds
  <2>2. writer'[u] = [writer[u] EXCEPT !.at = IF writer[u].at = "tmp" THEN "rules" ELSE "gone"]
    BY <1>2, <1>3
  <2> QED
    BY <2>1, <2>2 DEF Writing
<1>4. ASSUME NEW u \in Threads, u # t, tmp = Unread \/ writer[u].step \notin {"write", "replace"}
      PROVE  writer'[u] = writer[u]
  BY <1>2, <1>4
<1> QED
  BY <1>1, <1>2, <1>3, <1>4

LEMMA SoundSaving == ASSUME Sound, Saving PROVE Sound'
<1>1. PICK t \in Threads : OpenTmp(t) \/ WriteTmp(t) \/ Replace(t)
  BY DEF Saving
<1>2. UNCHANGED <<engine, next, session, queue, qt, page, plan, agreed, warned, user>>
  BY <1>1 DEF OpenTmp, WriteTmp, Replace, told
<1>3. StepsInv' /\ HoldsInv' /\ EngineInv' /\ \A op, step : Doing(op, step)' <=> Doing(op, step)
  BY <1>2, JobsRest
<1>4. Idle \notin Writing /\ Written # Idle /\ \A u \in Threads : writer[u] \in {Idle, Written} \cup Writing
  BY WriterKinds DEF Sound, Idle, Writing, Written
<1>5. /\ DOMAIN writer' = Threads
      /\ \A u \in Threads : writer'[u] \in {Idle, Written} \cup Writing /\ (writer'[u] = Idle <=> writer[u] = Idle)
  <2>1. CASE OpenTmp(t)
    BY <2>1, <1>4, TmpOpened DEF Sound
  <2>2. CASE WriteTmp(t)
    BY <2>2, <1>4, TmpWritten DEF Sound
  <2>3. CASE Replace(t)
    BY <2>3, <1>4, TmpReplaces DEF Sound
  <2> QED
    BY <1>1, <2>1, <2>2, <2>3
<1>6. {file', tmp'} \subseteq Params \cup {Unread, Torn} /\ dropped' \in BOOLEAN
  <2>1. CASE OpenTmp(t)
    BY <2>1 DEF OpenTmp, told, Sound, TypeOK
  <2>2. CASE WriteTmp(t)
    BY <2>2, TmpWritten DEF WriteTmp, told, Sound, TypeOK
  <2>3. CASE Replace(t)
    BY <2>3 DEF Replace, Sound, TypeOK
  <2> QED
    BY <1>1, <2>1, <2>2, <2>3
<1>7. writer' \in [Threads -> {Idle, [step |-> "saved"]}
                     \cup [step : {"open", "write", "replace"}, at : {"tmp", "rules", "gone"}, params : Params]]
  <2>1. writer' = [u \in Threads |-> writer'[u]]
    <3>1. CASE OpenTmp(t)
      BY <3>1, <1>5 DEF OpenTmp, Sound, TypeOK
    <3>2. CASE WriteTmp(t)
      BY <3>2, <1>5 DEF WriteTmp, Sound, TypeOK
    <3>3. CASE Replace(t)
      BY <3>3 DEF Replace
    <3> QED
      BY <1>1, <3>1, <3>2, <3>3
  <2> QED
    BY <2>1, <1>5 DEF Writing, Written
<1>8. TypeOK'
  BY <1>2, <1>3, <1>6, <1>7 DEF Sound, TypeOK, user
<1>9. WriterInv'
  BY <1>2, <1>3, <1>5 DEF Sound, WriterInv, Threads
<1> QED
  BY <1>3, <1>8, <1>9 DEF Sound

LEMMA SoundReadBoard == ASSUME Sound, ReadBoard PROVE Sound'
<1> DEFINE j == [Job EXCEPT !.step = "previous", !.fit = fits]
<1>1. queue # <<>> /\ Job.op = "rescan" /\ Job.step = "read" /\ Works(j)
  BY DEF ReadBoard, Doing
<1>2. j \in Jobs /\ j.op = "rescan" /\ j.step = "previous"
  BY <1>1, TheJob DEF Sound, TypeOK, Jobs, Steps
<1> HIDE DEF j
<1>3. queue' \in Seq(Jobs) /\ StepsInv' /\ Job' = j /\ \A op, step : Doing(op, step)' <=> j.op = op /\ j.step = step
  BY <1>1, <1>2, WorksOn DEF Sound, StepsOf, ReadBoard
<1>4. TypeOK'
  BY <1>3 DEF Sound, TypeOK, ReadBoard, disk, told, user
<1>5. HoldsInv' /\ EngineInv'
  BY <1>2, <1>3 DEF HoldsInv, Sound, EngineInv, ReadBoard
<1>6. WriterInv'
  BY <1>1, <1>2, <1>3 DEF WriterInv, Sound, ReadBoard, disk, Doing
<1> QED
  BY <1>3, <1>4, <1>5, <1>6 DEF Sound

\* What the rescan takes along, and what the tolerance is added to.
LEMMA AskedKinds == ASSUME Sound, NEW heard PROVE Asked(heard) \in Params \cup {Unread}
  BY DEF Asked, Saved, Sound, TypeOK, EngineInv

LEMMA ToleratedKinds == ASSUME NEW p \in Params, NEW on PROVE Tolerated(p, on) \in Params
  BY PluginAssumption DEF Tolerated, Params

LEMMA SoundTakePrevious == ASSUME Sound, TakePrevious PROVE Sound'
<1>1. queue # <<>> /\ Job.op = "rescan" /\ Job.step = "previous"
  BY DEF TakePrevious, Doing
<1>2. PICK heard \in BOOLEAN : Works([Job EXCEPT !.step = "upload", !.params = Asked(heard)])
  BY Zenon DEF TakePrevious
<1> DEFINE p == Asked(heard)
           j == [Job EXCEPT !.step = "upload", !.params = p]
<1>3. p \in Params \cup {Unread} /\ Works(j)
  BY <1>2, AskedKinds
<1> HIDE DEF p
<1>4. j \in Jobs /\ j.op = "rescan" /\ j.step = "upload"
  BY <1>1, <1>3, TheJob DEF Sound, TypeOK, Jobs, Steps
<1> HIDE DEF j
<1>5. queue' \in Seq(Jobs) /\ StepsInv' /\ Job' = j /\ \A op, step : Doing(op, step)' <=> j.op = op /\ j.step = step
  BY <1>1, <1>3, <1>4, WorksOn DEF Sound, StepsOf, TakePrevious
<1>6. TypeOK'
  BY <1>5 DEF Sound, TypeOK, TakePrevious, disk, told, user
<1>7. HoldsInv' /\ EngineInv'
  BY <1>4, <1>5 DEF HoldsInv, Sound, EngineInv, TakePrevious
<1>8. WriterInv'
  BY <1>1, <1>4, <1>5 DEF WriterInv, Sound, TakePrevious, disk, Doing
<1> QED
  BY <1>5, <1>6, <1>7, <1>8 DEF Sound

\* A job that is given up, and what the window or the page is told of it.
LEMMA SoundRescanFails == ASSUME Sound, RescanFails PROVE Sound'
<1> DEFINE e == [kind |-> IF Job.token = 0 THEN "failed" ELSE "refused", sid |-> NoSession, token |-> Job.token]
<1>1. /\ queue # <<>> /\ Job.op = "rescan" /\ Job.step \in {"read", "upload"}
      /\ qt' = Append(qt, e) /\ queue' = Tail(queue)
  BY DEF RescanFails, Doing
<1>2. e \in [kind : {"open", "answer", "reload", "failed", "refused"}, sid : Nat, token : 0 .. MaxOps]
  BY <1>1, TheJob DEF Sound, Jobs, NoSession
<1>3. qt' \in Seq([kind : {"open", "answer", "reload", "failed", "refused"}, sid : Nat, token : 0 .. MaxOps])
  BY <1>1, <1>2 DEF Sound, TypeOK
<1>4. UNCHANGED <<engine, next, session, page, plan, disk, told, user>>
  BY DEF RescanFails
<1>5. queue' \in Seq(Jobs) /\ StepsInv' /\ \A op, step : step \notin Waiting => ~Doing(op, step)'
  BY <1>1, <1>4, Drops DEF Sound
<1>6. TypeOK'
  BY <1>3, <1>4, <1>5 DEF Sound, TypeOK, disk, told, user
<1>7. HoldsInv' /\ EngineInv'
  BY <1>4, <1>5 DEF HoldsInv, Waiting, Sound, EngineInv
<1>8. WriterInv'
  BY <1>1, <1>4, <1>5 DEF Waiting, WriterInv, Sound, disk, Doing
<1> QED
  BY <1>5, <1>6, <1>7, <1>8 DEF Sound

LEMMA Uploads ==
    ASSUME Sound, Upload
    PROVE  /\ queue # <<>> /\ Job.op = "rescan" /\ Job.step = "upload"
           /\ next \notin DOMAIN engine /\ next # session /\ next # NoSession
           /\ DOMAIN engine' = DOMAIN engine \cup {next}
           /\ \A s \in DOMAIN engine : engine'[s] = engine[s]
           /\ engine'[next] \in [params : Params, fit : BOOLEAN]
           /\ \/ /\ Job.params \in Params /\ engine'[next].params = Job.params /\ ~dropped
                 /\ agreed' = agreed /\ dropped' = FALSE
              \/ /\ Job.params = Unread /\ engine'[next].params = {} /\ ~dropped
                 /\ agreed' = agreed /\ dropped' = FALSE
              \/ /\ agreed' = engine'[next].params /\ dropped' = TRUE
           /\ Works([Job EXCEPT !.step = "swap", !.sid = next])
<1>1. queue # <<>> /\ Job.op = "rescan" /\ Job.step = "upload"
  BY DEF Upload, Doing
<1>2. Job.params \in Params \cup {Unread} /\ Job.fit \in BOOLEAN
  BY <1>1, TheJob DEF Sound, Jobs
<1>3. next \in Nat \ {0} /\ DOMAIN engine \subseteq 1 .. next - 1 /\ session \in Nat
  BY DEF Sound, TypeOK
<1>4. next \notin DOMAIN engine /\ next # NoSession
  BY <1>3 DEF NoSession
<1>5. next # session
  BY <1>3, <1>4 DEF Sound, EngineInv
<1>6. PICK kept \in BOOLEAN :
        LET rules == IF kept THEN Job.params ELSE {} IN
        /\ kept => Job.params # Unread /\ Fit(Job.params, Job.fit)
        /\ engine' = [s \in DOMAIN engine \cup {next} |->
                          IF s = next THEN [params |-> rules, fit |-> Job.fit] ELSE engine[s]]
        /\ agreed' = IF dropped \/ ~(kept \/ Job.params = Unread) THEN rules ELSE agreed
        /\ dropped' = (dropped \/ (Job.params # Unread /\ ~kept))
  BY DEF Upload
<1> DEFINE rules == IF kept THEN Job.params ELSE {}
<1>7. rules \in Params
  BY <1>2, <1>6, Marks
<1>8. /\ DOMAIN engine' = DOMAIN engine \cup {next}
      /\ \A s \in DOMAIN engine : engine'[s] = engine[s]
      /\ engine'[next] = [params |-> rules, fit |-> Job.fit]
  BY <1>4, <1>6
<1>9. engine'[next] \in [params : Params, fit : BOOLEAN] /\ engine'[next].params = rules
  BY <1>2, <1>7, <1>8
<1>10. Works([Job EXCEPT !.step = "swap", !.sid = next])
  BY DEF Upload
<1>11. dropped \in BOOLEAN
  BY DEF Sound, TypeOK
<1>12. CASE dropped
  BY <1>12, <1>1, <1>4, <1>5, <1>6, <1>8, <1>9, <1>10
<1>13. CASE ~dropped /\ kept
  BY <1>13, <1>1, <1>2, <1>4, <1>5, <1>6, <1>8, <1>9, <1>10, <1>11
<1>14. CASE ~dropped /\ ~kept /\ Job.params = Unread
  BY <1>14, <1>1, <1>4, <1>5, <1>6, <1>8, <1>9, <1>10, <1>11
<1>15. CASE ~dropped /\ ~kept /\ Job.params # Unread
  BY <1>15, <1>1, <1>4, <1>5, <1>6, <1>8, <1>9, <1>10, <1>11
<1> QED
  BY <1>12, <1>13, <1>14, <1>15

LEMMA SoundUpload == ASSUME Sound, Upload PROVE Sound'
<1> DEFINE j == [Job EXCEPT !.step = "swap", !.sid = next]
<1>1. /\ queue # <<>> /\ Job.op = "rescan" /\ Job.step = "upload"
      /\ next \notin DOMAIN engine /\ next # session /\ next # NoSession
      /\ DOMAIN engine' = DOMAIN engine \cup {next}
      /\ \A s \in DOMAIN engine : engine'[s] = engine[s]
      /\ engine'[next] \in [params : Params, fit : BOOLEAN]
      /\ agreed' \in {agreed, engine'[next].params} /\ dropped' \in BOOLEAN
      /\ Works(j)
  BY Uploads
<1>2. next \in Nat \ {0} /\ next' = next + 1 /\ DOMAIN engine \subseteq 1 .. next - 1
  BY DEF Sound, TypeOK, Upload
<1>3. j \in Jobs /\ j.op = "rescan" /\ j.step = "swap" /\ j.sid = next
  BY <1>1, <1>2, TheJob DEF Sound, Jobs, Steps
<1> HIDE DEF j
<1>4. UNCHANGED <<session, qt, page, plan, disk, warned, user>>
  BY DEF Upload
<1>5. queue' \in Seq(Jobs) /\ StepsInv' /\ Job' = j /\ \A op, step : Doing(op, step)' <=> j.op = op /\ j.step = step
  BY <1>1, <1>3, <1>4, WorksOn DEF Sound, StepsOf
<1>6. DOMAIN engine' \subseteq 1 .. next' - 1 /\ next' \in Nat \ {0}
  <2>1. next' - 1 = next
    BY <1>2
  <2>2. DOMAIN engine' \subseteq 1 .. next
    BY <1>1, <1>2
  <2> QED
    BY <1>2, <2>1, <2>2
<1>7. \A s \in DOMAIN engine' : engine'[s] \in [params : Params, fit : BOOLEAN]
  BY <1>1 DEF Sound, TypeOK
<1>8. agreed' \in Params /\ dropped' \in BOOLEAN
  BY <1>1, Marks DEF Sound, TypeOK
<1>9. TypeOK'
  BY <1>4, <1>5, <1>6, <1>7, <1>8 DEF Sound, TypeOK, disk, user
<1>10. HoldsInv' /\ EngineInv'
  BY <1>1, <1>3, <1>4, <1>5 DEF HoldsInv, Sound, EngineInv
<1>11. WriterInv'
  BY <1>1, <1>3, <1>4, <1>5 DEF WriterInv, Sound, disk, Doing
<1> QED
  BY <1>5, <1>9, <1>10, <1>11 DEF Sound

LEMMA SoundSwap == ASSUME Sound, Swap PROVE Sound'
<1> DEFINE j == [Job EXCEPT !.step = "delete", !.sid = session]
<1>1. queue # <<>> /\ Job.op = "rescan" /\ Job.step = "swap" /\ Works(j) /\ session' = Job.sid
  BY DEF Swap, Doing
<1>2. Job.sid \in DOMAIN engine \ {session} /\ Job.sid # NoSession
  BY <1>1 DEF Sound, HoldsInv, TypeOK, Doing, NoSession
<1>3. j \in Jobs /\ j.op = "rescan" /\ j.step = "delete" /\ j.sid = session
  BY <1>1, TheJob DEF Sound, TypeOK, Jobs, Steps
<1> HIDE DEF j
<1>4. queue' \in Seq(Jobs) /\ StepsInv' /\ Job' = j /\ \A op, step : Doing(op, step)' <=> j.op = op /\ j.step = step
  BY <1>1, <1>2, <1>3, WorksOn DEF Sound, StepsOf
<1>5. session' \in Nat
  BY <1>1, TheJob DEF Sound, Jobs
<1>6. TypeOK'
  BY <1>4, <1>5 DEF Sound, TypeOK, Swap, disk, told, user
<1>7. HoldsInv' /\ EngineInv'
  BY <1>1, <1>2, <1>3, <1>4 DEF HoldsInv, Sound, EngineInv, Swap
<1>8. WriterInv'
  BY <1>1, <1>3, <1>4 DEF WriterInv, Sound, Swap, disk, Doing
<1> QED
  BY <1>4, <1>6, <1>7, <1>8 DEF Sound

LEMMA SoundDeleteOld == ASSUME Sound, DeleteOld PROVE Sound'
<1> DEFINE e == [kind |-> IF Job.token = 0 THEN "open" ELSE "answer", sid |-> session, token |-> Job.token]
<1>1. queue # <<>> /\ Job.op = "rescan" /\ Job.step = "delete" /\ qt' = Append(qt, e) /\ queue' = Tail(queue)
  BY DEF DeleteOld, Doing
<1>2. e \in [kind : {"open", "answer", "reload", "failed", "refused"}, sid : Nat, token : 0 .. MaxOps]
  BY <1>1, TheJob DEF Sound, TypeOK, Jobs
<1>3. qt' \in Seq([kind : {"open", "answer", "reload", "failed", "refused"}, sid : Nat, token : 0 .. MaxOps])
  BY <1>1, <1>2 DEF Sound, TypeOK
<1>4. /\ DOMAIN engine' = DOMAIN engine \ {Job.sid}
      /\ \A s \in DOMAIN engine' : engine'[s] = engine[s]
  BY DEF DeleteOld
<1>5. queue' \in Seq(Jobs) /\ StepsInv' /\ \A op, step : step \notin Waiting => ~Doing(op, step)'
  BY <1>1, Drops DEF Sound, DeleteOld
<1>6. TypeOK'
  BY <1>3, <1>4, <1>5 DEF Sound, TypeOK, DeleteOld, disk, told, user
<1>7. HoldsInv'
  BY <1>5 DEF HoldsInv, Waiting
<1>8. EngineInv'
  BY <1>1, <1>4 DEF Sound, EngineInv, HoldsInv, Doing, DeleteOld
<1>9. WriterInv'
  BY <1>1, <1>5 DEF Waiting, WriterInv, Sound, DeleteOld, disk, Doing
<1> QED
  BY <1>5, <1>6, <1>7, <1>8, <1>9 DEF Sound

LEMMA AsksParams ==
    ASSUME Sound, AskParams
    PROVE  /\ queue # <<>> /\ Job.op = "tolerance" /\ Job.step = "ask" /\ session \in DOMAIN engine
           /\ \E j \in Jobs :
                 /\ Works(j) /\ j.op = "tolerance" /\ j.step = "plan" /\ j.token = Job.token /\ j.params \in Params
                 /\ j.heard => j.params = Tolerated(engine[session].params, j.on)
<1>1. queue # <<>> /\ Job.op = "tolerance" /\ Job.step = "ask"
  BY DEF AskParams, Doing
<1>2. session \in DOMAIN engine
  BY <1>1, TheJob DEF Sound, EngineInv
<1>3. PICK heard \in BOOLEAN :
         Works([Job EXCEPT !.step = "plan", !.heard = heard,
                           !.params = Tolerated(IF heard THEN engine[session].params ELSE {}, Job.on)])
  BY Zenon DEF AskParams
<1> DEFINE p == Tolerated(IF heard THEN engine[session].params ELSE {}, Job.on)
           j == [Job EXCEPT !.step = "plan", !.heard = heard, !.params = p]
<1>4. p \in Params /\ (heard => p = Tolerated(engine[session].params, Job.on)) /\ Works(j)
  <2>1. engine[session].params \in Params
    BY <1>2 DEF Sound, TypeOK
  <2> QED
    BY <1>3, <2>1, Marks, ToleratedKinds
<1> HIDE DEF p
<1>5. /\ j \in Jobs /\ j.op = "tolerance" /\ j.step = "plan" /\ j.token = Job.token
      /\ j.params = p /\ j.heard = heard /\ j.on = Job.on
  BY <1>1, <1>4, TheJob DEF Sound, Jobs, Steps
<1> QED
  BY <1>1, <1>2, <1>4, <1>5

LEMMA SoundAskParams == ASSUME Sound, AskParams PROVE Sound'
<1>1. queue # <<>> /\ Job.op = "tolerance" /\ Job.step = "ask"
  BY AsksParams
<1>2. PICK j \in Jobs : Works(j) /\ j.op = "tolerance" /\ j.step = "plan" /\ j.params \in Params
  BY AsksParams
<1>3. queue' \in Seq(Jobs) /\ StepsInv' /\ Job' = j /\ \A op, step : Doing(op, step)' <=> j.op = op /\ j.step = step
  BY <1>1, <1>2, WorksOn DEF Sound, StepsOf, AskParams
<1>4. TypeOK'
  BY <1>3 DEF Sound, TypeOK, AskParams, disk, told, user
<1>5. HoldsInv' /\ EngineInv'
  BY <1>2, <1>3 DEF HoldsInv, Sound, EngineInv, AskParams
<1>6. WriterInv'
  BY <1>1, <1>2, <1>3 DEF WriterInv, Sound, AskParams, disk, Doing
<1> QED
  BY <1>3, <1>4, <1>5, <1>6 DEF Sound

\* A thread that is idle begins to write.
LEMMA Begins ==
    ASSUME TypeOK, NEW t \in Threads, NEW p \in Params, Save(t, p)
    PROVE  /\ writer[t] = Idle
           /\ writer' = [writer EXCEPT ![t] = [step |-> "open", at |-> "tmp", params |-> p]]
           /\ writer'[t] = [step |-> "open", at |-> "tmp", params |-> p] /\ writer'[t] # Idle
           /\ \A u \in Threads : u # t => writer'[u] = writer[u]
           /\ writer' \in [Threads -> {Idle, [step |-> "saved"]}
                 \cup [step : {"open", "write", "replace"}, at : {"tmp", "rules", "gone"}, params : Params]]
<1>1. writer[t] = Idle /\ writer' = [writer EXCEPT ![t] = [step |-> "open", at |-> "tmp", params |-> p]]
  BY DEF Save
<1>2. [step |-> "open", at |-> "tmp", params |-> p] # Idle
  <2>1. [step |-> "open", at |-> "tmp", params |-> p].step = "open" /\ Idle.step = "idle"
    BY DEF Idle
  <2> QED
    BY <2>1
<1>3. writer \in [Threads -> {Idle, [step |-> "saved"]}
                 \cup [step : {"open", "write", "replace"}, at : {"tmp", "rules", "gone"}, params : Params]]
  BY DEF TypeOK
<1> QED
  BY <1>1, <1>2, <1>3

\* And one whose rules are saved stops.
LEMMA Ends ==
    ASSUME TypeOK, NEW t \in Threads, writer' = [writer EXCEPT ![t] = Idle]
    PROVE  /\ writer'[t] = Idle /\ \A u \in Threads : u # t => writer'[u] = writer[u]
           /\ writer' \in [Threads -> {Idle, [step |-> "saved"]}
                 \cup [step : {"open", "write", "replace"}, at : {"tmp", "rules", "gone"}, params : Params]]
  BY DEF TypeOK

\* A session of the engine is asked for other rules.
LEMMA AskedOf ==
    ASSUME TypeOK, NEW s \in DOMAIN engine, NEW p \in Params, engine' = [engine EXCEPT ![s].params = p]
    PROVE  /\ DOMAIN engine' = DOMAIN engine
           /\ engine'[s].params = p
           /\ \A u \in DOMAIN engine : engine'[u] \in [params : Params, fit : BOOLEAN] /\ (u # s => engine'[u] = engine[u])
<1>1. engine' = [engine EXCEPT ![s] = [engine[s] EXCEPT !.params = p]]
  OBVIOUS
<1>2. \A u \in DOMAIN engine : engine[u] \in [params : Params, fit : BOOLEAN]
  BY DEF TypeOK
<1>3. [engine[s] EXCEPT !.params = p] \in [params : Params, fit : BOOLEAN] /\ [engine[s] EXCEPT !.params = p].params = p
  BY <1>2
<1>4. DOMAIN engine' = DOMAIN engine /\ engine'[s] = [engine[s] EXCEPT !.params = p]
      /\ \A u \in DOMAIN engine : u # s => engine'[u] = engine[u]
  BY <1>1
<1> QED
  BY <1>2, <1>3, <1>4

LEMMA SoundPlanTolerance == ASSUME Sound, PlanTolerance PROVE Sound'
<1>1. /\ queue # <<>> /\ Job.op = "tolerance" /\ Job.step = "plan"
      /\ session # NoSession /\ session \in DOMAIN engine /\ Job.params \in Params
  <2>1. queue # <<>> /\ Job.op = "tolerance" /\ Job.step = "plan"
    BY DEF PlanTolerance, Doing
  <2> QED
    BY <2>1, TheJob DEF Sound, HoldsInv, EngineInv, Doing
<1> DEFINE j == [Job EXCEPT !.step = "save"]
<1>2. /\ engine' = [engine EXCEPT ![session].params = Job.params]
      /\ Save("kicad", Job.params) /\ Works(j)
      /\ UNCHANGED <<next, session, qt, page, plan, file, tmp, told, user>>
  BY DEF PlanTolerance
<1>3. j \in Jobs /\ j.op = "tolerance" /\ j.step = "save" /\ j.params = Job.params
  BY <1>1, TheJob DEF Sound, Jobs, Steps
<1> HIDE DEF j
<1>4. queue' \in Seq(Jobs) /\ StepsInv' /\ Job' = j /\ \A op, step : Doing(op, step)' <=> j.op = op /\ j.step = step
  BY <1>1, <1>2, <1>3, WorksOn DEF Sound, StepsOf
<1>5. /\ writer'["kicad"] # Idle /\ writer'["reader"] = writer["reader"]
      /\ writer' \in [Threads -> {Idle, [step |-> "saved"]}
            \cup [step : {"open", "write", "replace"}, at : {"tmp", "rules", "gone"}, params : Params]]
  BY <1>1, <1>2, Begins DEF Threads, Sound
<1>6. DOMAIN engine' = DOMAIN engine /\ \A u \in DOMAIN engine : engine'[u] \in [params : Params, fit : BOOLEAN]
  BY <1>1, <1>2, AskedOf DEF Sound
<1>7. TypeOK'
  BY <1>2, <1>4, <1>5, <1>6 DEF Sound, TypeOK, told, user
<1>8. HoldsInv' /\ EngineInv'
  BY <1>1, <1>2, <1>3, <1>4, <1>6 DEF HoldsInv, Sound, EngineInv
<1>9. WriterInv'
  BY <1>2, <1>3, <1>4, <1>5 DEF WriterInv, Sound
<1> QED
  BY <1>4, <1>7, <1>8, <1>9 DEF Sound

LEMMA SoundToleranceFails == ASSUME Sound, ToleranceFails PROVE Sound'
<1>1. /\ queue # <<>> /\ Job.op = "tolerance" /\ Job.step = "plan" /\ queue' = Tail(queue)
      /\ UNCHANGED <<engine, disk, next, session, qt, page, plan, told, user>>
  BY DEF ToleranceFails, Doing
<1>2. queue' \in Seq(Jobs) /\ StepsInv' /\ \A op, step : step \notin Waiting => ~Doing(op, step)'
  BY <1>1, Drops DEF Sound
<1>3. TypeOK'
  BY <1>1, <1>2 DEF Sound, TypeOK, disk, told, user
<1>4. HoldsInv' /\ EngineInv'
  BY <1>1, <1>2 DEF HoldsInv, Waiting, Sound, EngineInv
<1>5. WriterInv'
  BY <1>1, <1>2 DEF Waiting, WriterInv, Sound, disk, Doing
<1> QED
  BY <1>2, <1>3, <1>4, <1>5 DEF Sound

LEMMA SoundToleranceSet == ASSUME Sound, ToleranceSet PROVE Sound'
<1>1. /\ queue # <<>> /\ agreed' \in Params
      /\ queue' = Tail(queue) /\ writer' = [writer EXCEPT !["kicad"] = Idle]
      /\ UNCHANGED <<engine, next, session, page, plan, file, tmp, dropped, warned, user>>
  <2>1. Job.params \in Params /\ agreed \in Params
    BY DEF ToleranceSet, Sound, HoldsInv, TypeOK
  <2> QED
    BY <2>1, ToleratedKinds DEF ToleranceSet, Doing
<1>2. queue' \in Seq(Jobs) /\ StepsInv' /\ \A op, step : step \notin Waiting => ~Doing(op, step)'
  BY <1>1, Drops DEF Sound
<1>3. qt' \in Seq([kind : {"open", "answer", "reload", "failed", "refused"}, sid : Nat, token : 0 .. MaxOps])
  <2>1. [kind |-> "reload", sid |-> NoSession, token |-> 0] \in [kind : {"open", "answer", "reload", "failed", "refused"}, sid : Nat, token : 0 .. MaxOps]
    BY Zero DEF NoSession
  <2> QED
    BY <2>1 DEF ToleranceSet, Sound, TypeOK
<1>4. /\ writer'["kicad"] = Idle /\ writer'["reader"] = writer["reader"]
      /\ writer' \in [Threads -> {Idle, [step |-> "saved"]}
            \cup [step : {"open", "write", "replace"}, at : {"tmp", "rules", "gone"}, params : Params]]
  BY <1>1, Ends DEF Sound, Threads
<1>5. TypeOK'
  BY <1>1, <1>2, <1>3, <1>4 DEF Sound, TypeOK, user
<1>6. HoldsInv' /\ EngineInv'
  BY <1>1, <1>2 DEF HoldsInv, Waiting, Sound, EngineInv
<1>7. WriterInv'
  BY <1>1, <1>2, <1>4 DEF WriterInv, Sound, Waiting
<1> QED
  BY <1>2, <1>5, <1>6, <1>7 DEF Sound

\* The page's plan is taken, or is refused or not answered.
Accepts ==
    /\ plan.sid \in DOMAIN engine /\ Fit(plan.params, engine[plan.sid].fit)
    /\ engine' = [engine EXCEPT ![plan.sid].params = plan.params]
    /\ Save("reader", plan.params)
    /\ plan' = [plan EXCEPT !.step = "saving"]
Refuses == plan' = Idle /\ UNCHANGED <<engine, writer>>

LEMMA SoundAnswerPlan == ASSUME Sound, AnswerPlan PROVE Sound'
<1>1. plan \in Plans /\ plan.step = "sent"
  BY PlanKinds DEF AnswerPlan, Sound
<1>2. UNCHANGED <<next, session, queue, qt, page, file, tmp, told, user>> /\ (Accepts \/ Refuses)
  BY DEF AnswerPlan, Accepts, Refuses
<1>3. CASE Accepts
  <2>1. plan' \in Plans /\ plan'.step = "saving"
    BY <1>1, <1>3 DEF Plans, Accepts
  <2>2. plan.params \in Params
    BY <1>1 DEF Plans
  <2>3. /\ writer'["reader"] # Idle /\ writer'["kicad"] = writer["kicad"]
        /\ writer' \in [Threads -> {Idle, [step |-> "saved"]}
              \cup [step : {"open", "write", "replace"}, at : {"tmp", "rules", "gone"}, params : Params]]
    BY <1>3, <2>2, Begins DEF Threads, Sound, Accepts
  <2>4. DOMAIN engine' = DOMAIN engine /\ \A u \in DOMAIN engine : engine'[u] \in [params : Params, fit : BOOLEAN]
    BY <1>3, <2>2, AskedOf DEF Sound, Accepts
  <2>5. StepsInv' /\ HoldsInv' /\ EngineInv' /\ \A op, step : Doing(op, step)' <=> Doing(op, step)
    BY <1>2, <2>4, JobsRest
  <2>6. TypeOK'
    BY <1>2, <2>1, <2>3, <2>4 DEF Sound, TypeOK, Plans, told, user
  <2>7. WriterInv'
    BY <2>1, <2>3, <2>5 DEF WriterInv, Sound
  <2> QED
    BY <2>5, <2>6, <2>7 DEF Sound
<1>4. CASE Refuses
  <2>1. plan' = Idle /\ UNCHANGED <<engine, writer>>
    BY <1>4 DEF Refuses
  <2>2. StepsInv' /\ HoldsInv' /\ EngineInv' /\ \A op, step : Doing(op, step)' <=> Doing(op, step)
    BY <1>2, <2>1, JobsRest
  <2>3. TypeOK'
    BY <1>2, <2>1 DEF Sound, TypeOK, told, user
  <2>4. Idle.step = "idle"
    BY DEF Idle
  <2>5. WriterInv'
    BY <1>1, <2>1, <2>2, <2>4 DEF WriterInv, Sound
  <2> QED
    BY <2>2, <2>3, <2>5 DEF Sound
<1> QED
  BY <1>2, <1>3, <1>4

LEMMA SoundPlanAnswered == ASSUME Sound, PlanAnswered PROVE Sound'
<1>1. plan \in Plans /\ plan.step = "saving" /\ plan.params \in Params
  BY PlanKinds DEF PlanAnswered, Sound, Plans
<1>2. /\ UNCHANGED <<engine, next, session, queue, qt, file, tmp, dropped, warned, user>>
      /\ writer' = [writer EXCEPT !["reader"] = Idle] /\ plan' = Idle
  BY DEF PlanAnswered
<1>3. /\ writer'["reader"] = Idle /\ writer'["kicad"] = writer["kicad"]
      /\ writer' \in [Threads -> {Idle, [step |-> "saved"]}
            \cup [step : {"open", "write", "replace"}, at : {"tmp", "rules", "gone"}, params : Params]]
  BY <1>2, Ends DEF Sound, Threads
<1>4. StepsInv' /\ HoldsInv' /\ EngineInv' /\ \A op, step : Doing(op, step)' <=> Doing(op, step)
  BY <1>2, JobsRest
<1>5. page' \in [at : Nat, shows : Params \cup {Unread, Gone, NoBoard}, waits : 0 .. MaxOps] /\ agreed' \in Params
  BY <1>1 DEF PlanAnswered, Sound, TypeOK
<1>6. TypeOK'
  BY <1>2, <1>3, <1>4, <1>5 DEF Sound, TypeOK, user
<1>7. Idle.step = "idle"
  BY DEF Idle
<1>8. WriterInv'
  BY <1>2, <1>3, <1>4, <1>7 DEF WriterInv, Sound
<1> QED
  BY <1>4, <1>6, <1>8 DEF Sound

\* A page that is opened again forgets what it asked.
LEMMA PageOpened ==
    ASSUME TypeOK, NEW sid \in Nat, OpenPage(sid)
    PROVE  /\ page'.at = sid /\ page'.waits = 0
           /\ page'.shows = IF sid = NoSession THEN NoBoard ELSE Unread
           /\ page' \in [at : Nat, shows : Params \cup {Unread, Gone, NoBoard}, waits : 0 .. MaxOps]
           /\ plan' \in {Idle} \cup Plans /\ plan'.step = plan.step /\ (plan = Idle <=> plan' = Idle)
<1>1. page' = [at |-> sid, shows |-> IF sid = NoSession THEN NoBoard ELSE Unread, waits |-> 0]
  BY DEF OpenPage, Opened
<1>2. plan' \in {Idle} \cup Plans /\ plan'.step = plan.step /\ (plan = Idle <=> plan' = Idle)
  <2>1. CASE plan = Idle
    BY <2>1 DEF OpenPage
  <2>2. CASE plan # Idle
    <3>1. plan \in Plans /\ plan' = [plan EXCEPT !.live = FALSE]
      BY <2>2, PlanKinds DEF OpenPage
    <3>2. plan' \in Plans /\ plan'.step = plan.step
      BY <3>1 DEF Plans
    <3>3. Idle \notin Plans
      BY DEF Idle, Plans
    <3> QED
      BY <2>2, <3>2, <3>3
  <2> QED
    BY <2>1, <2>2
<1> QED
  BY <1>1, <1>2, Zero

LEMMA SoundDeliver == ASSUME Sound, Deliver PROVE Sound'
<1> DEFINE e == Head(qt)
<1>1. qt # <<>> /\ qt' = Tail(qt) /\ UNCHANGED <<engine, next, session, queue, disk, agreed, dropped, user>>
  BY DEF Deliver
<1>2. e \in [kind : {"open", "answer", "reload", "failed", "refused"}, sid : Nat, token : 0 .. MaxOps]
      /\ qt' \in Seq([kind : {"open", "answer", "reload", "failed", "refused"}, sid : Nat, token : 0 .. MaxOps])
  BY <1>1, Heads, Dropped DEF Sound, TypeOK
<1>3. page.at \in Nat /\ e.sid \in Nat
  BY <1>2 DEF Sound, TypeOK
<1>4. \/ OpenPage(e.sid) \/ OpenPage(page.at) \/ UNCHANGED <<page, plan>>
      \/ page' = [page EXCEPT !.waits = 0] /\ UNCHANGED plan
  BY DEF Deliver
<1>5. /\ page' \in [at : Nat, shows : Params \cup {Unread, Gone, NoBoard}, waits : 0 .. MaxOps]
      /\ plan' \in {Idle} \cup Plans /\ plan'.step = plan.step
  <2>1. CASE OpenPage(e.sid)
    BY <1>3, <2>1, PageOpened DEF Sound
  <2>2. CASE OpenPage(page.at)
    BY <1>3, <2>2, PageOpened DEF Sound
  <2>3. CASE UNCHANGED <<page, plan>>
    BY <2>3 DEF Sound, TypeOK, Plans
  <2>4. CASE page' = [page EXCEPT !.waits = 0] /\ UNCHANGED plan
    BY <2>4, Zero DEF Sound, TypeOK, Plans
  <2> QED
    BY <1>4, <2>1, <2>2, <2>3, <2>4
<1>6. warned' \in Nat
  BY DEF Deliver, Sound, TypeOK
<1>7. StepsInv' /\ HoldsInv' /\ EngineInv' /\ \A op, step : Doing(op, step)' <=> Doing(op, step)
  BY <1>1, JobsRest
<1>8. TypeOK'
  BY <1>1, <1>2, <1>5, <1>6 DEF Sound, TypeOK, Plans, disk, user
<1>9. WriterInv'
  BY <1>1, <1>5, <1>7 DEF WriterInv, Sound, disk
<1> QED
  BY <1>7, <1>8, <1>9 DEF Sound

LEMMA SoundDismiss == ASSUME Sound, Dismiss PROVE Sound'
<1>1. /\ warned > 0 /\ warned' = warned - 1 /\ OpenPage(NoSession)
      /\ UNCHANGED <<engine, next, session, queue, qt, disk, agreed, dropped, user>>
  BY DEF Dismiss
<1>2. warned' \in Nat
  BY <1>1 DEF Sound, TypeOK
<1>3. /\ page' \in [at : Nat, shows : Params \cup {Unread, Gone, NoBoard}, waits : 0 .. MaxOps]
      /\ plan' \in {Idle} \cup Plans /\ plan'.step = plan.step
  <2>1. NoSession \in Nat
    BY DEF NoSession
  <2> QED
    BY <1>1, <2>1, PageOpened DEF Sound
<1>4. StepsInv' /\ HoldsInv' /\ EngineInv' /\ \A op, step : Doing(op, step)' <=> Doing(op, step)
  BY <1>1, JobsRest
<1>5. TypeOK'
  BY <1>1, <1>2, <1>3 DEF Sound, TypeOK, Plans, disk, user
<1>6. WriterInv'
  BY <1>1, <1>3, <1>4 DEF WriterInv, Sound, disk
<1> QED
  BY <1>4, <1>5, <1>6 DEF Sound

LEMMA SoundLoadPage == ASSUME Sound, LoadPage PROVE Sound'
<1>1. UNCHANGED <<engine, next, session, queue, qt, plan, disk, told, user>>
  BY DEF LoadPage
<1>2. (IF page.at \in DOMAIN engine THEN engine[page.at].params ELSE Gone) \in Params \cup {Unread, Gone, NoBoard}
  BY DEF Sound, TypeOK
<1>3. page' \in [at : Nat, shows : Params \cup {Unread, Gone, NoBoard}, waits : 0 .. MaxOps]
  BY <1>2 DEF LoadPage, Sound, TypeOK
<1>4. StepsInv' /\ HoldsInv' /\ EngineInv' /\ \A op, step : Doing(op, step)' <=> Doing(op, step)
  BY <1>1, JobsRest
<1>5. TypeOK'
  BY <1>1, <1>3 DEF Sound, TypeOK, disk, told, user
<1> QED
  BY <1>1, <1>4, <1>5 DEF Sound, WriterInv, disk

LEMMA SoundRestart == ASSUME Sound, Restart PROVE Sound'
<1>1. /\ engine' = <<>> /\ next' = 1 /\ session' = NoSession
      /\ queue' = <<Rescan(0)>> /\ qt' = <<>>
      /\ page' = NoPage /\ plan' = Idle
      /\ tmp' = Unread /\ writer' = [t \in Threads |-> Idle]
      /\ agreed' = Rules(file) /\ dropped' = FALSE /\ warned' = 0
      /\ UNCHANGED <<file, fits, crossed>>
  BY DEF Restart
<1>2. Rescan(0) \in Jobs /\ Rescan(0).op = "rescan" /\ Rescan(0).step = "read"
  BY Zero, NewRescan
<1>3. queue' \in Seq(Jobs) /\ Len(queue') = 1 /\ queue'[1] = Rescan(0) /\ Job' = Rescan(0)
  BY <1>1, <1>2 DEF Job
<1>4. ops' \in 0 .. MaxOps
  BY OneLess DEF Restart, Sound, TypeOK
<1>5. page' \in [at : Nat, shows : Params \cup {Unread, Gone, NoBoard}, waits : 0 .. MaxOps]
  BY <1>1, Zero DEF NoPage, NoSession
<1>6. agreed' \in Params
  BY <1>1, Marks DEF Rules
<1>7. DOMAIN engine' = {} /\ next' \in Nat \ {0} /\ session' \in Nat
  BY <1>1 DEF NoSession
<1>8. qt' \in Seq([kind : {"open", "answer", "reload", "failed", "refused"}, sid : Nat, token : 0 .. MaxOps])
  BY <1>1
<1>9. writer' \in [Threads -> {Idle, [step |-> "saved"]}
                     \cup [step : {"open", "write", "replace"}, at : {"tmp", "rules", "gone"}, params : Params]]
  BY <1>1
<1>10. TypeOK'
  BY <1>1, <1>3, <1>4, <1>5, <1>6, <1>7, <1>8, <1>9 DEF Sound, TypeOK
<1>11. StepsInv' /\ HoldsInv'
  BY <1>2, <1>3 DEF StepsInv, HoldsInv, StepsOf, Waiting, Doing
<1>12. EngineInv' /\ WriterInv'
  BY <1>1, <1>2, <1>3 DEF EngineInv, WriterInv, Doing, Threads, Idle
<1> QED
  BY <1>10, <1>11, <1>12 DEF Sound

LEMMA SoundStep == ASSUME Sound, [Next]_vars PROVE Sound'
<1>1. CASE Users
  BY <1>1, SoundToolbarRescan, SoundToolbarTolerance, SoundPageRescan, SoundPagePlan, SoundEdit,
     SoundDismiss DEF Users
<1>2. CASE KiCadThread
  BY <1>2, SoundReadBoard, SoundTakePrevious, SoundUpload, SoundSwap, SoundDeleteOld, SoundRescanFails,
     SoundAskParams, SoundPlanTolerance, SoundToleranceSet, SoundToleranceFails DEF KiCadThread
<1>3. CASE Saving \/ AnswerPlan \/ PlanAnswered \/ Deliver \/ LoadPage \/ Restart
  BY <1>3, SoundSaving, SoundAnswerPlan, SoundPlanAnswered, SoundDeliver, SoundLoadPage, SoundRestart
<1>4. CASE UNCHANGED vars
  <2>1. UNCHANGED <<engine, next, session, queue, qt, page, plan, file, tmp, writer, agreed, dropped, warned, fits, crossed, ops>>
    BY <1>4 DEF vars, disk, told, user
  <2>2. StepsInv' /\ HoldsInv' /\ EngineInv' /\ \A op, step : Doing(op, step)' <=> Doing(op, step)
    BY <2>1, JobsRest
  <2>3. TypeOK'
    BY <2>1 DEF Sound, TypeOK
  <2> QED
    BY <2>1, <2>2, <2>3 DEF Sound, WriterInv
<1> QED
  BY <1>1, <1>2, <1>3, <1>4 DEF Next, Progress

LEMMA SoundAlways == Spec => []Sound
  BY SoundInit, SoundStep, PTL DEF Spec

\* Every variable holds a value the code gives it.
THEOREM Types == Spec => []TypeOK
<1>1. Sound => TypeOK
  BY DEF Sound
<1> QED
  BY <1>1, SoundAlways, PTL

--------------------------------------------------------------------------------
(* Clean, until a request of the page has crossed another operation.             *)

\* While the page's plan is out nothing else is under way.
PlanAlone ==
    plan # Idle =>
        /\ queue = <<>> /\ qt = <<>> /\ page.waits = 0 /\ warned = 0
        /\ plan.live /\ plan.sid = session /\ session # NoSession
        /\ page.at = session /\ page.shows = agreed

\* While the page waits for a rescan, that one is all there is.
WaitsAlone ==
    IF page.waits = 0
    THEN /\ \A i \in 1 .. Len(queue) : queue[i].token = 0
         /\ \A i \in 1 .. Len(qt) : qt[i].kind \in {"open", "reload", "failed"}
    ELSE /\ warned = 0
         /\ \/ Len(queue) = 1 /\ queue[1].op = "rescan" /\ queue[1].token = page.waits /\ qt = <<>>
            \/ /\ queue = <<>> /\ Len(qt) = 1
               /\ qt[1].kind \in {"answer", "refused"} /\ qt[1].token = page.waits

Told == dropped \/ Rules(file) = agreed

\* How far a save has come, and what the two files hold by then.
SavedBy(t, params) ==
    \/ writer[t].step = "open"    /\ writer[t].params = params /\ writer[t].at = "tmp" /\ tmp = Unread /\ Told
    \/ writer[t].step = "write"   /\ writer[t].params = params /\ writer[t].at = "tmp" /\ tmp = Torn   /\ Told
    \/ writer[t].step = "replace" /\ writer[t].params = params /\ writer[t].at = "tmp" /\ tmp = params /\ Told
    \/ writer[t].step = "saved"   /\ file = params /\ tmp = Unread /\ ~dropped

PageSaves == plan.step = "saving"
ToolbarSaves == Doing("tolerance", "save")

DiskInv ==
    /\ file # Torn
    /\ PageSaves => SavedBy("reader", plan.params)
    /\ ToolbarSaves => SavedBy("kicad", Job.params)
    /\ ~PageSaves /\ ~ToolbarSaves => tmp = Unread /\ Told

\* Which session, or which job, holds the agreed decisions.
Decided ==
    /\ PageSaves => engine[session].params = plan.params
    /\ ToolbarSaves => engine[session].params = Job.params
    /\ (Doing("tolerance", "plan") \/ ToolbarSaves) /\ Job.heard => Job.params = Tolerated(agreed, Job.on)
    /\ Doing("rescan", "upload") => dropped \/ Job.params = agreed \/ (Job.params = Unread /\ agreed = {})
    /\ Doing("rescan", "swap") => engine[Job.sid].params = agreed
    /\ ~PageSaves /\ ~ToolbarSaves /\ ~Doing("rescan", "swap") =>
          IF session = NoSession THEN agreed = Rules(file) ELSE engine[session].params = agreed

Opens == {"open", "answer"}
Leaves == {"failed", "refused"}
NoneAfter(q, i) == \A j \in 1 .. Len(q) : j > i => q[j].kind \notin Opens      \* none opens another session
Untouched(q) == \A j \in 1 .. Len(q) : q[j].kind \in Leaves

\* The last result that opens the page opens it on the session there is; a page
\* that none opens is on that session, or on none since a warning was read.
LedTo(q, at) ==
    /\ \A i \in 1 .. Len(q) : q[i].kind \in Opens /\ NoneAfter(q, i) => q[i].sid = session
    /\ NoneAfter(q, 0) => at \in {session, NoSession}

Changing == Doing("rescan", "swap") \/ Doing("rescan", "delete") \/ ToolbarSaves

PageInv ==
    /\ page.at = NoSession => page.shows \in {Unread, NoBoard}
    /\ ~Doing("rescan", "delete") => LedTo(qt, page.at)
    /\ Untouched(qt) /\ ~Changing => page.shows \in {Unread, NoBoard, agreed}

Clean == PlanAlone /\ WaitsAlone /\ DiskInv /\ Decided /\ PageInv
Inv == Sound /\ (~crossed => Clean)

\* What a step keeps that does not reach the files, the sessions or what is told.
LEMMA DiskRest ==
    ASSUME DiskInv, UNCHANGED <<file, tmp, writer, agreed, dropped>>,
           PageSaves' <=> PageSaves, PageSaves => plan'.params = plan.params,
           ToolbarSaves' <=> ToolbarSaves, ToolbarSaves => Job' = Job
    PROVE  DiskInv'
<1>1. Told' <=> Told
  BY DEF Told, Rules
<1>2. PageSaves => (SavedBy("reader", plan.params) => SavedBy("reader", plan.params)')
  BY <1>1 DEF SavedBy
<1>3. ToolbarSaves => (SavedBy("kicad", Job.params) => SavedBy("kicad", Job.params)')
  BY <1>1 DEF SavedBy
<1> QED
  BY <1>1, <1>2, <1>3 DEF DiskInv

LEMMA DecidedRest ==
    ASSUME Decided, UNCHANGED <<engine, session, file, agreed, dropped>>,
           PageSaves' <=> PageSaves, PageSaves => plan'.params = plan.params,
           ToolbarSaves' <=> ToolbarSaves, Doing("tolerance", "plan")' <=> Doing("tolerance", "plan"),
           \A step \in {"upload", "swap"} : Doing("rescan", step)' <=> Doing("rescan", step),
           ToolbarSaves \/ Doing("tolerance", "plan") \/ Doing("rescan", "upload") \/ Doing("rescan", "swap") => Job' = Job
    PROVE  Decided'
<1>1. Rules(file)' = Rules(file)
  BY DEF Rules
<1>2. Doing("rescan", "upload")' <=> Doing("rescan", "upload")
  OBVIOUS
<1>3. Doing("rescan", "swap")' <=> Doing("rescan", "swap")
  OBVIOUS
<1> QED
  BY <1>1, <1>2, <1>3 DEF Decided

LEMMA PageRest ==
    ASSUME PageInv, UNCHANGED <<session, qt, agreed>>, page'.at = page.at, page'.shows = page.shows,
           ToolbarSaves' <=> ToolbarSaves,
           \A step \in {"swap", "delete"} : Doing("rescan", step)' <=> Doing("rescan", step)
    PROVE  PageInv'
<1>1. Doing("rescan", "swap")' <=> Doing("rescan", "swap")
  OBVIOUS
<1>2. Doing("rescan", "delete")' <=> Doing("rescan", "delete")
  OBVIOUS
<1>3. LedTo(qt, page.at)' <=> LedTo(qt, page.at)
  BY DEF LedTo, NoneAfter
<1> QED
  BY <1>1, <1>2, <1>3 DEF PageInv, Changing

\* The head's step, and every other job's.
LEMMA NoJobSame ==
    ASSUME queue' = queue
    PROVE  Job' = Job /\ (ToolbarSaves' <=> ToolbarSaves) /\ \A op, step : Doing(op, step)' <=> Doing(op, step)
  BY DEF Job, Doing, ToolbarSaves

LEMMA CleanRest ==
    ASSUME Clean, UNCHANGED <<engine, session, queue, qt, page, plan, file, tmp, writer, agreed, dropped, warned>>
    PROVE  Clean'
<1>1. Job' = Job /\ (ToolbarSaves' <=> ToolbarSaves) /\ \A op, step : Doing(op, step)' <=> Doing(op, step)
  BY NoJobSame
<1>2. DiskInv' /\ Decided' /\ PageInv'
  BY <1>1, DiskRest, DecidedRest, PageRest DEF Clean, PageSaves
<1>3. PlanAlone' /\ WaitsAlone'
  BY DEF Clean, PlanAlone, WaitsAlone
<1> QED
  BY <1>2, <1>3 DEF Clean

\* A job behind all the others, asked for while the page asks for nothing.
LEMMA CleanAppend ==
    ASSUME Sound, Clean, plan = Idle, plan' = Idle,
           NEW j \in Jobs, queue' = Append(queue, j), j.step \in StepsOf(j.op) \cap Waiting,
           j.op = "tolerance" => session # NoSession,
           UNCHANGED <<engine, session, qt, file, tmp, writer, agreed, dropped>>,
           page'.at = page.at, page'.shows = page.shows
    PROVE  PlanAlone' /\ DiskInv' /\ Decided' /\ PageInv'
<1>1. /\ queue # <<>> => Job' = Job
      /\ \A op, step : step \notin Waiting => (Doing(op, step)' <=> Doing(op, step))
  BY Appends DEF Sound
<1>2. \A op : \A step \in {"swap", "delete", "upload", "plan", "save"} : Doing(op, step)' <=> Doing(op, step)
  BY <1>1 DEF Waiting
<1>3. (ToolbarSaves' <=> ToolbarSaves) /\ (ToolbarSaves \/ Doing("tolerance", "plan") \/ Doing("rescan", "upload") \/ Doing("rescan", "swap") => Job' = Job)
  BY <1>1, <1>2 DEF ToolbarSaves, Doing
<1>4. DiskInv' /\ Decided' /\ PageInv'
  BY <1>2, <1>3, DiskRest, DecidedRest, PageRest DEF Clean, PageSaves
<1> QED
  BY <1>4 DEF PlanAlone

LEMMA CleanToolbarRescan == ASSUME Sound, Clean, ToolbarRescan, ~crossed' PROVE Clean'
<1>1. plan = Idle /\ page.waits = 0
  BY DEF ToolbarRescan, Starts, PageAsks
<1>2. Rescan(0) \in Jobs /\ Rescan(0).op = "rescan" /\ Rescan(0).step = "read" /\ Rescan(0).token = 0
  BY Zero, NewRescan
<1>3. /\ queue' = Append(queue, Rescan(0))
      /\ UNCHANGED <<engine, next, session, qt, page, plan, file, tmp, writer, agreed, dropped, warned>>
  BY DEF ToolbarRescan, disk, told
<1>4. PlanAlone' /\ DiskInv' /\ Decided' /\ PageInv'
  BY <1>1, <1>2, <1>3, CleanAppend DEF StepsOf, Waiting
<1>5. WaitsAlone'
  <2>1. /\ Len(queue') = Len(queue) + 1 /\ queue'[Len(queue) + 1] = Rescan(0)
        /\ \A i \in 1 .. Len(queue) : queue'[i] = queue[i]
    BY <1>2, <1>3, Appends DEF Sound, StepsOf, Waiting
  <2>2. \A i \in 1 .. Len(queue) : queue[i].token = 0
    BY <1>1 DEF Clean, WaitsAlone
  <2>3. \A i \in 1 .. Len(queue') : queue'[i].token = 0
    BY <1>2, <2>1, <2>2, Heads DEF Sound, TypeOK
  <2> QED
    BY <1>1, <1>3, <2>3 DEF Clean, WaitsAlone
<1> QED
  BY <1>4, <1>5 DEF Clean

LEMMA CleanToolbarTolerance == ASSUME Sound, Clean, ToolbarTolerance, ~crossed' PROVE Clean'
<1>1. plan = Idle /\ page.waits = 0 /\ session # NoSession
  BY DEF ToolbarTolerance, Starts, PageAsks
<1>2. PICK on \in BOOLEAN : queue' = Append(queue, Tolerance(on))
  BY DEF ToolbarTolerance
<1>3. /\ Tolerance(on) \in Jobs /\ Tolerance(on).op = "tolerance" /\ Tolerance(on).step = "ask"
      /\ Tolerance(on).token = 0
  BY NewTolerance
<1>4. UNCHANGED <<engine, next, session, qt, page, plan, file, tmp, writer, agreed, dropped, warned>>
  BY DEF ToolbarTolerance, disk, told
<1>5. PlanAlone' /\ DiskInv' /\ Decided' /\ PageInv'
  BY <1>1, <1>2, <1>3, <1>4, CleanAppend DEF StepsOf, Waiting
<1>6. WaitsAlone'
  <2>1. /\ Len(queue') = Len(queue) + 1 /\ queue'[Len(queue) + 1] = Tolerance(on)
        /\ \A i \in 1 .. Len(queue) : queue'[i] = queue[i]
    BY <1>1, <1>2, <1>3, <1>4, Appends DEF Sound, StepsOf, Waiting
  <2>2. \A i \in 1 .. Len(queue) : queue[i].token = 0
    BY <1>1 DEF Clean, WaitsAlone
  <2>3. \A i \in 1 .. Len(queue') : i \in 1 .. Len(queue) \/ i = Len(queue) + 1
    BY <2>1, Heads DEF Sound, TypeOK
  <2>4. \A i \in 1 .. Len(queue') : queue'[i].token = 0
    BY <1>3, <2>1, <2>2, <2>3
  <2> QED
    BY <1>1, <1>4, <2>4 DEF Clean, WaitsAlone
<1> QED
  BY <1>5, <1>6 DEF Clean

LEMMA CleanPageRescan == ASSUME Sound, Clean, PageRescan, ~crossed' PROVE Clean'
<1>1. plan = Idle /\ queue = <<>> /\ qt = <<>> /\ warned = 0 /\ ops \in 0 .. MaxOps /\ ops # 0
  <2>1. ops \in 0 .. MaxOps /\ ops > 0
    BY DEF PageRescan, Starts, Sound, TypeOK
  <2>2. Quiet
    BY DEF PageRescan, Starts
  <2> QED
    BY <2>1, <2>2 DEF Quiet, PageRescan
<1>2. Rescan(ops) \in Jobs /\ Rescan(ops).op = "rescan" /\ Rescan(ops).step = "read" /\ Rescan(ops).token = ops
  BY <1>1, NewRescan
<1>3. /\ queue' = Append(queue, Rescan(ops))
      /\ UNCHANGED <<engine, next, session, qt, plan, file, tmp, writer, agreed, dropped, warned>>
  BY DEF PageRescan, disk, told
<1>4. page'.at = page.at /\ page'.shows = page.shows /\ page'.waits = ops
  BY DEF PageRescan, Sound, TypeOK
<1>5. PlanAlone' /\ DiskInv' /\ Decided' /\ PageInv'
  BY <1>1, <1>2, <1>3, <1>4, CleanAppend DEF StepsOf, Waiting
<1>6. Len(queue') = 1 /\ queue'[1] = Rescan(ops)
  BY <1>1, <1>3
<1>7. WaitsAlone'
  BY <1>1, <1>2, <1>3, <1>4, <1>6 DEF WaitsAlone
<1> QED
  BY <1>5, <1>7 DEF Clean

LEMMA CleanPagePlan == ASSUME Sound, Clean, PagePlan, ~crossed' PROVE Clean'
<1>1. plan = Idle /\ queue = <<>> /\ qt = <<>> /\ page.waits = 0 /\ warned = 0 /\ page.shows \in Params
  BY DEF PagePlan, Starts, Quiet
<1>2. plan'.step = "sent" /\ plan'.live = TRUE /\ plan'.sid = page.at
  BY DEF PagePlan
<1>3. UNCHANGED <<engine, next, session, queue, qt, page, file, tmp, writer, agreed, dropped, warned>>
  BY DEF PagePlan, disk, told
<1>4. Job' = Job /\ (ToolbarSaves' <=> ToolbarSaves) /\ \A op, step : Doing(op, step)' <=> Doing(op, step)
  BY <1>3, NoJobSame
<1>5. ~PageSaves /\ ~PageSaves'
  BY <1>1, <1>2 DEF PageSaves, Idle
<1>6. DiskInv' /\ Decided' /\ PageInv'
  BY <1>3, <1>4, <1>5, DiskRest, DecidedRest, PageRest DEF Clean
<1>7. page.at = session /\ page.at # NoSession /\ page.shows = agreed
  <2>1. ~Changing /\ ~Doing("rescan", "delete")
    BY <1>1 DEF Changing, ToolbarSaves, Doing
  <2>2. NoneAfter(qt, 0) /\ Untouched(qt)
    BY <1>1 DEF NoneAfter, Untouched
  <2> QED
    BY <1>1, <2>1, <2>2, Marks DEF Clean, PageInv, LedTo
<1>8. PlanAlone'
  BY <1>1, <1>2, <1>3, <1>7 DEF PlanAlone
<1>9. WaitsAlone'
  BY <1>3 DEF Clean, WaitsAlone
<1> QED
  BY <1>6, <1>8, <1>9 DEF Clean

\* While nothing has crossed, the page's save and the toolbar's are not at once.
LEMMA OneSaves ==
    ASSUME Sound, Clean
    PROVE  /\ queue # <<>> => plan = Idle /\ ~PageSaves /\ writer["reader"] = Idle
           /\ PageSaves => ~ToolbarSaves /\ writer["kicad"] = Idle
<1>1. queue # <<>> => plan = Idle
  BY DEF Clean, PlanAlone
<1>2. plan = Idle => ~PageSaves
  BY DEF Idle, PageSaves
<1>3. ToolbarSaves => queue # <<>>
  BY DEF ToolbarSaves, Doing
<1> QED
  BY <1>1, <1>2, <1>3 DEF Sound, WriterInv, PageSaves, ToolbarSaves

\* One step of a save that is alone.
LEMMA SaveStep ==
    ASSUME TypeOK, NEW t \in Threads, OpenTmp(t) \/ WriteTmp(t) \/ Replace(t),
           NEW p \in Params, SavedBy(t, p), file # Torn
    PROVE  SavedBy(t, p)' /\ file' # Torn
<1>1. UNCHANGED agreed
  BY DEF OpenTmp, WriteTmp, Replace, told
<1>2. CASE OpenTmp(t)
  <2>1. writer'[t].step = "write" /\ writer'[t].at = "tmp" /\ writer'[t].params = writer[t].params
    BY <1>2, TmpOpened
  <2>2. writer[t].params = p /\ Told
    BY <1>2 DEF OpenTmp, SavedBy
  <2>3. tmp' = Torn /\ UNCHANGED <<file, dropped>>
    BY <1>2 DEF OpenTmp, told
  <2>4. Told'
    BY <1>1, <2>2, <2>3 DEF Told, Rules
  <2> QED
    BY <2>1, <2>2, <2>3, <2>4 DEF SavedBy
<1>3. CASE WriteTmp(t)
  <2>1. writer'[t].step = "replace" /\ writer'[t].at = writer[t].at /\ writer'[t].params = writer[t].params
    BY <1>3, TmpWritten
  <2>2. writer[t].params = p /\ writer[t].at = "tmp" /\ tmp = Torn /\ Told
    BY <1>3 DEF WriteTmp, SavedBy
  <2>3. tmp' = p /\ UNCHANGED <<file, dropped>>
    BY <1>3, <2>2 DEF WriteTmp, Over, told
  <2>4. Told'
    BY <1>1, <2>2, <2>3 DEF Told, Rules
  <2> QED
    BY <2>1, <2>2, <2>3, <2>4 DEF SavedBy
<1>4. CASE Replace(t)
  <2>1. writer'[t].step = "saved"
    BY <1>4, TmpReplaces DEF Written
  <2>2. tmp = p /\ p # Unread /\ p # Torn
    BY <1>4, Marks DEF Replace, SavedBy
  <2>3. file' = p /\ tmp' = Unread /\ ~dropped'
    BY <1>4, <2>2 DEF Replace
  <2> QED
    BY <2>1, <2>2, <2>3 DEF SavedBy
<1> QED
  BY <1>2, <1>3, <1>4

LEMMA CleanSaving == ASSUME Sound, Clean, Saving PROVE Clean'
<1>1. PICK t \in Threads : OpenTmp(t) \/ WriteTmp(t) \/ Replace(t)
  BY DEF Saving
<1>2. UNCHANGED <<engine, next, session, queue, qt, page, plan, agreed, warned, user>>
  BY <1>1 DEF OpenTmp, WriteTmp, Replace, told
<1>3. Job' = Job /\ (ToolbarSaves' <=> ToolbarSaves) /\ (PageSaves' <=> PageSaves)
      /\ \A op, step : Doing(op, step)' <=> Doing(op, step)
  BY <1>2, NoJobSame DEF PageSaves
<1>4. writer[t] # Idle
  BY <1>1 DEF OpenTmp, WriteTmp, Replace, Idle
<1>5. \/ PageSaves /\ ~ToolbarSaves /\ t = "reader" /\ plan.params \in Params
      \/ ToolbarSaves /\ ~PageSaves /\ t = "kicad" /\ Job.params \in Params
  <2>1. CASE t = "reader"
    <3>1. PageSaves
      BY <1>4, <2>1 DEF Sound, WriterInv, PageSaves
    <3>2. plan.params \in Params
      BY <3>1, PlanKinds DEF Sound, PageSaves, Plans
    <3> QED
      BY <2>1, <3>1, <3>2, OneSaves
  <2>2. CASE t = "kicad"
    <3>1. ToolbarSaves
      BY <1>4, <2>2 DEF Sound, WriterInv, ToolbarSaves
    <3>2. Job.params \in Params
      BY <3>1 DEF Sound, HoldsInv, ToolbarSaves
    <3> QED
      BY <2>2, <3>1, <3>2, OneSaves
  <2> QED
    BY <2>1, <2>2 DEF Threads
<1>6. DiskInv'
  <2>1. CASE PageSaves /\ ~ToolbarSaves /\ t = "reader" /\ plan.params \in Params
    <3>1. SavedBy("reader", plan.params) /\ file # Torn
      BY <2>1 DEF Clean, DiskInv
    <3>2. SavedBy("reader", plan.params)' /\ file' # Torn
      <4>1. PICK p \in Params : p = plan.params
        BY <2>1
      <4>2. SavedBy(t, p)
        BY <2>1, <3>1, <4>1
      <4>3. SavedBy(t, p)' /\ file' # Torn
        BY <1>1, <3>1, <4>2, SaveStep DEF Sound
      <4> QED
        BY <1>2, <2>1, <4>1, <4>3 DEF SavedBy
    <3> QED
      BY <1>3, <2>1, <3>2 DEF DiskInv
  <2>2. CASE ToolbarSaves /\ ~PageSaves /\ t = "kicad" /\ Job.params \in Params
    <3>1. SavedBy("kicad", Job.params) /\ file # Torn
      BY <2>2 DEF Clean, DiskInv
    <3>2. SavedBy("kicad", Job.params)' /\ file' # Torn
      <4>1. PICK p \in Params : p = Job.params
        BY <2>2
      <4>2. SavedBy(t, p)
        BY <2>2, <3>1, <4>1
      <4>3. SavedBy(t, p)' /\ file' # Torn
        BY <1>1, <3>1, <4>2, SaveStep DEF Sound
      <4> QED
        BY <1>3, <2>2, <4>1, <4>3 DEF SavedBy
    <3> QED
      BY <1>3, <2>2, <3>2 DEF DiskInv
  <2> QED
    BY <1>5, <2>1, <2>2
<1>7. Decided'
  <2>1. Doing("rescan", "upload") \/ Doing("rescan", "swap") => ~ToolbarSaves /\ ~PageSaves
    <3>1. Doing("rescan", "upload") \/ Doing("rescan", "swap") => queue # <<>> /\ ~ToolbarSaves
      BY DEF Doing, ToolbarSaves
    <3> QED
      BY <3>1, OneSaves
  <2>2. ~Doing("rescan", "upload")' /\ ~Doing("rescan", "swap")'
    BY <1>3, <1>5, <2>1
  <2> QED
    BY <1>2, <1>3, <1>5, <2>2 DEF Clean, Decided
<1>8. PageInv'
  BY <1>2, <1>3, PageRest DEF Clean
<1>9. PlanAlone' /\ WaitsAlone'
  BY <1>2 DEF Clean, PlanAlone, WaitsAlone
<1> QED
  BY <1>6, <1>7, <1>8, <1>9 DEF Clean

\* A job that goes on for who asked for it.
LEMMA TokensWork ==
    ASSUME Sound, Clean, queue # <<>>, NEW j \in Jobs, Works(j), j.op = Job.op, j.token = Job.token,
           UNCHANGED <<qt, page, plan, warned>>
    PROVE  PlanAlone' /\ WaitsAlone' /\ (PageSaves' <=> PageSaves) /\ ~PageSaves
<1>1. plan = Idle /\ ~PageSaves
  BY OneSaves
<1>2. queue \in Seq(Jobs) /\ queue' = <<j>> \o Tail(queue) /\ Job = queue[1]
  BY TheJob DEF Sound, TypeOK, Works
<1>3. /\ Len(queue') = Len(queue) /\ queue'[1] = j
      /\ \A i \in 1 .. Len(queue) : i # 1 => queue'[i] = queue[i]
  BY <1>2, Worked
<1>4. CASE page.waits = 0
  <2>1. \A i \in 1 .. Len(queue) : queue[i].token = 0
    BY <1>4 DEF Clean, WaitsAlone
  <2>2. j.token = 0
    BY <1>2, <2>1, Heads
  <2>3. \A i \in 1 .. Len(queue') : queue'[i].token = 0
    BY <1>3, <2>1, <2>2
  <2>4. WaitsAlone'
    BY <1>4, <2>3 DEF Clean, WaitsAlone
  <2> QED
    BY <1>1, <2>4 DEF PlanAlone, PageSaves
<1>5. CASE page.waits # 0
  <2>1. Len(queue) = 1 /\ queue[1].op = "rescan" /\ queue[1].token = page.waits /\ qt = <<>> /\ warned = 0
    BY <1>5 DEF Clean, WaitsAlone
  <2>2. WaitsAlone'
    BY <1>2, <1>3, <1>5, <2>1 DEF WaitsAlone
  <2> QED
    BY <1>1, <2>2 DEF PlanAlone, PageSaves
<1> QED
  BY <1>4, <1>5

LEMMA CleanReadBoard == ASSUME Sound, Clean, ReadBoard PROVE Clean'
<1> DEFINE j == [Job EXCEPT !.step = "previous", !.fit = fits]
<1>1. queue # <<>> /\ Job.op = "rescan" /\ Job.step = "read" /\ Works(j)
  BY DEF ReadBoard, Doing
<1>2. j \in Jobs /\ j.op = "rescan" /\ j.step = "previous" /\ j.token = Job.token
  BY <1>1, TheJob DEF Sound, TypeOK, Jobs, Steps
<1> HIDE DEF j
<1>3. UNCHANGED <<engine, next, session, qt, page, plan, file, tmp, writer, agreed, dropped, warned>>
  BY DEF ReadBoard, disk, told
<1>4. \A op, step : Doing(op, step)' <=> j.op = op /\ j.step = step
  BY <1>1, <1>2, <1>3, WorksOn DEF Sound, StepsOf
<1>5. \A op : \A step \in {"upload", "swap", "delete", "plan", "save"} : ~Doing(op, step) /\ ~Doing(op, step)'
  BY <1>1, <1>2, <1>4 DEF Doing
<1>6. PlanAlone' /\ WaitsAlone' /\ ~PageSaves /\ ~PageSaves'
  BY <1>1, <1>2, <1>3, TokensWork
<1>7. ~ToolbarSaves /\ ~ToolbarSaves' /\ ~Doing("rescan", "upload") /\ ~Doing("rescan", "swap")
      /\ ~Doing("tolerance", "plan") /\ ~Doing("tolerance", "plan")'
  BY <1>5 DEF ToolbarSaves
<1>8. DiskInv' /\ Decided' /\ PageInv'
  BY <1>3, <1>5, <1>6, <1>7, DiskRest, DecidedRest, PageRest DEF Clean
<1> QED
  BY <1>6, <1>8 DEF Clean

\* A tolerance is added to the agreed decisions when the session answers.
LEMMA CleanAskParams == ASSUME Sound, Clean, AskParams PROVE Clean'
<1>1. queue # <<>> /\ Job.op = "tolerance" /\ Job.step = "ask"
  BY AsksParams
<1>2. PICK j \in Jobs :
         /\ Works(j) /\ j.op = "tolerance" /\ j.step = "plan" /\ j.token = Job.token
         /\ j.heard => j.params = Tolerated(engine[session].params, j.on)
  BY AsksParams
<1>3. UNCHANGED <<engine, next, session, qt, page, plan, file, tmp, writer, agreed, dropped, warned>>
  BY DEF AskParams, disk, told
<1>4. Job' = j /\ \A op, step : Doing(op, step)' <=> j.op = op /\ j.step = step
  BY <1>1, <1>2, <1>3, WorksOn DEF Sound, StepsOf
<1>5. \A op : \A step \in {"upload", "swap", "delete", "save"} : ~Doing(op, step) /\ ~Doing(op, step)'
  BY <1>1, <1>2, <1>4 DEF Doing
<1>6. PlanAlone' /\ WaitsAlone' /\ ~PageSaves /\ ~PageSaves'
  BY <1>1, <1>2, <1>3, TokensWork
<1>7. ~ToolbarSaves /\ ~ToolbarSaves' /\ ~Doing("rescan", "upload") /\ ~Doing("rescan", "swap")
      /\ ~Doing("rescan", "upload")' /\ ~Doing("rescan", "swap")'
  BY <1>5 DEF ToolbarSaves
<1>8. DiskInv' /\ PageInv'
  BY <1>3, <1>5, <1>6, <1>7, DiskRest, PageRest DEF Clean
<1>9. engine[session].params = agreed /\ session # NoSession
  BY <1>1, <1>6, <1>7, TheJob DEF Clean, Decided, Sound
<1>10. Decided'
  BY <1>2, <1>3, <1>4, <1>6, <1>7, <1>9 DEF Decided
<1> QED
  BY <1>6, <1>8, <1>10 DEF Clean

\* The rules a rescan takes along are the agreed ones.
LEMMA CleanTakePrevious == ASSUME Sound, Clean, TakePrevious PROVE Clean'
<1>1. queue # <<>> /\ Job.op = "rescan" /\ Job.step = "previous"
  BY DEF TakePrevious, Doing
<1>2. PICK heard \in BOOLEAN : Works([Job EXCEPT !.step = "upload", !.params = Asked(heard)])
  BY Zenon DEF TakePrevious
<1> DEFINE p == Asked(heard)
           j == [Job EXCEPT !.step = "upload", !.params = p]
<1>3. ~ToolbarSaves /\ ~Doing("rescan", "upload") /\ ~Doing("rescan", "swap") /\ ~Doing("rescan", "delete")
  BY <1>1 DEF Doing, ToolbarSaves
<1>4. dropped \/ p = agreed \/ (p = Unread /\ agreed = {})
  <2>1. ~PageSaves
    BY <1>1, OneSaves
  <2>2. IF session = NoSession THEN agreed = Rules(file) ELSE engine[session].params = agreed
    BY <1>3, <2>1 DEF Clean, Decided
  <2>3. Told
    BY <1>3, <2>1 DEF Clean, DiskInv
  <2> QED
    BY <2>2, <2>3 DEF Rules, Told, Asked, Saved
<1>5. p \in Params \cup {Unread} /\ Works(j)
  BY <1>2, AskedKinds
<1> HIDE DEF p
<1>6. j \in Jobs /\ j.op = "rescan" /\ j.step = "upload" /\ j.token = Job.token /\ j.params = p
  BY <1>1, <1>5, TheJob DEF Sound, TypeOK, Jobs, Steps
<1> HIDE DEF j
<1>7. UNCHANGED <<engine, next, session, qt, page, plan, file, tmp, writer, agreed, dropped, warned>>
  BY DEF TakePrevious, disk, told
<1>8. Job' = j /\ \A op, step : Doing(op, step)' <=> j.op = op /\ j.step = step
  BY <1>1, <1>5, <1>6, <1>7, WorksOn DEF Sound, StepsOf
<1>9. PlanAlone' /\ WaitsAlone' /\ ~PageSaves /\ ~PageSaves'
  BY <1>1, <1>5, <1>6, <1>7, TokensWork
<1>10. ~ToolbarSaves' /\ ~Doing("rescan", "swap")' /\ ~Doing("rescan", "delete")' /\ ~Doing("tolerance", "plan")'
  BY <1>6, <1>8 DEF ToolbarSaves
<1>11. DiskInv' /\ PageInv'
  BY <1>3, <1>7, <1>9, <1>10, DiskRest, PageRest DEF Clean
<1>12. Decided'
  <2>1. Rules(file)' = Rules(file)
    BY <1>7 DEF Rules
  <2> QED
    BY <1>3, <1>4, <1>6, <1>7, <1>8, <1>9, <1>10, <2>1 DEF Clean, Decided
<1> QED
  BY <1>9, <1>11, <1>12 DEF Clean

LEMMA CleanUpload == ASSUME Sound, Clean, Upload PROVE Clean'
<1> DEFINE j == [Job EXCEPT !.step = "swap", !.sid = next]
<1>1. /\ queue # <<>> /\ Job.op = "rescan" /\ Job.step = "upload" /\ Works(j)
      /\ \/ /\ Job.params \in Params /\ engine'[next].params = Job.params /\ ~dropped
            /\ agreed' = agreed /\ dropped' = FALSE
         \/ /\ Job.params = Unread /\ engine'[next].params = {} /\ ~dropped
            /\ agreed' = agreed /\ dropped' = FALSE
         \/ /\ agreed' = engine'[next].params /\ dropped' = TRUE
  BY Uploads
<1>2. next \in Nat
  BY DEF Sound, TypeOK
<1>3. j \in Jobs /\ j.op = "rescan" /\ j.step = "swap" /\ j.sid = next /\ j.token = Job.token
  BY <1>1, <1>2, TheJob DEF Sound, Jobs, Steps
<1> HIDE DEF j
<1>4. UNCHANGED <<session, qt, page, plan, file, tmp, writer, warned>>
  BY DEF Upload, disk
<1>5. Job' = j /\ \A op, step : Doing(op, step)' <=> j.op = op /\ j.step = step
  BY <1>1, <1>3, <1>4, WorksOn DEF Sound, StepsOf
<1>6. PlanAlone' /\ WaitsAlone' /\ ~PageSaves /\ ~PageSaves'
  BY <1>1, <1>3, <1>4, TokensWork
<1>7. ~ToolbarSaves /\ ~ToolbarSaves' /\ ~Doing("rescan", "delete")' /\ ~Doing("rescan", "upload")'
      /\ ~Doing("tolerance", "plan")' /\ Doing("rescan", "swap")' /\ Doing("rescan", "upload") /\ ~Doing("rescan", "delete")
  BY <1>1, <1>3, <1>5 DEF ToolbarSaves, Doing
<1>8. engine'[next].params = agreed'
  <2>1. dropped \/ Job.params = agreed \/ (Job.params = Unread /\ agreed = {})
    BY <1>7 DEF Clean, Decided
  <2>2. agreed # Unread
    BY Marks DEF Sound, TypeOK
  <2> QED
    BY <1>1, <2>1, <2>2, Marks
<1>9. Decided'
  BY <1>3, <1>5, <1>6, <1>7, <1>8 DEF Decided
<1>10. DiskInv'
  <2>1. file # Torn /\ tmp = Unread /\ Told
    BY <1>6, <1>7 DEF Clean, DiskInv
  <2>2. Told'
    BY <1>1, <1>4, <2>1 DEF Told, Rules
  <2> QED
    BY <1>4, <1>6, <1>7, <2>1, <2>2 DEF DiskInv
<1>11. PageInv'
  <2>1. LedTo(qt, page.at)' <=> LedTo(qt, page.at)
    BY <1>4 DEF LedTo, NoneAfter
  <2> QED
    BY <1>4, <1>7, <2>1 DEF Clean, PageInv, Changing
<1> QED
  BY <1>6, <1>9, <1>10, <1>11 DEF Clean

LEMMA CleanSwap == ASSUME Sound, Clean, Swap PROVE Clean'
<1> DEFINE j == [Job EXCEPT !.step = "delete", !.sid = session]
<1>1. queue # <<>> /\ Job.op = "rescan" /\ Job.step = "swap" /\ Works(j) /\ session' = Job.sid
  BY DEF Swap, Doing
<1>2. Job.sid # NoSession
  BY <1>1 DEF Sound, HoldsInv, TypeOK, Doing, NoSession
<1>3. j \in Jobs /\ j.op = "rescan" /\ j.step = "delete" /\ j.token = Job.token
  BY <1>1, TheJob DEF Sound, TypeOK, Jobs, Steps
<1> HIDE DEF j
<1>4. UNCHANGED <<engine, next, qt, page, plan, file, tmp, writer, agreed, dropped, warned>>
  BY DEF Swap, disk, told
<1>5. \A op, step : Doing(op, step)' <=> j.op = op /\ j.step = step
  BY <1>1, <1>2, <1>3, WorksOn DEF Sound, StepsOf
<1>6. PlanAlone' /\ WaitsAlone' /\ ~PageSaves /\ ~PageSaves'
  BY <1>1, <1>3, <1>4, TokensWork
<1>7. ~ToolbarSaves /\ ~ToolbarSaves' /\ ~Doing("rescan", "upload")' /\ ~Doing("rescan", "swap")'
      /\ ~Doing("tolerance", "plan")' /\ Doing("rescan", "delete")' /\ Doing("rescan", "swap")
  BY <1>1, <1>3, <1>5 DEF ToolbarSaves, Doing
<1>8. DiskInv'
  BY <1>4, <1>6, <1>7, DiskRest DEF Clean
<1>9. Decided'
  BY <1>1, <1>2, <1>4, <1>6, <1>7 DEF Clean, Decided
<1>10. PageInv'
  BY <1>4, <1>7 DEF Clean, PageInv, Changing
<1> QED
  BY <1>6, <1>8, <1>9, <1>10 DEF Clean

Results == [kind : {"open", "answer", "reload", "failed", "refused"}, sid : Nat, token : 0 .. MaxOps]

\* A result more: one that opens the session there is, or one that opens none.
LEMMA LedOpen ==
    ASSUME qt \in Seq(Results), NEW e \in Results, e.kind \in Opens, e.sid = session, qt' = Append(qt, e),
           session' = session, page' = page
    PROVE  LedTo(qt, page.at)'
<1>1. /\ Len(qt') = Len(qt) + 1 /\ qt'[Len(qt) + 1] = e /\ Len(qt) \in Nat
      /\ \A i \in 1 .. Len(qt) : qt'[i] = qt[i]
  BY Appended, Heads
<1>2. \A i \in 0 .. Len(qt) : ~NoneAfter(qt', i)
  <2> SUFFICES ASSUME NEW i \in 0 .. Len(qt) PROVE ~NoneAfter(qt', i)
    OBVIOUS
  <2>1. Len(qt) + 1 \in 1 .. Len(qt') /\ Len(qt) + 1 > i
    BY <1>1
  <2> QED
    BY <1>1, <2>1 DEF NoneAfter
<1>3. 0 \in 0 .. Len(qt) /\ \A i \in 1 .. Len(qt') : i \in 0 .. Len(qt) \/ i = Len(qt) + 1
  BY <1>1
<1>4. \A i \in 1 .. Len(qt') : NoneAfter(qt', i) => qt'[i].sid = session
  BY <1>1, <1>2, <1>3
<1> QED
  BY <1>2, <1>3, <1>4 DEF LedTo, NoneAfter

LEMMA LedSame ==
    ASSUME qt \in Seq(Results), NEW e \in Results, e.kind \notin Opens, qt' = Append(qt, e),
           session' = session, page' = page, LedTo(qt, page.at)
    PROVE  LedTo(qt, page.at)'
<1>1. /\ Len(qt') = Len(qt) + 1 /\ qt'[Len(qt) + 1] = e /\ Len(qt) \in Nat
      /\ \A i \in 1 .. Len(qt) : qt'[i] = qt[i]
  BY Appended, Heads
<1>2. \A i \in 0 .. Len(qt) : NoneAfter(qt', i) => NoneAfter(qt, i)
  <2> SUFFICES ASSUME NEW i \in 0 .. Len(qt), NoneAfter(qt', i), NEW k \in 1 .. Len(qt), k > i
               PROVE  qt[k].kind \notin Opens
    BY DEF NoneAfter
  <2>1. k \in 1 .. Len(qt') /\ qt'[k] = qt[k]
    BY <1>1
  <2> QED
    BY <2>1 DEF NoneAfter
<1>3. \A i \in 1 .. Len(qt') : i \in 1 .. Len(qt) \/ i = Len(qt) + 1
  BY <1>1
<1>4. 0 \in 0 .. Len(qt) /\ \A i \in 1 .. Len(qt) : i \in 0 .. Len(qt)
  BY <1>1
<1>5. \A i \in 1 .. Len(qt') : qt'[i].kind \in Opens /\ NoneAfter(qt', i) => qt'[i].sid = session
  <2> SUFFICES ASSUME NEW i \in 1 .. Len(qt'), qt'[i].kind \in Opens, NoneAfter(qt', i)
               PROVE  qt'[i].sid = session
    OBVIOUS
  <2>1. i \in 1 .. Len(qt)
    BY <1>1, <1>3
  <2>2. qt'[i] = qt[i] /\ NoneAfter(qt, i)
    BY <1>1, <1>2, <1>4, <2>1
  <2> QED
    BY <2>1, <2>2 DEF LedTo
<1>6. NoneAfter(qt', 0) => page.at \in {session, NoSession}
  BY <1>2, <1>4 DEF LedTo
<1> QED
  BY <1>5, <1>6 DEF LedTo, NoneAfter

\* The first result delivered: all that follow it lead where it led.
LEMMA LedOn ==
    ASSUME qt \in Seq(Results), qt # <<>>, LedTo(qt, page.at), qt' = Tail(qt), session' = session,
           page'.at = IF Head(qt).kind \in Opens THEN Head(qt).sid ELSE page.at
    PROVE  LedTo(qt, page.at)'
<1>1. /\ Len(qt') = Len(qt) - 1 /\ Len(qt) \in Nat /\ Head(qt) = qt[1] /\ 1 \in 1 .. Len(qt)
      /\ \A i \in 1 .. Len(qt') : qt'[i] = qt[i + 1] /\ i + 1 \in 2 .. Len(qt)
  BY Dropped, Heads
<1>2. \A i \in 0 .. Len(qt') : NoneAfter(qt', i) => NoneAfter(qt, i + 1)
  <2> SUFFICES ASSUME NEW i \in 0 .. Len(qt'), NoneAfter(qt', i), NEW k \in 1 .. Len(qt), k > i + 1
               PROVE  qt[k].kind \notin Opens
    BY DEF NoneAfter
  <2>1. k - 1 \in 1 .. Len(qt') /\ k - 1 > i /\ (k - 1) + 1 = k
    BY <1>1
  <2> QED
    BY <1>1, <2>1 DEF NoneAfter
<1>3. 0 \in 0 .. Len(qt') /\ \A i \in 1 .. Len(qt') : i \in 0 .. Len(qt') /\ i + 1 \in 1 .. Len(qt)
  BY <1>1
<1>4. \A i \in 1 .. Len(qt') : qt'[i].kind \in Opens /\ NoneAfter(qt', i) => qt'[i].sid = session
  BY <1>1, <1>2, <1>3 DEF LedTo
<1>5. NoneAfter(qt', 0) => page'.at \in {session, NoSession}
  <2> SUFFICES ASSUME NoneAfter(qt', 0) PROVE page'.at \in {session, NoSession}
    OBVIOUS
  <2>1. NoneAfter(qt, 1)
    BY <1>2, <1>3
  <2>2. CASE Head(qt).kind \notin Opens
    <3>1. NoneAfter(qt, 0)
      <4> SUFFICES ASSUME NEW k \in 1 .. Len(qt) PROVE qt[k].kind \notin Opens
        BY DEF NoneAfter
      <4>1. k = 1 \/ k > 1
        OBVIOUS
      <4> QED
        BY <1>1, <2>1, <2>2, <4>1 DEF NoneAfter
    <3> QED
      BY <2>2, <3>1 DEF LedTo
  <2>3. CASE Head(qt).kind \in Opens
    BY <1>1, <2>1, <2>3 DEF LedTo
  <2> QED
    BY <2>2, <2>3
<1> QED
  BY <1>4, <1>5 DEF LedTo, NoneAfter

\* What the last result does to the page.
LEMMA LastLeaves ==
    ASSUME qt \in Seq(Results), NEW e \in Results, qt' = Append(qt, e)
    PROVE  Untouched(qt') <=> Untouched(qt) /\ e.kind \in Leaves
<1>1. /\ Len(qt') = Len(qt) + 1 /\ qt'[Len(qt) + 1] = e /\ Len(qt) \in Nat
      /\ \A i \in 1 .. Len(qt) : qt'[i] = qt[i]
  BY Appended, Heads
<1>2. \A i : i \in 1 .. Len(qt') <=> i \in 1 .. Len(qt) \/ i = Len(qt) + 1
  BY <1>1
<1> QED
  BY <1>1, <1>2 DEF Untouched

LEMMA CleanDeleteOld == ASSUME Sound, Clean, DeleteOld PROVE Clean'
<1> DEFINE e == [kind |-> IF Job.token = 0 THEN "open" ELSE "answer", sid |-> session, token |-> Job.token]
<1>1. /\ queue # <<>> /\ Job.op = "rescan" /\ Job.step = "delete" /\ Doing("rescan", "delete")
      /\ qt' = Append(qt, e) /\ queue' = Tail(queue)
  BY DEF DeleteOld, Doing
<1>2. e \in Results /\ e.sid = session /\ e.token = Job.token /\ e.kind = (IF Job.token = 0 THEN "open" ELSE "answer")
      /\ e.kind \in Opens /\ e.kind \notin Leaves
  BY <1>1, TheJob DEF Sound, TypeOK, Jobs, Results, Opens, Leaves
<1> HIDE DEF e
<1>3. qt \in Seq(Results)
  BY DEF Sound, TypeOK, Results
<1>4. UNCHANGED <<next, session, page, plan, file, tmp, writer, agreed, dropped, warned>>
  BY DEF DeleteOld, disk, told
<1>5. session # NoSession /\ session \in DOMAIN engine /\ engine'[session] = engine[session]
  BY <1>1 DEF DeleteOld, Sound, HoldsInv, EngineInv
<1>6. /\ Len(queue') = Len(queue) - 1
      /\ \A i \in 1 .. Len(queue') : queue'[i] = queue[i + 1] /\ i + 1 \in 2 .. Len(queue)
      /\ \A op, step : step \notin Waiting => ~Doing(op, step)'
  BY <1>1, <1>4, Drops DEF Sound
<1>7. plan = Idle /\ ~PageSaves /\ ~PageSaves'
  BY <1>1, <1>4, OneSaves DEF PageSaves
<1>8. ~ToolbarSaves /\ ~Doing("rescan", "swap") /\ ~Doing("rescan", "upload")
  BY <1>1 DEF ToolbarSaves, Doing
<1>9. ~ToolbarSaves' /\ ~Doing("rescan", "swap")' /\ ~Doing("rescan", "upload")' /\ ~Doing("tolerance", "plan")'
  BY <1>6 DEF ToolbarSaves, Waiting
<1>10. DiskInv'
  BY <1>4, <1>7, <1>8, <1>9, DiskRest DEF Clean
<1>11. Decided'
  BY <1>4, <1>5, <1>7, <1>8, <1>9 DEF Clean, Decided
<1>12. PageInv'
  <2>1. LedTo(qt, page.at)'
    BY <1>1, <1>2, <1>3, <1>4, LedOpen
  <2>2. ~Untouched(qt')
    BY <1>1, <1>2, <1>3, LastLeaves
  <2> QED
    BY <1>4, <2>1, <2>2 DEF Clean, PageInv
<1>13. WaitsAlone'
  <2>1. Job = queue[1] /\ 1 \in 1 .. Len(queue) /\ Len(queue) \in Nat /\ Len(qt) \in Nat
    BY <1>1, <1>3, TheJob, Heads DEF Sound
  <2>2. Len(qt') = Len(qt) + 1 /\ qt'[Len(qt) + 1] = e /\ \A i \in 1 .. Len(qt) : qt'[i] = qt[i]
    BY <1>1, <1>2, <1>3, Appended
  <2>3. CASE page.waits = 0
    <3>1. /\ \A i \in 1 .. Len(queue) : queue[i].token = 0
          /\ \A i \in 1 .. Len(qt) : qt[i].kind \in {"open", "reload", "failed"}
      BY <2>3 DEF Clean, WaitsAlone
    <3>2. e.kind = "open"
      BY <1>2, <2>1, <3>1
    <3>3. \A i \in 1 .. Len(queue') : queue'[i].token = 0
      BY <1>6, <2>1, <3>1
    <3>4. \A i \in 1 .. Len(qt') : qt'[i].kind \in {"open", "reload", "failed"}
      <4>1. \A i \in 1 .. Len(qt') : i \in 1 .. Len(qt) \/ i = Len(qt) + 1
        BY <2>1, <2>2
      <4> QED
        BY <2>2, <3>1, <3>2, <4>1
    <3> QED
      BY <1>4, <2>3, <3>3, <3>4 DEF WaitsAlone
  <2>4. CASE page.waits # 0
    <3>1. Len(queue) = 1 /\ queue[1].token = page.waits /\ qt = <<>> /\ warned = 0
      BY <1>1, <2>4 DEF Clean, WaitsAlone
    <3>2. queue' = <<>>
      BY <1>1, <3>1 DEF Sound, TypeOK
    <3>3. Len(qt') = 1 /\ qt'[1] = e
      BY <2>2, <3>1
    <3>4. e.kind = "answer" /\ e.token = page.waits
      BY <1>2, <2>1, <2>4, <3>1
    <3> QED
      BY <1>4, <2>4, <3>1, <3>2, <3>3, <3>4 DEF WaitsAlone
  <2> QED
    BY <2>3, <2>4
<1>14. PlanAlone'
  BY <1>4, <1>7 DEF PlanAlone
<1> QED
  BY <1>10, <1>11, <1>12, <1>13, <1>14 DEF Clean

\* A rescan that is given up leaves the session, and the page on it.
LEMMA CleanRescanFails == ASSUME Sound, Clean, RescanFails PROVE Clean'
<1> DEFINE e == [kind |-> IF Job.token = 0 THEN "failed" ELSE "refused", sid |-> NoSession, token |-> Job.token]
<1>1. /\ queue # <<>> /\ Job.op = "rescan" /\ Job.step \in {"read", "upload"}
      /\ qt' = Append(qt, e) /\ queue' = Tail(queue)
  BY DEF RescanFails, Doing
<1>2. /\ e \in Results /\ e.token = Job.token /\ e.kind = (IF Job.token = 0 THEN "failed" ELSE "refused")
      /\ e.kind \notin Opens
  BY <1>1, TheJob DEF Sound, Jobs, Results, NoSession, Opens
<1> HIDE DEF e
<1>3. qt \in Seq(Results)
  BY DEF Sound, TypeOK, Results
<1>4. UNCHANGED <<engine, next, session, page, plan, file, tmp, writer, agreed, dropped, warned>>
  BY DEF RescanFails, disk, told
<1>5. /\ Len(queue') = Len(queue) - 1
      /\ \A i \in 1 .. Len(queue') : queue'[i] = queue[i + 1] /\ i + 1 \in 2 .. Len(queue)
      /\ \A op, step : step \notin Waiting => ~Doing(op, step)'
  BY <1>1, <1>4, Drops DEF Sound
<1>6. plan = Idle /\ ~PageSaves /\ ~PageSaves'
  BY <1>1, <1>4, OneSaves DEF PageSaves
<1>7. ~ToolbarSaves /\ ~Doing("rescan", "swap") /\ ~Doing("rescan", "delete")
  BY <1>1 DEF ToolbarSaves, Doing
<1>8. ~ToolbarSaves' /\ ~Doing("rescan", "swap")' /\ ~Doing("rescan", "upload")' /\ ~Doing("tolerance", "plan")'
  BY <1>5 DEF ToolbarSaves, Waiting
<1>9. DiskInv'
  BY <1>4, <1>6, <1>7, <1>8, DiskRest DEF Clean
<1>10. Decided'
  <2>1. Rules(file)' = Rules(file)
    BY <1>4 DEF Rules
  <2> QED
    BY <1>4, <1>6, <1>7, <1>8, <2>1 DEF Clean, Decided
<1>11. PageInv'
  <2>1. LedTo(qt, page.at)'
    BY <1>1, <1>2, <1>3, <1>4, <1>7, LedSame DEF Clean, PageInv
  <2>2. Untouched(qt') => Untouched(qt)
    BY <1>1, <1>2, <1>3, LastLeaves
  <2> QED
    BY <1>4, <1>7, <2>1, <2>2 DEF Clean, PageInv, Changing
<1>12. WaitsAlone'
  <2>1. Job = queue[1] /\ 1 \in 1 .. Len(queue) /\ Len(queue) \in Nat /\ Len(qt) \in Nat
    BY <1>1, <1>3, TheJob, Heads DEF Sound
  <2>2. Len(qt') = Len(qt) + 1 /\ qt'[Len(qt) + 1] = e /\ \A i \in 1 .. Len(qt) : qt'[i] = qt[i]
    BY <1>1, <1>2, <1>3, Appended
  <2>3. CASE page.waits = 0
    <3>1. /\ \A i \in 1 .. Len(queue) : queue[i].token = 0
          /\ \A i \in 1 .. Len(qt) : qt[i].kind \in {"open", "reload", "failed"}
      BY <2>3 DEF Clean, WaitsAlone
    <3>2. e.kind = "failed"
      BY <1>2, <2>1, <3>1
    <3>3. \A i \in 1 .. Len(queue') : queue'[i].token = 0
      BY <1>5, <2>1, <3>1
    <3>4. \A i \in 1 .. Len(qt') : qt'[i].kind \in {"open", "reload", "failed"}
      <4>1. \A i \in 1 .. Len(qt') : i \in 1 .. Len(qt) \/ i = Len(qt) + 1
        BY <2>1, <2>2
      <4> QED
        BY <2>2, <3>1, <3>2, <4>1
    <3> QED
      BY <1>4, <2>3, <3>3, <3>4 DEF WaitsAlone
  <2>4. CASE page.waits # 0
    <3>1. Len(queue) = 1 /\ queue[1].token = page.waits /\ qt = <<>> /\ warned = 0
      BY <1>1, <2>4 DEF Clean, WaitsAlone
    <3>2. queue' = <<>>
      BY <1>1, <3>1 DEF Sound, TypeOK
    <3>3. Len(qt') = 1 /\ qt'[1] = e
      BY <2>2, <3>1
    <3>4. e.kind = "refused" /\ e.token = page.waits
      BY <1>2, <2>1, <2>4, <3>1
    <3> QED
      BY <1>4, <2>4, <3>1, <3>2, <3>3, <3>4 DEF WaitsAlone
  <2> QED
    BY <2>3, <2>4
<1>13. PlanAlone'
  BY <1>4, <1>6 DEF PlanAlone
<1> QED
  BY <1>9, <1>10, <1>11, <1>12, <1>13 DEF Clean

\* The page waits for no rescan while a tolerance is being set.
LEMMA NoWaits ==
    ASSUME Sound, Clean, queue # <<>>, Job.op = "tolerance"
    PROVE  page.waits = 0
  BY TheJob DEF Sound, Clean, WaitsAlone

LEMMA TailTokens ==
    ASSUME Sound, Clean, queue # <<>>, Job.op = "tolerance", queue' = Tail(queue)
    PROVE  \A i \in 1 .. Len(queue') : queue'[i].token = 0
<1>1. \A i \in 1 .. Len(queue) : queue[i].token = 0
  BY NoWaits DEF Clean, WaitsAlone
<1>2. /\ Len(queue) \in Nat
      /\ \A i \in 1 .. Len(queue') : queue'[i] = queue[i + 1] /\ i + 1 \in 2 .. Len(queue)
  BY Dropped, Heads DEF Sound, TypeOK
<1> QED
  BY <1>1, <1>2

LEMMA CleanPlanTolerance == ASSUME Sound, Clean, PlanTolerance PROVE Clean'
<1>1. /\ queue # <<>> /\ Job.op = "tolerance" /\ Job.step = "plan" /\ Doing("tolerance", "plan")
      /\ session # NoSession /\ session \in DOMAIN engine /\ Job.params \in Params
  <2>1. queue # <<>> /\ Job.op = "tolerance" /\ Job.step = "plan"
    BY DEF PlanTolerance, Doing
  <2> QED
    BY <2>1, TheJob DEF Sound, HoldsInv, EngineInv, Doing
<1>2. ~ToolbarSaves /\ ~PageSaves /\ plan = Idle
      /\ ~Doing("rescan", "upload") /\ ~Doing("rescan", "swap") /\ ~Doing("rescan", "delete")
  BY <1>1, OneSaves DEF ToolbarSaves, Doing
<1> DEFINE j == [Job EXCEPT !.step = "save"]
<1>3. /\ engine' = [engine EXCEPT ![session].params = Job.params]
      /\ Save("kicad", Job.params) /\ Works(j)
      /\ UNCHANGED <<next, session, qt, page, plan, file, tmp, agreed, dropped, warned>>
  BY DEF PlanTolerance, told
<1>4. /\ j \in Jobs /\ j.op = "tolerance" /\ j.step = "save" /\ j.params = Job.params /\ j.token = Job.token
      /\ j.heard = Job.heard /\ j.on = Job.on
  BY <1>1, TheJob DEF Sound, Jobs, Steps
<1> HIDE DEF j
<1>5. Job' = j /\ \A op, step : Doing(op, step)' <=> j.op = op /\ j.step = step
  BY <1>1, <1>3, <1>4, WorksOn DEF Sound, StepsOf
<1>6. writer'["kicad"] = [step |-> "open", at |-> "tmp", params |-> Job.params]
  BY <1>1, <1>3, Begins DEF Threads, Sound
<1>7. engine'[session].params = Job.params
  BY <1>1, <1>3, AskedOf DEF Sound
<1>8. PlanAlone' /\ WaitsAlone' /\ ~PageSaves'
  BY <1>1, <1>3, <1>4, TokensWork
<1>9. ToolbarSaves' /\ ~Doing("rescan", "upload")' /\ ~Doing("rescan", "swap")' /\ ~Doing("rescan", "delete")'
  BY <1>4, <1>5 DEF ToolbarSaves
<1>10. DiskInv'
  <2>1. file # Torn /\ tmp = Unread /\ Told
    BY <1>2 DEF Clean, DiskInv
  <2>2. Told'
    BY <1>3, <2>1 DEF Told, Rules
  <2>3. SavedBy("kicad", Job.params)'
    BY <1>3, <1>4, <1>5, <1>6, <2>1, <2>2 DEF SavedBy
  <2> QED
    BY <1>3, <1>8, <1>9, <2>1, <2>3 DEF DiskInv
<1>11. Decided'
  <2>1. Job.heard => Job.params = Tolerated(agreed, Job.on)
    BY <1>1 DEF Clean, Decided
  <2> QED
    BY <1>3, <1>4, <1>5, <1>7, <1>8, <1>9, <2>1 DEF Decided
<1>12. PageInv'
  <2>1. LedTo(qt, page.at)' <=> LedTo(qt, page.at)
    BY <1>3 DEF LedTo, NoneAfter
  <2> QED
    BY <1>2, <1>3, <1>9, <2>1 DEF Clean, PageInv, Changing
<1> QED
  BY <1>8, <1>10, <1>11, <1>12 DEF Clean

LEMMA CleanToleranceFails == ASSUME Sound, Clean, ToleranceFails PROVE Clean'
<1>1. queue # <<>> /\ Job.op = "tolerance" /\ Job.step = "plan"
  BY DEF ToleranceFails, Doing
<1>2. ~ToolbarSaves /\ ~PageSaves /\ plan = Idle
      /\ ~Doing("rescan", "upload") /\ ~Doing("rescan", "swap") /\ ~Doing("rescan", "delete")
  BY <1>1, OneSaves DEF ToolbarSaves, Doing
<1>3. queue' = Tail(queue) /\ UNCHANGED <<engine, next, session, qt, page, plan, file, tmp, writer, agreed, dropped, warned>>
  BY DEF ToleranceFails, disk, told
<1>4. \A op, step : step \notin Waiting => ~Doing(op, step)'
  BY <1>1, <1>3, Drops DEF Sound
<1>5. /\ ~ToolbarSaves' /\ ~PageSaves' /\ ~Doing("tolerance", "plan")'
      /\ \A step \in {"upload", "swap", "delete"} : ~Doing("rescan", step)'
  BY <1>2, <1>3, <1>4 DEF Waiting, ToolbarSaves, PageSaves
<1>6. \A step \in {"upload", "swap", "delete"} : ~Doing("rescan", step)
  BY <1>2
<1>7. DiskInv' /\ PageInv'
  BY <1>2, <1>3, <1>5, <1>6, DiskRest, PageRest DEF Clean
<1>8. Decided'
  <2>1. Rules(file)' = Rules(file)
    BY <1>3 DEF Rules
  <2> QED
    BY <1>2, <1>3, <1>5, <2>1 DEF Clean, Decided
<1>9. WaitsAlone'
  BY <1>1, <1>3, NoWaits, TailTokens DEF Clean, WaitsAlone
<1> QED
  BY <1>2, <1>3, <1>7, <1>8, <1>9 DEF Clean, PlanAlone

LEMMA CleanToleranceSet == ASSUME Sound, Clean, ToleranceSet PROVE Clean'
<1> DEFINE e == [kind |-> "reload", sid |-> NoSession, token |-> 0]
<1>1. /\ queue # <<>> /\ Job.op = "tolerance" /\ Job.step = "save" /\ ToolbarSaves
      /\ writer["kicad"].step = "saved" /\ agreed' = IF Job.heard THEN Tolerated(agreed, Job.on) ELSE Job.params
      /\ queue' = Tail(queue) /\ qt' = Append(qt, e)
      /\ UNCHANGED <<engine, next, session, page, plan, file, tmp, dropped, warned, user>>
  BY DEF ToleranceSet, Doing, ToolbarSaves
<1>2. session # NoSession /\ Job.params \in Params
  BY <1>1, TheJob DEF Sound, HoldsInv, ToolbarSaves
<1>3. e \in Results /\ e.kind = "reload" /\ e.kind \notin Opens \cup Leaves /\ qt \in Seq(Results)
  BY Zero DEF Sound, TypeOK, Results, NoSession, Opens, Leaves
<1> HIDE DEF e
<1>4. \A op, step : step \notin Waiting => ~Doing(op, step)'
  BY <1>1, Drops DEF Sound
<1>5. plan = Idle /\ ~PageSaves /\ ~PageSaves' /\ ~Doing("rescan", "swap") /\ ~Doing("rescan", "delete")
  BY <1>1, OneSaves DEF PageSaves, Doing
<1>6. ~ToolbarSaves' /\ ~Doing("rescan", "swap")' /\ ~Doing("rescan", "upload")' /\ ~Doing("rescan", "delete")'
      /\ ~Doing("tolerance", "plan")'
  BY <1>4 DEF ToolbarSaves, Waiting
<1>7. agreed' = Job.params /\ file = Job.params /\ tmp = Unread /\ ~dropped /\ file # Torn
  BY <1>1 DEF Clean, Decided, DiskInv, SavedBy
<1>8. DiskInv'
  BY <1>1, <1>2, <1>5, <1>6, <1>7, Marks DEF DiskInv, Told, Rules
<1>9. Decided'
  BY <1>1, <1>2, <1>5, <1>6, <1>7 DEF Clean, Decided
<1>10. PageInv'
  <2>1. LedTo(qt, page.at)'
    BY <1>1, <1>3, <1>5, LedSame DEF Clean, PageInv
  <2>2. ~Untouched(qt')
    BY <1>1, <1>3, LastLeaves
  <2> QED
    BY <1>1, <2>1, <2>2 DEF Clean, PageInv
<1>11. WaitsAlone'
  <2>1. page.waits = 0 /\ \A i \in 1 .. Len(queue') : queue'[i].token = 0
    BY <1>1, NoWaits, TailTokens
  <2>2. /\ Len(qt) \in Nat /\ Len(qt') = Len(qt) + 1 /\ qt'[Len(qt) + 1] = e
        /\ \A i \in 1 .. Len(qt) : qt'[i] = qt[i]
    BY <1>1, <1>3, Appended, Heads
  <2>3. \A i \in 1 .. Len(qt) : qt[i].kind \in {"open", "reload", "failed"}
    BY <2>1 DEF Clean, WaitsAlone
  <2>4. \A i \in 1 .. Len(qt') : i \in 1 .. Len(qt) \/ i = Len(qt) + 1
    BY <2>2
  <2>5. \A i \in 1 .. Len(qt') : qt'[i].kind \in {"open", "reload", "failed"}
    BY <1>3, <2>2, <2>3, <2>4
  <2> QED
    BY <1>1, <2>1, <2>5 DEF WaitsAlone
<1>12. PlanAlone'
  BY <1>1, <1>5 DEF PlanAlone
<1> QED
  BY <1>8, <1>9, <1>10, <1>11, <1>12 DEF Clean

LEMMA CleanAnswerPlan == ASSUME Sound, Clean, AnswerPlan PROVE Clean'
<1>1. plan \in Plans /\ plan.step = "sent" /\ plan # Idle /\ plan.params \in Params
  BY PlanKinds DEF AnswerPlan, Sound, Idle, Plans
<1>2. UNCHANGED <<next, session, queue, qt, page, file, tmp, agreed, dropped, warned>> /\ (Accepts \/ Refuses)
  BY DEF AnswerPlan, Accepts, Refuses, told
<1>3. /\ queue = <<>> /\ qt = <<>> /\ page.waits = 0 /\ warned = 0
      /\ plan.live /\ plan.sid = session /\ session # NoSession
      /\ page.at = session /\ page.shows = agreed
  BY <1>1 DEF Clean, PlanAlone
<1>4. ~ToolbarSaves /\ ~ToolbarSaves' /\ ~PageSaves /\ \A op, step : ~Doing(op, step) /\ ~Doing(op, step)'
  BY <1>1, <1>2, <1>3 DEF ToolbarSaves, PageSaves, Doing
<1>5. WaitsAlone'
  BY <1>2 DEF Clean, WaitsAlone
<1>6. CASE Accepts
  <2>1. plan' \in Plans /\ plan'.step = "saving" /\ plan'.live = plan.live /\ plan'.sid = plan.sid /\ plan'.params = plan.params
    BY <1>1, <1>6 DEF Plans, Accepts
  <2>2. writer'["reader"] = [step |-> "open", at |-> "tmp", params |-> plan.params]
    BY <1>1, <1>6, Begins DEF Threads, Sound, Accepts
  <2>3. engine'[session].params = plan.params
    BY <1>1, <1>3, <1>6, AskedOf DEF Sound, Accepts
  <2>4. PageSaves'
    BY <2>1 DEF PageSaves
  <2>5. DiskInv'
    <3>1. file # Torn /\ tmp = Unread /\ Told
      BY <1>4 DEF Clean, DiskInv
    <3>2. Told'
      BY <1>2, <3>1 DEF Told, Rules
    <3>3. SavedBy("reader", plan.params)'
      BY <1>2, <2>1, <2>2, <3>1, <3>2 DEF SavedBy
    <3> QED
      BY <1>2, <1>4, <2>4, <3>1, <3>3 DEF DiskInv
  <2>6. Decided'
    BY <1>2, <1>4, <2>1, <2>3, <2>4 DEF Decided
  <2>7. PageInv'
    BY <1>2, <1>4, PageRest DEF Clean
  <2>8. PlanAlone'
    BY <1>2, <1>3, <2>1 DEF PlanAlone
  <2> QED
    BY <1>5, <2>5, <2>6, <2>7, <2>8 DEF Clean
<1>7. CASE Refuses
  <2>1. plan' = Idle /\ UNCHANGED <<engine, writer>>
    BY <1>7 DEF Refuses
  <2>2. ~PageSaves'
    BY <2>1 DEF PageSaves, Idle
  <2>3. DiskInv' /\ Decided' /\ PageInv'
    BY <1>2, <1>4, <2>1, <2>2, DiskRest, DecidedRest, PageRest DEF Clean
  <2> QED
    BY <1>5, <2>1, <2>3 DEF Clean, PlanAlone
<1> QED
  BY <1>2, <1>6, <1>7

LEMMA CleanPlanAnswered == ASSUME Sound, Clean, PlanAnswered PROVE Clean'
<1>1. plan \in Plans /\ PageSaves /\ plan # Idle /\ plan.params \in Params /\ writer["reader"].step = "saved"
  BY PlanKinds DEF PlanAnswered, Sound, Plans, PageSaves, Idle
<1>2. /\ UNCHANGED <<engine, next, session, queue, qt, file, tmp, dropped, warned>>
      /\ plan' = Idle
  BY DEF PlanAnswered
<1>3. /\ queue = <<>> /\ qt = <<>> /\ page.waits = 0 /\ warned = 0
      /\ plan.live /\ plan.sid = session /\ session # NoSession
      /\ page.at = session /\ page.shows = agreed
  BY <1>1 DEF Clean, PlanAlone
<1>4. agreed' = plan.params /\ page'.shows = plan.params /\ page'.at = page.at /\ page'.waits = page.waits
  BY <1>3 DEF PlanAnswered, Sound, TypeOK
<1>5. ~PageSaves' /\ ~ToolbarSaves' /\ \A op, step : ~Doing(op, step)'
  BY <1>2, <1>3 DEF PageSaves, Idle, ToolbarSaves, Doing
<1>6. file = plan.params /\ tmp = Unread /\ ~dropped /\ file # Torn
  BY <1>1 DEF Clean, DiskInv, SavedBy
<1>7. engine[session].params = plan.params
  BY <1>1 DEF Clean, Decided
<1>8. DiskInv'
  BY <1>1, <1>2, <1>4, <1>5, <1>6, Marks DEF DiskInv, Told, Rules
<1>9. Decided'
  BY <1>2, <1>3, <1>4, <1>5, <1>7 DEF Decided
<1>10. PageInv'
  <2>1. LedTo(qt, page.at)'
    BY <1>2, <1>3, <1>4 DEF LedTo, NoneAfter
  <2> QED
    BY <1>3, <1>4, <2>1 DEF PageInv
<1>11. PlanAlone' /\ WaitsAlone'
  BY <1>2, <1>3, <1>4 DEF PlanAlone, WaitsAlone
<1> QED
  BY <1>8, <1>9, <1>10, <1>11 DEF Clean

LEMMA CleanDeliver == ASSUME Sound, Clean, Deliver PROVE Clean'
<1> DEFINE e == Head(qt)
<1>1. qt # <<>> /\ qt' = Tail(qt) /\ UNCHANGED <<engine, next, session, queue, file, tmp, writer, agreed, dropped>>
  BY DEF Deliver, disk
<1>2. qt \in Seq(Results) /\ e = qt[1] /\ 1 \in 1 .. Len(qt) /\ e \in Results
  BY <1>1, Heads DEF Sound, TypeOK, Results
<1>3. plan = Idle
  BY <1>1 DEF Clean, PlanAlone
<1>4. /\ e.kind \in {"answer", "refused"} => page.waits = e.token /\ queue = <<>> /\ Len(qt) = 1
      /\ e.kind \in {"open", "reload", "failed"} => page.waits = 0
  BY <1>1, <1>2 DEF Clean, WaitsAlone
<1>5. /\ \/ e.kind \in Opens /\ OpenPage(e.sid)
         \/ e.kind = "reload" /\ OpenPage(page.at)
         \/ e.kind = "refused" /\ page' = [page EXCEPT !.waits = 0] /\ UNCHANGED plan
         \/ e.kind = "failed" /\ UNCHANGED <<page, plan>>
      /\ e.kind \in Opens \cup Leaves \cup {"reload"}
  BY <1>2, <1>4 DEF Deliver, Opens, Leaves, Results
<1> HIDE DEF e
<1>6. /\ page'.at = (IF e.kind \in Opens THEN e.sid ELSE page.at) /\ page'.waits = 0 /\ plan' = Idle
      /\ page'.shows = IF e.kind \in Leaves THEN page.shows ELSE IF page'.at = NoSession THEN NoBoard ELSE Unread
  <2>1. CASE e.kind \in Opens /\ OpenPage(e.sid)
    BY <1>3, <2>1 DEF OpenPage, Opened, Opens, Leaves
  <2>2. CASE e.kind = "reload" /\ OpenPage(page.at)
    BY <1>3, <2>2 DEF OpenPage, Opened, Opens, Leaves
  <2>3. CASE e.kind = "refused" /\ page' = [page EXCEPT !.waits = 0] /\ UNCHANGED plan
    BY <1>3, <2>3 DEF Opens, Leaves, Sound, TypeOK
  <2>4. CASE e.kind = "failed" /\ UNCHANGED <<page, plan>>
    BY <1>3, <1>4, <2>4 DEF Opens, Leaves
  <2> QED
    BY <1>5, <2>1, <2>2, <2>3, <2>4
<1>7. Job' = Job /\ (ToolbarSaves' <=> ToolbarSaves) /\ \A op, step : Doing(op, step)' <=> Doing(op, step)
  BY <1>1, NoJobSame
<1>8. ~PageSaves /\ ~PageSaves'
  BY <1>3, <1>6 DEF PageSaves, Idle
<1>9. DiskInv' /\ Decided'
  BY <1>1, <1>7, <1>8, DiskRest, DecidedRest DEF Clean
<1>10. /\ Len(qt') = Len(qt) - 1 /\ Len(qt) \in Nat
       /\ \A i \in 1 .. Len(qt') : qt'[i] = qt[i + 1] /\ i + 1 \in 1 .. Len(qt)
  <2>1. /\ Len(qt') = Len(qt) - 1 /\ Len(qt) \in Nat
        /\ \A i \in 1 .. Len(qt') : qt'[i] = qt[i + 1] /\ i + 1 \in 2 .. Len(qt)
    BY <1>1, <1>2, Dropped, Heads
  <2> QED
    BY <2>1
<1>11. PageInv'
  <2>1. ~Doing("rescan", "delete") => LedTo(qt, page.at)'
    BY <1>1, <1>2, <1>6, LedOn DEF Clean, PageInv, e
  <2>2. page'.at = NoSession => page'.shows \in {Unread, NoBoard}
    BY <1>5, <1>6 DEF Clean, PageInv, Opens, Leaves
  <2>3. ASSUME Untouched(qt'), ~Changing, e.kind \in Leaves PROVE page.shows \in {Unread, NoBoard, agreed}
    <3>1. ASSUME NEW i \in 1 .. Len(qt) PROVE qt[i].kind \in Leaves
      <4>1. CASE i = 1
        BY <1>2, <2>3, <4>1
      <4>2. CASE i # 1
        <5>1. i - 1 \in 1 .. Len(qt') /\ (i - 1) + 1 = i
          BY <1>10, <4>2
        <5> QED
          BY <1>10, <2>3, <5>1 DEF Untouched
      <4> QED
        BY <4>1, <4>2
    <3> QED
      BY <2>3, <3>1 DEF Clean, PageInv, Untouched
  <2>4. Changing' <=> Changing
    BY <1>7 DEF Changing
  <2> QED
    BY <1>1, <1>6, <1>7, <2>1, <2>2, <2>3, <2>4 DEF PageInv
<1>12. WaitsAlone'
  <2>1. CASE page.waits = 0
    <3>1. /\ \A i \in 1 .. Len(queue) : queue[i].token = 0
          /\ \A i \in 1 .. Len(qt) : qt[i].kind \in {"open", "reload", "failed"}
      BY <2>1 DEF Clean, WaitsAlone
    <3>2. \A i \in 1 .. Len(qt') : qt'[i].kind \in {"open", "reload", "failed"}
      BY <1>10, <3>1
    <3> QED
      BY <1>1, <1>6, <3>1, <3>2 DEF WaitsAlone
  <2>2. CASE page.waits # 0
    <3>1. queue = <<>> /\ Len(qt) = 1
      BY <1>1, <2>2 DEF Clean, WaitsAlone
    <3>2. queue' = <<>> /\ Len(qt') = 0 /\ Len(queue') = 0
      BY <1>1, <1>10, <3>1
    <3> QED
      BY <1>6, <3>2 DEF WaitsAlone
  <2> QED
    BY <2>1, <2>2
<1> QED
  BY <1>6, <1>9, <1>11, <1>12 DEF Clean, PlanAlone

\* A warning that has been read leaves the page without a session.
LEMMA CleanDismiss == ASSUME Sound, Clean, Dismiss PROVE Clean'
<1>1. /\ warned > 0 /\ OpenPage(NoSession)
      /\ UNCHANGED <<engine, next, session, queue, qt, file, tmp, writer, agreed, dropped>>
  BY DEF Dismiss, disk
<1>2. plan = Idle /\ page.waits = 0
  BY <1>1 DEF Clean, PlanAlone, WaitsAlone
<1>3. page'.at = NoSession /\ page'.shows = NoBoard /\ page'.waits = 0 /\ plan' = Idle
  BY <1>1, <1>2 DEF OpenPage, Opened
<1>4. Job' = Job /\ (ToolbarSaves' <=> ToolbarSaves) /\ \A op, step : Doing(op, step)' <=> Doing(op, step)
  BY <1>1, NoJobSame
<1>5. ~PageSaves /\ ~PageSaves'
  BY <1>2, <1>3 DEF PageSaves, Idle
<1>6. DiskInv' /\ Decided'
  BY <1>1, <1>4, <1>5, DiskRest, DecidedRest DEF Clean
<1>7. PageInv'
  <2>1. ~Doing("rescan", "delete") => LedTo(qt, page.at)'
    BY <1>1, <1>3 DEF Clean, PageInv, LedTo, NoneAfter
  <2> QED
    BY <1>3, <1>4, <2>1 DEF PageInv
<1>8. WaitsAlone'
  BY <1>1, <1>2, <1>3 DEF Clean, WaitsAlone
<1> QED
  BY <1>3, <1>6, <1>7, <1>8 DEF Clean, PlanAlone

LEMMA CleanLoadPage == ASSUME Sound, Clean, LoadPage PROVE Clean'
<1>1. /\ page.at # NoSession /\ page.shows = Unread
      /\ UNCHANGED <<engine, next, session, queue, qt, plan, file, tmp, writer, agreed, dropped, warned>>
  BY DEF LoadPage, disk, told
<1>2. page'.at = page.at /\ page'.waits = page.waits
      /\ page'.shows \in {NoBoard, IF page.at \in DOMAIN engine THEN engine[page.at].params ELSE Gone}
  BY DEF LoadPage, Sound, TypeOK
<1>3. plan = Idle
  BY <1>1, Marks DEF Clean, PlanAlone, Sound, TypeOK
<1>4. Job' = Job /\ (ToolbarSaves' <=> ToolbarSaves) /\ \A op, step : Doing(op, step)' <=> Doing(op, step)
  BY <1>1, NoJobSame
<1>5. ~PageSaves /\ ~PageSaves'
  BY <1>1, <1>3 DEF PageSaves, Idle
<1>6. DiskInv' /\ Decided'
  BY <1>1, <1>4, <1>5, DiskRest, DecidedRest DEF Clean
<1>7. Untouched(qt) /\ ~Changing => page'.shows \in {NoBoard, agreed}
  <2> SUFFICES ASSUME Untouched(qt), ~Changing PROVE page'.shows \in {NoBoard, agreed}
    OBVIOUS
  <2>1. ~ToolbarSaves /\ ~Doing("rescan", "swap") /\ ~Doing("rescan", "delete")
    BY DEF Changing
  <2>2. NoneAfter(qt, 0)
    BY DEF NoneAfter, Untouched, Opens, Leaves
  <2>3. page.at = session /\ session # NoSession
    BY <1>1, <2>1, <2>2 DEF Clean, PageInv, LedTo
  <2>4. session \in DOMAIN engine
    BY <2>3 DEF Sound, EngineInv
  <2>5. engine[session].params = agreed
    BY <1>5, <2>1, <2>3 DEF Clean, Decided
  <2> QED
    BY <1>2, <2>3, <2>4, <2>5
<1>8. PageInv'
  <2>1. LedTo(qt, page.at)' <=> LedTo(qt, page.at)
    BY <1>1, <1>2 DEF LedTo, NoneAfter
  <2>2. Changing' <=> Changing
    BY <1>4 DEF Changing
  <2>3. Doing("rescan", "delete")' <=> Doing("rescan", "delete")
    BY <1>4
  <2> QED
    BY <1>1, <1>2, <1>7, <2>1, <2>2, <2>3 DEF Clean, PageInv
<1>9. PlanAlone' /\ WaitsAlone'
  BY <1>1, <1>2, <1>3 DEF Clean, PlanAlone, WaitsAlone
<1> QED
  BY <1>6, <1>8, <1>9 DEF Clean

\* The state a window starts in, and one that has been killed starts in again.
Fresh ==
    /\ session = NoSession /\ queue = <<Rescan(0)>> /\ qt = <<>> /\ page = NoPage /\ plan = Idle
    /\ tmp = Unread /\ agreed = Rules(file) /\ file # Torn

LEMMA FreshClean == Fresh => Clean
<1> SUFFICES ASSUME Fresh PROVE Clean
  OBVIOUS
<1> USE DEF Fresh
<1>1. Rescan(0).op = "rescan" /\ Rescan(0).step = "read" /\ Rescan(0).token = 0
  BY DEF Rescan
<1>2. Len(queue) = 1 /\ queue[1] = Rescan(0) /\ Job = Rescan(0) /\ Len(qt) = 0
  BY DEF Job
<1>3. page.at = NoSession /\ page.shows = Unread /\ page.waits = 0
  BY DEF NoPage
<1>4. ~PageSaves /\ ~ToolbarSaves /\ \A op : \A step \in {"upload", "swap", "delete", "plan"} : ~Doing(op, step)
  BY <1>1, <1>2 DEF PageSaves, ToolbarSaves, Doing, Idle
<1>5. DiskInv
  BY <1>4 DEF DiskInv, Told
<1>6. Decided
  BY <1>4 DEF Decided
<1>7. PageInv
  BY <1>2, <1>3 DEF PageInv, LedTo, NoneAfter
<1>8. PlanAlone /\ WaitsAlone
  BY <1>1, <1>2, <1>3 DEF PlanAlone, WaitsAlone
<1> QED
  BY <1>5, <1>6, <1>7, <1>8 DEF Clean

LEMMA CleanInit == ASSUME Init PROVE Clean
<1>1. Unread # Torn /\ Rules(Unread) = {}
  BY Marks
<1> QED
  BY <1>1, FreshClean DEF Init, Fresh, disk

LEMMA CleanRestart == ASSUME Sound, Clean, Restart PROVE Clean'
<1>1. file # Torn
  BY DEF Clean, DiskInv
<1>2. Fresh'
  BY <1>1 DEF Restart, Fresh, Rules
<1>3. (Fresh => Clean)'
  BY FreshClean, PTL
<1> QED
  BY <1>2, <1>3

\* Once a request of the page has crossed another operation it has.
LEMMA CrossedStays == ASSUME [Next]_vars, ~crossed' PROVE ~crossed
<1>1. CASE Users
  BY <1>1 DEF Users, ToolbarRescan, ToolbarTolerance, PageRescan, PagePlan, EditBoard, Dismiss, Starts, user
<1>2. CASE KiCadThread
  <2>1. KiCadThread => UNCHANGED user
    BY Zenon DEF KiCadThread, ReadBoard, TakePrevious, Upload, Swap, DeleteOld, RescanFails, AskParams, PlanTolerance,
       ToleranceSet, ToleranceFails
  <2> QED
    BY <1>2, <2>1 DEF user
<1>3. CASE Saving \/ AnswerPlan \/ PlanAnswered \/ Deliver \/ LoadPage
  BY <1>3 DEF Saving, OpenTmp, WriteTmp, Replace, AnswerPlan, PlanAnswered, Deliver, LoadPage, user
<1>4. CASE Restart
  BY <1>4 DEF Restart
<1>5. CASE UNCHANGED vars
  BY <1>5 DEF vars, user
<1> QED
  BY <1>1, <1>2, <1>3, <1>4, <1>5 DEF Next, Progress

LEMMA CleanEdit == ASSUME Clean, EditBoard PROVE Clean'
  BY CleanRest DEF EditBoard, disk, told

LEMMA CleanStep == ASSUME Sound, Clean, [Next]_vars, ~crossed' PROVE Clean'
<1>1. CASE Users
  BY <1>1, CleanToolbarRescan, CleanToolbarTolerance, CleanPageRescan, CleanPagePlan, CleanEdit,
     CleanDismiss DEF Users
<1>2. CASE KiCadThread
  BY <1>2, CleanReadBoard, CleanTakePrevious, CleanUpload, CleanSwap, CleanDeleteOld, CleanRescanFails,
     CleanAskParams, CleanPlanTolerance, CleanToleranceSet, CleanToleranceFails DEF KiCadThread
<1>3. CASE Saving \/ AnswerPlan \/ PlanAnswered \/ Deliver \/ LoadPage \/ Restart
  BY <1>3, CleanSaving, CleanAnswerPlan, CleanPlanAnswered, CleanDeliver, CleanLoadPage, CleanRestart
<1>4. CASE UNCHANGED vars
  BY <1>4, CleanRest DEF vars, disk, told
<1> QED
  BY <1>1, <1>2, <1>3, <1>4 DEF Next, Progress

LEMMA InvInit == Init => Inv
  BY SoundInit, CleanInit DEF Inv

LEMMA InvStep == Inv /\ [Next]_vars => Inv'
  BY SoundStep, CleanStep, CrossedStays DEF Inv

LEMMA InvAlways == Spec => []Inv
  BY InvInit, InvStep, PTL DEF Spec

\* What is on disk is, at every moment the plugin may end, what the user was told
\* or what he is being told (remember, save and load of the rules, whichever of the
\* two threads saves), unless a request of the page has crossed another operation.
THEOREM RulesKept == Spec => []RulesOnDisk
<1>1. Inv => RulesOnDisk
  <2> SUFFICES ASSUME Sound, Clean PROVE RulesOnDisk
    BY DEF Inv, RulesOnDisk
  <2>1. file # Torn
    BY DEF Clean, DiskInv
  <2>2. CASE PageSaves
    <3>1. SavedBy("reader", plan.params)
      BY <2>2 DEF Clean, DiskInv
    <3> QED
      BY <2>1, <2>2, <3>1 DEF RulesOnDisk, SavedBy, Told, PageSaves
  <2>3. CASE ToolbarSaves
    <3>1. SavedBy("kicad", Job.params)
      BY <2>3 DEF Clean, DiskInv
    <3> QED
      BY <2>1, <2>3, <3>1 DEF RulesOnDisk, SavedBy, Told, ToolbarSaves
  <2>4. CASE ~PageSaves /\ ~ToolbarSaves
    BY <2>1, <2>4 DEF RulesOnDisk, Clean, DiskInv, Told
  <2> QED
    BY <2>2, <2>3, <2>4
<1> QED
  BY <1>1, InvAlways, PTL

\* When all is quiet, the board's session is judged by the decisions the user was
\* told are in force, however often the board was read again or could not be (rescan
\* takes the old session's rules to the new one, or the saved ones when there is no
\* answer), and the page, if it shows decisions, is on that session and shows these.
THEOREM RescanKeeps == Spec => []DecisionsKept
<1>1. Inv => DecisionsKept
  <2> SUFFICES ASSUME Sound, Clean, Quiet
               PROVE  /\ session # NoSession => engine[session].params = agreed
                      /\ page.shows \notin {Unread, NoBoard} => page.at = session /\ page.shows = agreed
    BY DEF Inv, DecisionsKept
  <2>1. queue = <<>> /\ qt = <<>> /\ plan = Idle
    BY DEF Quiet
  <2>2. ~PageSaves /\ ~ToolbarSaves /\ ~Changing /\ ~Doing("rescan", "swap") /\ ~Doing("rescan", "delete")
    BY <2>1 DEF PageSaves, ToolbarSaves, Changing, Doing, Idle
  <2>3. NoneAfter(qt, 0) /\ Untouched(qt)
    BY <2>1 DEF NoneAfter, Untouched
  <2>4. page.shows \notin {Unread, NoBoard} => page.at = session /\ page.shows = agreed
    BY <2>2, <2>3 DEF Clean, PageInv, LedTo
  <2> QED
    BY <2>2, <2>4 DEF Clean, Decided
<1> QED
  BY <1>1, InvAlways, PTL

--------------------------------------------------------------------------------
(***************************************************************************)
(* SingleInstance, proved for any number of presses and any StaleS: types,  *)
(* that presses made one after another have one window between them, and   *)
(* that each of them is answered.                                          *)
(***************************************************************************)

TypeInv ==
    /\ SingleTypeOK
    /\ \A p \in Press : pc[p] \in {"judge", "unlink"} => tries[p] > 0

\* The gap after a second is the longest silence of any window so far.
LEMMA GapGrows ==
    ASSUME SingleTypeOK, Tick
    PROVE  /\ gap' \in 0 .. StaleS + 1 /\ gap <= gap'
           /\ beat' \in [Press -> 0 .. StaleS + 1]
           /\ \A p \in Alive : beat'[p] <= gap'
<1>1. beat' \in [Press -> 0 .. StaleS + 1]
  BY SingleAssumption DEF SingleTypeOK, Tick
<1>2. {beat'[p] : p \in Alive} \cup {gap} \in SUBSET (0 .. StaleS + 1)
  BY <1>1 DEF SingleTypeOK, Alive
<1> QED
  BY <1>1, <1>2 DEF Tick

--------------------------------------------------------------------------------
(* Types.                                                                        *)

LEMMA NoLockType == NoLock \in Locks
  BY DEF Locks

LEMMA NoLockStale == NoLock.age > StaleS /\ [NoLock EXCEPT !.age = NoLock.age] = NoLock
<1>1. NoLock.age = StaleS + 1
  BY DEF NoLock
<1>2. ASSUME NEW b, NEW t, NEW a
      PROVE  [[by |-> b, token |-> t, age |-> a] EXCEPT !.age = a] = [by |-> b, token |-> t, age |-> a]
  OBVIOUS
<1>3. [NoLock EXCEPT !.age = StaleS + 1] = NoLock
  BY <1>2, Zenon DEF NoLock
<1> QED
  BY <1>1, <1>3, SingleAssumption

\* A lock whose token is written, or whose age changes, is a lock.
LEMMA Touched ==
    ASSUME lock \in Locks, lock # NoLock, NEW a \in 0 .. StaleS + 1, NEW t \in BOOLEAN
    PROVE  /\ [lock EXCEPT !.age = a] \in Locks
           /\ [[lock EXCEPT !.token = t] EXCEPT !.age = a] \in Locks
<1>1. lock \in [by : {{p} : p \in Press}, token : BOOLEAN, age : 0 .. StaleS + 1]
  BY DEF Locks
<1>2. PICK q \in Press : lock.by = {q}
  BY <1>1
<1>3. [lock EXCEPT !.age = a] = [by |-> {q}, token |-> lock.token, age |-> a]
  BY <1>1, <1>2
<1>4. [lock EXCEPT !.token = t] = [by |-> {q}, token |-> t, age |-> lock.age]
  BY <1>1, <1>2
<1>5. [[lock EXCEPT !.token = t] EXCEPT !.age = a] = [by |-> {q}, token |-> t, age |-> a]
  <2>1. [[by |-> {q}, token |-> t, age |-> lock.age] EXCEPT !.age = a] = [by |-> {q}, token |-> t, age |-> a]
    OBVIOUS
  <2> QED
    BY <1>4, <2>1
<1> QED
  BY <1>1, <1>3, <1>5 DEF Locks

LEMMA Zeroed ==
    ASSUME lock \in Locks, lock # NoLock
    PROVE  [lock EXCEPT !.age = 0] \in Locks
<1>1. 0 \in 0 .. StaleS + 1 /\ TRUE \in BOOLEAN
  BY SingleAssumption
<1> QED
  BY <1>1, Touched

LEMMA LockFields ==
    ASSUME lock \in Locks
    PROVE  /\ lock.age \in 0 .. StaleS + 1 /\ lock.token \in BOOLEAN
           /\ lock = NoLock <=> lock.by = {}
<1>1. CASE lock = NoLock
  BY <1>1, SingleAssumption DEF NoLock
<1>2. CASE lock \in [by : {{p} : p \in Press}, token : BOOLEAN, age : 0 .. StaleS + 1]
  <2>1. PICK q \in Press : lock.by = {q}
    BY <1>2
  <2> QED
    BY <1>2, <2>1 DEF NoLock
<1> QED
  BY <1>1, <1>2 DEF Locks

LEMMA TypeStep ==
    ASSUME TypeInv, [SingleNext]_singleVars
    PROVE  TypeInv'
<1> USE SingleAssumption DEF TypeInv, SingleTypeOK, Go, At, Places, Acquiring, Windowed, Closing
<1>1. ASSUME NEW p \in Press, Acquire(p) PROVE TypeInv'
  BY <1>1 DEF Acquire, files, waits
<1>2. ASSUME NEW p \in Press, Takes(p) PROVE TypeInv'
  <2>1. CASE Create(p)
    BY <2>1 DEF Create, Locks, turns, waits, history
  <2>2. CASE Judge(p) \/ JudgedStale(p)
    BY <2>2 DEF Judge, JudgedStale, files, turns, waits, history
  <2>3. CASE Unlink(p)
    BY <2>3, NoLockType DEF Unlink, waits, history
  <2>4. CASE Denied(p)
    BY <2>4 DEF Denied, files, waits, history
  <2>5. CASE WriteToken(p)
    <3>1. lock' \in Locks
      <4>1. CASE lock.by = {p}
        <5>1. lock # NoLock /\ 0 \in 0 .. StaleS + 1
          BY <4>1, LockFields
        <5>2. [[lock EXCEPT !.token = TRUE] EXCEPT !.age = 0] \in Locks
          BY <5>1, Touched
        <5> QED
          BY <4>1, <2>5, <5>2 DEF WriteToken
      <4> QED
        BY <4>1, <2>5 DEF WriteToken
    <3> QED
      BY <2>5, <3>1 DEF WriteToken, waits, history
  <2>6. CASE ClearRequest(p)
    <3>1. beat' \in [Press -> 0 .. StaleS + 1] /\ pc' \in [Press -> Places]
      BY <2>6 DEF ClearRequest
    <3> QED
      BY <2>6, <3>1 DEF ClearRequest, turns, history
  <2> QED
    BY <1>2, <2>1, <2>2, <2>3, <2>4, <2>5, <2>6 DEF Takes
<1>3. ASSUME NEW p \in Press, Asks(p) PROVE TypeInv'
  <2>1. CASE Ask(p)
    BY <2>1 DEF Ask, turns, history
  <2>2. CASE PickedUp(p)
    BY <2>2 DEF PickedUp, files, turns, history
  <2>3. CASE TimedOut(p)
    <3>1. waited' \in [Press -> 0 .. AskS] /\ pc' \in [Press -> Places]
      BY <2>3 DEF TimedOut
    <3> QED
      BY <2>3, <3>1 DEF TimedOut, turns, history
  <2> QED
    BY <1>3, <2>1, <2>2, <2>3 DEF Asks
<1>4. ASSUME NEW p \in Press, Appear(p) \/ StartFails(p) PROVE TypeInv'
  BY <1>4 DEF Appear, StartFails, files, turns, waits
<1>5. ASSUME NEW p \in Press, Beats(p) PROVE TypeInv'
  <2>1. CASE Touch(p)
    <3>1. lock' \in Locks
      <4>1. CASE lock = NoLock
        BY <2>1, <4>1 DEF Touch
      <4>2. CASE lock # NoLock
        <5>1. [lock EXCEPT !.age = 0] \in Locks
          BY <4>2, Zeroed
        <5> QED
          BY <2>1, <4>2, <5>1 DEF Touch
      <4> QED
        BY <4>1, <4>2
    <3> QED
      BY <2>1, <3>1 DEF Touch, turns, waits, history
  <2>2. CASE Heartbeat(p)
    <3>1. pc' \in [Press -> Places] /\ beat' \in [Press -> 0 .. StaleS + 1]
      BY <2>2 DEF Heartbeat
    <3>3. owned' \in [Press -> BOOLEAN]
      BY <2>2 DEF Heartbeat
    <3>2. UNCHANGED <<lock, request, tries, again, waited, gap, crashed, shown>>
      BY <2>2 DEF Heartbeat, files, turns, history
    <3> QED
      BY <2>2, <3>1, <3>2, <3>3 DEF Heartbeat
  <2>3. CASE Look(p) \/ Take(p)
    BY <2>3 DEF Look, Take, files, turns, waits, history
  <2> QED
    BY <1>5, <2>1, <2>2, <2>3 DEF Beats
<1>6. ASSUME NEW p \in Press, Finishes(p) PROVE TypeInv'
  <2>1. CASE CloseWindow(p)
    BY <2>1 DEF CloseWindow, files, turns, history
  <2>2. CASE Release(p)
    <3>1. (owned[p] /\ Mine(p)) \in BOOLEAN
      BY LockFields DEF Mine
    <3> QED
      BY <2>2, <3>1 DEF Release, files, turns, waits, history
  <2>3. CASE Remove(p)
    BY <2>3, NoLockType DEF Remove, turns, waits, history
  <2>4. CASE Crash(p)
    BY <2>4 DEF Crash, files, turns
  <2> QED
    BY <1>6, <2>1, <2>2, <2>3, <2>4 DEF Finishes
<1>7. CASE Tick
  <2>1. lock' \in Locks
    <3>1. CASE lock = NoLock
      <4>1. lock.age > StaleS /\ lock = [lock EXCEPT !.age = lock.age]
        BY <3>1, NoLockStale
      <4> QED
        BY <1>7, <4>1 DEF Tick
    <3>2. CASE lock # NoLock
      <4> DEFINE age == IF lock.age > StaleS THEN lock.age ELSE lock.age + 1
      <4>1. age \in 0 .. StaleS + 1
        BY LockFields
      <4>2. [lock EXCEPT !.age = age] \in Locks
        BY <3>2, <4>1, Touched
      <4> QED
        BY <1>7, <4>2 DEF Tick
    <3> QED
      BY <3>1, <3>2
  <2>2. waited' \in [Press -> 0 .. AskS]
    BY <1>7 DEF Tick
  <2> QED
    BY <1>7, <2>1, <2>2, GapGrows DEF Tick, turns
<1>8. CASE UNCHANGED singleVars
  BY <1>8 DEF singleVars, files, waits, turns, history
<1> QED
  BY <1>1, <1>2, <1>3, <1>4, <1>5, <1>6, <1>7, <1>8 DEF SingleNext

LEMMA TypeInit == SingleInit => TypeInv
<1>1. ASSUME SingleInit PROVE SingleTypeOK
  <2>1. 0 \in 0 .. StaleS + 1 /\ 0 \in 0 .. AskS /\ 0 \in 0 .. 2 /\ "idle" \in Places
    BY SingleAssumption DEF Places
  <2>2. pc \in [Press -> Places] /\ tries \in [Press -> 0 .. 2] /\ waited \in [Press -> 0 .. AskS]
        /\ beat \in [Press -> 0 .. StaleS + 1]
    BY <1>1, <2>1 DEF SingleInit
  <2>3. again \in [Press -> BOOLEAN] /\ owned \in [Press -> BOOLEAN]
    BY <1>1 DEF SingleInit
  <2> QED
    BY <1>1, <2>1, <2>2, <2>3, NoLockType DEF SingleInit, SingleTypeOK
<1>2. SingleInit => \A p \in Press : pc[p] = "idle"
  BY DEF SingleInit
<1> QED
  BY <1>1, <1>2 DEF TypeInv

\* Every variable holds a value the code gives it, whatever the presses do; a
\* lock is only judged, or removed, by a press that has a try left.
THEOREM TypeCorrect == SingleSpec => []TypeInv
  BY TypeInit, TypeStep, PTL DEF SingleSpec

--------------------------------------------------------------------------------
(* One window.                                                                   *)

\* The processes that have the lock, from writing their token to giving it up.
Holds(p) == pc[p] \in {"clear", "starting"} \cup Windowed \cup Closing

\* While no window was silent for longer than STALE_S, whoever holds the lock owns
\* it and keeps it fresh: it is never older than the time since his last
\* heartbeat, and no press is about to remove it or to write into another's.
HolderKeeps ==
    /\ \A p \in Press : Holds(p) => owned[p] /\ Mine(p) /\ lock.age <= StaleS
    /\ \A p \in Press : pc[p] = "write" => lock.by = {p}
    /\ \A p \in Press : pc[p] = "unlink" => lock.age > StaleS
    /\ \A p \in Press : pc[p] \in {"clear", "look", "take"} => lock.age = 0
    /\ \A p \in Press : pc[p] \in {"starting", "open"} => lock.age <= beat[p]

OneAtATime == \A p, q \in Pressing : p = q

SoleInv == TypeInv /\ OneAtATime /\ (gap <= StaleS => HolderKeeps)

\* A press is not begun while another is under way.
LEMMA OneStep ==
    ASSUME MaxPressing = 1, SoleInv, [SingleNext]_singleVars
    PROVE  OneAtATime'
<1> USE DEF OneAtATime, Pressing, Acquiring, Go, At, SoleInv, TypeInv, SingleTypeOK
<1>1. ASSUME NEW p \in Press, Acquire(p) PROVE OneAtATime'
  <2>1. Pressing \ {p} = {}
    <3>1. SUFFICES ASSUME NEW q \in Pressing \ {p} PROVE FALSE
      OBVIOUS
    <3>2. Pressing \ {p} = {q}
      BY <3>1
    <3> QED
      BY <1>1, <3>2, FS_Singleton DEF Acquire
  <2> QED
    BY <1>1, <2>1 DEF Acquire
<1>2. ASSUME NEW p \in Press, Takes(p) \/ Asks(p) PROVE OneAtATime'
  <2>1. p \in Pressing
    BY <1>2 DEF Takes, Asks, Create, Judge, JudgedStale, Unlink, Denied, WriteToken, ClearRequest,
                Ask, PickedUp, TimedOut
  <2>2. \A q \in Press : q # p => pc'[q] = pc[q]
    BY <1>2 DEF Takes, Asks, Create, Judge, JudgedStale, Unlink, Denied, WriteToken, ClearRequest,
                Ask, PickedUp, TimedOut
  <2> QED
    BY <2>1, <2>2
<1>3. ASSUME NEW p \in Press, Appear(p) \/ StartFails(p) \/ Beats(p) \/ Finishes(p) PROVE OneAtATime'
  <2>1. pc'[p] \notin Acquiring \cup {"ask", "wait", "retry"}
    BY <1>3 DEF Appear, StartFails, Beats, Finishes, Heartbeat, Touch, Look, Take, CloseWindow, Release, Remove, Crash
  <2>2. \A q \in Press : q # p => pc'[q] = pc[q]
    BY <1>3 DEF Appear, StartFails, Beats, Finishes, Heartbeat, Touch, Look, Take, CloseWindow, Release, Remove, Crash
  <2> QED
    BY <2>1, <2>2
<1>4. CASE Tick \/ UNCHANGED singleVars
  BY <1>4 DEF Tick, singleVars
<1> QED
  BY <1>1, <1>2, <1>3, <1>4 DEF SingleNext

\* Only one process can hold the lock, and while one does nobody creates another.
LEMMA HolderAlone ==
    ASSUME TypeInv, HolderKeeps, NEW p \in Press, Holds(p)
    PROVE  /\ lock # NoLock /\ lock.age <= StaleS /\ lock.by = {p}
           /\ \A q \in Press : Holds(q) => q = p
           /\ \A q \in Press : pc[q] \notin {"unlink", "write"}
<1>1. lock.age <= StaleS /\ lock.by = {p}
  BY DEF HolderKeeps, Mine
<1>2. lock # NoLock
  BY <1>1 DEF NoLock
<1>3. \A q \in Press : Holds(q) \/ pc[q] = "write" => q = p
  BY <1>1 DEF HolderKeeps, Mine
<1>4. pc[p] # "write" /\ pc[p] # "unlink"
  BY DEF Holds, Windowed, Closing
<1>5. lock.age \in Nat
  BY LockFields DEF TypeInv, SingleTypeOK
<1>6. \A q \in Press : pc[q] # "unlink"
  BY <1>1, <1>5, SingleAssumption DEF HolderKeeps
<1> QED
  BY <1>1, <1>2, <1>3, <1>4, <1>6

\* Whoever takes the lock finds it free, and writes into the lock he made.
LEMMA TakingKeeps ==
    ASSUME SoleInv, HolderKeeps, OneAtATime, NEW p \in Press, Takes(p)
    PROVE  HolderKeeps'
<1> USE DEF HolderKeeps, Holds, Windowed, Closing, Go, At, SoleInv, TypeInv, SingleTypeOK
<1>0. lock.age \in Nat /\ StaleS \in Nat /\ beat \in [Press -> Nat]
  BY LockFields, SingleAssumption
<1>1. CASE Create(p)
  <2>1. \A q \in Press : ~Holds(q)
    BY <1>1, HolderAlone DEF Create
  <2>2. \A q \in Press : q # p => pc[q] \notin {"write", "unlink"}
    BY <1>1 DEF Create, OneAtATime, Pressing, Acquiring
  <2>3. lock'.by = {p} /\ pc' = [pc EXCEPT ![p] = "write"]
    BY <1>1 DEF Create
  <2> QED
    BY <1>0, <2>1, <2>2, <2>3
<1>2. CASE Judge(p) \/ Denied(p)
  BY <1>2 DEF Judge, Denied, files, turns, waits, history, Mine
<1>3. CASE JudgedStale(p)
  <2>1. \A q \in Press : ~Holds(q)
    BY <1>0, <1>3, HolderAlone DEF JudgedStale, IsStale
  <2> QED
    BY <1>3, <2>1 DEF JudgedStale, IsStale, files, turns, waits, history, Mine
<1>4. CASE Unlink(p)
  <2>1. \A q \in Press : ~Holds(q)
    BY <1>4, HolderAlone DEF Unlink
  <2>2. \A q \in Press : q # p => pc[q] \notin {"write", "unlink"}
    BY <1>4 DEF Unlink, OneAtATime, Pressing, Acquiring
  <2>3. pc' = [pc EXCEPT ![p] = "create"]
    BY <1>4 DEF Unlink
  <2> QED
    BY <2>1, <2>2, <2>3
<1>5. CASE WriteToken(p)
  <2>1. \A q \in Press : ~Holds(q)
    BY <1>5, HolderAlone DEF WriteToken
  <2>2. \A q \in Press : q # p => pc[q] \notin {"write", "unlink"}
    BY <1>5 DEF WriteToken, OneAtATime, Pressing, Acquiring
  <2>3. pc' = [pc EXCEPT ![p] = "clear"] /\ owned'[p]
    BY <1>5 DEF WriteToken
  <2>4. lock' = [lock EXCEPT !.token = TRUE, !.age = 0] /\ lock # NoLock
    BY <1>5 DEF WriteToken, NoLock
  <2>5. lock'.by = {p} /\ lock'.token /\ lock'.age = 0
    <3>1. PICK q \in Press : lock = [by |-> {q}, token |-> lock.token, age |-> lock.age]
      BY <2>4 DEF Locks
    <3> QED
      BY <1>5, <2>4, <3>1 DEF WriteToken
  <2> QED
    BY <1>0, <2>1, <2>2, <2>3, <2>5 DEF Mine
<1>6. CASE ClearRequest(p)
  <2>1. lock.age = 0 /\ pc' = [pc EXCEPT ![p] = "starting"] /\ UNCHANGED <<lock, owned>>
    BY <1>6 DEF ClearRequest
  <2>2. beat' = [beat EXCEPT ![p] = 0]
    BY <1>6 DEF ClearRequest
  <2> QED
    BY <1>0, <1>6, <2>1, <2>2 DEF ClearRequest, Mine
<1> QED
  BY <1>1, <1>2, <1>3, <1>4, <1>5, <1>6 DEF Takes

\* A window keeps its lock, and keeps it fresh.
LEMMA WindowKeeps ==
    ASSUME SoleInv, HolderKeeps, NEW p \in Press, Appear(p) \/ StartFails(p) \/ Beats(p) \/ Finishes(p)
    PROVE  HolderKeeps'
<1> USE DEF HolderKeeps, Holds, Windowed, Closing, Go, At, SoleInv, TypeInv, SingleTypeOK
<1>0. lock.age \in Nat /\ StaleS \in Nat /\ beat \in [Press -> Nat]
  BY LockFields, SingleAssumption
<1>1. CASE Appear(p) \/ StartFails(p)
  BY <1>0, <1>1 DEF Appear, StartFails, files, turns, waits, Mine
<1>2. CASE Heartbeat(p)
  <2>1. owned[p] /\ Mine(p)
    BY <1>2 DEF Heartbeat
  <2>2. pc' = [pc EXCEPT ![p] = "touch"] /\ UNCHANGED <<lock, owned>> /\ beat' = [beat EXCEPT ![p] = 0]
    BY <1>2, <2>1 DEF Heartbeat, files
  <2> QED
    BY <1>0, <1>2, <2>2 DEF Heartbeat, Mine
<1>3. CASE Touch(p)
  <2>1. lock # NoLock /\ (\A q \in Press : Holds(q) => q = p)
        /\ (\A q \in Press : pc[q] \notin {"unlink", "write"}) /\ owned[p] /\ Mine(p)
    BY <1>3, HolderAlone DEF Touch
  <2>2. lock' = [lock EXCEPT !.age = 0] /\ owned' = owned /\ pc' = [pc EXCEPT ![p] = "look"]
    BY <1>3, <2>1 DEF Touch
  <2>3. lock'.by = lock.by /\ lock'.token = lock.token /\ lock'.age = 0
    <3>1. PICK q \in Press : lock = [by |-> {q}, token |-> lock.token, age |-> lock.age]
      BY <2>1 DEF Locks
    <3> QED
      BY <2>2, <3>1
  <2> QED
    BY <1>0, <2>1, <2>2, <2>3 DEF Mine
<1>4. CASE Look(p) \/ Take(p)
  BY <1>0, <1>4 DEF Look, Take, files, turns, waits, Mine
<1>5. CASE CloseWindow(p)
  BY <1>0, <1>5 DEF CloseWindow, files, turns, Mine
<1>6. CASE Release(p)
  <2>1. owned[p] /\ Mine(p)
    BY <1>6 DEF Release
  <2>2. pc' = [pc EXCEPT ![p] = "remove"] /\ owned'[p] /\ (\A q \in Press : q # p => owned'[q] = owned[q])
    BY <1>6, <2>1 DEF Release
  <2> QED
    BY <1>6, <2>1, <2>2 DEF Release, files, turns, waits, history, Mine
<1>7. CASE Remove(p)
  <2>1. (\A q \in Press : Holds(q) => q = p) /\ \A q \in Press : pc[q] \notin {"unlink", "write"}
    BY <1>7, HolderAlone DEF Remove
  <2>2. pc' = [pc EXCEPT ![p] = "gone"]
    BY <1>7 DEF Remove
  <2> QED
    BY <2>1, <2>2
<1>8. CASE Crash(p)
  <2>1. lock' = lock /\ pc' = [pc EXCEPT ![p] = "gone"]
        /\ (\A q \in Press : q # p => owned'[q] = owned[q] /\ beat'[q] = beat[q])
    BY <1>8 DEF Crash, files
  <2> QED
    BY <2>1 DEF Mine
<1> QED
  BY <1>1, <1>2, <1>3, <1>4, <1>5, <1>6, <1>7, <1>8 DEF Beats, Finishes

\* The lock ages with the silence of the window that holds it.
LEMMA TimeKeeps ==
    ASSUME SoleInv, HolderKeeps, Tick, gap' <= StaleS
    PROVE  HolderKeeps'
<1> USE DEF HolderKeeps, Holds, Windowed, Closing, SoleInv, TypeInv, SingleTypeOK
<1>0. lock.age \in Nat /\ StaleS \in Nat /\ beat \in [Press -> Nat] /\ gap' \in Nat
  BY LockFields, SingleAssumption, GapGrows
<1>1. pc' = pc /\ owned' = owned /\ \A p \in Press : pc[p] \in Patient
  BY DEF Tick
<1>2. ASSUME NEW p \in Press, Holds(p)
      PROVE  Mine(p)' /\ lock'.age <= StaleS /\ lock'.age <= beat'[p]
  <2>1. pc[p] \in {"starting", "open"}
    BY <1>1, <1>2 DEF Patient
  <2>2. lock.age <= StaleS /\ Mine(p) /\ lock # NoLock
    BY <1>2, HolderAlone
  <2>3. lock' = [lock EXCEPT !.age = lock.age + 1]
    BY <1>0, <2>2 DEF Tick
  <2>4. lock'.by = lock.by /\ lock'.token = lock.token /\ lock'.age = lock.age + 1
    <3>1. PICK q \in Press : lock = [by |-> {q}, token |-> lock.token, age |-> lock.age]
      BY <2>2 DEF Locks
    <3> QED
      BY <2>3, <3>1
  <2>5. beat'[p] <= gap' /\ p \in Alive
    BY <2>1, GapGrows DEF Alive
  <2>6. beat'[p] = beat[p] + 1
    BY <1>0, <2>5 DEF Tick
  <2>7. lock.age <= beat[p]
    BY <2>1
  <2> QED
    BY <1>0, <2>2, <2>4, <2>5, <2>6, <2>7 DEF Mine
<1>3. \A p \in Press : pc[p] \notin {"write", "unlink", "clear", "look", "take"}
  BY <1>1 DEF Patient
<1> QED
  BY <1>1, <1>2, <1>3

LEMMA SoleInit == SingleInit => SoleInv
<1>1. SingleInit => TypeInv
  BY TypeInit
<1>2. SingleInit => \A p \in Press : pc[p] = "idle"
  BY DEF SingleInit
<1> QED
  BY <1>1, <1>2 DEF SoleInv, OneAtATime, Pressing, Acquiring, HolderKeeps, Holds, Windowed, Closing

\* The longest silence so far grows only with time.
LEMMA GapStep ==
    ASSUME TypeInv, [SingleNext]_singleVars
    PROVE  gap <= gap' /\ gap \in Nat /\ gap' \in Nat
<1>1. CASE Tick
  BY <1>1, GapGrows DEF TypeInv, SingleTypeOK
<1>2. CASE ~Tick
  <2>1. gap' = gap
    BY <1>2 DEF SingleNext, singleVars, Acquire, Takes, Asks, Appear, StartFails, Beats, Finishes, Create, Judge, JudgedStale,
          Unlink, Denied, WriteToken, ClearRequest, Ask, PickedUp, TimedOut, Heartbeat, Touch, Look, Take,
          CloseWindow, Release, Remove, Crash, history
  <2> QED
    BY <2>1 DEF TypeInv, SingleTypeOK
<1> QED
  BY <1>1, <1>2

LEMMA SoleStep ==
    ASSUME MaxPressing = 1, SoleInv, [SingleNext]_singleVars
    PROVE  SoleInv'
<1>1. TypeInv' /\ OneAtATime'
  BY TypeStep, OneStep DEF SoleInv
<1>2. ASSUME gap' <= StaleS PROVE HolderKeeps'
  <2>1. gap <= gap' /\ gap \in Nat /\ gap' \in Nat
    BY GapStep DEF SoleInv
  <2>2. HolderKeeps
    BY <1>2, <2>1, SingleAssumption DEF SoleInv
  <2>3. ASSUME NEW p \in Press, Acquire(p) \/ Asks(p) PROVE HolderKeeps'
    <3>1. lock' = lock /\ owned' = owned /\ beat' = beat /\ pc[p] \notin {"unlink", "write"} /\ ~Holds(p)
          /\ \E step \in {"create", "wait", "gone", "retry"} : pc' = [pc EXCEPT ![p] = step]
      BY <2>3 DEF Acquire, Asks, Ask, PickedUp, TimedOut, files, waits, Go, At, Holds, Windowed, Closing
    <3> QED
      BY <2>2, <3>1 DEF HolderKeeps, Holds, Mine, Windowed, Closing, SoleInv, TypeInv, SingleTypeOK
  <2>4. ASSUME UNCHANGED singleVars PROVE HolderKeeps'
    BY <2>2, <2>4 DEF singleVars, files, turns, waits, history, HolderKeeps, Holds, Mine
  <2> QED
    BY <1>2, <2>2, <2>3, <2>4, TakingKeeps, WindowKeeps, TimeKeeps DEF SingleNext, SoleInv
<1> QED
  BY <1>1, <1>2 DEF SoleInv

\* Presses made one after another have one window between them, whatever crashes,
\* as long as no window was silent for longer than STALE_S.
THEOREM OneWindow ==
    ASSUME MaxPressing = 1
    PROVE  SingleSpec => []SoleWindow
<1>1. SingleInit => SoleInv
  BY SoleInit
<1>2. SoleInv /\ [SingleNext]_singleVars => SoleInv'
  BY SoleStep
<1>3. SoleInv => SoleWindow
  <2> SUFFICES ASSUME SoleInv, gap <= StaleS PROVE Cardinality(Alive) <= 1
    BY DEF SoleWindow
  <2>1. \A p, q \in Alive : p = q
    BY HolderAlone DEF SoleInv, Alive, Holds
  <2>2. CASE Alive = {}
    BY <2>2, FS_EmptySet
  <2>3. CASE Alive # {}
    <3>1. PICK p \in Alive : Alive = {p}
      BY <2>1, <2>3
    <3>2. Cardinality({p}) = 1
      BY FS_Singleton
    <3>3. Cardinality(Alive) = 1
      BY <3>1, <3>2
    <3> QED
      BY <3>3
  <2> QED
    BY <2>2, <2>3
<1> QED
  BY <1>1, <1>2, <1>3, PTL DEF SingleSpec

--------------------------------------------------------------------------------
(* Every press is answered.                                                      *)

\* While no window crashed or was silent for as long as a press waits: a lock has a
\* holder, a press that waits has been answered once its request is gone, no window
\* lets a request wait for longer than it is itself silent, and a press that takes
\* the lock again either was answered or finds it free.
Led(p) == pc[p] \in Windowed \cup Closing \cup {"gone"} => p \in shown
Taken == lock # NoLock => \E q \in Press : (Holds(q) \/ pc[q] = "write") /\ lock.by = {q}
Picked(p) == pc[p] = "wait" /\ ~request => p \in shown
Heard(p, q) ==
    pc[p] = "wait" /\ request /\ Holds(q) =>
        waited[p] <= gap /\ (pc[q] \in {"starting", "open"} => waited[p] <= beat[q])
Free(p) ==
    /\ pc[p] = "create" => tries[p] = 2 \/ (tries[p] = 1 /\ lock = NoLock)
    /\ pc[p] \in {"judge", "unlink"} => tries[p] = 2
    /\ pc[p] \in {"judge", "unlink"} /\ again[p] => p \in shown
    /\ pc[p] = "create" /\ again[p] => p \in shown \/ lock = NoLock
    /\ pc[p] = "retry" => p \in shown \/ lock = NoLock

AnswersInv ==
    /\ Taken
    /\ \A p \in Press : Led(p) /\ Picked(p) /\ Free(p)
    /\ \A p, q \in Press : Heard(p, q)

Served == ~crashed /\ gap < AskS
AnsweredInv == SoleInv /\ (Served => AnswersInv)

\* What is under way is one press, and what holds the lock another.
LEMMA Roles ==
    ASSUME SoleInv, HolderKeeps
    PROVE  /\ \A p, q \in Press : Holds(p) /\ Holds(q) => p = q
           /\ \A p, q \in Press : Holds(p) => pc[q] \notin {"unlink", "write"}
           /\ \A p \in Press : Holds(p) => lock # NoLock /\ lock.by = {p} /\ lock.age <= StaleS /\ owned[p] /\ Mine(p)
           /\ \A p, q \in Press : pc[p] \in Acquiring \cup {"ask", "wait", "retry"}
                  /\ pc[q] \in Acquiring \cup {"ask", "wait", "retry"} => p = q
<1>1. \A p \in Press : Holds(p) =>
        /\ lock # NoLock /\ lock.age <= StaleS /\ lock.by = {p}
        /\ \A q \in Press : Holds(q) => q = p
        /\ \A q \in Press : pc[q] \notin {"unlink", "write"}
  BY HolderAlone DEF SoleInv
<1>2. \A p, q \in Press : pc[p] \in Acquiring \cup {"ask", "wait", "retry"}
                  /\ pc[q] \in Acquiring \cup {"ask", "wait", "retry"} => p = q
  BY DEF SoleInv, OneAtATime, Pressing
<1>3. \A p \in Press : Holds(p) => owned[p] /\ Mine(p)
  BY DEF HolderKeeps
<1> QED
  BY <1>1, <1>2, <1>3

LEMMA AnswersAcquire ==
    ASSUME SoleInv, HolderKeeps, AnswersInv, NEW p \in Press, Acquire(p), OneAtATime'
    PROVE  AnswersInv'
<1> USE DEF Holds, Windowed, Closing, Acquiring
<1>1. /\ pc'[p] = "create" /\ pc[p] \in {"idle", "retry"} /\ \A q \in Press : q # p => pc'[q] = pc[q]
      /\ tries'[p] = 2 /\ \A q \in Press : q # p => tries'[q] = tries[q] /\ again'[q] = again[q]
      /\ again'[p] <=> pc[p] = "retry"
      /\ UNCHANGED <<lock, request, owned, waited, beat, gap, crashed>>
      /\ \A q \in Press : q # p => (q \in shown' <=> q \in shown)
      /\ pc[p] = "retry" => p \in shown' <=> p \in shown
  BY DEF Acquire, Go, At, files, waits, SoleInv, TypeInv, SingleTypeOK
<1>2. Taken'
  BY <1>1 DEF AnswersInv, Taken
<1>3. \A q \in Press : Led(q)'
  BY <1>1 DEF AnswersInv, Led
<1>4. \A q \in Press : Picked(q)'
  BY <1>1 DEF AnswersInv, Picked
<1>5. \A q \in Press : Free(q)'
  BY <1>1 DEF AnswersInv, Free
<1>6. \A q, r \in Press : Heard(q, r)'
  BY <1>1 DEF AnswersInv, Heard
<1> QED
  BY <1>2, <1>3, <1>4, <1>5, <1>6 DEF AnswersInv

LEMMA AnswersTakes ==
    ASSUME SoleInv, HolderKeeps, AnswersInv, NEW p \in Press, Takes(p)
    PROVE  AnswersInv'
<1> USE DEF Holds, Windowed, Closing, Acquiring
<1>0. /\ \A q \in Press : q # p => pc[q] \notin Acquiring \cup {"ask", "wait", "retry"}
      /\ pc[p] \in Acquiring
  BY Roles DEF Takes, Create, Judge, JudgedStale, Unlink, Denied, WriteToken, ClearRequest, At
<1>1. CASE Create(p)
  <2>1. /\ pc[p] = "create" /\ pc'[p] = "write" /\ (\A q \in Press : q # p => pc'[q] = pc[q])
        /\ lock'.by = {p} /\ UNCHANGED <<request, turns, owned, waits, history>>
    BY <1>1 DEF Create, Go, At, SoleInv, TypeInv, SingleTypeOK
  <2>2. Taken'
    BY <2>1 DEF Taken
  <2>3. \A q \in Press : Led(q)' /\ Picked(q)' /\ Free(q)'
    BY <1>0, <2>1 DEF AnswersInv, Led, Picked, Free, history
  <2>4. \A q, r \in Press : Heard(q, r)'
    BY <1>0, <2>1 DEF Heard
  <2> QED
    BY <2>2, <2>3, <2>4 DEF AnswersInv
<1>2. CASE Judge(p)
  <2>1. /\ pc[p] = "create" /\ pc'[p] = "judge" /\ (\A q \in Press : q # p => pc'[q] = pc[q])
        /\ lock # NoLock /\ UNCHANGED <<files, turns, owned, waits, history>>
    BY <1>2 DEF Judge, Go, At, SoleInv, TypeInv, SingleTypeOK
  <2>2. Taken'
    BY <1>0, <2>1 DEF AnswersInv, Taken, files
  <2>3. \A q \in Press : Led(q)' /\ Picked(q)' /\ Free(q)'
    BY <1>0, <2>1 DEF AnswersInv, Led, Picked, Free, history, turns, files
  <2>4. \A q, r \in Press : Heard(q, r)'
    BY <1>0, <2>1 DEF Heard
  <2> QED
    BY <2>2, <2>3, <2>4 DEF AnswersInv
<1>3. CASE JudgedStale(p)
  <2>1. /\ pc[p] = "judge" /\ pc'[p] = "unlink" /\ (\A q \in Press : q # p => pc'[q] = pc[q])
        /\ UNCHANGED <<files, turns, owned, waits, history>>
    BY <1>3 DEF JudgedStale, Go, At, SoleInv, TypeInv, SingleTypeOK
  <2>2. Taken'
    BY <1>0, <2>1 DEF AnswersInv, Taken, files
  <2>3. \A q \in Press : Led(q)' /\ Picked(q)' /\ Free(q)'
    BY <1>0, <2>1 DEF AnswersInv, Led, Picked, Free, history, turns, files
  <2>4. \A q, r \in Press : Heard(q, r)'
    BY <1>0, <2>1 DEF Heard
  <2> QED
    BY <2>2, <2>3, <2>4 DEF AnswersInv
<1>4. CASE Unlink(p)
  <2>1. /\ pc[p] = "unlink" /\ pc'[p] = "create" /\ (\A q \in Press : q # p => pc'[q] = pc[q])
        /\ lock' = NoLock /\ tries'[p] = tries[p] - 1 /\ UNCHANGED <<request, again, owned, waits, history>>
    BY <1>4 DEF Unlink, Go, At, SoleInv, TypeInv, SingleTypeOK
  <2>2. Taken'
    BY <2>1 DEF Taken, NoLock
  <2>3. \A q \in Press : Led(q)' /\ Picked(q)' /\ Free(q)'
    <3>1. NoLock' = NoLock
      BY DEF NoLock
    <3> QED
      BY <1>0, <2>1, <3>1 DEF AnswersInv, Led, Picked, Free, history
  <2>4. \A q, r \in Press : Heard(q, r)'
    BY <1>0, <2>1 DEF Heard
  <2> QED
    BY <2>2, <2>3, <2>4 DEF AnswersInv
<1>5. CASE Denied(p)
  <2>1. /\ pc'[p] = (IF again[p] THEN "gone" ELSE "ask") /\ (\A q \in Press : q # p => pc'[q] = pc[q])
        /\ pc[p] = "judge" \/ (pc[p] = "create" /\ tries[p] = 0)
        /\ UNCHANGED <<files, again, owned, waits, history>>
    BY <1>5 DEF Denied, Go, At, SoleInv, TypeInv, SingleTypeOK
  <2>2. pc[p] = "judge" /\ (again[p] => p \in shown)
    BY <2>1 DEF AnswersInv, Free
  <2>3. Taken'
    BY <1>0, <2>1, <2>2 DEF AnswersInv, Taken, files
  <2>4. \A q \in Press : Led(q)' /\ Picked(q)' /\ Free(q)'
    BY <1>0, <2>1, <2>2 DEF AnswersInv, Led, Picked, Free, history
  <2>5. \A q, r \in Press : Heard(q, r)'
    BY <1>0, <2>1 DEF Heard
  <2> QED
    BY <2>3, <2>4, <2>5 DEF AnswersInv
<1>6. CASE WriteToken(p)
  <2>1. /\ pc[p] = "write" /\ pc'[p] = "clear" /\ (\A q \in Press : q # p => pc'[q] = pc[q])
        /\ lock.by = {p} /\ lock' = [lock EXCEPT !.token = TRUE, !.age = 0]
        /\ UNCHANGED <<request, again, waits, history>>
    BY <1>6 DEF WriteToken, Go, At, SoleInv, TypeInv, SingleTypeOK, HolderKeeps
  <2>2. lock'.by = {p}
    <3>1. PICK q \in Press : lock = [by |-> {q}, token |-> lock.token, age |-> lock.age]
      BY <2>1 DEF SoleInv, TypeInv, SingleTypeOK, Locks, NoLock
    <3> QED
      BY <2>1, <3>1
  <2>3. Taken'
    BY <2>1, <2>2 DEF Taken
  <2>4. \A q \in Press : Led(q)' /\ Picked(q)' /\ Free(q)'
    BY <1>0, <2>1 DEF AnswersInv, Led, Picked, Free, history
  <2>5. \A q, r \in Press : Heard(q, r)'
    BY <1>0, <2>1 DEF Heard
  <2> QED
    BY <2>3, <2>4, <2>5 DEF AnswersInv
<1>7. CASE ClearRequest(p)
  <2>1. /\ pc[p] = "clear" /\ pc'[p] = "starting" /\ (\A q \in Press : q # p => pc'[q] = pc[q])
        /\ UNCHANGED <<lock, turns, owned, waited, history>>
    BY <1>7 DEF ClearRequest, Go, At, SoleInv, TypeInv, SingleTypeOK
  <2>2. Taken'
    BY <1>0, <2>1 DEF AnswersInv, Taken
  <2>3. \A q \in Press : Led(q)' /\ Picked(q)' /\ Free(q)'
    BY <1>0, <2>1 DEF AnswersInv, Led, Picked, Free, history
  <2>4. \A q, r \in Press : Heard(q, r)'
    BY <1>0, <2>1 DEF Heard
  <2> QED
    BY <2>2, <2>3, <2>4 DEF AnswersInv
<1> QED
  BY <1>1, <1>2, <1>3, <1>4, <1>5, <1>6, <1>7 DEF Takes

LEMMA AnswersAsks ==
    ASSUME SoleInv, HolderKeeps, AnswersInv, gap < AskS, NEW p \in Press, Asks(p)
    PROVE  AnswersInv'
<1> USE DEF Holds, Windowed, Closing, Acquiring
<1>0. /\ \A q \in Press : q # p => pc[q] \notin Acquiring \cup {"ask", "wait", "retry"}
      /\ gap \in Nat /\ AskS \in Nat /\ waited \in [Press -> Nat] /\ beat \in [Press -> Nat]
  BY Roles, SingleAssumption DEF Asks, Ask, PickedUp, TimedOut, At, SoleInv, TypeInv, SingleTypeOK
<1>1. CASE Ask(p)
  <2>1. /\ pc[p] = "ask" /\ pc'[p] = "wait" /\ (\A q \in Press : q # p => pc'[q] = pc[q])
        /\ request' = TRUE /\ waited'[p] = 0 /\ UNCHANGED <<lock, turns, owned, beat, history>>
    BY <1>1 DEF Ask, Go, At, SoleInv, TypeInv, SingleTypeOK
  <2>2. Taken'
    BY <2>1 DEF AnswersInv, Taken
  <2>3. \A q \in Press : Led(q)' /\ Picked(q)' /\ Free(q)'
    BY <1>0, <2>1 DEF AnswersInv, Led, Picked, Free, history
  <2>4. \A q, r \in Press : Heard(q, r)'
    BY <1>0, <2>1 DEF Heard, history
  <2> QED
    BY <2>2, <2>3, <2>4 DEF AnswersInv
<1>2. CASE PickedUp(p)
  <2>1. /\ pc[p] = "wait" /\ ~request /\ pc'[p] = "gone" /\ (\A q \in Press : q # p => pc'[q] = pc[q])
        /\ UNCHANGED <<files, turns, owned, beat, history>>
    BY <1>2 DEF PickedUp, Go, At, SoleInv, TypeInv, SingleTypeOK
  <2>2. Taken'
    BY <2>1 DEF AnswersInv, Taken, files
  <2>3. \A q \in Press : Led(q)' /\ Picked(q)' /\ Free(q)'
    BY <1>0, <2>1 DEF AnswersInv, Led, Picked, Free, history, files
  <2>4. \A q, r \in Press : Heard(q, r)'
    BY <1>0, <2>1 DEF Heard
  <2> QED
    BY <2>2, <2>3, <2>4 DEF AnswersInv
<1>3. CASE TimedOut(p)
  <2>1. /\ pc[p] = "wait" /\ waited[p] >= AskS /\ pc'[p] = "retry" /\ (\A q \in Press : q # p => pc'[q] = pc[q])
        /\ UNCHANGED <<lock, turns, owned, beat, history>>
    BY <1>3 DEF TimedOut, Go, At, SoleInv, TypeInv, SingleTypeOK
  <2>2. p \in shown \/ lock = NoLock
    <3>1. CASE ~request
      BY <2>1, <3>1 DEF AnswersInv, Picked
    <3>2. CASE request
      <4>1. \A q \in Press : ~Holds(q)
        BY <1>0, <2>1, <3>2 DEF AnswersInv, Heard
      <4>2. \A q \in Press : pc[q] # "write"
        BY <1>0, <2>1
      <4> QED
        BY <4>1, <4>2 DEF AnswersInv, Taken
    <3> QED
      BY <3>1, <3>2
  <2>3. Taken'
    BY <2>1 DEF AnswersInv, Taken
  <2>4. \A q \in Press : Led(q)' /\ Picked(q)' /\ Free(q)'
    BY <1>0, <2>1, <2>2 DEF AnswersInv, Led, Picked, Free, history
  <2>5. \A q, r \in Press : Heard(q, r)'
    BY <1>0, <2>1 DEF Heard
  <2> QED
    BY <2>3, <2>4, <2>5 DEF AnswersInv
<1> QED
  BY <1>1, <1>2, <1>3 DEF Asks

LEMMA AnswersWindow ==
    ASSUME SoleInv, HolderKeeps, AnswersInv, NEW p \in Press,
           Appear(p) \/ StartFails(p) \/ Beats(p) \/ CloseWindow(p) \/ Release(p) \/ Remove(p)
    PROVE  AnswersInv'
<1> USE DEF Holds, Windowed, Closing, Acquiring
<1>0. /\ Holds(p) /\ lock # NoLock /\ lock.by = {p} /\ owned[p] /\ Mine(p)
      /\ \A q \in Press : Holds(q) => q = p
      /\ gap \in Nat /\ waited \in [Press -> Nat] /\ beat \in [Press -> Nat]
  <2>1. Holds(p)
    BY DEF Appear, StartFails, Beats, Heartbeat, Touch, Look, Take, CloseWindow, Release, Remove, At
  <2> QED
    BY <2>1, Roles DEF SoleInv, TypeInv, SingleTypeOK
<1>1. CASE Appear(p) \/ StartFails(p)
  <2>1. /\ pc[p] = "starting" /\ pc'[p] \in {"open", "closing"} /\ (\A q \in Press : q # p => pc'[q] = pc[q])
        /\ pc'[p] = "open" => beat' = beat
        /\ shown' = Press /\ UNCHANGED <<files, turns, owned, waited, gap, crashed>>
    BY <1>1 DEF Appear, StartFails, waits, Go, At, SoleInv, TypeInv, SingleTypeOK
  <2>2. Taken'
    BY <1>0, <2>1 DEF Taken, files
  <2>3. \A q \in Press : Led(q)' /\ Picked(q)' /\ Free(q)'
    BY <2>1 DEF AnswersInv, Led, Picked, Free, turns, files
  <2>4. \A q, r \in Press : Heard(q, r)'
    BY <1>0, <2>1 DEF AnswersInv, Heard, files
  <2> QED
    BY <2>2, <2>3, <2>4 DEF AnswersInv
<1>2. CASE Heartbeat(p)
  <2>1. /\ pc[p] = "open" /\ pc'[p] = "touch" /\ (\A q \in Press : q # p => pc'[q] = pc[q])
        /\ UNCHANGED <<files, turns, owned, waited, history>>
    BY <1>0, <1>2 DEF Heartbeat, Go, At, SoleInv, TypeInv, SingleTypeOK
  <2>2. Taken'
    BY <1>0, <2>1 DEF Taken, files
  <2>3. \A q \in Press : Led(q)' /\ Picked(q)' /\ Free(q)'
    BY <2>1 DEF AnswersInv, Led, Picked, Free, turns, files, history
  <2>4. \A q, r \in Press : Heard(q, r)'
    BY <1>0, <2>1 DEF AnswersInv, Heard, files, history
  <2> QED
    BY <2>2, <2>3, <2>4 DEF AnswersInv
<1>3. CASE Touch(p)
  <2>1. /\ pc[p] = "touch" /\ pc'[p] = "look" /\ (\A q \in Press : q # p => pc'[q] = pc[q])
        /\ lock' = [lock EXCEPT !.age = 0] /\ UNCHANGED <<request, turns, waits, history>>
    BY <1>0, <1>3 DEF Touch, Go, At, SoleInv, TypeInv, SingleTypeOK
  <2>2. lock'.by = {p}
    <3>1. PICK q \in Press : lock = [by |-> {q}, token |-> lock.token, age |-> lock.age]
      BY <1>0 DEF SoleInv, TypeInv, SingleTypeOK, Locks
    <3> QED
      BY <1>0, <2>1, <3>1
  <2>3. Taken'
    BY <2>1, <2>2 DEF Taken
  <2>4. \A q \in Press : Led(q)' /\ Picked(q)' /\ Free(q)'
    BY <1>0, <2>1 DEF AnswersInv, Led, Picked, Free, turns, history
  <2>5. \A q, r \in Press : Heard(q, r)'
    BY <1>0, <2>1 DEF AnswersInv, Heard, waits, history
  <2> QED
    BY <2>3, <2>4, <2>5 DEF AnswersInv
<1>4. CASE Look(p)
  <2>1. /\ pc[p] = "look" /\ pc'[p] = (IF request THEN "take" ELSE "open") /\ (\A q \in Press : q # p => pc'[q] = pc[q])
        /\ UNCHANGED <<files, turns, owned, waits, history>>
    BY <1>0, <1>4 DEF Look, Go, At, SoleInv, TypeInv, SingleTypeOK
  <2>2. Taken'
    BY <1>0, <2>1 DEF Taken, files
  <2>3. \A q \in Press : Led(q)' /\ Picked(q)' /\ Free(q)'
    BY <2>1 DEF AnswersInv, Led, Picked, Free, turns, files, history
  <2>4. \A q, r \in Press : Heard(q, r)'
    BY <1>0, <2>1 DEF AnswersInv, Heard, files, waits, history
  <2> QED
    BY <2>2, <2>3, <2>4 DEF AnswersInv
<1>5. CASE Take(p)
  <2>1. /\ pc[p] = "take" /\ pc'[p] = "open" /\ (\A q \in Press : q # p => pc'[q] = pc[q])
        /\ request' = FALSE /\ shown' = Press /\ UNCHANGED <<lock, turns, owned, waits, gap, crashed>>
    BY <1>5 DEF Take, Go, At, SoleInv, TypeInv, SingleTypeOK
  <2>2. Taken'
    BY <1>0, <2>1 DEF Taken
  <2>3. \A q \in Press : Led(q)' /\ Picked(q)' /\ Free(q)'
    BY <2>1 DEF AnswersInv, Led, Picked, Free, turns
  <2>4. \A q, r \in Press : Heard(q, r)'
    BY <2>1 DEF Heard
  <2> QED
    BY <2>2, <2>3, <2>4 DEF AnswersInv
<1>6. CASE CloseWindow(p) \/ Release(p)
  <2>1. /\ pc[p] \in {"open", "closing"} /\ pc'[p] \in {"closing", "remove"} /\ (\A q \in Press : q # p => pc'[q] = pc[q])
        /\ UNCHANGED <<files, turns, waited, history>>
    BY <1>0, <1>6 DEF CloseWindow, Release, waits, Go, At, SoleInv, TypeInv, SingleTypeOK
  <2>2. Taken'
    BY <1>0, <2>1 DEF Taken, files
  <2>3. \A q \in Press : Led(q)' /\ Picked(q)' /\ Free(q)'
    BY <2>1 DEF AnswersInv, Led, Picked, Free, turns, files, history
  <2>4. \A q, r \in Press : Heard(q, r)'
    BY <1>0, <2>1 DEF AnswersInv, Heard, files, history
  <2> QED
    BY <2>2, <2>3, <2>4 DEF AnswersInv
<1>7. CASE Remove(p)
  <2>1. /\ pc[p] = "remove" /\ pc'[p] = "gone" /\ (\A q \in Press : q # p => pc'[q] = pc[q])
        /\ lock' = NoLock /\ NoLock' = NoLock /\ UNCHANGED <<request, turns, waits, history>>
    BY <1>7 DEF Remove, Go, At, SoleInv, TypeInv, SingleTypeOK, NoLock
  <2>2. Taken'
    BY <2>1 DEF Taken
  <2>3. \A q \in Press : Led(q)' /\ Picked(q)' /\ Free(q)'
    BY <2>1 DEF AnswersInv, Led, Picked, Free, turns, history
  <2>4. \A q, r \in Press : Heard(q, r)'
    BY <1>0, <2>1 DEF Heard
  <2> QED
    BY <2>2, <2>3, <2>4 DEF AnswersInv
<1> QED
  BY <1>1, <1>2, <1>3, <1>4, <1>5, <1>6, <1>7 DEF Beats

\* A second passes for the press that waits and for the window it waits for alike.
LEMMA AnswersTick ==
    ASSUME SoleInv, HolderKeeps, AnswersInv, Tick, gap' <= StaleS
    PROVE  AnswersInv'
<1> USE DEF Holds, Windowed, Closing, Acquiring
<1>0. /\ gap \in Nat /\ gap' \in Nat /\ StaleS \in Nat /\ waited \in [Press -> Nat] /\ beat \in [Press -> Nat]
  BY SingleAssumption, GapGrows DEF SoleInv, TypeInv, SingleTypeOK
<1>1. /\ UNCHANGED <<request, pc, turns, owned, crashed, shown>> /\ \A q \in Press : pc[q] \in Patient
      /\ lock' = [lock EXCEPT !.age = IF @ > StaleS THEN @ ELSE @ + 1]
  BY DEF Tick
<1>2. lock = NoLock => lock' = NoLock
  <2>1. lock = NoLock => lock.age > StaleS /\ [lock EXCEPT !.age = lock.age] = lock
    BY NoLockStale
  <2> QED
    BY <1>1, <2>1
<1>3. ASSUME lock # NoLock PROVE lock'.by = lock.by
  <2>1. PICK q \in Press : lock = [by |-> {q}, token |-> lock.token, age |-> lock.age]
    BY <1>3 DEF SoleInv, TypeInv, SingleTypeOK, Locks
  <2> QED
    BY <1>1, <2>1
<1>4. NoLock' = NoLock
  BY DEF NoLock
<1>5. Taken'
  BY <1>1, <1>2, <1>3, <1>4 DEF AnswersInv, Taken
<1>6. \A q \in Press : Led(q)' /\ Picked(q)' /\ Free(q)'
  BY <1>1, <1>2, <1>4 DEF AnswersInv, Led, Picked, Free, Patient
<1>7. ASSUME NEW q \in Press, NEW r \in Press, pc[q] = "wait", request, Holds(r)
      PROVE  waited'[q] <= gap' /\ waited'[q] <= beat'[r]
  <2>1. pc[r] \in {"starting", "open"} /\ r \in Alive
    BY <1>1, <1>7 DEF Patient, Alive
  <2>2. beat'[r] <= gap'
    BY <2>1, GapGrows DEF SoleInv, TypeInv
  <2>3. beat'[r] \in Nat /\ beat'[r] = IF beat[r] <= StaleS THEN beat[r] + 1 ELSE beat[r]
    BY <1>0, <2>1 DEF Tick
  <2>4. beat'[r] = beat[r] + 1
    BY <1>0, <2>2, <2>3
  <2>5. waited'[q] = waited[q] + 1
    BY <1>7 DEF Tick, At
  <2>6. waited[q] <= beat[r]
    BY <1>7, <2>1 DEF AnswersInv, Heard
  <2>7. waited[q] \in Nat /\ beat[r] \in Nat
    BY <1>0
  <2> QED
    BY <1>0, <2>2, <2>4, <2>5, <2>6, <2>7
<1>8. \A q, r \in Press : Heard(q, r)'
  BY <1>1, <1>7 DEF Heard
<1> QED
  BY <1>5, <1>6, <1>8 DEF AnswersInv

LEMMA AnswersInit == SingleInit => AnswersInv
  BY DEF SingleInit, AnswersInv, Taken, Led, Picked, Free, Heard, Holds, Windowed, Closing

\* Presses made one after another are each answered, a window or a message shown
\* since, while no window crashes or is silent for as long as a press waits, when
\* that is no longer than STALE_S (analyze, acquire, ask_to_show, heartbeat,
\* take_request and release, in any order of their file operations).
THEOREM EveryPressAnswered ==
    ASSUME MaxPressing = 1, AskS <= StaleS
    PROVE  SingleSpec => []PressAnswered
<1>1. SingleInit => AnsweredInv
  BY SoleInit, AnswersInit DEF AnsweredInv
<1>2. AnsweredInv /\ [SingleNext]_singleVars => AnsweredInv'
  <2> SUFFICES ASSUME AnsweredInv, [SingleNext]_singleVars PROVE AnsweredInv'
    OBVIOUS
  <2>1. SoleInv'
    BY SoleStep DEF AnsweredInv
  <2>2. ASSUME Served' PROVE AnswersInv'
    <3>1. gap <= gap' /\ gap \in Nat /\ gap' \in Nat
      BY GapStep DEF AnsweredInv, SoleInv
    <3>2. StaleS \in Nat /\ AskS \in Nat
      BY SingleAssumption
    <3>3. gap' <= StaleS /\ gap < AskS /\ gap <= StaleS
      BY <2>2, <3>1, <3>2 DEF Served
    <3>4. ~crashed
      BY <2>2 DEF Served, SingleNext, singleVars, Acquire, Takes, Asks, Appear, StartFails, Beats, Finishes, Create, Judge, JudgedStale,
            Unlink, Denied, WriteToken, ClearRequest, Ask, PickedUp, TimedOut, Heartbeat, Touch, Look, Take,
            CloseWindow, Release, Remove, Crash, Tick, history
    <3>5. HolderKeeps /\ AnswersInv
      BY <3>3, <3>4 DEF AnsweredInv, SoleInv, Served
    <3>6. ~\E p \in Press : Crash(p)
      BY <2>2 DEF Served, Crash
    <3>7. CASE UNCHANGED singleVars
      BY <3>5, <3>7 DEF singleVars, files, turns, waits, history, AnswersInv, Taken, Led, Picked, Free, Heard, Holds, NoLock
    <3> QED
      BY <2>1, <3>3, <3>5, <3>6, <3>7, AnswersAcquire, AnswersTakes, AnswersAsks, AnswersWindow, AnswersTick
      DEF SingleNext, Finishes, SoleInv, AnsweredInv
  <2> QED
    BY <2>1, <2>2 DEF AnsweredInv
<1>3. AnsweredInv => PressAnswered
  BY DEF AnsweredInv, AnswersInv, Served, PressAnswered, Answered, Led, At
<1> QED
  BY <1>1, <1>2, <1>3, PTL DEF SingleSpec
================================================================================
