-------------------------- MODULE EnginePipe_proofs --------------------------
(***************************************************************************)
(* Proofs about EnginePipe, for any number of callers and requests and any *)
(* capacity of the pipes.                                                  *)
(***************************************************************************)
EXTENDS EnginePipe, TLAPS

-----------------------------------------------------------------------------
(* Types.                                                                  *)

LEMMA PipeTypeInit == Init => TypeOK
<1> SUFFICES ASSUME Init PROVE TypeOK
  OBVIOUS
<1>. USE PipeAssumption DEF PipeAssumption, Init, NoId, Ids
<1>1. stdin \in Seq(Pieces) /\ Len(stdin) <= Capacity
  OBVIOUS
<1>2. stdout \in Seq(Pieces) /\ Len(stdout) <= Capacity
  OBVIOUS
<1>3. pc \in [Callers -> {"idle", "lock", "write", "body", "flush", "waiting", "pop", "tell"}]
      /\ rid \in [Callers -> Ids \cup {NoId}]
      /\ fut \in [Ids -> {"none", "waiting", "answered", "failed"}]
  OBVIOUS
<1>4. {got, out, hand} \subseteq Ids \cup {NoId}
  OBVIOUS
<1>5. serving \cup answers \cup read \cup sent \subseteq Ids
  OBVIOUS
<1>6. closed \in BOOLEAN /\ stdinOpen \in BOOLEAN
  OBVIOUS
<1>7. writing \in Callers \cup {Nobody} /\ pending \subseteq Ids /\ taken \subseteq Ids
  OBVIOUS
<1>8. nextId \in 1..(MaxId + 1)
  OBVIOUS
<1>9. /\ eng \in {"serving", "draining", "exited", "killed"}
      /\ rd \in {"header", "body", "match", "resolve", "take", "settle", "fail", "ended", "broken"}
  OBVIOUS
<1> QED
  BY ONLY <1>1, <1>2, <1>3, <1>4, <1>5, <1>6, <1>7, <1>8, <1>9 DEF TypeOK

\* Pieces go into a pipe and out of it.
LEMMA PipeGrows ==
    ASSUME NEW pipe \in Seq(Pieces), NEW i \in Ids, NEW half \in {"head", "body"},
           Len(pipe) < Capacity
    PROVE  /\ Append(pipe, <<i, half>>) \in Seq(Pieces)
           /\ Len(Append(pipe, <<i, half>>)) <= Capacity
<1>1. <<i, half>> \in Pieces
  BY DEF Pieces
<1> DEFINE e == <<i, half>>
<1>2. e \in Pieces
  BY <1>1
<1> HIDE DEF e
<1>3. Append(pipe, e) \in Seq(Pieces) /\ Len(Append(pipe, e)) = Len(pipe) + 1
  BY <1>2
<1>4. Len(pipe) \in Nat
  OBVIOUS
<1> QED
  BY <1>3, <1>4, PipeAssumption DEF e

LEMMA PipeShrinks ==
    ASSUME NEW pipe \in Seq(Pieces), pipe # <<>>, Len(pipe) <= Capacity
    PROVE  /\ Tail(pipe) \in Seq(Pieces)
           /\ Len(Tail(pipe)) <= Capacity
           /\ Head(pipe)[1] \in Ids
<1>1. Head(pipe) \in Pieces
  OBVIOUS
<1>2. Head(pipe)[1] \in Ids
  BY <1>1 DEF Pieces
<1>3. Tail(pipe) \in Seq(Pieces) /\ Len(Tail(pipe)) = Len(pipe) - 1
  OBVIOUS
<1>4. Len(pipe) \in Nat
  OBVIOUS
<1> QED
  BY <1>2, <1>3, <1>4, PipeAssumption

\* The ids of a caller that is in a request, and of half an answer, are ids.
Named ==
    /\ \A c \in Callers : pc[c] # "idle" => rid[c] \in Ids
    /\ rd \in {"body", "match", "resolve", "fail"} => hand \in Ids
    /\ rd = "fail" => hand \in taken

LEMMA TypesOfCallers ==
    ASSUME TypeOK, Named, NEW c \in Callers,
           Register(c) \/ CallerWorks(c) \/ TimeOut(c)
    PROVE  TypeOK' /\ Named'
<1>. USE PipeAssumption
<1>1. CASE Register(c)
  <2>. USE <1>1 DEF Register, Become, engine, reader
  <2>1. nextId \in Ids /\ nextId' \in 1..(MaxId + 1)
    BY DEF TypeOK, Ids
  <2>2. pc' \in [Callers -> {"idle", "lock", "write", "body", "flush", "waiting", "pop", "tell"}]
        /\ rid' \in [Callers -> Ids \cup {NoId}]
        /\ fut' \in [Ids -> {"none", "waiting", "answered", "failed"}]
    BY <2>1 DEF TypeOK
  <2>3. TypeOK'
    BY <2>1, <2>2 DEF TypeOK
  <2>4. Named'
    BY <2>1 DEF TypeOK, Named
  <2> QED
    BY <2>3, <2>4
<1>2. CASE TakeWriteLock(c)
  BY <1>2 DEF TakeWriteLock, Become, TypeOK, Named, book, engine, reader
<1>3. ASSUME NEW piece \in {"head", "body"}, NEW next \in {"body", "flush"},
             pc[c] # "idle", Write(c, piece, next)
      PROVE  TypeOK' /\ Named'
  <2>. USE <1>3 DEF Write, Become, book, engine, reader
  <2>1. rid[c] \in Ids
    BY DEF Named
  <2>2. stdin' \in Seq(Pieces) /\ Len(stdin') <= Capacity
    BY <2>1, PipeGrows DEF TypeOK
  <2>3. TypeOK'
    BY <2>2 DEF TypeOK
  <2>4. Named'
    BY DEF TypeOK, Named
  <2> QED
    BY <2>3, <2>4
<1>4. CASE WriteHead(c)
  BY <1>3, <1>4 DEF WriteHead
<1>5. CASE WriteBody(c)
  BY <1>3, <1>5 DEF WriteBody
<1>6. CASE Flush(c)
  BY <1>6 DEF Flush, Become, TypeOK, Named, book, engine, reader
<1>7. CASE WriteFails(c)
  BY <1>7 DEF WriteFails, Become, TypeOK, Named, book, engine, reader
<1>8. CASE Unregister(c)
  BY <1>8 DEF Unregister, Become, TypeOK, Named, engine, reader
<1>9. CASE TellFailure(c)
  <2>. USE <1>9 DEF TellFailure, Become, engine, reader
  <2>1. rid[c] \in Ids
    BY DEF Named
  <2>2. fut' \in [Ids -> {"none", "waiting", "answered", "failed"}]
    BY <2>1 DEF TypeOK
  <2> QED
    BY <2>2 DEF TypeOK, Named
<1>10. CASE Hear(c)
  BY <1>10 DEF Hear, Become, TypeOK, Named, book, engine, reader
<1>11. CASE TimeOut(c)
  BY <1>11 DEF TimeOut, Become, TypeOK, Named, book, engine, reader
<1> QED
  BY <1>1, <1>2, <1>4, <1>5, <1>6, <1>7, <1>8, <1>9, <1>10, <1>11 DEF CallerWorks
LEMMA TypesOfEngine ==
    ASSUME TypeOK, Named, EngineWorks \/ Close \/ Killed
    PROVE  TypeOK' /\ Named'
<1>. USE PipeAssumption
<1>1. CASE ReadHeader
  <2>. USE <1>1 DEF ReadHeader, caller, book, reader
  <2>1. stdin' \in Seq(Pieces) /\ Len(stdin') <= Capacity /\ got' \in Ids
    BY PipeShrinks DEF TypeOK
  <2> QED
    BY <2>1 DEF TypeOK, Named
<1>2. CASE ReadBody
  <2>. USE <1>2 DEF ReadBody, caller, book, reader
  <2>1. stdin' \in Seq(Pieces) /\ Len(stdin') <= Capacity
    BY PipeShrinks DEF TypeOK
  <2> QED
    BY <2>1 DEF TypeOK, Named
<1>3. CASE FinishAnswer
  <2>. USE <1>3 DEF FinishAnswer, caller, book, reader
  <2>1. out \in Ids
    BY DEF TypeOK
  <2>2. stdout' \in Seq(Pieces) /\ Len(stdout') <= Capacity
    BY <2>1, PipeGrows DEF TypeOK
  <2> QED
    BY <2>1, <2>2 DEF TypeOK, Named
<1>4. CASE EndOfInput
  BY <1>4 DEF EndOfInput, TypeOK, Named, caller, book, reader
<1>5. CASE Exit
  BY <1>5 DEF Exit, TypeOK, Named, caller, book, reader
<1>6. ASSUME NEW i \in Ids, Handled(i)
      PROVE  TypeOK' /\ Named'
  BY <1>6 DEF Handled, TypeOK, Named, caller, book, reader
<1>7. ASSUME NEW i \in Ids, StartAnswer(i)
      PROVE  TypeOK' /\ Named'
  <2>. USE <1>7 DEF StartAnswer, caller, book, reader
  <2>1. stdout' \in Seq(Pieces) /\ Len(stdout') <= Capacity
    BY PipeGrows DEF TypeOK
  <2> QED
    BY <2>1 DEF TypeOK, Named
<1>8. CASE Close
  BY <1>8 DEF Close, TypeOK, Named, caller, book, engine, reader
<1>9. CASE Killed
  <2>. USE <1>9 DEF Killed, caller, book, reader
  <2>1. stdin' \in Seq(Pieces) /\ Len(stdin') <= Capacity
    OBVIOUS
  <2> QED
    BY <2>1 DEF TypeOK, Named
<1> QED
  BY <1>1, <1>2, <1>3, <1>4, <1>5, <1>6, <1>7, <1>8, <1>9 DEF EngineWorks

LEMMA TypesOfReader ==
    ASSUME TypeOK, Named, ReaderWorks
    PROVE  TypeOK' /\ Named'
<1>. USE PipeAssumption DEF At, GoTo
<1>1. CASE AnswerHead
  <2>. USE <1>1 DEF AnswerHead, caller, book, engine
  <2>1. stdout' \in Seq(Pieces) /\ Len(stdout') <= Capacity /\ hand' \in Ids
    BY PipeShrinks DEF TypeOK
  <2> QED
    BY <2>1 DEF TypeOK, Named
<1>2. CASE AnswerBody
  <2>. USE <1>2 DEF AnswerBody, caller, book, engine
  <2>1. stdout' \in Seq(Pieces) /\ Len(stdout') <= Capacity
    BY PipeShrinks DEF TypeOK
  <2> QED
    BY <2>1 DEF TypeOK, Named
<1>3. CASE Match
  BY <1>3 DEF Match, TypeOK, Named, caller, engine
<1>4. CASE Resolve
  BY <1>4 DEF Resolve, TypeOK, Named, caller, engine
<1>5. CASE EndOfOutput
  BY <1>5 DEF EndOfOutput, TypeOK, Named, caller, book, engine
<1>6. CASE TakePending
  BY <1>6 DEF TakePending, TypeOK, Named, caller, engine
<1>7. CASE Look
  BY <1>7 DEF Look, TypeOK, Named, caller, book, engine
<1>8. CASE FailWaiter
  BY <1>8 DEF FailWaiter, TypeOK, Named, caller, engine
<1>9. CASE Ended
  BY <1>9 DEF Ended, TypeOK, Named, caller, book, engine
<1> QED
  BY <1>1, <1>2, <1>3, <1>4, <1>5, <1>6, <1>7, <1>8, <1>9 DEF ReaderWorks

LEMMA TypesStep == TypeOK /\ Named /\ [Next]_vars => TypeOK' /\ Named'
<1> SUFFICES ASSUME TypeOK, Named, [Next]_vars
             PROVE  TypeOK' /\ Named'
  OBVIOUS
<1>1. CASE UNCHANGED vars
  BY <1>1 DEF vars, caller, book, engine, reader, TypeOK, Named
<1> QED
  BY <1>1, TypesOfCallers, TypesOfEngine, TypesOfReader DEF Next

LEMMA TypesAlways == Spec => [](TypeOK /\ Named)
<1>1. Init => TypeOK /\ Named
  BY PipeTypeInit DEF Init, Named
<1> QED
  BY <1>1, TypesStep, PTL DEF Spec

\* The state of the pipe keeps its types, and no pipe holds more than it can.
THEOREM PipeTypeCorrect == Spec => []TypeOK
  BY TypesAlways, PTL

-----------------------------------------------------------------------------
(* Waiting.                                                                *)

\* Who holds the futures nobody has answered, and when the reader lets go.
HeldInv ==
    /\ WaiterHeld
    /\ closed => pending = {}
    /\ rd \in {"settle", "fail", "ended", "broken"} => closed
    /\ rd \notin {"settle", "fail", "broken"} => taken = {}

LEMMA HeldInit == Init => HeldInv
  BY DEF Init, HeldInv, WaiterHeld

LEMMA HeldByCallers ==
    ASSUME TypeOK, Named, HeldInv, NEW c \in Callers,
           Register(c) \/ CallerWorks(c) \/ TimeOut(c)
    PROVE  HeldInv'
<1>. USE PipeAssumption DEF Become
<1>1. CASE Register(c)
  <2>. USE <1>1 DEF Register, engine, reader
  <2>1. nextId \in Ids
    BY DEF TypeOK, Ids
  <2>2. ASSUME NEW d \in Callers, pc[d] = "tell"
        PROVE  pc'[d] = "tell" /\ rid'[d] = rid[d]
    BY <2>2 DEF TypeOK
  <2>3. WaiterHeld'
    BY <2>1, <2>2 DEF TypeOK, HeldInv, WaiterHeld
  <2> QED
    BY <2>3 DEF HeldInv
<1>2. ASSUME UNCHANGED <<book, reader, rid>>, pc[c] # "tell",
             \E s : pc' = [pc EXCEPT ![c] = s]
      PROVE  HeldInv'
  <2>1. ASSUME NEW d \in Callers, pc[d] = "tell"
        PROVE  pc'[d] = "tell" /\ rid'[d] = rid[d]
    BY <1>2, <2>1 DEF TypeOK
  <2> QED
    BY <1>2, <2>1 DEF HeldInv, WaiterHeld, book, reader
<1>3. CASE TakeWriteLock(c) \/ WriteHead(c) \/ WriteBody(c) \/ Flush(c) \/ WriteFails(c)
  BY <1>2, <1>3 DEF TakeWriteLock, WriteHead, WriteBody, Write, Flush, WriteFails
<1>4. CASE Unregister(c)
  <2>. USE <1>4 DEF Unregister, engine, reader
  <2>1. ASSUME NEW d \in Callers, pc[d] = "tell" \/ d = c
        PROVE  pc'[d] = "tell" /\ rid'[d] = rid[d]
    BY <2>1 DEF TypeOK
  <2>2. WaiterHeld'
    BY <2>1 DEF HeldInv, WaiterHeld
  <2> QED
    BY <2>2 DEF HeldInv
<1>5. CASE TellFailure(c)
  <2>. USE <1>5 DEF TellFailure, engine, reader
  <2>1. rid[c] \in Ids /\ fut'[rid[c]] # "waiting"
    BY DEF TypeOK, Named
  <2>2. ASSUME NEW d \in Callers, d # c
        PROVE  pc'[d] = pc[d] /\ rid'[d] = rid[d]
    BY <2>2 DEF TypeOK
  <2>3. ASSUME NEW i \in Ids, fut'[i] = "waiting"
        PROVE  fut[i] = "waiting" /\ i # rid[c]
    BY <2>1, <2>3 DEF TypeOK
  <2>4. WaiterHeld'
    BY <2>2, <2>3 DEF HeldInv, WaiterHeld
  <2> QED
    BY <2>4 DEF HeldInv
<1>6. CASE Hear(c) \/ TimeOut(c)
  <2>. USE <1>6 DEF Hear, TimeOut, book, engine, reader
  <2>1. ASSUME NEW d \in Callers, pc[d] = "tell"
        PROVE  pc'[d] = "tell" /\ rid'[d] = rid[d]
    BY <2>1 DEF TypeOK
  <2> QED
    BY <2>1 DEF HeldInv, WaiterHeld
<1> QED
  BY <1>1, <1>3, <1>4, <1>5, <1>6 DEF CallerWorks

LEMMA HeldByReader ==
    ASSUME TypeOK, Named, HeldInv, ReaderWorks
    PROVE  HeldInv'
<1>. USE DEF At, GoTo, caller, engine, HeldInv, WaiterHeld
<1>1. CASE AnswerHead \/ AnswerBody \/ EndOfOutput
  BY <1>1 DEF AnswerHead, AnswerBody, EndOfOutput, book
<1>2. CASE Match
  BY <1>2 DEF Match
<1>3. CASE Resolve
  <2>. USE <1>3 DEF Resolve
  <2>1. ASSUME NEW i \in Ids, fut'[i] = "waiting"
        PROVE  fut[i] = "waiting" /\ i # hand
    BY <2>1 DEF TypeOK
  <2> QED
    BY <2>1
<1>4. CASE TakePending
  BY <1>4 DEF TakePending
<1>5. CASE Look
  BY <1>5 DEF Look, book
<1>6. CASE FailWaiter
  <2>. USE <1>6 DEF FailWaiter
  <2>1. ASSUME NEW i \in Ids, fut'[i] = "waiting"
        PROVE  fut[i] = "waiting" /\ (taken' # taken => i # hand)
    BY <2>1 DEF TypeOK
  <2> QED
    BY <2>1
<1>7. CASE Ended
  BY <1>7 DEF Ended, book
<1> QED
  BY <1>1, <1>2, <1>3, <1>4, <1>5, <1>6, <1>7 DEF ReaderWorks

LEMMA HeldStep == TypeOK /\ Named /\ HeldInv /\ [Next]_vars => HeldInv'
<1> SUFFICES ASSUME TypeOK, Named, HeldInv, [Next]_vars
             PROVE  HeldInv'
  OBVIOUS
<1>1. ASSUME UNCHANGED <<caller, book, reader>>
      PROVE  HeldInv'
  BY <1>1 DEF HeldInv, WaiterHeld, caller, book, reader
<1>2. CASE EngineWorks \/ Close \/ Killed \/ UNCHANGED vars
  BY <1>1, <1>2 DEF EngineWorks, ReadHeader, ReadBody, FinishAnswer, EndOfInput,
     Exit, Handled, StartAnswer, Close, Killed, vars
<1> QED
  BY <1>2, HeldByCallers, HeldByReader DEF Next

\* engine.py, _read_loop's finally clause and request_async's test of _closed:
\* once the reader has ended in good order, nobody waits for an answer but a
\* caller that is about to fail its own request.
THEOREM PipeEndedLeavesNone == Spec => []EndedLeavesNone
<1>1. HeldInv => EndedLeavesNone
  BY DEF HeldInv, WaiterHeld, EndedLeavesNone
<1> QED
  BY <1>1, HeldInit, HeldStep, TypesAlways, PTL DEF Spec

-----------------------------------------------------------------------------
(* Frames.                                                                 *)

\* The last piece written to a pipe, whether or not it is still in it.
LastIn(half, pipe) == Before(half, pipe, Len(pipe) + 1)

\* A writer that goes on where the last piece left off keeps the frames.
LEMMA FramesGrow ==
    ASSUME NEW half, NEW pipe \in Seq(Pieces), InFrames(half, pipe), NEW e \in Pieces,
           IF LastIn(half, pipe)[2] = "head" THEN e = <<LastIn(half, pipe)[1], "body">>
                                             ELSE e[2] = "head"
    PROVE  /\ InFrames(half, Append(pipe, e))
           /\ LastIn(half, Append(pipe, e)) = e
<1> DEFINE q == Append(pipe, e)
<1>1. /\ q \in Seq(Pieces) /\ Len(q) = Len(pipe) + 1
      /\ \A k \in 1..Len(pipe) : q[k] = pipe[k]
      /\ q[Len(pipe) + 1] = e
      /\ Len(pipe) \in Nat
  OBVIOUS
<1> HIDE DEF q
<1>2. ASSUME NEW k \in 1..(Len(pipe) + 1)
      PROVE  Before(half, q, k) = Before(half, pipe, k)
  BY <1>1, <1>2 DEF Before
<1>3. InFrames(half, q)
  <2>1. SUFFICES ASSUME NEW k \in 1..Len(q)
                 PROVE  IF Before(half, q, k)[2] = "head"
                          THEN q[k] = <<Before(half, q, k)[1], "body">> ELSE q[k][2] = "head"
    BY DEF InFrames
  <2>2. CASE k = Len(pipe) + 1
    BY <1>1, <1>2, <2>2 DEF LastIn
  <2>3. CASE k # Len(pipe) + 1
    <3>1. k \in 1..Len(pipe)
      BY <1>1, <2>3
    <3> QED
      BY <1>1, <1>2, <3>1 DEF InFrames
  <2> QED
    BY <2>2, <2>3
<1>4. LastIn(half, q) = e
  BY <1>1 DEF LastIn, Before
<1> QED
  BY <1>3, <1>4 DEF q

\* What a reader takes out of a pipe, seen from the pieces that stay.
LEMMA TailOf ==
    ASSUME NEW pipe \in Seq(Pieces), pipe # <<>>
    PROVE  /\ Tail(pipe) \in Seq(Pieces) /\ Len(Tail(pipe)) = Len(pipe) - 1
           /\ Len(pipe) \in Nat \ {0}
           /\ \A k \in 1..Len(Tail(pipe)) : Tail(pipe)[k] = pipe[k + 1]
           /\ Head(pipe) = pipe[1] /\ Head(pipe) \in Pieces
  OBVIOUS

LEMMA ReadHalf ==
    ASSUME NEW pipe \in Seq(Pieces), pipe # <<>>, InFrames(NoId, pipe),
           NEW i, i = Head(pipe)[1]
    PROVE  /\ i \in Ids
           /\ InFrames(i, Tail(pipe))
           /\ LastIn(i, Tail(pipe)) = LastIn(NoId, pipe)
<1> DEFINE q == Tail(pipe)
<1>1. /\ q \in Seq(Pieces) /\ Len(q) = Len(pipe) - 1
      /\ Len(pipe) \in Nat \ {0}
      /\ \A k \in 1..Len(q) : q[k] = pipe[k + 1]
      /\ Head(pipe) = pipe[1] /\ Head(pipe) \in Pieces
  BY TailOf
<1> HIDE DEF q
<1>2. pipe[1][2] = "head"
  BY <1>1 DEF InFrames, Before
<1>3. i \in Ids /\ i # NoId /\ pipe[1] = <<i, "head">>
  <2>1. PICK a \in Ids, b \in {"head", "body"} : pipe[1] = <<a, b>>
    BY <1>1 DEF Pieces
  <2> QED
    BY <1>1, <1>2, <2>1, PipeAssumption DEF Ids, NoId
<1>4. ASSUME NEW k \in 1..(Len(q) + 1)
      PROVE  Before(i, q, k) = Before(NoId, pipe, k + 1)
  <2>1. CASE k = 1
    BY <1>1, <1>3, <2>1 DEF Before
  <2>2. CASE k # 1
    BY <1>1, <2>2 DEF Before
  <2> QED
    BY <2>1, <2>2
<1>5. InFrames(i, q)
  BY <1>1, <1>4 DEF InFrames
<1>6. LastIn(i, q) = LastIn(NoId, pipe)
  BY <1>1, <1>4 DEF LastIn
<1> QED
  BY <1>3, <1>5, <1>6 DEF q

LEMMA ReadRest ==
    ASSUME NEW pipe \in Seq(Pieces), pipe # <<>>, NEW i \in Ids, InFrames(i, pipe)
    PROVE  /\ Head(pipe) = <<i, "body">>
           /\ InFrames(NoId, Tail(pipe))
           /\ LastIn(NoId, Tail(pipe))[2] = LastIn(i, pipe)[2]
           /\ LastIn(i, pipe)[2] = "head" => LastIn(NoId, Tail(pipe)) = LastIn(i, pipe)
<1> DEFINE q == Tail(pipe)
<1>1. /\ q \in Seq(Pieces) /\ Len(q) = Len(pipe) - 1
      /\ Len(pipe) \in Nat \ {0}
      /\ \A k \in 1..Len(q) : q[k] = pipe[k + 1]
      /\ Head(pipe) = pipe[1] /\ Head(pipe) \in Pieces
  BY TailOf
<1> HIDE DEF q
<1>2. i # NoId
  BY PipeAssumption DEF Ids, NoId
<1>3. pipe[1] = <<i, "body">>
  BY <1>1, <1>2 DEF InFrames, Before
<1>4. ASSUME NEW k \in 2..(Len(q) + 1)
      PROVE  Before(NoId, q, k) = Before(i, pipe, k + 1)
  BY <1>1 DEF Before
<1>5. Before(NoId, q, 1)[2] = "body" /\ Before(i, pipe, 2)[2] = "body"
  BY <1>3 DEF Before
<1>6. InFrames(NoId, q)
  <2>1. SUFFICES ASSUME NEW k \in 1..Len(q)
                 PROVE  IF Before(NoId, q, k)[2] = "head"
                          THEN q[k] = <<Before(NoId, q, k)[1], "body">> ELSE q[k][2] = "head"
    BY DEF InFrames
  <2>2. k + 1 \in 1..Len(pipe) /\ q[k] = pipe[k + 1]
    BY <1>1
  <2>3. CASE k = 1
    BY <1>5, <2>2, <2>3 DEF InFrames
  <2>4. CASE k # 1
    <3>1. Before(NoId, q, k) = Before(i, pipe, k + 1)
      BY <1>1, <1>4, <2>4
    <3> QED
      BY <2>2, <3>1 DEF InFrames
  <2> QED
    BY <2>3, <2>4
<1>7. CASE Len(q) = 0
  <2>0. Len(pipe) = 1
    BY <1>1, <1>7
  <2>1. LastIn(NoId, q)[2] = "body"
    BY <1>5, <1>7 DEF LastIn
  <2>2. LastIn(i, pipe)[2] = "body"
    BY <1>5, <2>0 DEF LastIn
  <2> QED
    BY <1>1, <1>3, <1>6, <2>1, <2>2 DEF q
<1>8. CASE Len(q) # 0
  <2>1. LastIn(NoId, q) = LastIn(i, pipe)
    BY <1>1, <1>4, <1>8 DEF LastIn
  <2> QED
    BY <1>1, <1>3, <1>6, <2>1 DEF q
<1> QED
  BY <1>7, <1>8

\* Both pipes carry whole frames, and whoever is in the middle of one is the
\* one that goes on with it.
Writes(c) == pc[c] \in {"write", "body", "flush"}

FramesInv ==
    /\ FramesWhole
    /\ \A c \in Callers : Writes(c) => writing = c
    /\ Alive => /\ \A c \in Callers : pc[c] = "body" => LastIn(got, stdin) = <<rid[c], "head">>
                /\ LastIn(got, stdin)[2] = "head" => \E c \in Callers : pc[c] = "body"
                /\ out # NoId => LastIn(HalfAnswer, stdout) = <<out, "head">>
                /\ out = NoId => LastIn(HalfAnswer, stdout)[2] # "head"

LEMMA FramesInit == Init => FramesInv
<1> SUFFICES ASSUME Init PROVE FramesInv
  OBVIOUS
<1>1. Len(<<>>) = 0
  OBVIOUS
<1>2. LastIn(NoId, <<>>)[2] = "body"
  BY <1>1 DEF LastIn, Before
<1>3. FramesWhole
  BY <1>1 DEF Init, FramesWhole, InFrames, HalfAnswer
<1> QED
  BY <1>2, <1>3 DEF Init, FramesInv, Writes, HalfAnswer

LEMMA FramesByCallers ==
    ASSUME TypeOK, Named, FramesInv, NEW c \in Callers,
           Register(c) \/ CallerWorks(c) \/ TimeOut(c)
    PROVE  FramesInv'
<1>. USE PipeAssumption DEF Become
\* Steps outside the write: the pipe stays, and nobody starts or ends one.
<1>1. ASSUME UNCHANGED <<writing, stdin, engine, stdout, reader>>,
             ~Writes(c), \E s : s \notin {"write", "body", "flush"} /\ pc' = [pc EXCEPT ![c] = s],
             \A d \in Callers : d # c => rid'[d] = rid[d]
      PROVE  FramesInv'
  <2>1. ASSUME NEW d \in Callers
        PROVE  /\ Writes(d)' <=> Writes(d)
               /\ (pc'[d] = "body" <=> pc[d] = "body")
               /\ pc[d] = "body" => rid'[d] = rid[d]
    BY <1>1 DEF TypeOK, Writes
  <2>2. FramesWhole'
    BY <1>1 DEF FramesInv, FramesWhole, HalfAnswer, engine, reader
  <2> QED
    BY <1>1, <2>1, <2>2 DEF FramesInv, HalfAnswer, Alive, engine, reader
<1>2. CASE Register(c)
  BY <1>1, <1>2 DEF Register, Writes, TypeOK
<1>3. CASE Unregister(c)
  BY <1>1, <1>3 DEF Unregister, Writes, TypeOK
<1>4. CASE TellFailure(c)
  BY <1>1, <1>4 DEF TellFailure, Writes, TypeOK
<1>5. CASE Hear(c)
  BY <1>1, <1>5 DEF Hear, Writes, TypeOK
<1>6. CASE TimeOut(c)
  BY <1>1, <1>6 DEF TimeOut, Writes, TypeOK
\* Steps of the write that do not touch the pipe.
<1>7. ASSUME UNCHANGED <<rid, stdin, engine, stdout, reader>>,
             pc[c] # "body" \/ ~Alive,
             \E s \in {"write", "waiting", "pop"} : pc' = [pc EXCEPT ![c] = s],
             \A d \in Callers : Writes(d)' => writing' = d
      PROVE  FramesInv'
  <2>1. ASSUME NEW d \in Callers, Alive
        PROVE  pc'[d] = "body" <=> pc[d] = "body"
    BY <1>7, <2>1 DEF TypeOK
  <2>2. FramesWhole'
    BY <1>7 DEF FramesInv, FramesWhole, HalfAnswer, engine, reader
  <2> QED
    BY <1>7, <2>1, <2>2 DEF FramesInv, HalfAnswer, Alive, engine, reader
<1>8. CASE TakeWriteLock(c)
  <2>1. \A d \in Callers : ~Writes(d)
    BY <1>8 DEF TakeWriteLock, FramesInv
  <2>2. \A d \in Callers : Writes(d)' => writing' = d
    BY <1>8, <2>1 DEF TakeWriteLock, TypeOK, Writes
  <2> QED
    BY <1>7, <1>8, <2>2 DEF TakeWriteLock
<1>9. CASE Flush(c) \/ WriteFails(c)
  <2>1. Writes(c)
    BY <1>9 DEF Flush, WriteFails, Writes
  <2>2. \A d \in Callers : ~Writes(d)'
    BY <1>9, <2>1 DEF Flush, WriteFails, FramesInv, TypeOK, Writes
  <2> QED
    BY <1>7, <1>9, <2>2 DEF Flush, WriteFails
\* The write itself.
<1>10. CASE WriteHead(c) \/ WriteBody(c)
  <2>. USE <1>10 DEF WriteHead, WriteBody, Write, engine, reader, book
  <2>. DEFINE e == IF pc[c] = "write" THEN <<rid[c], "head">> ELSE <<rid[c], "body">>
  <2>1. rid[c] \in Ids /\ Alive /\ Writes(c) /\ pc[c] \in {"write", "body"}
    BY DEF Named, Writes
  <2>2. e \in Pieces
    BY <2>1 DEF Pieces
  <2>3. stdin' = Append(stdin, e)
    OBVIOUS
  <2>4. \A d \in Callers : Writes(d) => d = c
    BY <2>1 DEF FramesInv
  <2>5. IF LastIn(got, stdin)[2] = "head" THEN e = <<LastIn(got, stdin)[1], "body">>
                                          ELSE e[2] = "head"
    <3>1. CASE pc[c] = "write"
      <4>1. LastIn(got, stdin)[2] # "head"
        BY <2>1, <2>4, <3>1 DEF FramesInv, Writes
      <4> QED
        BY <3>1, <4>1
    <3>2. CASE pc[c] = "body"
      <4>1. LastIn(got, stdin) = <<rid[c], "head">>
        BY <2>1, <3>2 DEF FramesInv
      <4> QED
        BY <3>2, <4>1
    <3> QED
      BY <2>1, <3>1, <3>2
  <2>6. e[2] = "head" <=> pc[c] = "write"
    OBVIOUS
  <2>7. pc[c] = "write" => e = <<rid[c], "head">>
    OBVIOUS
  <2>8. pc' = [pc EXCEPT ![c] = IF pc[c] = "write" THEN "body" ELSE "flush"]
    OBVIOUS
  <2>. HIDE DEF e
  <2>9. InFrames(got, stdin') /\ LastIn(got, stdin') = e
    BY <2>2, <2>3, <2>5, FramesGrow DEF TypeOK, FramesInv, FramesWhole
  <2>10. FramesWhole'
    BY <2>9 DEF FramesWhole, FramesInv, HalfAnswer
  <2>11. \A d \in Callers : Writes(d)' => d = c
    BY <2>4, <2>8 DEF TypeOK, Writes
  <2>12. pc'[c] = "body" <=> pc[c] = "write"
    BY <2>1, <2>8 DEF TypeOK
  <2> QED
    BY <2>1, <2>6, <2>7, <2>9, <2>10, <2>11, <2>12 DEF FramesInv, HalfAnswer, Alive, Writes
<1> QED
  BY <1>2, <1>3, <1>4, <1>5, <1>6, <1>8, <1>9, <1>10 DEF CallerWorks

LEMMA FramesByEngine ==
    ASSUME TypeOK, Named, FramesInv, EngineWorks \/ Close \/ Killed
    PROVE  FramesInv'
<1>. USE PipeAssumption
<1>1. CASE ReadHeader
  <2>. USE <1>1 DEF ReadHeader, caller, book, reader
  <2>1. InFrames(NoId, stdin) /\ stdin \in Seq(Pieces)
    BY DEF FramesInv, FramesWhole, TypeOK
  <2>2. InFrames(got', stdin') /\ LastIn(got', stdin') = LastIn(got, stdin)
    BY <2>1, ReadHalf
  <2>3. FramesWhole'
    BY <2>2 DEF FramesInv, FramesWhole, HalfAnswer
  <2> QED
    BY <2>2, <2>3 DEF FramesInv, HalfAnswer, Alive, Writes
<1>2. CASE ReadBody
  <2>. USE <1>2 DEF ReadBody, caller, book, reader
  <2>1. InFrames(got, stdin) /\ stdin \in Seq(Pieces) /\ got \in Ids
    BY DEF FramesInv, FramesWhole, TypeOK
  <2>2. /\ InFrames(got', stdin')
        /\ LastIn(got', stdin')[2] = LastIn(got, stdin)[2]
        /\ LastIn(got, stdin)[2] = "head" => LastIn(got', stdin') = LastIn(got, stdin)
    BY <2>1, ReadRest
  <2>3. FramesWhole'
    BY <2>2 DEF FramesInv, FramesWhole, HalfAnswer
  <2>4. ASSUME NEW c \in Callers, pc[c] = "body", Alive
        PROVE  LastIn(got', stdin') = <<rid[c], "head">>
    BY <2>2, <2>4 DEF FramesInv
  <2> QED
    BY <2>2, <2>3, <2>4 DEF FramesInv, HalfAnswer, Alive, Writes
\* An answer goes out in two pieces under the frame lock.
<1>3. ASSUME NEW e \in Pieces, Alive, stdout' = Append(stdout, e),
             UNCHANGED <<caller, stdin, eng, got, reader>>,
             IF LastIn(HalfAnswer, stdout)[2] = "head"
               THEN e = <<LastIn(HalfAnswer, stdout)[1], "body">> ELSE e[2] = "head",
             out' # NoId => e = <<out', "head">>, out' = NoId => e[2] # "head"
      PROVE  FramesInv'
  <2>1. HalfAnswer' = HalfAnswer
    BY <1>3 DEF HalfAnswer, reader
  <2>2. InFrames(HalfAnswer, stdout') /\ LastIn(HalfAnswer, stdout') = e
    BY <1>3, FramesGrow DEF TypeOK, FramesInv, FramesWhole
  <2>3. FramesWhole'
    BY <1>3, <2>1, <2>2 DEF FramesInv, FramesWhole
  <2> QED
    BY <1>3, <2>1, <2>2, <2>3 DEF FramesInv, Alive, Writes, caller
<1>4. ASSUME NEW i \in Ids, StartAnswer(i)
      PROVE  FramesInv'
  <2>. USE <1>4 DEF StartAnswer
  <2>. DEFINE e == <<i, "head">>
  <2>1. e \in Pieces /\ e[2] = "head" /\ stdout' = Append(stdout, e) /\ e = <<out', "head">>
    BY DEF Pieces
  <2>2. i # NoId
    BY DEF Ids, NoId
  <2>. HIDE DEF e
  <2>3. LastIn(HalfAnswer, stdout)[2] # "head"
    BY DEF FramesInv
  <2> QED
    BY <1>3, <2>1, <2>2, <2>3
<1>5. CASE FinishAnswer
  <2>. USE <1>5 DEF FinishAnswer
  <2>. DEFINE e == <<out, "body">>
  <2>1. LastIn(HalfAnswer, stdout) = <<out, "head">>
    BY DEF FramesInv
  <2>2. out \in Ids
    BY DEF TypeOK
  <2>3. /\ e \in Pieces /\ e[2] # "head" /\ stdout' = Append(stdout, e)
        /\ LastIn(HalfAnswer, stdout)[2] = "head"
        /\ e = <<LastIn(HalfAnswer, stdout)[1], "body">>
    BY <2>1, <2>2 DEF Pieces
  <2>. HIDE DEF e
  <2> QED
    BY <1>3, <2>3
<1>6. ASSUME UNCHANGED <<caller, stdin, got, out, stdout, reader>>, Alive' => Alive
      PROVE  FramesInv'
  <2>1. FramesWhole'
    BY <1>6 DEF FramesInv, FramesWhole, HalfAnswer, reader
  <2> QED
    BY <1>6, <2>1 DEF FramesInv, HalfAnswer, Writes, caller, reader
<1>7. CASE EndOfInput \/ Exit \/ Close \/ \E i \in Ids : Handled(i)
  BY <1>6, <1>7 DEF EndOfInput, Exit, Close, Handled, Alive, engine
<1>8. CASE Killed
  <2>. USE <1>8 DEF Killed, caller, reader
  <2>1. InFrames(got', stdin')
    BY DEF InFrames
  <2>2. FramesWhole'
    BY <2>1 DEF FramesInv, FramesWhole, HalfAnswer
  <2> QED
    BY <2>2 DEF FramesInv, Alive, Writes
<1> QED
  BY <1>1, <1>2, <1>4, <1>5, <1>7, <1>8 DEF EngineWorks

LEMMA FramesByReader ==
    ASSUME TypeOK, Named, FramesInv, ReaderWorks
    PROVE  FramesInv'
<1>. USE PipeAssumption DEF At, GoTo
<1>1. CASE AnswerHead
  <2>. USE <1>1 DEF AnswerHead, caller, book, engine
  <2>1. HalfAnswer = NoId /\ HalfAnswer' = hand' /\ hand' = Head(stdout)[1]
    BY DEF HalfAnswer
  <2>2. InFrames(hand', stdout') /\ LastIn(hand', stdout') = LastIn(NoId, stdout)
    BY <2>1, ReadHalf DEF FramesInv, FramesWhole, TypeOK
  <2>3. FramesWhole'
    BY <2>1, <2>2 DEF FramesInv, FramesWhole
  <2> QED
    BY <2>1, <2>2, <2>3 DEF FramesInv, Alive, Writes
<1>2. CASE AnswerBody
  <2>. USE <1>2 DEF AnswerBody, caller, book, engine
  <2>1. HalfAnswer = hand /\ HalfAnswer' = NoId /\ hand \in Ids
    BY DEF HalfAnswer, Named
  <2>2. /\ InFrames(NoId, stdout')
        /\ LastIn(NoId, stdout')[2] = LastIn(hand, stdout)[2]
        /\ LastIn(hand, stdout)[2] = "head" => LastIn(NoId, stdout') = LastIn(hand, stdout)
    BY <2>1, ReadRest DEF FramesInv, FramesWhole, TypeOK
  <2>3. FramesWhole'
    BY <2>1, <2>2 DEF FramesInv, FramesWhole
  <2>4. ASSUME Alive, out # NoId
        PROVE  LastIn(NoId, stdout') = <<out, "head">>
    BY <2>1, <2>2, <2>4 DEF FramesInv
  <2> QED
    BY <2>1, <2>2, <2>3, <2>4 DEF FramesInv, Alive, Writes
<1>3. CASE EndOfOutput
  <2>. USE <1>3 DEF EndOfOutput, caller, book, engine
  <2>1. InFrames(HalfAnswer', stdout')
    BY DEF InFrames
  <2>2. FramesWhole'
    BY <2>1 DEF FramesInv, FramesWhole
  <2> QED
    BY <2>2 DEF FramesInv, Alive, Writes
<1>4. ASSUME UNCHANGED <<caller, stdin, engine, stdout>>, HalfAnswer' = HalfAnswer
      PROVE  FramesInv'
  <2>1. FramesWhole'
    BY <1>4 DEF FramesInv, FramesWhole, engine
  <2> QED
    BY <1>4, <2>1 DEF FramesInv, Alive, Writes, caller, engine
<1>5. CASE Match \/ Resolve \/ TakePending \/ Look \/ FailWaiter \/ Ended
  BY <1>4, <1>5 DEF Match, Resolve, TakePending, Look, FailWaiter, Ended, HalfAnswer
<1> QED
  BY <1>1, <1>2, <1>3, <1>5 DEF ReaderWorks

LEMMA FramesStep == TypeOK /\ Named /\ FramesInv /\ [Next]_vars => FramesInv'
<1> SUFFICES ASSUME TypeOK, Named, FramesInv, [Next]_vars
             PROVE  FramesInv'
  OBVIOUS
<1>1. CASE UNCHANGED vars
  <2>1. FramesWhole'
    BY <1>1 DEF FramesInv, FramesWhole, HalfAnswer, vars, engine, reader
  <2> QED
    BY <1>1, <2>1 DEF FramesInv, HalfAnswer, Alive, Writes, vars, caller, engine, reader
<1> QED
  BY <1>1, FramesByCallers, FramesByEngine, FramesByReader DEF Next

LEMMA FramesAlways == Spec => []FramesInv
  BY FramesInit, FramesStep, TypesAlways, PTL DEF Spec

\* frameWriter.write and request_async's write lock: however many answers and
\* requests are written at once, and wherever the engine is killed, both
\* readers find whole frames.
THEOREM PipeFramesWhole == Spec => []FramesWhole
<1>1. FramesInv => FramesWhole
  BY DEF FramesInv
<1> QED
  BY <1>1, FramesAlways, PTL

-----------------------------------------------------------------------------
(* Answers.                                                                *)

\* An answer is written before its future is set: in the pipe, in the
\* reader's hand, or set.
SentInv ==
    /\ AnsweredBySent
    /\ rd \in {"match", "resolve"} => hand \in sent
    /\ \A k \in 1..Len(stdout) : stdout[k][2] = "body" => stdout[k][1] \in sent

LEMMA SentInit == Init => SentInv
  BY DEF Init, SentInv, AnsweredBySent

LEMMA SentByPipes ==
    ASSUME TypeOK, Named, FramesInv, SentInv,
           FinishAnswer \/ AnswerHead \/ AnswerBody \/ \E i \in Ids : StartAnswer(i)
    PROVE  SentInv'
<1>. USE PipeAssumption DEF At, GoTo
<1>1. ASSUME NEW e \in Pieces, stdout' = Append(stdout, e), sent \subseteq sent',
             e[2] = "body" => e[1] \in sent', UNCHANGED <<fut, rd, hand>>
      PROVE  SentInv'
  <2>1. /\ Len(stdout') = Len(stdout) + 1 /\ Len(stdout) \in Nat
        /\ stdout'[Len(stdout) + 1] = e
        /\ \A k \in 1..Len(stdout) : stdout'[k] = stdout[k]
    BY <1>1 DEF TypeOK
  <2>2. ASSUME NEW k \in 1..Len(stdout'), stdout'[k][2] = "body"
        PROVE  stdout'[k][1] \in sent'
    <3>1. CASE k = Len(stdout) + 1
      BY <1>1, <2>1, <2>2, <3>1
    <3>2. CASE k # Len(stdout) + 1
      <4>1. k \in 1..Len(stdout)
        BY <2>1, <3>2
      <4> QED
        BY <1>1, <2>1, <2>2, <4>1 DEF SentInv
    <3> QED
      BY <3>1, <3>2
  <2> QED
    BY <1>1, <2>2 DEF SentInv, AnsweredBySent
<1>2. ASSUME NEW i \in Ids, StartAnswer(i)
      PROVE  SentInv'
  <2>. USE <1>2 DEF StartAnswer, book, reader
  <2>. DEFINE e == <<i, "head">>
  <2>1. e \in Pieces /\ e[2] # "body" /\ stdout' = Append(stdout, e)
    BY DEF Pieces
  <2>. HIDE DEF e
  <2> QED
    BY <1>1, <2>1
<1>3. CASE FinishAnswer
  <2>. USE <1>3 DEF FinishAnswer, book, reader
  <2>. DEFINE e == <<out, "body">>
  <2>1. out \in Ids
    BY DEF TypeOK
  <2>2. e \in Pieces /\ e[1] \in sent' /\ stdout' = Append(stdout, e)
    BY <2>1 DEF Pieces
  <2>. HIDE DEF e
  <2> QED
    BY <1>1, <2>2
<1>4. ASSUME stdout # <<>>, stdout' = Tail(stdout), UNCHANGED sent
      PROVE  \A k \in 1..Len(stdout') : stdout'[k][2] = "body" => stdout'[k][1] \in sent'
  <2>1. /\ Len(stdout') = Len(stdout) - 1 /\ Len(stdout) \in Nat
        /\ \A k \in 1..Len(stdout') : stdout'[k] = stdout[k + 1]
    BY <1>4, TailOf DEF TypeOK
  <2>2. ASSUME NEW k \in 1..Len(stdout')
        PROVE  k + 1 \in 1..Len(stdout)
    BY <2>1
  <2> QED
    BY <1>4, <2>1, <2>2 DEF SentInv
<1>5. CASE AnswerHead
  <2>1. \A k \in 1..Len(stdout') : stdout'[k][2] = "body" => stdout'[k][1] \in sent'
    BY <1>4, <1>5 DEF AnswerHead, engine
  <2> QED
    BY <1>5, <2>1 DEF AnswerHead, SentInv, AnsweredBySent, book, engine
<1>6. CASE AnswerBody
  <2>. USE <1>6 DEF AnswerBody, book, engine
  <2>1. \A k \in 1..Len(stdout') : stdout'[k][2] = "body" => stdout'[k][1] \in sent'
    BY <1>4
  <2>2. InFrames(hand, stdout) /\ hand \in Ids /\ stdout \in Seq(Pieces)
    BY DEF FramesInv, FramesWhole, HalfAnswer, Named, TypeOK
  <2>3. Head(stdout) = <<hand, "body">>
    BY <2>2, ReadRest
  <2>4. Head(stdout) = stdout[1] /\ 1 \in 1..Len(stdout)
    BY <2>2, TailOf
  <2>5. hand \in sent
    BY <2>3, <2>4 DEF SentInv
  <2> QED
    BY <2>1, <2>5 DEF SentInv, AnsweredBySent
<1> QED
  BY <1>2, <1>3, <1>5, <1>6

LEMMA SentStep == TypeOK /\ Named /\ FramesInv /\ SentInv /\ [Next]_vars => SentInv'
<1> SUFFICES ASSUME TypeOK, Named, FramesInv, SentInv, [Next]_vars
             PROVE  SentInv'
  OBVIOUS
\* Nothing is answered but by the reader.
<1>1. ASSUME UNCHANGED <<stdout, sent, rd, hand>>,
             \A i \in Ids : fut'[i] = "answered" => fut[i] = "answered"
      PROVE  SentInv'
  BY <1>1 DEF SentInv, AnsweredBySent
<1>2. ASSUME NEW c \in Callers, Register(c) \/ TellFailure(c)
      PROVE  SentInv'
  <2>1. \A i \in Ids : fut'[i] = "answered" => fut[i] = "answered"
    BY <1>2 DEF Register, TellFailure, TypeOK
  <2> QED
    BY <1>1, <1>2, <2>1 DEF Register, TellFailure, engine, reader
<1>3. ASSUME UNCHANGED <<fut, stdout, sent>>, rd' \notin {"match", "resolve"} \/ UNCHANGED <<rd, hand>>
      PROVE  SentInv'
  BY <1>3 DEF SentInv, AnsweredBySent
<1>4. ASSUME NEW c \in Callers,
             TakeWriteLock(c) \/ WriteHead(c) \/ WriteBody(c) \/ Flush(c)
             \/ WriteFails(c) \/ Unregister(c) \/ Hear(c) \/ TimeOut(c)
      PROVE  SentInv'
  BY <1>3, <1>4 DEF TakeWriteLock, WriteHead, WriteBody, Write, Flush, WriteFails,
     Unregister, Hear, TimeOut, book, engine, reader
<1>5. CASE Close \/ Killed \/ ReadHeader \/ ReadBody \/ EndOfInput \/ Exit
           \/ (\E i \in Ids : Handled(i)) \/ UNCHANGED vars
  BY <1>3, <1>5 DEF Close, Killed, ReadHeader, ReadBody, EndOfInput, Exit, Handled,
     vars, book, engine, reader
<1>6. CASE EndOfOutput \/ TakePending \/ Look \/ Ended
  BY <1>3, <1>6 DEF EndOfOutput, TakePending, Look, Ended, GoTo, book, engine, TypeOK, At
<1>7. CASE FailWaiter
  <2>1. \A i \in Ids : fut'[i] = "answered" => fut[i] = "answered"
    BY <1>7 DEF FailWaiter, TypeOK
  <2> QED
    BY <1>7, <2>1 DEF FailWaiter, GoTo, SentInv, AnsweredBySent, engine
<1>8. CASE Match
  BY <1>8 DEF Match, At, GoTo, SentInv, AnsweredBySent, engine
<1>9. CASE Resolve
  <2>1. \A i \in Ids : fut'[i] = "answered" => fut[i] = "answered" \/ i = hand
    BY <1>9 DEF Resolve, TypeOK
  <2> QED
    BY <1>9, <2>1 DEF Resolve, At, GoTo, SentInv, AnsweredBySent, engine
<1> QED
  BY <1>2, <1>4, <1>5, <1>6, <1>7, <1>8, <1>9, SentByPipes
     DEF Next, CallerWorks, EngineWorks, ReaderWorks

\* The id echoed in an answer: a future is answered only by the answer that
\* the engine wrote for its own request.
THEOREM PipeAnswersItsOwn == Spec => []AnsweredBySent
<1>1. SentInv => AnsweredBySent
  BY DEF SentInv
<1> QED
  BY <1>1, SentInit, SentStep, TypesAlways, FramesAlways, PTL DEF Spec

\* What the engine has read and not answered is in one of its goroutines.
ServedInv == eng # "killed" => read \subseteq sent \cup serving \cup answers \cup {out}

LEMMA ServedStep == TypeOK /\ ServedInv /\ [Next]_vars => ServedInv'
<1> SUFFICES ASSUME TypeOK, ServedInv, [Next]_vars
             PROVE  ServedInv'
  OBVIOUS
<1>1. ASSUME UNCHANGED engine
      PROVE  ServedInv'
  BY <1>1 DEF ServedInv, engine
<1>2. ASSUME NEW c \in Callers, Register(c) \/ CallerWorks(c) \/ TimeOut(c)
      PROVE  ServedInv'
  BY <1>1, <1>2 DEF Register, CallerWorks, TimeOut, TakeWriteLock, WriteHead, WriteBody,
     Write, Flush, WriteFails, Unregister, TellFailure, Hear
<1>3. CASE ReaderWorks \/ Close \/ UNCHANGED vars
  BY <1>1, <1>3 DEF ReaderWorks, AnswerHead, AnswerBody, Match, Resolve, EndOfOutput,
     TakePending, Look, FailWaiter, Ended, Close, vars
<1>4. CASE ReadHeader \/ ReadBody \/ EndOfInput \/ Exit \/ Killed \/ FinishAnswer
           \/ \E i \in Ids : Handled(i)
  BY <1>4 DEF ServedInv, ReadHeader, ReadBody, EndOfInput, Exit, Killed, FinishAnswer, Handled
<1>5. ASSUME NEW i \in Ids, StartAnswer(i)
      PROVE  ServedInv'
  <2>1. 0 \notin read
    BY DEF TypeOK, Ids
  <2> QED
    BY <1>5, <2>1 DEF ServedInv, StartAnswer, NoId
<1> QED
  BY <1>2, <1>3, <1>4, <1>5 DEF Next, EngineWorks

\* An engine that has exited by itself has nothing left to answer.
ExitInv == eng = "exited" => AllAnswered

LEMMA ExitStep == ExitInv /\ [Next]_vars => ExitInv'
<1> SUFFICES ASSUME ExitInv, [Next]_vars
             PROVE  ExitInv'
  OBVIOUS
<1>1. ASSUME UNCHANGED engine
      PROVE  ExitInv'
  BY <1>1 DEF ExitInv, AllAnswered, engine
<1>2. ASSUME NEW c \in Callers, Register(c) \/ CallerWorks(c) \/ TimeOut(c)
      PROVE  ExitInv'
  BY <1>1, <1>2 DEF Register, CallerWorks, TimeOut, TakeWriteLock, WriteHead, WriteBody,
     Write, Flush, WriteFails, Unregister, TellFailure, Hear
<1>3. CASE ReaderWorks \/ Close \/ UNCHANGED vars
  BY <1>1, <1>3 DEF ReaderWorks, AnswerHead, AnswerBody, Match, Resolve, EndOfOutput,
     TakePending, Look, FailWaiter, Ended, Close, vars
<1>4. CASE EngineWorks \/ Killed
  BY <1>4 DEF EngineWorks, ExitInv, Alive, AllAnswered, ReadHeader, ReadBody, EndOfInput,
     Exit, Killed, FinishAnswer, Handled, StartAnswer
<1> QED
  BY <1>2, <1>3, <1>4 DEF Next

\* Serve's doc: it returns "only after every request already read has been
\* answered".
THEOREM PipeServedBeforeExit == Spec => []ServedBeforeExit
<1>1. Init => ServedInv /\ ExitInv
  BY DEF Init, ServedInv, ExitInv
<1>2. TypeOK /\ ServedInv /\ ExitInv => ServedBeforeExit
  <2> SUFFICES ASSUME TypeOK, ServedInv, ExitInv, eng = "exited"
               PROVE  read \subseteq sent
    BY DEF ServedBeforeExit
  <2>1. 0 \notin read
    BY DEF TypeOK, Ids
  <2> QED
    BY <2>1 DEF ServedInv, ExitInv, AllAnswered, NoId
<1> QED
  BY <1>1, <1>2, ServedStep, ExitStep, TypesAlways, PTL DEF Spec

=============================================================================
