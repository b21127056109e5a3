----------------------------- MODULE EnginePipe -----------------------------
(***************************************************************************)
(* pipehttp/pipehttp.go and kicad-plugin/.../engine.py: the plugin starts  *)
(* the engine as a child process and any of its threads may ask it         *)
(* something.  Requests go down one pipe and answers come back up another, *)
(* in whatever order they finish, matched to their question by id.  The    *)
(* plugin may close the pipe and the engine may be killed at any time.     *)
(* A frame crosses a pipe in two pieces; what is in it is left out.        *)
(***************************************************************************)
EXTENDS Integers, Sequences

CONSTANTS
    Callers,        \* the threads of the plugin that make requests
    MaxId,          \* bound: requests made in a behaviour
    Capacity,       \* bound: pieces of frames a pipe holds
    Nobody          \* no caller holds the write lock

NoId == 0
Ids  == 1..MaxId
Pieces == Ids \X {"head", "body"}

ASSUME PipeAssumption ==
    /\ MaxId \in Nat
    /\ Capacity \in Nat \ {0}
    /\ Nobody \notin Callers

VARIABLES
    pc, rid,            \* where each caller is in request(), and its rid
    nextId, pending, closed,    \* _next_id, the keys of _pending, _closed
    fut,                \* the Future of each id
    writing,            \* _write_lock: the caller that holds it
    stdin, stdinOpen,   \* the pipe to the engine; the plugin has not closed it
    eng,                \* the process and Serve's read loop
    got,                \* Serve: a header is read and its body is not
    serving, answers,   \* the goroutines in serveOne and in frameWriter.write
    out,                \* frameWriter.mu: the answer that is half written
    read, sent,         \* history: requests read, and answers written, whole
    stdout,             \* the pipe from the engine
    rd, hand, taken     \* _read_loop: where it is, the id of the answer or
                        \* future it has in hand, and the futures it must fail

caller == <<pc, rid, writing>>
book   == <<nextId, pending, closed, fut>>
engine == <<eng, got, serving, answers, out, read, sent>>
reader == <<rd, hand, taken>>
vars   == <<caller, book, stdin, stdinOpen, engine, stdout, reader>>

Alive == eng \in {"serving", "draining"}

Init ==
    /\ pc = [c \in Callers |-> "idle"] /\ rid = [c \in Callers |-> NoId]
    /\ nextId = 1 /\ pending = {} /\ closed = FALSE
    /\ fut = [i \in Ids |-> "none"]
    /\ writing = Nobody
    /\ stdin = <<>> /\ stdinOpen = TRUE
    /\ eng = "serving" /\ got = NoId /\ serving = {} /\ answers = {} /\ out = NoId
    /\ read = {} /\ sent = {}
    /\ stdout = <<>>
    /\ rd = "header" /\ hand = NoId /\ taken = {}

(***************************************************************************)
(* A caller: request_async, and request, which waits for its Future.       *)
(***************************************************************************)
Become(c, where) == pc' = [pc EXCEPT ![c] = where]

\* Mutant: the request is registered without a look at _closed.
RegisterUnlooked(c) ==
    /\ pc[c] = "idle"
    /\ nextId <= MaxId
    /\ nextId' = nextId + 1
    /\ rid' = [rid EXCEPT ![c] = nextId]
    /\ pending' = pending \cup {nextId}
    /\ fut' = [fut EXCEPT ![nextId] = "waiting"]
    /\ Become(c, "lock")
    /\ UNCHANGED <<writing, closed, stdin, stdinOpen, engine, stdout, reader>>

\* A request made after the reader has ended is refused and takes no id.
Register(c) ==
    /\ pc[c] = "idle" /\ ~closed
    /\ nextId <= MaxId
    /\ nextId' = nextId + 1
    /\ rid' = [rid EXCEPT ![c] = nextId]
    /\ pending' = pending \cup {nextId}
    /\ fut' = [fut EXCEPT ![nextId] = "waiting"]
    /\ Become(c, "lock")
    /\ UNCHANGED <<writing, closed, stdin, stdinOpen, engine, stdout, reader>>

\* Mutant: frames are written without the lock.
TakeNoLock(c) ==
    /\ pc[c] = "lock"
    /\ Become(c, "write")
    /\ UNCHANGED <<rid, writing, book, stdin, stdinOpen, engine, stdout, reader>>

TakeWriteLock(c) ==
    /\ pc[c] = "lock" /\ writing = Nobody
    /\ writing' = c
    /\ Become(c, "write")
    /\ UNCHANGED <<rid, book, stdin, stdinOpen, engine, stdout, reader>>

\* One write of the whole frame, which the pipe takes in two pieces.  A write
\* that has started goes on when another thread closes the file.
Write(c, piece, next) ==
    /\ Alive /\ Len(stdin) < Capacity
    /\ stdin' = Append(stdin, <<rid[c], piece>>)
    /\ Become(c, next)
    /\ UNCHANGED <<rid, writing, book, stdinOpen, engine, stdout, reader>>

WriteHead(c) == pc[c] = "write" /\ stdinOpen /\ Write(c, "head", "body")
WriteBody(c) == pc[c] = "body" /\ Write(c, "body", "flush")

\* flush() of an open pipe does nothing; of a closed one it raises.
Flush(c) ==
    /\ pc[c] = "flush" /\ stdinOpen
    /\ writing' = Nobody
    /\ Become(c, "waiting")
    /\ UNCHANGED <<rid, book, stdin, stdinOpen, engine, stdout, reader>>

\* A broken pipe, or a file another thread has closed.
WriteFails(c) ==
    /\ \/ pc[c] = "write" /\ (~stdinOpen \/ ~Alive)
       \/ pc[c] = "body" /\ ~Alive
       \/ pc[c] = "flush" /\ ~stdinOpen
    /\ writing' = Nobody
    /\ Become(c, "pop")
    /\ UNCHANGED <<rid, book, stdin, stdinOpen, engine, stdout, reader>>

Unregister(c) ==
    /\ pc[c] = "pop"
    /\ pending' = pending \ {rid[c]}
    /\ Become(c, "tell")
    /\ UNCHANGED <<rid, writing, nextId, closed, fut, stdin, stdinOpen, engine, stdout, reader>>

\* set_exception raises InvalidStateError, to the caller, on a Future that
\* is done; either way the caller hears.
TellFailure(c) ==
    /\ pc[c] = "tell"
    /\ fut' = [fut EXCEPT ![rid[c]] = IF @ = "waiting" THEN "failed" ELSE @]
    /\ Become(c, "idle")
    /\ rid' = [rid EXCEPT ![c] = NoId]
    /\ UNCHANGED <<writing, nextId, pending, closed, stdin, stdinOpen, engine, stdout, reader>>

Hear(c) ==
    /\ pc[c] = "waiting" /\ fut[rid[c]] # "waiting"
    /\ Become(c, "idle")
    /\ rid' = [rid EXCEPT ![c] = NoId]
    /\ UNCHANGED <<writing, book, stdin, stdinOpen, engine, stdout, reader>>

\* result(timeout) gives up; the Future stays and may be answered late.
TimeOut(c) ==
    /\ pc[c] = "waiting" /\ fut[rid[c]] = "waiting"
    /\ Become(c, "idle")
    /\ rid' = [rid EXCEPT ![c] = NoId]
    /\ UNCHANGED <<writing, book, stdin, stdinOpen, engine, stdout, reader>>

\* close(): stdin first, then the engine is waited for, and killed after that.
Close ==
    /\ stdinOpen
    /\ stdinOpen' = FALSE
    /\ UNCHANGED <<caller, book, stdin, engine, stdout, reader>>

(***************************************************************************)
(* The engine: Serve, one goroutine per request, and the frame writer.     *)
(***************************************************************************)
ReadHeader ==
    /\ eng = "serving" /\ got = NoId /\ stdin # <<>>
    /\ got' = Head(stdin)[1]
    /\ stdin' = Tail(stdin)
    /\ UNCHANGED <<caller, book, stdinOpen, eng, serving, answers, out, read, sent, stdout, reader>>

ReadBody ==
    /\ eng = "serving" /\ got # NoId /\ stdin # <<>>
    /\ stdin' = Tail(stdin)
    /\ serving' = serving \cup {got}
    /\ read' = read \cup {got}
    /\ got' = NoId
    /\ UNCHANGED <<caller, book, stdinOpen, eng, answers, out, sent, stdout, reader>>

\* Mutant: a handler that panics takes its goroutine with it.
HandledOrLost(i) ==
    /\ Alive /\ i \in serving
    /\ serving' = serving \ {i}
    /\ answers' \in {answers, answers \cup {i}}
    /\ UNCHANGED <<caller, book, stdin, stdinOpen, eng, got, out, read, sent, stdout, reader>>

\* serveOne returns: an answer, or a 500 for a handler that panicked.
Handled(i) ==
    /\ Alive /\ i \in serving
    /\ serving' = serving \ {i}
    /\ answers' = answers \cup {i}
    /\ UNCHANGED <<caller, book, stdin, stdinOpen, eng, got, out, read, sent, stdout, reader>>

StartAnswer(i) ==
    /\ Alive /\ i \in answers /\ out = NoId
    /\ Len(stdout) < Capacity
    /\ out' = i
    /\ answers' = answers \ {i}
    /\ stdout' = Append(stdout, <<i, "head">>)
    /\ UNCHANGED <<caller, book, stdin, stdinOpen, eng, got, serving, read, sent, reader>>

FinishAnswer ==
    /\ Alive /\ out # NoId /\ Len(stdout) < Capacity
    /\ stdout' = Append(stdout, <<out, "body">>)
    /\ sent' = sent \cup {out}
    /\ out' = NoId
    /\ UNCHANGED <<caller, book, stdin, stdinOpen, eng, got, serving, answers, read, reader>>

\* The pipe ends when it is closed, no write is under way and all is read.
EndOfInput ==
    /\ eng = "serving"
    /\ stdin = <<>> /\ ~stdinOpen /\ \A c \in Callers : pc[c] # "body"
    /\ eng' = "draining"
    /\ UNCHANGED <<caller, book, stdin, stdinOpen, got, serving, answers, out, read, sent, stdout, reader>>

AllAnswered == serving = {} /\ answers = {} /\ out = NoId

\* Mutant: Serve returns at the end of its input.
ExitAtOnce ==
    /\ eng = "draining"
    /\ eng' = "exited"
    /\ UNCHANGED <<caller, book, stdin, stdinOpen, got, serving, answers, out, read, sent, stdout, reader>>

\* The deferred wg.Wait.
Exit ==
    /\ eng = "draining" /\ AllAnswered
    /\ eng' = "exited"
    /\ UNCHANGED <<caller, book, stdin, stdinOpen, got, serving, answers, out, read, sent, stdout, reader>>

\* The process ends where it stands: close() gave up waiting, or something
\* outside killed it.  What is in the pipe to it is lost.
Killed ==
    /\ Alive
    /\ eng' = "killed"
    /\ got' = NoId /\ serving' = {} /\ answers' = {} /\ out' = NoId
    /\ stdin' = <<>>
    /\ UNCHANGED <<caller, book, stdinOpen, read, sent, stdout, reader>>

(***************************************************************************)
(* The thread that reads the answers.                                      *)
(***************************************************************************)
At(where) == rd = where
GoTo(where) == rd' = where

AnswerHead ==
    /\ At("header") /\ stdout # <<>>
    /\ hand' = Head(stdout)[1]
    /\ stdout' = Tail(stdout)
    /\ GoTo("body")
    /\ UNCHANGED <<caller, book, stdin, stdinOpen, engine, taken>>

AnswerBody ==
    /\ At("body") /\ stdout # <<>>
    /\ stdout' = Tail(stdout)
    /\ GoTo("match")
    /\ UNCHANGED <<caller, book, stdin, stdinOpen, engine, hand, taken>>

\* Mutant: answers are matched to questions in the order they were asked.
MatchByOrder ==
    /\ At("match")
    /\ \E i \in pending :
          /\ \A j \in pending : i <= j
          /\ pending' = pending \ {i}
          /\ hand' = i
    /\ GoTo("resolve")
    /\ UNCHANGED <<caller, nextId, closed, fut, stdin, stdinOpen, engine, stdout, taken>>

\* Nobody may be waiting for it any more.
Match ==
    /\ At("match")
    /\ pending' = pending \ {hand}
    /\ IF hand \in pending /\ fut[hand] = "waiting"
         THEN GoTo("resolve") /\ UNCHANGED hand
         ELSE GoTo("header") /\ hand' = NoId
    /\ UNCHANGED <<caller, nextId, closed, fut, stdin, stdinOpen, engine, stdout, taken>>

\* set_result raises if a caller was told of a failure since done() was asked,
\* and that ends the loop like any error.
Resolve ==
    /\ At("resolve")
    /\ IF fut[hand] = "waiting"
         THEN GoTo("header") /\ fut' = [fut EXCEPT ![hand] = "answered"]
         ELSE GoTo("take") /\ UNCHANGED fut
    /\ hand' = NoId
    /\ UNCHANGED <<caller, nextId, pending, closed, stdin, stdinOpen, engine, stdout, taken>>

\* The end of the stream, between two answers or inside one.
EndOfOutput ==
    /\ rd \in {"header", "body"} /\ stdout = <<>> /\ ~Alive
    /\ hand' = NoId
    /\ GoTo("take")
    /\ UNCHANGED <<caller, book, stdin, stdinOpen, engine, stdout, taken>>

\* The finally clause: nobody registers after this, and all who have are taken.
TakePending ==
    /\ At("take")
    /\ closed' = TRUE
    /\ taken' = pending
    /\ pending' = {}
    /\ GoTo("settle")
    /\ UNCHANGED <<caller, nextId, fut, stdin, stdinOpen, engine, stdout, hand>>

\* The next future in the order they were made, passed over if it is done.
Look ==
    /\ At("settle")
    /\ \E i \in taken :
          /\ \A j \in taken : i <= j
          /\ IF fut[i] = "waiting"
               THEN GoTo("fail") /\ hand' = i /\ UNCHANGED taken
               ELSE taken' = taken \ {i} /\ UNCHANGED <<rd, hand>>
    /\ UNCHANGED <<caller, book, stdin, stdinOpen, engine, stdout>>

\* set_exception raises on a future that is done by now, and the thread dies.
FailWaiter ==
    /\ At("fail")
    /\ hand' = NoId
    /\ IF fut[hand] = "waiting"
         THEN /\ fut' = [fut EXCEPT ![hand] = "failed"]
              /\ taken' = taken \ {hand}
              /\ GoTo("settle")
         ELSE GoTo("broken") /\ UNCHANGED <<fut, taken>>
    /\ UNCHANGED <<caller, nextId, pending, closed, stdin, stdinOpen, engine, stdout>>

Ended ==
    /\ At("settle") /\ taken = {}
    /\ GoTo("ended")
    /\ UNCHANGED <<caller, book, stdin, stdinOpen, engine, stdout, hand, taken>>

-----------------------------------------------------------------------------
CallerWorks(c) ==
    \/ TakeWriteLock(c) \/ WriteHead(c) \/ WriteBody(c) \/ Flush(c)
    \/ WriteFails(c) \/ Unregister(c) \/ TellFailure(c) \/ Hear(c)

EngineWorks ==
    \/ ReadHeader \/ ReadBody \/ FinishAnswer \/ EndOfInput \/ Exit
    \/ \E i \in Ids : Handled(i) \/ StartAnswer(i)

ReaderWorks ==
    \/ AnswerHead \/ AnswerBody \/ Match \/ Resolve \/ EndOfOutput
    \/ TakePending \/ Look \/ FailWaiter \/ Ended

Next ==
    \/ \E c \in Callers : Register(c) \/ CallerWorks(c) \/ TimeOut(c)
    \/ EngineWorks \/ ReaderWorks \/ Close \/ Killed

\* Threads and goroutines that can run do; nobody has to ask, to wait no
\* longer, to close or to kill.  Every handler returns.
Spec ==
    /\ Init /\ [][Next]_vars
    /\ \A c \in Callers : WF_vars(CallerWorks(c))
    /\ WF_vars(ReadHeader \/ ReadBody \/ EndOfInput \/ Exit)
    /\ WF_vars(FinishAnswer)
    /\ \A i \in Ids : WF_vars(Handled(i)) /\ WF_vars(StartAnswer(i))
    /\ WF_vars(ReaderWorks)

(***************************************************************************)
(* What the pipe promises.                                                 *)
(***************************************************************************)

\* The state has the types of the code and stays within the bounds.
TypeOK ==
    /\ pc \in [Callers -> {"idle", "lock", "write", "body", "flush", "waiting", "pop", "tell"}]
    /\ rid \in [Callers -> Ids \cup {NoId}]
    /\ writing \in Callers \cup {Nobody}
    /\ nextId \in 1..(MaxId + 1)
    /\ pending \subseteq Ids /\ taken \subseteq Ids
    /\ closed \in BOOLEAN /\ stdinOpen \in BOOLEAN
    /\ fut \in [Ids -> {"none", "waiting", "answered", "failed"}]
    /\ stdin \in Seq(Pieces) /\ Len(stdin) <= Capacity
    /\ stdout \in Seq(Pieces) /\ Len(stdout) <= Capacity
    /\ eng \in {"serving", "draining", "exited", "killed"}
    /\ {got, out, hand} \subseteq Ids \cup {NoId}
    /\ serving \cup answers \cup read \cup sent \subseteq Ids
    /\ rd \in {"header", "body", "match", "resolve", "take", "settle", "fail", "ended", "broken"}

\* The piece before the k-th of a pipe: before the first, what its reader has
\* in hand, half a frame or nothing.
Before(half, pipe, k) ==
    IF k > 1 THEN pipe[k - 1]
    ELSE IF half = NoId THEN <<NoId, "body">> ELSE <<half, "head">>

InFrames(half, pipe) ==
    \A k \in 1..Len(pipe) :
        LET b == Before(half, pipe, k)
        IN  IF b[2] = "head" THEN pipe[k] = <<b[1], "body">> ELSE pipe[k][2] = "head"

HalfAnswer == IF rd = "body" THEN hand ELSE NoId

\* A reader that has half of a frame in hand finds the other half next, and
\* then whole frames: pipehttp.go's "must not interleave their bytes" and "the
\* two ends no longer agree on where a frame starts", for both directions.
FramesWhole ==
    /\ InFrames(got, stdin)
    /\ InFrames(HalfAnswer, stdout)

\* An answer goes to the one who asked: a future is answered only when the
\* engine has written the answer with its id.
AnsweredBySent == \A i \in Ids : fut[i] = "answered" => i \in sent

\* Serve returns "only after every request already read has been answered".
ServedBeforeExit == eng = "exited" => read \subseteq sent

\* A future without an answer is in somebody's hands: still registered, taken
\* by the reader to be failed, about to be resolved, or its own caller is
\* about to fail it.
WaiterHeld ==
    \A i \in Ids : fut[i] = "waiting" =>
        \/ i \in pending \cup taken
        \/ rd = "resolve" /\ hand = i
        \/ \E c \in Callers : pc[c] = "tell" /\ rid[c] = i

\* Once the reader has ended, nobody waits but a caller that is about to fail
\* its own request: no request slips in behind it.
EndedLeavesNone ==
    rd = "ended" =>
        \A i \in Ids : fut[i] = "waiting" =>
            \E c \in Callers : pc[c] = "tell" /\ rid[c] = i

\* Every request is answered or failed in the end, unless the thread that
\* would have done it died of failing a future its caller had failed.
EveryoneHears ==
    \A i \in Ids : fut[i] = "waiting" ~> fut[i] # "waiting" \/ rd = "broken"

=============================================================================
