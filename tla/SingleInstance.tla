------------------------------ MODULE SingleInstance ------------------------------
(***************************************************************************)
(* One analyzer window, however often the toolbar button is pressed        *)
(* (kicad-plugin/trace_length_analyzer/single.py, and its caller analyze   *)
(* in app.py).  KiCad starts a process for every press.  The processes     *)
(* share two files: a lock, judged alive by the time it was last touched,  *)
(* and a request that asks the window to come forward.                     *)
(*                                                                         *)
(* A file operation is one step; two of one process may have any steps of  *)
(* the others between them.  Time is counted in heartbeats of one second.  *)
(***************************************************************************)
EXTENDS Naturals, FiniteSets

CONSTANTS
    Press,      \* the processes started by pressing the button
    StaleS,     \* STALE_S: a lock untouched for longer belongs to nobody
    AskS,       \* the timeout of ask_to_show
    MaxPressing \* how many presses may be under way at one time

ASSUME SingleAssumption ==
    /\ StaleS \in Nat \ {0}
    /\ AskS \in Nat \ {0}
    /\ MaxPressing \in Nat \ {0}

VARIABLES
    lock,     \* the lock file: who created it, whether his token is in it, its age
    request,  \* whether the request file is there
    pc,       \* where each process is
    tries,    \* creations acquire() has left
    again,    \* whether the process has asked and now takes the lock again
    owned,    \* SingleInstance.owned
    waited,   \* how long ask_to_show has waited
    beat,     \* time since a window started, or since its last heartbeat
    gap,      \* the longest any window has gone without one
    crashed,  \* whether a window has ended without releasing
    shown     \* the presses since which a window was shown

files == <<lock, request>>
waits == <<waited, beat>>
turns == <<tries, again>>
history == <<gap, crashed, shown>>
singleVars == <<files, pc, turns, owned, waits, history>>

NoLock == [by |-> {}, token |-> FALSE, age |-> StaleS + 1]
Locks == [by : {{p} : p \in Press}, token : BOOLEAN, age : 0 .. StaleS + 1] \cup {NoLock}
Mine(p) == lock.by = {p} /\ lock.token      \* _mine()
IsStaleSoon == lock.age > StaleS - 1        \* mutant: stale a heartbeat too early
IsStale == lock.age > StaleS                \* _stale(): so is a lock that is gone

Acquiring == {"create", "judge", "unlink", "write", "clear"}
Windowed  == {"open", "touch", "look", "take"}
Closing   == {"closing", "remove"}
Places == Acquiring \cup Windowed \cup Closing
            \cup {"idle", "starting", "ask", "wait", "retry", "gone"}

Open   == {p \in Press : pc[p] \in Windowed}
Alive  == {p \in Press : pc[p] \in Windowed \cup {"starting"}}
Pressing == {p \in Press : pc[p] \in Acquiring \cup {"ask", "wait", "retry"}}

SingleInit ==
    /\ lock = NoLock
    /\ request = FALSE
    /\ pc = [p \in Press |-> "idle"]
    /\ tries = [p \in Press |-> 0]
    /\ again = [p \in Press |-> FALSE]
    /\ owned = [p \in Press |-> FALSE]
    /\ waited = [p \in Press |-> 0]
    /\ beat = [p \in Press |-> 0]
    /\ gap = 0
    /\ crashed = FALSE
    /\ shown = {}

At(p, step) == pc[p] = step
Go(p, step) == pc' = [pc EXCEPT ![p] = step]

(***************************************************************************)
(* acquire(): two tries to create the lock, a stale one removed between.   *)
(***************************************************************************)
Acquire(p) ==
    /\ At(p, "idle") \/ At(p, "retry")
    /\ Cardinality(Pressing \ {p}) < MaxPressing
    /\ tries' = [tries EXCEPT ![p] = 2]
    /\ again' = [again EXCEPT ![p] = At(p, "retry")]
    /\ shown' = IF At(p, "idle") THEN shown \ {p} ELSE shown
    /\ Go(p, "create")
    /\ UNCHANGED <<files, owned, waits, gap, crashed>>

Create(p) ==        \* O_CREAT | O_EXCL succeeds
    /\ At(p, "create") /\ tries[p] > 0 /\ lock = NoLock
    /\ lock' = [by |-> {p}, token |-> FALSE, age |-> 0]
    /\ Go(p, "write")
    /\ UNCHANGED <<request, turns, owned, waits, history>>

Judge(p) ==         \* FileExistsError
    /\ At(p, "create") /\ tries[p] > 0 /\ lock # NoLock
    /\ Go(p, "judge")
    /\ UNCHANGED <<files, turns, owned, waits, history>>

JudgedStale(p) ==
    /\ At(p, "judge") /\ IsStale
    /\ Go(p, "unlink")
    /\ UNCHANGED <<files, turns, owned, waits, history>>

\* Whatever lock is there now is removed, not only the one judged.
Unlink(p) ==
    /\ At(p, "unlink")
    /\ lock' = NoLock
    /\ tries' = [tries EXCEPT ![p] = @ - 1]
    /\ Go(p, "create")
    /\ UNCHANGED <<request, again, owned, waits, history>>

DeniedAsksAgain(p) ==       \* mutant: the press asks until it is answered
    /\ \/ At(p, "judge") /\ ~IsStale
       \/ At(p, "create") /\ tries[p] = 0
    /\ Go(p, "ask")
    /\ tries' = [tries EXCEPT ![p] = 0]
    /\ UNCHANGED <<files, again, owned, waits, history>>

\* False: analyze() asks the window, or, when it has asked already, ends.
Denied(p) ==
    /\ \/ At(p, "judge") /\ ~IsStale
       \/ At(p, "create") /\ tries[p] = 0
    /\ Go(p, IF again[p] THEN "gone" ELSE "ask")
    /\ tries' = [tries EXCEPT ![p] = 0]
    /\ UNCHANGED <<files, again, owned, waits, history>>

\* Into the file this process created, which may have been unlinked since.
WriteToken(p) ==
    /\ At(p, "write")
    /\ lock' = IF lock.by = {p} THEN [lock EXCEPT !.token = TRUE, !.age = 0] ELSE lock
    /\ owned' = [owned EXCEPT ![p] = TRUE]
    /\ Go(p, "clear")
    /\ tries' = [tries EXCEPT ![p] = 0]
    /\ UNCHANGED <<request, again, waits, history>>

ClearRequest(p) ==  \* a request left over from before this window existed
    /\ At(p, "clear")
    /\ request' = FALSE
    /\ beat' = [beat EXCEPT ![p] = 0]
    /\ Go(p, "starting")
    /\ UNCHANGED <<lock, turns, owned, waited, history>>

(***************************************************************************)
(* The window: shown once Qt and the engine are up, then a timer that      *)
(* calls heartbeat() and take_request() every second.                      *)
(***************************************************************************)
Appear(p) ==
    /\ At(p, "starting")
    /\ shown' = Press
    /\ Go(p, "open")
    /\ UNCHANGED <<files, turns, owned, waits, gap, crashed>>

StartFails(p) ==    \* no bundle, or no engine: a message, and the lock released
    /\ At(p, "starting")
    /\ shown' = Press
    /\ Go(p, "closing")
    /\ beat' = [beat EXCEPT ![p] = 0]
    /\ UNCHANGED <<files, turns, owned, waited, gap, crashed>>

Heartbeat(p) ==
    /\ At(p, "open") /\ beat[p] > 0
    /\ beat' = [beat EXCEPT ![p] = 0]
    /\ IF owned[p] /\ Mine(p)
       THEN Go(p, "touch") /\ UNCHANGED owned
       ELSE /\ owned' = [owned EXCEPT ![p] = FALSE]
            /\ Go(p, "look")
    /\ UNCHANGED <<files, turns, waited, history>>

Touch(p) ==         \* the lock there now, whoever made it
    /\ At(p, "touch")
    /\ IF lock = NoLock
       THEN owned' = [owned EXCEPT ![p] = FALSE] /\ UNCHANGED lock
       ELSE lock' = [lock EXCEPT !.age = 0] /\ UNCHANGED owned
    /\ Go(p, "look")
    /\ UNCHANGED <<request, turns, waits, history>>

Look(p) ==
    /\ At(p, "look")
    /\ Go(p, IF owned[p] /\ request THEN "take" ELSE "open")
    /\ UNCHANGED <<files, turns, owned, waits, history>>

Take(p) ==          \* the request removed, the window brought forward
    /\ At(p, "take")
    /\ request' = FALSE
    /\ shown' = Press
    /\ Go(p, "open")
    /\ UNCHANGED <<lock, turns, owned, waits, gap, crashed>>

CloseWindow(p) ==
    /\ At(p, "open")
    /\ Go(p, "closing")
    /\ beat' = [beat EXCEPT ![p] = 0]
    /\ UNCHANGED <<files, turns, owned, waited, history>>

Release(p) ==
    /\ At(p, "closing")
    /\ Go(p, IF owned[p] /\ Mine(p) THEN "remove" ELSE "gone")
    /\ owned' = [owned EXCEPT ![p] = owned[p] /\ Mine(p)]
    /\ UNCHANGED <<files, turns, waits, history>>

RemoveNothing(p) ==         \* mutant: the lock of a closed window stays
    /\ At(p, "remove")
    /\ owned' = [owned EXCEPT ![p] = FALSE]
    /\ Go(p, "gone")
    /\ UNCHANGED <<files, turns, waits, history>>

Remove(p) ==
    /\ At(p, "remove")
    /\ lock' = NoLock
    /\ owned' = [owned EXCEPT ![p] = FALSE]
    /\ Go(p, "gone")
    /\ UNCHANGED <<request, turns, waits, history>>

(***************************************************************************)
(* A later press: ask_to_show().                                           *)
(***************************************************************************)
Ask(p) ==
    /\ At(p, "ask")
    /\ request' = TRUE
    /\ waited' = [waited EXCEPT ![p] = 0]
    /\ Go(p, "wait")
    /\ UNCHANGED <<lock, turns, owned, beat, history>>

PickedUp(p) ==
    /\ At(p, "wait") /\ waited[p] < AskS /\ ~request
    /\ Go(p, "gone")
    /\ waited' = [waited EXCEPT ![p] = 0]
    /\ UNCHANGED <<files, turns, owned, beat, history>>

TimedOut(p) ==
    /\ At(p, "wait") /\ waited[p] >= AskS
    /\ request' = FALSE
    /\ Go(p, "retry")
    /\ waited' = [waited EXCEPT ![p] = 0]
    /\ UNCHANGED <<lock, turns, owned, beat, history>>

(***************************************************************************)
(* The environment: a crash, and the time that passes.  Only a window that *)
(* is stuck, and a process that waits, let a second pass.                  *)
(***************************************************************************)
Crash(p) ==
    /\ p \in Alive
    /\ crashed' = TRUE
    /\ shown' = shown \cup {p}
    /\ Go(p, "gone")
    /\ owned' = [owned EXCEPT ![p] = FALSE]
    /\ beat' = [beat EXCEPT ![p] = 0]
    /\ UNCHANGED <<files, turns, waited, gap>>

Patient == {"idle", "starting", "open", "wait", "gone"}
Tick ==
    /\ \A p \in Press : pc[p] \in Patient
    /\ \A p \in Press : At(p, "wait") => waited[p] < AskS
    /\ lock' = [lock EXCEPT !.age = IF @ > StaleS THEN @ ELSE @ + 1]
    /\ waited' = [p \in Press |-> IF At(p, "wait") THEN waited[p] + 1 ELSE waited[p]]
    /\ beat' = [p \in Press |-> IF p \in Alive /\ beat[p] <= StaleS THEN beat[p] + 1 ELSE beat[p]]
    /\ LET late == {beat'[p] : p \in Alive} \cup {gap}
       IN  gap' \in late /\ \A m \in late : m <= gap'
    /\ UNCHANGED <<request, pc, turns, owned, crashed, shown>>

Beats(p) == Heartbeat(p) \/ Touch(p) \/ Look(p) \/ Take(p)
Takes(p) ==
    \/ Create(p) \/ Judge(p) \/ JudgedStale(p) \/ Unlink(p) \/ Denied(p)
    \/ WriteToken(p) \/ ClearRequest(p)
Asks(p) == Ask(p) \/ PickedUp(p) \/ TimedOut(p)
Finishes(p) == CloseWindow(p) \/ Release(p) \/ Remove(p) \/ Crash(p)

SingleNext ==
    \/ \E p \in Press : Acquire(p) \/ Takes(p) \/ Asks(p)
    \/ \E p \in Press : Appear(p) \/ StartFails(p) \/ Beats(p) \/ Finishes(p)
    \/ Tick

SingleSpec == SingleInit /\ [][SingleNext]_singleVars

\* A process that is not stuck goes on, a start ends, and time passes.
SingleFairSpec ==
    /\ SingleSpec
    /\ WF_singleVars(Tick)
    /\ \A p \in Press :
          /\ WF_singleVars(Takes(p)) /\ WF_singleVars(Asks(p)) /\ WF_singleVars(Appear(p) \/ StartFails(p))
          /\ WF_singleVars(At(p, "retry") /\ Acquire(p))
          /\ WF_singleVars(Touch(p) \/ Look(p) \/ Take(p) \/ Release(p) \/ Remove(p))

(***************************************************************************)
(* Properties.                                                             *)
(***************************************************************************)

\* Every variable holds a value the code gives it.
SingleTypeOK ==
    /\ lock \in Locks
    /\ request \in BOOLEAN
    /\ pc \in [Press -> Places]
    /\ tries \in [Press -> 0 .. 2]
    /\ again \in [Press -> BOOLEAN]
    /\ owned \in [Press -> BOOLEAN]
    /\ waited \in [Press -> 0 .. AskS]
    /\ beat \in [Press -> 0 .. StaleS + 1]
    /\ gap \in 0 .. StaleS + 1
    /\ crashed \in BOOLEAN
    /\ shown \in SUBSET Press

\* Presses made one after another have one window between them,
\* whatever crashes, as long as no window was silent for longer than STALE_S.
SoleWindow == gap <= StaleS => Cardinality(Alive) <= 1

\* Once no press is under way, each that ended was answered: a window, or why
\* there is none, has been shown since it was made.
Settled == \A p \in Press : pc[p] \in {"idle", "open", "gone"}
Answered == Settled => \A p \in Press : At(p, "gone") => p \in shown

\* While no window crashes or is silent for as long as a press waits, every
\* press is answered.
PressAnswered == (~crashed /\ gap < AskS) => Answered

\* Every press comes to an end of its own, or has a window.
PressEnds == \A p \in Press : (~At(p, "idle") ~> At(p, "gone") \/ p \in Alive)
====
