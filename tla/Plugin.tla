---------------------------------- MODULE Plugin ----------------------------------
(***************************************************************************)
(* The plugin's window between the user, KiCad, the engine and the disk    *)
(* (kicad-plugin/trace_length_analyzer: controller.py, window.py,          *)
(* scheme.py, rules_store.py; webapp/kicad for the page in it).            *)
(*                                                                         *)
(* Four threads of control meet in it: the KiCad thread, which runs the    *)
(* controller's flows one at a time; the Qt thread, which the user and the *)
(* results of the others reach in turn; the page, which sends its requests *)
(* through the scheme handler to the engine or to the KiCad thread; and    *)
(* the thread that reads the engine's answers, which saves the rules when  *)
(* the page has changed them.  What the user decides on a board            *)
(* (tolerances, areas, ...) is a set of Decisions.                         *)
(*                                                                         *)
(* KiCad may not be there or may not give the board, and the engine may    *)
(* refuse it or leave any request unanswered: a call that raises in the    *)
(* code fails here without having been carried out.                        *)
(***************************************************************************)
EXTENDS Naturals, Sequences, FiniteSets

CONSTANTS
    Decisions,   \* what the user may decide in the page
    Everywhere,  \* the decision the toolbar takes: one tolerance for every group
    Area,        \* the decision that may not fit a board that has changed
    MaxOps       \* how many operations the user starts

ASSUME PluginAssumption ==
    /\ Everywhere \in Decisions /\ Area \in Decisions
    /\ Decisions \cap {"unread", "gone", "none", "torn"} = {}    \* the marks below are no decisions
    /\ MaxOps \in Nat

VARIABLES
    engine,   \* the engine's sessions: what is asked of each, and its board
    next,     \* the number of the session made next
    session,  \* Controller.session
    queue,    \* what waits for the KiCad thread, behind what that is doing
    qt,       \* results on their way to the Qt thread
    page,     \* the page: its session, the decisions it shows, its rescan
    plan,     \* the page's plan request
    file,     \* the rules file of the board
    tmp,      \* the file it is written to first
    writer,   \* what each thread is writing
    agreed,   \* the decisions the user was last told are in force
    dropped,  \* whether the last session could not be given the rules that were saved
    warned,   \* how many warnings stand in front of the window, each over the one before
    fits,     \* whether an area fits the board as it is in KiCad
    crossed,  \* whether a request of the page was under way with anything else
    ops       \* the operations the user may still start

disk == <<file, tmp, writer>>
told == <<agreed, dropped, warned>>
user == <<fits, crossed, ops>>
vars == <<engine, next, session, queue, qt, page, plan, disk, told, user>>

Params == SUBSET Decisions
NoSession == 0
Unread == {"unread"}        \* in place of decisions: not read yet, or no file
Gone == {"gone"}            \* in place of decisions: the session is not there
NoBoard == {"none"}         \* in place of decisions: nothing to show, or no answer
Torn == {"torn"}            \* in place of decisions: a file that holds only part
Idle == [step |-> "idle"]
Threads == {"kicad", "reader"}
Rules(f) == IF f \in Params THEN f ELSE {}      \* load(), else the defaults
Fit(p, fit) == Area \in p => fit

NoPage == [at |-> NoSession, shows |-> Unread, waits |-> 0]
Opened(sid) == [at |-> sid, shows |-> IF sid = NoSession THEN NoBoard ELSE Unread, waits |-> 0]
Rescan(token) ==
    [op |-> "rescan", token |-> token, on |-> FALSE, step |-> "read",
     sid |-> NoSession, params |-> Unread, fit |-> TRUE, heard |-> TRUE]
Tolerance(on) ==
    [op |-> "tolerance", token |-> 0, on |-> on, step |-> "ask",
     sid |-> NoSession, params |-> Unread, fit |-> TRUE, heard |-> TRUE]

\* A window is opened: a new engine, and the board is read.
Init ==
    /\ engine = <<>> /\ next = 1 /\ session = NoSession
    /\ queue = <<Rescan(0)>> /\ qt = <<>>
    /\ page = NoPage /\ plan = Idle
    /\ file = Unread /\ tmp = Unread /\ writer = [t \in Threads |-> Idle]
    /\ agreed = {} /\ dropped = FALSE /\ warned = 0
    /\ fits = TRUE /\ crossed = FALSE /\ ops = MaxOps

\* Nothing is under way: the window waits for the user.
Quiet ==
    /\ queue = <<>> /\ qt = <<>> /\ plan = Idle /\ page.waits = 0
    /\ page.shows # Unread \/ warned > 0

(***************************************************************************)
(* The user, who cannot reach the window behind a warning; KiCad's button  *)
(* still brings it forward.                                                *)
(***************************************************************************)
PageAsks == plan # Idle \/ page.waits # 0

Starts(byPage) ==
    /\ ops > 0 /\ ops' = ops - 1
    /\ crossed' = (crossed \/ PageAsks \/ (byPage /\ ~Quiet))

\* The toolbar's Rescan, and a window brought forward.
ToolbarRescan ==
    /\ Starts(FALSE)
    /\ queue' = Append(queue, Rescan(0))
    /\ UNCHANGED <<engine, next, session, qt, page, plan, disk, told, fits>>

ToolbarTolerance ==
    /\ session # NoSession /\ warned = 0
    /\ Starts(FALSE)
    /\ \E on \in BOOLEAN : queue' = Append(queue, Tolerance(on))
    /\ UNCHANGED <<engine, next, session, qt, page, plan, disk, told, fits>>

PageRescan ==
    /\ page.shows # Unread /\ page.waits = 0 /\ warned = 0
    /\ Starts(TRUE)
    /\ queue' = Append(queue, Rescan(ops))
    /\ page' = [page EXCEPT !.waits = ops]
    /\ UNCHANGED <<engine, next, session, qt, plan, disk, told, fits>>

\* The page asks for all it shows, with one decision made or withdrawn; its
\* controls are off until it is answered.
PagePlan ==
    /\ page.shows \in Params /\ plan = Idle /\ warned = 0
    /\ Starts(TRUE)
    /\ \E d \in Decisions :
          plan' = [step |-> "sent", sid |-> page.at, live |-> TRUE,
                   params |-> IF d \in page.shows THEN page.shows \ {d} ELSE page.shows \cup {d}]
    /\ UNCHANGED <<engine, next, session, queue, qt, page, disk, told, fits>>

EditBoard ==
    /\ ops > 0 /\ ops' = ops - 1
    /\ fits' = ~fits
    /\ UNCHANGED <<engine, next, session, queue, qt, page, plan, disk, told, crossed>>

(***************************************************************************)
(* RulesStore.save(): written to a file named for the process, which then  *)
(* takes the place of the old.  Both threads use the one name; "at" is the *)
(* name that a thread's open file goes by now.                             *)
(***************************************************************************)
Save(t, params) == writer[t] = Idle /\ writer' = [writer EXCEPT ![t] = [step |-> "open", at |-> "tmp", params |-> params]]

OpenTmp(t) ==
    /\ writer[t].step = "open"
    /\ tmp' = Torn
    /\ writer' = [writer EXCEPT ![t].step = "write", ![t].at = "tmp"]
    /\ UNCHANGED <<engine, next, session, queue, qt, page, plan, file, told, user>>

\* Over what another thread has written, the longer text keeps its tail.
Over(old, params) == IF old \in {Torn, params} THEN {params} ELSE {params, Torn}

WriteTmp(t) ==
    LET w == writer[t] IN
    /\ w.step = "write"
    /\ tmp' \in IF w.at = "tmp" THEN Over(tmp, w.params) ELSE {tmp}
    /\ file' \in IF w.at = "rules" THEN Over(file, w.params) ELSE {file}
    /\ writer' = [writer EXCEPT ![t].step = "replace"]
    /\ UNCHANGED <<engine, next, session, queue, qt, page, plan, told, user>>

\* Without a tmp file os.replace fails, which remember() ignores.
Replace(t) ==
    /\ writer[t].step = "replace"
    /\ file' = IF tmp = Unread THEN file ELSE tmp
    /\ tmp' = Unread
    /\ writer' = [u \in Threads |->
          IF u = t THEN [step |-> "saved"]
          ELSE IF tmp = Unread \/ writer[u].step \notin {"write", "replace"} THEN writer[u]
          ELSE [writer[u] EXCEPT !.at = IF @ = "tmp" THEN "rules" ELSE "gone"]]
    /\ dropped' = FALSE
    /\ UNCHANGED <<engine, next, session, queue, qt, page, plan, agreed, warned, user>>

(***************************************************************************)
(* The KiCad thread: rescan() and set_tolerance_everywhere().              *)
(***************************************************************************)
Job == Head(queue)
Doing(op, step) == queue # <<>> /\ Job.op = op /\ Job.step = step
Works(j) == queue' = <<j>> \o Tail(queue)

ReadBoard ==
    /\ Doing("rescan", "read")
    /\ Works([Job EXCEPT !.step = "previous", !.fit = fits])
    /\ UNCHANGED <<engine, next, session, qt, page, plan, disk, told, user>>

\* KiCad is not there or does not give the board, or the engine does not take
\* it: the window is told, or the page that asked.
RescanFails ==
    /\ Doing("rescan", "read") \/ Doing("rescan", "upload")
    /\ qt' = Append(qt, [kind |-> IF Job.token = 0 THEN "failed" ELSE "refused",
                         sid |-> NoSession, token |-> Job.token])
    /\ queue' = Tail(queue)
    /\ UNCHANGED <<engine, next, session, page, plan, disk, told, user>>

Saved == IF file \in Params THEN file ELSE Unread
Asked(heard) == IF session # NoSession /\ heard THEN engine[session].params ELSE Saved

TakePreviousOfFirst ==    \* mutant: only the first read asks for the rules
    /\ Doing("rescan", "previous")
    /\ Works([Job EXCEPT !.step = "upload", !.params = IF session = NoSession THEN Saved ELSE Unread])
    /\ UNCHANGED <<engine, next, session, qt, page, plan, disk, told, user>>

\* current_params(), or what was saved if there is no session or no answer.
TakePrevious ==
    /\ Doing("rescan", "previous")
    /\ \E heard \in BOOLEAN : Works([Job EXCEPT !.step = "upload", !.params = Asked(heard)])
    /\ UNCHANGED <<engine, next, session, qt, page, plan, disk, told, user>>

\* The new session, and the previous rules asked of it: when that is refused, or
\* not answered, the defaults.  Rules that a session before this one was refused
\* come from the file, and the page shows them.
Upload ==
    /\ Doing("rescan", "upload")
    /\ \E kept \in BOOLEAN :
          LET rules == IF kept THEN Job.params ELSE {} IN
          /\ kept => Job.params # Unread /\ Fit(Job.params, Job.fit)
          /\ engine' = [s \in DOMAIN engine \cup {next} |->
                            IF s = next THEN [params |-> rules, fit |-> Job.fit] ELSE engine[s]]
          /\ agreed' = IF dropped \/ ~(kept \/ Job.params = Unread) THEN rules ELSE agreed
          /\ dropped' = (dropped \/ (Job.params # Unread /\ ~kept))
    /\ next' = next + 1
    /\ Works([Job EXCEPT !.step = "swap", !.sid = next])
    /\ UNCHANGED <<session, qt, page, plan, disk, warned, user>>

Swap ==
    /\ Doing("rescan", "swap")
    /\ session' = Job.sid
    /\ Works([Job EXCEPT !.step = "delete", !.sid = session])
    /\ UNCHANGED <<engine, next, qt, page, plan, disk, told, user>>

\* The old session goes; the window, or the page that asked, opens the new one.
DeleteOld ==
    /\ Doing("rescan", "delete")
    /\ engine' = [s \in DOMAIN engine \ {Job.sid} |-> engine[s]]
    /\ qt' = Append(qt, [kind |-> IF Job.token = 0 THEN "open" ELSE "answer",
                         sid |-> session, token |-> Job.token])
    /\ queue' = Tail(queue)
    /\ UNCHANGED <<next, session, page, plan, disk, told, user>>

Tolerated(params, on) == IF on THEN params \cup {Everywhere} ELSE params \ {Everywhere}

\* Without an answer the tolerance is planned over no decisions at all.
AskParams ==
    /\ Doing("tolerance", "ask")
    /\ \E heard \in BOOLEAN :
          Works([Job EXCEPT !.step = "plan", !.heard = heard,
                            !.params = Tolerated(IF heard THEN engine[session].params ELSE {}, Job.on)])
    /\ UNCHANGED <<engine, next, session, qt, page, plan, disk, told, user>>

PlanTolerance ==
    /\ Doing("tolerance", "plan")
    /\ Fit(Job.params, engine[session].fit)
    /\ engine' = [engine EXCEPT ![session].params = Job.params]
    /\ Save("kicad", Job.params)
    /\ Works([Job EXCEPT !.step = "save"])
    /\ UNCHANGED <<next, session, qt, page, plan, file, tmp, told, user>>

\* group_names() or the plan fails: the user is told it was not applied.
ToleranceFails ==
    /\ Doing("tolerance", "plan")
    /\ queue' = Tail(queue)
    /\ UNCHANGED <<engine, next, session, qt, page, plan, disk, told, user>>

\* Every group is held to it, says the window: of the other decisions, nothing.
ToleranceSet ==
    /\ Doing("tolerance", "save") /\ writer["kicad"].step = "saved"
    /\ writer' = [writer EXCEPT !["kicad"] = Idle]
    /\ agreed' = IF Job.heard THEN Tolerated(agreed, Job.on) ELSE Job.params
    /\ qt' = Append(qt, [kind |-> "reload", sid |-> NoSession, token |-> 0])
    /\ queue' = Tail(queue)
    /\ UNCHANGED <<engine, next, session, page, plan, file, tmp, dropped, warned, user>>

(***************************************************************************)
(* The page's plan: to the engine, its answer to the thread that reads     *)
(* them, which saves it, then to the page if that is still there.          *)
(***************************************************************************)
AnswerPlan ==
    /\ plan.step = "sent"
    /\ \/ /\ plan.sid \in DOMAIN engine /\ Fit(plan.params, engine[plan.sid].fit)
          /\ engine' = [engine EXCEPT ![plan.sid].params = plan.params]
          /\ Save("reader", plan.params)
          /\ plan' = [plan EXCEPT !.step = "saving"]
       \/ plan' = Idle /\ UNCHANGED <<engine, writer>>    \* refused, or no answer
    /\ UNCHANGED <<next, session, queue, qt, page, file, tmp, told, user>>

PlanAnsweredFirst ==    \* mutant: the page hears before the rules are saved
    /\ plan.step = "saving" /\ writer["reader"].step = "open"
    /\ writer' = [writer EXCEPT !["reader"] = Idle]
    /\ plan' = Idle
    /\ page' = IF plan.live THEN [page EXCEPT !.shows = plan.params] ELSE page
    /\ agreed' = IF plan.live THEN plan.params ELSE agreed
    /\ UNCHANGED <<engine, next, session, queue, qt, file, tmp, dropped, warned, user>>

PlanAnswered ==
    /\ plan.step = "saving" /\ writer["reader"].step = "saved"
    /\ writer' = [writer EXCEPT !["reader"] = Idle]
    /\ plan' = Idle
    /\ page' = IF plan.live THEN [page EXCEPT !.shows = plan.params] ELSE page
    /\ agreed' = IF plan.live THEN plan.params ELSE agreed
    /\ UNCHANGED <<engine, next, session, queue, qt, file, tmp, dropped, warned, user>>

(***************************************************************************)
(* The Qt thread.  A page that is opened again forgets what it asked.      *)
(***************************************************************************)
OpenPage(sid) ==
    /\ page' = Opened(sid)
    /\ plan' = IF plan = Idle THEN Idle ELSE [plan EXCEPT !.live = FALSE]

DeliverNoAnswer ==    \* mutant: a rescan of the page is not answered
    /\ qt # <<>> /\ qt' = Tail(qt)
    /\ LET e == Head(qt) IN
          /\ \/ e.kind = "open" /\ OpenPage(e.sid)
             \/ e.kind = "reload" /\ OpenPage(page.at)
             \/ e.kind \in {"answer", "refused", "failed"} /\ UNCHANGED <<page, plan>>
          /\ warned' = IF e.kind = "failed" THEN warned + 1 ELSE warned
    /\ UNCHANGED <<engine, next, session, queue, disk, agreed, dropped, user>>

Deliver ==
    /\ qt # <<>> /\ qt' = Tail(qt)
    /\ LET e == Head(qt) IN
          /\ \/ e.kind = "open" /\ OpenPage(e.sid)
             \/ e.kind = "reload" /\ OpenPage(page.at)
             \/ e.kind = "answer" /\ page.waits = e.token /\ OpenPage(e.sid)
             \/ e.kind = "refused" /\ page.waits = e.token /\ page' = [page EXCEPT !.waits = 0] /\ UNCHANGED plan
             \/ e.kind \in {"answer", "refused"} /\ page.waits # e.token /\ UNCHANGED <<page, plan>>
             \/ e.kind = "failed" /\ UNCHANGED <<page, plan>>
          /\ warned' = IF e.kind = "failed" THEN warned + 1 ELSE warned
    /\ UNCHANGED <<engine, next, session, queue, disk, agreed, dropped, user>>

\* While a warning waits to be read, what is posted is delivered all the same;
\* when it has been read, the page without a session is opened.
Dismiss ==
    /\ warned > 0 /\ warned' = warned - 1
    /\ OpenPage(NoSession)
    /\ UNCHANGED <<engine, next, session, queue, qt, disk, agreed, dropped, user>>

LoadPage ==
    /\ page.at # NoSession /\ page.shows = Unread
    /\ \/ page' = [page EXCEPT !.shows = IF page.at \in DOMAIN engine THEN engine[page.at].params ELSE Gone]
       \/ page' = [page EXCEPT !.shows = NoBoard]    \* no answer
    /\ UNCHANGED <<engine, next, session, queue, qt, plan, disk, told, user>>

\* The plugin is closed or killed, at any moment, and started again; the user
\* is shown what was saved.
Restart ==
    /\ ops > 0 /\ ops' = ops - 1
    /\ engine' = <<>> /\ next' = 1 /\ session' = NoSession
    /\ queue' = <<Rescan(0)>> /\ qt' = <<>>
    /\ page' = NoPage /\ plan' = Idle
    /\ tmp' = Unread /\ writer' = [t \in Threads |-> Idle]
    /\ agreed' = Rules(file)
    /\ dropped' = FALSE /\ warned' = 0
    /\ UNCHANGED <<file, fits, crossed>>

Saving == \E t \in Threads : OpenTmp(t) \/ WriteTmp(t) \/ Replace(t)
KiCadThread ==
    \/ ReadBoard \/ TakePrevious \/ Upload \/ Swap \/ DeleteOld \/ RescanFails
    \/ AskParams \/ PlanTolerance \/ ToleranceSet \/ ToleranceFails
Users == ToolbarRescan \/ ToolbarTolerance \/ PageRescan \/ PagePlan \/ EditBoard \/ Dismiss
Progress == Saving \/ KiCadThread \/ AnswerPlan \/ PlanAnswered \/ Deliver \/ LoadPage
Next == Users \/ Progress \/ Restart
Spec == Init /\ [][Next]_vars
FairSpec == Spec /\ WF_vars(Progress)

(***************************************************************************)
(* Properties.                                                             *)
(***************************************************************************)

Steps == {"read", "previous", "upload", "swap", "delete", "ask", "plan", "save"}
Jobs == [op : {"rescan", "tolerance"}, token : 0 .. MaxOps, on : BOOLEAN, step : Steps,
         sid : Nat, params : Params \cup {Unread}, fit : BOOLEAN, heard : BOOLEAN]

\* Every variable holds a value the code gives it.
TypeOK ==
    /\ next \in Nat \ {0} /\ session \in Nat
    /\ DOMAIN engine \subseteq 1 .. next - 1
    /\ \A s \in DOMAIN engine : engine[s] \in [params : Params, fit : BOOLEAN]
    /\ queue \in Seq(Jobs)
    /\ qt \in Seq([kind : {"open", "answer", "reload", "failed", "refused"}, sid : Nat, token : 0 .. MaxOps])
    /\ page \in [at : Nat, shows : Params \cup {Unread, Gone, NoBoard}, waits : 0 .. MaxOps]
    /\ plan \in {Idle} \cup [step : {"sent", "saving"}, sid : Nat, live : BOOLEAN, params : Params]
    /\ {file, tmp} \subseteq Params \cup {Unread, Torn}
    /\ writer \in [Threads -> {Idle, [step |-> "saved"]}
                     \cup [step : {"open", "write", "replace"}, at : {"tmp", "rules", "gone"}, params : Params]]
    /\ agreed \in Params /\ dropped \in BOOLEAN /\ warned \in Nat
    /\ fits \in BOOLEAN /\ crossed \in BOOLEAN /\ ops \in 0 .. MaxOps

\* What is on disk is, at every moment the plugin may end, what the user was
\* told or what he is being told; never half of it.
RulesOnDisk == ~crossed =>
    /\ file # Torn
    /\ \/ dropped
       \/ Rules(file) = agreed
       \/ plan.step = "saving" /\ file = plan.params
       \/ Doing("tolerance", "save") /\ file = Job.params

\* When all is quiet, the board's session is judged by the decisions the user
\* was told are in force, however often the board was read again or could not be,
\* and the page, if it shows decisions, is on that session and shows these.
DecisionsKept ==
    Quiet /\ ~crossed =>
        /\ session # NoSession => engine[session].params = agreed
        /\ page.shows \notin {Unread, NoBoard} => page.at = session /\ page.shows = agreed

\* Whatever is asked, the plugin comes to rest.
ComesToRest == []<>Quiet
====
