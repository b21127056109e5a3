---------------------------- MODULE SessionServer ----------------------------
(***************************************************************************)
(* server/api.go, route.go, kicad.go, preview.go, suggest.go, jobs.go: the *)
(* HTTP handlers over the session store.  net/http runs each request in    *)
(* its own goroutine.  Nothing but the store is shared, and a handler      *)
(* touches the store several times: it takes a copy of the session, works  *)
(* for up to minutes, and writes the copy back.  Each store call is one    *)
(* step here, so other requests run in between.                            *)
(***************************************************************************)
EXTENDS Integers, FiniteSets

CONSTANTS
    Ids, Users, MaxBytes, TTL, MaxTime, NoRow, NoBoard,   \* as SessionStore
    Procs,          \* BOUND: requests in flight at once
    Params,         \* matching parameters a user can ask for
    DefaultParams,  \* those of a new session
    NoParams,       \* none sent, or a board nothing was tuned on
    Hops,           \* the connections the uploaded board is missing
    BoardBytes(_),  \* the size of a board file
    MaxSessions,    \* Deps.MaxSessionsPerUser
    MaxRouteJobs, MaxHeavyJobs,
    OneAtATime      \* TRUE: a client waits for each answer before it asks again

\* A board file is what has been written into the upload: the missing
\* connections the router made, and the parameters it was tuned with.
BoardContents == [hops : SUBSET Hops, tuned : Params \cup {NoParams}]

\* Session.Params, Applied and Routed.  A record of an apply or of a router
\* run stands for the board its numbers were measured on.
SessionMeta ==
    [params  : Params,
     applied : BoardContents \cup {NoBoard},
     routed  : BoardContents \cup {NoBoard}]

VARIABLES
    rows, now,
    req,        \* the request each process is working on
    busy,       \* jobSlots: the slots taken, of each kind
    issued,     \* the ids newID has handed out
    deleted     \* the ids whose DELETE was answered

INSTANCE SessionStore WITH Meta <- SessionMeta, Boards <- BoardContents,
                           Size <- BoardBytes

vars == <<rows, now, req, busy, issued, deleted>>

JobKinds == {"route", "heavy"}

Slots(kind) == IF kind = "route" THEN MaxRouteJobs ELSE MaxHeavyJobs

KindOf(op) == IF op = "route" THEN "route" ELSE "heavy"

JobOps == {"route", "apply", "headroom"}

\* What each handler of a session does once it has the session.
FirstStep ==
    [read |-> "reload", plan |-> "reload", changes |-> "reload",
     apply |-> "wait", headroom |-> "wait", route |-> "wait",
     delete |-> "delete", download |-> "result", preview |-> "result"]

SessionOps == DOMAIN FirstStep

Steps == {"idle", "session", "wait", "reload", "result", "put", "putResult",
          "update", "delete", "list", "dropOld", "create"}

Idle == [pc |-> "idle", op |-> "read", user |-> NoRow, id |-> NoRow,
         sess |-> NoRow, board |-> NoBoard, params |-> NoParams, doomed |-> {}]

Requests ==
    [pc : Steps, op : SessionOps \cup {"upload", "list"},
     user : Users \cup {NoRow}, id : Ids \cup {NoRow},
     sess : Sessions \cup {NoRow},          \* this handler's copy
     board : BoardContents \cup {NoBoard},  \* the board it holds
     params : Params \cup {NoParams},       \* those the caller sent
     doomed : SUBSET Ids]                   \* old sessions an upload drops

TypeOK ==
    /\ StoreTypeOK
    /\ req \in [Procs -> Requests]
    /\ busy \in [JobKinds -> Nat]
    /\ issued \subseteq Ids
    /\ deleted \subseteq issued

ASSUME ServerAssumption ==
    /\ IsFiniteSet(Procs)
    /\ {MaxRouteJobs, MaxHeavyJobs, TTL, MaxTime} \subseteq Nat
    /\ DefaultParams \in Params
    /\ NoBoard \notin BoardContents
    /\ NoRow \notin Ids /\ NoRow \notin Rows /\ NoRow \notin Sessions

----------------------------------------------------------------------------
Working(p) == req[p].pc # "idle"

HoldsSlot(p) ==
    /\ req[p].op \in JobOps
    /\ req[p].pc \notin {"idle", "session", "wait"}

\* The deferred release of a job's slot.
Release(p) ==
    IF HoldsSlot(p) THEN [busy EXCEPT ![KindOf(req[p].op)] = @ - 1] ELSE busy

\* The handler answers, whatever the answer, and returns.
Done(p) ==
    /\ req' = [req EXCEPT ![p] = Idle]
    /\ busy' = Release(p)
    /\ UNCHANGED <<issued, deleted>>

GoTo(p, step) ==
    /\ req' = [req EXCEPT ![p].pc = step]
    /\ UNCHANGED <<busy, issued, deleted>>

At(p, step) == req[p].pc = step

\* A client asks.  One that works one request at a time waits its turn.
Ask(p, u) ==
    /\ ~Working(p)
    /\ OneAtATime => \A q \in Procs : Working(q) => req[q].user # u
    /\ UNCHANGED <<rows, now, busy, issued, deleted>>

Arrive(p) ==
    \E u \in Users :
        /\ Ask(p, u)
        /\ \/ \E op \in SessionOps, id \in issued,
                 ps \in Params \cup {NoParams} :
                 /\ op = "plan" => ps # NoParams
                 /\ op \notin {"plan", "apply"} => ps = NoParams
                 /\ req' = [req EXCEPT ![p] =
                       [Idle EXCEPT !.pc = "session", !.op = op, !.user = u,
                                    !.id = id, !.params = ps]]
           \/ \E op \in {"upload", "list"} :
                 req' = [req EXCEPT ![p] =
                    [Idle EXCEPT !.pc = "list", !.op = op, !.user = u]]

\* session(): the store is asked for a copy, and a session that is not there
\* or not the caller's is answered 404 alike.  changes answers 409 for a
\* board that was routed here.
GetSession(p) ==
    /\ At(p, "session")
    /\ UNCHANGED <<rows, now>>
    /\ LET r == req[p] IN
       IF Visible(r.id) /\ rows[r.id].s.user = r.user
         THEN LET s == rows[r.id].s IN
              IF r.op = "changes" /\ s.meta.routed # NoBoard
                THEN Done(p)
                ELSE /\ req' = [req EXCEPT ![p].sess = s,
                                           ![p].pc = FirstStep[r.op]]
                     /\ UNCHANGED <<busy, issued, deleted>>
         ELSE Done(p)

\* Slips in job(): one slot too many, and a wait without the timer.
JobStartOver(p) ==
    LET k == KindOf(req[p].op) IN
    /\ At(p, "wait")
    /\ busy[k] <= Slots(k)
    /\ busy' = [busy EXCEPT ![k] = @ + 1]
    /\ req' = [req EXCEPT ![p].pc = "reload"]
    /\ UNCHANGED <<rows, now, issued, deleted>>

JobTimeoutNever(p) == At(p, "wait") /\ FALSE /\ UNCHANGED vars

\* job(): take a slot if one is free.
JobStart(p) ==
    LET k == KindOf(req[p].op) IN
    /\ At(p, "wait")
    /\ busy[k] < Slots(k)
    /\ busy' = [busy EXCEPT ![k] = @ + 1]
    /\ req' = [req EXCEPT ![p].pc = "reload"]
    /\ UNCHANGED <<rows, now, issued, deleted>>

\* job(): none freed up in JobWait; 503.
JobTimeout(p) == At(p, "wait") /\ Done(p) /\ UNCHANGED <<rows, now>>

\* job(): the caller went away while waiting; nothing is answered.
CallerLeft(p) == At(p, "wait") /\ Done(p) /\ UNCHANGED <<rows, now>>

----------------------------------------------------------------------------
\* Reading the board.  What follows is computed on the handler's own copy.

\* Store.Board answers NotFound: 404.  So do analyse, an unreadable request
\* and an apply with nothing to change answer 400.
ReloadFails(p) ==
    /\ At(p, "reload")
    /\ ~Visible(req[p].id) \/ req[p].op # "changes"
    /\ Done(p)
    /\ UNCHANGED <<rows, now>>

Reload(p, op) ==
    At(p, "reload") /\ req[p].op = op /\ Visible(req[p].id)

\* handleGet, handleNets, the board's preview; handleHeadroom and
\* handleSuggestAreas: a report, and nothing is saved.
ReloadToReport(p) ==
    /\ Reload(p, "read") \/ Reload(p, "headroom")
    /\ Done(p)
    /\ UNCHANGED <<rows, now>>

ReloadForChanges(p) ==
    /\ Reload(p, "changes")
    /\ req' = [req EXCEPT ![p].board = rows[req[p].id].board,
                          ![p].pc = "result"]
    /\ UNCHANGED <<rows, now, busy, issued, deleted>>

WithParams(s, ps) == [s EXCEPT !.meta.params = ps]

ReloadForPlan(p) ==
    /\ Reload(p, "plan")
    /\ req' = [req EXCEPT ![p].sess = WithParams(@, req[p].params),
                          ![p].pc = "update"]
    /\ UNCHANGED <<rows, now, busy, issued, deleted>>

\* The parameters sent with the apply replace the session's.  When the tuner
\* fitted something in there is a tuned board to save.
ReloadForApply(p) ==
    LET r  == req[p]
        ps == IF r.params = NoParams THEN r.sess.meta.params ELSE r.params
    IN
    /\ Reload(p, "apply")
    /\ \/ req' = [req EXCEPT ![p].sess = WithParams(@, ps), ![p].pc = "update"]
       \/ req' = [req EXCEPT
                    ![p].sess = WithParams(@, ps),
                    ![p].board = [rows[r.id].board EXCEPT !.tuned = ps],
                    ![p].pc = "putResult"]
    /\ UNCHANGED <<rows, now, busy, issued, deleted>>

Missing(b) == Hops \ b.hops

\* A slip in handleRoute: the routed board is offered but does not become
\* the session's.
ReloadForRouteNoPut(p) ==
    /\ Reload(p, "route")
    /\ \E made \in (SUBSET Missing(rows[req[p].id].board)) \ {{}} :
          req' = [req EXCEPT
                    ![p].board = [rows[req[p].id].board EXCEPT
                                     !.hops = @ \cup made],
                    ![p].pc = "putResult"]
    /\ UNCHANGED <<rows, now, busy, issued, deleted>>

\* The router makes some of the missing connections.  It may also be stopped
\* by its timeout, which keeps what it connected, so far or nothing.
ReloadForRoute(p) ==
    /\ Reload(p, "route")
    /\ \E made \in (SUBSET Missing(rows[req[p].id].board)) \ {{}} :
          req' = [req EXCEPT
                    ![p].board = [rows[req[p].id].board EXCEPT
                                     !.hops = @ \cup made],
                    ![p].pc = "put"]
    /\ UNCHANGED <<rows, now, busy, issued, deleted>>

\* Nothing is missing, nothing could be connected, or the router was stopped
\* because the caller went away: nothing is written.
RouteMakesNothing(p) ==
    /\ Reload(p, "route")
    /\ Done(p)
    /\ UNCHANGED <<rows, now>>

----------------------------------------------------------------------------
\* Writing back.

\* handleRoute: the routed board replaces the session's, with the copy of the
\* session taken at the start.
SaveBoard(p) ==
    /\ At(p, "put")
    /\ Put(req[p].id, req[p].sess, req[p].board)
    /\ GoTo(p, "putResult")

RecordedBoth(op, s, b) ==
    IF op = "apply"
      THEN [s EXCEPT !.meta.applied = b]
      ELSE [s EXCEPT !.meta.routed = b]

\* The record an apply makes, and the one a router run makes: any earlier
\* tuning was done to copper that has since changed.
Recorded(op, s, b) ==
    IF op = "apply"
      THEN [s EXCEPT !.meta.applied = b]
      ELSE [s EXCEPT !.meta.applied = NoBoard, !.meta.routed = b]

SaveResult(p) ==
    LET r == req[p] IN
    /\ At(p, "putResult")
    /\ PutResult(r.id, r.board)
    /\ req' = [req EXCEPT ![p].sess = Recorded(r.op, @, r.board),
                          ![p].pc = "update"]
    /\ UNCHANGED <<busy, issued, deleted>>

SaveSession(p) ==
    /\ At(p, "update")
    /\ Update(req[p].id, req[p].sess)
    /\ Done(p)

\* PutResult and Update find no session: 500.
SaveFails(p) ==
    /\ At(p, "putResult") \/ At(p, "update")
    /\ ~Visible(req[p].id)
    /\ Done(p)
    /\ UNCHANGED <<rows, now>>

\* handleDelete
DeleteSession(p) ==
    /\ At(p, "delete")
    /\ Delete(req[p].id)
    /\ req' = [req EXCEPT ![p] = Idle]
    /\ deleted' = deleted \cup {req[p].id}
    /\ UNCHANGED <<busy, issued>>

\* handleDownload, the result's preview and handleChanges: 404 when there is
\* no result, else it is served.
ServeResult(p) ==
    /\ At(p, "result")
    /\ Done(p)
    /\ UNCHANGED <<rows, now>>

----------------------------------------------------------------------------
\* handleList answers what the store lists.  handleUpload uses the list to
\* pick the sessions to drop: the oldest, down to one less than the limit.
ListSessions(p) ==
    LET mine == UserRows(Sweep(rows), req[p].user) IN
    /\ At(p, "list")
    /\ SweepForList
    /\ IF req[p].op = "list" THEN Done(p) ELSE
       /\ \E old \in SUBSET mine :
             /\ Cardinality(mine) >= MaxSessions =>
                    Cardinality(old) = Cardinality(mine) - (MaxSessions - 1)
             /\ Cardinality(mine) < MaxSessions => old = {}
             /\ \A a \in old, b \in mine \ old : ~Older(rows, b, a)
             /\ req' = [req EXCEPT ![p].doomed = old, ![p].pc = "dropOld"]
       /\ UNCHANGED <<busy, issued, deleted>>

DropOld(p) ==
    /\ At(p, "dropOld")
    /\ \E id \in req[p].doomed :
          /\ Delete(id)
          /\ req' = [req EXCEPT ![p].doomed = @ \ {id}]
    /\ UNCHANGED <<busy, issued, deleted>>

\* analyse may refuse the board only now, after the old ones are gone: 400.
UploadRefused(p) ==
    /\ At(p, "dropOld") /\ req[p].doomed = {}
    /\ Done(p)
    /\ UNCHANGED <<rows, now>>

UploadAccepted(p) ==
    /\ At(p, "dropOld") /\ req[p].doomed = {}
    /\ \E id \in Ids \ issued :
          /\ req' = [req EXCEPT
                ![p].pc = "create", ![p].id = id,
                ![p].sess = [user |-> req[p].user,
                             created |-> now, expires |-> now + TTL,
                             meta |-> [params |-> DefaultParams,
                                       applied |-> NoBoard,
                                       routed |-> NoBoard]],
                ![p].board = [hops |-> {}, tuned |-> NoParams]]
          /\ issued' = issued \cup {id}
    /\ UNCHANGED <<rows, now, busy, deleted>>

CreateSession(p) ==
    /\ At(p, "create")
    /\ Put(req[p].id, req[p].sess, req[p].board)
    /\ Done(p)

----------------------------------------------------------------------------
TimePasses == Tick /\ UNCHANGED <<req, busy, issued, deleted>>

Init ==
    /\ StoreInit
    /\ req = [p \in Procs |-> Idle]
    /\ busy = [k \in JobKinds |-> 0]
    /\ issued = {}
    /\ deleted = {}

\* A step of the handler that runs as p.
Step(p) ==
    \/ GetSession(p)
    \/ JobStart(p) \/ JobTimeout(p)
    \/ ReloadFails(p) \/ ReloadToReport(p) \/ ReloadForChanges(p)
    \/ ReloadForPlan(p) \/ ReloadForApply(p)
    \/ ReloadForRoute(p) \/ RouteMakesNothing(p)
    \/ SaveBoard(p) \/ SaveResult(p) \/ SaveSession(p) \/ SaveFails(p)
    \/ DeleteSession(p) \/ ServeResult(p)
    \/ ListSessions(p) \/ DropOld(p)
    \/ UploadRefused(p) \/ UploadAccepted(p) \/ CreateSession(p)

Next ==
    \/ \E p \in Procs : Arrive(p) \/ CallerLeft(p) \/ Step(p)
    \/ TimePasses

Spec == Init /\ [][Next]_vars

\* Every handler runs on: the store's methods return, the tuner and the
\* router end (the router is stopped by its timeout), and the timer of a
\* waiting job fires.  That callers come, or leave, is not promised.
FairSpec == Spec /\ \A p \in Procs : WF_vars(Step(p))

----------------------------------------------------------------------------
\* jobs.go: the slots taken are those of the handlers past job(), on every
\* way out of them, and no more run at once than there are slots.
JobSlots ==
    \A k \in JobKinds :
        /\ busy[k] = Cardinality({p \in Procs :
                                     HoldsSlot(p) /\ KindOf(req[p].op) = k})
        /\ busy[k] <= Slots(k)

\* session.go, Session.Routed: "When it is set, the board in this session is
\* the routed one".  However requests interleave, no session claims a routed
\* board while it holds the upload.
RoutedMeansRouted ==
    \A id \in Live(rows) :
        rows[id].s.meta.routed # NoBoard => rows[id].board.hops # {}

Quiet(id) == \A p \in Procs : Working(p) => req[p].id # id

\* The sessions a user can see and nobody is working on.
Settled == {id \in Ids : Visible(id) /\ Quiet(id)}

\* Session.Applied describes the result that can be downloaded, and the
\* result was made from the board the session holds ("the board that gets
\* tuned is the board that was analysed").
AppliedDescribesResult ==
    \A id \in Settled :
        LET row == rows[id] IN
        row.s.meta.applied # NoBoard =>
            row.result = row.s.meta.applied /\ row.result.hops = row.board.hops

\* Every request is answered in the end, or its caller left: nothing waits
\* for a job slot for ever.
EveryRequestEnds == \A p \in Procs : Working(p) ~> ~Working(p)
=============================================================================
