# The PCB length tracer analyzer, specified

The program reads a KiCad board, finds the interfaces whose traces must be
matched in length, says how far each is from it, draws meanders that make up
the difference, and can lay the connections that are missing. It runs in two
places: behind a web site, as an HTTP service over a store of sessions, and
beside KiCad, where a Python plugin starts the same service as a child process
and talks to it over two pipes.

These modules specify the parts in which steps of several actors, or of several
rounds, have to fit together, and the rules by which the analysis decides what is
asked of the user: which nets belong together, which is matched to which, where
length can come from, and when copper is too near. Floating-point geometry is
left to the tests of the Go packages; where a rule needs a geometry to be stated,
it has one of boxes on an integer grid.

## 1. The parts of the system

| part | source | state | operations | what is hard |
|---|---|---|---|---|
| session store | `server/session.go`, `deps.go` | sessions with board, result, owner and expiry; a bound on bytes | Put, Get, Board, PutResult, Result, Update, Delete, ListByUser; sweep and eviction inside them | accounting at the bound, which session goes, a session that expires between two calls |
| HTTP service | `server/api.go`, `route.go`, `kicad.go`, `preview.go`, `suggest.go`, `jobs.go`, `service.go` | the store, job slots | upload, get, list, delete, plan, apply, headroom, route, download, preview, changes | handlers read, compute for minutes, and write back a copy; several run on one session |
| router | `route/*.go` | queue, rounds, grid, checker, board, results | Route, one, commit, ripUp, Stop | copper recorded in three places, rip-up over several rounds, a stop anywhere |
| engine pipe | `pipehttp/pipehttp.go`, `engine.py` | frames in two pipes, pending futures, goroutines | request, answer, close, kill | writers and readers of both processes, late answers, the end of either side |
| plugin window | `controller.py`, `window.py`, `scheme.py`, `netpanel.py` | current session, rules of the board, page jobs | rescan, tolerance, selection, page requests | three threads change session and rules |
| rules store | `rules_store.py` | one file per board | load, save | a crash, or another save, during a save |
| single instance | `single.py` | lock file, request file, owner | acquire, heartbeat, release, ask_to_show | stale locks, two takers, timeouts |
| net lengths | `netlen/` | the graph of one net, built anew for each measure | merge ends, divide tracks, attach pads, shortest routes, islands | a greedy choice of which ends are one; two notions of what is joined that have to agree |
| length tuning | `tune/`, `server/suggest.go` | remaining length, board, checker | Headroom, Tune, Expand, Suggest | partial success, order of nets, room promised twice |
| clearance checker | `drc/` | obstacles, and an index of them | AddTrack, RemoveRef, Check | index and board agree; what is out of the margin is never seen |
| DDR planner | `ddr/` | none | Scope, Classify, BuildPlan | strobes have no lane in their name; legs of one net lengthen the next |
| other interfaces | `proto/`, `server/interfaces.go` | what the user said of each | Detect, Reassign, Assess, candidates, rows | detectors take nets from each other; one net is judged in three places |
| series parts | `netlen/series.go` | none | Joined | following a part that ends the signal |
| board, project, rules files | `board/`, `sexpr/`, `pkglen/` | tree of the file, tracks, tracks by net | read, AddTrack, ReplaceTrack, RemoveTracks, write; net classes, custom rules | the same copper kept in three places; which rule wins, and for which of two pieces |
| report, preview, command line | `report/`, `preview/`, `cmd/` | none | print | formats |
| web application | `webapp/` | React state | pages and forms | requests overlap (seen as such by the service) |

How they interact: the web application and the plugin's page send the same HTTP
requests. On the site `net/http` gives each a goroutine; in the plugin
`pipehttp.Serve` does. The handlers share nothing but the session store and the
job slots. The route handler runs the router on a board of its own, which asks
the clearance checker. The plugin's controller makes requests from its KiCad
thread, the page from the Qt thread, and a reader thread hands all the answers
out. A second press of the plugin's button finds the first window through a lock
file.

What makes each part correct:

* session store: never more bytes than the bound after an insertion if one
  session can be spared; the oldest goes first; an expired session is never
  seen, and what is seen is what was last written;
* HTTP service: a handler works on its caller's sessions only; slots are given
  back; what a session records (`Applied`, `Routed`, `Params`) is true of the
  boards it holds;
* router: copper laid is clear of all other copper; board, checker and results
  agree; every request ends routed or with a reason;
* engine pipe: whole frames; each answer to the one who asked; everybody hears;
  the engine answers what it has read and goes when the plugin goes;
* plugin window and rules: a rescan keeps what the user decided, saved rules are
  whole and belong to their board;
* single instance: at most one live window, and a press always leads to one;
* net lengths: what touches is joined, no track is swallowed by a junction or loses
  a piece, dividing a track makes no short cut, routes are the shortest;
* tuning: what is drawn is clear and keeps every connection; what is reported is
  what was drawn; what was promised (headroom, suggested areas) holds;
* checker: after any edits it answers as one built over the saved file would, that
  file differs by the edits only, and no less is asked for than KiCad will, or than
  the user did;
* interfaces: every pair is held to a limit, applying what is asked settles it,
  and a report that asks for nothing describes a matched interface.

## 2. Modules

| module | models | extends / instantiates |
|---|---|---|
| `SessionStore` | every method of `MemoryStore` | |
| `StoreContract` | what the `Store` interface promises its callers | |
| `SessionStore_proofs` | theorems about the store | `SessionStore`, TLAPS |
| `SessionServer` | the handlers, composed with the store | instantiates `SessionStore` |
| `SessionServer_proofs` | theorems about the handlers | `SessionServer`, TLAPS |
| `Router` | `Route`, its grid and its checker | |
| `Router_proofs` | theorems about the router | `Router`, TLAPS |
| `EnginePipe` | both ends of the pipe | |
| `EnginePipe_proofs` | theorems about the pipe | `EnginePipe`, TLAPS |
| `NetLength` | `buildGraph`, the shortest routes and the islands of one net | |
| `CopperGeometry` | which ends and tracks touch, on a grid | |
| `NetLength_proofs` | theorems about the graph | `NetLength`, TLAPS |
| `Plugin` | controller, window, page, scheme handler and rules store | |
| `SingleInstance` | the lock file and the request file of the window | |
| `Plugin_proofs` | theorems about the plugin and about the lock of its window | `Plugin`, `SingleInstance`, TLAPS |
| `Clearance` | the checker as the tuner asks it, on boxes | |
| `LengthPlan` | the DDR plan: groups, references, legs, need | extends `Clearance` |
| `Meander` | stretches with room, capacity, the copper of a meander | extends `LengthPlan` |
| `BusSpread` | buses, and spreading them | extends `Meander` |
| `AreaSuggestion` | areas proposed for meanders | extends `Meander` |
| `Tuning` | a run of the tuner from load to finish | extends `BusSpread`, `AreaSuggestion` |
| `DesignRules` | net classes, custom rules and their conditions | |
| `BoardFile` | a board as a file, as a tree and in memory | |
| `Checker` | board, file and index of copper, edited by router and tuner | extends `DesignRules`, `BoardFile` |
| `Checker_proofs` | theorems about the checker, the file and the list of tracks | `Checker`, TLAPS |
| `InterfaceNames` | the detectors, pairs, reassignment | |
| `InterfaceReport` | assessment, targets, candidates, missing connections | extends `InterfaceNames` |
| `SeriesParts` | signals through series parts | extends `InterfaceNames` |
| `NetLookup` | the rows of the page and of the panel | extends `InterfaceReport`, `SeriesParts` |
| `DdrClassify` | scope, roles, lanes and pairs of the memory bus | extends `InterfaceNames` |
| `Interfaces` | the user working through the report | extends `NetLookup`, `DdrClassify` |
| `Interfaces_proofs` | theorems about the report and the missing connections | `Interfaces`, TLAPS |
| `MC...` | constants for TLC | the module named |

### SessionStore

`rows` maps a session id to its metadata, board and result, `now` is the clock.
`Put`, `PutResult`, `Update`, `Delete` and `SweepForList` are the writing
methods, each with the sweep or the eviction it makes inside the lock; `Get`,
`Board` and `Result` are what `Visible` says. A method is one step because
`MemoryStore` holds its mutex throughout. A board is a value with a size; a file
that two rows hold, or that is a session's board and its result, is counted twice,
as `bytes()` does. Parameters, analysis and the like are one
value, `meta`. `StoreContract` forgets bytes, clocks and eviction: sessions may
vanish at any moment, and otherwise hold what was written last. The refinement
mapping `Shown` is what a caller can see.

### SessionServer

Each process is a goroutine with one request (`req`): who asks, for which
session, its copy of the session and of the board, and its next step. Each call
of the store is a step of its own, so everything a handler does between two
calls can be overtaken. `Arrive` picks any operation, any session and any user.
`GetSession` is `session()`, with the check of the owner. `JobStart`,
`JobTimeout` and `CallerLeft` are the three cases of `job()`'s select. The
`Reload...` actions are what each handler does with the board it reads;
`SaveBoard`, `SaveResult` and `SaveSession` are the store calls that end `route`
and `apply`. Uploading is `ListSessions`, `DropOld`, `UploadRefused` or
`UploadAccepted`, `CreateSession`, in the order of `handleUpload`: the old
sessions are dropped before the board is analysed. Boards are abstract: which of
the missing connections have been routed into them, and which parameters they
were tuned with. `applied` and `routed` in the metadata are the boards the
recorded numbers were measured on, so that "the record is about the file" is an
equation.

### Router

The lists of `Route` are `queue`, `failed`, `todo` and `again`; `laid` is
`Result.Tracks` of each request, `explained` whether it has a `Reason`. A path
is a set of cells. `Corridor`, `Paths`, `Around` and `Clash` are parameters with
no assumption but that `Clash` is symmetric, so that what is checked and proved
holds whatever the geometry is. The search is abstract: it proposes any path
whose cells the net may use (`Commit`, `Refused`), or none (`NoWayThrough`). The
grid only proposes; `Accepted` is `reject()`, the checker's judgement, against
everything it knows but what the track is exempt from. `BeginRipUp`, `MakeWay`,
`GiveUp` and `NextRound` are the second half of `Route`'s loop. `Stop` may come
at any time and is looked at where the code looks.

### EnginePipe

A pipe is a sequence of pieces with a capacity; a frame is two pieces, `head` and
`body`. A caller goes through `request_async` step by step: register, take the
write lock, write, flush, wait; when a write fails, unregister and fail the
future. `TimeOut` is `result(timeout)`. The engine reads header and body,
serves each request in a goroutine of its own, and writes an answer under the
frame lock. The reader thread matches answers and, when the stream ends, closes
the register, takes the waiting futures and fails each. Asking `done()` and
setting the future are two steps, as nothing holds them together. `Close` and
`Killed` happen whenever they like. `read` and `sent` are history.

### NetLength

`Init` is a net given to `Measure`; `pc` says which loop of `buildGraph` or
`Measure` runs, and an action is one turn of it. `root` and `owners` are
`clusters`, as what `find` returns. `Merge` is `clusters.union` on the closest
pair left, `Trace`, `Split` and `comp` the second union-find that decides whether
a landing divides a track. `sort.Slice` and the heap promise nothing of equals,
so `Merge`, `Split`, `Pop` and the order of pieces at one place take any of them.
`DrawTrack`, `DrawVias` and `Attach` make the edges; `StartFrom`, `Pop` and
`Record` are `dijkstraFrom` for each pad, taken in any order, and `Finish` is
`islands`. An edge keeps its parts (track, barrel, pad entry, package), so that
a length can be compared with what it is made of.

What touches what, and how far apart, is a parameter: theorems hold for any
geometry. `CopperGeometry` is the geometry of the source on a grid, for straight
tracks along an axis; `MCNetLength` puts a net of nine tracks, a via and three
pads on it and measures its subsets.

### Plugin

`queue` is what waits for the KiCad thread and how far the flow it is in has come
(`ReadBoard`, `TakePrevious`, `Upload`, `Swap`, `DeleteOld` are `rescan()`,
`AskParams`, `PlanTolerance`, `Save` are `set_tolerance_everywhere()`); `qt` is
what has been posted to the Qt thread. The page's `plan` goes to the engine
through the scheme handler, and the rules that follow it are saved by the thread
that reads the engine's answers: that makes two writers of one temporary file,
and `Save` is its three file operations (`OpenTmp`, `WriteTmp`, `Replace`).
`Restart` ends the plugin between any two steps and starts it again from the file.
What the user decides is a set of decisions; `agreed` is what he was last told is
in force.

Any call to KiCad or to the engine may fail, and fails without having been carried out.
`RescanFails` is a board that cannot be read or uploaded: the page that asked is
answered 409 (`refused`), the toolbar warns (`failed`). A warning runs an event loop of
its own, so what is posted is delivered behind it, and warnings may lie over each other
(`warned`); when one has been read (`Dismiss`), the window goes to the page without a
session, whatever was opened meanwhile. A session that does not say what is asked of it
is replaced by one with the rules on disk (`TakePrevious`), and a tolerance is then
planned over no rules at all (`AskParams`, `heard`). A plan that the engine refuses,
since an area does not fit the board any more, or does not answer, leaves the new
session with its defaults (`Upload`); `dropped` says that the file still has the rules
that were not taken. `ToleranceFails` and the second half of `AnswerPlan` are plans that
leave everything as it is.

Requests of the page that overlap with others (`crossed`) do lose decisions: a
rescan takes the previous parameters first and puts them into the new session
seconds later. The properties are about histories without that.

### SingleInstance

A press is a process; `pc` is where it is in `acquire`, `ask_to_show` and
`release`, a file operation a step. `lock` is the file: who created it, whether
his token is in it, its age. Time goes by heartbeats (`Tick`), and only when no
process is between two operations: those take no time on this scale. A process
that hangs does so at `open`, by not beating: `gap` is the longest silence. It may
crash at any time it has a window.

### Clearance, LengthPlan, Meander, BusSpread, AreaSuggestion, Tuning

A board has tracks along x on an integer grid, each the box it lies in and its
length: a meander is a piece with a high box and more length than its span.
Distances are between boxes, the larger of both directions. `LengthPlan` is
`BuildPlan` over nets that run past their pads (`at`, `stub`), byte lanes and
fly-by legs, with what the legs before one will add (`Beyond`). `Meander` profiles
a track for the room beside it, takes the most capacious stretches and replaces
the track. `BusSpread` finds members that run side by side, measures the room at
the outside, allots it by need and moves the units from the far end inward.
`AreaSuggestion` clusters stretches into areas. `Tuning` is the order in which
`analyse` of the command line, `handleApply` and `handleSuggestAreas` use them; a
step is a track, a bus or a phase, as nothing else runs meanwhile.

Left out of `Clearance`, and kept in `Checker`: custom rules, `SameNetGap` and
open spacing. Left out of both: widths. Tolerances in picoseconds, skipped nets
and notes are left out of `LengthPlan`. Ties between suggested areas are broken in
one order.

### DesignRules, BoardFile, Checker

`DesignRules` parses a condition, given as tokens, the way `rulecond.go` does (an
unknown term makes the rule unreadable) and finds the last rule that holds of two
pieces; a condition stands for the set of items it is true of. `Meaning` is what
the words mean to KiCad, which reads all of them.

`BoardFile` is `sexpr.go` below the root of a board, and the part of `board.go` that
edits tracks. A text is the sequence of the items, each with the space before it and
laid out as found or as KiCad writes; what an item says of a track is a record in
place of its words (`NodeSays`, `TrackOf`). A tree remembers what was changed in it
(`dirty`), and `WriteTree` is `Write` with its three cases. The lexer, quoting and the
rounding of numbers to a nanometre are left out.

`Checker` has `obs` and `index` as in `drc.go`, with cells of `Step`, over a `board`
of `BoardFile`. The router lays, is refused and rips up paths (`Lay`, `Refuse`,
`RipUp`) under rules that may loosen, and keeps what it may touch (`exemptions`); the
tuner, with a checker of its own (`StartTuning`), redraws under rules that only
tighten and with zones and open spacing: the meanders are clear, and the whole is no
worse than the track was (`Worst`). What replaces a track gets uuids from `newUUID`, so
none of it is on the board yet. `added` and `drawn` name the copper that is where
the file had none, for the properties.

### InterfaceNames, InterfaceReport, SeriesParts, NetLookup, DdrClassify, Interfaces

A net name is the words of its sheet and of its last part; a regular expression is
the set of word sequences it matches, so far as the boards here use them. The
seven detectors run in the order of the code, each on what is left. Lengths are
whole units; thresholds (16 nets of a DDR bus, four of an RGMII direction) are
small constants. `Assess`, targets, rows and candidates are those of
`detectInterfaces`, with the length of a net alone (`length`) and of its signal
over its series parts (`signal`). The order of fly-by chains by distance and the
sorting of rows are left out. In `Interfaces` a step is a request (`Say`,
`Tolerate`, `Connect`, `Lengthen`) and the analysis that follows it.

## 3. What the runs check

| run | instance | shows |
|---|---|---|
| `store` | 3 sessions, boards of 1 and 2, bound 4, lifetime 2, clock to 3 | `BudgetKept`, `OldestFirst`, and that the store implements `StoreContract` |
| `server_overlap` | 2 goroutines, 2 users, 1 session, 1 slot of each kind | `JobSlots`, `RoutedMeansRouted`, and that every request ends |
| `server_serial` | 2 sessions, 2 users who wait for each answer, 2 parameters, bound 3, expiry | `AppliedDescribesResult` |
| `router` | 4 requests on 3 nets, 8 cells, 2 tries, 2 rounds | `BoardAgrees`, `CopperClear`, `NoneForgotten` |
| `pipe` | 2 callers, 3 requests, pipes of one frame | `FramesWhole`, `AnsweredBySent`, `ServedBeforeExit`, `EndedLeavesNone`, `EveryoneHears` |
| `netlen` | 94 nets: a trunk with at most three of eight other tracks (short connectors, a branch, a spur, one over a pad), and a loop | `OneEndEach`, `TouchingJoined`, `RoutesShortest` |
| `window` | 3 presses, one under way at a time, stale after 3 beats, asked for 2 | `SoleWindow`, `PressAnswered`, `PressEnds` |
| `plugin` | 2 decisions, 4 operations of the user, any call failing | `RulesOnDisk`, `DecisionsKept`, `ComesToRest` |
| `tuning` | 20 boards of 7 nets behind a wall or not, with four ways to be asked | `CopperClear`, `PathsKept`, `ReportedIsDrawn`, `ExcessAnnounced`, `MetMeansMatched`, `HeadroomBounds`, `SuggestedServes` |
| `checker` | 7 paths and 3 meanders of 3 nets around a part, 3 lists of rules, 4 edits | `FollowsBoard`, `KiCadAccepts`, `SpacingKept` |
| `interfaces` | 8 families of net names, every two of them and all, up to 3 sets of lengths, 4 memories, one correction by the user | `PairsChecked`, `AppliedSettles`, `SilentMeansMatched`, `ToldAlike`, `StrobePerLane`, `FewestJoins` |
| `interfaces_ids` | the same | violated: `OverridesHeeded` |

The violated run: the report calls an interface by its name and takes what the user
says of it under its `ID()`, which is another string, so what he says in the page
is never heeded. The passing run says it under `ID()`, which is what the code looks
up.

### Disagreements met while modelling

These have no run of their own. The models contain the behaviour, and the
properties above are stated so as to leave it aside; where that takes a condition
it is named.

* `server/route.go:229`, `api.go`: overlapping requests of one user on one session
  write copies over each other. The numbers of an apply and the file offered may
  not belong together (`AppliedDescribesResult` is checked for clients that wait),
  and a deleted session comes back when a router run ends.
* `route/route.go:327`: after the last round, a route that was ripped up to make
  way is not laid again and its result has neither tracks nor a reason.
* `route/lay.go:322`: uuids start from one in every process, and boards come back.
* `engine.py:312`: when the engine dies, a caller that fails its own future between
  the reader's look and its act kills the thread that should tell the others.
* `netlen/graph.go:256`: a corner of two short connectors is merged into one
  junction and the route leaves both out.
* `single.py:65`: of two presses at once, one may unlink the lock the other has just
  made, and both have a window; hence one press at a time in `window`.
* `controller.py:141`: a decision of the page during a rescan is lost (`crossed`).
* `controller.py:187-194`, `214`: when the engine does not say what the session holds,
  `set_tolerance_everywhere` plans the tolerance over `{}`: every other decision is lost
  and the loss is saved, and the window says only that every group is held to the
  tolerance. In the model `agreed` is then what was planned (`ToleranceSet`).
* `controller.py:143-148`: a plan that times out on the new session is passed over like
  one that is refused: the session has the defaults, which the page shows, and the file
  the rules (`dropped`).
* `window.py:240`: after a rescan of the toolbar that fails, the window goes to the page
  without a session, which `main.tsx:57` says is shown "when there is no session to
  show, or it has gone" and which tells the user that no board was read, while
  `ctl.session` and the session in the engine are as they were and the toolbar goes on
  to act on them. `DecisionsKept` therefore asks nothing of a page that shows no board;
  what a page shows that has one must be the session there is.
* `window.py:239-241`: the warning of a failed rescan lets later results through before
  it returns, so a later rescan that went well is followed by the page without a session.
* `tune/expand.go:168`: the travel of a spread trace is capped by its need per bus, so
  a net that runs in two buses is lengthened by up to its need in each.
* `drc/drc.go:557`: the search margin knows nothing of custom rules or of the class of
  the obstacle, so an obstacle that asks for more than the margin is not seen; laid in
  the other order the same two pieces are refused. `SpacingKept` holds the class
  clearance as far as both nets look (`Reach`), and says of the open field only where
  nothing asks for more than that (`Covered`). The rules are stricter than KiCad, as
  `README.md:262-270` of the repository and `board/rules.go:30-35` say, where they
  relax; one that asks for more and holds for one piece of two, or that negates a
  courtyard term, is read the other way. The lists of the run have none of those.
* `tune/shape.go:246`: a track KiCad lets be near other copper because a part of it is
  in a courtyard is cut when it gets a meander, and the pieces outside are judged
  alone; "no worse" compares distances only. `KiCadAccepts` is about copper that is
  where there was none.
* `board/board.go:391`: the tracks `ReplaceTrack` puts in have an `Index` of 0, since
  `reindex` runs before they are in the list; nothing reads it.
* `server/route.go:158`: "running it again carries on with the rest" is so only when
  something of the batch was laid; the batch starts with the same connections.
* `proto/detect.go`: two interfaces called USB share an ID. `server/interfaces.go:421-480`:
  the half of a pair whose other half is in a group has a row that may want length
  and is never a candidate; a group with a limit of zero has rows "in tolerance" and
  candidates; an AC-coupled pair is asked for the same skew on both sides of its
  capacitors; a target may be the mean of a joined and a single length (line 382);
  a clock pair made even changes what its group asks next.
* `ddr/classify.go`: a bare sheet name such as `/ddr/DQS0_P` is read as an instance;
  `DQSU` and `DQSL` have no number and are left to the device they land on.
* `server/suggest.go`: a net of several groups is looked for on the copper of the
  first only, and nets that are too long get proposals too.

### Bounds, and why they are enough

* Store: the third session is the one that neither is written nor is the oldest;
  a bound of four with boards of one and two makes evictions of one and of two
  sessions, with and without a result. Ids are symmetric; the clock is not.
* Server: two requests in flight give every pair of overlapping handlers. A third
  would add waiting only. `server_overlap` has one session and no expiry so that
  liveness can be checked without symmetry; `server_serial` has both.
* Router: 4 requests make two queues after a failure (one that made way, one that
  is tried again), two hops of one net share cells, and one pair of lanes is
  refused by the checker though free on the grid. Two tries reach the limit.
* Pipe: three ids let a caller come back while an earlier answer is still on its
  way. A pipe of one frame blocks both sides; pipes of one piece and of three
  were checked too and differ in nothing.

* Window: the third press finds what the first two left. Three beats let a window be
  late by one, by two and for good; two ask long enough to be answered or not.
* Plugin: two decisions are one that always fits and one that a change of the board
  may refuse; four operations give every pair of overlapping ones, a third to come
  in between, and one to look afterwards.
* Tuning: two devices make legs that follow each other; three address nets a bus of
  an edge and a middle, two of which are a pair. Walls bound the room on one side of
  a part of them.
* Checker: the part's courtyard, its edge and the open are each crossed by a track;
  four edits lay, retire, lay again and redraw. A path with a via retires copper on
  three layers; a meander keeps a stretch that is nearer than its class allows.
* Interfaces: pairs of families show what one detector takes from another. Spreads
  of two units against limits of one and two are inside, at and outside them.

* Net lengths: a track and its two neighbours are enough for a wrong merge, and a
  fourth track for a loop. Two pads make a route, the third an island or a way through.
  Ends at equal distance are there, so ties are taken both ways.

`MaxTime`, `MaxId`, `MaxOps`, `MaxEdits`, `MaxPressing`, `Capacity` (a bound, and the fact that pipes block) and
`Procs` are the bounds; the other constants are parameters of the code.

### Fairness

`FairSpec` of the server: every handler that can go on does. The store's methods
return, the tuner ends and the router has a timeout; the timer of a waiting job
fires, so that nothing has to be assumed of the order in which slots are given.
Nobody has to make a request, and a caller may leave.

`Spec` of the pipe: threads and goroutines that can run do (weak fairness of each
caller, of the engine's loop, of each goroutine and of the reader), and every
handler returns. Nothing is assumed of `Register`, `TimeOut`, `Close` and
`Killed`. A caller waiting for the write lock meets it free for good in the end
since requests are bounded, so weak fairness is enough.

`Spec` of the measure: one goroutine runs it without waiting for anybody, so it
goes on while there is a next step (weak fairness of `Next`). That this leads
anywhere is `Ends`.

`SingleFairSpec` of the window: time passes, a process between two file operations goes on,
a start succeeds or fails, a press that waits is picked up or gives up. Nobody has to
press or close, and an open window need not beat.

`FairSpec` of the plugin: one of the threads that can go on does (weak fairness of
`Progress`, the weakest that brings it to rest). Nothing is assumed of the user, of
KiCad or of `Restart`; that a call returns, with what was asked for or with a failure,
is. A warning need not be read: a window that stands behind one and has nothing else to
do is at rest.

`Checker`, `Tuning`, `Interfaces`, `Router` and the store have no fairness: nothing is
claimed of them but safety.

Deadlock is not checked for the plugin and the checker, whose users have a bound on
what they do, for the interfaces, which may be matched and corrected, nor for the measure, which returns. It is not checked for the pipe either: when every id is used, the engine gone and
the reader ended, nothing is left to do. The other runs check it.

## 4. What is proved

All theorems hold for every value of the constants that satisfies the named
assumption of the module.

* `SessionStore_proofs`: `StoreTypeCorrect`; `StoreKeepsBudget`, whose work is in
  lemmas about the bytes held by rows (`BytesAdded`, `DropHeld`, `BudgetWrite`);
  `StoreEvictsOldestFirst`, an action property; `StoreImplementsContract`, step
  by step: an eviction or a sweep is a `ContractForget` or part of a write.
* `SessionServer_proofs`, for any number of requests in flight: `ServerTypes`, from
  what each step of a handler needs (`Sound`); `ServerJobSlots`, by counting the
  requests past `job()`; `ServerRoutedMeansRouted`. That last one is not inductive,
  because what is written back is a copy made earlier: `RouteInv` follows the claim
  through the copies (`ClaimsHeld`: whoever holds a copy that claims a routed board,
  the store holds a board with connections under that id, or no row), and says that a
  session being created is in nobody else's hands (`CreatorsAlone`, which needs that
  `newID` never repeats itself: `NewIdsFree`). `ServerAppliedDescribesResult` is
  for clients that ask one thing at a time (`OneAtATime`, as in `server_serial`). A
  user then has one request at work, and a session one owner, so at most one handler
  past `session()` has a copy of it (`CopiesApart`). Until it saves, that copy is the
  row (`Tied`). Between the two saves of a request the row may say the wrong thing of
  its result, and the second save may fail: but it fails only for a row that expired
  or was evicted meanwhile, which nobody can see (`Truthful`).
* `Router_proofs`: `RouterTypeCorrect`; `RouterNoneForgotten`, through the
  invariant that the four lists, the request in hand and the requests laid are
  apart and without repetition; `RouterBoardAgrees` and `RouterCopperClear`
  together, because each needs the other, and both that a uuid names one piece of
  copper (`UniqueIds`, a part of the invariant): therefore removing by uuid removes the
  same from board and checker, therefore the checker's judgement is about the board.
  The two assume `FreshIds`: the board came with no uuid the counter will give out. The
  code does not establish it (see the disagreements).
* `EnginePipe_proofs`: `PipeTypeCorrect`; `PipeFramesWhole`, from the invariant
  that the last piece in a pipe is half a frame exactly when somebody is in the
  middle of writing it, and that this somebody holds the lock;
  `PipeAnswersItsOwn`, which needs whole frames (the body that follows a header
  in the pipe is that of the same answer); `PipeServedBeforeExit`;
  `PipeEndedLeavesNone`, from `WaiterHeld`: a future nobody has answered is
  registered, taken, in the reader's hand, or about to be failed by its caller.

* `NetLength_proofs`: `NetOneEndEach`, from the invariant `Junctions`: the owners
  recorded for a cluster are exactly those of its members, and ends that were
  looked at are in one cluster or in two that share an item. `NetTouchingJoined`
  needs the other half of it: two clusters share an item only if it is a track
  with an end in each, and a track that was traced is one piece (`Pieces`). Both
  hold for any geometry; of `NetAssumption` they use that the kinds of copper are
  apart and that nets are made of it. `NetRoutesShortest` is about the code of
  Dijkstra as it is, with its stale items and parallel edges, and compares it with
  rounds over all edges (`Distances`, Bellman and Ford).
  - The graph that is built has finitely many edges, and those of a via end in its
    middle, where no other edge ends (`Graph`).
  - `Ways` is the least set of nodes and distances closed under the edges. What is
    reached is reached by a way, and has led on or is still on the heap (`Routing`);
    so with the heap empty every distance is the least of the ways (`RoutedExact`).
    A way can be walked back, so what is known from one pad is known from the other
    (`NearestBack`): the code routes each pair from whichever pad comes first.
    `NearestFound` says that as many rounds as there are nodes find every nearest
    way: after k rounds without all of them, more than k nodes have theirs.
  - Whole barrels need the order of the heap: what was taken from it is never brought
    nearer, so a route cannot enter the middle of a via twice (`Walked`). The walk back
    is unique because every node has a rank above that of the one before it, and half
    a barrel is open only in the middle of a via, where no pad is (`Crossed`). That a
    sum over a set does not depend on the order is `SumsPlus`.

* `Plugin_proofs`, of the lock: `TypeCorrect`, and `OneWindow` for one press at a time and
  any number of them, any `STALE_S` and any crashes. One window is not inductive: what
  keeps a second press out is the lock, so the invariant `SoleInv` says (`HolderKeeps`)
  that, while no window was silent too long, whoever has or is about to have a window
  holds a lock with its token, not older than its last heartbeat; and (`OneAtATime`)
  that nobody else is between judging a lock and removing it. `TimeKeeps` shows that
  time cannot make that lock stale before `gap` tells. The assumption that presses do
  not overlap is needed: see the disagreements. `EveryPressAnswered` adds that a press
  waits no longer than a lock takes to go stale (`AskS <= StaleS`: `single.py:101`
  waits 4 seconds, `STALE_S` is 6). Its invariant, `AnswersInv`, follows one request
  from the press that writes it to the window that takes it: a press whose request is
  gone was answered (`Picked`), a request waits no longer than the window that is to
  take it was silent (`Heard`), and a press that takes the lock again either was
  answered or finds the lock free (`Free`).

* `Plugin_proofs`, of the plugin, for any number of operations and any decisions: `Types`, from what
  each job of the KiCad thread holds at each of its steps (`Sound`); `RulesKept` and
  `RescanKeeps` together, from `Clean`, which holds until a request of the page crosses
  another operation (`crossed`: the code lets it, see the disagreements). A request of
  the page is then alone (`PlanAlone`), and so is a rescan the page waits for
  (`WaitsAlone`); `DiskInv` says how far a save has come and what each of the two files
  holds by then, for the thread that saves; `Decided` says which session, file or job
  holds the decisions in force at each step of a rescan; `PageInv` says that the last
  result that opens a page (`Opens`, as against `Leaves`) opens it on the session there
  is, and a page that none opens is on that session, or on none since a warning was read.
  A step that fails leaves files, session and `agreed` as they were (`CleanRest`); one
  that was not answered takes what is on disk, which `DiskInv` says is what the
  session holds. That no decision is called
  `unread`, `gone`, `none` or `torn` keeps the decisions apart from the marks the model uses
  for a file.

* `Checker_proofs`, for any file, paths, meanders, rules and number of edits:
  `CheckerFollowsBoard` and `CheckerSpacingKept`, the two halves of what the router and
  the tuner rely on. `Only` keeps a part of a list by a recursive function; what that
  returns for every list is proved first, by induction over a set of lists
  (`Appending`), since no prover here takes the induction theorems of the library.
  - `CheckerFollowsBoard` rests on `CheckerInv`: the tree, the list of tracks and the
    tracks by net say the same (`InMemory`); of what the file said the lines that are
    left are as they were and in their order, and only tracks of it are gone
    (`LinesKept`); what is live in `obs`, as a set, is the pieces of the board's tracks
    and what does not move, and the index has every position under every cell; each
    exemption that was looked up is what would be found now; while the router works the
    board is the file and the paths laid. What `Check` answers is then shown to depend
    on that set only (`ClearIs`), not on the order or on what was retired.
  - `CheckerSpacingKept` adds `SpacingInv`, which says two things of whatever was drawn
    and each live obstacle of another net: they are not both in an area and nearer than
    it asks, and not nearer than their classes ask and within the reach of both searches
    (`HasSpace`); and where nothing asks for more than that reach (`Covered`), there is
    the room `required` asks for (`HasRoom`). A later redraw of another
    track is judged from its own side only, and by "no worse" where it is a stretch of a
    track that was there, so the proof needs that room asked one way is room asked the
    other way (`SpaceBothWays`, `RoomBothWays`: the open field included, where the common area of two
    boxes that are apart is not the same both ways), that an obstacle of another net is
    never exempt (`NotExempt`), and that what is too near is found in the cells searched
    (`FoundInSpace`, `FoundNear`).

  Both assume `FreshIds`: a uuid names one track, and what is laid or drawn is new. As
  for the router, the code does not establish it. Nothing is assumed of what classes and
  rules ask for: where it is more than the search looks for (`drc.go:557`), the property
  says what is kept all the same, since `Clear` refuses whatever it does see. What it
  leaves open is the field around copper of two nets that are not `Covered`: a stretch
  of the old track may then stay as near as it was. `SpacingAssumption` is
  what the constants are, boxes with their corners in order and clearances that are
  numbers; TLC evaluates it, and `FreshIds` holds for the constants of the run.

* `Interfaces_proofs`, for any board, names, series parts, lengths and islands.
  - `InterfacesSilentMeansMatched` rests on the invariant `IInv`: an interface that was
    found, and what the user made of it, is of nets of the board (`DetectIs` over the
    seven detectors, `ReadingIs` over reassignment, references and limits), every net and
    every signal measures a natural number (`MeasureTyped`), and the report is of all
    this as it is now. A group nothing is asked of has its members at the target or
    within the limit of it, whatever the target is, and the rest is the triangle
    inequality (`NearEach`).
  - `InterfacesFewestJoins` is the theorem about minimum spanning trees, for
    `islandJoins` as it is coded: islands stay sets of pads with nothing in common when
    the router joins two (`Merged`); after each round, whatever joins the islands can be
    had with the connections made so far and takes no less copper (`NoDearer`), because
    the next connection takes the place of one of that tree which leads from what is
    reached to what is not (`Exchange`) and is no longer (`SwapIsNoDearer`). The
    property names trees; the lemma `IslandJoinsIs` says it of every finite set of
    connections that joins the islands.
  - `InterfacesToldAlike` says that the three places that judge a net agree. What is
    asked of a member of a group, its row on the page and its row in the panel are each
    read down to the same two statements (`SaysOfMember`, `SaysOfHalf`): what is asked
    is listed (`PageAsks`, `PanelAsks`), what is listed as work is asked (`PageAsked`,
    `PanelAsked`), and a click on the net, or on one its signal runs on to that has no
    row, finds it (`FoundByName`). It needs that groups of one name in an interface have
    one limit, whatever the user set, and that none is named as a pair is (`Alike`,
    `IsGroup`, over the detectors and `Tolerated`).
  - The rounds, the sums and the walk along a signal are folds. That each is given, and
    is what one expects of it, is shown for folds over a finite set (`FoldsExist`,
    `RunsExist`); a sum does not depend on the order it is taken in (`SumsAgree`,
    `SumsPlus`).

  `InterfacesAssumption` says what the constants are: boards of nets with names, islands
  that are sets of pads with nothing in common, and limits and lengths that are natural
  numbers. TLC evaluates it.

Model-checked only: `KiCadAccepts`, everything about `Tuning`, the other properties of
`Interfaces` (`PairsChecked`, `AppliedSettles`, `StrobePerLane`), all liveness
(`EveryRequestEnds`, `EveryoneHears`, `PressEnds`, `ComesToRest`), and the violation.
`KiCadAccepts` compares the reader of the rules with KiCad's, and is true of the lists
of the run and not of every list (`drc.go:557` names those it is not true of).
`PairsChecked` depends on the names: that the patterns of a family take both halves of a
pair or neither. `AppliedSettles` asks for room enough, and that no signal runs over the
net of another member, which lengthening one would lengthen too. `StrobePerLane` is said
of boards that give every memory as many strobes as lanes. The runs choose such boards.
`Tuning` adds up the copper of meanders over lists that it changes as it goes.

## 5. Not modelled, and why

* The content of boards, reports and previews, and floating-point geometry: parameters
  of the models (`Size`, `Paths`, `Clash`, `Snaps`, `Lands`, `Over`), or boxes on a grid.
* Delay (added up edge by edge like length), arcs (their nearest point needs angles),
  tracks that are not along an axis, `TotalCopper` and `KiCadLength` (sums over the
  copper).
* The A* search and the cost of cells: any usable path may be proposed. This keeps the
  safety properties and gives up those about the quality of routes.
* The ways in which a meander may lean or round its corners (`tune/shape.go`): a
  meander is the box it stays in and the length it adds.
* Regular expressions character by character, and net names outside the families of
  `MCInterfaces`.
* Changes written back to the editor (`changes.py`, `diffTracks`): switched off by
  `APPLY_ENABLED = False` in this version.
* The table of package lengths (`pkglen/`), looked up by pin.
* The table of controller impedances (`proto/chips.go`), the stackup, the terminal
  and JSON reports, the viewer's geometry: functions of one input whose tests compare
  outputs.
* `stderr`, starting the engine and finding its binary; short writes of the unbuffered
  `stdin` (a pipe that blocks takes all of a frame unless a signal comes in between);
  frames over `MAX_FRAME` and frames that cannot be decoded, which neither side sends.
* Of the plugin: a request that the plugin stops waiting for and the engine carries out
  later, a DELETE that fails (one session of the engine stays unused), and the expiry of
  sessions in the engine after a day.
* Panics of handlers other than as an answer; storage other than `MemoryStore`.
* The widgets of the plugin and the React components of the web application.

## 6. Plan

Done: the store, the service, the router, the pipe, net lengths, the plugin with its
rules and its lock, tuning, the checker with the rules, interfaces and series parts;
the theorems of section 4. Left, in this order:

1. The composition of `Router` and `Checker`, so that `Clash` is the checker's answer
   rather than a parameter: `CheckerFollowsBoard` is the half of it that is proved.
2. `Plugin` over `EnginePipe`: requests that time out and are carried out all the same.
