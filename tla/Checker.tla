------------------------------- MODULE Checker -------------------------------
(***************************************************************************)
(* drc/drc.go: the clearance checker, an index of obstacles that follows a *)
(* board being edited, and the board with it, in memory and as a file.     *)
(* The router adds and retires copper and takes what the custom rules      *)
(* permit; the tuner builds a new checker after every change, lets the     *)
(* rules only tighten, and asks for more space in the open and in the      *)
(* areas the user drew.  Copper is boxes on an integer grid, the distance  *)
(* between two is the larger of the two directions.                        *)
(***************************************************************************)
EXTENDS DesignRules, BoardFile

CONSTANTS
    File,         \* the text of the board as it was opened
    Paths,        \* the runs of tracks and vias the router may lay
    Meanders,     \* [of, run]: what may be drawn from end to end of a track
    Fixed,        \* <<[box, layer, net, kind, ref, owner, edge]>>: pads, zones, the outline
    Components,   \* the box around the pads of each footprint
    RuleLists,    \* the lists of custom rules the board may come with
    SameNetGap, Step,
    OpenGap, OpenMargin, Coupled,   \* SetOpenSpacing
    Zones,        \* [box, gap]: SetClearanceZones
    MaxEdits      \* bound: the changes made to the board

VARIABLES
    rules,   \* which of the lists it has
    tuning,  \* the tuner is at work, no longer the router
    board,   \* the board in memory
    obs,     \* Checker.obs
    index,   \* Checker.index, as pairs of a cell and a position in obs
    exemptions,  \* Router.exemptions: what was found for a net, until it changes
    routed,  \* the paths that are laid
    added,   \* the copper that is where the file had none
    drawn,   \* the part of it the tuner drew
    edits

chk  == <<obs, index>>
vars == <<rules, tuning, board, chk, exemptions, routed, added, drawn, edits>>

Tracks == UNION ({ToSet(p) : p \in Paths} \cup {{m.of} \cup ToSet(m.run) : m \in Meanders})

\* A list of things; a track that is written and read again as it is.
IsList(s) == s \in Seq(ToSet(s))

KeepsWritten(t) == IsList(t.on) /\ TrackOf(NodeSays(t)) = t

IsBox(b) == b = Box(b.x0, b.x1, b.y0, b.y1) /\ {b.x0, b.x1, b.y0, b.y1} \subseteq Int /\ b.x0 <= b.x1 /\ b.y0 <= b.y1

IsCopper(says) == SaysTrack(says) => KeepsWritten(TrackOf(says)) /\ NodeSays(TrackOf(says)) = says

\* A path is of one net, a meander of the net of its track.
ASSUME CheckerAssumption ==
    /\ IsList(File) /\ IsList(Fixed) /\ IsList(CopperLayers)
    /\ \A item \in ToSet(File) :
          /\ item = [says |-> item.says, form |-> item.form, sep |-> item.sep]
          /\ IsCopper(item.says)
    /\ \A t \in Tracks : KeepsWritten(t)
    /\ \A p \in Paths : IsList(p) /\ p # <<>> /\ \A t \in ToSet(p) : t.net = p[1].net
    /\ \A m \in Meanders : IsList(m.run) /\ \A t \in ToSet(m.run) : t.net = m.of.net

\* What the rules of a list set between two pieces of copper, and what KiCad
\* requires between them.
ByRules(list) ==
    LET read == Read(list) IN Table([a \in Items |-> Table([b \in Items |-> ClearanceFor(read, a, b)])])

RuleClearance == Table([l \in DOMAIN RuleLists |-> ByRules(RuleLists[l])])

ByKicad(list) ==
    LET read == KicadRead(list) IN Table([a \in Items |-> Table([b \in Items |-> KicadRequired(read, a, b)])])

KicadClearance == Table([l \in DOMAIN RuleLists |-> ByKicad(RuleLists[l])])

----------------------------------------------------------------------------
(* The index *)

Obstacle(box, layer, net, kind, ref, owner, edge) ==
    [box |-> box, layer |-> layer, net |-> net, kind |-> kind, ref |-> ref,
     owner |-> owner, edge |-> edge, dead |-> FALSE]

CellsOf(box) == ((box.x0 \div Step) .. (box.x1 \div Step)) \X ((box.y0 \div Step) .. (box.y1 \div Step))

IndexOf(new, from) ==
    UNION {CellsOf(new[i].box) \X {from + i} : i \in DOMAIN new}

\* A piece of copper is an obstacle on each of its layers.
ObstaclesOf(t) ==
    LET layers == SetToSeq(LayersOf(t))
    IN  [i \in DOMAIN layers |-> Obstacle(t.box, layers[i], t.net, t.kind, t.id, "", FALSE)]

ObstaclesOfAll(list) == FlattenSeq([i \in DOMAIN list |-> ObstaclesOf(list[i])])

\* New: everything on a board.
NewObs(b) ==
    ObstaclesOfAll(b.tracks) \o [i \in DOMAIN Fixed |->
        Obstacle(Fixed[i].box, Fixed[i].layer, Fixed[i].net, Fixed[i].kind, Fixed[i].ref,
                 Fixed[i].owner, Fixed[i].kind = "board-edge")]

NewIndex(b) == IndexOf(NewObs(b), 0)

\* mutant: a via is retired on one layer
RetiredOnce(o, refs) ==
    LET first(ref) == CHOOSE j \in DOMAIN o : o[j].ref = ref /\ ~o[j].dead
    IN  [i \in DOMAIN o |-> [o[i] EXCEPT !.dead = @ \/ \E ref \in refs : i = first(ref)]]

\* RemoveRef, for each of some: the positions in the index stay good.
Retired(o, refs) == [i \in DOMAIN o |-> [o[i] EXCEPT !.dead = @ \/ o[i].ref \in refs]]

Near(o, ix, box, margin) ==
    LET reach == Grow(box, margin)
        cells == CellsOf(reach)
    IN  {i \in {p[2] : p \in {q \in ix : q[1] \in cells}} : Overlaps(o[i].box, reach)}

----------------------------------------------------------------------------
(* What is required *)

CandItem(net, box) == [type |-> "Track", net |-> net, owner |-> "", box |-> box]

TypeOf(kind) ==
    IF kind = "pad" THEN "Pad" ELSE IF kind = "via" THEN "Via"
    ELSE IF kind = "zone" THEN "Zone" ELSE "Track"

ObstacleItem(o) == [type |-> TypeOf(o.kind), net |-> o.net, owner |-> o.owner, box |-> o.box]

PairOf(a, b) == <<a, b>> \in Coupled \/ <<b, a>> \in Coupled

OpenClearance == IF tuning THEN OpenGap ELSE 0

ClearanceZones == IF tuning THEN Zones ELSE {}

ZoneClearance(a, b) ==
    Max({0} \cup {z.gap : z \in {y \in ClearanceZones : Overlaps(y.box, a) /\ Overlaps(y.box, b)}})

AroundComponent(box) == \E c \in Components : Overlaps(Grow(c, OpenMargin), box)

\* Where two boxes come close; the second when they share nothing.
Overlap(a, b) ==
    IF ~Overlaps(a, b) THEN b
    ELSE Box(Larger(a.x0, b.x0), Smaller(a.x1, b.x1), Larger(a.y0, b.y0), Smaller(a.y1, b.y1))

\* The custom rules may always tighten; the router lets them loosen.
ByRule(req, v) == IF v # 0 /\ (~tuning \/ v > req) THEN v ELSE req

\* The clearance between copper of a net, in a box, and an obstacle.
Required(net, box, o) ==
    LET byClass == Larger(ClearanceOf[net], ClearanceOf[o.net])
        byRule  == ByRule(byClass, RuleClearance[rules][CandItem(net, box)][ObstacleItem(o)])
        byZone  == IF PairOf(net, o.net) THEN byRule ELSE Larger(byRule, ZoneClearance(box, o.box))
        inOpen  == /\ ~PairOf(net, o.net)
                   /\ ~AroundComponent(Overlap(Grow(box, OpenClearance), Grow(o.box, OpenClearance)))
    IN  IF o.edge THEN EdgeClearance
        ELSE IF o.net = net THEN (IF o.kind \in {"zone", "pad"} THEN 0 ELSE SameNetGap)
        ELSE IF inOpen THEN Larger(byZone, OpenClearance) ELSE byZone

\* mutant: the clearance asked for in the open is not counted
MarginOfRules(net) == Larger(ClearanceOf[net], EdgeClearance) + SameNetGap

SearchMargin(net) ==
    Max({ClearanceOf[net], EdgeClearance, OpenClearance} \cup {z.gap : z \in ClearanceZones})
      + SameNetGap

\* Check, on one layer: the obstacles found near that are too near.
Clashes(o, ix, net, box, layer, exempt) ==
    {i \in Near(o, ix, box, SearchMargin(net)) :
        /\ ~o[i].dead
        /\ o[i].edge \/ o[i].layer = layer
        /\ o[i].ref \notin exempt
        /\ Apart(box, o[i].box) < Required(net, box, o[i])}

Clear(o, ix, t, exempt) ==
    \A l \in LayersOf(t) : Clashes(o, ix, t.net, t.box, l, exempt) = {}

Precedes(u, v) == \E n \in DOMAIN u : u[n] < v[n] /\ \A m \in 1 .. n - 1 : u[m] = v[m]

\* When Check comes by an obstacle: its shapes in turn, for each the cells
\* round it in turn, in a cell the obstacles as they were added.
Turn(run, clash) ==
    LET k == clash[1]
        i == clash[2]
        g == Grow(run[k].box, SearchMargin(run[k].net))
    IN  <<k, Larger(g.x0 \div Step, obs[i].box.x0 \div Step), Larger(g.y0 \div Step, obs[i].box.y0 \div Step), i>>

\* Worst: how near a run of tracks comes to what it clashes with.  Of several
\* clashes with obstacles of one name, Check notes the first it comes by.
Worst(run, exempt) ==
    LET clashes == UNION {{k} \X UNION {Clashes(obs, index, run[k].net, run[k].box, l, exempt) :
                                          l \in LayersOf(run[k])} : k \in DOMAIN run}
        Name(c) == <<obs[c[2]].kind, obs[c[2]].ref, obs[c[2]].net>>
        Noted(S) == CHOOSE c \in S : \A d \in S \ {c} : Precedes(Turn(run, c), Turn(run, d))
    IN  [name \in {Name(c) : c \in clashes} |->
            LET c == Noted({d \in clashes : Name(d) = name}) IN Apart(run[c[1]].box, obs[c[2]].box)]

NoWorseThan(base, worst) ==
    \A name \in DOMAIN worst : name \in DOMAIN base /\ worst[name] >= base[name]

----------------------------------------------------------------------------
(* The router, and the tuner after it *)

PadsOfNet(net) == {Fixed[i].ref : i \in {j \in DOMAIN Fixed : Fixed[j].kind = "pad" /\ Fixed[j].net = net}}

\* Router.buildExempt: the net's own copper, which it is joined to.
OwnCopper(b, net) == {t.id : t \in TracksOfNet(b, net)} \cup PadsOfNet(net)

\* Router.exempt: looked up once, and kept.
Exempt(net) == IF net \in DOMAIN exemptions THEN exemptions[net] ELSE OwnCopper(board, net)

Forget(net) == [n \in DOMAIN exemptions \ {net} |-> exemptions[n]]

Init ==
    /\ rules \in DOMAIN RuleLists
    /\ tuning = FALSE
    /\ board = ParseBoard(File)
    /\ obs = NewObs(board) /\ index = NewIndex(board)
    /\ exemptions = <<>>
    /\ routed = {} /\ added = {} /\ drawn = {}
    /\ edits = 0

\* Router.reject: the first of the tracks that clashes.
Accepted(path) == \A k \in DOMAIN path : Clear(obs, index, path[k], Exempt(path[k].net))

\* What was looked up for a path that is refused stays.
Refuse(path) ==
    /\ ~tuning /\ path \notin routed
    /\ ~Accepted(path)
    /\ exemptions' = [n \in DOMAIN exemptions \cup {path[1].net} |-> Exempt(n)]
    /\ UNCHANGED <<rules, tuning, board, chk, routed, added, drawn, edits>>

\* Router.commit: to the board, then to the checker.
Lay(path) ==
    /\ ~tuning /\ path \notin routed /\ edits < MaxEdits
    /\ Accepted(path)
    /\ board' = AddTracks(board, path)
    /\ obs' = obs \o ObstaclesOfAll(path)
    /\ index' = index \cup IndexOf(ObstaclesOfAll(path), Len(obs))
    /\ exemptions' = Forget(path[1].net)
    /\ routed' = routed \cup {path} /\ added' = added \cup ToSet(path)
    /\ edits' = edits + 1
    /\ UNCHANGED <<rules, tuning, drawn>>

\* Router.ripUp: only what it laid itself.
RipUp(path) ==
    /\ ~tuning /\ path \in routed /\ edits < MaxEdits
    /\ board' = RemoveTracks(board, ToSet(path))
    /\ obs' = Retired(obs, {t.id : t \in ToSet(path)})
    /\ exemptions' = Forget(path[1].net)
    /\ routed' = routed \ {path} /\ added' = added \ ToSet(path)
    /\ edits' = edits + 1
    /\ UNCHANGED <<rules, tuning, index, drawn>>

Rebuild(b) == obs' = NewObs(b) /\ index' = NewIndex(b)

\* NewTuner: a checker of its own, over what the router left.
StartTuning ==
    /\ ~tuning
    /\ tuning' = TRUE
    /\ Rebuild(board)
    /\ exemptions' = <<>> /\ routed' = {}
    /\ UNCHANGED <<rules, board, added, drawn, edits>>

EndsOf(t) == {<<t.box.x0, t.box.y0>>, <<t.box.x1, t.box.y1>>}

\* Tuner.exemptFor: the track, what it is joined to at its ends, and the pads.
ExemptFor(t) ==
    {o.id : o \in {p \in TracksOfNet(board, t.net) : p = t \/ EndsOf(p) \cap EndsOf(t) # {}}}
      \cup PadsOfNet(t.net)

\* The pieces of a run that lie where the track was, and the others.
Stretches(m) == {s \in ToSet(m.run) : Within(s.box, m.of.box)}

\* What becomes of the copper a set names when a track is drawn anew.
Redrawn(S, m, new) ==
    (S \ {m.of}) \cup new \cup (IF m.of \in S THEN Stretches(m) ELSE {})

\* planMeander and applyTrack: the meanders are clear and the whole is no worse
\* than the track was, which it replaces by tracks with uuids of their own; the
\* checker is built again.
Redraw(m) ==
    LET meander == ToSet(m.run) \ Stretches(m)
        worst == [run \in {<<m.of>>, m.run} |-> Worst(run, ExemptFor(m.of))]
    IN
    /\ tuning /\ edits < MaxEdits
    /\ IndexOfNode(board.root, NodeSays(m.of)) # 0
    /\ ToSet(m.run) \cap ToSet(board.tracks) = {}
    /\ \A s \in meander : Clear(obs, index, s, ExemptFor(m.of))
    /\ NoWorseThan(worst[<<m.of>>], worst[m.run])
    /\ board' = ReplaceTrack(board, m.of, m.run)
    /\ added' = Redrawn(added, m, meander)
    /\ drawn' = Redrawn(drawn, m, meander)
    /\ Rebuild(board')
    /\ edits' = edits + 1
    /\ UNCHANGED <<rules, tuning, exemptions, routed>>

Next ==
    \/ \E p \in Paths : Lay(p) \/ Refuse(p) \/ RipUp(p)
    \/ StartTuning
    \/ \E m \in Meanders : Redraw(m)

Spec == Init /\ [][Next]_vars

----------------------------------------------------------------------------
(* What a session starts from *)

TracksOfFile == ToSet(ParseBoard(File).tracks)

AllTracks == Tracks \cup TracksOfFile

TrackItem(t) == [type |-> TypeOf(t.kind), net |-> t.net, owner |-> "", box |-> t.box]

\* Copper lies on the grid and is what the rules may be asked about; a meander
\* is made of tracks on the layers of its track.
ASSUME SpacingAssumption ==
    /\ \A t \in AllTracks : IsBox(t.box) /\ {CandItem(t.net, t.box), TrackItem(t)} \subseteq Items
    /\ \A o \in ToSet(Fixed) : o.kind = "board-edge" \/ (IsBox(o.box) /\ ObstacleItem(o) \in Items)
    /\ \A c \in Components \cup {z.box : z \in Zones} : IsBox(c)
    /\ {z.gap : z \in Zones} \subseteq Nat /\ IsFiniteSet(Zones)
    /\ {EdgeClearance, SameNetGap, OpenGap, OpenMargin} \subseteq Nat /\ Step \in Nat \ {0}
    /\ ClearanceOf \in [{i.net : i \in Items} -> Nat]
    /\ \A l \in DOMAIN RuleLists, a, b \in Items : RuleClearance[l][a][b] \in Nat
    /\ \A m \in Meanders, t \in Tracks : t \in {m.of} \cup ToSet(m.run) =>
          TypeOf(t.kind) = "Track" /\ LayersOf(t) = LayersOf(m.of)

\* A uuid names one track and the name of a pad copper of one net; a file names
\* a track once, and what is laid or drawn is new, in the file and to the other
\* paths.
FreshIds ==
    /\ \A t, u \in AllTracks : t.id = u.id => t = u
    /\ \A o \in ToSet(Fixed), t \in AllTracks : o.ref # t.id
    /\ \A o, p \in ToSet(Fixed) : o.kind = "pad" /\ o.ref = p.ref => o.net = p.net
    /\ \A i, j \in DOMAIN File : SaysTrack(File[i].says) /\ File[i].says = File[j].says => i = j
    /\ \A r \in Paths \cup {m.run : m \in Meanders} : IsInjective(r) /\ ToSet(r) \cap TracksOfFile = {}
    /\ \A p, q \in Paths : ToSet(p) \cap ToSet(q) # {} => p = q

\* How far from its copper the tuner looks for copper of another net, from either
\* of the two; and whether no class or rule asks for more between them.  (The
\* code does not see to it: searchMargin knows the class of one net and no rule.)
LookRound(net) ==
    Max({ClearanceOf[net], EdgeClearance, OpenGap} \cup {z.gap : z \in Zones}) + SameNetGap

Reach(m, n) == Smaller(LookRound(m), LookRound(n))

Covered(m, n) ==
    /\ Larger(ClearanceOf[m], ClearanceOf[n]) <= Reach(m, n)
    /\ \A a, b \in Items : {a.net, b.net} = {m, n} => \A l \in DOMAIN RuleLists : RuleClearance[l][a][b] <= Reach(m, n)

----------------------------------------------------------------------------
(* Properties *)

\* What a checker in use answers, and one built over the board that is saved.
AnswersAgree ==
    LET saved  == ParseBoard(Save(board))
        net    == {t.net : t \in Tracks}
        kept   == [obs |-> obs, index |-> index, exempt |-> [n \in net |-> Exempt(n)]]
        fresh  == [obs |-> NewObs(saved), index |-> NewIndex(saved),
                   exempt |-> [n \in net |-> OwnCopper(saved, n)]]
        answers == [c \in {kept, fresh} |->
                       {t \in Tracks : Clear(c.obs, c.index, t, c.exempt[t.net])}]
    IN  answers[kept] = answers[fresh]

\* What is in the file before and after is as it was and in the order it was;
\* the rest of what goes is a track, the rest of what comes is copper added or
\* left of a track that was cut.
OnlyChangesShow ==
    LET saved == Save(board)
        were  == {File[i].says : i \in DOMAIN File}
        are   == {saved[i].says : i \in DOMAIN saved}
        items(text) == [i \in DOMAIN text |-> [says |-> text[i].says, form |-> text[i].form]]
        kept(text) == Only(items(text), {n \in ToSet(items(text)) : n.says \in were \cap are})
    IN  /\ kept(saved) = kept(File)
        /\ \A says \in were \ are : SaysTrack(says)
        /\ {NodeSays(t) : t \in added} \subseteq are \ were
        /\ edits = 0 => saved = File

\* The checker is kept through edits (drc.go:306-314: "keeps the index honest
\* at a cost proportional to the edit"): whatever was added, retired and looked
\* up before, it answers as one built over the board as it would be saved now.
\* In that file "unmodified nodes are reproduced byte for byte, so the diff
\* shows only the tracks that actually changed" (board.go:318-319).
FollowsBoard == AnswersAgree /\ OnlyChangesShow

\* The pairs of new copper and other copper of another net on one layer.
NewPairs(S) ==
    {p \in S \X DOMAIN obs :
        /\ ~obs[p[2]].dead /\ ~obs[p[2]].edge
        /\ obs[p[2]].layer \in LayersOf(p[1])
        /\ obs[p[2]].net # p[1].net}

\* The tool must not produce "copper KiCad will reject" (rules.go:24-25): what
\* was laid or drawn keeps the clearance KiCad asks of it, from what was there
\* before it and what came after.
KiCadAccepts ==
    \A p \in NewPairs(added) :
        Apart(p[1].box, obs[p[2]].box) >= KicadClearance[rules][TrackItem(p[1])][ObstacleItem(obs[p[2]])]

\* What the tuner draws keeps the class clearances, which the rules may not
\* loosen for it (drc.go:181-185), and the space the user asked for: in an
\* area between copper in it, and in the open away from every component.
\* Only the halves of a pair are left as they are.  A class clearance is kept as
\* far as both nets look round; and where a class or a rule asks for more than
\* that (drc.go:557), copper may be let pass for what was near it before.
SpacingKept ==
    \A p \in NewPairs(drawn) :
        LET t == p[1]
            o == obs[p[2]]
            d == Apart(t.box, o.box)
        IN  /\ d >= Larger(ClearanceOf[t.net], ClearanceOf[o.net]) \/ d > Reach(t.net, o.net)
            /\ \/ PairOf(t.net, o.net)
               \/ /\ \A z \in Zones : Overlaps(z.box, t.box) /\ Overlaps(z.box, o.box) => d >= z.gap
                  /\ \/ d >= OpenGap
                     \/ \E c \in Components : Apart(c, t.box) <= OpenMargin + OpenGap
                                             /\ Apart(c, o.box) <= OpenMargin + OpenGap
                     \/ ~Covered(t.net, o.net)
==============================================================================
