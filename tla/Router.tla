------------------------------- MODULE Router -------------------------------
(***************************************************************************)
(* route/route.go, lay.go, grid.go: the router that makes the connections  *)
(* a board is missing.  A path is proposed on a grid, the clearance        *)
(* checker accepts or refuses the copper it stands for, and what is in the *)
(* way of a connection that fails is ripped up and laid again after it.    *)
(* The geometry is abstract: a path is a set of cells, and Clash says when *)
(* the copper on two of them is too close.                                 *)
(***************************************************************************)
EXTENDS Integers, Sequences, FiniteSets, SequencesExt

CONSTANTS
    Reqs,           \* the connections asked for, one per (net, from, to)
    NetOf(_),       \* the net of a request
    Straight(_),    \* the distance between its pads
    Corridor(_),    \* the cells between its pads; none when one is missing
    Paths(_),       \* the ways between its pads, clear or not; none likewise
    Cells,          \* the cells of the grid
    Around(_),      \* a cell and its neighbours
    Clash(_, _),    \* copper along the two is too close
    Existing,       \* the copper on the board before: tracks and pads
    Counter,        \* uuidCounter when the router starts
    MaxRipUp,       \* Options.MaxRipUp
    MaxTries,       \* maxTries
    Free, Blocked,  \* a cell nobody, or nobody ever again, may claim
    NoTrack         \* a request that is not routed

Nets == {NetOf(q) : q \in Reqs} \cup {t.net : t \in Existing}

Tracks == [id : Nat, net : Nets, path : SUBSET Cells]

ASSUME RouterAssumption ==
    /\ IsFiniteSet(Reqs)
    /\ \A q \in Reqs : /\ Straight(q) \in Nat
                       /\ Corridor(q) \subseteq Cells
                       /\ Paths(q) \subseteq SUBSET Cells
    /\ \A c \in Cells : Around(c) \subseteq Cells
    /\ Existing \subseteq Tracks
    /\ Counter \in Nat /\ MaxRipUp \in Nat \ {0} /\ MaxTries \in Nat \ {0}
    /\ Free # Blocked /\ {Free, Blocked} \cap Nets = {}
    /\ NoTrack \notin Tracks
    /\ \A P, Q \in SUBSET Cells : Clash(P, Q) = Clash(Q, P)

VARIABLES
    queue,      \* those of this round not tried yet, hardest first at the start
    failed,     \* those of this round that could not be laid
    todo,       \* the failed ones something may still be ripped up for
    again,      \* the ones ripped up in this round
    round, ripped,
    tries,      \* one(): the paths tried, 0 before it looks at the request
    laid,       \* Result.Tracks of the requests that are Routed
    explained,  \* the requests whose Result has a Reason
    board,      \* the copper on the board
    chk,        \* the copper the checker knows
    owner,      \* grid.owner
    counter,    \* uuidCounter
    halted,     \* Options.Stop is closed
    pc          \* "laying", "ripping", "done" or "stopped"

plan   == <<queue, failed, todo, again, round, ripped, tries>>
copper == <<laid, board, chk, owner>>
vars   == <<plan, copper, explained, counter, halted, pc>>

TypeOK ==
    /\ queue \in Seq(Reqs) /\ failed \in Seq(Reqs)
    /\ todo \in Seq(Reqs) /\ again \in Seq(Reqs)
    /\ round \in 0 .. MaxRipUp
    /\ ripped \in [Reqs -> 0 .. MaxRipUp]
    /\ tries \in 0 .. MaxTries
    /\ laid \in [Reqs -> Tracks \cup {NoTrack}]
    /\ explained \subseteq Reqs
    /\ board \subseteq Tracks /\ chk \subseteq Tracks
    /\ owner \in [Cells -> Nets \cup {Free, Blocked}]
    /\ counter \in Nat
    /\ halted \in BOOLEAN
    /\ pc \in {"laying", "ripping", "done", "stopped"}

----------------------------------------------------------------------------
Laid == {q \in Reqs : laid[q] # NoTrack}

\* rasterise: a cell is its net's when all the copper too close to it is on
\* one net, and nobody's when it is on several.
Rasterised ==
    [c \in Cells |->
        LET near == {t.net : t \in {u \in Existing : Clash({c}, u.path)}} IN
        IF near = {} THEN Free
        ELSE IF \E n \in near : near = {n} THEN CHOOSE n \in near : TRUE
        ELSE Blocked]

\* Route: the hardest connection first.  The order of equals is left open.
HardestFirst(S) ==
    {s \in SetToSeqs(S) :
        \A i, j \in DOMAIN s : i < j => Straight(s[i]) >= Straight(s[j])}

Init ==
    /\ queue \in HardestFirst(Reqs)
    /\ failed = <<>> /\ todo = <<>> /\ again = <<>>
    /\ round = 0
    /\ ripped = [q \in Reqs |-> 0]
    /\ tries = 0
    /\ laid = [q \in Reqs |-> NoTrack]
    /\ explained = {}
    /\ board = Existing /\ chk = Existing
    /\ owner = Rasterised
    /\ counter = Counter
    /\ halted = FALSE
    /\ pc = "laying"

Stop ==
    /\ pc \in {"laying", "ripping"} /\ ~halted
    /\ halted' = TRUE
    /\ UNCHANGED <<plan, copper, explained, counter, pc>>

----------------------------------------------------------------------------
\* Laying one connection.

Trying(q) == pc = "laying" /\ queue # <<>> /\ q = Head(queue) /\ tries > 0

\* Stop is looked at before every request.
Stopped ==
    /\ pc = "laying" /\ queue # <<>> /\ tries = 0 /\ halted
    /\ pc' = "stopped"
    /\ UNCHANGED <<plan, copper, explained, counter, halted>>

\* one() leaves the request unrouted and says why.
Fail(q) ==
    /\ queue' = Tail(queue)
    /\ failed' = Append(failed, q)
    /\ explained' = explained \cup {q}
    /\ tries' = 0
    /\ UNCHANGED <<todo, again, round, ripped, laid, board, chk, halted, pc>>

Begin(q) ==
    /\ pc = "laying" /\ queue # <<>> /\ q = Head(queue) /\ tries = 0 /\ ~halted
    /\ tries' = 1
    /\ UNCHANGED <<queue, failed, todo, again, round, ripped, copper,
                   explained, counter, halted, pc>>

\* usableBy, for every cell of a path.
Usable(P, net) == \A c \in P : owner[c] \in {Free, net}

\* A pad is missing or has no clear space beside it; the search finds nothing,
\* or is ended by Stop.
NoWayThrough(q) ==
    /\ Trying(q)
    /\ halted \/ ~\E P \in Paths(q) : Usable(P, NetOf(q))
    /\ Fail(q)
    /\ UNCHANGED <<owner, counter>>

\* exempt: what a new route of a net may touch, by reference.
Exempt(net) == {t.id : t \in {u \in board : u.net = net}}

\* A slip in reject: copper is only held against the copper of the board as
\* it came.
AcceptedByExisting(P, net) ==
    \A t \in Existing : t.id \in Exempt(net) \/ ~Clash(P, t.path)

\* reject finds nothing: the checker accepts the copper of a path.
Accepted(P, net) ==
    \A t \in chk : t.id \in Exempt(net) \/ ~Clash(P, t.path)

\* claim, for every cell of a path and its neighbours.
Claimed(P, net) ==
    [c \in Cells |->
        IF owner[c] = Free /\ \E d \in P : c \in Around(d) \cup {d}
          THEN net ELSE owner[c]]

\* copper: the tracks and vias a path of cells stands for, under new uuids.
CopperOf(P, net) == [id |-> counter + 1, net |-> net, path |-> P]

\* commit: the copper goes to the board, the checker and the grid.
Commit(q) ==
    /\ Trying(q)
    /\ \E P \in Paths(q) :
          LET t == CopperOf(P, NetOf(q)) IN
          /\ Usable(P, NetOf(q))
          /\ Accepted(P, NetOf(q))
          /\ laid' = [laid EXCEPT ![q] = t]
          /\ board' = board \cup {t}
          /\ chk' = chk \cup {t}
          /\ owner' = Claimed(P, NetOf(q))
    /\ counter' = counter + 1
    /\ explained' = explained \ {q}
    /\ queue' = Tail(queue)
    /\ tries' = 0
    /\ UNCHANGED <<failed, todo, again, round, ripped, halted, pc>>

\* blockAround, at one cell of the path that was refused.
Refused(q) ==
    /\ Trying(q)
    /\ \E P \in Paths(q) :
          /\ Usable(P, NetOf(q))
          /\ ~Accepted(P, NetOf(q))
          /\ \E bad \in P :
                owner' = [c \in Cells |->
                             IF c \in Around(bad) THEN Blocked ELSE owner[c]]
    /\ counter' = counter + 1
    /\ IF tries < MaxTries
         THEN /\ tries' = tries + 1
              /\ UNCHANGED <<queue, failed, todo, again, round, ripped,
                             laid, board, chk, explained, halted, pc>>
         ELSE Fail(q)

----------------------------------------------------------------------------
\* The end of a round.

AllLaid ==
    /\ pc = "laying" /\ queue = <<>> /\ failed = <<>>
    /\ pc' = "done"
    /\ UNCHANGED <<plan, copper, explained, counter, halted>>

BeginRipUp ==
    /\ pc = "laying" /\ queue = <<>> /\ failed # <<>>
    /\ pc' = "ripping"
    /\ todo' = failed
    /\ UNCHANGED <<queue, failed, again, round, ripped, tries, copper,
                   explained, counter, halted>>

\* inTheWay: the routed ones with copper between the pads of q.
InTheWay(q) ==
    {v \in Laid \ {q} : laid[v].path \cap Corridor(q) # {}}

\* A slip in ripUp: the checker is not told.
RipUpUnchecked(V) ==
    LET gone == {laid[v] : v \in V}
        nets == {t.net : t \in gone}
    IN
    /\ board' = board \ gone
    /\ chk' = chk
    /\ owner' = [c \in Cells |-> IF owner[c] \in nets THEN Free ELSE owner[c]]
    /\ laid' = [q \in Reqs |-> IF q \in V THEN NoTrack ELSE laid[q]]

\* ripUp, for each of V.  The board drops the very tracks, the checker what
\* bears their uuids, and the grid every cell of their nets.
RipUp(V) ==
    LET gone == {laid[v] : v \in V}
        ids  == {t.id : t \in gone}
        nets == {t.net : t \in gone}
    IN
    /\ board' = board \ gone
    /\ chk' = {t \in chk : t.id \notin ids}
    /\ owner' = [c \in Cells |-> IF owner[c] \in nets THEN Free ELSE owner[c]]
    /\ laid' = [q \in Reqs |-> IF q \in V THEN NoTrack ELSE laid[q]]

\* What is in the way of a failed request is ripped up, for each request
\* MaxRipUp times at most, and is to be laid again, the hardest first.
MakeWay(q) ==
    LET V == IF ripped[q] < MaxRipUp THEN InTheWay(q) ELSE {} IN
    /\ pc = "ripping" /\ todo # <<>> /\ q = Head(todo)
    /\ todo' = Tail(todo)
    /\ ripped' = [ripped EXCEPT ![q] = IF @ < MaxRipUp THEN @ + 1 ELSE @]
    /\ RipUp(V)
    /\ \E moved \in HardestFirst(V) : again' = again \o moved
    /\ UNCHANGED <<queue, failed, round, tries, explained, counter,
                   halted, pc>>

\* Nothing was moved out of the way, or the rounds are used up.
GiveUp ==
    /\ pc = "ripping" /\ todo = <<>>
    /\ again = <<>> \/ round = MaxRipUp
    /\ pc' = "done"
    /\ UNCHANGED <<plan, copper, explained, counter, halted>>

\* A slip in Route: what was ripped up is laid again, what failed is not.
NextQueueAgainOnly == again

\* The failed ones go first in the next round, then the ones they displaced.
NextQueue == failed \o again

NextRound ==
    /\ pc = "ripping" /\ todo = <<>>
    /\ again # <<>> /\ round < MaxRipUp
    /\ queue' = NextQueue
    /\ failed' = <<>> /\ again' = <<>>
    /\ round' = round + 1
    /\ pc' = "laying"
    /\ UNCHANGED <<todo, ripped, tries, copper, explained, counter, halted>>

\* Route has returned.
Returned ==
    /\ pc \in {"done", "stopped"}
    /\ UNCHANGED vars

Lay(q) ==
    \/ Begin(q) \/ NoWayThrough(q) \/ Commit(q) \/ Refused(q)

Next ==
    \/ Stop \/ Stopped
    \/ \E q \in Reqs : Lay(q) \/ MakeWay(q)
    \/ AllLaid \/ BeginRipUp \/ GiveUp \/ NextRound
    \/ Returned

Spec == Init /\ [][Next]_vars

----------------------------------------------------------------------------
\* The board as it came: no two pieces of copper share a uuid, and those the
\* counter will give out are not among them.
FreshIds ==
    /\ \A t, u \in Existing : t.id = u.id => t = u
    /\ \A t \in Existing : t.id <= Counter

\* The three records of where the router's copper is agree, in the middle of
\* a round too: the board carries what it carried before and the tracks of
\* the routed requests, and the checker holds new copper against all of them.
BoardAgrees ==
    /\ board = Existing \cup {laid[q] : q \in Laid}
    /\ chk = board

\* "Nothing reaches the board that the clearance checker has not accepted":
\* however often routes are ripped up and laid again, none that is on the
\* board is too close to copper of another net.
CopperClear ==
    \A q \in Laid : \A t \in board :
        t.net # NetOf(q) => ~Clash(laid[q].path, t.path)

\* A request is on the board or somebody's list, never both: the round will
\* try it, it failed, or it was ripped up and is to be laid again.  None is
\* forgotten and none is laid twice.
NoneForgotten ==
    LET waiting == queue \o failed \o again IN
    /\ IsInjective(waiting)
    /\ ToSet(waiting) = Reqs \ Laid

=============================================================================
