-------------------------- MODULE NetLength_proofs --------------------------
(***************************************************************************)
(* Proofs about NetLength, for any copper and any geometry.                *)
(***************************************************************************)
EXTENDS NetLength, TLAPS, FiniteSetTheorems, WellFoundedInduction

----------------------------------------------------------------------------
(* Terminals and their owners *)

LEMMA TermsOfNet ==
    ASSUME NetAssumption, NEW n \in Nets
    PROVE  /\ n.tracks \subseteq Tracks /\ n.vias \subseteq Vias
           /\ n.pads \subseteq Pads /\ n.pads # {}
           /\ Terms(n) \subseteq AllTerms
           /\ \A s \in n.tracks : Start(s) \in Terms(n) /\ End(s) \in Terms(n)
<1>1. n \in [tracks : SUBSET Tracks, vias : SUBSET Vias, pads : (SUBSET Pads) \ {{}}]
  BY DEF NetAssumption
<1>2. /\ n.tracks \subseteq Tracks /\ n.vias \subseteq Vias
      /\ n.pads \subseteq Pads /\ n.pads # {}
  BY <1>1
<1>3. ASSUME NEW s \in n.tracks
      PROVE  Start(s) \in Terms(n) /\ End(s) \in Terms(n)
  BY <1>2, <1>3 DEF Terms, AllTerms, Start, End
<1> QED
  BY <1>2, <1>3 DEF Terms

\* Two terminals of one owner are the two ends of one track.
LEMMA SameOwner ==
    ASSUME NetAssumption, NEW n \in Nets,
           NEW t \in Terms(n), NEW u \in Terms(n), t # u, Owner(t) = Owner(u)
    PROVE  \E s \in n.tracks : \/ t = Start(s) /\ u = End(s)
                               \/ t = End(s) /\ u = Start(s)
<1>1. t \in AllTerms /\ u \in AllTerms
  BY TermsOfNet
<1>2. Tracks \cap Vias = {}
  BY DEF NetAssumption
<1>3. t[1] \in Tracks
  <2> SUFFICES ASSUME t[1] \notin Tracks
               PROVE  FALSE
    OBVIOUS
  <2>1. t \in Vias \X Layers /\ Owner(t) = t
    BY <1>1 DEF AllTerms, Owner
  <2>2. CASE u[1] \in Tracks
    BY <2>1, <2>2, <1>1, <1>2 DEF Owner
  <2>3. CASE u[1] \notin Tracks
    BY <2>1, <2>3 DEF Owner
  <2> QED
    BY <2>2, <2>3
<1>4. u[1] \in Tracks
  <2> SUFFICES ASSUME u[1] \notin Tracks
               PROVE  FALSE
    OBVIOUS
  <2>1. u \in Vias \X Layers /\ Owner(u) = u
    BY <1>1 DEF AllTerms, Owner
  <2> QED
    BY <2>1, <1>3, <1>2 DEF Owner
<1>5. t[1] = u[1]
  BY <1>3, <1>4 DEF Owner
<1>6. t \in Tracks \X {"start", "end"} /\ u \in Tracks \X {"start", "end"}
  BY <1>1, <1>2, <1>3, <1>4 DEF AllTerms
<1>7. t[1] \in n.tracks
  BY <1>2, <1>3, TermsOfNet DEF Terms
<1> QED
  BY <1>5, <1>6, <1>7 DEF Start, End

LEMMA OwnersOfTerms ==
    ASSUME NetAssumption, NEW n \in Nets, NEW t \in Terms(n)
    PROVE  Owner(t) \in Owners
<1>1. t \in AllTerms
  BY TermsOfNet
<1> QED
  BY <1>1 DEF NetAssumption, AllTerms, Owner, Owners

\* The two ends of a pair are two.
LEMMA PairOfTwo ==
    ASSUME NEW n, NEW pair \in SnapPairs(n)
    PROVE  /\ pair \subseteq Terms(n)
           /\ \E t \in pair, u \in pair : t # u /\ pair = {t, u}
<1>1. PICK t \in Terms(n), u \in Terms(n) : pair = {t, u}
  BY DEF SnapPairs
<1>2. t # u
  <2> SUFFICES ASSUME t = u
               PROVE  FALSE
    OBVIOUS
  <2>1. pair = {t}
    BY <1>1
  <2>2. Cardinality(pair) = 1
    BY <2>1, FS_Singleton
  <2> QED
    BY <2>2 DEF SnapPairs
<1> QED
  BY <1>1, <1>2

----------------------------------------------------------------------------
(* Junctions: what the merges keep *)

JunctionTypes ==
    /\ net \in Nets
    /\ cands \subseteq SnapPairs(net)
    /\ root \in [Terms(net) -> Terms(net)]
    /\ owners \in [Terms(net) -> SUBSET Owners]

\* A root is its own; a cluster's owners are those of its members.
Rooted == \A t \in Terms(net) : root[root[t]] = root[t]

OwnersMembers == \A t \in Terms(net) : Owner(t) \in owners[root[t]]

OwnersHeld == \A r \in Terms(net) : \A o \in owners[r] :
                 \E t \in Terms(net) : root[t] = r /\ Owner(t) = o

\* Ends at one junction that were looked at are in one cluster, or in two that
\* share an item.
SharedOrMerged ==
    \A pair \in SnapPairs(net) \ cands : \A t, u \in pair :
        \/ root[t] = root[u]
        \/ owners[root[t]] \cap owners[root[u]] # {}

Junctions == JunctionTypes /\ Rooted /\ OwnersMembers /\ OwnersHeld /\ OneEndEach /\ SharedOrMerged

LEMMA JunctionsInit ==
    ASSUME NetAssumption, Init
    PROVE  Junctions
<1>1. net \in Nets
  BY DEF Init
<1>2. \A t \in Terms(net) : Owner(t) \in Owners
  BY <1>1, OwnersOfTerms
<1>3. JunctionTypes /\ Rooted /\ OwnersMembers /\ OwnersHeld /\ SharedOrMerged
  BY <1>1, <1>2 DEF Init, JunctionTypes, Rooted, OwnersMembers, OwnersHeld, SharedOrMerged
<1>4. OneEndEach
  <2> SUFFICES ASSUME NEW s \in net.tracks
               PROVE  root[Start(s)] # root[End(s)]
    BY DEF OneEndEach
  <2>1. Start(s) \in Terms(net) /\ End(s) \in Terms(net) /\ Start(s) # End(s)
    BY <1>1, TermsOfNet DEF Start, End
  <2> QED
    BY <2>1 DEF Init
<1> QED
  BY <1>3, <1>4 DEF Junctions

\* The clusters BySize returns are those of the two ends of the pair.
LEMMA BySizeOfPair ==
    ASSUME JunctionTypes, NEW pair \in SnapPairs(net)
    PROVE  \E t \in pair, u \in pair :
              /\ t \in Terms(net) /\ u \in Terms(net)
              /\ pair = {t, u}
              /\ BySize(pair)[1] = root[t] /\ BySize(pair)[2] = root[u]
<1> DEFINE t == CHOOSE x \in pair : TRUE
           u == CHOOSE x \in pair : x # t
<1>1. PICK x \in pair, y \in pair : x # y /\ pair = {x, y}
  BY PairOfTwo
<1>2. t \in pair
  BY <1>1
<1>3. u \in pair /\ u # t
  <2>1. \E z \in pair : z # t
    <3> HIDE DEF t
    <3> QED
      BY <1>1
  <2> QED
    BY <2>1, Zenon
<1>4. pair = {t, u} /\ pair = {u, t}
  BY <1>1, <1>2, <1>3
<1>5. t \in Terms(net) /\ u \in Terms(net)
  BY <1>2, <1>3, PairOfTwo
<1>6. \/ BySize(pair) = <<root[t], root[u]>>
      \/ BySize(pair) = <<root[u], root[t]>>
  BY DEF BySize
<1> HIDE DEF t, u
<1>7. CASE BySize(pair) = <<root[t], root[u]>>
  BY <1>2, <1>3, <1>4, <1>5, <1>7
<1>8. CASE BySize(pair) = <<root[u], root[t]>>
  BY <1>2, <1>3, <1>4, <1>5, <1>8
<1> QED
  BY <1>6, <1>7, <1>8

\* Two clusters without a common item become one: nothing that was kept is lost.
LEMMA JoinKeepsJunctions ==
    ASSUME NetAssumption, Junctions, net' = net,
           NEW a \in Terms(net), NEW b \in Terms(net),
           NEW pair \in SnapPairs(net), pair = {a, b},
           ~Refused(root[a], root[b]),
           root' = Union(root, root[a], root[b]),
           owners' = [owners EXCEPT ![root[b]] = @ \cup owners[root[a]], ![root[a]] = {}],
           cands' = cands \ {pair}
    PROVE  Junctions'
<1> DEFINE small == root[a]
           large == root[b]
<1>1. /\ net \in Nets
      /\ root \in [Terms(net) -> Terms(net)]
      /\ owners \in [Terms(net) -> SUBSET Owners]
      /\ cands \subseteq SnapPairs(net)
  BY DEF Junctions, JunctionTypes
<1>2. small \in Terms(net) /\ large \in Terms(net) /\ root[small] = small /\ root[large] = large
  BY <1>1 DEF Junctions, Rooted
<1>3. small # large /\ owners[small] \cap owners[large] = {}
  BY DEF Refused
<1>4. root' = [x \in Terms(net) |-> IF root[x] = small THEN large ELSE root[x]]
  BY <1>1, <1>2 DEF Union
<1>5. owners' = [x \in Terms(net) |-> IF x = small THEN {}
                                      ELSE IF x = large THEN owners[large] \cup owners[small]
                                      ELSE owners[x]]
  BY <1>1, <1>2, <1>3
<1> HIDE DEF small, large
<1>6. JunctionTypes'
  BY <1>1, <1>2, <1>4, <1>5 DEF JunctionTypes
<1>7. Rooted'
  BY <1>1, <1>2, <1>3, <1>4 DEF Rooted, Junctions
<1>8. \A t \in Terms(net) : owners[root[t]] \subseteq owners'[root'[t]]
  BY <1>1, <1>2, <1>3, <1>4, <1>5
<1>9. OwnersMembers'
  BY <1>1, <1>8 DEF OwnersMembers, Junctions
<1>10. OwnersHeld'
  <2> SUFFICES ASSUME NEW r \in Terms(net), NEW o \in owners'[r]
               PROVE  \E t \in Terms(net) : root'[t] = r /\ Owner(t) = o
    BY DEF OwnersHeld
  <2>1. CASE r = large /\ o \in owners[small]
    <3>1. PICK t \in Terms(net) : root[t] = small /\ Owner(t) = o
      BY <2>1, <1>2 DEF Junctions, OwnersHeld
    <3> QED
      BY <3>1, <2>1, <1>4
  <2>2. CASE r # small /\ o \in owners[r]
    <3>1. PICK t \in Terms(net) : root[t] = r /\ Owner(t) = o
      BY <2>2 DEF Junctions, OwnersHeld
    <3> QED
      BY <3>1, <2>2, <1>4
  <2> QED
    BY <2>1, <2>2, <1>5
<1>11. OneEndEach'
  <2> SUFFICES ASSUME NEW s \in net.tracks
               PROVE  root'[Start(s)] # root'[End(s)]
    BY DEF OneEndEach
  <2>1. Start(s) \in Terms(net) /\ End(s) \in Terms(net) /\ s \in Tracks
    BY <1>1, TermsOfNet
  <2>2. Owner(Start(s)) = Owner(End(s))
    BY <2>1 DEF Owner, Start, End
  <2>3. Owner(Start(s)) \in owners[root[Start(s)]] /\ Owner(Start(s)) \in owners[root[End(s)]]
    BY <2>1, <2>2 DEF Junctions, OwnersMembers
  <2>4. root[Start(s)] # root[End(s)]
    BY DEF Junctions, OneEndEach
  <2>5. ~(root[Start(s)] = small /\ root[End(s)] = large)
    BY <2>3, <1>3
  <2>6. ~(root[Start(s)] = large /\ root[End(s)] = small)
    BY <2>3, <1>3
  <2> QED
    BY <2>1, <2>4, <2>5, <2>6, <1>4
<1>12. SharedOrMerged'
  <2> SUFFICES ASSUME NEW q \in SnapPairs(net) \ cands', NEW t \in q, NEW u \in q
               PROVE  \/ root'[t] = root'[u]
                      \/ owners'[root'[t]] \cap owners'[root'[u]] # {}
    BY DEF SharedOrMerged
  <2>1. t \in Terms(net) /\ u \in Terms(net)
    BY PairOfTwo
  <2>2. CASE q = pair
    <3>1. root'[a] = large /\ root'[b] = large
      BY <1>2, <1>4 DEF small, large
    <3> QED
      BY <3>1, <2>2
  <2>3. CASE q # pair
    <3>1. \/ root[t] = root[u]
          \/ owners[root[t]] \cap owners[root[u]] # {}
      BY <2>3 DEF Junctions, SharedOrMerged
    <3> QED
      BY <3>1, <2>1, <1>4, <1>8
  <2> QED
    BY <2>2, <2>3
<1> QED
  BY <1>6, <1>7, <1>9, <1>10, <1>11, <1>12 DEF Junctions

\* A refused merge leaves two clusters that share an item.
LEMMA RefusalKeepsJunctions ==
    ASSUME NetAssumption, Junctions, net' = net,
           NEW a \in Terms(net), NEW b \in Terms(net),
           NEW pair \in SnapPairs(net), pair = {a, b},
           Refused(root[a], root[b]),
           root' = root, owners' = owners, cands' = cands \ {pair}
    PROVE  Junctions'
<1>1. SharedOrMerged'
  <2> SUFFICES ASSUME NEW q \in SnapPairs(net) \ cands', NEW t \in q, NEW u \in q
               PROVE  \/ root[t] = root[u]
                      \/ owners[root[t]] \cap owners[root[u]] # {}
    BY DEF SharedOrMerged
  <2>1. CASE q = pair
    BY <2>1 DEF Refused
  <2>2. CASE q # pair
    BY <2>2 DEF Junctions, SharedOrMerged
  <2> QED
    BY <2>1, <2>2
<1>2. JunctionTypes' /\ Rooted' /\ OwnersMembers' /\ OwnersHeld' /\ OneEndEach'
  BY DEF Junctions, JunctionTypes, Rooted, OwnersMembers, OwnersHeld, OneEndEach
<1> QED
  BY <1>1, <1>2 DEF Junctions

LEMMA MergeKeepsJunctions ==
    ASSUME NetAssumption, Junctions, Merge
    PROVE  Junctions'
<1>1. PICK pair \in Closest(cands, Gap) :
         /\ IF Refused(BySize(pair)[1], BySize(pair)[2])
            THEN UNCHANGED <<root, owners>>
            ELSE /\ root' = Union(root, BySize(pair)[1], BySize(pair)[2])
                 /\ owners' = [owners EXCEPT
                        ![BySize(pair)[2]] = @ \cup owners[BySize(pair)[1]],
                        ![BySize(pair)[1]] = {}]
         /\ cands' = cands \ {pair}
  BY DEF Merge
<1>2. pair \in SnapPairs(net)
  BY <1>1 DEF Closest, Junctions, JunctionTypes
<1>3. PICK a \in pair, b \in pair :
         /\ a \in Terms(net) /\ b \in Terms(net)
         /\ pair = {a, b}
         /\ BySize(pair)[1] = root[a] /\ BySize(pair)[2] = root[b]
  BY <1>2, BySizeOfPair DEF Junctions
<1>4. net' = net
  BY DEF Merge
<1>5. CASE Refused(root[a], root[b])
  BY <1>1, <1>2, <1>3, <1>4, <1>5, RefusalKeepsJunctions
<1>6. CASE ~Refused(root[a], root[b])
  BY <1>1, <1>2, <1>3, <1>4, <1>6, JoinKeepsJunctions
<1> QED
  BY <1>5, <1>6

LEMMA OthersKeepJunctions ==
    ASSUME Junctions, UNCHANGED <<net, junctions>>
    PROVE  Junctions'
  BY DEF Junctions, JunctionTypes, Rooted, OwnersMembers, OwnersHeld, OneEndEach,
         SharedOrMerged, junctions

LEMMA StepKeepsJunctions ==
    ASSUME NetAssumption, Junctions, [Next]_vars
    PROVE  Junctions'
<1>1. CASE Merge
  BY <1>1, MergeKeepsJunctions
<1>2. CASE UNCHANGED <<net, junctions>>
  BY <1>2, OthersKeepJunctions
<1> QED
  BY <1>1, <1>2 DEF Next, BuildGraph, Merged, Trace, Traced, Split, SplitsDone, DrawTrack,
     DrawVias, Attach, Attached, StartFrom, Pop, Record, Finish, vars

\* However ties are broken, no junction holds both ends of a track
\* (graph.go, clusters.union).
THEOREM NetOneEndEach == ASSUME NetAssumption PROVE Spec => []OneEndEach
<1>1. Init => Junctions
  BY JunctionsInit
<1>2. Junctions /\ [Next]_vars => Junctions'
  BY StepKeepsJunctions
<1>3. Junctions => OneEndEach
  BY DEF Junctions
<1> QED
  BY <1>1, <1>2, <1>3, PTL DEF Spec

----------------------------------------------------------------------------
(* Pieces: what touches is joined *)

Joinable == Terms(net) \cup (net.vias \X {"hub"})

Early == pc \in {"merging", "tracing"}

PieceTypes ==
    /\ comp \in [Joinable -> Joinable]
    /\ Early => todo \subseteq net.tracks \cup net.vias
    /\ cands2 \subseteq Landings(net)
    /\ Early => cands2 = Landings(net)
    /\ pc = "merging" => todo = net.tracks \cup net.vias
    /\ pc # "merging" => cands = {}

\* A track that was looked at is one piece.
TracksWhole ==
    \A s \in net.tracks : \/ Early /\ s \in todo
                          \/ comp[root[Start(s)]] = comp[root[End(s)]]

LandingsJoined ==
    ~Early /\ ~NoTJunctionSplits =>
        \A c \in Landings(net) \ cands2 : comp[root[c[1]]] = comp[root[Start(c[2])]]

Pieces == PieceTypes /\ TracksWhole /\ LandingsJoined

\* A pair whose merge was refused shares an item, and that item is whole.
LEMMA TouchingFromPieces ==
    ASSUME NetAssumption, Junctions, Pieces
    PROVE  TouchingJoined
<1> SUFFICES ASSUME ~Early
             PROVE  \A pair \in SnapPairs(net) : \A t, u \in pair : comp[root[t]] = comp[root[u]]
  BY DEF TouchingJoined, Pieces, LandingsJoined, Early
<1> SUFFICES ASSUME NEW pair \in SnapPairs(net), NEW t \in pair, NEW u \in pair
             PROVE  comp[root[t]] = comp[root[u]]
  OBVIOUS
<1>1. /\ net \in Nets
      /\ root \in [Terms(net) -> Terms(net)]
      /\ owners \in [Terms(net) -> SUBSET Owners]
      /\ t \in Terms(net) /\ u \in Terms(net)
  BY PairOfTwo DEF Junctions, JunctionTypes
<1>2. CASE root[t] = root[u]
  BY <1>2
<1>3. CASE owners[root[t]] \cap owners[root[u]] # {}
  <2>1. PICK o : o \in owners[root[t]] /\ o \in owners[root[u]]
    BY <1>3
  <2>2. PICK t1 \in Terms(net) : root[t1] = root[t] /\ Owner(t1) = o
    BY <1>1, <2>1 DEF Junctions, OwnersHeld
  <2>3. PICK u1 \in Terms(net) : root[u1] = root[u] /\ Owner(u1) = o
    BY <1>1, <2>1 DEF Junctions, OwnersHeld
  <2>4. CASE t1 = u1
    BY <2>2, <2>3, <2>4
  <2>5. CASE t1 # u1
    <3>1. PICK s \in net.tracks : \/ t1 = Start(s) /\ u1 = End(s)
                                  \/ t1 = End(s) /\ u1 = Start(s)
      BY <1>1, <2>2, <2>3, <2>5, SameOwner
    <3>2. comp[root[Start(s)]] = comp[root[End(s)]]
      BY DEF Pieces, TracksWhole
    <3> QED
      BY <2>2, <2>3, <3>1, <3>2
  <2> QED
    BY <2>4, <2>5
<1>4. cands = {}
  BY DEF Pieces, PieceTypes, Early
<1> QED
  BY <1>2, <1>3, <1>4 DEF Junctions, SharedOrMerged

LEMMA PiecesInit ==
    ASSUME NetAssumption, Init
    PROVE  Pieces
  BY DEF Init, Pieces, PieceTypes, TracksWhole, LandingsJoined, Joinable, Early

\* Tracing item i leaves nothing apart that was joined, and makes i whole.
LEMMA TraceKeepsPieces ==
    ASSUME NetAssumption, Junctions, Pieces, Trace
    PROVE  Pieces'
<1> DEFINE i == CHOOSE x \in todo : TRUE
           mine == {comp[root[t]] : t \in {t \in Terms(net) : t[1] = i}}
           whole == IF i \in Tracks THEN comp[root[Start(i)]] ELSE comp[Hub(i)]
<1>1. /\ net' = net /\ root' = root /\ cands' = cands /\ cands2' = cands2 /\ pc' = pc
      /\ pc = "tracing" /\ todo # {}
      /\ comp' = [x \in DOMAIN comp |-> IF comp[x] \in mine THEN whole ELSE comp[x]]
      /\ todo' = todo \ {i}
  BY DEF Trace, junctions
<1>2. i \in todo
  BY <1>1
<1>3. /\ net \in Nets
      /\ root \in [Terms(net) -> Terms(net)]
      /\ comp \in [Joinable -> Joinable]
      /\ todo \subseteq net.tracks \cup net.vias
      /\ cands = {} /\ cands2 = Landings(net)
  BY <1>1 DEF Junctions, JunctionTypes, Pieces, PieceTypes, Early
<1>4. \A s \in net.tracks : Start(s) \in Terms(net) /\ End(s) \in Terms(net)
                            /\ s \in Tracks /\ Start(s)[1] = s /\ End(s)[1] = s
  BY <1>3, TermsOfNet DEF Start, End
<1>5. whole \in Joinable
  <2>1. CASE i \in net.tracks
    BY <2>1, <1>3, <1>4 DEF Joinable
  <2>2. CASE i \in net.vias
    <3>1. i \notin Tracks
      BY <2>2, <1>3, TermsOfNet DEF NetAssumption
    <3>2. \A v \in net.vias : Hub(v) \in Joinable
      BY DEF Hub, Joinable
    <3> QED
      BY <2>2, <3>1, <3>2, <1>3
  <2> QED
    BY <1>2, <1>3, <2>1, <2>2
<1>6. \A s \in net.tracks : s = i => /\ comp[root[Start(s)]] \in mine
                                     /\ comp[root[End(s)]] \in mine
  BY <1>4
<1> HIDE DEF i, mine, whole
<1>7. comp' \in [Joinable -> Joinable]
  BY <1>1, <1>3, <1>5
<1>8. \A x, y \in Joinable : comp[x] = comp[y] => comp'[x] = comp'[y]
  BY <1>1, <1>3
<1>9. TracksWhole'
  <2> SUFFICES ASSUME NEW s \in net.tracks, s \notin todo'
               PROVE  comp'[root[Start(s)]] = comp'[root[End(s)]]
    BY <1>1 DEF TracksWhole, Early
  <2>1. root[Start(s)] \in Joinable /\ root[End(s)] \in Joinable
    BY <1>3, <1>4 DEF Joinable
  <2>2. CASE s = i
    BY <2>1, <2>2, <1>1, <1>3, <1>6
  <2>3. CASE s # i
    <3>1. comp[root[Start(s)]] = comp[root[End(s)]]
      BY <2>3, <1>1 DEF Pieces, TracksWhole
    <3> QED
      BY <2>1, <3>1, <1>8
  <2> QED
    BY <2>2, <2>3
<1>10. PieceTypes'
  BY <1>1, <1>3, <1>7 DEF PieceTypes, Joinable, Early
<1>11. LandingsJoined'
  BY <1>1 DEF LandingsJoined, Early
<1> QED
  BY <1>9, <1>10, <1>11 DEF Pieces

\* A landing looked at is joined, by a division or because it was already.
LEMMA SplitKeepsPieces ==
    ASSUME NetAssumption, Junctions, Pieces, Split
    PROVE  Pieces'
<1>1. PICK c \in Closest(cands2, LAMBDA d : Off(d[1], d[2])) :
         /\ \/ comp[root[c[1]]] = comp[root[Start(c[2])]] /\ comp' = comp
            \/ comp' = Union(comp, root[c[1]], root[Start(c[2])])
         /\ cands2' = cands2 \ {c}
  BY DEF Split
<1>2. /\ net' = net /\ root' = root /\ cands' = cands /\ pc' = pc /\ todo' = todo
      /\ pc = "splitting"
  BY DEF Split, junctions
<1>3. /\ net \in Nets
      /\ root \in [Terms(net) -> Terms(net)]
      /\ comp \in [Joinable -> Joinable]
      /\ cands = {} /\ cands2 \subseteq Landings(net)
  BY <1>2 DEF Junctions, JunctionTypes, Pieces, PieceTypes
<1>4. /\ \A s \in net.tracks : root[Start(s)] \in Joinable /\ root[End(s)] \in Joinable
      /\ \A d \in Landings(net) : root[d[1]] \in Joinable /\ d[2] \in net.tracks
  BY <1>3, TermsOfNet DEF Joinable, Landings
<1>5. comp' \in [Joinable -> Joinable]
  <2>1. c \in Landings(net)
    BY <1>1, <1>3 DEF Closest
  <2>2. root[Start(c[2])] \in Joinable
    BY <2>1, <1>4
  <2> QED
    BY <2>2, <1>1, <1>3 DEF Union
<1>6. \A x, y \in Joinable : comp[x] = comp[y] => comp'[x] = comp'[y]
  BY <1>1, <1>3 DEF Union
<1>7. TracksWhole'
  BY <1>2, <1>4, <1>6 DEF Pieces, TracksWhole, Early
<1>8. LandingsJoined'
  <2> SUFFICES ASSUME ~NoTJunctionSplits, NEW d \in Landings(net) \ cands2'
               PROVE  comp'[root[d[1]]] = comp'[root[Start(d[2])]]
    BY <1>2 DEF LandingsJoined
  <2>1. root[d[1]] \in Joinable /\ root[Start(d[2])] \in Joinable
    BY <1>4
  <2>2. CASE d = c
    BY <2>1, <2>2, <1>1, <1>3 DEF Union
  <2>3. CASE d # c
    <3>1. comp[root[d[1]]] = comp[root[Start(d[2])]]
      BY <2>3, <1>1, <1>2 DEF Pieces, LandingsJoined, Early
    <3> QED
      BY <2>1, <3>1, <1>6
  <2> QED
    BY <2>2, <2>3
<1>9. PieceTypes'
  BY <1>1, <1>2, <1>3, <1>5 DEF PieceTypes, Joinable, Early
<1> QED
  BY <1>7, <1>8, <1>9 DEF Pieces

LEMMA MergingKeepsPieces ==
    ASSUME Pieces, Merge \/ Merged
    PROVE  Pieces'
<1>1. /\ net' = net /\ comp' = comp /\ todo' = todo /\ cands2' = cands2 /\ pc = "merging"
      /\ \/ pc' = "merging"
         \/ pc' = "tracing" /\ cands' = {}
  BY DEF Merge, Merged, pieces, junctions
<1>2. PieceTypes'
  BY <1>1 DEF Pieces, PieceTypes, Joinable, Early
<1>3. TracksWhole' /\ LandingsJoined'
  BY <1>1 DEF Pieces, PieceTypes, TracksWhole, LandingsJoined, Early
<1> QED
  BY <1>2, <1>3 DEF Pieces

LEMMA TracedKeepsPieces ==
    ASSUME Pieces, Traced
    PROVE  Pieces'
<1>1. /\ net' = net /\ comp' = comp /\ root' = root /\ cands' = cands
      /\ pc = "tracing" /\ pc' = "splitting" /\ todo = {}
      /\ ~NoTJunctionSplits => cands2' = cands2
      /\ cands2' \subseteq cands2
  BY DEF Traced, junctions
<1>2. PieceTypes'
  BY <1>1 DEF Pieces, PieceTypes, Joinable, Early
<1>3. TracksWhole'
  BY <1>1 DEF Pieces, TracksWhole, Early
<1>4. LandingsJoined'
  BY <1>1 DEF Pieces, PieceTypes, LandingsJoined, Early
<1> QED
  BY <1>2, <1>3, <1>4 DEF Pieces

\* Drawing, attaching and routing change no piece.
LEMMA LaterKeepsPieces ==
    ASSUME Pieces, ~Early, ~Early', UNCHANGED <<net, junctions, comp, cands2>>
    PROVE  Pieces'
<1>1. net' = net /\ comp' = comp /\ root' = root /\ cands' = cands /\ cands2' = cands2
  BY DEF junctions
<1>2. PieceTypes'
  BY <1>1 DEF Pieces, PieceTypes, Joinable, Early
<1>3. TracksWhole' /\ LandingsJoined'
  BY <1>1 DEF Pieces, TracksWhole, LandingsJoined
<1> QED
  BY <1>2, <1>3 DEF Pieces

LEMMA StepKeepsPieces ==
    ASSUME NetAssumption, Junctions, Pieces, [Next]_vars
    PROVE  Pieces'
<1>1. CASE Merge \/ Merged
  BY <1>1, MergingKeepsPieces
<1>2. CASE Trace
  BY <1>2, TraceKeepsPieces
<1>3. CASE Traced
  BY <1>3, TracedKeepsPieces
<1>4. CASE Split
  BY <1>4, SplitKeepsPieces
<1>5. CASE \/ SplitsDone \/ DrawTrack \/ DrawVias \/ Attach \/ Attached
           \/ (\E p \in Pads : StartFrom(p)) \/ Pop \/ Record \/ Finish
  <2>1. ~Early /\ ~Early' /\ UNCHANGED <<net, junctions, comp, cands2>>
    BY <1>5 DEF SplitsDone, DrawTrack, DrawVias, Attach, Attached, StartFrom, Pop, Record,
       Finish, Early, pieces
  <2> QED
    BY <2>1, LaterKeepsPieces
<1>6. CASE UNCHANGED vars
  BY <1>6 DEF vars, pieces, junctions, Pieces, PieceTypes, TracksWhole, LandingsJoined,
     Joinable, Early
<1> QED
  BY <1>1, <1>2, <1>3, <1>4, <1>5, <1>6 DEF Next, BuildGraph

\* What touches is joined once its turn has come, though merges are refused
\* and divisions left out (graph.go, buildGraph).
THEOREM NetTouchingJoined == ASSUME NetAssumption PROVE Spec => []TouchingJoined
<1>1. Init => Junctions /\ Pieces
  BY JunctionsInit, PiecesInit
<1>2. Junctions /\ Pieces /\ [Next]_vars => Junctions' /\ Pieces'
  BY StepKeepsJunctions, StepKeepsPieces
<1>3. Junctions /\ Pieces => TouchingJoined
  BY TouchingFromPieces
<1> QED
  BY <1>1, <1>2, <1>3, PTL DEF Spec

----------------------------------------------------------------------------
(* Induction over the numbers *)

\* Induction over the numbers, for a set and not for an operator.
LEMMA Counting ==
    ASSUME NEW S, 0 \in S, \A n \in Nat : n \in S => n + 1 \in S
    PROVE  Nat \subseteq S
<1> SUFFICES ASSUME Nat \ S # {} PROVE FALSE
  OBVIOUS
<1>1. PICK x \in Nat \ S : \A y \in Nat \ S : <<y, x>> \notin OpToRel(<, Nat)
  BY NatLessThanWellFounded, WFMin
<1>2. x # 0 /\ x - 1 \in Nat \ S
  <2>1. x \in Nat /\ x # 0
    OBVIOUS
  <2>2. x - 1 \in Nat /\ (x - 1) + 1 = x
    BY <2>1
  <2> QED
    BY <2>1, <2>2
<1>3. <<x - 1, x>> \in OpToRel(<, Nat)
  BY <1>2 DEF OpToRel
<1> QED
  BY <1>1, <1>2, <1>3

\* g, applied n times from x0 on.
Iterate(X, x0, n, g) == \E f \in [0 .. n -> X] : f[0] = x0 /\ \A i \in 1 .. n : f[i] = g[<<f[i - 1], i>>]

LEMMA Iterates ==
    ASSUME NEW X, NEW x0 \in X, NEW n \in Nat, NEW g \in [X \X (1 .. n) -> X]
    PROVE  Iterate(X, x0, n, g)
<1> DEFINE Upto(m) == \E f \in [0 .. m -> X] : f[0] = x0 /\ \A i \in 1 .. m : f[i] = g[<<f[i - 1], i>>]
           S == {m \in Nat : m <= n => Upto(m)}
<1>1. 0 \in S
  <2> DEFINE f == [i \in 0 .. 0 |-> x0]
  <2>1. f \in [0 .. 0 -> X] /\ f[0] = x0 /\ \A i \in 1 .. 0 : f[i] = g[<<f[i - 1], i>>]
    OBVIOUS
  <2>2. Upto(0)
    <3> HIDE DEF f
    <3> QED
      BY <2>1
  <2> QED
    BY <2>2
<1>2. ASSUME NEW m \in Nat, m \in S PROVE m + 1 \in S
  <2> SUFFICES ASSUME m + 1 <= n PROVE Upto(m + 1)
    <3> HIDE DEF Upto
    <3> QED
      OBVIOUS
  <2>1. PICK f \in [0 .. m -> X] : f[0] = x0 /\ \A i \in 1 .. m : f[i] = g[<<f[i - 1], i>>]
    <3>1. Upto(m)
      <4> HIDE DEF Upto
      <4> QED
        BY <1>2
    <3> QED
      BY <3>1
  <2> HIDE DEF Upto, S
  <2> DEFINE h == [i \in 0 .. m + 1 |-> IF i = m + 1 THEN g[<<f[m], m + 1>>] ELSE f[i]]
  <2>2. m \in 0 .. m /\ m + 1 \in 1 .. n
    OBVIOUS
  <2>3. g[<<f[m], m + 1>>] \in X
    BY <2>2
  <2>4. h \in [0 .. m + 1 -> X]
    BY <2>1, <2>3
  <2>5. \A i \in 1 .. m : h[i] = f[i] /\ h[i - 1] = f[i - 1]
    BY <2>1
  <2>6. h[m + 1] = g[<<h[m], m + 1>>] /\ h[0] = x0
    <3>1. m \in 0 .. m + 1 /\ m + 1 \in 0 .. m + 1 /\ 0 \in 0 .. m + 1 /\ m # m + 1 /\ 0 # m + 1
      OBVIOUS
    <3>2. h[m] = f[m] /\ h[0] = f[0] /\ h[m + 1] = g[<<f[m], m + 1>>]
      BY <3>1
    <3> QED
      BY <2>1, <3>2
  <2>7. \A i \in 1 .. m + 1 : h[i] = g[<<h[i - 1], i>>]
    <3> TAKE i \in 1 .. m + 1
    <3>1. CASE i = m + 1
      BY <3>1, <2>6
    <3>2. CASE i # m + 1
      BY <3>2, <2>1, <2>5
    <3> QED
      BY <3>1, <3>2
  <2> QED
    <3> HIDE DEF h
    <3> QED
      BY <2>4, <2>6, <2>7 DEF Upto
<1>3. Nat \subseteq S
  <2> HIDE DEF S
  <2> QED
    BY <1>1, <1>2, Counting
<1>4. Upto(n)
  <2> HIDE DEF Upto
  <2> QED
    BY <1>3
<1> QED
  BY <1>4 DEF Iterate

----------------------------------------------------------------------------
(* Ways through a graph: the least set of nodes and distances that holds the *)
(* start and is closed under its edges.                                      *)

Distant == Nodes \X Nat

IsEdge(e) == e.length \in Nat /\ \E a \in Nodes, b \in Nodes : a # b /\ e.ends = {a, b}

IsGraph(E) == IsFiniteSet(E) /\ \A e \in E : IsEdge(e)

Closed(E, S) ==
    \A w \in S : \A e \in E : w[1] \in e.ends =>
        \A m \in e.ends \ {w[1]} : <<m, w[2] + e.length>> \in S

Ways(E, a) == {w \in Distant : \A S \in SUBSET Distant : <<a, 0>> \in S /\ Closed(E, S) => w \in S}

LEMMA WayOn ==
    ASSUME NEW w \in Distant, NEW e, IsEdge(e), w[1] \in e.ends, NEW m \in e.ends
    PROVE  <<m, w[2] + e.length>> \in Distant
  BY DEF Distant, IsEdge

\* The start is a way of no length, and a way goes on over every edge at its end.
LEMMA WaysClosed ==
    ASSUME NEW E, IsGraph(E), NEW a \in Nodes
    PROVE  <<a, 0>> \in Ways(E, a) /\ Closed(E, Ways(E, a))
<1>1. <<a, 0>> \in Distant
  BY DEF Distant
<1>2. ASSUME NEW w \in Ways(E, a), NEW e \in E, w[1] \in e.ends, NEW m \in e.ends \ {w[1]}
      PROVE  <<m, w[2] + e.length>> \in Ways(E, a)
  <2>1. w \in Distant /\ IsEdge(e)
    BY DEF Ways, IsGraph
  <2>2. <<m, w[2] + e.length>> \in Distant
    BY <2>1, <1>2, WayOn
  <2>3. ASSUME NEW S \in SUBSET Distant, <<a, 0>> \in S, Closed(E, S)
        PROVE  <<m, w[2] + e.length>> \in S
    <3>1. w \in S
      BY <2>3 DEF Ways
    <3> QED
      BY <3>1, <1>2, <2>3 DEF Closed
  <2> QED
    BY <2>2, <2>3 DEF Ways
<1>3. Closed(E, Ways(E, a))
  BY <1>2 DEF Closed
<1>4. <<a, 0>> \in Ways(E, a)
  BY <1>1 DEF Ways
<1> QED
  BY <1>3, <1>4

\* Whatever holds the start and goes on over the edges holds every way.
LEMMA WaysLeast ==
    ASSUME NEW E, NEW a, NEW S \in SUBSET Distant, <<a, 0>> \in S, Closed(E, S)
    PROVE  Ways(E, a) \subseteq S
  BY DEF Ways

\* A way that goes on from the end of an edge is a way from its other end.
LEMMA WaysBefore ==
    ASSUME NEW E, IsGraph(E), NEW a \in Nodes, NEW b \in Nodes, NEW x \in Nat,
           <<b, x>> \in Ways(E, a), NEW w \in Ways(E, b)
    PROVE  <<w[1], x + w[2]>> \in Ways(E, a)
<1> DEFINE S == {u \in Distant : <<u[1], x + u[2]>> \in Ways(E, a)}
<1>1. <<b, 0>> \in S
  BY DEF Distant
<1>2. Closed(E, S)
  <2> SUFFICES ASSUME NEW u \in S, NEW e \in E, u[1] \in e.ends, NEW m \in e.ends \ {u[1]}
               PROVE  <<m, u[2] + e.length>> \in S
    BY DEF Closed
  <2>1. u \in Distant /\ u[2] \in Nat /\ <<u[1], x + u[2]>> \in Ways(E, a) /\ IsEdge(e) /\ e.length \in Nat
    BY DEF Distant, IsGraph, IsEdge
  <2>2. <<m, u[2] + e.length>> \in Distant
    BY <2>1, WayOn
  <2>3. Closed(E, Ways(E, a))
    BY WaysClosed
  <2>4. <<m, (x + u[2]) + e.length>> \in Ways(E, a)
    <3> DEFINE v == <<u[1], x + u[2]>>
    <3>1. v[1] = u[1] /\ v[2] = x + u[2] /\ v \in Ways(E, a)
      BY <2>1
    <3> HIDE DEF v
    <3> QED
      BY <3>1, <2>3 DEF Closed
  <2>5. (x + u[2]) + e.length = x + (u[2] + e.length)
    BY <2>1
  <2> QED
    BY <2>2, <2>4, <2>5
<1>3. S \subseteq Distant
  OBVIOUS
<1> HIDE DEF S
<1>4. w \in S
  BY <1>1, <1>2, <1>3, WaysLeast
<1> QED
  BY <1>4 DEF S

\* Edges have no direction, and so a way can be gone back.
LEMMA WaysBack ==
    ASSUME NEW E, IsGraph(E), NEW a \in Nodes, NEW w \in Ways(E, a)
    PROVE  <<a, w[2]>> \in Ways(E, w[1])
<1> DEFINE S == {u \in Distant : <<a, u[2]>> \in Ways(E, u[1])}
<1>1. <<a, 0>> \in S
  BY WaysClosed DEF Distant
<1>2. Closed(E, S)
  <2> SUFFICES ASSUME NEW u \in S, NEW e \in E, u[1] \in e.ends, NEW m \in e.ends \ {u[1]}
               PROVE  <<m, u[2] + e.length>> \in S
    BY DEF Closed
  <2>1. u \in Distant /\ u[2] \in Nat /\ u[1] \in Nodes /\ IsEdge(e) /\ e.length \in Nat
        /\ <<a, u[2]>> \in Ways(E, u[1])
    BY DEF Distant, IsGraph, IsEdge
  <2>2. <<m, u[2] + e.length>> \in Distant /\ m \in Nodes
    BY <2>1, WayOn DEF Distant
  <2>3. <<u[1], e.length>> \in Ways(E, m)
    <3> DEFINE v == <<m, 0>>
    <3>1. v[1] = m /\ v[2] = 0 /\ v \in Ways(E, m) /\ Closed(E, Ways(E, m))
      BY <2>2, WaysClosed
    <3> HIDE DEF v
    <3>2. <<u[1], 0 + e.length>> \in Ways(E, m)
      BY <3>1 DEF Closed
    <3>3. 0 + e.length = e.length
      BY <2>1
    <3> QED
      BY <3>2, <3>3
  <2>4. <<a, e.length + u[2]>> \in Ways(E, m)
    <3> DEFINE v == <<a, u[2]>>
    <3>1. v[1] = a /\ v[2] = u[2] /\ v \in Ways(E, u[1])
      BY <2>1
    <3> HIDE DEF v
    <3>2. <<v[1], e.length + v[2]>> \in Ways(E, m)
      BY <3>1, <2>1, <2>2, <2>3, WaysBefore
    <3> QED
      BY <3>1, <3>2
  <2>5. e.length + u[2] = u[2] + e.length
    BY <2>1
  <2> QED
    BY <2>2, <2>4, <2>5
<1>3. S \subseteq Distant
  OBVIOUS
<1> HIDE DEF S
<1>4. w \in S
  BY <1>1, <1>2, <1>3, WaysLeast
<1> QED
  BY <1>4 DEF S

\* n is d away from a, and no less.
Nearest(E, a, n, d) == <<n, d>> \in Ways(E, a) /\ \A w \in Ways(E, a) : w[1] = n => d <= w[2]

\* What is nearest from one end is nearest from the other.
LEMMA NearestBack ==
    ASSUME NEW E, IsGraph(E), NEW a \in Nodes, NEW n \in Nodes, NEW d \in Nat, Nearest(E, a, n, d)
    PROVE  Nearest(E, n, a, d)
<1>1. <<a, d>> \in Ways(E, n)
  <2> DEFINE w == <<n, d>>
  <2>1. w[1] = n /\ w[2] = d /\ w \in Ways(E, a)
    BY DEF Nearest
  <2> HIDE DEF w
  <2> QED
    BY <2>1, WaysBack
<1>2. ASSUME NEW w \in Ways(E, n), w[1] = a
      PROVE  d <= w[2]
  <2> DEFINE u == <<n, w[2]>>
  <2>1. u[1] = n /\ u[2] = w[2] /\ u \in Ways(E, a)
    BY <1>2, WaysBack
  <2> HIDE DEF u
  <2> QED
    BY <2>1 DEF Nearest
<1> QED
  BY <1>1, <1>2 DEF Nearest

----------------------------------------------------------------------------
(* Distances: every nearest node is found *)

NodesOf(E) == UNION {e.ends : e \in E}

LEMMA NodesFinite ==
    ASSUME NEW E, IsGraph(E)
    PROVE  IsFiniteSet(NodesOf(E)) /\ Cardinality(NodesOf(E)) \in Nat /\ NodesOf(E) \subseteq Nodes
<1> DEFINE T == {e.ends : e \in E}
           f == [e \in E |-> e.ends]
<1>1. f \in Surjection(E, T)
  BY DEF Surjection
<1>2. IsFiniteSet(T)
  <2> HIDE DEF T, f
  <2> QED
    BY <1>1, FS_Surjection DEF IsGraph
<1>3. \A e \in E : IsFiniteSet(e.ends) /\ e.ends \subseteq Nodes
  <2> SUFFICES ASSUME NEW e \in E PROVE IsFiniteSet(e.ends) /\ e.ends \subseteq Nodes
    OBVIOUS
  <2>1. PICK x \in Nodes, y \in Nodes : x # y /\ e.ends = {x, y}
    BY DEF IsGraph, IsEdge
  <2>2. e.ends = {x} \cup {y}
    BY <2>1
  <2>3. IsFiniteSet({x}) /\ IsFiniteSet({y})
    BY FS_Singleton
  <2>4. IsFiniteSet({x} \cup {y})
    BY <2>3, FS_Union
  <2> QED
    BY <2>1, <2>2, <2>4
<1>4. \A t \in T : IsFiniteSet(t)
  BY <1>3
<1>5. IsFiniteSet(UNION T)
  <2> HIDE DEF T
  <2> QED
    BY <1>2, <1>4, FS_UNION
<1> QED
  BY <1>3, <1>5, FS_CardinalityType DEF NodesOf

LEMMA OtherEnd ==
    ASSUME NEW e, IsEdge(e), NEW n \in e.ends
    PROVE  /\ (CHOOSE m \in e.ends : m # n) \in e.ends \ {n}
           /\ \A m \in e.ends \ {n} : m = CHOOSE k \in e.ends : k # n
<1>1. PICK a \in Nodes, b \in Nodes : a # b /\ e.ends = {a, b}
  BY DEF IsEdge
<1>2. \E m \in e.ends : m # n
  BY <1>1
<1>3. (CHOOSE m \in e.ends : m # n) \in e.ends \ {n}
  BY <1>2
<1> QED
  BY <1>1, <1>3

\* One edge more, with the other end of the edge named.
LEMMA OnwardIs ==
    ASSUME NEW E, IsGraph(E), NEW w \in Distant
    PROVE  /\ \A e \in E : w[1] \in e.ends =>
                \A m \in e.ends \ {w[1]} : <<m, w[2] + e.length>> \in Onward(E, w)
           /\ \A v \in Onward(E, w) : \E e \in E : \E m \in e.ends \ {w[1]} :
                w[1] \in e.ends /\ v = <<m, w[2] + e.length>>
<1>1. \A e \in E : IsEdge(e)
  BY DEF IsGraph
<1>2. ASSUME NEW e \in E, w[1] \in e.ends, NEW m \in e.ends \ {w[1]}
      PROVE  <<m, w[2] + e.length>> \in Onward(E, w)
  <2>1. m = CHOOSE k \in e.ends : k # w[1]
    BY <1>1, <1>2, OtherEnd
  <2> QED
    BY <1>2, <2>1 DEF Onward
<1>3. ASSUME NEW v \in Onward(E, w)
      PROVE  \E e \in E : \E m \in e.ends \ {w[1]} : w[1] \in e.ends /\ v = <<m, w[2] + e.length>>
  <2>1. PICK e \in E : w[1] \in e.ends /\ v = <<CHOOSE k \in e.ends : k # w[1], w[2] + e.length>>
    BY DEF Onward
  <2>2. (CHOOSE k \in e.ends : k # w[1]) \in e.ends \ {w[1]}
    BY <1>1, <2>1, OtherEnd
  <2> QED
    BY <2>1, <2>2
<1> QED
  BY <1>2, <1>3

\* A round adds ways only.
LEMMA FurtherIsWays ==
    ASSUME NEW E, IsGraph(E), NEW a \in Nodes, NEW S \in SUBSET Ways(E, a)
    PROVE  Further(E, S) \subseteq Ways(E, a)
<1>1. ASSUME NEW w \in S, NEW v \in Onward(E, w)
      PROVE  v \in Ways(E, a)
  <2>1. w \in Ways(E, a) /\ w \in Distant
    BY DEF Ways
  <2>2. PICK e \in E : \E m \in e.ends \ {w[1]} : w[1] \in e.ends /\ v = <<m, w[2] + e.length>>
    BY <2>1, OnwardIs
  <2>3. Closed(E, Ways(E, a))
    BY WaysClosed
  <2> QED
    BY <2>1, <2>2, <2>3 DEF Closed
<1> QED
  BY <1>1 DEF Further, Least

LEMMA FurtherTyped ==
    ASSUME NEW E, IsGraph(E), NEW S \in SUBSET Distant
    PROVE  Further(E, S) \in SUBSET Distant
<1>1. ASSUME NEW w \in S, NEW v \in Onward(E, w)
      PROVE  v \in Distant
  <2>1. PICK e \in E : \E m \in e.ends \ {w[1]} : w[1] \in e.ends /\ v = <<m, w[2] + e.length>>
    BY OnwardIs
  <2> QED
    BY <2>1, WayOn DEF IsGraph
<1> QED
  BY <1>1 DEF Further, Least

RoundsFrom(E, a, n, f) == f[0] = {<<a, 0>>} /\ \A k \in 1 .. n : f[k] = Further(E, f[k - 1])

\* The rounds of Distances as a function of their number.
LEMMA DistancesBy ==
    ASSUME NEW E, IsGraph(E), NEW a \in Nodes
    PROVE  \E f \in [0 .. Cardinality(NodesOf(E)) -> SUBSET Distant] :
              /\ RoundsFrom(E, a, Cardinality(NodesOf(E)), f)
              /\ Distances(E, a) = f[Cardinality(NodesOf(E))]
<1> DEFINE n == Cardinality(NodesOf(E))
           X == SUBSET Distant
           x0 == {<<a, 0>>}
           g == [p \in X \X (1 .. n) |-> Further(E, p[1])]
           eq(f) == [k \in 0 .. n |-> IF k = 0 THEN {<<a, 0>>} ELSE Further(E, f[k - 1])]
           within == CHOOSE f : f = eq(f)
<1>1. n \in Nat
  BY NodesFinite
<1>2. x0 \in X
  BY DEF Distant
<1>3. g \in [X \X (1 .. n) -> X]
  <2>1. \A p \in X \X (1 .. n) : Further(E, p[1]) \in X
    BY FurtherTyped
  <2> HIDE DEF X, n
  <2> QED
    BY <2>1
<1>4. PICK f \in [0 .. n -> X] : f[0] = x0 /\ \A i \in 1 .. n : f[i] = g[<<f[i - 1], i>>]
  <2> HIDE DEF n, g, X, x0
  <2>1. Iterate(X, x0, n, g)
    BY <1>1, <1>2, <1>3, Iterates
  <2> QED
    BY <2>1 DEF Iterate
<1>5. \A i \in 1 .. n : f[i] = Further(E, f[i - 1])
  <2> TAKE i \in 1 .. n
  <2> HIDE DEF n, X
  <2>1. i - 1 \in 0 .. n
    BY <1>1
  <2>2. <<f[i - 1], i>> \in X \X (1 .. n)
    BY <2>1
  <2> QED
    BY <1>4, <2>2
<1>6. f = eq(f)
  <2> HIDE DEF n, g, X
  <2>1. \A i \in 0 .. n : f[i] = eq(f)[i]
    <3> TAKE i \in 0 .. n
    <3>1. CASE i = 0
      BY <3>1, <1>4
    <3>2. CASE i # 0
      <4>1. i \in 1 .. n
        BY <3>2, <1>1
      <4> QED
        BY <3>2, <4>1, <1>5
    <3> QED
      BY <3>1, <3>2
  <2> HIDE DEF eq
  <2>2. eq(f) = [i \in 0 .. n |-> eq(f)[i]]
    BY DEF eq
  <2> QED
    BY <2>1, <2>2
<1>7. within = eq(within)
  <2> HIDE DEF eq
  <2> QED
    BY <1>6
<1>8. Distances(E, a) = within[n]
  BY DEF Distances, NodesOf
<1> HIDE DEF within
<1>9. \A k \in 1 .. n : within[k] = Further(E, within[k - 1])
  <2> HIDE DEF n
  <2> TAKE k \in 1 .. n
  <2>1. k \in 0 .. n /\ k # 0
    BY <1>1
  <2>2. within[k] = eq(within)[k]
    BY <1>7
  <2> QED
    BY <2>1, <2>2
<1>10. within[0] = x0
  <2> HIDE DEF n
  <2>1. 0 \in 0 .. n /\ within[0] = eq(within)[0]
    BY <1>1, <1>7
  <2> QED
    BY <2>1
<1>11. \A k \in 0 .. n : within[k] \in X
  <2> DEFINE K == {k \in Nat : k <= n => within[k] \in X}
  <2> HIDE DEF n, X
  <2>1. 0 \in K
    BY <1>2, <1>10
  <2>2. ASSUME NEW k \in Nat, k \in K PROVE k + 1 \in K
    <3> SUFFICES ASSUME k + 1 <= n PROVE within[k + 1] \in X
      OBVIOUS
    <3>1. k + 1 \in 1 .. n /\ (k + 1) - 1 = k /\ within[k] \in X
      BY <1>1, <2>2
    <3>2. within[k + 1] = Further(E, within[k])
      BY <3>1, <1>9
    <3> QED
      BY <3>1, <3>2, FurtherTyped DEF X
  <2> HIDE DEF K
  <2>3. Nat \subseteq K
    BY <2>1, <2>2, Counting
  <2> QED
    BY <2>3 DEF K
<1>12. within \in [0 .. n -> X]
  <2> HIDE DEF n, X
  <2>1. within = [k \in 0 .. n |-> eq(within)[k]]
    BY <1>7
  <2>2. \A k \in 0 .. n : eq(within)[k] = within[k]
    <3> HIDE DEF eq
    <3> QED
      BY <1>7
  <2> HIDE DEF eq
  <2> QED
    BY <2>1, <2>2, <1>11
<1> QED
  BY <1>8, <1>9, <1>10, <1>12 DEF RoundsFrom

\* Distances finds ways only.
LEMMA RoundsAreWays ==
    ASSUME NEW E, IsGraph(E), NEW a \in Nodes, NEW n \in Nat, NEW f, RoundsFrom(E, a, n, f)
    PROVE  \A k \in 0 .. n : f[k] \subseteq Ways(E, a)
<1> DEFINE K == {k \in Nat : k <= n => f[k] \subseteq Ways(E, a)}
<1>1. 0 \in K
  BY WaysClosed DEF RoundsFrom
<1>2. ASSUME NEW k \in Nat, k \in K PROVE k + 1 \in K
  <2> SUFFICES ASSUME k + 1 <= n PROVE f[k + 1] \subseteq Ways(E, a)
    OBVIOUS
  <2>1. k + 1 \in 1 .. n /\ (k + 1) - 1 = k /\ f[k] \subseteq Ways(E, a)
    BY <1>2
  <2>2. f[k + 1] = Further(E, f[k])
    BY <2>1 DEF RoundsFrom
  <2> QED
    BY <2>1, <2>2, FurtherIsWays
<1> HIDE DEF K
<1>3. Nat \subseteq K
  BY <1>1, <1>2, Counting
<1> QED
  BY <1>3 DEF K

\* A nearest node, once found, stays.
LEMMA NearestStays ==
    ASSUME NEW E, IsGraph(E), NEW a \in Nodes, NEW S \in SUBSET Ways(E, a),
           NEW m, NEW d, Nearest(E, a, m, d),
           <<m, d>> \in S \cup UNION {Onward(E, w) : w \in S}
    PROVE  <<m, d>> \in Further(E, S)
<1>1. ASSUME NEW w \in S, NEW v \in Onward(E, w)
      PROVE  v \in Ways(E, a)
  <2>1. w \in Ways(E, a) /\ w \in Distant
    BY DEF Ways
  <2>2. PICK e \in E : \E k \in e.ends \ {w[1]} : w[1] \in e.ends /\ v = <<k, w[2] + e.length>>
    BY <2>1, OnwardIs
  <2>3. Closed(E, Ways(E, a))
    BY WaysClosed
  <2> QED
    BY <2>1, <2>2, <2>3 DEF Closed
<1>2. \A v \in S \cup UNION {Onward(E, w) : w \in S} : v[1] = m => d <= v[2]
  BY <1>1 DEF Nearest
<1> QED
  BY <1>2 DEF Further, Least

\* Unless all are found, a nearest node is one edge further.
LEMMA OneMore ==
    ASSUME NEW E, IsGraph(E), NEW a \in Nodes, NEW A, a \in A,
           NEW m, NEW d, Nearest(E, a, m, d), m \notin A
    PROVE  \E n \in A : \E x \in Nat : \E e \in E : \E k \in e.ends \ {n} :
              /\ Nearest(E, a, n, x) /\ n \in e.ends
              /\ k \notin A /\ Nearest(E, a, k, x + e.length)
<1> DEFINE S == {w \in Ways(E, a) : ~(w[1] \notin A /\ Nearest(E, a, w[1], w[2]))}
<1> SUFFICES ASSUME \A n \in A : \A x \in Nat : \A e \in E : \A k \in e.ends \ {n} :
                      ~(/\ Nearest(E, a, n, x) /\ n \in e.ends
                        /\ k \notin A /\ Nearest(E, a, k, x + e.length))
             PROVE  FALSE
  OBVIOUS
<1>1. <<a, 0>> \in S
  BY WaysClosed
<1>2. Closed(E, S)
  <2> SUFFICES ASSUME NEW u \in S, NEW e \in E, u[1] \in e.ends, NEW k \in e.ends \ {u[1]}
               PROVE  <<k, u[2] + e.length>> \in S
    BY DEF Closed
  <2>1. u \in Ways(E, a) /\ u[2] \in Nat /\ e.length \in Nat /\ u = <<u[1], u[2]>>
    BY DEF Ways, Distant, IsGraph, IsEdge
  <2>2. <<k, u[2] + e.length>> \in Ways(E, a)
    BY <2>1, WaysClosed DEF Closed
  <2> SUFFICES ASSUME k \notin A, Nearest(E, a, k, u[2] + e.length)
               PROVE  FALSE
    BY <2>2
  <2>3. Nearest(E, a, u[1], u[2])
    <3>1. ASSUME NEW w \in Ways(E, a), w[1] = u[1] PROVE u[2] <= w[2]
      <4>1. w[2] \in Nat
        BY DEF Ways, Distant
      <4>2. <<k, w[2] + e.length>> \in Ways(E, a)
        BY <3>1, WaysClosed DEF Closed
      <4>3. u[2] + e.length <= w[2] + e.length
        <5> DEFINE v == <<k, w[2] + e.length>>
        <5>1. v[1] = k /\ v[2] = w[2] + e.length /\ v \in Ways(E, a)
          BY <4>2
        <5> HIDE DEF v
        <5>2. u[2] + e.length <= v[2]
          BY <5>1 DEF Nearest
        <5> QED
          BY <5>1, <5>2
      <4> QED
        BY <4>1, <4>3, <2>1
    <3> QED
      BY <3>1, <2>1 DEF Nearest
  <2>4. u[1] \in A
    BY <2>3
  <2> QED
    BY <2>1, <2>3, <2>4
<1>3. S \in SUBSET Distant
  BY DEF Ways
<1> HIDE DEF S
<1>4. Ways(E, a) \subseteq S
  BY <1>1, <1>2, <1>3, WaysLeast
<1>5. <<m, d>> \in S
  BY <1>4 DEF Nearest
<1> QED
  BY <1>5 DEF S

\* In as many rounds as there are nodes, every nearest one is found.
LEMMA NearestFound ==
    ASSUME NEW E, IsGraph(E), NEW a \in Nodes, NEW m \in Nodes, NEW d \in Nat, Nearest(E, a, m, d)
    PROVE  <<m, d>> \in Distances(E, a)
<1> DEFINE N == Cardinality(NodesOf(E))
           Near == {n \in Nodes : \E x \in Nat : Nearest(E, a, n, x)}
<1>1. N \in Nat /\ IsFiniteSet(NodesOf(E))
  BY NodesFinite
<1>2. PICK f \in [0 .. N -> SUBSET Distant] : RoundsFrom(E, a, N, f) /\ Distances(E, a) = f[N]
  BY DistancesBy
<1>3. \A k \in 0 .. N : f[k] \subseteq Ways(E, a)
  <2> HIDE DEF N
  <2> QED
    BY <1>1, <1>2, RoundsAreWays
<1> DEFINE A(k) == {n \in Nodes : \E x \in Nat : Nearest(E, a, n, x) /\ <<n, x>> \in f[k]}
<1> HIDE DEF N
<1>4. Nearest(E, a, a, 0) /\ a \in A(0)
  <2>1. <<a, 0>> \in Ways(E, a)
    BY WaysClosed
  <2>2. \A w \in Ways(E, a) : 0 <= w[2]
    BY DEF Ways, Distant
  <2>3. <<a, 0>> \in f[0]
    BY <1>2 DEF RoundsFrom
  <2> QED
    BY <2>1, <2>2, <2>3 DEF Nearest
<1>5. ASSUME NEW k \in 0 .. N - 1
      PROVE  A(k) \subseteq A(k + 1) /\ (a \in A(k) /\ A(k) # Near => \E n \in A(k + 1) : n \notin A(k))
  <2>1. k \in 0 .. N /\ k + 1 \in 1 .. N /\ (k + 1) - 1 = k
    BY <1>1
  <2>2. f[k + 1] = Further(E, f[k]) /\ f[k] \subseteq Ways(E, a)
    BY <2>1, <1>2, <1>3 DEF RoundsFrom
  <2>3. ASSUME NEW n \in Nodes, NEW x \in Nat, Nearest(E, a, n, x), <<n, x>> \in f[k]
        PROVE  <<n, x>> \in f[k + 1]
    BY <2>2, <2>3, NearestStays
  <2>4. A(k) \subseteq A(k + 1)
    BY <2>3
  <2>5. ASSUME a \in A(k), A(k) # Near PROVE \E n \in A(k + 1) : n \notin A(k)
    <3>1. PICK n0 \in Nodes, x0 \in Nat : Nearest(E, a, n0, x0) /\ n0 \notin A(k)
      BY <2>5
    <3> DEFINE B == A(k)
    <3>2. a \in B /\ n0 \notin B
      BY <2>5, <3>1
    <3> HIDE DEF B
    <3>3. PICK n \in B, x \in Nat, e \in E : \E j \in e.ends \ {n} :
             /\ Nearest(E, a, n, x) /\ n \in e.ends
             /\ j \notin B /\ Nearest(E, a, j, x + e.length)
      BY <3>1, <3>2, OneMore
    <3>3a. PICK j \in e.ends \ {n} :
             /\ Nearest(E, a, n, x) /\ n \in e.ends
             /\ j \notin B /\ Nearest(E, a, j, x + e.length)
      BY <3>3
    <3>4. PICK y \in Nat : Nearest(E, a, n, y) /\ <<n, y>> \in f[k]
      BY DEF B
    <3>5. y = x
      <4>1. x <= y /\ y <= x
        <5> DEFINE u == <<n, x>>
                   v == <<n, y>>
        <5>1. u[1] = n /\ u[2] = x /\ v[1] = n /\ v[2] = y /\ u \in Ways(E, a) /\ v \in Ways(E, a)
          BY <3>3a, <3>4 DEF Nearest
        <5> HIDE DEF u, v
        <5> QED
          BY <5>1, <3>3a, <3>4 DEF Nearest
      <4> QED
        BY <4>1
    <3>6. IsEdge(e) /\ j \in Nodes /\ x + e.length \in Nat
      BY <3>3a DEF IsGraph, IsEdge
    <3>7. <<j, x + e.length>> \in Onward(E, <<n, x>>)
      <4> DEFINE w == <<n, x>>
      <4>1. w[1] = n /\ w[2] = x /\ w \in Distant
        BY <3>4 DEF B, Distant
      <4> HIDE DEF w
      <4>2. <<j, w[2] + e.length>> \in Onward(E, w)
        BY <4>1, <3>3a, OnwardIs
      <4> QED
        BY <4>1, <4>2 DEF w
    <3>8. <<j, x + e.length>> \in f[k + 1]
      BY <2>2, <3>3a, <3>4, <3>5, <3>6, <3>7, NearestStays
    <3>9. j \in A(k + 1)
      BY <3>3a, <3>6, <3>8
    <3> QED
      BY <3>3a, <3>9 DEF B
  <2> QED
    BY <2>4, <2>5
<1>6. A(N) \subseteq Near /\ IsFiniteSet(Near) /\ Cardinality(Near) <= N + 1
  <2>1. Near \subseteq NodesOf(E) \cup {a}
    <3> DEFINE S == {w \in Distant : w[1] \in NodesOf(E) \cup {a}}
    <3>1. <<a, 0>> \in S /\ S \subseteq Distant
      BY DEF Distant
    <3>2. Closed(E, S)
      <4> SUFFICES ASSUME NEW w \in S, NEW e \in E, w[1] \in e.ends, NEW k \in e.ends \ {w[1]}
                   PROVE  <<k, w[2] + e.length>> \in S
        BY DEF Closed
      <4>1. <<k, w[2] + e.length>> \in Distant
        BY WayOn DEF IsGraph
      <4> QED
        BY <4>1 DEF NodesOf
    <3> HIDE DEF S
    <3>3. Ways(E, a) \subseteq S
      BY <3>1, <3>2, WaysLeast
    <3> QED
      BY <3>3 DEF S, Nearest
  <2>2. IsFiniteSet(NodesOf(E) \cup {a}) /\ Cardinality(NodesOf(E) \cup {a}) <= N + 1
    <3> DEFINE M == NodesOf(E)
    <3>1. IsFiniteSet(M) /\ Cardinality(M) = N
      BY <1>1 DEF N
    <3> HIDE DEF M
    <3>2. IsFiniteSet(M \cup {a}) /\ Cardinality(M \cup {a}) = IF a \in M THEN Cardinality(M) ELSE Cardinality(M) + 1
      BY <3>1, FS_AddElement
    <3>3. IsFiniteSet(M \cup {a}) /\ Cardinality(M \cup {a}) <= N + 1
      BY <3>1, <3>2, <1>1
    <3> QED
      BY <3>3 DEF M
  <2>3. IsFiniteSet(Near) /\ Cardinality(Near) <= Cardinality(NodesOf(E) \cup {a})
    <3> HIDE DEF Near
    <3> QED
      BY <2>1, <2>2, FS_Subset
  <2>4. Cardinality(Near) \in Nat /\ Cardinality(NodesOf(E) \cup {a}) \in Nat
    <3> HIDE DEF Near
    <3> QED
      BY <2>2, <2>3, FS_CardinalityType
  <2>5. A(N) \subseteq Near
    OBVIOUS
  <2> HIDE DEF A, Near
  <2> QED
    BY <2>2, <2>3, <2>4, <2>5, <1>1
<1> DEFINE K == {k \in Nat : k <= N => /\ a \in A(k)
                                      /\ (A(k) = Near \/ Cardinality(A(k)) >= k + 1)}
<1>7. \A k \in Nat : A(k) \subseteq Near
  OBVIOUS
<1>8. \A k \in Nat : IsFiniteSet(A(k)) /\ Cardinality(A(k)) \in Nat
  <2> TAKE k \in Nat
  <2> DEFINE B == A(k)
  <2>1. B \subseteq Near
    BY <1>7
  <2> HIDE DEF B, Near
  <2> QED
    BY <2>1, <1>6, FS_Subset, FS_CardinalityType DEF B
<1>9. 0 \in K
  <2> DEFINE B == A(0)
  <2>1. a \in B /\ IsFiniteSet(B) /\ Cardinality(B) \in Nat
    BY <1>4, <1>8
  <2>2. Cardinality(B) # 0
    <3> HIDE DEF B
    <3> QED
      BY <2>1, FS_EmptySet
  <2> HIDE DEF Near
  <2>3. Cardinality(B) >= 1
    <3> HIDE DEF B
    <3> QED
      BY <2>1, <2>2
  <2> QED
    BY <2>1, <2>3
<1>10. ASSUME NEW k \in Nat, k \in K PROVE k + 1 \in K
  <2> SUFFICES ASSUME k + 1 <= N
               PROVE  a \in A(k + 1) /\ (A(k + 1) = Near \/ Cardinality(A(k + 1)) >= k + 2)
    BY <1>1
  <2> DEFINE B == A(k)
             C == A(k + 1)
  <2>1. k \in 0 .. N - 1 /\ k <= N
    BY <1>1
  <2>2. a \in B /\ (B = Near \/ Cardinality(B) >= k + 1)
    BY <1>10, <2>1
  <2>3. B \subseteq C /\ (B # Near => \E n \in C : n \notin B)
    BY <1>5, <2>1, <2>2
  <2>4. C \subseteq Near /\ IsFiniteSet(B) /\ IsFiniteSet(C) /\ Cardinality(B) \in Nat /\ Cardinality(C) \in Nat
    <3>1. k + 1 \in Nat
      OBVIOUS
    <3> QED
      BY <1>7, <1>8, <3>1
  <2> HIDE DEF B, C, Near, A, K
  <2>5. CASE B = Near
    BY <2>5, <2>2, <2>3, <2>4 DEF C
  <2>6. CASE B # Near
    <3>1. Cardinality(B) <= Cardinality(C) /\ (Cardinality(B) = Cardinality(C) => B = C)
      BY <2>3, <2>4, FS_Subset
    <3>2. B # C
      BY <2>3, <2>6
    <3>3. Cardinality(C) >= k + 2
      BY <2>2, <2>4, <2>6, <3>1, <3>2
    <3> QED
      BY <3>3, <2>2, <2>3 DEF C
  <2> QED
    BY <2>5, <2>6
<1>11. A(N) = Near
  <2> HIDE DEF K, A, Near
  <2>1. Nat \subseteq K
    BY <1>9, <1>10, Counting
  <2>2. A(N) = Near \/ Cardinality(A(N)) >= N + 1
    BY <2>1, <1>1 DEF K
  <2>3. CASE Cardinality(A(N)) >= N + 1
    <3>1. Cardinality(A(N)) <= Cardinality(Near) /\ (Cardinality(A(N)) = Cardinality(Near) => A(N) = Near)
      BY <1>6, FS_Subset
    <3>2. Cardinality(A(N)) \in Nat /\ Cardinality(Near) \in Nat
      BY <1>1, <1>6, <1>8, FS_CardinalityType
    <3> QED
      BY <2>3, <3>1, <3>2, <1>1, <1>6
  <2> QED
    BY <2>2, <2>3
<1>12. m \in A(N)
  BY <1>11
<1>13. PICK y \in Nat : Nearest(E, a, m, y) /\ <<m, y>> \in f[N]
  BY <1>12
<1>14. y = d
  <2> DEFINE u == <<m, d>>
             v == <<m, y>>
  <2>1. u[1] = m /\ u[2] = d /\ v[1] = m /\ v[2] = y /\ u \in Ways(E, a) /\ v \in Ways(E, a)
    BY <1>13 DEF Nearest
  <2> HIDE DEF u, v
  <2>2. d <= y /\ y <= d
    BY <2>1, <1>13 DEF Nearest
  <2> QED
    BY <2>2
<1> QED
  BY <1>2, <1>13, <1>14

\* A distance is the length of some way.
LEMMA DistancesAreWays ==
    ASSUME NEW E, IsGraph(E), NEW a \in Nodes
    PROVE  Distances(E, a) \subseteq Ways(E, a)
<1> DEFINE n == Cardinality(NodesOf(E))
<1>1. n \in Nat
  BY NodesFinite
<1>2. PICK f \in [0 .. n -> SUBSET Distant] : RoundsFrom(E, a, n, f) /\ Distances(E, a) = f[n]
  BY DistancesBy
<1> HIDE DEF n
<1>3. n \in 0 .. n
  BY <1>1
<1> QED
  BY <1>1, <1>2, <1>3, RoundsAreWays

----------------------------------------------------------------------------
(* The graph that is built *)

PlainNodes == AllTerms \cup (Pads \X {"pad", "mid"})

\* An edge of a via is half its barrel and ends at the via's hub, where no
\* other edge ends.
Laid(e) ==
    /\ e.parts \in Parts /\ e.length = Sum(e.parts)
    /\ e.of \in Copper \cup Pads
    /\ \/ /\ e.of \in Vias /\ e.parts.via = HalfBarrel(e.of)
          /\ \E t \in AllTerms : e.ends = {Hub(e.of), t}
       \/ /\ e.of \notin Vias /\ e.parts.via = 0
          /\ \E m \in PlainNodes, n \in PlainNodes : m # n /\ e.ends = {m, n}

Divided ==
    \A s \in net.tracks : /\ IsFiniteSet(splits[s])
                          /\ \A c \in splits[s] : c.at \in Nat /\ c.node \in AllTerms

Graph ==
    /\ DOMAIN splits = net.tracks
    /\ Divided
    /\ pc = "drawing" => todo \subseteq net.tracks
    /\ pads \subseteq net.pads
    /\ IsFiniteSet(links)
    /\ \A e \in links : Laid(e)

\* The middle of a via is no end of a track, of a barrel or of a pad.
LEMMA HubsApart ==
    ASSUME NetAssumption
    PROVE  /\ \A n \in PlainNodes, v \in Vias : n # Hub(v)
           /\ PlainNodes \subseteq Nodes /\ \A v \in Vias : Hub(v) \in Nodes
<1>1. "hub" \notin Layers /\ Tracks \cap Vias = {} /\ Pads \cap Vias = {}
  BY DEF NetAssumption
<1>2. ASSUME NEW n \in PlainNodes, NEW v \in Vias PROVE n # Hub(v)
  <2>1. CASE n \in Tracks \X {"start", "end"}
    BY <2>1, <1>1 DEF Hub
  <2>2. CASE n \in Vias \X Layers
    BY <2>2, <1>1 DEF Hub
  <2>3. CASE n \in Pads \X {"pad", "mid"}
    BY <2>3, <1>1 DEF Hub
  <2> QED
    BY <2>1, <2>2, <2>3 DEF PlainNodes, AllTerms
<1> QED
  BY <1>2 DEF PlainNodes, Nodes, Hub

LEMMA LaidIsEdge ==
    ASSUME NetAssumption, NEW e, Laid(e)
    PROVE  IsEdge(e)
<1>1. e.length \in Nat
  BY DEF Laid, Parts, Sum
<1>2. CASE e.of \in Vias
  <2>1. PICK t \in AllTerms : e.ends = {Hub(e.of), t}
    BY <1>2 DEF Laid
  <2>2. t \in PlainNodes
    BY DEF PlainNodes
  <2> QED
    BY <1>1, <1>2, <2>1, <2>2, HubsApart DEF IsEdge
<1>3. CASE e.of \notin Vias
  BY <1>1, <1>3, HubsApart DEF Laid, IsEdge
<1> QED
  BY <1>2, <1>3

\* What is laid is a graph: finitely many edges, of two nodes each.
LEMMA GraphIsGraph ==
    ASSUME NetAssumption, Graph
    PROVE  IsGraph(links)
  BY LaidIsEdge DEF Graph, IsGraph

LEMMA TermsFinite ==
    ASSUME NetAssumption
    PROVE  IsFiniteSet(AllTerms)
<1> DEFINE T == {Span(v) : v \in Vias}
           f == [v \in Vias |-> Span(v)]
<1>1. f \in Surjection(Vias, T)
  BY DEF Surjection
<1>2. IsFiniteSet(T)
  <2> HIDE DEF T, f
  <2> QED
    BY <1>1, FS_Surjection DEF NetAssumption
<1>3. \A t \in T : IsFiniteSet(t)
  BY DEF NetAssumption
<1>4. IsFiniteSet(UNION T)
  <2> HIDE DEF T
  <2> QED
    BY <1>2, <1>3, FS_UNION
<1>5. IsFiniteSet(Layers)
  BY <1>4 DEF Layers
<1>6. IsFiniteSet({"start", "end"})
  <2>1. IsFiniteSet({"start"}) /\ IsFiniteSet({"end"})
    BY FS_Singleton
  <2>2. IsFiniteSet({"start"} \cup {"end"})
    BY <2>1, FS_Union
  <2>3. {"start"} \cup {"end"} = {"start", "end"}
    OBVIOUS
  <2> QED
    BY <2>2, <2>3
<1>7. IsFiniteSet(Tracks \X {"start", "end"})
  BY <1>6, FS_Product DEF NetAssumption
<1>8. IsFiniteSet(Vias \X Layers)
  BY <1>5, FS_Product DEF NetAssumption
<1> QED
  BY <1>7, <1>8, FS_Union DEF AllTerms

LEMMA TrackLaid ==
    ASSUME NetAssumption, NEW s \in Tracks, NEW len \in Nat,
           NEW a \in PlainNodes, NEW b \in PlainNodes, a # b
    PROVE  Laid(LinkTrack(a, b, s, len))
<1>1. s \notin Vias /\ s \in Copper \cup Pads
  BY DEF NetAssumption, Copper
<1> QED
  BY <1>1 DEF LinkTrack, Edge, Laid, Parts, NoParts, Sum

LEMMA BarrelLaid ==
    ASSUME NetAssumption, NEW v \in Vias, NEW t \in AllTerms
    PROVE  Laid(LinkVia(Hub(v), t, v))
<1>1. HalfBarrel(v) \in Nat /\ v \in Copper \cup Pads
  BY DEF NetAssumption, Copper
<1> QED
  BY <1>1 DEF LinkVia, Edge, Laid, Parts, NoParts, Sum

LEMMA PadLaid ==
    ASSUME NetAssumption, NEW p \in Pads, NEW len \in Nat, NEW b \in PlainNodes, b # PadNode(p)
    PROVE  Laid(LinkPad(p, b, len))
<1>1. Package(p) \in Nat /\ p \notin Vias /\ p \in Copper \cup Pads /\ PadNode(p) \in PlainNodes
  BY DEF NetAssumption, Copper, PadNode, PlainNodes
<1> QED
  BY <1>1 DEF LinkPad, Edge, Laid, Parts, NoParts, Sum

\* What is added by a step, and nothing else, has to be looked at.
LEMMA LinksGrow ==
    ASSUME NetAssumption, Graph, NEW L, IsFiniteSet(L), \A e \in L : Laid(e),
           links' = links \cup L
    PROVE  IsFiniteSet(links') /\ \A e \in links' : Laid(e)
<1>1. IsFiniteSet(links \cup L)
  BY FS_Union DEF Graph
<1> QED
  BY <1>1 DEF Graph

LEMMA AddedFinite ==
    ASSUME NEW L, IsFiniteSet(L)
    PROVE  IsFiniteSet(Added(L)) /\ Added(L) \subseteq L
<1>1. Added(L) \subseteq L
  BY DEF Added
<1> QED
  BY <1>1, FS_Subset

LEMMA EndsTwo ==
    ASSUME NEW L, NEW e \in Added(L), NEW a, NEW b, e.ends = {a, b}
    PROVE  a # b
<1> SUFFICES ASSUME a = b PROVE FALSE
  OBVIOUS
<1>1. e.ends = {a}
  OBVIOUS
<1>2. Cardinality(e.ends) = 1
  BY <1>1, FS_Singleton
<1> QED
  BY <1>2 DEF Added

LEMMA GraphInit ==
    ASSUME NetAssumption, Init
    PROVE  Graph
<1>1. IsFiniteSet({})
  BY FS_EmptySet
<1> QED
  BY <1>1 DEF Init, Graph, Divided

LEMMA SplitKeepsGraph ==
    ASSUME NetAssumption, Junctions, Pieces, Graph, Split
    PROVE  Graph'
<1>1. PICK c \in Closest(cands2, LAMBDA d : Off(d[1], d[2])) :
         \/ splits' = splits
         \/ splits' = [splits EXCEPT ![c[2]] = @ \cup {[at |-> At(c[1], c[2]), node |-> root[c[1]]]}]
  BY DEF Split
<1>2. net' = net /\ pads' = pads /\ links' = links /\ pc = "splitting" /\ pc' = pc
  BY DEF Split
<1>3. /\ c \in Landings(net) /\ net \in Nets
      /\ root \in [Terms(net) -> Terms(net)] /\ Terms(net) \subseteq AllTerms
      /\ net.tracks \subseteq Tracks
  BY <1>1, TermsOfNet DEF Closest, Junctions, JunctionTypes, Pieces, PieceTypes
<1>4. c[1] \in Terms(net) /\ c[2] \in net.tracks /\ Lands(c[1], c[2])
  BY <1>3 DEF Landings
<1>5. At(c[1], c[2]) \in Nat /\ root[c[1]] \in AllTerms
  <2>1. At(c[1], c[2]) \in 1 .. Length(c[2]) - 1
    BY <1>3, <1>4 DEF NetAssumption
  <2>2. Length(c[2]) \in Nat
    BY <1>3, <1>4 DEF NetAssumption
  <2> QED
    BY <2>1, <2>2, <1>3, <1>4
<1> DEFINE cut == [at |-> At(c[1], c[2]), node |-> root[c[1]]]
<1>6. cut.at \in Nat /\ cut.node \in AllTerms
  BY <1>5
<1>7. \/ splits' = splits
      \/ splits' = [splits EXCEPT ![c[2]] = @ \cup {cut}]
  BY <1>1
<1> HIDE DEF cut
<1>8. DOMAIN splits' = net.tracks
  BY <1>7 DEF Graph
<1>9. ASSUME NEW s \in net.tracks
      PROVE  IsFiniteSet(splits'[s]) /\ \A d \in splits'[s] : d.at \in Nat /\ d.node \in AllTerms
  <2>1. IsFiniteSet(splits[s]) /\ \A d \in splits[s] : d.at \in Nat /\ d.node \in AllTerms
    BY DEF Graph, Divided
  <2>2. splits'[s] = splits[s] \/ splits'[s] = splits[s] \cup {cut}
    BY <1>7 DEF Graph
  <2>3. IsFiniteSet(splits[s] \cup {cut})
    BY <2>1, FS_AddElement
  <2> QED
    BY <2>1, <2>2, <2>3, <1>6
<1> QED
  BY <1>2, <1>8, <1>9 DEF Graph, Divided

LEMMA CutsTyped ==
    ASSUME NetAssumption, Junctions, Graph, NEW s \in net.tracks
    PROVE  /\ IsFiniteSet(Cuts(s)) /\ Cardinality(Cuts(s)) \in Nat
           /\ \A c \in Cuts(s) : c.at \in Nat /\ c.node \in AllTerms
<1> DEFINE a == [at |-> 0, node |-> root[Start(s)]]
           b == [at |-> Length(s), node |-> root[End(s)]]
<1>1. /\ root[Start(s)] \in AllTerms /\ root[End(s)] \in AllTerms /\ s \in Tracks
  BY TermsOfNet DEF Junctions, JunctionTypes
<1>2. a.at \in Nat /\ b.at \in Nat /\ a.node \in AllTerms /\ b.node \in AllTerms
  BY <1>1 DEF NetAssumption
<1>3. Cuts(s) = (splits[s] \cup {a}) \cup {b}
  BY DEF Cuts
<1> HIDE DEF a, b
<1>4. IsFiniteSet(splits[s]) /\ \A c \in splits[s] : c.at \in Nat /\ c.node \in AllTerms
  BY DEF Graph, Divided
<1>5. IsFiniteSet(splits[s] \cup {a})
  BY <1>4, FS_AddElement
<1>6. IsFiniteSet((splits[s] \cup {a}) \cup {b})
  BY <1>5, FS_AddElement
<1> QED
  BY <1>2, <1>3, <1>4, <1>6, FS_CardinalityType

LEMMA DrawTrackKeepsGraph ==
    ASSUME NetAssumption, Junctions, Graph, DrawTrack
    PROVE  Graph'
<1> DEFINE s == CHOOSE x \in todo : TRUE
<1>1. /\ net' = net /\ pads' = pads /\ splits' = splits /\ pc' = pc /\ pc = "drawing"
      /\ todo # {} /\ todo' = todo \ {s}
      /\ \E chain \in Chains(s) : links' = links \cup Added(PiecesOf(s, chain))
  BY DEF DrawTrack
<1>2. s \in net.tracks /\ s \in Tracks
  BY <1>1, TermsOfNet DEF Graph, Junctions, JunctionTypes
<1> HIDE DEF s
<1>3. PICK chain \in Chains(s) : links' = links \cup Added(PiecesOf(s, chain))
  BY <1>1
<1> DEFINE n == Cardinality(Cuts(s))
<1>4. n \in Nat /\ \A c \in Cuts(s) : c.at \in Nat /\ c.node \in AllTerms
  BY <1>2, CutsTyped
<1>5. /\ chain \in [1 .. n -> Cuts(s)]
      /\ \A k \in 1 .. Len(chain) - 1 : chain[k].at <= chain[k + 1].at
  BY DEF Chains, SetToSeqs
<1> HIDE DEF n
<1>6. Len(chain) = n
  BY <1>4, <1>5
<1>7. \A k \in 1 .. n - 1 :
        /\ chain[k].node \in AllTerms /\ chain[k + 1].node \in AllTerms
        /\ chain[k + 1].at - chain[k].at \in Nat
  <2> TAKE k \in 1 .. n - 1
  <2>1. k \in 1 .. n /\ k + 1 \in 1 .. n
    BY <1>4
  <2>2. chain[k] \in Cuts(s) /\ chain[k + 1] \in Cuts(s) /\ chain[k].at <= chain[k + 1].at
    BY <2>1, <1>5, <1>6
  <2> QED
    BY <2>2, <1>4
<1>8. IsFiniteSet(PiecesOf(s, chain))
  <2> DEFINE D == 1 .. n - 1
             f == [k \in D |-> Piece(s, chain, k)]
             P == {Piece(s, chain, k) : k \in D}
  <2>1. f \in Surjection(D, P)
    BY DEF Surjection
  <2>2. IsFiniteSet(D)
    BY <1>4, FS_Interval
  <2> HIDE DEF D, f, P
  <2>3. IsFiniteSet(P)
    BY <2>1, <2>2, FS_Surjection
  <2> QED
    BY <2>3, <1>6 DEF P, D, PiecesOf
<1>9. ASSUME NEW e \in Added(PiecesOf(s, chain)) PROVE Laid(e)
  <2>1. e \in PiecesOf(s, chain)
    BY DEF Added
  <2>2. PICK k \in 1 .. n - 1 : e = Piece(s, chain, k)
    BY <2>1, <1>6 DEF PiecesOf
  <2> DEFINE a == chain[k].node
             b == chain[k + 1].node
             len == chain[k + 1].at - chain[k].at
  <2>3. a \in PlainNodes /\ b \in PlainNodes /\ len \in Nat
    BY <1>7 DEF PlainNodes
  <2>4. e = LinkTrack(a, b, s, len)
    BY <2>2 DEF Piece
  <2> HIDE DEF a, b, len
  <2>5. e.ends = {a, b}
    BY <2>4 DEF LinkTrack, Edge
  <2>6. a # b
    BY <2>5, EndsTwo
  <2> QED
    BY <2>3, <2>4, <2>6, <1>2, TrackLaid
<1>10. IsFiniteSet(Added(PiecesOf(s, chain)))
  BY <1>8, AddedFinite
<1>11. IsFiniteSet(links') /\ \A e \in links' : Laid(e)
  BY <1>3, <1>9, <1>10, LinksGrow
<1> QED
  BY <1>1, <1>11 DEF Graph, Divided

LEMMA DrawViasKeepsGraph ==
    ASSUME NetAssumption, Junctions, Graph, DrawVias
    PROVE  Graph'
<1> DEFINE B == UNION {BarrelOf(v) : v \in net.vias}
<1>1. /\ net' = net /\ pads' = pads /\ splits' = splits /\ pc' = "attaching"
      /\ links' = links \cup Added(B)
  BY DEF DrawVias, pieces
<1>2. ASSUME NEW v \in net.vias, NEW e \in BarrelOf(v)
      PROVE  \E t \in AllTerms : e = LinkVia(Hub(v), t, v)
  <2>1. PICK l \in Span(v) : e = LinkVia(Hub(v), root[<<v, l>>], v)
    BY <1>2 DEF BarrelOf
  <2>2. v \in Vias /\ net \in Nets /\ root \in [Terms(net) -> Terms(net)] /\ Terms(net) \subseteq AllTerms
    BY TermsOfNet DEF Junctions, JunctionTypes
  <2>3. <<v, l>> \in Terms(net)
    BY <2>2 DEF Terms, AllTerms, Layers
  <2> QED
    BY <2>1, <2>2, <2>3
<1>3. \A e \in B : Laid(e)
  <2> SUFFICES ASSUME NEW v \in net.vias, NEW e \in BarrelOf(v) PROVE Laid(e)
    OBVIOUS
  <2>1. v \in Vias
    BY TermsOfNet DEF Junctions, JunctionTypes
  <2>2. PICK t \in AllTerms : e = LinkVia(Hub(v), t, v)
    BY <1>2
  <2>3. Laid(LinkVia(Hub(v), t, v))
    BY <2>1, BarrelLaid
  <2> QED
    BY <2>2, <2>3
<1>4. IsFiniteSet(B)
  <2> DEFINE D == net.vias \X AllTerms
             f == [d \in D |-> LinkVia(Hub(d[1]), d[2], d[1])]
             P == {f[d] : d \in D}
  <2>1. f \in Surjection(D, P)
    BY DEF Surjection
  <2>2. net.vias \subseteq Vias /\ IsFiniteSet(Vias)
    BY TermsOfNet DEF Junctions, JunctionTypes, NetAssumption
  <2>3. IsFiniteSet(net.vias)
    BY <2>2, FS_Subset
  <2>4. IsFiniteSet(D)
    BY <2>3, TermsFinite, FS_Product
  <2>5. B \subseteq P
    <3> HIDE DEF P
    <3> SUFFICES ASSUME NEW v \in net.vias, NEW e \in BarrelOf(v) PROVE e \in P
      OBVIOUS
    <3>1. PICK t \in AllTerms : e = LinkVia(Hub(v), t, v)
      BY <1>2
    <3>2. <<v, t>> \in D /\ f[<<v, t>>] = e
      BY <3>1
    <3> HIDE DEF f, D
    <3> QED
      BY <3>2 DEF P
  <2> HIDE DEF D, f, P, B
  <2>6. IsFiniteSet(P)
    BY <2>1, <2>4, FS_Surjection
  <2> QED
    BY <2>5, <2>6, FS_Subset
<1> HIDE DEF B
<1>5. IsFiniteSet(Added(B)) /\ Added(B) \subseteq B
  BY <1>4, AddedFinite
<1>6. IsFiniteSet(links') /\ \A e \in links' : Laid(e)
  BY <1>1, <1>3, <1>5, LinksGrow
<1> QED
  BY <1>1, <1>6 DEF Graph, Divided

LEMMA AttachKeepsGraph ==
    ASSUME NetAssumption, Junctions, Graph, Attach
    PROVE  Graph'
<1> DEFINE p == CHOOSE x \in pads : TRUE
           ends == {t \in Terms(net) : OnPad(t, p)}
           over == Closest({s \in net.tracks : Over(s, p)}, LAMBDA s : OverOff(s, p))
           L == {LinkPad(p, root[t], Entry(t, p)) : t \in ends}
           M(s) == {LinkTrack(root[Start(s)], Mid(p), s, OverAt(s, p)),
                    LinkTrack(Mid(p), root[End(s)], s, Length(s) - OverAt(s, p)),
                    LinkPad(p, Mid(p), OverOff(s, p))}
<1>1. /\ net' = net /\ splits' = splits /\ pc' = pc /\ pc = "attaching" /\ todo' = todo
      /\ pads # {} /\ pads' = pads \ {p}
      /\ \/ links' = links
         \/ links' = links \cup L
         \/ \E s \in over : links' = links \cup Added(M(s))
  BY DEF Attach, pieces
<1>2. p \in Pads /\ pads' \subseteq net.pads
  BY <1>1, TermsOfNet DEF Graph, Junctions, JunctionTypes
<1> HIDE DEF p
<1>3. /\ net \in Nets /\ root \in [Terms(net) -> Terms(net)] /\ Terms(net) \subseteq AllTerms
      /\ net.tracks \subseteq Tracks
      /\ \A s \in net.tracks : Start(s) \in Terms(net) /\ End(s) \in Terms(net)
  BY TermsOfNet DEF Junctions, JunctionTypes
<1>4. \A t \in AllTerms : t # PadNode(p) /\ t # Mid(p)
  <2> SUFFICES ASSUME NEW t \in AllTerms, t = PadNode(p) \/ t = Mid(p) PROVE FALSE
    OBVIOUS
  <2>1. t[1] = p
    BY DEF PadNode, Mid
  <2>2. t[1] \in Tracks \cup Vias
    BY DEF AllTerms
  <2> QED
    BY <1>2, <2>1, <2>2 DEF NetAssumption
<1>5. \A e \in L : Laid(e)
  <2> SUFFICES ASSUME NEW t \in ends PROVE Laid(LinkPad(p, root[t], Entry(t, p)))
    OBVIOUS
  <2>1. t \in Terms(net) /\ OnPad(t, p) /\ t \in AllTerms /\ root[t] \in AllTerms
    BY <1>3
  <2>2. Entry(t, p) \in Nat /\ root[t] \in PlainNodes /\ root[t] # PadNode(p)
    BY <2>1, <1>2, <1>4 DEF NetAssumption, PlainNodes
  <2> QED
    BY <2>2, <1>2, PadLaid
<1>6. IsFiniteSet(L)
  <2> DEFINE f == [t \in ends |-> LinkPad(p, root[t], Entry(t, p))]
  <2>1. f \in Surjection(ends, L)
    BY DEF Surjection
  <2>2. ends \subseteq AllTerms
    BY <1>3
  <2> HIDE DEF f, L, ends
  <2>3. IsFiniteSet(ends)
    BY <2>2, TermsFinite, FS_Subset
  <2> QED
    BY <2>1, <2>3, FS_Surjection
<1>7. ASSUME NEW s \in over
      PROVE  IsFiniteSet(Added(M(s))) /\ \A e \in Added(M(s)) : Laid(e)
  <2> DEFINE a == LinkTrack(root[Start(s)], Mid(p), s, OverAt(s, p))
             b == LinkTrack(Mid(p), root[End(s)], s, Length(s) - OverAt(s, p))
             c == LinkPad(p, Mid(p), OverOff(s, p))
  <2>1. s \in net.tracks /\ Over(s, p) /\ s \in Tracks
    BY <1>3 DEF Closest
  <2>2. OverAt(s, p) \in 0 .. Length(s) /\ OverOff(s, p) \in Nat /\ Length(s) \in Nat
    BY <2>1, <1>2 DEF NetAssumption
  <2>3. OverAt(s, p) \in Nat /\ Length(s) - OverAt(s, p) \in Nat
    BY <2>2
  <2>4. /\ root[Start(s)] \in AllTerms /\ root[End(s)] \in AllTerms
        /\ Mid(p) \in PlainNodes /\ Mid(p) # PadNode(p)
    BY <2>1, <1>2, <1>3 DEF Mid, PadNode, PlainNodes
  <2>5. root[Start(s)] \in PlainNodes /\ root[End(s)] \in PlainNodes
    BY <2>4 DEF PlainNodes
  <2>6. Laid(a)
    BY <2>1, <2>3, <2>4, <2>5, <1>4, TrackLaid
  <2>7. Laid(b)
    BY <2>1, <2>3, <2>4, <2>5, <1>4, TrackLaid
  <2>8. Laid(c)
    BY <2>2, <2>4, <1>2, PadLaid
  <2>9. M(s) = ({a} \cup {b}) \cup {c}
    OBVIOUS
  <2> HIDE DEF a, b, c, M
  <2>10. IsFiniteSet({a}) /\ IsFiniteSet({b})
    BY FS_Singleton
  <2>11. IsFiniteSet({a} \cup {b})
    BY <2>10, FS_Union
  <2>12. IsFiniteSet(({a} \cup {b}) \cup {c})
    BY <2>11, FS_AddElement
  <2>13. IsFiniteSet(M(s)) /\ \A e \in M(s) : Laid(e)
    BY <2>6, <2>7, <2>8, <2>9, <2>12
  <2> QED
    BY <2>13, AddedFinite
<1>8. IsFiniteSet(links') /\ \A e \in links' : Laid(e)
  <2> HIDE DEF L, M, over, ends
  <2>1. CASE links' = links
    BY <2>1 DEF Graph
  <2>2. CASE links' = links \cup L
    BY <2>2, <1>5, <1>6, LinksGrow
  <2>3. CASE \E s \in over : links' = links \cup Added(M(s))
    BY <2>3, <1>7, LinksGrow
  <2> QED
    BY <1>1, <2>1, <2>2, <2>3
<1> QED
  BY <1>1, <1>2, <1>8 DEF Graph, Divided

LEMMA StepKeepsGraph ==
    ASSUME NetAssumption, Junctions, Pieces, Graph, [Next]_vars
    PROVE  Graph'
<1>1. CASE Split
  BY <1>1, SplitKeepsGraph
<1>2. CASE DrawTrack
  BY <1>2, DrawTrackKeepsGraph
<1>3. CASE DrawVias
  BY <1>3, DrawViasKeepsGraph
<1>4. CASE Attach
  BY <1>4, AttachKeepsGraph
<1>5. CASE \/ Merge \/ Merged \/ Trace \/ Traced \/ SplitsDone \/ Attached
           \/ (\E p \in Pads : StartFrom(p)) \/ Pop \/ Record \/ Finish \/ UNCHANGED vars
  <2>1. /\ net' = net /\ splits' = splits /\ links' = links
        /\ pads' = pads \/ pads' = net.pads \/ pads' = pads \ {src}
        /\ pc' = "drawing" => todo' \subseteq net.tracks
    BY <1>5 DEF Merge, Merged, Trace, Traced, SplitsDone, Attached, StartFrom, Pop, Record, Finish,
       pieces, vars, Graph
  <2> QED
    BY <2>1 DEF Graph, Divided
<1> QED
  BY <1>1, <1>2, <1>3, <1>4, <1>5 DEF Next, BuildGraph

----------------------------------------------------------------------------
(* Routing: what dijkstraFrom keeps *)

Relaxed(n) ==
    \A e \in links : n \in e.ends =>
        \A m \in e.ends \ {n} : m \in DOMAIN best /\ best[m].dist <= best[n].dist + e.length

\* What is reached is reached by a way of that length, and has led on from
\* there or is still to do so.
Routing ==
    pc = "routing" =>
        /\ src \in pads /\ PadNode(src) \in DOMAIN best /\ DOMAIN best \subseteq Nodes
        /\ best[PadNode(src)].dist = 0
        /\ \A n \in DOMAIN best :
              /\ best[n].parts \in Parts /\ best[n].dist = Sum(best[n].parts)
              /\ <<n, best[n].dist>> \in Ways(links, PadNode(src))
        /\ heap \subseteq Distant
        /\ \A it \in heap : it[1] \in DOMAIN best /\ best[it[1]].dist <= it[2]
        /\ \A n \in DOMAIN best : <<n, best[n].dist>> \in heap \/ Relaxed(n)

\* n leads on to every node of M over one edge, the shortest there is.
LeadsOn(it, n, M, g) ==
    /\ \A m \in M : /\ m \in Nodes /\ m # n /\ g[m] \in links /\ g[m].ends = {n, m}
                    /\ m \in DOMAIN best => best[n].dist + g[m].length < best[m].dist
    /\ \A e \in links : n \in e.ends => \A m \in e.ends \ {n} :
          IF m \in M THEN g[m].length <= e.length
          ELSE m \in DOMAIN best /\ best[m].dist <= best[n].dist + e.length
    /\ best' = [m \in DOMAIN best \cup M |-> IF m \in M THEN Through(n, g[m]) ELSE best[m]]
    /\ heap' = (heap \ {it}) \cup {<<m, Through(n, g[m]).dist>> : m \in M}

LEMMA SumNat == ASSUME NEW p \in Parts PROVE Sum(p) \in Nat
  BY DEF Parts, Sum

LEMMA SumPlus ==
    ASSUME NEW p \in Parts, NEW q \in Parts
    PROVE  Plus(p, q) \in Parts /\ Sum(Plus(p, q)) = Sum(p) + Sum(q)
  BY DEF Parts, Sum, Plus

\* Of some edges one is the shortest.
LEMMA ClosestEdge ==
    ASSUME NEW E, E # {}, \A e \in E : e.length \in Nat
    PROVE  \E e \in E : e \in Closest(E, LAMBDA x : x.length)
<1> DEFINE L == {e.length : e \in E}
<1>1. L \subseteq Nat /\ L # {}
  OBVIOUS
<1> HIDE DEF L
<1>2. PICK x \in L : \A y \in L : <<y, x>> \notin OpToRel(<, Nat)
  BY <1>1, NatLessThanWellFounded, WFMin
<1>3. ASSUME NEW y \in L PROVE x <= y
  <2>1. x \in Nat /\ y \in Nat
    BY <1>1
  <2>2. ASSUME y < x PROVE <<y, x>> \in OpToRel(<, Nat)
    BY <2>1, <2>2 DEF OpToRel
  <2>3. ~(y < x)
    BY <1>2, <2>2
  <2> QED
    BY <2>1, <2>3
<1> USE DEF L
<1>4. PICK e \in E : e.length = x
  OBVIOUS
<1>5. \A f \in E : e.length <= f.length
  BY <1>3, <1>4
<1> QED
  BY <1>5 DEF Closest

\* An item taken from the heap is stale, or leads on over the shortest edges.
LEMMA PopIs ==
    ASSUME NetAssumption, Graph, Routing, Pop
    PROVE  \E it \in heap :
              /\ \A x \in heap : it[2] <= x[2]
              /\ \/ /\ it[2] > best[it[1]].dist
                    /\ heap' = heap \ {it} /\ best' = best
                 \/ /\ it[2] = best[it[1]].dist
                    /\ \E M, g : LeadsOn(it, it[1], M, g)
<1>1. pc = "routing"
  BY DEF Pop
<1> DEFINE edges(it) == Nearer(it[1], it[2])
           nearer(it) == {Beyond(it[1], e) : e \in edges(it)}
           by(it, m) == CHOOSE e \in Closest({e \in edges(it) : m \in e.ends}, LAMBDA e : e.length) : TRUE
<1>2. PICK it \in Closest(heap, LAMBDA x : x[2]) :
         IF it[2] > best[it[1]].dist
         THEN heap' = heap \ {it} /\ UNCHANGED best
         ELSE /\ best' = [m \in DOMAIN best \cup nearer(it) |->
                            IF m \in nearer(it) THEN Through(it[1], by(it, m)) ELSE best[m]]
              /\ heap' = (heap \ {it}) \cup {<<m, Through(it[1], by(it, m)).dist>> : m \in nearer(it)}
  BY DEF Pop
<1> DEFINE n == it[1]
           d == it[2]
           M == nearer(it)
           g == [m \in M |-> by(it, m)]
<1>3. it \in heap /\ \A x \in heap : it[2] <= x[2]
  BY <1>2 DEF Closest
<1>4. n \in DOMAIN best /\ n \in Nodes /\ d \in Nat /\ best[n].dist <= d
      /\ best[n].dist \in Nat
  BY <1>1, <1>3, SumNat DEF Routing, Distant
<1>5. CASE d > best[n].dist
  BY <1>2, <1>3, <1>5
<1>6. CASE ~(d > best[n].dist)
  <2>1. d = best[n].dist
    BY <1>4, <1>6
  <2>2. \A e \in links : IsEdge(e) /\ e.length \in Nat
    BY GraphIsGraph DEF IsGraph, IsEdge
  <2>3. \A e \in edges(it) : e \in links /\ n \in e.ends
    BY DEF Nearer
  <2>4. ASSUME NEW m \in M
        PROVE  /\ by(it, m) \in edges(it) /\ m \in by(it, m).ends
               /\ \A e \in edges(it) : m \in e.ends => by(it, m).length <= e.length
    <3> DEFINE C == {e \in edges(it) : m \in e.ends}
    <3>1. PICK e \in edges(it) : m = Beyond(n, e)
      OBVIOUS
    <3>2. m \in e.ends
      BY <3>1, <2>2, <2>3, OtherEnd DEF Beyond
    <3>3. C # {} /\ \A f \in C : f.length \in Nat
      BY <3>2, <2>2, <2>3
    <3>4. \E f \in C : f \in Closest(C, LAMBDA x : x.length)
      <4> HIDE DEF C
      <4> QED
        BY <3>3, ClosestEdge
    <3>5. by(it, m) \in Closest(C, LAMBDA x : x.length)
      BY <3>4
    <3> HIDE DEF by
    <3> QED
      BY <3>5 DEF Closest
  <2>5. ASSUME NEW m \in M
        PROVE  /\ m \in Nodes /\ m # n /\ by(it, m) \in links /\ by(it, m).ends = {n, m}
               /\ m \in DOMAIN best => best[n].dist + by(it, m).length < best[m].dist
    <3>1. PICK e \in edges(it) : m = Beyond(n, e)
      OBVIOUS
    <3>2. m # n
      BY <3>1, <2>2, <2>3, OtherEnd DEF Beyond
    <3> DEFINE f == by(it, m)
    <3>3. f \in edges(it) /\ m \in f.ends
      BY <2>4
    <3> HIDE DEF f, M
    <3>4. f \in links /\ n \in f.ends /\ IsEdge(f)
      BY <3>3, <2>2, <2>3
    <3>5. PICK a \in Nodes, b \in Nodes : a # b /\ f.ends = {a, b}
      BY <3>4 DEF IsEdge
    <3>6. m \in Nodes /\ f.ends = {n, m}
      BY <3>2, <3>3, <3>4, <3>5
    <3>7. m \notin DOMAIN best \/ d + f.length < best[m].dist
      BY <3>2, <3>3, <3>6 DEF Nearer
    <3> QED
      BY <3>2, <3>4, <3>6, <3>7, <2>1 DEF f
  <2>6. ASSUME NEW e \in links, n \in e.ends, NEW m \in e.ends \ {n}
        PROVE  IF m \in M THEN by(it, m).length <= e.length
               ELSE m \in DOMAIN best /\ best[m].dist <= best[n].dist + e.length
    <3>1. \A k \in e.ends \ {n} : k = m
      BY <2>2, <2>6, OtherEnd
    <3>2. m = Beyond(n, e)
      BY <2>2, <2>6, OtherEnd DEF Beyond
    <3>3. CASE e \in edges(it)
      <4>1. m \in M
        BY <3>2, <3>3
      <4> QED
        BY <4>1, <3>3, <2>4, <2>6
    <3>4. CASE e \notin edges(it)
      <4>1. m \in DOMAIN best /\ ~(d + e.length < best[m].dist)
        BY <3>1, <3>4, <2>6 DEF Nearer
      <4>2. best[m].dist \in Nat /\ e.length \in Nat
        BY <4>1, <1>1, <2>2, SumNat DEF Routing
      <4>3. best[m].dist <= best[n].dist + e.length
        BY <4>1, <4>2, <2>1, <1>4
      <4>4. CASE m \in M
        <5>1. best[n].dist + by(it, m).length < best[m].dist /\ by(it, m).length \in Nat
          BY <4>1, <4>4, <2>2, <2>5
        <5> HIDE DEF by, M
        <5>2. by(it, m).length <= e.length
          BY <5>1, <4>2, <4>3, <1>4
        <5> QED
          BY <4>4, <5>2
      <4> QED
        BY <4>1, <4>3, <4>4
    <3> QED
      BY <3>3, <3>4
  <2> HIDE DEF by
  <2>7. \A m \in M : g[m] = by(it, m)
    OBVIOUS
  <2>8. /\ best' = [m \in DOMAIN best \cup M |-> IF m \in M THEN Through(n, by(it, m)) ELSE best[m]]
        /\ heap' = (heap \ {it}) \cup {<<m, Through(n, by(it, m)).dist>> : m \in M}
    BY <1>2, <1>6
  <2> HIDE DEF M, g
  <2>9. /\ best' = [m \in DOMAIN best \cup M |-> IF m \in M THEN Through(n, g[m]) ELSE best[m]]
        /\ heap' = (heap \ {it}) \cup {<<m, Through(n, g[m]).dist>> : m \in M}
    BY <2>7, <2>8
  <2>10. /\ \A m \in M : /\ m \in Nodes /\ m # n /\ g[m] \in links /\ g[m].ends = {n, m}
                         /\ m \in DOMAIN best => best[n].dist + g[m].length < best[m].dist
         /\ \A e \in links : n \in e.ends => \A m \in e.ends \ {n} :
               IF m \in M THEN g[m].length <= e.length
               ELSE m \in DOMAIN best /\ best[m].dist <= best[n].dist + e.length
    BY <2>5, <2>6, <2>7
  <2>11. LeadsOn(it, n, M, g)
    BY <2>9, <2>10 DEF LeadsOn
  <2>12. \E M1, g1 : LeadsOn(it, it[1], M1, g1)
    BY <2>11
  <2> QED
    BY <1>3, <2>1, <2>12
<1> QED
  BY <1>5, <1>6

\* Leading on from a node relaxes it, and no other is less relaxed than before.
LEMMA LeadsOnKeepsRouting ==
    ASSUME NetAssumption, Graph, Routing, pc = "routing", UNCHANGED <<pc, src, pads, links>>,
           NEW it \in heap, it[2] = best[it[1]].dist, NEW M, NEW g, LeadsOn(it, it[1], M, g)
    PROVE  Routing'
<1> DEFINE n == it[1]
           d == it[2]
           W == Ways(links, PadNode(src))
<1>1. n \in DOMAIN best /\ n \in Nodes /\ d \in Nat /\ d = best[n].dist /\ it = <<n, d>>
  BY SumNat DEF Routing, Distant
<1>2. /\ src \in pads /\ PadNode(src) \in DOMAIN best /\ DOMAIN best \subseteq Nodes
      /\ best[PadNode(src)].dist = 0
      /\ \A k \in DOMAIN best :
            /\ best[k].parts \in Parts /\ best[k].dist = Sum(best[k].parts)
            /\ best[k].dist \in Nat /\ <<k, best[k].dist>> \in W
  BY SumNat DEF Routing
<1>3. \A e \in links : IsEdge(e) /\ e.length \in Nat /\ e.parts \in Parts /\ e.length = Sum(e.parts)
  BY GraphIsGraph DEF IsGraph, IsEdge, Graph, Laid
<1>4. Closed(links, W)
  <2>1. PadNode(src) \in Nodes
    BY <1>2
  <2> QED
    BY <2>1, GraphIsGraph, WaysClosed
<1> HIDE DEF W
<1>5. /\ \A m \in M : /\ m \in Nodes /\ m # n /\ g[m] \in links /\ g[m].ends = {n, m}
                      /\ m \in DOMAIN best => d + g[m].length < best[m].dist
      /\ \A e \in links : n \in e.ends => \A m \in e.ends \ {n} :
            IF m \in M THEN g[m].length <= e.length
            ELSE m \in DOMAIN best /\ best[m].dist <= d + e.length
      /\ best' = [m \in DOMAIN best \cup M |-> IF m \in M THEN Through(n, g[m]) ELSE best[m]]
      /\ heap' = (heap \ {it}) \cup {<<m, Through(n, g[m]).dist>> : m \in M}
  BY <1>1 DEF LeadsOn
<1>6. n \notin M /\ best'[n] = best[n] /\ DOMAIN best' = DOMAIN best \cup M
  BY <1>1, <1>5
<1>7. \A m \in M : best'[m] = Through(n, g[m]) /\ best'[m].dist = d + g[m].length
                   /\ best'[m].parts = Plus(best[n].parts, g[m].parts)
  BY <1>1, <1>5 DEF Through
<1>8. \A k \in DOMAIN best \ M : best'[k] = best[k]
  BY <1>5
<1>9. \A k \in DOMAIN best : best'[k].dist <= best[k].dist
  <2> TAKE k \in DOMAIN best
  <2>0. d \in Nat /\ best[k].dist \in Nat
    BY <1>1, <1>2
  <2> HIDE DEF d, n
  <2>1. CASE k \in M
    <3>1. best'[k].dist = d + g[k].length
      BY <2>1, <1>7
    <3>2. g[k] \in links /\ d + g[k].length < best[k].dist
      BY <2>1, <1>5
    <3>3. g[k].length \in Nat
      BY <3>2, <1>3
    <3> QED
      BY <3>1, <3>2, <3>3, <2>0
  <2>2. CASE k \notin M
    <3>1. best'[k] = best[k]
      BY <2>2, <1>8
    <3> QED
      BY <2>0, <3>1
  <2> QED
    BY <2>1, <2>2
<1>10. ASSUME NEW k \in DOMAIN best'
       PROVE  /\ best'[k].parts \in Parts /\ best'[k].dist = Sum(best'[k].parts)
              /\ best'[k].dist \in Nat /\ <<k, best'[k].dist>> \in W
  <2>1. CASE k \in M
    <3>1. g[k] \in links /\ g[k].ends = {n, k} /\ k # n
      BY <2>1, <1>5
    <3>2. g[k].parts \in Parts /\ g[k].length = Sum(g[k].parts) /\ g[k].length \in Nat
      BY <3>1, <1>3
    <3>3. <<k, d + g[k].length>> \in W
      <4>1. it \in W /\ it[1] \in g[k].ends /\ k \in g[k].ends \ {it[1]}
        BY <1>1, <1>2, <3>1
      <4>2. <<k, it[2] + g[k].length>> \in W
        BY <4>1, <3>1, <1>4 DEF Closed
      <4> QED
        BY <4>2
    <3>4. best[n].parts \in Parts /\ d = Sum(best[n].parts)
      BY <1>1, <1>2
    <3>5. Plus(best[n].parts, g[k].parts) \in Parts
          /\ Sum(Plus(best[n].parts, g[k].parts)) = Sum(best[n].parts) + Sum(g[k].parts)
      BY <3>2, <3>4, SumPlus
    <3>6. d + g[k].length \in Nat
      BY <3>2, <1>1
    <3> QED
      BY <2>1, <1>7, <3>2, <3>3, <3>4, <3>5, <3>6
  <2>2. CASE k \notin M
    BY <2>2, <1>2, <1>6, <1>8
  <2> QED
    BY <2>1, <2>2
<1>11. PadNode(src) \in DOMAIN best' /\ DOMAIN best' \subseteq Nodes /\ best'[PadNode(src)].dist = 0
  <2>1. PadNode(src) \in DOMAIN best' /\ DOMAIN best' \subseteq Nodes
    BY <1>2, <1>5, <1>6
  <2>2. best'[PadNode(src)].dist <= 0 /\ best'[PadNode(src)].dist \in Nat
    BY <1>2, <1>9, <1>10, <2>1
  <2> QED
    BY <2>1, <2>2
<1>12. ASSUME NEW x \in heap'
       PROVE  x \in Distant /\ x[1] \in DOMAIN best' /\ best'[x[1]].dist <= x[2]
  <2>1. CASE x \in heap
    <3>1. x \in Distant /\ x[1] \in DOMAIN best /\ best[x[1]].dist <= x[2]
      BY <2>1 DEF Routing
    <3>2. best'[x[1]].dist <= best[x[1]].dist /\ x[1] \in DOMAIN best'
      BY <3>1, <1>6, <1>9
    <3>3. best'[x[1]].dist \in Nat /\ best[x[1]].dist \in Nat /\ x[2] \in Nat
      BY <3>1, <3>2, <1>2, <1>10 DEF Distant
    <3> QED
      BY <3>1, <3>2, <3>3
  <2>2. CASE x \notin heap
    <3>1. PICK m \in M : x = <<m, Through(n, g[m]).dist>>
      BY <2>2, <1>5
    <3>2. x[1] = m /\ x[2] = best'[m].dist /\ m \in DOMAIN best' /\ m \in Nodes
      BY <3>1, <1>5, <1>6, <1>7
    <3>3. best'[m].dist \in Nat
      BY <3>2, <1>10
    <3> QED
      BY <3>1, <3>2, <3>3 DEF Distant
  <2> QED
    BY <2>1, <2>2
<1>13. ASSUME NEW k \in DOMAIN best'
       PROVE  <<k, best'[k].dist>> \in heap' \/ Relaxed(k)'
  <2>1. CASE k \in M
    <3>1. <<k, best'[k].dist>> \in heap'
      BY <2>1, <1>5, <1>7
    <3> QED
      BY <3>1
  <2>2. CASE k = n
    <3> SUFFICES ASSUME NEW e \in links, n \in e.ends, NEW m \in e.ends \ {n}
                 PROVE  m \in DOMAIN best' /\ best'[m].dist <= best'[n].dist + e.length
      BY <2>2 DEF Relaxed
    <3>1. e.length \in Nat /\ best'[n].dist = d
      BY <1>1, <1>3, <1>6
    <3>2. CASE m \in M
      <4>1. g[m].length <= e.length /\ g[m].length \in Nat
        BY <3>2, <1>3, <1>5
      <4> QED
        BY <3>1, <3>2, <4>1, <1>1, <1>6, <1>7
    <3>3. CASE m \notin M
      <4>1. m \in DOMAIN best /\ best[m].dist <= d + e.length
        BY <3>3, <1>5
      <4> QED
        BY <4>1, <3>1, <3>3, <1>6, <1>8
    <3> QED
      BY <3>2, <3>3
  <2>3. CASE k \notin M /\ k # n
    <3>1. k \in DOMAIN best /\ best'[k] = best[k]
      BY <2>3, <1>6, <1>8
    <3>2. CASE <<k, best[k].dist>> \in heap
      <4>1. <<k, best[k].dist>> # it
        BY <2>3, <1>1
      <4> QED
        BY <3>1, <3>2, <4>1, <1>5
    <3>3. CASE Relaxed(k)
      <4> SUFFICES ASSUME NEW e \in links, k \in e.ends, NEW m \in e.ends \ {k}
                   PROVE  m \in DOMAIN best' /\ best'[m].dist <= best'[k].dist + e.length
        BY DEF Relaxed
      <4>1. m \in DOMAIN best /\ best[m].dist <= best[k].dist + e.length
        BY <3>3 DEF Relaxed
      <4>2. best'[m].dist <= best[m].dist /\ m \in DOMAIN best'
        BY <4>1, <1>6, <1>9
      <4>3. best'[m].dist \in Nat /\ best[m].dist \in Nat /\ best[k].dist \in Nat /\ e.length \in Nat
        BY <4>1, <4>2, <3>1, <1>2, <1>3, <1>10
      <4> QED
        BY <4>1, <4>2, <4>3, <3>1
    <3> QED
      BY <3>1, <3>2, <3>3 DEF Routing
  <2> QED
    BY <2>1, <2>2, <2>3
<1>14. src' = src /\ pads' = pads /\ links' = links /\ Ways(links, PadNode(src))' = W
  BY DEF W
<1> QED
  BY <1>2, <1>10, <1>11, <1>12, <1>13, <1>14 DEF Routing, W

\* What the route to q says of the ways from p.
Known(p, q, r) ==
    IF r.found
    THEN /\ Nearest(links, PadNode(p), PadNode(q), r.length)
         /\ r.length \in Nat /\ r.length = Sum(r.parts)
    ELSE \A w \in Ways(links, PadNode(p)) : w[1] # PadNode(q)

Recorded ==
    pc \in {"choosing", "routing", "done"} =>
        /\ pc = "done" => pads = {}
        /\ \A p \in net.pads : \A q \in net.pads \ {p} :
              \/ p \in pads /\ q \in pads
              \/ {p, q} \in DOMAIN paths /\ Known(p, q, paths[{p, q}])

\* With nothing left on the heap every distance is the shortest.
LEMMA RoutedExact ==
    ASSUME NetAssumption, Graph, Routing, pc = "routing", heap = {}
    PROVE  /\ \A n \in DOMAIN best : Nearest(links, PadNode(src), n, best[n].dist)
           /\ \A w \in Ways(links, PadNode(src)) : w[1] \in DOMAIN best
<1> DEFINE S == {w \in Distant : w[1] \in DOMAIN best /\ best[w[1]].dist <= w[2]}
<1>1. /\ PadNode(src) \in DOMAIN best /\ PadNode(src) \in Nodes /\ best[PadNode(src)].dist = 0
      /\ \A n \in DOMAIN best : best[n].dist \in Nat /\ Relaxed(n)
                                /\ <<n, best[n].dist>> \in Ways(links, PadNode(src))
  BY SumNat DEF Routing
<1>2. IsGraph(links)
  BY GraphIsGraph
<1>3. <<PadNode(src), 0>> \in S
  BY <1>1 DEF Distant
<1>4. Closed(links, S)
  <2> SUFFICES ASSUME NEW w \in S, NEW e \in links, w[1] \in e.ends, NEW m \in e.ends \ {w[1]}
               PROVE  <<m, w[2] + e.length>> \in S
    BY DEF Closed
  <2>1. w \in Distant /\ w[1] \in DOMAIN best /\ best[w[1]].dist <= w[2] /\ w[2] \in Nat
    BY DEF Distant
  <2>2. IsEdge(e) /\ e.length \in Nat
    BY <1>2 DEF IsGraph, IsEdge
  <2>3. m \in DOMAIN best /\ best[m].dist <= best[w[1]].dist + e.length
    BY <1>1, <2>1 DEF Relaxed
  <2>4. best[m].dist \in Nat /\ best[w[1]].dist \in Nat
    BY <1>1, <2>1, <2>3
  <2>5. best[m].dist <= w[2] + e.length
    BY <2>1, <2>2, <2>3, <2>4
  <2>6. <<m, w[2] + e.length>> \in Distant
    BY <2>1, <2>2, WayOn
  <2> QED
    BY <2>3, <2>5, <2>6
<1>5. Ways(links, PadNode(src)) \subseteq S
  <2>1. S \subseteq Distant
    OBVIOUS
  <2> HIDE DEF S
  <2> QED
    BY <1>3, <1>4, <2>1, WaysLeast
<1> QED
  BY <1>1, <1>5 DEF Nearest

\* A route is known from either of its ends.
LEMMA KnownBack ==
    ASSUME NetAssumption, Graph, NEW p \in Pads, NEW q \in Pads, NEW r, Known(p, q, r)
    PROVE  Known(q, p, r)
<1>1. IsGraph(links) /\ PadNode(p) \in Nodes /\ PadNode(q) \in Nodes
  BY GraphIsGraph DEF PadNode, Nodes
<1>2. CASE r.found
  BY <1>1, <1>2, NearestBack DEF Known
<1>3. CASE ~r.found
  <2> SUFFICES ASSUME NEW w \in Ways(links, PadNode(q)), w[1] = PadNode(p) PROVE FALSE
    BY <1>3 DEF Known
  <2>1. <<PadNode(q), w[2]>> \in Ways(links, PadNode(p))
    BY <1>1, WaysBack
  <2> QED
    BY <1>3, <2>1 DEF Known
<1> QED
  BY <1>2, <1>3

LEMMA PadsOfNet ==
    ASSUME NetAssumption, Junctions
    PROVE  net.pads \subseteq Pads /\ net.pads # {}
  BY DEF NetAssumption, Junctions, JunctionTypes

LEMMA PopKeepsRouting ==
    ASSUME NetAssumption, Graph, Routing, Pop
    PROVE  Routing'
<1>1. pc = "routing" /\ UNCHANGED <<pc, src, pads, links>>
  BY DEF Pop
<1>2. PICK it \in heap :
        \/ /\ it[2] > best[it[1]].dist
           /\ heap' = heap \ {it} /\ best' = best
        \/ /\ it[2] = best[it[1]].dist
           /\ \E M, g : LeadsOn(it, it[1], M, g)
  BY PopIs
<1>3. CASE \E M, g : it[2] = best[it[1]].dist /\ LeadsOn(it, it[1], M, g)
  BY <1>1, <1>3, LeadsOnKeepsRouting
<1>4. CASE it[2] > best[it[1]].dist /\ heap' = heap \ {it} /\ best' = best
  <2>1. it[1] \in DOMAIN best /\ it[2] # best[it[1]].dist
    <3>1. it[1] \in DOMAIN best /\ it[2] \in Nat /\ best[it[1]].dist \in Nat
      BY <1>1, SumNat DEF Routing, Distant
    <3> QED
      BY <3>1, <1>4
  <2>2. ASSUME NEW n \in DOMAIN best PROVE <<n, best[n].dist>> \in heap' \/ Relaxed(n)'
    <3>1. <<n, best[n].dist>> # it
      BY <2>1
    <3>2. Relaxed(n) => Relaxed(n)'
      BY <1>1, <1>4 DEF Relaxed
    <3> QED
      BY <1>1, <1>4, <3>1, <3>2 DEF Routing
  <2>3. src' = src /\ pads' = pads /\ Ways(links, PadNode(src))' = Ways(links, PadNode(src))
    BY <1>1 DEF PadNode
  <2> QED
    BY <1>1, <1>4, <2>2, <2>3 DEF Routing
<1> QED
  BY <1>2, <1>3, <1>4

LEMMA StartKeepsRouting ==
    ASSUME NetAssumption, Junctions, Graph, NEW p \in Pads, StartFrom(p)
    PROVE  Routing'
<1> DEFINE S == PadNode(p)
<1>1. S \in Nodes /\ IsGraph(links)
  BY GraphIsGraph DEF PadNode, Nodes
<1>2. src' = p /\ links' = links /\ p \in pads' /\ pc' = "routing"
      /\ heap' = {<<S, 0>>} /\ DOMAIN best' = {S}
      /\ best'[S].dist = 0 /\ best'[S].parts = NoParts
  BY DEF StartFrom
<1>3. NoParts \in Parts /\ Sum(NoParts) = 0
  BY DEF NoParts, Parts, Sum
<1>4. <<S, 0>> \in Ways(links, S) /\ <<S, 0>> \in Distant
  BY <1>1, WaysClosed DEF Distant
<1>5. Ways(links, PadNode(src))' = Ways(links, S)
  BY <1>2 DEF PadNode
<1>6. PadNode(src)' = S
  BY <1>2 DEF PadNode
<1> HIDE DEF S
<1> QED
  BY <1>1, <1>2, <1>3, <1>4, <1>5, <1>6 DEF Routing

LEMMA StepKeepsRouting ==
    ASSUME NetAssumption, Junctions, Graph, Routing, [Next]_vars
    PROVE  Routing'
<1>1. CASE Pop
  BY <1>1, PopKeepsRouting
<1>2. CASE \E p \in Pads : StartFrom(p)
  BY <1>2, StartKeepsRouting
<1>3. CASE BuildGraph \/ Record \/ Finish
  <2>1. pc' # "routing"
    BY <1>3 DEF BuildGraph, Merge, Merged, Trace, Traced, Split, SplitsDone, DrawTrack, DrawVias,
       Attach, Attached, Record, Finish
  <2> QED
    BY <2>1 DEF Routing
<1>4. CASE UNCHANGED vars
  <2>1. UNCHANGED <<pc, src, pads, links, best, heap>>
    BY <1>4 DEF vars, routes
  <2>2. \A n : Relaxed(n)' <=> Relaxed(n)
    BY <2>1 DEF Relaxed
  <2>3. Ways(links, PadNode(src))' = Ways(links, PadNode(src)) /\ PadNode(src)' = PadNode(src)
    BY <2>1 DEF PadNode
  <2> QED
    BY <2>1, <2>2, <2>3 DEF Routing
<1> QED
  BY <1>1, <1>2, <1>3, <1>4 DEF Next

\* The route to a pad, once the heap is empty.
LEMMA PathToKnown ==
    ASSUME NetAssumption, Graph, Routing, pc = "routing", heap = {}, NEW q
    PROVE  Known(src, q, PathTo(q))
<1>1. CASE PadNode(q) \in DOMAIN best
  <2>1. PathTo(q).found /\ PathTo(q).length = best[PadNode(q)].dist
        /\ PathTo(q).parts = best[PadNode(q)].parts
    BY <1>1 DEF PathTo
  <2>2. Nearest(links, PadNode(src), PadNode(q), best[PadNode(q)].dist)
    BY <1>1, RoutedExact
  <2>3. best[PadNode(q)].dist \in Nat /\ best[PadNode(q)].dist = Sum(best[PadNode(q)].parts)
    BY <1>1, SumNat DEF Routing
  <2> QED
    BY <2>1, <2>2, <2>3 DEF Known
<1>2. CASE PadNode(q) \notin DOMAIN best
  <2>1. ~PathTo(q).found
    BY <1>2 DEF PathTo, NoPath
  <2> QED
    BY <1>2, <2>1, RoutedExact DEF Known
<1> QED
  BY <1>1, <1>2

\* What Record writes for a pad still to be routed from.
LEMMA RecordIs ==
    ASSUME NEW q \in pads \ {src}, Record
    PROVE  {src, q} \in DOMAIN paths' /\ paths'[{src, q}] = PathTo(q)
<1>1. (CHOOSE x \in {src, q} : x # src) = q
  OBVIOUS
<1> DEFINE P(x) == PathTo(x)
           of(k) == P(CHOOSE x \in k : x # src)
           keys == {{src, x} : x \in pads \ {src}}
<1>2. paths' = [k \in DOMAIN paths \cup keys |-> IF k \in keys THEN of(k) ELSE paths[k]]
  BY DEF Record
<1>3. {src, q} \in keys
  OBVIOUS
<1>4. of({src, q}) = P(q)
  BY <1>1
<1> HIDE DEF of, keys, P
<1>5. {src, q} \in DOMAIN paths' /\ paths'[{src, q}] = P(q)
  BY <1>2, <1>3, <1>4
<1> QED
  BY <1>5 DEF P

\* What Record leaves as it was.
LEMMA RecordLeaves ==
    ASSUME NEW k \in DOMAIN paths, Record, \A q \in pads \ {src} : k # {src, q}
    PROVE  k \in DOMAIN paths' /\ paths'[k] = paths[k]
<1> DEFINE of(j) == PathTo(CHOOSE x \in j : x # src)
           keys == {{src, x} : x \in pads \ {src}}
<1>1. paths' = [j \in DOMAIN paths \cup keys |-> IF j \in keys THEN of(j) ELSE paths[j]]
  BY DEF Record
<1>2. k \notin keys
  OBVIOUS
<1> HIDE DEF of, keys
<1> QED
  BY <1>1, <1>2

LEMMA RecordKeepsRecorded ==
    ASSUME NetAssumption, Junctions, Graph, Routing, Recorded, Record
    PROVE  Recorded'
<1>1. pc = "routing" /\ heap = {} /\ pc' = "choosing" /\ pads' = pads \ {src}
      /\ links' = links /\ net' = net
  BY DEF Record, junctions, pieces
<1>2. src \in pads /\ pads \subseteq net.pads /\ net.pads \subseteq Pads
  BY <1>1, PadsOfNet DEF Routing, Graph
<1>3. ASSUME NEW p \in net.pads, NEW q \in net.pads \ {p}
      PROVE  \/ p \in pads' /\ q \in pads'
             \/ {p, q} \in DOMAIN paths' /\ Known(p, q, paths'[{p, q}])
  <2>1. CASE p = src /\ q \in pads
    <3>1. {p, q} \in DOMAIN paths' /\ paths'[{p, q}] = PathTo(q)
      BY <2>1, RecordIs
    <3>2. Known(p, q, PathTo(q))
      BY <2>1, <1>1, PathToKnown
    <3> QED
      BY <3>1, <3>2
  <2>2. CASE q = src /\ p \in pads
    <3>1. {p, q} = {src, p}
      BY <2>2
    <3>2. {src, p} \in DOMAIN paths' /\ paths'[{src, p}] = PathTo(p)
      BY <2>2, RecordIs
    <3>3. Known(q, p, PathTo(p))
      BY <2>2, <1>1, PathToKnown
    <3>4. Known(p, q, PathTo(p))
      BY <3>3, <1>2, KnownBack
    <3> QED
      BY <3>1, <3>2, <3>4
  <2>3. CASE p # src /\ q # src /\ p \in pads /\ q \in pads
    BY <2>3, <1>1
  <2>4. CASE ~(p \in pads /\ q \in pads)
    <3>1. {p, q} \in DOMAIN paths /\ Known(p, q, paths[{p, q}])
      BY <2>4, <1>1 DEF Recorded
    <3>2. \A x \in pads \ {src} : {p, q} # {src, x}
      BY <2>4, <1>2
    <3> QED
      BY <3>1, <3>2, RecordLeaves
  <2> QED
    BY <2>1, <2>2, <2>3, <2>4
<1>4. \A p, q : Known(p, q, paths[{p, q}])' <=> Known(p, q, paths'[{p, q}])
  BY <1>1 DEF Known
<1> QED
  BY <1>1, <1>3, <1>4 DEF Recorded

LEMMA StepKeepsRecorded ==
    ASSUME NetAssumption, Junctions, Graph, Routing, Recorded, [Next]_vars
    PROVE  Recorded'
<1>1. CASE Record
  BY <1>1, RecordKeepsRecorded
<1>2. CASE Attached
  BY <1>2 DEF Attached, Recorded, junctions, pieces
<1>3. CASE \/ Merge \/ Merged \/ Trace \/ Traced \/ Split \/ SplitsDone
           \/ DrawTrack \/ DrawVias \/ Attach
  <2>1. pc' \notin {"choosing", "routing", "done"}
    BY <1>3 DEF Merge, Merged, Trace, Traced, Split, SplitsDone, DrawTrack, DrawVias, Attach
  <2> QED
    BY <2>1 DEF Recorded
<1>4. CASE (\E p \in Pads : StartFrom(p)) \/ Pop \/ Finish \/ UNCHANGED vars
  <2>1. net' = net /\ links' = links /\ paths' = paths /\ pads' = pads
    BY <1>4 DEF StartFrom, Pop, Finish, vars, measure, routes
  <2>2. pc \in {"choosing", "routing", "done"} \/ pc' \notin {"choosing", "routing", "done"}
    BY <1>4 DEF StartFrom, Pop, Finish, vars
  <2>3. \A p, q : Known(p, q, paths[{p, q}])' <=> Known(p, q, paths[{p, q}])
    BY <2>1 DEF Known
  <2>4. (pc' = "done") => pads' = {}
    BY <1>4 DEF StartFrom, Pop, Finish, vars, Recorded
  <2> QED
    BY <2>1, <2>2, <2>3, <2>4 DEF Recorded
<1> QED
  BY <1>1, <1>2, <1>3, <1>4 DEF Next, BuildGraph

\* What is known of a route is what the reference says of it.
LEMMA ShortestFromKnown ==
    ASSUME NetAssumption, Graph, NEW p \in Pads, NEW q \in Pads, Known(p, q, paths[{p, q}])
    PROVE  Shortest(p, q)
<1> DEFINE r == paths[{p, q}]
<1>1. IsGraph(links) /\ PadNode(p) \in Nodes /\ PadNode(q) \in Nodes
  BY GraphIsGraph DEF PadNode, Nodes
<1>2. CASE r.found
  <2>1. <<PadNode(q), r.length>> \in Distances(links, PadNode(p)) /\ r.length = Sum(r.parts)
    BY <1>1, <1>2, NearestFound DEF Known
  <2> QED
    BY <1>2, <2>1 DEF Shortest
<1>3. CASE ~r.found
  BY <1>1, <1>3, DistancesAreWays DEF Known, Shortest
<1> QED
  BY <1>2, <1>3

----------------------------------------------------------------------------
(* Barrels: a sum over a finite set, whatever the order *)

Pick(s) == CHOOSE x \in s : TRUE

Barrel(v) == 2 * HalfBarrel(v)

IsSumAt(g, s) == g[s] = IF s = {} THEN 0 ELSE Barrel(Pick(s)) + g[s \ {Pick(s)}]

IsSum(g, S) == DOMAIN g = SUBSET S /\ \A s \in SUBSET S : IsSumAt(g, s)

LEMMA Smaller ==
    ASSUME NEW s, IsFiniteSet(s), s # {}
    PROVE  /\ Pick(s) \in s /\ IsFiniteSet(s \ {Pick(s)})
           /\ Cardinality(s) \in Nat /\ Cardinality(s \ {Pick(s)}) = Cardinality(s) - 1
<1>1. Pick(s) \in s
  BY DEF Pick
<1> QED
  BY <1>1, FS_RemoveElement, FS_CardinalityType

\* A sum over every subset, one member taken away at a time.
LEMMA SumsExist ==
    ASSUME NetAssumption, NEW S \in SUBSET Vias
    PROVE  \E g \in [SUBSET S -> Nat] : IsSum(g, S)
<1> DEFINE UpTo(k) == {s \in SUBSET S : Cardinality(s) <= k}
           P(k) == \E g \in [UpTo(k) -> Nat] : \A s \in UpTo(k) : IsSumAt(g, s)
           K == {k \in Nat : P(k)}
<1>1. IsFiniteSet(S) /\ \A s \in SUBSET S : IsFiniteSet(s)
  BY FS_Subset DEF NetAssumption
<1>2. \A s \in SUBSET S : Cardinality(s) \in Nat
  BY <1>1, FS_CardinalityType
<1>3. \A v \in S : Barrel(v) \in Nat
  BY DEF NetAssumption, Barrel
<1>4. P(0)
  <2> DEFINE g == [s \in UpTo(0) |-> 0]
  <2>1. \A s \in UpTo(0) : s = {}
    BY <1>1, <1>2, FS_EmptySet
  <2>2. g \in [UpTo(0) -> Nat]
    OBVIOUS
  <2>3. \A s \in UpTo(0) : IsSumAt(g, s)
    BY <2>1 DEF IsSumAt
  <2> QED
    BY <2>2, <2>3
<1>5. ASSUME NEW k \in Nat, P(k) PROVE P(k + 1)
  <2>1. PICK g \in [UpTo(k) -> Nat] : \A s \in UpTo(k) : IsSumAt(g, s)
    BY <1>5
  <2> DEFINE h == [s \in UpTo(k + 1) |-> IF s = {} THEN 0 ELSE Barrel(Pick(s)) + g[s \ {Pick(s)}]]
  <2>2. ASSUME NEW s \in UpTo(k + 1), s # {}
        PROVE  s \ {Pick(s)} \in UpTo(k) /\ s \ {Pick(s)} \in UpTo(k + 1) /\ Pick(s) \in S
    <3>1. Pick(s) \in s /\ Cardinality(s \ {Pick(s)}) = Cardinality(s) - 1 /\ Cardinality(s) \in Nat
      BY <1>1, <2>2, Smaller
    <3> QED
      BY <3>1
  <2>3. \A s \in UpTo(k) : s \in UpTo(k + 1)
    BY <1>2
  <2>4. \A s \in UpTo(k) : h[s] = g[s]
    BY <2>1, <2>3 DEF IsSumAt
  <2>5. h \in [UpTo(k + 1) -> Nat]
    <3> SUFFICES ASSUME NEW s \in UpTo(k + 1) PROVE h[s] \in Nat
      OBVIOUS
    <3>1. CASE s = {}
      BY <3>1
    <3>2. CASE s # {}
      <4>1. g[s \ {Pick(s)}] \in Nat /\ Barrel(Pick(s)) \in Nat
        BY <1>3, <2>2, <3>2
      <4> QED
        BY <3>2, <4>1
    <3> QED
      BY <3>1, <3>2
  <2>6. \A s \in UpTo(k + 1) : IsSumAt(h, s)
    BY <2>2, <2>4 DEF IsSumAt
  <2> QED
    BY <2>5, <2>6
<1>6. Nat \subseteq K
  <2> HIDE DEF P
  <2>1. K \subseteq Nat /\ 0 \in K /\ \A k \in K : k + 1 \in K
    BY <1>4, <1>5
  <2> HIDE DEF K
  <2> QED
    BY <2>1, Counting
<1>7. P(Cardinality(S))
  BY <1>2, <1>6
<1>8. UpTo(Cardinality(S)) = SUBSET S
  <2>1. \A s \in SUBSET S : Cardinality(s) <= Cardinality(S)
    BY <1>1, FS_Subset
  <2> QED
    BY <2>1
<1> QED
  BY <1>7, <1>8 DEF IsSum

\* Two sums over the same set agree wherever both are given.
LEMMA SumsAgree ==
    ASSUME NetAssumption, NEW S \in SUBSET Vias, NEW T \in SUBSET S, NEW g, NEW h,
           IsSum(g, S), IsSum(h, T)
    PROVE  \A s \in SUBSET T : g[s] = h[s]
<1> DEFINE K == {k \in Nat : \A s \in SUBSET T : Cardinality(s) = k => g[s] = h[s]}
<1>1. \A s \in SUBSET T : s \in SUBSET S /\ IsFiniteSet(s) /\ Cardinality(s) \in Nat
  BY FS_Subset, FS_CardinalityType DEF NetAssumption
<1>2. 0 \in K
  <2>1. ASSUME NEW s \in SUBSET T, Cardinality(s) = 0 PROVE g[s] = h[s]
    <3>1. s = {}
      BY <1>1, <2>1, FS_EmptySet
    <3>2. {} \in SUBSET S /\ {} \in SUBSET T
      OBVIOUS
    <3>3. IsSumAt(g, {}) /\ IsSumAt(h, {})
      BY <3>2 DEF IsSum
    <3> QED
      BY <3>1, <3>3 DEF IsSumAt
  <2> QED
    BY <2>1
<1>3. ASSUME NEW k \in K PROVE k + 1 \in K
  <2> SUFFICES ASSUME NEW s \in SUBSET T, Cardinality(s) = k + 1 PROVE g[s] = h[s]
    OBVIOUS
  <2>1. s # {}
    <3>1. k \in Nat /\ k + 1 # 0
      OBVIOUS
    <3> HIDE DEF K
    <3> QED
      BY <3>1, FS_EmptySet
  <2>2. s \ {Pick(s)} \in SUBSET T /\ Cardinality(s \ {Pick(s)}) = k
    BY <1>1, <2>1, Smaller
  <2>3. g[s \ {Pick(s)}] = h[s \ {Pick(s)}]
    BY <2>2
  <2>4. IsSumAt(g, s) /\ IsSumAt(h, s)
    BY <1>1 DEF IsSum
  <2> QED
    BY <2>1, <2>3, <2>4 DEF IsSumAt
<1>4. Nat \subseteq K
  <2>1. K \subseteq Nat
    OBVIOUS
  <2> HIDE DEF K
  <2> QED
    BY <1>2, <1>3, <2>1, Counting
<1> QED
  BY <1>1, <1>4

\* Barrels is that sum.
LEMMA BarrelsIs ==
    ASSUME NetAssumption, NEW S \in SUBSET Vias, NEW g \in [SUBSET S -> Nat], IsSum(g, S)
    PROVE  Barrels(S) = g[S]
<1> DEFINE Sums(i) == i = [s \in SUBSET S |->
                             IF s = {} THEN 0
                             ELSE LET x == CHOOSE x \in s : TRUE
                                  IN  2 * HalfBarrel(x) + i[s \ {x}]]
           iter == CHOOSE i : Sums(i)
<1>1. Barrels(S) = iter[S]
  BY DEF Barrels, MapThenSumSet, MapThenFoldSet
<1>2. Sums(g)
  <2>1. \A s \in SUBSET S : g[s] = IF s = {} THEN 0
                             ELSE LET x == CHOOSE x \in s : TRUE
                                  IN  2 * HalfBarrel(x) + g[s \ {x}]
    BY DEF IsSum, IsSumAt, Barrel, Pick
  <2> QED
    BY <2>1
<1>3. Sums(iter)
  <2> HIDE DEF Sums
  <2> QED
    BY <1>2
<1>4. IsSum(iter, S)
  <2> HIDE DEF iter
  <2>1. DOMAIN iter = SUBSET S
    BY <1>3
  <2>2. \A s \in SUBSET S : IsSumAt(iter, s)
    BY <1>3 DEF IsSumAt, Barrel, Pick
  <2> QED
    BY <2>1, <2>2 DEF IsSum
<1> HIDE DEF iter
<1> QED
  BY <1>1, <1>4, SumsAgree

LEMMA BarrelsNone == ASSUME NetAssumption PROVE Barrels({}) = 0
<1>1. {} \in SUBSET Vias
  OBVIOUS
<1>2. PICK g \in [SUBSET {} -> Nat] : IsSum(g, {})
  BY <1>1, SumsExist
<1>3. Barrels({}) = g[{}]
  BY <1>1, <1>2, BarrelsIs
<1>4. IsSumAt(g, {})
  BY <1>2 DEF IsSum
<1> QED
  BY <1>3, <1>4 DEF IsSumAt

AddsOne(g, A, b) == g[A \cup {b}] = g[A] + Barrel(b)

\* The member taken away first does not matter.
LEMMA SumsPlus ==
    ASSUME NetAssumption, NEW U \in SUBSET Vias, NEW g \in [SUBSET U -> Nat], IsSum(g, U),
           NEW A \in SUBSET U, NEW b \in U \ A
    PROVE  AddsOne(g, A, b)
<1> DEFINE K == {k \in Nat : \A T \in SUBSET U : \A y \in U \ T :
                    Cardinality(T) = k => g[T \cup {y}] = g[T] + Barrel(y)}
<1>1. \A T \in SUBSET U : IsFiniteSet(T) /\ Cardinality(T) \in Nat
  BY FS_Subset, FS_CardinalityType DEF NetAssumption
<1>2. \A x \in U : Barrel(x) \in Nat
  BY DEF NetAssumption, Barrel
<1>3. \A T \in SUBSET U : g[T] \in Nat /\ IsSumAt(g, T)
  BY DEF IsSum
<1>4. ASSUME NEW T \in SUBSET U, NEW y \in U \ T, Pick(T \cup {y}) = y
      PROVE  g[T \cup {y}] = g[T] + Barrel(y)
  <2>1. (T \cup {y}) \ {y} = T /\ T \cup {y} # {} /\ T \cup {y} \in SUBSET U
    OBVIOUS
  <2>2. IsSumAt(g, T \cup {y})
    BY <1>3, <2>1
  <2>3. g[T \cup {y}] = Barrel(y) + g[T]
    BY <1>4, <2>1, <2>2 DEF IsSumAt
  <2> QED
    BY <2>3, <1>2, <1>3
<1>5. 0 \in K
  <2> SUFFICES ASSUME NEW T \in SUBSET U, NEW y \in U \ T, Cardinality(T) = 0
               PROVE  g[T \cup {y}] = g[T] + Barrel(y)
    OBVIOUS
  <2>1. T = {}
    BY <1>1, FS_EmptySet
  <2>2. Pick(T \cup {y}) \in T \cup {y}
    BY DEF Pick
  <2> QED
    BY <2>1, <2>2, <1>4
<1>6. ASSUME NEW k \in K PROVE k + 1 \in K
  <2> SUFFICES ASSUME NEW T \in SUBSET U, NEW y \in U \ T, Cardinality(T) = k + 1
               PROVE  g[T \cup {y}] = g[T] + Barrel(y)
    OBVIOUS
  <2> DEFINE x == Pick(T \cup {y})
  <2>1. x \in T \cup {y}
    BY DEF Pick
  <2>2. CASE x = y
    BY <2>2, <1>4
  <2>3. CASE x # y
    <3>1. x \in T /\ x \in U
      BY <2>1, <2>3
    <3>2. IsSumAt(g, T \cup {y})
      BY <1>3
    <3>3. g[T \cup {y}] = Barrel(x) + g[(T \cup {y}) \ {x}]
      BY <3>2 DEF IsSumAt
    <3> HIDE DEF x
    <3> DEFINE R == T \ {x}
    <3>4. R \in SUBSET U /\ x \in U \ R /\ y \in U \ R /\ Cardinality(R) = k
      <4>1. k \in Nat /\ R \in SUBSET U /\ x \in U \ R /\ y \in U \ R
        BY <3>1
      <4>2. Cardinality(R) = Cardinality(T) - 1
        BY <3>1, <1>1, FS_RemoveElement
      <4> QED
        BY <4>1, <4>2
    <3>5. g[R \cup {y}] = g[R] + Barrel(y) /\ g[R \cup {x}] = g[R] + Barrel(x)
      BY <3>4
    <3>6. (T \cup {y}) \ {x} = R \cup {y} /\ T = R \cup {x}
      BY <3>1, <2>3
    <3>7. g[R] \in Nat /\ Barrel(x) \in Nat /\ Barrel(y) \in Nat
      BY <3>4, <1>2, <1>3
    <3>8. g[T \cup {y}] = Barrel(x) + (g[R] + Barrel(y)) /\ g[T] = g[R] + Barrel(x)
      <4> HIDE DEF R, K
      <4> QED
        BY <3>3, <3>5, <3>6
    <3> HIDE DEF R, K
    <3> QED
      BY <3>7, <3>8
  <2> QED
    BY <2>2, <2>3
<1>7. Nat \subseteq K
  <2>1. K \subseteq Nat
    OBVIOUS
  <2> HIDE DEF K
  <2> QED
    BY <1>5, <1>6, <2>1, Counting
<1> QED
  BY <1>1, <1>7 DEF AddsOne

\* One via more adds its barrel, in whatever order the sum is taken.
LEMMA BarrelsPlus ==
    ASSUME NetAssumption, NEW S \in SUBSET Vias, NEW v \in Vias \ S
    PROVE  /\ Barrels(S) \in Nat
           /\ Barrels(S \cup {v}) = Barrels(S) + 2 * HalfBarrel(v)
<1> DEFINE U == S \cup {v}
<1>1. U \in SUBSET Vias /\ S \in SUBSET U /\ v \in U \ S
  OBVIOUS
<1> HIDE DEF U
<1>2. PICK g \in [SUBSET U -> Nat] : IsSum(g, U)
  BY <1>1, SumsExist
<1>3. PICK h \in [SUBSET S -> Nat] : IsSum(h, S)
  BY SumsExist
<1>4. Barrels(U) = g[U] /\ Barrels(S) = h[S]
  BY <1>1, <1>2, <1>3, BarrelsIs
<1>5. h[S] = g[S]
  BY <1>1, <1>2, <1>3, SumsAgree
<1>6. g[S \cup {v}] = g[S] + Barrel(v)
  <2>1. AddsOne(g, S, v)
    BY <1>1, <1>2, SumsPlus
  <2> QED
    BY <2>1 DEF AddsOne
<1>7. h[S] \in Nat
  <2>1. S \in SUBSET S
    OBVIOUS
  <2> QED
    BY <1>3, <2>1
<1>8. Barrels(S) \in Nat
  BY <1>4, <1>7
<1>9. Barrels(U) = Barrels(S) + Barrel(v)
  BY <1>4, <1>5, <1>6 DEF U
<1>10. Barrels(S \cup {v}) = Barrels(S) + 2 * HalfBarrel(v)
  BY <1>9 DEF U, Barrel
<1> QED
  BY <1>8, <1>10

----------------------------------------------------------------------------
(* Routes are walked back over whole vias *)

\* Nobody brings a settled node nearer.
Settled(n) == n \in DOMAIN best /\ <<n, best[n].dist>> \notin heap

AtHub(n) == n \in Vias \X {"hub"}

\* What the edges back to the source count for the vias S on them: both halves
\* of each but, in the middle of one, of that.
Crossed(b, n, S) ==
    /\ S \subseteq Vias /\ b.vias \in Nat /\ b.parts.via \in Nat
    /\ IF AtHub(n)
       THEN /\ n[1] \in S /\ b.vias + 1 = 2 * Cardinality(S)
            /\ b.parts.via + HalfBarrel(n[1]) = Barrels(S)
       ELSE b.vias = 2 * Cardinality(S) /\ b.parts.via = Barrels(S)

Ranks(rank) ==
    /\ rank \in [DOMAIN best -> Nat]
    /\ \A n \in DOMAIN best : best[n].prev # NoNode => rank[best[n].prev] < rank[n]

Walks(w) ==
    w = [m \in DOMAIN best |-> IF best[m].prev = NoNode THEN {} ELSE {best[m].of} \cup w[best[m].prev]]

CrossedBy(w) ==
    \A n \in DOMAIN best :
        /\ Crossed(best[n], n, w[n] \cap Vias)
        /\ \A v \in w[n] \cap Vias : Hub(v) = n \/ Settled(Hub(v))

Walked ==
    pc = "routing" =>
        /\ \A n \in DOMAIN best : Settled(n) => \A it \in heap : best[n].dist <= it[2]
        /\ \A n \in DOMAIN best : best[n].prev # NoNode => Settled(best[n].prev)
        /\ \E rank : Ranks(rank)
        /\ \E w : Walks(w) /\ CrossedBy(w)

LEMMA NoNodeIsNone == ASSUME NetAssumption PROVE NoNode \notin Nodes
<1>1. \A n \in Nodes : n[2] \in Layers \cup {"start", "end", "hub", "pad", "mid"}
  BY DEF Nodes, AllTerms
<1>2. "none" \notin Layers
  BY DEF NetAssumption
<1> QED
  BY <1>1, <1>2 DEF NoNode

\* The middles of vias, and what is none.
LEMMA HubIs ==
    ASSUME NetAssumption
    PROVE  /\ \A n : AtHub(n) <=> \E v \in Vias : n = Hub(v)
           /\ \A v \in Vias : Hub(v)[1] = v
           /\ \A n \in PlainNodes : ~AtHub(n)
<1>1. /\ \A n : AtHub(n) <=> \E v \in Vias : n = Hub(v)
      /\ \A v \in Vias : Hub(v)[1] = v
  BY DEF AtHub, Hub
<1> QED
  BY <1>1, HubsApart

\* Over one edge more; the middle of a via is not entered a second time.
LEMMA CrossedOn ==
    ASSUME NetAssumption, NEW n, NEW m, NEW e, Laid(e), e.ends = {n, m}, n # m,
           NEW W, Crossed(best[n], n, W \cap Vias), AtHub(m) => m[1] \notin W
    PROVE  Crossed(Through(n, e), m, ({e.of} \cup W) \cap Vias)
<1> DEFINE S == W \cap Vias
           T == ({e.of} \cup W) \cap Vias
           b == best[n]
           t == Through(n, e)
<1>1. S \in SUBSET Vias /\ IsFiniteSet(S) /\ Cardinality(S) \in Nat
  <2>1. S \in SUBSET Vias /\ IsFiniteSet(S)
    BY FS_Subset DEF NetAssumption
  <2> QED
    BY <2>1, FS_CardinalityType
<1>2. e.parts.via \in Nat
  BY DEF Laid, Parts
<1>3. /\ t.vias = b.vias + (IF e.of \in Vias THEN 1 ELSE 0)
      /\ t.parts.via = b.parts.via + e.parts.via
  BY DEF Through, Plus
<1>4. b.vias \in Nat /\ b.parts.via \in Nat
  BY DEF Crossed
<1>5. t.vias \in Nat /\ t.parts.via \in Nat
  BY <1>2, <1>3, <1>4
<1>6. CASE e.of \notin Vias
  <2>1. PICK x \in PlainNodes, y \in PlainNodes : x # y /\ e.ends = {x, y}
    BY <1>6 DEF Laid
  <2>2. n \in PlainNodes /\ m \in PlainNodes
    BY <2>1
  <2>3. T = S /\ e.parts.via = 0
    BY <1>6 DEF Laid
  <2>4. ~AtHub(n) /\ ~AtHub(m)
    BY <2>2, HubIs
  <2>5. b.vias = 2 * Cardinality(S) /\ b.parts.via = Barrels(S)
    BY <2>4 DEF Crossed
  <2> HIDE DEF S, T, t, b
  <2>6. t.vias = 2 * Cardinality(T) /\ t.parts.via = Barrels(T)
    BY <1>3, <1>4, <1>6, <2>3, <2>5
  <2>7. Crossed(t, m, T)
    BY <1>1, <1>5, <2>3, <2>4, <2>6 DEF Crossed
  <2> QED
    BY <2>7 DEF t, T
<1>7. CASE e.of \in Vias
  <2> DEFINE v == e.of
  <2>1. PICK x \in AllTerms : e.ends = {Hub(v), x}
    BY <1>7 DEF Laid
  <2>2. x \in PlainNodes /\ ~AtHub(x) /\ AtHub(Hub(v)) /\ Hub(v)[1] = v
    BY <1>7, HubIs DEF PlainNodes
  <2>3. e.parts.via = HalfBarrel(v) /\ HalfBarrel(v) \in Nat
    BY <1>2, <1>7 DEF Laid
  <2>4. T = S \cup {v} /\ T \subseteq Vias
    BY <1>7
  <2>5. t.vias = b.vias + 1 /\ t.parts.via = b.parts.via + HalfBarrel(v)
    BY <1>3, <1>7, <2>3
  <2>6. (m = Hub(v) /\ n = x) \/ (n = Hub(v) /\ m = x)
    BY <2>1
  <2>7. CASE m = Hub(v) /\ n = x
    <3>1. v \notin S
      BY <2>2, <2>7
    <3>2. Cardinality(T) = Cardinality(S) + 1
      <4>1. Cardinality(S \cup {v}) = Cardinality(S) + 1
        BY <1>1, <3>1, FS_AddElement
      <4> QED
        BY <2>4, <4>1
    <3>3. Barrels(S) \in Nat /\ Barrels(S \cup {v}) = Barrels(S) + 2 * HalfBarrel(v)
      BY <1>1, <1>7, <3>1, BarrelsPlus
    <3>4. b.vias = 2 * Cardinality(S) /\ b.parts.via = Barrels(S)
      BY <2>2, <2>7 DEF Crossed
    <3> HIDE DEF S, T, t, b, v
    <3>5. Barrels(T) = Barrels(S) + 2 * HalfBarrel(v)
      BY <2>4, <3>3
    <3>6. t.vias + 1 = 2 * Cardinality(T)
      BY <2>5, <3>2, <3>4, <1>1
    <3>7. t.parts.via + HalfBarrel(v) = Barrels(T)
      BY <2>3, <2>5, <3>3, <3>4, <3>5
    <3>8. AtHub(m) /\ m[1] = v /\ v \in T
      BY <2>2, <2>4, <2>7
    <3>9. Crossed(t, m, T)
      BY <1>5, <2>4, <3>6, <3>7, <3>8 DEF Crossed
    <3> QED
      BY <3>9 DEF t, T
  <2>8. CASE n = Hub(v) /\ m = x
    <3>1. v \in S /\ b.vias + 1 = 2 * Cardinality(S) /\ b.parts.via + HalfBarrel(v) = Barrels(S)
      BY <2>2, <2>8 DEF Crossed
    <3>2. T = S
      BY <2>4, <3>1
    <3> HIDE DEF S, T, t, b, v
    <3>3. t.vias = 2 * Cardinality(T) /\ t.parts.via = Barrels(T)
      BY <2>5, <3>1, <3>2
    <3>4. ~AtHub(m)
      BY <2>2, <2>8
    <3>5. Crossed(t, m, T)
      BY <1>5, <2>4, <3>3, <3>4 DEF Crossed
    <3> QED
      BY <3>5 DEF t, T
  <2> QED
    BY <2>6, <2>7, <2>8
<1> QED
  BY <1>6, <1>7

\* The walk back is one: by the rank of a node.
LEMMA WalkIsOne ==
    ASSUME NEW rank, Ranks(rank), \A n \in DOMAIN best : best[n].prev # NoNode => best[n].prev \in DOMAIN best,
           NEW w, NEW u, Walks(w), Walks(u)
    PROVE  \A n \in DOMAIN best : w[n] = u[n]
<1> DEFINE K == {k \in Nat : \A n \in DOMAIN best : rank[n] < k => w[n] = u[n]}
<1>1. \A n \in DOMAIN best : rank[n] \in Nat
  BY DEF Ranks
<1>2. 0 \in K
  BY <1>1
<1>3. ASSUME NEW k \in K PROVE k + 1 \in K
  <2> SUFFICES ASSUME NEW n \in DOMAIN best, rank[n] < k + 1 PROVE w[n] = u[n]
    OBVIOUS
  <2>1. CASE best[n].prev = NoNode
    BY <2>1 DEF Walks
  <2>2. CASE best[n].prev # NoNode
    <3>1. best[n].prev \in DOMAIN best /\ rank[best[n].prev] < rank[n]
      BY <2>2 DEF Ranks
    <3>2. rank[best[n].prev] < k
      BY <1>1, <3>1
    <3>3. w[best[n].prev] = u[best[n].prev]
      BY <3>1, <3>2
    <3>4. w[n] = {best[n].of} \cup w[best[n].prev] /\ u[n] = {best[n].of} \cup u[best[n].prev]
      <4>1. \A x \in DOMAIN best : w[x] = IF best[x].prev = NoNode THEN {} ELSE {best[x].of} \cup w[best[x].prev]
        BY DEF Walks
      <4>2. \A x \in DOMAIN best : u[x] = IF best[x].prev = NoNode THEN {} ELSE {best[x].of} \cup u[best[x].prev]
        BY DEF Walks
      <4> HIDE DEF K
      <4> QED
        BY <2>2, <4>1, <4>2
    <3> QED
      BY <3>3, <3>4
  <2> QED
    BY <2>1, <2>2
<1>4. Nat \subseteq K
  <2>1. K \subseteq Nat
    OBVIOUS
  <2> HIDE DEF K
  <2> QED
    BY <1>2, <1>3, <2>1, Counting
<1>5. ASSUME NEW n \in DOMAIN best PROVE w[n] = u[n]
  <2>1. rank[n] + 1 \in K /\ rank[n] < rank[n] + 1
    BY <1>1, <1>4
  <2> QED
    BY <2>1
<1> QED
  BY <1>5

\* Leading on settles the node led on from and reaches none that was settled.
LEMMA LeadsOnKeepsWalked ==
    ASSUME NetAssumption, Graph, Routing, Walked, pc = "routing",
           NEW it \in heap, \A x \in heap : it[2] <= x[2], it[2] = best[it[1]].dist,
           NEW M, NEW g, LeadsOn(it, it[1], M, g)
    PROVE  Walked'
<1> DEFINE n == it[1]
           d == it[2]
<1>1. n \in DOMAIN best /\ n \in Nodes /\ d \in Nat /\ d = best[n].dist /\ it = <<n, d>>
  BY SumNat DEF Routing, Distant
<1>2. /\ DOMAIN best \subseteq Nodes
      /\ \A k \in DOMAIN best : best[k].dist \in Nat
      /\ \A x \in heap : x[2] \in Nat
  BY SumNat DEF Routing, Distant
<1>3. \A e \in links : Laid(e) /\ e.length \in Nat
  BY GraphIsGraph DEF IsGraph, IsEdge, Graph
<1>4. /\ \A m \in M : /\ m \in Nodes /\ m # n /\ g[m] \in links /\ g[m].ends = {n, m}
                      /\ m \in DOMAIN best => d + g[m].length < best[m].dist
      /\ best' = [m \in DOMAIN best \cup M |-> IF m \in M THEN Through(n, g[m]) ELSE best[m]]
      /\ heap' = (heap \ {it}) \cup {<<m, Through(n, g[m]).dist>> : m \in M}
  BY <1>1 DEF LeadsOn
<1>5. n \notin M /\ DOMAIN best' = DOMAIN best \cup M
  BY <1>1, <1>4
<1>6. \A m \in M : /\ best'[m] = Through(n, g[m]) /\ best'[m].dist = d + g[m].length
                   /\ best'[m].prev = n /\ best'[m].of = g[m].of
  BY <1>1, <1>4 DEF Through
<1>7. \A k \in DOMAIN best \ M : k \in DOMAIN best' /\ best'[k] = best[k]
  BY <1>4
<1>8. ASSUME NEW m \in M PROVE ~Settled(m)
  <2> SUFFICES ASSUME Settled(m) PROVE FALSE
    OBVIOUS
  <2>1. m \in DOMAIN best /\ best[m].dist <= d
    BY DEF Settled, Walked
  <2>2. d + g[m].length < best[m].dist /\ g[m].length \in Nat /\ best[m].dist \in Nat
    BY <2>1, <1>2, <1>3, <1>4
  <2> HIDE DEF d, n
  <2> QED
    BY <2>1, <2>2, <1>1
<1>9. \A x \in heap' : x \in heap \/ \E m \in M : x = <<m, d + g[m].length>>
  BY <1>4, <1>6
<1>10. \A m \in M : <<m, best'[m].dist>> \in heap'
  BY <1>4, <1>6
<1>11. \A x \in heap : x # it => x \in heap'
  BY <1>4
<1>12. it \notin heap'
  <2>1. \A m \in M : it # <<m, Through(n, g[m]).dist>>
    BY <1>1, <1>5
  <2> QED
    BY <2>1, <1>4
<1> HIDE DEF d, n
<1>13. ASSUME NEW k, Settled(k) PROVE Settled(k)'
  <2>1. k \in DOMAIN best \ M /\ <<k, best[k].dist>> \notin heap
    BY <1>8, <1>13 DEF Settled
  <2>2. <<k, best[k].dist>> \notin heap'
    BY <2>1, <1>9
  <2> QED
    BY <2>1, <2>2, <1>7 DEF Settled
<1>14. Settled(n)'
  BY <1>1, <1>5, <1>7, <1>12 DEF Settled
<1>15. ASSUME NEW k, Settled(k)' PROVE Settled(k) \/ k = n
  <2>1. k \in DOMAIN best \ M /\ best'[k] = best[k] /\ <<k, best[k].dist>> \notin heap'
    BY <1>5, <1>7, <1>10, <1>15 DEF Settled
  <2> QED
    BY <2>1, <1>1, <1>11 DEF Settled
<1>16. ASSUME NEW k \in DOMAIN best', Settled(k)', NEW x \in heap'
       PROVE  best'[k].dist <= x[2]
  <2>1. k \in DOMAIN best \ M /\ best'[k] = best[k] /\ best[k].dist \in Nat
    BY <1>2, <1>5, <1>7, <1>10, <1>16 DEF Settled
  <2>2. best[k].dist <= d
    <3>1. CASE Settled(k)
      BY <2>1, <3>1 DEF Walked, d
    <3>2. CASE k = n
      BY <1>1, <3>2
    <3> QED
      BY <1>15, <1>16, <3>1, <3>2
  <2>3. d <= x[2] /\ x[2] \in Nat
    <3>1. CASE x \in heap
      BY <3>1, <1>2 DEF d
    <3>2. CASE \E m \in M : x = <<m, d + g[m].length>>
      <4>1. PICK m \in M : x = <<m, d + g[m].length>>
        BY <3>2
      <4>2. g[m].length \in Nat /\ x[2] = d + g[m].length
        BY <4>1, <1>3, <1>4
      <4> QED
        BY <4>2, <1>1
    <3> QED
      BY <1>9, <3>1, <3>2
  <2> QED
    BY <2>1, <2>2, <2>3, <1>1
<1>17. \A k \in DOMAIN best : best[k].prev # NoNode => Settled(best[k].prev)
  BY DEF Walked
<1>18. ASSUME NEW k \in DOMAIN best', NEW p, best'[k].prev = p, p # NoNode
       PROVE  Settled(p)'
  <2>1. CASE k \in M
    <3>1. p = n
      BY <2>1, <1>6, <1>18
    <3> QED
      BY <3>1, <1>14
  <2>2. CASE k \notin M
    <3>1. k \in DOMAIN best /\ best'[k] = best[k]
      BY <2>2, <1>5, <1>7
    <3>2. Settled(p)
      BY <3>1, <1>17, <1>18
    <3> QED
      BY <3>2, <1>13
  <2> QED
    BY <2>1, <2>2
<1>19. \E rank : Ranks(rank)'
  <2>1. PICK rank : Ranks(rank)
    BY DEF Walked
  <2>0. PICK new : new = [k \in DOMAIN best' |-> IF k \in M THEN rank[n] + 1 ELSE rank[k]]
    OBVIOUS
  <2>2. \A k \in DOMAIN best : rank[k] \in Nat
    BY <2>1 DEF Ranks
  <2>3. \A k \in DOMAIN best' : new[k] = IF k \in M THEN rank[n] + 1 ELSE rank[k]
    BY <2>0
  <2>4. \A k \in DOMAIN best' : new[k] \in Nat
    BY <2>2, <2>3, <1>1, <1>5
  <2>5. ASSUME NEW k \in DOMAIN best', best'[k].prev # NoNode PROVE new[best'[k].prev] < new[k]
    <3>1. CASE k \in M
      <4>1. best'[k].prev = n /\ n \in DOMAIN best' /\ n \notin M
        BY <3>1, <1>1, <1>5, <1>6
      <4>2. new[n] = rank[n] /\ new[k] = rank[n] + 1 /\ rank[n] \in Nat
        BY <3>1, <4>1, <2>2, <2>3, <1>1
      <4> QED
        BY <4>1, <4>2
    <3>2. CASE k \notin M
      <4>1. k \in DOMAIN best /\ best'[k] = best[k]
        BY <3>2, <1>5, <1>7
      <4>2. rank[best[k].prev] < rank[k] /\ Settled(best[k].prev)
        BY <4>1, <2>1, <2>5, <1>17 DEF Ranks
      <4>3. best[k].prev \notin M /\ best[k].prev \in DOMAIN best'
        BY <4>2, <1>5, <1>8 DEF Settled
      <4>4. new[best[k].prev] = rank[best[k].prev] /\ new[k] = rank[k]
        BY <4>3, <3>2, <2>3
      <4> QED
        BY <4>1, <4>2, <4>4
    <3> QED
      BY <3>1, <3>2
  <2>6. new \in [DOMAIN best' -> Nat]
    BY <2>0, <2>4
  <2>7. Ranks(new)'
    BY <2>5, <2>6 DEF Ranks
  <2> QED
    BY <2>7
<1>20. \E w : Walks(w)' /\ CrossedBy(w)'
  <2>1. PICK w : Walks(w) /\ CrossedBy(w)
    BY DEF Walked
  <2>0. PICK new : new = [k \in DOMAIN best' |-> IF k \in M THEN {g[k].of} \cup w[n] ELSE w[k]]
    OBVIOUS
  <2>2. /\ \A k \in M : k \in DOMAIN best' /\ new[k] = {g[k].of} \cup w[n]
        /\ \A k \in DOMAIN best \ M : new[k] = w[k]
    BY <2>0, <1>5
  <2>3. \A k \in DOMAIN best : w[k] = IF best[k].prev = NoNode THEN {} ELSE {best[k].of} \cup w[best[k].prev]
    BY <2>1 DEF Walks
  <2>4. n # NoNode
    BY <1>1, NoNodeIsNone
  <2>5. ASSUME NEW k \in DOMAIN best'
        PROVE  new[k] = IF best'[k].prev = NoNode THEN {} ELSE {best'[k].of} \cup new[best'[k].prev]
    <3>1. CASE k \in M
      <4>1. best'[k].prev = n /\ best'[k].of = g[k].of /\ new[n] = w[n]
        BY <3>1, <2>2, <1>1, <1>5, <1>6
      <4> QED
        BY <3>1, <4>1, <2>2, <2>4
    <3>2. CASE k \notin M
      <4>1. k \in DOMAIN best /\ best'[k] = best[k] /\ new[k] = w[k]
        BY <3>2, <2>2, <1>5, <1>7
      <4>2. best[k].prev # NoNode => new[best[k].prev] = w[best[k].prev]
        BY <4>1, <2>2, <1>8, <1>17 DEF Settled
      <4> QED
        BY <4>1, <4>2, <2>3
    <3> QED
      BY <3>1, <3>2
  <2>6. new = [k \in DOMAIN best' |-> IF best'[k].prev = NoNode THEN {} ELSE {best'[k].of} \cup new[best'[k].prev]]
    <3> DEFINE rhs == [k \in DOMAIN best' |->
                         IF best'[k].prev = NoNode THEN {} ELSE {best'[k].of} \cup new[best'[k].prev]]
               left(k) == IF k \in M THEN {g[k].of} \cup w[n] ELSE w[k]
               right(k) == IF best'[k].prev = NoNode THEN {} ELSE {best'[k].of} \cup new[best'[k].prev]
    <3>0. \A k \in DOMAIN best' : new[k] = left(k)
      BY <2>0
    <3>1. \A k \in DOMAIN best' : left(k) = right(k)
      BY <2>5, <3>0
    <3> HIDE DEF left, right
    <3>2. [k \in DOMAIN best' |-> left(k)] = [k \in DOMAIN best' |-> right(k)]
      BY <3>1
    <3> QED
      BY <2>0, <3>2 DEF left, right
  <2>7. Walks(new)'
    BY <2>6 DEF Walks
  <2>8. \A k \in DOMAIN best : /\ Crossed(best[k], k, w[k] \cap Vias)
                               /\ \A v \in w[k] \cap Vias : Hub(v) = k \/ Settled(Hub(v))
    BY <2>1 DEF CrossedBy
  <2>9. ASSUME NEW k \in DOMAIN best'
        PROVE  /\ Crossed(best'[k], k, new[k] \cap Vias)
               /\ \A v \in new[k] \cap Vias : Hub(v) = k \/ Settled(Hub(v))'
    <3>1. CASE k \in M
      <4> DEFINE e == g[k]
      <4>1. Laid(e) /\ e.ends = {n, k} /\ n # k /\ best'[k] = Through(n, e)
            /\ new[k] = {e.of} \cup w[n]
        BY <3>1, <2>2, <1>3, <1>4, <1>6
      <4>2. Crossed(best[n], n, w[n] \cap Vias) /\ \A v \in w[n] \cap Vias : Hub(v) = n \/ Settled(Hub(v))
        BY <2>8, <1>1
      <4> HIDE DEF e
      <4>3. AtHub(k) => k[1] \notin w[n]
        <5> SUFFICES ASSUME AtHub(k), k[1] \in w[n] PROVE FALSE
          OBVIOUS
        <5>1. PICK v \in Vias : k = Hub(v) /\ k[1] = v
          BY HubIs
        <5>2. Settled(k)
          BY <4>1, <4>2, <5>1
        <5> QED
          BY <3>1, <5>2, <1>8
      <4>4. Crossed(best'[k], k, new[k] \cap Vias)
        <5>1. Crossed(Through(n, e), k, ({e.of} \cup w[n]) \cap Vias)
          BY <4>1, <4>2, <4>3, CrossedOn
        <5> QED
          BY <4>1, <5>1
      <4>5. ASSUME NEW v \in new[k] \cap Vias PROVE Hub(v) = k \/ Settled(Hub(v))'
        <5>1. CASE v \in w[n]
          BY <5>1, <4>2, <1>13, <1>14
        <5>2. CASE v = e.of
          <6>1. Hub(v) \in {n, k}
            BY <5>2, <4>1 DEF Laid
          <6> QED
            BY <6>1, <1>14
        <5> QED
          BY <4>1, <5>1, <5>2
      <4> QED
        BY <4>4, <4>5
    <3>2. CASE k \notin M
      <4>1. k \in DOMAIN best /\ best'[k] = best[k] /\ new[k] = w[k]
        BY <3>2, <2>2, <1>5, <1>7
      <4> QED
        BY <4>1, <2>8, <1>13
    <3> QED
      BY <3>1, <3>2
  <2>10. CrossedBy(new)'
    BY <2>9 DEF CrossedBy, Crossed
  <2> QED
    BY <2>7, <2>10
<1>21. \A k \in DOMAIN best' : best'[k].prev # NoNode => Settled(best[k].prev)'
  BY <1>18 DEF Settled
<1> QED
  BY <1>16, <1>19, <1>20, <1>21 DEF Walked

LEMMA PopKeepsWalked ==
    ASSUME NetAssumption, Graph, Routing, Walked, Pop
    PROVE  Walked'
<1>1. pc = "routing"
  BY DEF Pop
<1>2. PICK it \in heap :
        /\ \A x \in heap : it[2] <= x[2]
        /\ \/ /\ it[2] > best[it[1]].dist
              /\ heap' = heap \ {it} /\ best' = best
           \/ /\ it[2] = best[it[1]].dist
              /\ \E M, g : LeadsOn(it, it[1], M, g)
  BY PopIs
<1>3. CASE \E M, g : it[2] = best[it[1]].dist /\ LeadsOn(it, it[1], M, g)
  BY <1>1, <1>2, <1>3, LeadsOnKeepsWalked
<1>4. CASE it[2] > best[it[1]].dist /\ heap' = heap \ {it} /\ best' = best
  <2>1. it[1] \in DOMAIN best /\ it[2] # best[it[1]].dist
    <3>1. it[1] \in DOMAIN best /\ it[2] \in Nat /\ best[it[1]].dist \in Nat
      BY <1>1, SumNat DEF Routing, Distant
    <3> QED
      BY <3>1, <1>4
  <2>2. \A n : Settled(n)' <=> Settled(n)
    BY <1>4, <2>1 DEF Settled
  <2>3. \A rank : Ranks(rank)' <=> Ranks(rank)
    BY <1>4 DEF Ranks
  <2>4. \A w : Walks(w)' <=> Walks(w)
    BY <1>4 DEF Walks
  <2>5. \A w : CrossedBy(w)' <=> CrossedBy(w)
    BY <1>4, <2>2 DEF CrossedBy, Crossed
  <2>6. \A n \in DOMAIN best' : best'[n].prev # NoNode => Settled(best[n].prev)'
    <3>1. \A n \in DOMAIN best : best[n].prev # NoNode => Settled(best[n].prev)
      BY <1>1 DEF Walked
    <3> QED
      BY <1>4, <2>1, <3>1 DEF Settled
  <2>7. \A n \in DOMAIN best' : Settled(n)' => \A x \in heap' : best'[n].dist <= x[2]
    BY <1>1, <1>4, <2>2 DEF Walked
  <2> QED
    BY <1>1, <2>3, <2>4, <2>5, <2>6, <2>7 DEF Walked
<1> QED
  BY <1>2, <1>3, <1>4

LEMMA StartKeepsWalked ==
    ASSUME NetAssumption, NEW p \in Pads, StartFrom(p)
    PROVE  Walked'
<1> DEFINE S == PadNode(p)
<1>1. /\ heap' = {<<S, 0>>} /\ DOMAIN best' = {S} /\ best'[S].dist = 0
      /\ best'[S].prev = NoNode /\ best'[S].vias = 0 /\ best'[S].parts.via = 0
  BY DEF StartFrom, NoParts
<1>2. ~AtHub(S)
  <2>1. S \in PlainNodes
    BY DEF PlainNodes, PadNode
  <2> QED
    BY <2>1, HubIs
<1> HIDE DEF S
<1>3. \A n : ~Settled(n)'
  BY <1>1 DEF Settled
<1>4. \A n \in DOMAIN best' : n = S /\ best'[n].prev = NoNode
  BY <1>1
<1>5. \E rank : Ranks(rank)'
  <2>1. PICK rank : rank = [n \in {S} |-> 0]
    OBVIOUS
  <2>2. rank \in [DOMAIN best' -> Nat]
    BY <2>1, <1>1
  <2>3. Ranks(rank)'
    BY <2>2, <1>4 DEF Ranks
  <2> QED
    BY <2>3
<1>6. \E w : Walks(w)' /\ CrossedBy(w)'
  <2>1. PICK w : w = [n \in DOMAIN best' |-> {}]
    OBVIOUS
  <2>2. \A n \in DOMAIN best' :
           {} = IF best'[n].prev = NoNode THEN {} ELSE {best'[n].of} \cup w[best'[n].prev]
    BY <1>4
  <2>3. w = [n \in DOMAIN best' |->
               IF best'[n].prev = NoNode THEN {} ELSE {best'[n].of} \cup w[best'[n].prev]]
    <3> DEFINE right(n) == IF best'[n].prev = NoNode THEN {} ELSE {best'[n].of} \cup w[best'[n].prev]
    <3>1. \A n \in DOMAIN best' : {} = right(n)
      BY <2>2
    <3> HIDE DEF right
    <3>2. [n \in DOMAIN best' |-> {}] = [n \in DOMAIN best' |-> right(n)]
      BY <3>1
    <3> QED
      BY <2>1, <3>2 DEF right
  <2>4. Walks(w)'
    BY <2>3 DEF Walks
  <2>5. Cardinality({}) = 0 /\ Barrels({}) = 0
    BY FS_EmptySet, BarrelsNone
  <2>6. \A n \in DOMAIN best' : w[n] \cap Vias = {}
    BY <2>1
  <2>7. ASSUME NEW n \in DOMAIN best'
        PROVE  Crossed(best'[n], n, {})
    <3>1. n = S
      BY <1>4
    <3> QED
      BY <3>1, <1>1, <1>2, <2>5 DEF Crossed
  <2>8. ASSUME NEW n \in DOMAIN best'
        PROVE  Crossed(best'[n], n, w[n] \cap Vias)
    BY <2>6, <2>7
  <2>9. CrossedBy(w)'
    BY <2>6, <2>8 DEF CrossedBy, Crossed
  <2> QED
    BY <2>4, <2>9
<1>7. \A n \in DOMAIN best' : best'[n].prev # NoNode => Settled(best[n].prev)'
  BY <1>4
<1> QED
  BY <1>3, <1>5, <1>6, <1>7 DEF Walked

LEMMA StepKeepsWalked ==
    ASSUME NetAssumption, Graph, Routing, Walked, [Next]_vars
    PROVE  Walked'
<1>1. CASE Pop
  BY <1>1, PopKeepsWalked
<1>2. CASE \E p \in Pads : StartFrom(p)
  BY <1>2, StartKeepsWalked
<1>3. CASE BuildGraph \/ Record \/ Finish
  <2>1. pc' # "routing"
    BY <1>3 DEF BuildGraph, Merge, Merged, Trace, Traced, Split, SplitsDone, DrawTrack, DrawVias,
       Attach, Attached, Record, Finish
  <2> QED
    BY <2>1 DEF Walked
<1>4. CASE UNCHANGED vars
  <2>1. pc' = pc /\ best' = best /\ heap' = heap
    BY <1>4 DEF vars, routes
  <2>2. \A n : Settled(n)' <=> Settled(n)
    BY <2>1 DEF Settled
  <2>3. \A rank : Ranks(rank)' <=> Ranks(rank)
    BY <2>1 DEF Ranks
  <2>4. \A w : Walks(w)' <=> Walks(w)
    BY <2>1 DEF Walks
  <2>5. \A w : CrossedBy(w)' <=> CrossedBy(w)
    BY <2>1, <2>2 DEF CrossedBy, Crossed
  <2>6. \A n \in DOMAIN best' : best'[n].prev # NoNode /\ Walked /\ pc = "routing" => Settled(best[n].prev)'
    <3>1. Walked /\ pc = "routing" => \A n \in DOMAIN best : best[n].prev # NoNode => Settled(best[n].prev)
      BY DEF Walked
    <3> QED
      BY <2>1, <3>1 DEF Settled
  <2>7. \A n \in DOMAIN best' : Walked /\ pc = "routing" /\ Settled(n)' => \A x \in heap' : best'[n].dist <= x[2]
    BY <2>1, <2>2 DEF Walked
  <2> QED
    BY <2>1, <2>3, <2>4, <2>5, <2>6, <2>7 DEF Walked
<1> QED
  BY <1>1, <1>2, <1>3, <1>4 DEF Next

\* The tracks of a route are those of its walk back.
LEMMA TracksAreWalked ==
    ASSUME Walked, pc = "routing", NEW n \in DOMAIN best, NEW w, Walks(w)
    PROVE  TracksOnRoute(n) = w[n] \cap Copper
<1> DEFINE walk == CHOOSE u : Walks(u)
<1>1. Walks(walk)
  <2> HIDE DEF Walks
  <2> QED
    OBVIOUS
<1>2. PICK rank : Ranks(rank)
  BY DEF Walked
<1>3. \A k \in DOMAIN best : best[k].prev # NoNode => best[k].prev \in DOMAIN best
  BY DEF Walked, Settled
<1>4. TracksOnRoute(n) = walk[n] \cap Copper
  BY DEF TracksOnRoute, Walks
<1> HIDE DEF walk
<1>5. walk[n] = w[n]
  BY <1>1, <1>2, <1>3, WalkIsOne
<1> QED
  BY <1>4, <1>5

\* A route to a pad ends outside of every via, so each was crossed.
LEMMA PathToWhole ==
    ASSUME NetAssumption, Walked, pc = "routing", NEW q \in Pads
    PROVE  BarrelsWhole(PathTo(q))
<1> DEFINE n == PadNode(q)
<1>1. CASE n \notin DOMAIN best
  <2>1. PathTo(q) = NoPath
    BY <1>1 DEF PathTo
  <2>2. NoPath.tracks \cap Vias = {} /\ NoPath.vias = 0 /\ NoPath.parts.via = 0
    BY DEF NoPath, NoParts
  <2>3. Cardinality({}) = 0 /\ Barrels({}) = 0
    BY FS_EmptySet, BarrelsNone
  <2> QED
    BY <2>1, <2>2, <2>3 DEF BarrelsWhole
<1>2. CASE n \in DOMAIN best
  <2>1. PICK w : Walks(w) /\ CrossedBy(w)
    BY DEF Walked
  <2>2. /\ PathTo(q).vias = best[n].vias \div 2 /\ PathTo(q).parts = best[n].parts
        /\ PathTo(q).tracks = TracksOnRoute(n)
    BY <1>2 DEF PathTo
  <2>3. n \in PlainNodes
    BY DEF PadNode, PlainNodes
  <2> HIDE DEF n
  <2>4. TracksOnRoute(n) = w[n] \cap Copper
    BY <1>2, <2>1, TracksAreWalked
  <2> DEFINE S == w[n] \cap Vias
  <2>5. PathTo(q).tracks \cap Vias = S
    BY <2>2, <2>4 DEF Copper
  <2>6. ~AtHub(n)
    BY <2>3, HubIs
  <2>7. best[n].vias = 2 * Cardinality(S) /\ best[n].parts.via = Barrels(S)
    BY <1>2, <2>1, <2>6 DEF CrossedBy, Crossed
  <2>8. Cardinality(S) \in Nat
    <3>1. IsFiniteSet(S)
      BY FS_Subset DEF NetAssumption
    <3> QED
      BY <3>1, FS_CardinalityType
  <2> HIDE DEF S
  <2>9. (2 * Cardinality(S)) \div 2 = Cardinality(S)
    BY <2>8
  <2> QED
    BY <2>2, <2>5, <2>7, <2>9 DEF BarrelsWhole
<1> QED
  BY <1>1, <1>2

Whole == \A k \in DOMAIN paths : BarrelsWhole(paths[k])

LEMMA StepKeepsWhole ==
    ASSUME NetAssumption, Junctions, Graph, Walked, Whole, [Next]_vars
    PROVE  Whole'
<1>1. CASE Record
  <2> SUFFICES ASSUME NEW k \in DOMAIN paths' PROVE BarrelsWhole(paths'[k])
    BY DEF Whole, BarrelsWhole
  <2>1. pc = "routing" /\ pads \subseteq Pads
    BY <1>1, PadsOfNet DEF Record, Graph
  <2>2. CASE \E q \in pads \ {src} : k = {src, q}
    <3>1. PICK q \in pads \ {src} : k = {src, q}
      BY <2>2
    <3>2. paths'[k] = PathTo(q)
      BY <1>1, <3>1, RecordIs
    <3> QED
      BY <2>1, <3>1, <3>2, PathToWhole
  <2>3. CASE ~\E q \in pads \ {src} : k = {src, q}
    <3>1. k \in DOMAIN paths
      <4> DEFINE of(j) == PathTo(CHOOSE x \in j : x # src)
                 keys == {{src, x} : x \in pads \ {src}}
      <4>1. paths' = [j \in DOMAIN paths \cup keys |-> IF j \in keys THEN of(j) ELSE paths[j]]
        BY <1>1 DEF Record
      <4>2. k \notin keys
        BY <2>3
      <4> HIDE DEF of, keys
      <4> QED
        BY <4>1, <4>2
    <3>2. paths'[k] = paths[k]
      BY <1>1, <2>3, <3>1, RecordLeaves
    <3> QED
      BY <3>1, <3>2 DEF Whole
  <2> QED
    BY <2>2, <2>3
<1>2. CASE BuildGraph \/ (\E p \in Pads : StartFrom(p)) \/ Pop \/ Finish \/ UNCHANGED vars
  <2>1. paths' = paths
    BY <1>2 DEF BuildGraph, Merge, Merged, Trace, Traced, Split, SplitsDone, DrawTrack, DrawVias,
       Attach, Attached, StartFrom, Pop, Finish, vars, measure
  <2> QED
    BY <2>1 DEF Whole, BarrelsWhole
<1> QED
  BY <1>1, <1>2 DEF Next

\* All that is kept.
Routed == Junctions /\ Pieces /\ Graph /\ Routing /\ Walked /\ Recorded /\ Whole

LEMMA RoutedInit ==
    ASSUME NetAssumption, Init
    PROVE  Routed
<1>1. Junctions /\ Pieces /\ Graph
  BY JunctionsInit, PiecesInit, GraphInit
<1>2. pc = "merging" /\ DOMAIN paths = {}
  BY DEF Init
<1>3. Routing /\ Walked /\ Recorded
  BY <1>2 DEF Routing, Walked, Recorded
<1>4. Whole
  BY <1>2 DEF Whole
<1> QED
  BY <1>1, <1>3, <1>4 DEF Routed

\* The inductive step of all that is kept.
LEMMA StepKeepsRouted ==
    ASSUME NetAssumption, Routed, [Next]_vars
    PROVE  Routed'
<1> USE DEF Routed
<1>1. Junctions' /\ Pieces' /\ Graph'
  BY StepKeepsJunctions, StepKeepsPieces, StepKeepsGraph
<1>2. Routing' /\ Walked'
  BY StepKeepsRouting, StepKeepsWalked
<1>3. Recorded' /\ Whole'
  BY StepKeepsRecorded, StepKeepsWhole
<1> QED
  BY <1>1, <1>2, <1>3

\* Whatever the copper, the route found between two pads is as long as the
\* shortest way in the graph, and counts a whole barrel for every via it runs
\* over (netlen.go, dijkstraFrom and Path).
THEOREM NetRoutesShortest == ASSUME NetAssumption PROVE Spec => []RoutesShortest
<1>1. Init => Routed
  BY RoutedInit
<1>2. Routed /\ [Next]_vars => Routed'
  BY StepKeepsRouted
<1>3. Routed => RoutesShortest
  <2> SUFFICES ASSUME Routed, pc = "done", NEW p \in net.pads, NEW q \in net.pads \ {p}
               PROVE  Shortest(p, q) /\ BarrelsWhole(paths[{p, q}])
    BY DEF RoutesShortest
  <2>1. p \in Pads /\ q \in Pads
    BY PadsOfNet DEF Routed
  <2>2. {p, q} \in DOMAIN paths /\ Known(p, q, paths[{p, q}])
    BY DEF Routed, Recorded
  <2>3. Shortest(p, q)
    BY <2>1, <2>2, ShortestFromKnown DEF Routed
  <2>4. BarrelsWhole(paths[{p, q}])
    BY <2>2 DEF Routed, Whole
  <2> QED
    BY <2>3, <2>4
<1> QED
  BY <1>1, <1>2, <1>3, PTL DEF Spec

=============================================================================
