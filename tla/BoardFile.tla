------------------------------ MODULE BoardFile ------------------------------
(***************************************************************************)
(* sexpr/sexpr.go, board/parse.go and board.go: a board as a file and in   *)
(* memory.  A text is the sequence of the items of its root, each with the *)
(* space in front of it and laid out as its author had it or as KiCad      *)
(* does.  The tree keeps both, and which of its nodes were changed; the    *)
(* tracks read from it are kept in a list, by net, and in the tree.        *)
(***************************************************************************)
EXTENDS Integers, Sequences, SequencesExt

CONSTANT CopperLayers  \* the copper layers, top to bottom

\* SelectSeq by membership, as a function that can be reasoned about.
Only(s, S) ==
    LET only[i \in 0 .. Len(s)] ==
            IF i = 0 THEN <<>> ELSE IF s[i] \in S THEN Append(only[i - 1], s[i]) ELSE only[i - 1]
    IN  only[Len(s)]

AsFound == "as found"
AsKiCad == "as KiCad writes"

----------------------------------------------------------------------------
(* Text and tree *)

\* Nothing of a tree that was just read is changed.
ReadTree(text) ==
    [items |-> [i \in DOMAIN text |-> [says |-> text[i].says, form |-> text[i].form, dirty |-> FALSE]],
     pre   |-> [i \in DOMAIN text |-> text[i].sep],
     dirty |-> FALSE]

\* A node of our own, which KiCad's layout describes.
Built(says) == [says |-> says, form |-> AsKiCad, dirty |-> TRUE]

FormOf(node) == IF node.dirty THEN AsKiCad ELSE node.form

\* A root that was changed gets new separators; its items are asked one by one.
WriteTree(root) ==
    [i \in DOMAIN root.items |->
        [says |-> root.items[i].says, form |-> FormOf(root.items[i]),
         sep  |-> IF root.dirty THEN AsKiCad ELSE root.pre[i]]]

\* An edit forgets the space in front of every item, but for Append.
Changed(items, pre) == [items |-> items, pre |-> pre, dirty |-> TRUE]

NoSpace(items) == [i \in DOMAIN items |-> ""]

AppendNodes(root, nodes) == Changed(root.items \o nodes, root.pre \o NoSpace(nodes))

IndexOfNode(root, says) == SelectInSeq(root.items, LAMBDA n : n.says = says)

ReplaceNode(root, i, with) ==
    LET items == SubSeq(root.items, 1, i - 1) \o with \o SubSeq(root.items, i + 1, Len(root.items))
    IN  Changed(items, NoSpace(items))

\* Nothing that goes, nothing changed.
RemoveNodes(root, gone) ==
    LET items == Only(root.items, {n \in ToSet(root.items) : n.says \notin gone})
    IN  IF items = root.items THEN root ELSE Changed(items, NoSpace(items))

----------------------------------------------------------------------------
(* Tracks *)

SaysTrack(says) == says.name \in {"segment", "arc", "via"}

\* What a node says of a track, and the node that says it.  A via names the
\* first and the last of its layers, the others one.
NodeSays(t) ==
    [name |-> IF t.kind = "via" THEN "via" ELSE IF t.kind = "arc" THEN "arc" ELSE "segment",
     net |-> t.net, uuid |-> t.id, shape |-> t.box, layers |-> t.on]

TrackOf(says) ==
    [id |-> says.uuid, kind |-> IF says.name = "segment" THEN "track" ELSE says.name,
     net |-> says.net, on |-> says.layers, box |-> says.shape]

\* Track.Layers: a via is on every layer between its two, in whatever order
\* they are named; a layer the stackup does not have is taken as it is.
LayersOf(t) ==
    LET at(l) == SelectInSeq(CopperLayers, LAMBDA x : x = l)
        ends  == {at(l) : l \in ToSet(t.on)}
    IN  IF t.kind # "via" \/ 0 \in ends THEN ToSet(t.on)
        ELSE {CopperLayers[k] : k \in {j \in DOMAIN CopperLayers : \E a, b \in ends : a <= j /\ j <= b}}

OnNets(tracks) == [net \in {t.net : t \in tracks} |-> {t \in tracks : t.net = net}]

\* Parse: the tracks of the tree, in its order.
ParseBoard(text) ==
    LET root  == ReadTree(text)
        nodes == Only(root.items, {n \in ToSet(root.items) : SaysTrack(n.says)})
        all   == [i \in DOMAIN nodes |-> TrackOf(nodes[i].says)]
    IN  [root |-> root, tracks |-> all, byNet |-> OnNets(ToSet(all))]

Save(b) == WriteTree(b.root)

TracksOfNet(b, net) == IF net \in DOMAIN b.byNet THEN b.byNet[net] ELSE {}

BuiltAll(run) == [k \in DOMAIN run |-> Built(NodeSays(run[k]))]

\* AddTrack, for each track of a run in turn.
AddTracks(b, run) ==
    [root   |-> AppendNodes(b.root, BuiltAll(run)),
     tracks |-> b.tracks \o run,
     byNet  |-> [n \in DOMAIN b.byNet \cup {t.net : t \in ToSet(run)} |->
                    TracksOfNet(b, n) \cup {t \in ToSet(run) : t.net = n}]]

\* The new copper where the old was.
InPlace(list, old, with) ==
    FlattenSeq([i \in DOMAIN list |-> IF list[i] = old THEN with ELSE <<list[i]>>])

\* ReplaceTrack: not when the track is no longer in the tree.
ReplaceTrack(b, old, with) ==
    LET i == IndexOfNode(b.root, NodeSays(old))
    IN  IF i = 0 THEN b
        ELSE [root   |-> ReplaceNode(b.root, i, BuiltAll(with)),
              tracks |-> InPlace(b.tracks, old, with),
              byNet  |-> [b.byNet EXCEPT ![old.net] = IF old \in @ THEN (@ \ {old}) \cup ToSet(with) ELSE @]]

RemoveTracks(b, drop) ==
    LET root == RemoveNodes(b.root, {NodeSays(t) : t \in drop})
    IN  IF root = b.root THEN b
        ELSE [root   |-> root,
              tracks |-> Only(b.tracks, ToSet(b.tracks) \ drop),
              byNet  |-> [n \in DOMAIN b.byNet |-> b.byNet[n] \ drop]]
==============================================================================
