----------------------------- MODULE NetLength ------------------------------
(***************************************************************************)
(* netlen: how long a net is from pad to pad.  The ends of its copper are  *)
(* merged into junctions, closest first; a track is divided where that     *)
(* joins pieces still apart; pads are attached; and from every pad the     *)
(* shortest routes to the others are found.  Geometry is a parameter: what *)
(* touches what, how far apart, and how far along (see CopperGeometry).    *)
(* A delay is added up edge by edge exactly as a length is, and left out.  *)
(* sort.Slice keeps no order among equals: ties are taken in any order.    *)
(***************************************************************************)
EXTENDS Integers, FiniteSets, SequencesExt

CONSTANTS
    Tracks, Vias, Pads,     \* the copper there may be
    Nets,                   \* the nets measured: [tracks, vias, pads]
    Span(_),                \* the layers a via spans
    Snaps(_), Gap(_),       \* two ends are one junction's, and how far apart
    Lands(_, _), At(_, _), Off(_, _),
                            \* an end on a track, where along it, how far off
    OnPad(_, _), Entry(_, _),
                            \* an end on a pad, how far from its centre
    Over(_, _), OverAt(_, _), OverOff(_, _),
                            \* a track on a pad: where along it, how far off
    Length(_),              \* of a track
    HalfBarrel(_),          \* of a via, 0 when the board does not count them
    Package(_),             \* of a pad, 0 when not counted
    NoTJunctionSplits       \* Engine.NoTJunctionSplits

Copper == Tracks \cup Vias

Layers == UNION {Span(v) : v \in Vias}

Start(s) == <<s, "start">>
End(s)   == <<s, "end">>
Hub(v)   == <<v, "hub">>
PadNode(p) == <<p, "pad">>
Mid(p)   == <<p, "mid">>

AllTerms == (Tracks \X {"start", "end"}) \cup (Vias \X Layers)

Nodes == AllTerms \cup (Vias \X {"hub"}) \cup (Pads \X {"pad", "mid"})

ASSUME NetAssumption ==
    /\ IsFiniteSet(Tracks) /\ IsFiniteSet(Vias) /\ IsFiniteSet(Pads)
    /\ \A v \in Vias : IsFiniteSet(Span(v))
    /\ Tracks \cap Vias = {} /\ Tracks \cap Pads = {} /\ Vias \cap Pads = {}
    /\ Layers \cap {"start", "end", "hub", "pad", "mid", "none"} = {}
    /\ Nets \subseteq [tracks : SUBSET Tracks, vias : SUBSET Vias,
                       pads : (SUBSET Pads) \ {{}}]
    /\ \A s \in Tracks : Length(s) \in Nat
    /\ \A v \in Vias : HalfBarrel(v) \in Nat
    /\ \A p \in Pads : Package(p) \in Nat
    /\ \A t \in AllTerms, s \in Tracks : Lands(t, s) => At(t, s) \in 1 .. Length(s) - 1
    /\ \A t \in AllTerms, p \in Pads : OnPad(t, p) => Entry(t, p) \in Nat
    /\ \A s \in Tracks, p \in Pads :
          Over(s, p) => OverAt(s, p) \in 0 .. Length(s) /\ OverOff(s, p) \in Nat
    /\ NoTJunctionSplits \in BOOLEAN

NoNode == <<"none", "none">>

Terms(n) == {t \in AllTerms : \/ t[1] \in n.tracks
                              \/ t[1] \in n.vias /\ t[2] \in Span(t[1])}

\* Each end of a via has an owner of its own; the two of a track share one.
Owner(t) == IF t[1] \in Tracks THEN <<t[1], "track">> ELSE t

Owners == (Tracks \X {"track"}) \cup (Vias \X Layers)

SnapPairs(n) == {pair \in {{t, u} : t, u \in Terms(n)} : Cardinality(pair) = 2 /\ Snaps(pair)}

Landings(n) == {c \in Terms(n) \X n.tracks : Owner(c[1]) # <<c[2], "track">> /\ Lands(c[1], c[2])}

----------------------------------------------------------------------------
(* What a length is made of *)

Parts == [track : Nat, via : Nat, pad : Nat, package : Nat]

NoParts == [track |-> 0, via |-> 0, pad |-> 0, package |-> 0]

Plus(p, q) == [track |-> p.track + q.track, via |-> p.via + q.via,
               pad |-> p.pad + q.pad, package |-> p.package + q.package]

Sum(p) == p.track + p.via + p.pad + p.package

Edge(a, b, of, parts) == [ends |-> {a, b}, of |-> of, length |-> Sum(parts), parts |-> parts]

LinkTrack(a, b, s, len) == Edge(a, b, s, [NoParts EXCEPT !.track = len])

LinkVia(a, b, v) == Edge(a, b, v, [NoParts EXCEPT !.via = HalfBarrel(v)])

LinkPad(p, b, entry) ==
    Edge(PadNode(p), b, p, [NoParts EXCEPT !.pad = entry, !.package = Package(p)])

\* graph.add takes no edge from a node to itself.
Added(edges) == {e \in edges : Cardinality(e.ends) = 2}

Closest(S, far(_)) == {x \in S : \A y \in S : far(x) <= far(y)}

----------------------------------------------------------------------------
VARIABLES
    net,        \* the copper of the net measured
    pc,         \* "merging", "tracing", "splitting", "drawing",
                \* "attaching", "choosing", "routing" or "done"
    cands,      \* the pairs of ends not yet looked at
    root,       \* clusters.find
    owners,     \* clusters.owners
    todo,       \* the tracks and vias comp does not know yet, or not drawn yet
    comp,       \* find of the pieces already connected
    cands2,     \* the landings not yet looked at
    splits,     \* where each track is divided, and the node there
    links,      \* the edges of the graph
    pads,       \* the pads not yet attached, or not yet routed from
    src,        \* the pad the routes start at
    best,       \* the nodes reached, how far and from where
    heap,       \* heapq, as the set of its items
    paths,      \* Measure.Paths
    longest,    \* Measure.Longest, as the pair of pads it joins
    islands     \* Measure.Islands

junctions == <<cands, root, owners>>
pieces    == <<todo, comp, cands2, splits>>
routes    == <<src, best, heap>>
measure   == <<paths, longest, islands>>
vars      == <<net, pc, junctions, pieces, links, pads, routes, measure>>

Reached == [dist : Nat, parts : Parts, vias : Nat, prev : Nodes \cup {NoNode},
            of : Copper \cup Pads \cup {"none"}]

NoPath == [found |-> FALSE, length |-> 0, parts |-> NoParts, vias |-> 0, tracks |-> {}]

Init ==
    /\ net \in Nets
    /\ pc = "merging"
    /\ cands = SnapPairs(net)
    /\ root = [t \in Terms(net) |-> t]
    /\ owners = [t \in Terms(net) |-> {Owner(t)}]
    /\ todo = net.tracks \cup net.vias
    /\ comp = [x \in Terms(net) \cup (net.vias \X {"hub"}) |-> x]
    /\ cands2 = Landings(net)
    /\ splits = [s \in net.tracks |-> {}]
    /\ links = {}
    /\ pads = net.pads
    /\ src = (CHOOSE p \in net.pads : TRUE) /\ best = <<>> /\ heap = {}
    /\ paths = <<>> /\ longest = {} /\ islands = {}

----------------------------------------------------------------------------
(* Union-find: f maps each member to the root of its set *)

Union(f, a, b) == [x \in DOMAIN f |-> IF f[x] = f[a] THEN f[b] ELSE f[x]]

\* Mutant: clusters are merged without a look at their owners.
MergedAnyway(a, b) == a = b

\* Mutant: a cluster of two items is not merged any more.
RefusedLarge(a, b) == \/ a = b \/ owners[a] \cap owners[b] # {}
                      \/ Cardinality(owners[a]) > 1 \/ Cardinality(owners[b]) > 1

\* A merge is refused when an item has an end in both clusters.
Refused(a, b) == a = b \/ owners[a] \cap owners[b] # {}

\* The two clusters of a pair, the one with fewer owners first.
BySize(pair) ==
    LET a == root[CHOOSE t \in pair : TRUE]
        b == root[CHOOSE u \in pair : u # CHOOSE t \in pair : TRUE]
    IN  IF Cardinality(owners[a]) > Cardinality(owners[b]) THEN <<b, a>> ELSE <<a, b>>

\* clusters.union on the closest pair left.
Merge ==
    /\ pc = "merging"
    /\ \E pair \in Closest(cands, Gap) :
          LET small == BySize(pair)[1]
              large == BySize(pair)[2]
          IN  /\ IF Refused(small, large)
                 THEN UNCHANGED <<root, owners>>
                 ELSE /\ root' = Union(root, small, large)
                      /\ owners' = [owners EXCEPT ![large] = @ \cup owners[small],
                                                  ![small] = {}]
              /\ cands' = cands \ {pair}
    /\ UNCHANGED <<net, pc, pieces, links, pads, routes, measure>>

Merged ==
    /\ pc = "merging" /\ cands = {}
    /\ pc' = "tracing"
    /\ UNCHANGED <<net, junctions, pieces, links, pads, routes, measure>>

\* Both ends of a track, and all of a via, are one piece of copper.
Trace ==
    /\ pc = "tracing" /\ todo # {}
    /\ LET i == CHOOSE i \in todo : TRUE
           mine == {comp[root[t]] : t \in {t \in Terms(net) : t[1] = i}}
           whole == IF i \in Tracks THEN comp[root[Start(i)]] ELSE comp[Hub(i)]
       IN  /\ comp' = [x \in DOMAIN comp |-> IF comp[x] \in mine THEN whole ELSE comp[x]]
           /\ todo' = todo \ {i}
    /\ UNCHANGED <<net, pc, junctions, cands2, splits, links, pads, routes, measure>>

Traced ==
    /\ pc = "tracing" /\ todo = {}
    /\ pc' = "splitting"
    /\ cands2' = IF NoTJunctionSplits THEN {} ELSE cands2
    /\ UNCHANGED <<net, junctions, todo, comp, splits, links, pads, routes, measure>>

\* An end that lands on a track divides it if the two are still apart.
Split ==
    /\ pc = "splitting"
    /\ \E c \in Closest(cands2, LAMBDA d : Off(d[1], d[2])) :
          LET a == root[c[1]]
              b == root[Start(c[2])]
          IN  /\ IF comp[a] = comp[b]
                 THEN UNCHANGED <<comp, splits>>
                 ELSE /\ comp' = Union(comp, a, b)
                      /\ splits' = [splits EXCEPT ![c[2]] =
                                       @ \cup {[at |-> At(c[1], c[2]), node |-> a]}]
              /\ cands2' = cands2 \ {c}
    /\ UNCHANGED <<net, pc, junctions, todo, links, pads, routes, measure>>

\* Where a track is divided, its ends among them.
Cuts(s) == splits[s] \cup {[at |-> 0, node |-> root[Start(s)]],
                           [at |-> Length(s), node |-> root[End(s)]]}

\* The divisions of a track in order along it.
Chains(s) == {chain \in SetToSeqs(Cuts(s)) :
                 \A k \in 1 .. Len(chain) - 1 : chain[k].at <= chain[k + 1].at}

Piece(s, chain, k) ==
    LinkTrack(chain[k].node, chain[k + 1].node, s, chain[k + 1].at - chain[k].at)

\* A track from its start to its end through the nodes it is divided at.
PiecesOf(s, chain) == {Piece(s, chain, k) : k \in 1 .. Len(chain) - 1}

\* Half the barrel from the middle of a via to each layer it spans.
BarrelOf(v) == IF Cardinality(Span(v)) < 2 THEN {}
               ELSE {LinkVia(Hub(v), root[<<v, l>>], v) : l \in Span(v)}

SplitsDone ==
    /\ pc = "splitting" /\ cands2 = {}
    /\ pc' = "drawing"
    /\ todo' = net.tracks
    /\ UNCHANGED <<net, junctions, comp, cands2, splits, links, pads, routes, measure>>

DrawTrack ==
    /\ pc = "drawing" /\ todo # {}
    /\ LET s == CHOOSE s \in todo : TRUE
       IN  /\ \E chain \in Chains(s) : links' = links \cup Added(PiecesOf(s, chain))
           /\ todo' = todo \ {s}
    /\ UNCHANGED <<net, pc, junctions, comp, cands2, splits, pads, routes, measure>>

DrawVias ==
    /\ pc = "drawing" /\ todo = {}
    /\ links' = links \cup Added(UNION {BarrelOf(v) : v \in net.vias})
    /\ pc' = "attaching"
    /\ UNCHANGED <<net, junctions, pieces, pads, routes, measure>>

\* A pad is joined to every end on it, or else to the nearest track over it,
\* which gets a second way from end to end through the point nearest the pad.
Attach ==
    /\ pc = "attaching" /\ pads # {}
    /\ LET p == CHOOSE p \in pads : TRUE
           ends == {t \in Terms(net) : OnPad(t, p)}
           over == Closest({s \in net.tracks : Over(s, p)}, LAMBDA s : OverOff(s, p))
       IN  /\ IF ends # {}
              THEN links' = links \cup {LinkPad(p, root[t], Entry(t, p)) : t \in ends}
              ELSE IF over = {} THEN UNCHANGED links
              ELSE \E s \in over : links' = links \cup Added({
                      LinkTrack(root[Start(s)], Mid(p), s, OverAt(s, p)),
                      LinkTrack(Mid(p), root[End(s)], s, Length(s) - OverAt(s, p)),
                      LinkPad(p, Mid(p), OverOff(s, p))})
           /\ pads' = pads \ {p}
    /\ UNCHANGED <<net, pc, junctions, pieces, routes, measure>>

Attached ==
    /\ pc = "attaching" /\ pads = {}
    /\ pads' = net.pads
    /\ pc' = "choosing"
    /\ UNCHANGED <<net, junctions, pieces, links, routes, measure>>

----------------------------------------------------------------------------
(* Measure: routes from every pad to those after it *)

StartFrom(p) ==
    /\ pc = "choosing"
    /\ p \in pads
    /\ src' = p
    /\ best' = [n \in {PadNode(p)} |->
                  [dist |-> 0, parts |-> NoParts, vias |-> 0, prev |-> NoNode, of |-> "none"]]
    /\ heap' = {<<PadNode(p), 0>>}
    /\ pc' = "routing"
    /\ UNCHANGED <<net, junctions, pieces, links, pads, measure>>

\* Mutant: the first way to a node is kept.
NearerOnce(n, d) ==
    {e \in links : n \in e.ends /\ \A m \in e.ends \ {n} : m \notin DOMAIN best}

\* The edges from n that bring somebody nearer than he was, d being n's distance.
Nearer(n, d) ==
    {e \in links : /\ n \in e.ends
                   /\ \A m \in e.ends \ {n} :
                         m \notin DOMAIN best \/ d + e.length < best[m].dist}

Beyond(n, e) == CHOOSE m \in e.ends : m # n

Through(n, e) ==
    [dist |-> best[n].dist + e.length, parts |-> Plus(best[n].parts, e.parts),
     vias |-> best[n].vias + (IF e.of \in Vias THEN 1 ELSE 0), prev |-> n, of |-> e.of]

\* dijkstraFrom takes the nearest item; one that was bettered since is stale.
\* (A worse of two parallel edges, tried first, leaves another stale item.)
Pop ==
    /\ pc = "routing"
    /\ \E it \in Closest(heap, LAMBDA x : x[2]) :
          LET n == it[1]
              edges == Nearer(n, it[2])
              nearer == {Beyond(n, e) : e \in edges}
              by(m) == CHOOSE e \in Closest({e \in edges : m \in e.ends}, LAMBDA e : e.length) : TRUE
          IN  IF it[2] > best[n].dist
              THEN heap' = heap \ {it} /\ UNCHANGED best
              ELSE /\ best' = [m \in DOMAIN best \cup nearer |->
                                 IF m \in nearer THEN Through(n, by(m)) ELSE best[m]]
                   /\ heap' = (heap \ {it}) \cup {<<m, Through(n, by(m)).dist>> : m \in nearer}
    /\ UNCHANGED <<net, pc, junctions, pieces, links, pads, src, measure>>

\* The copper on the way back to the source.
TracksOnRoute(n) ==
    LET walk[m \in DOMAIN best] ==
            IF best[m].prev = NoNode THEN {} ELSE {best[m].of} \cup walk[best[m].prev]
    IN  walk[n] \cap Copper

PathTo(q) ==
    IF PadNode(q) \notin DOMAIN best THEN NoPath
    ELSE LET b == best[PadNode(q)]
         IN  [found |-> TRUE, length |-> b.dist, parts |-> b.parts, vias |-> b.vias \div 2,
              tracks |-> TracksOnRoute(PadNode(q))]

Record ==
    /\ pc = "routing" /\ heap = {}
    /\ LET others == pads \ {src}
           keys == {{src, q} : q \in others}
           of(k) == PathTo(CHOOSE q \in k : q # src)
           len(k) == IF k = {} THEN 0 ELSE IF k \in keys THEN of(k).length ELSE paths[k].length
       IN  /\ paths' = [k \in DOMAIN paths \cup keys |-> IF k \in keys THEN of(k) ELSE paths[k]]
           /\ longest' \in Closest({longest} \cup {k \in keys : len(k) > len(longest)},
                                   LAMBDA k : -len(k))
           /\ pads' = others
    /\ pc' = "choosing"
    /\ UNCHANGED <<net, junctions, pieces, links, routes, islands>>

\* islands: pads joined by some route.
Islands ==
    LET join(k, groups) == LET met == {g \in groups : g \cap k # {}}
                           IN  (groups \ met) \cup {UNION met}
    IN  FoldSet(join, {{p} : p \in net.pads}, {k \in DOMAIN paths : paths[k].found})

Finish ==
    /\ pc = "choosing" /\ pads = {}
    /\ islands' = Islands
    /\ pc' = "done"
    /\ UNCHANGED <<net, junctions, pieces, links, pads, routes, paths, longest>>

BuildGraph == \/ Merge \/ Merged \/ Trace \/ Traced \/ Split \/ SplitsDone
              \/ DrawTrack \/ DrawVias \/ Attach \/ Attached

Next == \/ BuildGraph
        \/ \E p \in Pads : StartFrom(p)
        \/ Pop \/ Record \/ Finish

Spec == Init /\ [][Next]_vars /\ WF_vars(Next)

----------------------------------------------------------------------------
(* References the measurement is compared with *)

\* Where w leads over one edge more, and of several ways to a node the shortest.
Onward(edges, w) ==
    {<<CHOOSE m \in e.ends : m # w[1], w[2] + e.length>> : e \in {e \in edges : w[1] \in e.ends}}

Least(found) == {w \in found : \A x \in found : x[1] = w[1] => w[2] <= x[2]}

Further(edges, found) == Least(found \cup UNION {Onward(edges, w) : w \in found})

\* Every node that can be reached from a, with its shortest distance: over as
\* many edges as there are nodes, one more in each round (Bellman and Ford).
Distances(edges, a) ==
    LET rounds == Cardinality(UNION {e.ends : e \in edges})
        within[k \in 0 .. rounds] ==
            IF k = 0 THEN {<<a, 0>>} ELSE Further(edges, within[k - 1])
    IN  within[rounds]

----------------------------------------------------------------------------
(* Properties *)

\* However the merges come, no junction swallows a piece of copper: the two
\* ends of a track stay in different clusters (graph.go, clusters.union).
OneEndEach == \A s \in net.tracks : root[Start(s)] # root[End(s)]

\* What touches is joined in the graph to come: ends at one junction though
\* their merge was refused, and, when the divisions are made, whatever ends on
\* a track (graph.go, buildGraph).
TouchingJoined ==
    pc \notin {"merging", "tracing"} =>
        /\ \A pair \in SnapPairs(net) : \A t, u \in pair : comp[root[t]] = comp[root[u]]
        /\ ~NoTJunctionSplits =>
              \A c \in Landings(net) \ cands2 : comp[root[c[1]]] = comp[root[Start(c[2])]]

\* The route from p to q is as long as the shortest way there is and its parts
\* add up to that; none is found only where there is no way.
Shortest(p, q) ==
    LET r == paths[{p, q}]
        distances == Distances(links, PadNode(p))
    IN  IF r.found THEN <<PadNode(q), r.length>> \in distances /\ r.length = Sum(r.parts)
        ELSE \A w \in distances : w[1] # PadNode(q)

Barrels(S) == MapThenSumSet(LAMBDA v : 2 * HalfBarrel(v), S)

\* A whole barrel for each via it runs over.
BarrelsWhole(r) ==
    LET crossed == r.tracks \cap Vias
    IN  r.vias = Cardinality(crossed) /\ r.parts.via = Barrels(crossed)

\* A route is the shortest in the graph and is missing only where there is none,
\* its parts add up to its length, and it has a whole barrel for each via it
\* runs over (netlen.go, Path), wherever it was started from.
RoutesShortest ==
    pc = "done" => \A p \in net.pads : \A q \in net.pads \ {p} :
        Shortest(p, q) /\ BarrelsWhole(paths[{p, q}])

=============================================================================
