--------------------------- MODULE AreaSuggestion ---------------------------
(***************************************************************************)
(* tune/suggest.go, server/suggest.go: where the length could come from.   *)
(* The stretches with room beside them, of the nets that are out of        *)
(* tolerance, are gathered into the few areas that are worth most.         *)
(***************************************************************************)
EXTENDS Meander

CONSTANTS
    Margin,          \* stretches this near one another are one place
    MaxSuggestions   \* how many areas are proposed

SpotIn(r, amp) ==
    [net |-> r.track.net, run |-> r, gain |-> CapacityOf(r), box |-> Strip(r.track, r.from, r.to, r.side, amp)]

\* mutant: the stretch without the room beside it
SpotFlat(r) == SpotIn(r, 0)

\* A stretch with the copper a meander in it would occupy.
Spot(r) == SpotIn(r, r.amp)

\* Areas already drawn are not looked at: this is what the board offers.
Spots(net, on, copper) == {Spot(r) : r \in FindRuns(net, on, copper, {})}

Around(a, b) == Box(Smaller(a.x0, b.x0), Larger(a.x1, b.x1), Smaller(a.lo, b.lo), Larger(a.hi, b.hi))

GainOf(cluster) == MapThenSumSet(LAMBDA s : s.gain, cluster.spots)

NetsOf(cluster) == {s.net : s \in cluster.spots}

Joined(c, d) == [box |-> Around(c.box, d.box), spots |-> c.spots \cup d.spots]

Near(c, d) == Apart(c.box, d.box) <= Margin

\* A spot goes to the first cluster it is near.
Absorb(clusters, spot) ==
    LET alone == [box |-> spot.box, spots |-> {spot}]
        near == {i \in DOMAIN clusters : Near(clusters[i], alone)}
    IN  IF near = {} THEN Append(clusters, alone)
        ELSE [clusters EXCEPT ![Min(near)] = Joined(@, alone)]

\* Clusters that have grown near each other become one, the first two first.
MergeAt(clusters, pairs) ==
    LET p == CHOOSE q \in pairs : \A o \in pairs : q[1] < o[1] \/ (q[1] = o[1] /\ q[2] <= o[2])
    IN  IF pairs = {} THEN clusters
        ELSE RemoveAt([clusters EXCEPT ![p[1]] = Joined(@, clusters[p[2]])], p[2])

MergeFirst(clusters) ==
    MergeAt(clusters, {p \in (DOMAIN clusters) \X (DOMAIN clusters) :
                         p[1] < p[2] /\ Near(clusters[p[1]], clusters[p[2]])})

Clustered(spots) ==
    LET first == FoldLeft(Absorb, <<>>, spots)
    IN  FoldLeft(LAMBDA cs, c : MergeFirst(cs), first, first)

\* Worth the most first; equals come in any order in the code.
WorthMore(c, d) ==
    \/ GainOf(c) > GainOf(d)
    \/ GainOf(c) = GainOf(d) /\ Cardinality(NetsOf(c)) > Cardinality(NetsOf(d))
    \/ /\ GainOf(c) = GainOf(d) /\ Cardinality(NetsOf(c)) = Cardinality(NetsOf(d))
       /\ c.box.x0 < d.box.x0 \/ (c.box.x0 = d.box.x0 /\ c.box.lo < d.box.lo)

\* What is proposed: nothing worth less than a hundredth of what is needed.
Suggest(spots, need) ==
    LET best == Ordered({c \in ToSet(Clustered(spots)) : 100 * GainOf(c) >= need}, WorthMore)
    IN  {best[i] : i \in 1 .. Smaller(MaxSuggestions, Len(best))}

Drawn(cluster) ==
    [x0 |-> cluster.box.x0, x1 |-> cluster.box.x1, lo |-> cluster.box.lo, hi |-> cluster.box.hi, gap |-> 0]
=============================================================================
