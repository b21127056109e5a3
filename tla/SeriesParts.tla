----------------------------- MODULE SeriesParts -----------------------------
(* Signals that pass through a series part (netlen/series.go): a resistor, a     *)
(* ferrite or a coupling capacitor splits one signal into two nets, and its      *)
(* length is the sum of theirs.  What must not happen is following a capacitor   *)
(* into a rail, or a terminator into the other half of a pair.                   *)
EXTENDS InterfaceNames

CONSTANTS
    Parts,          \* the two-pad parts: [kind |-> R, L, FB, C or another, ends |-> nets]
    Rails,          \* the nets named like a rail
    PadCount,       \* net -> how many pads it has
    Twins,          \* the endings that make two nets the halves of one pair
    MaxSeriesPads, MaxSeriesHops

\* What comes before the last word, on whatever sheet.
AllButLast(n) == SubSeq(Leaf(n), 1, Len(Leaf(n)) - 1)

\* A resistor across a pair ends it; it is nothing a signal runs through.
SameDiffPair(a, b) == AllButLast(a) = AllButLast(b) /\ {Last(Leaf(a)), Last(Leaf(b))} \in Twins

\* seriesLinks: the nets on the far side of the parts a signal can run through.
Links(n, nets) ==
    {far \in nets \ {n} : /\ \E p \in Parts : p.kind \in {"R", "L", "FB", "C"} /\ {n, far} = p.ends
                          /\ far \notin Rails /\ PadCount[far] <= MaxSeriesPads /\ ~SameDiffPair(n, far)}

\* The nets of a signal: all there are within so many parts.
Segments(n, nets) ==
    LET beyond(was, hop) ==
            LET next == (UNION {Links(m, nets) : m \in was.front}) \ was.seen
            IN  [seen |-> was.seen \cup next, front |-> next]
    IN  FoldLeft(beyond, [seen |-> {n}, front |-> {n}], [hop \in 1 .. MaxSeriesHops |-> hop]).seen

\* Joined: the sum of the segments, 0 when there is one with no route.
Joined(segments, own) ==
    IF \E m \in segments : own[m] = 0 THEN 0 ELSE MapThenSumSet(LAMBDA m : own[m], segments)
=============================================================================
