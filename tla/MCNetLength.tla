---------------------------- MODULE MCNetLength -----------------------------
(***************************************************************************)
(* Some of nine pieces of copper between three pads.  Half widths are one  *)
(* step of the grid.  From pad P, s1 runs east to the corner at (8,0); k1  *)
(* and k2 are the short connectors of the corner; s2 goes on from them to  *)
(* the via v, and s3 from there, on the other side, to pad Q.  b branches  *)
(* off s1 to pad M, x branches off s1 and runs over M, g is a spur by the  *)
(* corner; a is an arc from the corner to v, longer than s2, with nothing  *)
(* by its side.                                                            *)
(***************************************************************************)
EXTENDS NetLength

MCTracks == {"s1", "k1", "k2", "s2", "s3", "b", "g", "x", "a"}
MCVias == {"v"}
MCPads == {"P", "Q", "M"}

MCStart(i) ==
    CASE i = "s1" -> <<0, 0>>  [] i = "k1" -> <<8, 0>>  [] i = "k2" -> <<8, 1>>
      [] i = "s2" -> <<9, 1>>  [] i = "s3" -> <<15, 1>> [] i = "b" -> <<2, 1>>
      [] i = "g" -> <<8, 2>>   [] i = "x" -> <<5, 1>>  [] i = "v" -> <<15, 1>>
      [] i = "a" -> <<8, 0>>

MCEnd(i) ==
    CASE i = "s1" -> <<8, 0>>  [] i = "k1" -> <<8, 1>>  [] i = "k2" -> <<9, 1>>
      [] i = "s2" -> <<15, 1>> [] i = "s3" -> <<15, 6>> [] i = "b" -> <<2, 7>>
      [] i = "g" -> <<11, 2>>  [] i = "x" -> <<5, 12>>   [] i = "v" -> <<15, 1>>
      [] i = "a" -> <<15, 1>>

MCCentre(p) == CASE p = "P" -> <<0, 0>> [] p = "Q" -> <<15, 6>> [] p = "M" -> <<4, 7>>

MCLayers(i) ==
    CASE i = "v" -> {"F.Cu", "B.Cu"} [] i \in {"s3", "Q"} -> {"B.Cu"} [] OTHER -> {"F.Cu"}

MCHalf(i) == 1

Geo == INSTANCE CopperGeometry WITH
    StartOf <- MCStart, EndOf <- MCEnd, CentreOf <- MCCentre,
    LayersOf <- MCLayers, HalfOf <- MCHalf, SnapFloor <- 1

MCSpan(v) == MCLayers(v)
MCSnaps(pair) == Geo!AtOneJunction(pair)
MCGap(pair) == Geo!Apart2(pair)
MCLands(t, s) == s # "a" /\ Geo!LandsOn(t, s)
MCAt(t, s) == Geo!TermAlong(t, s)
MCOff(t, s) == Geo!TermOff2(t, s)
MCOnPad(t, p) == Geo!EndsOnPad(t, p)
MCEntry(t, p) == Geo!PadEntry(t, p)
MCOver(s, p) == s # "a" /\ Geo!CrossesPad(s, p)
MCOverAt(s, p) == Geo!CrossAlong(s, p)
MCOverOff(s, p) == Geo!CrossEntry(s, p)
MCLength(s) == IF s = "a" THEN 11 ELSE Geo!TrackLength(s)
MCHalfBarrel(v) == 1
MCPackage(p) == IF p = "Q" THEN 2 ELSE 0

\* Two ways from P to Q, the longer one of fewer tracks.
MCLoop == {{"k1", "s2", "s3", "a"}}

\* All the nets of s1 and at most three more tracks, and the loop; a via where
\* s3 is, M a pad where something branches off or crosses.
MCNets == {[tracks |-> {"s1"} \cup T,
            vias |-> IF "s3" \in T THEN {"v"} ELSE {},
            pads |-> IF T \cap {"b", "x"} # {} THEN {"P", "Q", "M"} ELSE {"P", "Q"}] :
              T \in {T \in SUBSET MCTracks : Cardinality(T) <= 3} \cup MCLoop}

=============================================================================
