--------------------------- MODULE CopperGeometry ---------------------------
(***************************************************************************)
(* netlen/graph.go, geom/geom.go: where pieces of copper touch.  Tracks    *)
(* run along an axis between points of an integer grid, pads are round;    *)
(* distances are compared by their squares, as exactly as the code's       *)
(* floats compare them.                                                    *)
(***************************************************************************)
EXTENDS Integers, FiniteSets

CONSTANTS
    StartOf(_), EndOf(_),   \* the ends of a track; of a via, its centre twice
    CentreOf(_),            \* of a pad
    LayersOf(_),            \* of a track (one), a via or a pad
    HalfOf(_),              \* half the width of a track, the radius of the rest
    SnapFloor               \* the least reach of two ends, a natural number

\* A terminal is <<item, end>>, the end of a via being a layer it spans.
PointOf(t) == IF t[2] = "end" THEN EndOf(t[1]) ELSE StartOf(t[1])

OnLayer(t, l) == IF t[2] \in {"start", "end"} THEN l \in LayersOf(t[1]) ELSE l = t[2]

SameLayer(t, u) == \E l \in LayersOf(t[1]) : OnLayer(t, l) /\ OnLayer(u, l)

Abs(n) == IF n < 0 THEN -n ELSE n

Clamp(n, low, high) == IF n < low THEN low ELSE IF n > high THEN high ELSE n

Dist2(p, q) == (p[1] - q[1]) * (p[1] - q[1]) + (p[2] - q[2]) * (p[2] - q[2])

\* The distance of two points on one line along an axis.
AxisDist(p, q) == Abs(p[1] - q[1]) + Abs(p[2] - q[2])

SnapTolerance(t, u) ==
    LET d == HalfOf(t[1]) + HalfOf(u[1]) IN IF d > SnapFloor THEN d ELSE SnapFloor

----------------------------------------------------------------------------
(* Ends at one junction *)

Apart2(pair) == LET t == CHOOSE x \in pair : TRUE
                    u == CHOOSE x \in pair \ {t} : TRUE
                IN  Dist2(PointOf(t), PointOf(u))

AtOneJunction(pair) ==
    LET t == CHOOSE x \in pair : TRUE
        u == CHOOSE x \in pair \ {t} : TRUE
    IN  /\ SameLayer(t, u)
        /\ Apart2(pair) <= SnapTolerance(t, u) * SnapTolerance(t, u)

----------------------------------------------------------------------------
(* The point of a track nearest to another, as the distance from its start *)

TrackLength(s) == AxisDist(StartOf(s), EndOf(s))

Along(s, p) ==
    LET a == StartOf(s)
        b == EndOf(s)
        dot == (p[1] - a[1]) * (b[1] - a[1]) + (p[2] - a[2]) * (b[2] - a[2])
    IN  IF TrackLength(s) = 0 THEN 0 ELSE Clamp(dot \div TrackLength(s), 0, TrackLength(s))

NearestOn(s, p) ==
    LET a == StartOf(s)
        b == EndOf(s)
        step(i) == IF b[i] > a[i] THEN 1 ELSE IF b[i] < a[i] THEN -1 ELSE 0
    IN  <<a[1] + step(1) * Along(s, p), a[2] + step(2) * Along(s, p)>>

TermAlong(t, s) == Along(s, PointOf(t))

TermOff2(t, s) == Dist2(PointOf(t), NearestOn(s, PointOf(t)))

\* Copper ends partway along a track: within reach, and at neither end of it.
LandsOn(t, s) ==
    LET reach == HalfOf(s) + HalfOf(t[1])
    IN  /\ t[1] # s
        /\ \E l \in LayersOf(s) : OnLayer(t, l)
        /\ TermOff2(t, s) <= reach * reach
        /\ TermAlong(t, s) \in 1 .. TrackLength(s) - 1

----------------------------------------------------------------------------
(* Copper on a pad *)

TouchesPad(p, point, half) ==
    Dist2(CentreOf(p), point) <= (HalfOf(p) + half) * (HalfOf(p) + half)

EndsOnPad(t, p) ==
    /\ \E l \in LayersOf(p) : OnLayer(t, l)
    /\ TouchesPad(p, PointOf(t), HalfOf(t[1]))

PadEntry(t, p) == AxisDist(CentreOf(p), PointOf(t))

CrossesPad(s, p) ==
    /\ LayersOf(s) \cap LayersOf(p) # {}
    /\ TouchesPad(p, NearestOn(s, CentreOf(p)), HalfOf(s))

CrossAlong(s, p) == Along(s, CentreOf(p))

CrossEntry(s, p) == AxisDist(CentreOf(p), NearestOn(s, CentreOf(p)))
=============================================================================
