------------------------------ MODULE Clearance ------------------------------
(***************************************************************************)
(* drc/drc.go: copper, and whether more copper may be where it is wanted.  *)
(* Tracks run along one axis of an integer grid; a piece of copper is the  *)
(* box its centreline lies in, with the length of the line: a straight     *)
(* piece has a flat box, a meander or a step aside a high one.  Distances  *)
(* are between boxes, in the larger of the two directions; widths are left *)
(* out.  Nothing is required between copper of one net (the code keeps     *)
(* SameNetGap there, so that a meander does not touch its own net).        *)
(***************************************************************************)
EXTENDS Integers, FiniteSets, Sequences, SequencesExt

CONSTANTS
    Nets,
    ClearanceOf      \* [Nets -> Nat], Project.ClearanceOf

Box(x0, x1, lo, hi) == [x0 |-> x0, x1 |-> x1, lo |-> lo, hi |-> hi]

BoxOf(p) == Box(p.x0, p.x1, p.lo, p.hi)

IsStraight(p) == p.lo = p.hi

Larger(a, b) == IF a >= b THEN a ELSE b

Smaller(a, b) == IF a <= b THEN a ELSE b

\* How far apart two boxes are, 0 when they meet.
Apart(a, b) ==
    Larger(Larger(Larger(a.x0 - b.x1, b.x0 - a.x1), Larger(a.lo - b.hi, b.lo - a.hi)), 0)

\* A set as a sequence, in a strict order of its elements.
Ordered(S, before(_, _)) ==
    MapThenFoldSet(LAMBDA x, seq : Append(seq, x), <<>>, LAMBDA x : x,
                   LAMBDA s : CHOOSE x \in s : \A y \in s \ {x} : before(y, x), S)

Overlaps(a, b) == Apart(a, b) = 0

Within(a, b) == b.x0 <= a.x0 /\ a.x1 <= b.x1 /\ b.lo <= a.lo /\ a.hi <= b.hi

\* The areas the user asked for more space in, where both boxes are in one.
ZoneClearance(areas, a, b) ==
    Max({0} \cup {z.gap : z \in {y \in areas : Overlaps(a, y) /\ Overlaps(b, y)}})

\* mutant: the other net's class is not looked at
RequiredOwn(net, raised, areas, box, o) ==
    IF o.net = net THEN 0 ELSE Larger(Larger(ClearanceOf[net], raised), ZoneClearance(areas, box, BoxOf(o)))

\* The clearance between copper of a net, in a box, and an obstacle.
Required(net, raised, areas, box, o) ==
    IF o.net = net THEN 0
    ELSE Larger(Larger(Larger(ClearanceOf[net], raised), ClearanceOf[o.net]),
                ZoneClearance(areas, box, BoxOf(o)))

\* A candidate is boxes in the order they are drawn, on one layer, for a net,
\* with what it may touch and the clearance it is raised to.
Candidate(shapes, layer, net, exempt, raised) ==
    [shapes |-> shapes, layer |-> layer, net |-> net, exempt |-> exempt, raised |-> raised]

ClashesAt(cand, i, o, areas) ==
    /\ o.layer = cand.layer
    /\ o.id \notin cand.exempt
    /\ Apart(cand.shapes[i], BoxOf(o)) < Required(cand.net, cand.raised, areas, cand.shapes[i], o)

Clashing(cand, copper, areas) ==
    {o \in copper : \E i \in DOMAIN cand.shapes : ClashesAt(cand, i, o, areas)}

Clear(cand, copper, areas) == Clashing(cand, copper, areas) = {}

\* What a candidate clashes with and how near it comes: of an obstacle that
\* several of its shapes are too close to, the first is noted, the rest skipped.
FirstShape(cand, o, areas) ==
    CHOOSE i \in DOMAIN cand.shapes :
        /\ ClashesAt(cand, i, o, areas)
        /\ \A j \in 1 .. i - 1 : ~ClashesAt(cand, j, o, areas)

Worst(cand, copper, areas) ==
    [id \in {o.id : o \in Clashing(cand, copper, areas)} |->
        LET o == CHOOSE p \in copper : p.id = id
        IN  Apart(cand.shapes[FirstShape(cand, o, areas)], BoxOf(o))]

NoWorseThan(base, worst) ==
    \A id \in DOMAIN worst : id \in DOMAIN base /\ worst[id] >= base[id]

\* A replacement may go where the original was, and nowhere worse.
MayReplace(p, shapes, net, exempt, copper, areas) ==
    LET was == Candidate(<<BoxOf(p)>>, p.layer, net, exempt, 0)
        new == Candidate(shapes, p.layer, net, exempt, 0)
    IN  NoWorseThan(Worst(was, copper, areas), Worst(new, copper, areas))

----------------------------------------------------------------------------
(* Where copper may be added: tune/areas.go *)

\* No areas: anywhere.
AllowsSpan(areas, a, b, y) ==
    \/ areas = {}
    \/ \E z \in areas : z.x0 <= a /\ b <= z.x1 /\ z.lo <= y /\ y <= z.hi

\* How far a stretch may go to one side and stay in an area; most when anywhere.
RoomToward(areas, a, b, y, side, most) ==
    IF areas = {} THEN most
    ELSE Max({0} \cup {IF side = 1 THEN z.hi - y ELSE y - z.lo :
                         z \in {v \in areas : AllowsSpan({v}, a, b, y)}})
=============================================================================
