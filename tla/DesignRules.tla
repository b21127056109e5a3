----------------------------- MODULE DesignRules -----------------------------
(***************************************************************************)
(* board/project.go, rules.go, rulecond.go: what a board asks between two  *)
(* pieces of copper.  The net classes give every net a clearance; a custom *)
(* rule gives another one where its condition holds.  A condition is a     *)
(* sequence of tokens, parsed as the code parses it; what a term says of   *)
(* an item is data, so a condition stands for the set of items it is true  *)
(* of.  KiCad, which judges the board in the end, reads the same words of  *)
(* two items, and reads all of them.                                       *)
(***************************************************************************)
EXTENDS Integers, Sequences, SequencesExt, FiniteSets, TLC

CONSTANTS
    ClassClearance,  \* the net classes of the project, each with its clearance
    Patterns,        \* <<[class, nets]>>: the class the nets a glob matches get
    MinClearance,    \* the floor from Board Setup
    EdgeClearance,   \* what copper keeps from the board edge
    Courtyards,      \* the boxes of each footprint's courtyard
    Items            \* the copper a condition may be asked about

Box(x0, x1, y0, y1) == [x0 |-> x0, x1 |-> x1, y0 |-> y0, y1 |-> y1]

Larger(a, b) == IF a >= b THEN a ELSE b

Smaller(a, b) == IF a <= b THEN a ELSE b

Apart(a, b) ==
    Larger(Larger(Larger(a.x0 - b.x1, b.x0 - a.x1), Larger(a.y0 - b.y1, b.y0 - a.y1)), 0)

Overlaps(a, b) == Apart(a, b) = 0

Within(a, b) == b.x0 <= a.x0 /\ a.x1 <= b.x1 /\ b.y0 <= a.y0 /\ a.y1 <= b.y1

Grow(b, m) == Box(b.x0 - m, b.x1 + m, b.y0 - m, b.y1 + m)

\* The same function, which TLC evaluates once and keeps.
Table(f) == CHOOSE g \in {f} : g = f

\* The largest member of a set of indices, 0 when it is empty: later wins.
LastOf(S) == CHOOSE i \in S \cup {0} : \A j \in S : j <= i

----------------------------------------------------------------------------
(* Net classes *)

\* A pattern that names a class the project does not have is passed over.
Assigned(net) ==
    LastOf({i \in DOMAIN Patterns :
               net \in Patterns[i].nets /\ Patterns[i].class \in DOMAIN ClassClearance})

\* The classes a net is in: at most one, none when there is no Default.
ClassOf(net) ==
    IF Assigned(net) # 0 THEN {Patterns[Assigned(net)].class}
    ELSE {"Default"} \cap DOMAIN ClassClearance

ClearanceOf ==
    Table([net \in {i.net : i \in Items} |->
        IF ClassOf(net) = {} THEN MinClearance
        ELSE Larger(MinClearance, ClassClearance[CHOOSE c \in ClassOf(net) : TRUE])])

----------------------------------------------------------------------------
(* Conditions *)

\* mutant: a field it does not know is not refused
ReadableAnyField(t) == t.of \in {"A", "B"}

\* The terms this reads (enclosedByArea and memberOf are read as the first
\* two); any other fails the condition it stands in.
Readable(t) ==
    /\ t.of \in {"A", "B"}
    /\ t.field \in {"intersectsCourtyard", "memberOfFootprint", "Type", "NetName"}

Field(i, field) == IF field = "Type" THEN i.type ELSE IF field = "NetName" THEN i.net ELSE ""

InsideCourtyard(f, box) == \E c \in Courtyards[f] : Within(box, c)

\* What a term is true of.  B is read as A: a rule has to hold for both anyway.
Meaning(t) ==
    {i \in Items :
        CASE t.field = "intersectsCourtyard" -> InsideCourtyard(t.arg, i.box)
          [] t.field = "memberOfFootprint" -> i.owner = t.arg
          [] OTHER -> (Field(i, t.field) \in t.arg) = t.eq}

\* The parser: from a token, at a level of the grammar, the token after what
\* it read and what that is true of; nothing when it gives up.  ! before &&
\* before ||, brackets round any of them.
Nothing == [at |-> 0, set |-> {}]

Compile(cond, reads(_), meaning(_), all) ==
    LET Token(i) == IF i \in DOMAIN cond THEN cond[i] ELSE [tok |-> "end"]
        parse[level \in {"or", "and", "unary"}, i \in 1 .. Len(cond) + 2] ==
            LET joined(op, operand, join(_, _)) ==
                    LET left  == parse[operand, i]
                        right == parse[level, left.at + 1]
                    IN  IF left.at = 0 \/ Token(left.at).tok # op THEN left
                        ELSE IF right.at = 0 THEN Nothing
                        ELSE [at |-> right.at, set |-> join(left.set, right.set)]
            IN  CASE level = "or" -> joined("||", "and", LAMBDA s, t : s \cup t)
                  [] level = "and" -> joined("&&", "unary", LAMBDA s, t : s \cap t)
                  [] level = "unary" ->
                       LET inner == parse["unary", i + 1]
                           group == parse["or", i + 1]
                       IN  CASE Token(i).tok = "!" ->
                                  IF inner.at = 0 THEN Nothing
                                  ELSE [at |-> inner.at, set |-> all \ inner.set]
                             [] Token(i).tok = "(" ->
                                  IF group.at = 0 \/ Token(group.at).tok # ")" THEN Nothing
                                  ELSE [at |-> group.at + 1, set |-> group.set]
                             [] Token(i).tok = "term" ->
                                  IF reads(Token(i)) THEN [at |-> i + 1, set |-> meaning(Token(i))]
                                  ELSE Nothing
                             [] OTHER -> Nothing
        whole == parse["or", 1]
    IN  IF whole.at = Len(cond) + 1 THEN whole.set ELSE {}

\* ParseRules: a rule that sets no clearance, or whose condition cannot be read
\* to its end, is left out; here it matches nothing.
Match(rule) == IF rule.min > 0 THEN Compile(rule.cond, Readable, Meaning, Items) ELSE {}

Read(list) == [i \in DOMAIN list |-> [min |-> list[i].min, set |-> Match(list[i])]]

\* ClearanceFor: the last rule that holds for both items, 0 when none does.
ClearanceFor(read, a, b) ==
    LET i == LastOf({j \in DOMAIN read : {a, b} \subseteq read[j].set})
    IN  IF i = 0 THEN 0 ELSE read[i].min

----------------------------------------------------------------------------
(* KiCad: the last rule whose condition holds of the two items in either
   order; intersecting a courtyard is enough. *)

KicadMeaning(t) ==
    {p \in Items \X Items :
        LET i == IF t.of = "A" THEN p[1] ELSE p[2] IN
        IF t.field = "intersectsCourtyard" THEN \E c \in Courtyards[t.arg] : Overlaps(i.box, c)
        ELSE IF t.field = "NetClass" THEN (ClassOf(i.net) \subseteq t.arg) = t.eq
        ELSE i \in Meaning(t)}

KicadRead(list) ==
    [i \in DOMAIN list |->
        [min |-> list[i].min,
         set |-> Compile(list[i].cond, LAMBDA t : TRUE, KicadMeaning, Items \X Items)]]

KicadRequired(read, a, b) ==
    FoldLeft(LAMBDA min, r : IF r.min > 0 /\ (<<a, b>> \in r.set \/ <<b, a>> \in r.set) THEN r.min ELSE min,
             Larger(ClearanceOf[a.net], ClearanceOf[b.net]), read)
==============================================================================
