---------------------------- MODULE Router_proofs ----------------------------
(***************************************************************************)
(* Proofs about Router, for any requests, geometry and bounds.             *)
(***************************************************************************)
EXTENDS Router, TLAPS, FiniteSetTheorems, SequenceTheorems

----------------------------------------------------------------------------
(* Sequences without repetitions. *)

LEMMA ToSetConcat ==
    ASSUME NEW S, NEW s \in Seq(S), NEW t \in Seq(S)
    PROVE  /\ s \o t \in Seq(S)
           /\ ToSet(s \o t) = ToSet(s) \cup ToSet(t)
<1>1. s \o t \in Seq(S) /\ Len(s \o t) = Len(s) + Len(t)
  BY ConcatProperties
<1>2. ToSet(s \o t) \subseteq ToSet(s) \cup ToSet(t)
  <2> SUFFICES ASSUME NEW i \in 1 .. (Len(s) + Len(t))
               PROVE  (s \o t)[i] \in ToSet(s) \cup ToSet(t)
    BY <1>1 DEF ToSet
  <2>1. CASE i <= Len(s)
    BY <2>1, ConcatProperties DEF ToSet
  <2>2. CASE i > Len(s)
    <3>1. (s \o t)[i] = t[i - Len(s)] /\ i - Len(s) \in 1 .. Len(t)
      BY <2>2, ConcatProperties
    <3> QED
      BY <3>1 DEF ToSet
  <2> QED
    BY <2>1, <2>2
<1>3. ToSet(s) \subseteq ToSet(s \o t)
  BY <1>1, ConcatProperties DEF ToSet
<1>4. ToSet(t) \subseteq ToSet(s \o t)
  <2> SUFFICES ASSUME NEW j \in 1 .. Len(t)
               PROVE  t[j] \in ToSet(s \o t)
    BY DEF ToSet
  <2>1. (s \o t)[Len(s) + j] = t[j] /\ Len(s) + j \in 1 .. Len(s \o t)
    BY <1>1, ConcatProperties
  <2> QED
    BY <2>1, <1>1 DEF ToSet
<1> QED
  BY <1>1, <1>2, <1>3, <1>4

\* No repetitions in either part, and nothing in both.
LEMMA InjectiveConcat ==
    ASSUME NEW S, NEW s \in Seq(S), NEW t \in Seq(S)
    PROVE  IsInjective(s \o t) <=>
               /\ IsInjective(s) /\ IsInjective(t)
               /\ ToSet(s) \cap ToSet(t) = {}
<1> DEFINE n == Len(s)
           m == Len(t)
           c == s \o t
<1>1. /\ n \in Nat /\ m \in Nat
      /\ DOMAIN s = 1 .. n /\ DOMAIN t = 1 .. m /\ DOMAIN c = 1 .. (n + m)
  BY ConcatProperties
<1>2. \A i \in 1 .. n : c[i] = s[i]
  BY <1>1, ConcatProperties
<1>3. \A j \in 1 .. m : c[n + j] = t[j]
  BY <1>1, ConcatProperties
<1> HIDE DEF n, m, c
<1>4. ASSUME IsInjective(c)
      PROVE  IsInjective(s) /\ IsInjective(t) /\ ToSet(s) \cap ToSet(t) = {}
  <2>1. IsInjective(s)
    BY <1>1, <1>2, <1>4 DEF IsInjective
  <2>2. IsInjective(t)
    <3> SUFFICES ASSUME NEW i \in 1 .. m, NEW j \in 1 .. m, t[i] = t[j]
                 PROVE  i = j
      BY <1>1 DEF IsInjective
    <3>1. n + i \in 1 .. (n + m) /\ n + j \in 1 .. (n + m)
      BY <1>1
    <3>2. n + i = n + j
      BY <1>1, <1>3, <1>4, <3>1 DEF IsInjective
    <3> QED
      BY <1>1, <3>2
  <2>3. \A i \in 1 .. n, j \in 1 .. m : s[i] # t[j]
    <3> SUFFICES ASSUME NEW i \in 1 .. n, NEW j \in 1 .. m, s[i] = t[j]
                 PROVE  FALSE
      OBVIOUS
    <3>1. i \in 1 .. (n + m) /\ n + j \in 1 .. (n + m)
      BY <1>1
    <3>2. i = n + j
      BY <1>1, <1>2, <1>3, <1>4, <3>1 DEF IsInjective
    <3> QED
      BY <1>1, <3>2
  <2> QED
    BY <1>1, <2>1, <2>2, <2>3 DEF ToSet
<1>5. ASSUME IsInjective(s), IsInjective(t), ToSet(s) \cap ToSet(t) = {}
      PROVE  IsInjective(c)
  <2> SUFFICES ASSUME NEW i \in 1 .. (n + m), NEW j \in 1 .. (n + m),
                      i <= j, c[i] = c[j]
               PROVE  i = j
    BY <1>1 DEF IsInjective
  <2>1. CASE j <= n
    BY <1>1, <1>2, <1>5, <2>1 DEF IsInjective
  <2>2. CASE i > n
    <3>1. i - n \in 1 .. m /\ j - n \in 1 .. m
      BY <1>1, <2>2
    <3>2. c[n + (i - n)] = t[i - n] /\ c[n + (j - n)] = t[j - n]
      BY <1>3, <3>1
    <3>3. \A a, b \in 1 .. m : t[a] = t[b] => a = b
      BY <1>1, <1>5 DEF IsInjective
    <3>4. n + (i - n) = i /\ n + (j - n) = j
      BY <1>1
    <3>5. t[i - n] = t[j - n]
      BY <3>2, <3>4
    <3>6. i - n = j - n
      BY <3>1, <3>3, <3>5
    <3> QED
      BY <1>1, <3>6
  <2>3. CASE i <= n /\ j > n
    <3>1. i \in 1 .. n /\ j - n \in 1 .. m
      BY <1>1, <2>3
    <3>2. s[i] = t[j - n]
      <4>1. c[n + (j - n)] = t[j - n] /\ n + (j - n) = j
        BY <1>1, <1>3, <3>1
      <4> QED
        BY <1>2, <3>1, <4>1
    <3>3. s[i] \in ToSet(s) /\ t[j - n] \in ToSet(t)
      BY <1>1, <3>1 DEF ToSet
    <3> QED
      BY <1>5, <3>2, <3>3
  <2> QED
    BY <1>1, <2>1, <2>2, <2>3
<1> QED
  BY <1>4, <1>5 DEF c

LEMMA OneElement ==
    ASSUME NEW S, NEW x \in S
    PROVE  <<x>> \in Seq(S) /\ ToSet(<<x>>) = {x} /\ IsInjective(<<x>>)
BY DEF ToSet, IsInjective

LEMMA Nothing ==
    ASSUME NEW S
    PROVE  <<>> \in Seq(S) /\ ToSet(<<>>) = {} /\ IsInjective(<<>>)
BY DEF ToSet, IsInjective

LEMMA HeadApart ==
    ASSUME NEW S, NEW s \in Seq(S), s # <<>>
    PROVE  /\ Head(s) \in S /\ Tail(s) \in Seq(S)
           /\ ToSet(s) = {Head(s)} \cup ToSet(Tail(s))
           /\ IsInjective(s) <=> /\ IsInjective(Tail(s))
                                /\ Head(s) \notin ToSet(Tail(s))
<1> DEFINE h == Head(s)
           r == Tail(s)
<1>1. h \in S /\ r \in Seq(S) /\ s = <<h>> \o r
  BY HeadTailProperties
<1> HIDE DEF h, r
<1>2. <<h>> \in Seq(S) /\ ToSet(<<h>>) = {h} /\ IsInjective(<<h>>)
  BY <1>1, OneElement
<1> DEFINE first == <<h>>
<1> HIDE DEF first
<1>3. first \in Seq(S) /\ ToSet(first) = {h} /\ IsInjective(first)
  BY <1>2 DEF first
<1>4. ToSet(first \o r) = ToSet(first) \cup ToSet(r)
  BY <1>1, <1>3, ToSetConcat
<1>5. IsInjective(first \o r) <=> /\ IsInjective(first) /\ IsInjective(r)
                                 /\ ToSet(first) \cap ToSet(r) = {}
  BY <1>1, <1>3, InjectiveConcat
<1>6. s = first \o r
  BY <1>1 DEF first
<1> QED
  BY <1>1, <1>3, <1>4, <1>5, <1>6 DEF h, r

LEMMA AppendApart ==
    ASSUME NEW S, NEW s \in Seq(S), NEW x \in S
    PROVE  /\ Append(s, x) \in Seq(S)
           /\ ToSet(Append(s, x)) = ToSet(s) \cup {x}
           /\ IsInjective(Append(s, x)) <=> IsInjective(s) /\ x \notin ToSet(s)
<1>1. <<x>> \in Seq(S) /\ ToSet(<<x>>) = {x} /\ IsInjective(<<x>>)
  BY OneElement
<1>2. Append(s, x) = s \o <<x>>
  BY AppendIsConcat
<1>3. s \o <<x>> \in Seq(S) /\ ToSet(s \o <<x>>) = ToSet(s) \cup ToSet(<<x>>)
  BY <1>1, ToSetConcat
<1>4. IsInjective(s \o <<x>>) <=> /\ IsInjective(s) /\ IsInjective(<<x>>)
                                 /\ ToSet(s) \cap ToSet(<<x>>) = {}
  BY <1>1, InjectiveConcat
<1> QED
  BY <1>1, <1>2, <1>3, <1>4

LEMMA ThreeLists ==
    ASSUME NEW S, NEW s \in Seq(S), NEW t \in Seq(S), NEW u \in Seq(S)
    PROVE  /\ ToSet(s \o t \o u) = ToSet(s) \cup ToSet(t) \cup ToSet(u)
           /\ IsInjective(s \o t \o u) <=>
                 /\ IsInjective(s) /\ IsInjective(t) /\ IsInjective(u)
                 /\ ToSet(s) \cap ToSet(t) = {}
                 /\ ToSet(u) \cap (ToSet(s) \cup ToSet(t)) = {}
<1> DEFINE c == s \o t
<1>1. c \in Seq(S) /\ ToSet(c) = ToSet(s) \cup ToSet(t)
  BY ToSetConcat
<1>2. IsInjective(c) <=> /\ IsInjective(s) /\ IsInjective(t)
                        /\ ToSet(s) \cap ToSet(t) = {}
  BY InjectiveConcat
<1> HIDE DEF c
<1>3. ToSet(c \o u) = ToSet(c) \cup ToSet(u)
  BY <1>1, ToSetConcat
<1>4. IsInjective(c \o u) <=> /\ IsInjective(c) /\ IsInjective(u)
                             /\ ToSet(c) \cap ToSet(u) = {}
  BY <1>1, InjectiveConcat
<1> QED
  BY <1>1, <1>2, <1>3, <1>4 DEF c

\* HardestFirst lists every element of a finite set once.
LEMMA ListsEachOnce ==
    ASSUME NEW S, IsFiniteSet(S), NEW s \in HardestFirst(S)
    PROVE  s \in Seq(S) /\ IsInjective(s) /\ ToSet(s) = S
<1> DEFINE n == Cardinality(S)
<1>1. n \in Nat
  BY FS_CardinalityType
<1>2. s \in [1 .. n -> S] /\ \A i, j \in 1 .. n : i # j => s[i] # s[j]
  BY DEF HardestFirst, SetToSeqs
<1>3. IsFiniteSet(1 .. n) /\ Cardinality(1 .. n) = n
  BY <1>1, FS_Interval
<1> DEFINE D == 1 .. n
<1>4. IsInjective(s) /\ s \in Injection(D, S)
  BY <1>2 DEF IsInjective, Injection
<1>5. s \in Surjection(D, S)
  <2> HIDE DEF D
  <2>1. Cardinality(D) = n
    BY <1>3 DEF D
  <2> QED
    BY <1>4, <2>1, FS_Injection
<1>6. s \in Seq(S)
  BY <1>1, <1>2
<1>7. ToSet(s) = S
  BY <1>1, <1>2, <1>5 DEF ToSet, Surjection
<1> QED
  BY <1>4, <1>6, <1>7

----------------------------------------------------------------------------
(* Types. *)

LEMMA RouterTypeInit == Init => TypeOK
<1> SUFFICES ASSUME Init PROVE TypeOK
  OBVIOUS
<1> USE DEF Init
<1>1. queue \in Seq(Reqs)
  BY ListsEachOnce, RouterAssumption
<1>2. failed \in Seq(Reqs) /\ todo \in Seq(Reqs) /\ again \in Seq(Reqs)
  OBVIOUS
<1>3. owner \in [Cells -> Nets \cup {Free, Blocked}]
  <2> DEFINE near(c) == {t.net : t \in {u \in Existing : Clash({c}, u.path)}}
  <2>1. \A c \in Cells : near(c) \subseteq Nets
    BY DEF Nets
  <2>2. ASSUME NEW c \in Cells
        PROVE  Rasterised[c] \in Nets \cup {Free, Blocked}
    <3>1. CASE \E n \in near(c) : near(c) = {n}
      <4>1. (CHOOSE n \in near(c) : TRUE) \in near(c)
        BY <3>1
      <4> HIDE DEF near
      <4>2. near(c) # {}
        BY <3>1
      <4>3. Rasterised[c] = CHOOSE n \in near(c) : TRUE
        BY <3>1, <4>2 DEF Rasterised, near
      <4> QED
        BY <2>1, <4>1, <4>3
    <3>2. CASE ~\E n \in near(c) : near(c) = {n}
      <4>1. Rasterised[c] \in {Free, Blocked}
        BY <3>2 DEF Rasterised
      <4> QED
        BY <4>1
    <3> QED
      BY <3>1, <3>2
  <2>3. Rasterised = [c \in Cells |-> Rasterised[c]]
    BY DEF Rasterised
  <2> HIDE DEF near
  <2> QED
    BY <2>2, <2>3
<1>4. /\ round \in 0 .. MaxRipUp /\ ripped \in [Reqs -> 0 .. MaxRipUp]
      /\ tries \in 0 .. MaxTries /\ counter \in Nat
  BY RouterAssumption
<1>5. board \subseteq Tracks /\ chk \subseteq Tracks
  BY RouterAssumption
<1> QED
  BY <1>1, <1>2, <1>3, <1>4, <1>5 DEF TypeOK

LEMMA FailTypes ==
    ASSUME TypeOK, NEW q \in Reqs, queue # <<>>, Fail(q)
    PROVE  /\ queue' \in Seq(Reqs) /\ failed' \in Seq(Reqs)
           /\ explained' \subseteq Reqs
           /\ tries' \in 0 .. MaxTries
<1>1. queue' \in Seq(Reqs)
  BY HeadApart DEF TypeOK, Fail
<1>2. failed' \in Seq(Reqs)
  BY AppendApart DEF TypeOK, Fail
<1> QED
  BY <1>1, <1>2, RouterAssumption DEF TypeOK, Fail

LEMMA RouterTypeStep == TypeOK /\ [Next]_vars => TypeOK'
<1> SUFFICES ASSUME TypeOK, [Next]_vars PROVE TypeOK'
  OBVIOUS
<1> USE DEF plan, copper
<1>1. CASE Stop
  BY <1>1 DEF Stop, TypeOK
<1>2. CASE Stopped
  BY <1>2 DEF Stopped, TypeOK
<1>3. ASSUME NEW q \in Reqs, Begin(q) PROVE TypeOK'
  BY <1>3, RouterAssumption DEF Begin, TypeOK
<1>4. ASSUME NEW q \in Reqs, NoWayThrough(q) PROVE TypeOK'
  <2>1. Fail(q) /\ queue # <<>> /\ UNCHANGED <<owner, counter>>
    BY <1>4 DEF NoWayThrough, Trying
  <2> QED
    BY <2>1, FailTypes DEF TypeOK, Fail
<1>5. ASSUME NEW q \in Reqs, Commit(q) PROVE TypeOK'
  <2>1. PICK P \in Paths(q) :
          LET t == [id |-> counter + 1, net |-> NetOf(q), path |-> P] IN
          /\ laid' = [laid EXCEPT ![q] = t]
          /\ board' = board \cup {t} /\ chk' = chk \cup {t}
          /\ owner' = Claimed(P, NetOf(q))
    BY <1>5 DEF Commit, CopperOf
  <2> DEFINE t == [id |-> counter + 1, net |-> NetOf(q), path |-> P]
  <2>2. t \in Tracks
    BY RouterAssumption DEF Tracks, Nets, TypeOK
  <2>3. NetOf(q) \in Nets
    BY DEF Nets
  <2>4. owner' \in [Cells -> Nets \cup {Free, Blocked}]
    BY <2>1, <2>3 DEF Claimed, TypeOK
  <2>5. queue' \in Seq(Reqs)
    BY <1>5, HeadApart DEF Commit, CopperOf, Trying, TypeOK
  <2>6. /\ laid' \in [Reqs -> Tracks \cup {NoTrack}]
        /\ board' \subseteq Tracks /\ chk' \subseteq Tracks
    BY <2>1, <2>2 DEF TypeOK
  <2>7. tries' \in 0 .. MaxTries /\ counter' \in Nat /\ explained' \subseteq Reqs
    BY <1>5, RouterAssumption DEF Commit, CopperOf, TypeOK
  <2> QED
    BY <1>5, <2>4, <2>5, <2>6, <2>7 DEF Commit, CopperOf, TypeOK
<1>6. ASSUME NEW q \in Reqs, Refused(q) PROVE TypeOK'
  <2>1. PICK bad : owner' = [c \in Cells |-> IF c \in Around(bad)
                                               THEN Blocked ELSE owner[c]]
    BY <1>6 DEF Refused
  <2>2. owner' \in [Cells -> Nets \cup {Free, Blocked}]
    BY <2>1 DEF TypeOK
  <2>3. counter' \in Nat
    BY <1>6 DEF Refused, TypeOK
  <2>4. CASE tries < MaxTries
    <3>1. tries' \in 0 .. MaxTries
      BY <1>6, <2>4, RouterAssumption DEF Refused, TypeOK
    <3> QED
      BY <1>6, <2>2, <2>3, <2>4, <3>1 DEF Refused, TypeOK
  <2>5. CASE ~(tries < MaxTries)
    <3>1. Fail(q) /\ queue # <<>>
      BY <1>6, <2>5 DEF Refused, Trying
    <3> QED
      BY <2>2, <2>3, <3>1, FailTypes DEF TypeOK, Fail
  <2> QED
    BY <2>4, <2>5
<1>7. CASE AllLaid
  BY <1>7 DEF AllLaid, TypeOK
<1>8. CASE BeginRipUp
  BY <1>8 DEF BeginRipUp, TypeOK
<1>9. ASSUME NEW q \in Reqs, MakeWay(q) PROVE TypeOK'
  <2> DEFINE V == IF ripped[q] < MaxRipUp THEN InTheWay(q) ELSE {}
  <2>1. V \subseteq Reqs
    BY DEF InTheWay, Laid
  <2>2. PICK moved \in HardestFirst(V) : again' = again \o moved
    BY <1>9 DEF MakeWay
  <2>3. RipUp(V) /\ todo' = Tail(todo) /\ todo # <<>>
    BY <1>9 DEF MakeWay
  <2>4. moved \in Seq(Reqs)
    <3> HIDE DEF V
    <3>1. IsFiniteSet(V)
      BY <2>1, RouterAssumption, FS_Subset
    <3>2. moved \in Seq(V)
      BY <2>2, <3>1, ListsEachOnce
    <3> QED
      BY <2>1, <3>2, SeqMonotonic
  <2>5. again' \in Seq(Reqs) /\ todo' \in Seq(Reqs)
    BY <2>2, <2>3, <2>4, ConcatProperties, HeadApart DEF TypeOK
  <2>6. ripped' \in [Reqs -> 0 .. MaxRipUp]
    BY <1>9, RouterAssumption DEF MakeWay, TypeOK
  <2>7. /\ board' \subseteq Tracks /\ chk' \subseteq Tracks
        /\ owner' \in [Cells -> Nets \cup {Free, Blocked}]
        /\ laid' \in [Reqs -> Tracks \cup {NoTrack}]
    <3> HIDE DEF V
    <3> QED
      BY <2>3 DEF RipUp, TypeOK
  <2> QED
    BY <1>9, <2>5, <2>6, <2>7 DEF MakeWay, TypeOK
<1>10. CASE GiveUp
  BY <1>10 DEF GiveUp, TypeOK
<1>11. CASE NextRound
  <2>1. queue' \in Seq(Reqs)
    BY <1>11, ConcatProperties DEF NextRound, NextQueue, TypeOK
  <2>2. round' \in 0 .. MaxRipUp
    BY <1>11, RouterAssumption DEF NextRound, TypeOK
  <2>3. failed' \in Seq(Reqs) /\ again' \in Seq(Reqs)
    BY <1>11 DEF NextRound
  <2> QED
    BY <1>11, <2>1, <2>2, <2>3 DEF NextRound, TypeOK
<1>12. CASE UNCHANGED vars
  BY <1>12 DEF vars, TypeOK
<1> QED
  BY <1>1, <1>2, <1>3, <1>4, <1>5, <1>6, <1>7, <1>8, <1>9, <1>10, <1>11,
     <1>12 DEF Next, Lay, Returned

\* TypeOK: the lists hold requests, the rounds and tries stay inside their
\* bounds, and every cell of the grid belongs to a net, to all or to nobody.
THEOREM RouterTypeCorrect == Spec => []TypeOK
BY RouterTypeInit, RouterTypeStep, PTL DEF Spec

----------------------------------------------------------------------------
(* Copper. *)

\* No two pieces of copper share a uuid.
UniqueIds == \A t, u \in board : t.id = u.id => t = u

\* What makes "the checker drops what bears these uuids" the same as "the
\* board drops these tracks": every track of the router bears a uuid from its
\* counter, and no two pieces of copper share one.
IdsKnown ==
    /\ Counter <= counter
    /\ \A t \in board : t.id <= counter
    /\ \A q \in Laid : laid[q].net = NetOf(q) /\ laid[q].id > Counter
    /\ \A p, q \in Laid : laid[p] = laid[q] => p = q
    /\ UniqueIds

CopperInv == TypeOK /\ BoardAgrees /\ IdsKnown /\ CopperClear

LEMMA CopperInit == FreshIds /\ Init => CopperInv
<1> SUFFICES ASSUME FreshIds, Init PROVE CopperInv
  OBVIOUS
<1>1. Laid = {}
  BY DEF Laid, Init
<1>2. BoardAgrees
  BY <1>1 DEF BoardAgrees, Init
<1>3. IdsKnown
  BY <1>1, RouterAssumption DEF IdsKnown, UniqueIds, FreshIds, Init
<1>4. CopperClear
  BY <1>1 DEF CopperClear
<1> QED
  BY <1>2, <1>3, <1>4, RouterTypeInit DEF CopperInv

\* A step that leaves the copper alone.
LEMMA CopperUntouched ==
    ASSUME CopperInv, TypeOK',
           UNCHANGED <<laid, board, chk>>, counter' \in {counter, counter + 1}
    PROVE  CopperInv'
<1>1. Laid' = Laid
  BY DEF Laid
<1>2. BoardAgrees' /\ CopperClear'
  BY <1>1 DEF CopperInv, BoardAgrees, CopperClear
<1>3. /\ \A t \in board : t.id \in Nat
      /\ counter \in Nat /\ Counter \in Nat
  BY RouterAssumption DEF CopperInv, TypeOK, Tracks
<1>4. IdsKnown'
  BY <1>1, <1>3 DEF CopperInv, IdsKnown, UniqueIds
<1> QED
  BY <1>2, <1>4 DEF CopperInv

\* The checker accepts a path only if it is clear of other nets' copper: a
\* uuid is exempt only when it is on the path's own net.
LEMMA AcceptedIsClear ==
    ASSUME CopperInv, NEW net, NEW P, Accepted(P, net),
           NEW u \in board, u.net # net
    PROVE  ~Clash(P, u.path)
<1>1. u \in chk
  BY DEF CopperInv, BoardAgrees
<1>2. u.id \notin Exempt(net)
  BY DEF Exempt, CopperInv, IdsKnown, UniqueIds
<1> QED
  BY <1>1, <1>2 DEF Accepted

LEMMA CopperCommit ==
    ASSUME CopperInv, TypeOK', NEW q \in Reqs, q \notin Laid, Commit(q)
    PROVE  CopperInv'
<1>1. PICK P \in Paths(q) :
        LET t == [id |-> counter + 1, net |-> NetOf(q), path |-> P] IN
        /\ Accepted(P, NetOf(q))
        /\ laid' = [laid EXCEPT ![q] = t]
        /\ board' = board \cup {t} /\ chk' = chk \cup {t}
  BY DEF Commit, CopperOf
<1> DEFINE t == [id |-> counter + 1, net |-> NetOf(q), path |-> P]
<1>2. counter' = counter + 1
  BY DEF Commit, CopperOf
<1>3. t \in Tracks /\ t # NoTrack /\ P \subseteq Cells
  <2>1. P \subseteq Cells /\ NetOf(q) \in Nets
    BY RouterAssumption DEF Nets
  <2>2. counter + 1 \in Nat
    BY DEF CopperInv, TypeOK
  <2>3. t \in Tracks
    BY <2>1, <2>2 DEF Tracks
  <2>4. NoTrack \notin Tracks
    BY RouterAssumption
  <2> QED
    BY <2>1, <2>3, <2>4
<1>4. t.id = counter + 1 /\ t.net = NetOf(q) /\ t.path = P
  OBVIOUS
<1>5. \A u \in board : u.id \in Nat /\ u.id <= counter /\ u.path \subseteq Cells
  BY DEF CopperInv, IdsKnown, TypeOK, Tracks
<1>6. counter \in Nat /\ Counter \in Nat /\ Counter <= counter
  BY RouterAssumption DEF CopperInv, IdsKnown, TypeOK
<1>7. \A r \in Laid : laid[r] \in board /\ laid[r].net = NetOf(r)
  BY DEF CopperInv, BoardAgrees, IdsKnown
<1>8. /\ laid' = [laid EXCEPT ![q] = t]
      /\ board' = board \cup {t} /\ chk' = chk \cup {t}
      /\ Accepted(P, NetOf(q))
  BY <1>1
<1> HIDE DEF t
<1>9. /\ laid'[q] = t /\ \A r \in Reqs \ {q} : laid'[r] = laid[r]
      /\ Laid' = Laid \cup {q}
  BY <1>3, <1>8 DEF Laid, CopperInv, TypeOK
<1>10. BoardAgrees'
  BY <1>8, <1>9 DEF CopperInv, BoardAgrees, Laid
<1>11. \A u \in board : u # t /\ u.id # t.id
  BY <1>4, <1>5, <1>6
<1>12. IdsKnown'
  <2>1. Counter <= counter' /\ \A u \in board' : u.id <= counter'
    BY <1>2, <1>4, <1>5, <1>6, <1>8
  <2>2. \A r \in Laid' : laid'[r].net = NetOf(r) /\ laid'[r].id > Counter
    BY <1>4, <1>6, <1>9 DEF CopperInv, IdsKnown, Laid
  <2>3. \A p, r \in Laid' : laid'[p] = laid'[r] => p = r
    BY <1>7, <1>9, <1>11 DEF CopperInv, IdsKnown, Laid
  <2>4. UniqueIds'
    BY <1>8, <1>11 DEF CopperInv, IdsKnown, UniqueIds
  <2> QED
    BY <2>1, <2>2, <2>3, <2>4 DEF IdsKnown
<1>13. CopperClear'
  <2>1. ASSUME NEW u \in board, u.net # NetOf(q)
        PROVE  ~Clash(P, u.path) /\ ~Clash(u.path, P)
    BY <1>3, <1>5, <1>8, <2>1, AcceptedIsClear, RouterAssumption
  <2> SUFFICES ASSUME NEW r \in Laid', NEW u \in board', u.net # NetOf(r)
               PROVE  ~Clash(laid'[r].path, u.path)
    BY DEF CopperClear
  <2>2. CASE r = q
    BY <1>4, <1>8, <1>9, <2>1, <2>2
  <2>3. CASE r # q /\ u = t
    <3>1. r \in Laid /\ laid'[r] = laid[r] /\ r \in Reqs
      BY <1>9, <2>3 DEF Laid
    <3>2. laid[r].net # NetOf(q)
      BY <1>4, <1>7, <2>3, <3>1
    <3> QED
      BY <1>4, <1>7, <2>1, <2>3, <3>1, <3>2
  <2>4. CASE r # q /\ u \in board
    BY <1>9, <2>4 DEF CopperInv, CopperClear, Laid
  <2> QED
    BY <1>8, <2>2, <2>3, <2>4
<1> QED
  BY <1>10, <1>12, <1>13 DEF CopperInv

LEMMA CopperRipUp ==
    ASSUME FreshIds, CopperInv, TypeOK', NEW V \in SUBSET Laid, RipUp(V),
           counter' = counter
    PROVE  CopperInv'
<1> DEFINE gone == {laid[v] : v \in V}
<1>1. /\ board' = board \ gone
      /\ chk' = {t \in chk : t.id \notin {u.id : u \in gone}}
      /\ laid' = [q \in Reqs |-> IF q \in V THEN NoTrack ELSE laid[q]]
  BY DEF RipUp
<1>2. Laid' = Laid \ V /\ \A q \in Laid' : laid'[q] = laid[q]
  BY <1>1 DEF Laid
<1>3. gone \subseteq board /\ board = Existing \cup {laid[q] : q \in Laid}
  BY DEF CopperInv, BoardAgrees
<1>4. gone \cap Existing = {}
  <2>1. \A t \in gone : t.id > Counter
    BY DEF CopperInv, IdsKnown
  <2>2. \A t \in Existing : ~(t.id > Counter)
    BY RouterAssumption DEF FreshIds, Tracks
  <2> QED
    BY <2>1, <2>2
<1>5. board' = Existing \cup {laid'[q] : q \in Laid'}
  <2>1. \A q \in Laid \ V : laid[q] \notin gone
    BY DEF CopperInv, IdsKnown
  <2> HIDE DEF gone
  <2>2. \A q \in V : laid[q] \in gone
    BY DEF gone
  <2> QED
    BY <1>1, <1>2, <1>3, <1>4, <2>1, <2>2
<1>6. chk' = board'
  <2>1. \A t \in board : t.id \in {u.id : u \in gone} <=> t \in gone
    BY <1>3 DEF CopperInv, IdsKnown, UniqueIds
  <2> HIDE DEF gone
  <2> QED
    BY <1>1, <2>1 DEF CopperInv, BoardAgrees
<1>7. board' \subseteq board
  BY <1>1
<1>8. IdsKnown'
  BY <1>2, <1>7 DEF CopperInv, IdsKnown, UniqueIds
<1>9. CopperClear'
  BY <1>2, <1>7 DEF CopperInv, CopperClear
<1> QED
  BY <1>5, <1>6, <1>8, <1>9 DEF CopperInv, BoardAgrees

----------------------------------------------------------------------------
(* The lists. *)

\* Between two rounds nothing is left to try.
ListsInv ==
    /\ TypeOK
    /\ NoneForgotten
    /\ pc = "ripping" => queue = <<>>

\* NoneForgotten, list by list.
Apart ==
    /\ IsInjective(queue) /\ IsInjective(failed) /\ IsInjective(again)
    /\ ToSet(queue) \cap ToSet(failed) = {}
    /\ ToSet(again) \cap (ToSet(queue) \cup ToSet(failed)) = {}
    /\ ToSet(queue) \cup ToSet(failed) \cup ToSet(again) = Reqs \ Laid

LEMMA ListsApart == TypeOK => (NoneForgotten <=> Apart)
<1> SUFFICES ASSUME TypeOK PROVE NoneForgotten <=> Apart
  OBVIOUS
<1>1. queue \in Seq(Reqs) /\ failed \in Seq(Reqs) /\ again \in Seq(Reqs)
  BY DEF TypeOK
<1>2. /\ ToSet(queue \o failed \o again)
              = ToSet(queue) \cup ToSet(failed) \cup ToSet(again)
      /\ IsInjective(queue \o failed \o again) <=>
             /\ IsInjective(queue) /\ IsInjective(failed) /\ IsInjective(again)
             /\ ToSet(queue) \cap ToSet(failed) = {}
             /\ ToSet(again) \cap (ToSet(queue) \cup ToSet(failed)) = {}
  BY <1>1, ThreeLists
<1> QED
  BY <1>2 DEF NoneForgotten, Apart

LEMMA NextListsApart == TypeOK' => (NoneForgotten' <=> Apart')
BY ListsApart, PTL

LEMMA ListsInit == Init => ListsInv
<1> SUFFICES ASSUME Init PROVE ListsInv
  OBVIOUS
<1>1. TypeOK
  BY RouterTypeInit
<1>2. Laid = {}
  BY DEF Laid, Init
<1>3. IsInjective(queue) /\ ToSet(queue) = Reqs
  BY ListsEachOnce, RouterAssumption DEF Init
<1>4. failed = <<>> /\ again = <<>> /\ pc # "ripping"
  BY DEF Init
<1> QED
  BY <1>1, <1>2, <1>3, <1>4, Nothing, ListsApart DEF ListsInv, Apart

\* The head of the queue is in no other list and not on the board.
LEMMA TheHead ==
    ASSUME ListsInv, queue # <<>>
    PROVE  LET q == Head(queue) IN
           /\ q \in Reqs \ Laid
           /\ q \notin ToSet(failed) /\ q \notin ToSet(again)
           /\ ToSet(queue) = {q} \cup ToSet(Tail(queue))
           /\ q \notin ToSet(Tail(queue))
           /\ IsInjective(Tail(queue))
<1>1. Apart
  BY ListsApart DEF ListsInv
<1>2. queue \in Seq(Reqs)
  BY DEF ListsInv, TypeOK
<1>3. /\ Head(queue) \in Reqs
      /\ ToSet(queue) = {Head(queue)} \cup ToSet(Tail(queue))
      /\ IsInjective(queue) <=> /\ IsInjective(Tail(queue))
                               /\ Head(queue) \notin ToSet(Tail(queue))
  BY <1>2, HeadApart
<1> QED
  BY <1>1, <1>3 DEF Apart

LEMMA ListsUntouched ==
    ASSUME ListsInv, TypeOK', UNCHANGED <<queue, failed, again, laid>>,
           pc' = "ripping" => queue = <<>>
    PROVE  ListsInv'
BY DEF ListsInv, NoneForgotten, Laid

LEMMA ListsFail ==
    ASSUME ListsInv, TypeOK', NEW q, queue # <<>>, q = Head(queue), Fail(q),
           pc = "laying"
    PROVE  ListsInv'
<1>1. Apart
  BY ListsApart DEF ListsInv
<1>2. /\ queue' = Tail(queue) /\ failed' = Append(failed, q)
      /\ again' = again /\ Laid' = Laid /\ pc' = "laying"
  BY DEF Fail, Laid
<1>3. /\ q \in Reqs \ Laid
      /\ q \notin ToSet(failed) /\ q \notin ToSet(again)
      /\ ToSet(queue) = {q} \cup ToSet(queue')
      /\ q \notin ToSet(queue') /\ IsInjective(queue')
  BY <1>2, TheHead
<1>4. /\ ToSet(failed') = ToSet(failed) \cup {q}
      /\ IsInjective(failed') <=> IsInjective(failed) /\ q \notin ToSet(failed)
  <2>1. failed \in Seq(Reqs) /\ q \in Reqs
    BY <1>3 DEF ListsInv, TypeOK
  <2> QED
    BY <1>2, <2>1, AppendApart
<1>5. Apart'
  BY <1>1, <1>2, <1>3, <1>4 DEF Apart
<1> QED
  BY <1>2, <1>5, NextListsApart DEF ListsInv

LEMMA ListsCommit ==
    ASSUME ListsInv, TypeOK', NEW q, queue # <<>>, q = Head(queue),
           queue' = Tail(queue), UNCHANGED <<failed, again, pc>>,
           Laid' = Laid \cup {q}, pc = "laying"
    PROVE  ListsInv'
<1>1. Apart
  BY ListsApart DEF ListsInv
<1>2. /\ q \in Reqs \ Laid
      /\ q \notin ToSet(failed) /\ q \notin ToSet(again)
      /\ ToSet(queue) = {q} \cup ToSet(queue')
      /\ q \notin ToSet(queue') /\ IsInjective(queue')
  BY TheHead
<1>3. Apart'
  BY <1>1, <1>2 DEF Apart
<1> QED
  BY <1>3, NextListsApart DEF ListsInv

LEMMA ListsMakeWay ==
    ASSUME ListsInv, TypeOK', NEW V \in SUBSET Laid, RipUp(V),
           NEW moved \in HardestFirst(V), again' = again \o moved,
           UNCHANGED <<queue, failed, pc>>
    PROVE  ListsInv'
<1>1. Apart
  BY ListsApart DEF ListsInv
<1>2. moved \in Seq(Reqs) /\ IsInjective(moved) /\ ToSet(moved) = V
  <2>1. V \subseteq Reqs /\ IsFiniteSet(V)
    BY RouterAssumption, FS_Subset DEF Laid
  <2>2. moved \in Seq(V) /\ IsInjective(moved) /\ ToSet(moved) = V
    BY <2>1, ListsEachOnce
  <2> QED
    BY <2>1, <2>2, SeqMonotonic
<1>3. again \in Seq(Reqs)
  BY DEF ListsInv, TypeOK
<1>4. /\ ToSet(again') = ToSet(again) \cup V
      /\ IsInjective(again') <=> /\ IsInjective(again)
                                /\ IsInjective(moved)
                                /\ ToSet(again) \cap ToSet(moved) = {}
  <2>1. ToSet(again \o moved) = ToSet(again) \cup ToSet(moved)
    BY <1>2, <1>3, ToSetConcat
  <2>2. IsInjective(again \o moved) <=> /\ IsInjective(again)
                                       /\ IsInjective(moved)
                                       /\ ToSet(again) \cap ToSet(moved) = {}
    BY <1>2, <1>3, InjectiveConcat
  <2> QED
    BY <1>2, <2>1, <2>2
<1>5. Laid' = Laid \ V
  BY DEF RipUp, Laid
<1>6. V \subseteq Reqs
  BY DEF Laid
<1>7. Apart'
  <2>1. ToSet(again) \cap V = {} /\ V \cap (ToSet(queue) \cup ToSet(failed)) = {}
    BY <1>1 DEF Apart
  <2> QED
    BY <1>1, <1>2, <1>4, <1>5, <1>6, <2>1 DEF Apart
<1> QED
  BY <1>7, NextListsApart DEF ListsInv

LEMMA ListsNextRound ==
    ASSUME ListsInv, TypeOK', NextRound
    PROVE  ListsInv'
<1>1. Apart
  BY ListsApart DEF ListsInv
<1>2. /\ queue = <<>> /\ queue' = failed \o again
      /\ failed' = <<>> /\ again' = <<>> /\ Laid' = Laid /\ pc' = "laying"
  BY DEF NextRound, NextQueue, ListsInv, Laid, copper
<1>3. failed \in Seq(Reqs) /\ again \in Seq(Reqs)
  BY DEF ListsInv, TypeOK
<1>4. /\ ToSet(queue') = ToSet(failed) \cup ToSet(again)
      /\ IsInjective(queue') <=> /\ IsInjective(failed) /\ IsInjective(again)
                                /\ ToSet(failed) \cap ToSet(again) = {}
  <2>1. ToSet(failed \o again) = ToSet(failed) \cup ToSet(again)
    BY <1>3, ToSetConcat
  <2>2. IsInjective(failed \o again) <=>
            /\ IsInjective(failed) /\ IsInjective(again)
            /\ ToSet(failed) \cap ToSet(again) = {}
    BY <1>3, InjectiveConcat
  <2> QED
    BY <1>2, <2>1, <2>2
<1>5. /\ ToSet(queue) = {} /\ ToSet(failed') = {} /\ ToSet(again') = {}
      /\ IsInjective(failed') /\ IsInjective(again')
  BY <1>2, Nothing
<1>6. Apart'
  BY <1>1, <1>2, <1>4, <1>5 DEF Apart
<1> QED
  BY <1>2, <1>6, NextListsApart DEF ListsInv

----------------------------------------------------------------------------
(* The specification. *)

LEMMA CommitLays ==
    ASSUME TypeOK, NEW q \in Reqs, Commit(q)
    PROVE  Laid' = Laid \cup {q}
<1>1. PICK P \in Paths(q) :
        laid' = [laid EXCEPT ![q] =
                   [id |-> counter + 1, net |-> NetOf(q), path |-> P]]
  BY DEF Commit, CopperOf
<1> DEFINE t == [id |-> counter + 1, net |-> NetOf(q), path |-> P]
<1>2. t \in Tracks /\ t # NoTrack
  <2>1. P \subseteq Cells /\ NetOf(q) \in Nets
    BY RouterAssumption DEF Nets
  <2>2. t \in Tracks
    BY <2>1 DEF Tracks, TypeOK
  <2>3. NoTrack \notin Tracks
    BY RouterAssumption
  <2> QED
    BY <2>2, <2>3
<1>3. laid' = [laid EXCEPT ![q] = t]
  BY <1>1
<1> HIDE DEF t
<1> QED
  BY <1>2, <1>3 DEF Laid, TypeOK

LEMMA ListsStep == ListsInv /\ [Next]_vars => ListsInv'
<1> SUFFICES ASSUME ListsInv, [Next]_vars PROVE ListsInv'
  OBVIOUS
<1>0. TypeOK /\ TypeOK'
  BY RouterTypeStep DEF ListsInv
<1> USE DEF plan, copper
<1>1. ASSUME UNCHANGED <<queue, failed, again, laid>>,
             pc' = "ripping" => queue = <<>>
      PROVE  ListsInv'
  BY <1>0, <1>1, ListsUntouched
<1>2. CASE Stop \/ Stopped \/ AllLaid \/ BeginRipUp \/ GiveUp \/ UNCHANGED vars
  <2>1. /\ UNCHANGED <<queue, failed, again, laid>>
        /\ pc' = "ripping" => queue = <<>>
    BY <1>2 DEF Stop, Stopped, AllLaid, BeginRipUp, GiveUp, vars, ListsInv
  <2> QED
    BY <1>1, <2>1
<1>3. ASSUME NEW q \in Reqs, Begin(q) PROVE ListsInv'
  <2>1. UNCHANGED <<queue, failed, again, laid, pc>> /\ pc = "laying"
    BY <1>3 DEF Begin
  <2> QED
    BY <1>1, <2>1
<1>4. ASSUME NEW q \in Reqs, NoWayThrough(q) PROVE ListsInv'
  <2>1. Fail(q) /\ queue # <<>> /\ q = Head(queue) /\ pc = "laying"
    BY <1>4 DEF NoWayThrough, Trying
  <2> QED
    BY <1>0, <2>1, ListsFail
<1>5. ASSUME NEW q \in Reqs, Commit(q) PROVE ListsInv'
  <2>1. /\ queue # <<>> /\ q = Head(queue) /\ pc = "laying"
        /\ queue' = Tail(queue) /\ UNCHANGED <<failed, again, pc>>
    BY <1>5 DEF Commit, CopperOf, Trying
  <2> QED
    BY <1>0, <1>5, <2>1, CommitLays, ListsCommit
<1>6. ASSUME NEW q \in Reqs, Refused(q) PROVE ListsInv'
  <2>1. queue # <<>> /\ q = Head(queue) /\ pc = "laying"
    BY <1>6 DEF Refused, Trying
  <2>2. Fail(q) \/ UNCHANGED <<queue, failed, again, laid, pc>>
    BY <1>6 DEF Refused
  <2> QED
    BY <1>0, <1>1, <2>1, <2>2, ListsFail
<1>7. ASSUME NEW q \in Reqs, MakeWay(q) PROVE ListsInv'
  <2> DEFINE V == IF ripped[q] < MaxRipUp THEN InTheWay(q) ELSE {}
  <2>1. V \in SUBSET Laid
    BY DEF InTheWay
  <2>2. /\ RipUp(V) /\ UNCHANGED <<queue, failed, pc>>
        /\ \E moved \in HardestFirst(V) : again' = again \o moved
    BY <1>7 DEF MakeWay
  <2> HIDE DEF V
  <2>3. PICK moved \in HardestFirst(V) : again' = again \o moved
    BY <2>2
  <2> QED
    BY <1>0, <2>1, <2>2, <2>3, ListsMakeWay
<1>8. CASE NextRound
  BY <1>0, <1>8, ListsNextRound
<1> QED
  BY <1>2, <1>3, <1>4, <1>5, <1>6, <1>7, <1>8 DEF Next, Lay, Returned

RouterInv == CopperInv /\ ListsInv

LEMMA RouterInvInit == FreshIds /\ Init => RouterInv
BY CopperInit, ListsInit DEF RouterInv

LEMMA CopperStep == FreshIds /\ RouterInv /\ [Next]_vars => CopperInv'
<1> SUFFICES ASSUME FreshIds, RouterInv, [Next]_vars PROVE CopperInv'
  OBVIOUS
<1>0. CopperInv /\ ListsInv /\ TypeOK /\ TypeOK'
  BY RouterTypeStep DEF RouterInv, CopperInv
<1> USE DEF plan, copper
<1>1. ASSUME UNCHANGED <<laid, board, chk>>, counter' \in {counter, counter + 1}
      PROVE  CopperInv'
  BY <1>0, <1>1, CopperUntouched
<1>2. CASE Stop \/ Stopped \/ AllLaid \/ BeginRipUp \/ GiveUp \/ NextRound
           \/ UNCHANGED vars
  <2>1. UNCHANGED <<laid, board, chk, counter>>
    BY <1>2 DEF Stop, Stopped, AllLaid, BeginRipUp, GiveUp, NextRound, vars
  <2> QED
    BY <1>1, <2>1
<1>3. ASSUME NEW q \in Reqs, Begin(q) \/ NoWayThrough(q) \/ Refused(q)
      PROVE  CopperInv'
  <2>1. UNCHANGED <<laid, board, chk>> /\ counter' \in {counter, counter + 1}
    BY <1>3 DEF Begin, NoWayThrough, Refused, Fail
  <2> QED
    BY <1>1, <2>1
<1>4. ASSUME NEW q \in Reqs, Commit(q) PROVE CopperInv'
  <2>1. queue # <<>> /\ q = Head(queue)
    BY <1>4 DEF Commit, CopperOf, Trying
  <2>2. q \notin Laid
    BY <1>0, <2>1, TheHead
  <2> QED
    BY <1>0, <1>4, <2>2, CopperCommit
<1>5. ASSUME NEW q \in Reqs, MakeWay(q) PROVE CopperInv'
  <2> DEFINE V == IF ripped[q] < MaxRipUp THEN InTheWay(q) ELSE {}
  <2>1. V \in SUBSET Laid
    BY DEF InTheWay
  <2>2. RipUp(V) /\ UNCHANGED counter
    BY <1>5 DEF MakeWay
  <2> HIDE DEF V
  <2> QED
    BY <1>0, <2>1, <2>2, CopperRipUp
<1> QED
  BY <1>2, <1>3, <1>4, <1>5 DEF Next, Lay, Returned

LEMMA RouterKeepsInv == ASSUME FreshIds PROVE Spec => []RouterInv
<1>1. Init => RouterInv
  BY RouterInvInit
<1>2. RouterInv /\ [Next]_vars => RouterInv'
  BY CopperStep, ListsStep DEF RouterInv
<1> QED
  BY <1>1, <1>2, PTL DEF Spec

\* BoardAgrees: on a board whose uuids the counter will not give out again,
\* the board, the checker and the results never disagree about what is laid.
THEOREM RouterBoardAgrees == ASSUME FreshIds PROVE Spec => []BoardAgrees
<1>1. RouterInv => BoardAgrees
  BY DEF RouterInv, CopperInv
<1> QED
  BY <1>1, RouterKeepsInv, PTL

\* CopperClear: on such a board, the router never lays copper too close to
\* copper of another net, whatever the geometry and the order of rip-ups.
THEOREM RouterCopperClear == ASSUME FreshIds PROVE Spec => []CopperClear
<1>1. RouterInv => CopperClear
  BY DEF RouterInv, CopperInv
<1> QED
  BY <1>1, RouterKeepsInv, PTL

\* NoneForgotten: whatever the number of requests, rounds and rip-ups, each
\* request is on the board or on exactly one list, once.  It needs no
\* assumption about uuids.
THEOREM RouterNoneForgotten == Spec => []NoneForgotten
<1>1. ListsInv => NoneForgotten
  BY DEF ListsInv
<1> QED
  BY <1>1, ListsInit, ListsStep, PTL DEF Spec
=============================================================================
