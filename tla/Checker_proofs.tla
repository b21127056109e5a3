---------------------------- MODULE Checker_proofs ----------------------------
(***************************************************************************)
(* Proofs about Checker and BoardFile, for any file, paths, meanders and   *)
(* rules.  Two results: the index follows the board through every edit and *)
(* the file that is saved shows only the edits; what the tuner draws keeps *)
(* the clearances and the space it was asked for.                          *)
(***************************************************************************)
EXTENDS Checker, TLAPS, FiniteSetTheorems, WellFoundedInduction, SequenceTheorems

----------------------------------------------------------------------------
(* Lists: what Only keeps of one, and one after another. *)

\* Induction over the numbers, for a set and not for an operator.
LEMMA Counting ==
    ASSUME NEW S, 0 \in S, \A n \in Nat : n \in S => n + 1 \in S
    PROVE  Nat \subseteq S
<1> SUFFICES ASSUME Nat \ S # {} PROVE FALSE
  OBVIOUS
<1>1. PICK x \in Nat \ S : \A y \in Nat \ S : <<y, x>> \notin OpToRel(<, Nat)
  BY NatLessThanWellFounded, WFMin
<1>2. x # 0 /\ x - 1 \in Nat \ S
  <2>1. x \in Nat /\ x # 0
    OBVIOUS
  <2>2. x - 1 \in Nat /\ (x - 1) + 1 = x
    BY <2>1
  <2> QED
    BY <2>1, <2>2
<1>3. <<x - 1, x>> \in OpToRel(<, Nat)
  BY <1>2 DEF OpToRel
<1> QED
  BY <1>1, <1>2, <1>3

\* g, applied n times from x0 on.
Iterate(X, x0, n, g) == \E f \in [0 .. n -> X] : f[0] = x0 /\ \A i \in 1 .. n : f[i] = g[<<f[i - 1], i>>]

LEMMA Iterates ==
    ASSUME NEW X, NEW x0 \in X, NEW n \in Nat, NEW g \in [X \X (1 .. n) -> X]
    PROVE  Iterate(X, x0, n, g)
<1> DEFINE Upto(m) == \E f \in [0 .. m -> X] : f[0] = x0 /\ \A i \in 1 .. m : f[i] = g[<<f[i - 1], i>>]
           S == {m \in Nat : m <= n => Upto(m)}
<1>1. 0 \in S
  <2> DEFINE f == [i \in 0 .. 0 |-> x0]
  <2>1. f \in [0 .. 0 -> X] /\ f[0] = x0 /\ \A i \in 1 .. 0 : f[i] = g[<<f[i - 1], i>>]
    OBVIOUS
  <2>2. Upto(0)
    <3> HIDE DEF f
    <3> QED
      BY <2>1
  <2> QED
    BY <2>2
<1>2. ASSUME NEW m \in Nat, m \in S PROVE m + 1 \in S
  <2> SUFFICES ASSUME m + 1 <= n PROVE Upto(m + 1)
    <3> HIDE DEF Upto
    <3> QED
      OBVIOUS
  <2>1. PICK f \in [0 .. m -> X] : f[0] = x0 /\ \A i \in 1 .. m : f[i] = g[<<f[i - 1], i>>]
    <3>1. Upto(m)
      <4> HIDE DEF Upto
      <4> QED
        BY <1>2
    <3> QED
      BY <3>1
  <2> HIDE DEF Upto, S
  <2> DEFINE h == [i \in 0 .. m + 1 |-> IF i = m + 1 THEN g[<<f[m], m + 1>>] ELSE f[i]]
  <2>2. m \in 0 .. m /\ m + 1 \in 1 .. n
    OBVIOUS
  <2>3. g[<<f[m], m + 1>>] \in X
    BY <2>2
  <2>4. h \in [0 .. m + 1 -> X]
    BY <2>1, <2>3
  <2>5. \A i \in 1 .. m : h[i] = f[i] /\ h[i - 1] = f[i - 1]
    BY <2>1
  <2>6. h[m + 1] = g[<<h[m], m + 1>>] /\ h[0] = x0
    <3>1. m \in 0 .. m + 1 /\ m + 1 \in 0 .. m + 1 /\ 0 \in 0 .. m + 1 /\ m # m + 1 /\ 0 # m + 1
      OBVIOUS
    <3>2. h[m] = f[m] /\ h[0] = f[0] /\ h[m + 1] = g[<<f[m], m + 1>>]
      BY <3>1
    <3> QED
      BY <2>1, <3>2
  <2>7. \A i \in 1 .. m + 1 : h[i] = g[<<h[i - 1], i>>]
    <3> TAKE i \in 1 .. m + 1
    <3>1. CASE i = m + 1
      BY <3>1, <2>6
    <3>2. CASE i # m + 1
      BY <3>2, <2>1, <2>5
    <3> QED
      BY <3>1, <3>2
  <2> QED
    <3> HIDE DEF h
    <3> QED
      BY <2>4, <2>6, <2>7 DEF Upto
<1>3. Nat \subseteq S
  <2> HIDE DEF S
  <2> QED
    BY <1>1, <1>2, Counting
<1>4. Upto(n)
  <2> HIDE DEF Upto
  <2> QED
    BY <1>3
<1> QED
  BY <1>4 DEF Iterate

\* Only: the function it is defined by, step by step.
OnlyBy(s, S, f) ==
    /\ f[0] = <<>>
    /\ \A i \in 1 .. Len(s) : f[i] = IF s[i] \in S THEN Append(f[i - 1], s[i]) ELSE f[i - 1]

LEMMA OnlyIs ==
    ASSUME NEW X, NEW s \in Seq(X), NEW S
    PROVE  \E f \in [0 .. Len(s) -> Seq(X)] : OnlyBy(s, S, f) /\ Only(s, S) = f[Len(s)]
<1> DEFINE n == Len(s)
           g == [p \in Seq(X) \X (1 .. n) |-> IF s[p[2]] \in S THEN Append(p[1], s[p[2]]) ELSE p[1]]
           eq(f) == [i \in 0 .. n |-> IF i = 0 THEN <<>>
                                     ELSE IF s[i] \in S THEN Append(f[i - 1], s[i]) ELSE f[i - 1]]
           only == CHOOSE f : f = eq(f)
<1>1. n \in Nat /\ \A i \in 1 .. n : s[i] \in X
  OBVIOUS
<1>2. <<>> \in Seq(X)
  OBVIOUS
<1>3. g \in [Seq(X) \X (1 .. n) -> Seq(X)]
  <2> HIDE DEF n
  <2> QED
    BY <1>1
<1>4. PICK f \in [0 .. n -> Seq(X)] : f[0] = <<>> /\ \A i \in 1 .. n : f[i] = g[<<f[i - 1], i>>]
  <2> DEFINE Y == Seq(X)
             e == <<>>
  <2>1. e \in Y /\ n \in Nat /\ g \in [Y \X (1 .. n) -> Y]
    BY <1>1, <1>2, <1>3
  <2> HIDE DEF n, g, Y, e
  <2>2. Iterate(Y, e, n, g)
    BY <2>1, Iterates
  <2> QED
    BY <2>2 DEF Iterate, Y, e
<1>5. \A i \in 1 .. n : f[i] = IF s[i] \in S THEN Append(f[i - 1], s[i]) ELSE f[i - 1]
  <2> TAKE i \in 1 .. n
  <2> HIDE DEF n
  <2>1. i - 1 \in 0 .. n
    BY <1>1
  <2>2. <<f[i - 1], i>> \in Seq(X) \X (1 .. n)
    BY <2>1
  <2> QED
    BY <1>4, <2>2
<1>6. f = eq(f)
  <2> HIDE DEF n, g
  <2>1. \A i \in 0 .. n : f[i] = eq(f)[i]
    <3> TAKE i \in 0 .. n
    <3>1. CASE i = 0
      BY <3>1, <1>4
    <3>2. CASE i # 0
      <4>1. i \in 1 .. n
        BY <3>2, <1>1
      <4> QED
        BY <3>2, <4>1, <1>5
    <3> QED
      BY <3>1, <3>2
  <2> HIDE DEF eq
  <2>2. eq(f) = [i \in 0 .. n |-> eq(f)[i]] 
    BY DEF eq
  <2> QED
    BY <2>1, <2>2
<1>7. only = eq(only)
  <2> HIDE DEF eq
  <2> QED
    BY <1>6
<1>8. Only(s, S) = only[n]
  BY DEF Only
<1>9. only[n] = f[n]
  <2> DEFINE Same == {i \in Nat : i <= n => only[i] = f[i]}
  <2> HIDE DEF n, g
  <2>0. \A i \in 0 .. n : eq(only)[i] = IF i = 0 THEN <<>>
                                        ELSE IF s[i] \in S THEN Append(only[i - 1], s[i]) ELSE only[i - 1]
    <3> HIDE DEF only
    <3> QED
      OBVIOUS
  <2> HIDE DEF eq, only
  <2>1. 0 \in Same
    <3>1. 0 \in 0 .. n
      BY <1>1
    <3>2. eq(only)[0] = <<>>
      BY <2>0, <3>1
    <3>3. only[0] = <<>>
      BY <1>7, <3>2
    <3>4. only[0] = f[0]
      BY <1>4, <3>3
    <3> QED
      BY <3>4
  <2>2. ASSUME NEW i \in Nat, i \in Same PROVE i + 1 \in Same
    <3> SUFFICES ASSUME i + 1 <= n PROVE only[i + 1] = f[i + 1]
      OBVIOUS
    <3>1. i + 1 \in 1 .. n /\ i + 1 \in 0 .. n /\ i + 1 # 0 /\ (i + 1) - 1 = i
      BY <1>1
    <3>2. only[i] = f[i]
      BY <1>1, <2>2, <3>1
    <3>3. f[i + 1] = IF s[i + 1] \in S THEN Append(f[i], s[i + 1]) ELSE f[i]
      BY <1>5, <3>1
    <3>4. only[i + 1] = IF s[i + 1] \in S THEN Append(only[i], s[i + 1]) ELSE only[i]
      BY <1>7, <2>0, <3>1
    <3> QED
      BY <3>2, <3>3, <3>4
  <2>3. Nat \subseteq Same
    <3> HIDE DEF Same
    <3> QED
      BY <2>1, <2>2, Counting
  <2> QED
    BY <1>1, <2>3
<1> QED
  BY <1>4, <1>5, <1>8, <1>9 DEF OnlyBy

\* Every sequence is built by appending.
LEMMA Appending ==
    ASSUME NEW X, NEW P, <<>> \in P, \A s \in Seq(X), x \in X : s \in P => Append(s, x) \in P
    PROVE  Seq(X) \subseteq P
<1> DEFINE N == {n \in Nat : \A s \in Seq(X) : Len(s) = n => s \in P}
<1>1. 0 \in N
  <2>1. \A s \in Seq(X) : Len(s) = 0 => s = <<>>
    OBVIOUS
  <2> QED
    BY <2>1
<1>2. ASSUME NEW n \in Nat, n \in N PROVE n + 1 \in N
  <2> SUFFICES ASSUME NEW s \in Seq(X), Len(s) = n + 1 PROVE s \in P
    OBVIOUS
  <2> DEFINE t == [i \in 1 .. n |-> s[i]]
  <2>1. t \in Seq(X) /\ Len(t) = n /\ s[n + 1] \in X
    OBVIOUS
  <2>2. s = Append(t, s[n + 1])
    OBVIOUS
  <2>3. t \in P
    BY <1>2, <2>1
  <2> HIDE DEF t
  <2> QED
    BY <2>1, <2>2, <2>3
<1>3. Nat \subseteq N
  <2> HIDE DEF N
  <2> QED
    BY <1>1, <1>2, Counting
<1> QED
  BY <1>3

LEMMA OnlySame ==
    ASSUME NEW X, NEW s \in Seq(X), NEW t \in Seq(X), NEW S, NEW f, NEW h, OnlyBy(s, S, f), OnlyBy(t, S, h),
           NEW n \in Nat, n <= Len(s), n <= Len(t), \A i \in 1 .. n : s[i] = t[i]
    PROVE  f[n] = h[n]
<1> DEFINE Same == {i \in Nat : i <= n => f[i] = h[i]}
<1>1. 0 \in Same
  BY DEF OnlyBy
<1>2. ASSUME NEW i \in Nat, i \in Same PROVE i + 1 \in Same
  <2> SUFFICES ASSUME i + 1 <= n PROVE f[i + 1] = h[i + 1]
    OBVIOUS
  <2>1. i + 1 \in 1 .. Len(s) /\ i + 1 \in 1 .. Len(t) /\ i + 1 \in 1 .. n /\ (i + 1) - 1 = i /\ i <= n
    OBVIOUS
  <2>2. f[i] = h[i] /\ s[i + 1] = t[i + 1]
    BY <1>2, <2>1
  <2> QED
    BY <2>1, <2>2 DEF OnlyBy
<1>3. Nat \subseteq Same
  <2> HIDE DEF Same
  <2> QED
    BY <1>1, <1>2, Counting
<1> QED
  BY <1>3

LEMMA OnlyEmpty == ASSUME NEW S PROVE Only(<<>>, S) = <<>>
<1>1. <<>> \in Seq({}) /\ Len(<<>>) = 0
  OBVIOUS
<1>2. PICK f : OnlyBy(<<>>, S, f) /\ Only(<<>>, S) = f[Len(<<>>)]
  BY <1>1, OnlyIs
<1> QED
  BY <1>1, <1>2 DEF OnlyBy

LEMMA OnlyAppend ==
    ASSUME NEW X, NEW s \in Seq(X), NEW x \in X, NEW S
    PROVE  Only(Append(s, x), S) = IF x \in S THEN Append(Only(s, S), x) ELSE Only(s, S)
<1> DEFINE t == Append(s, x)
           n == Len(s)
<1>1. t \in Seq(X) /\ Len(t) = n + 1 /\ t[n + 1] = x /\ n \in Nat /\ \A i \in 1 .. n : s[i] = t[i]
  OBVIOUS
<1> HIDE DEF t
<1>2. PICK f : OnlyBy(s, S, f) /\ Only(s, S) = f[n]
  BY OnlyIs
<1>3. PICK h : OnlyBy(t, S, h) /\ Only(t, S) = h[n + 1]
  BY <1>1, OnlyIs
<1>4. f[n] = h[n]
  BY <1>1, <1>2, <1>3, OnlySame
<1>5. n + 1 \in 1 .. Len(t) /\ (n + 1) - 1 = n
  BY <1>1
<1>6. h[n + 1] = IF x \in S THEN Append(h[n], x) ELSE h[n]
  BY <1>1, <1>3, <1>5 DEF OnlyBy
<1> QED
  BY <1>2, <1>3, <1>4, <1>6 DEF t

LEMMA OnlyType == ASSUME NEW X, NEW s \in Seq(X), NEW S PROVE Only(s, S) \in Seq(X)
<1>1. PICK f \in [0 .. Len(s) -> Seq(X)] : Only(s, S) = f[Len(s)]
  BY OnlyIs
<1>2. Len(s) \in 0 .. Len(s)
  OBVIOUS
<1> QED
  BY <1>1, <1>2

LEMMA OfAppend ==
    ASSUME NEW X, NEW s \in Seq(X), NEW x \in X
    PROVE  ToSet(Append(s, x)) = ToSet(s) \cup {x}
<1> DEFINE t == Append(s, x)
<1>1. /\ DOMAIN t = 1 .. Len(s) + 1 /\ t[Len(s) + 1] = x /\ Len(s) \in Nat /\ DOMAIN s = 1 .. Len(s)
      /\ \A i \in 1 .. Len(s) : t[i] = s[i]
  OBVIOUS
<1> HIDE DEF t
<1>2. \A i \in DOMAIN t : i \in DOMAIN s \/ i = Len(s) + 1
  BY <1>1
<1>3. Len(s) + 1 \in DOMAIN t /\ \A i \in DOMAIN s : i \in DOMAIN t
  BY <1>1
<1> QED
  BY <1>1, <1>2, <1>3 DEF ToSet, t

LEMMA OnlyMembers == \A X, S : \A s \in Seq(X) : ToSet(Only(s, S)) = ToSet(s) \cap S
<1> SUFFICES ASSUME NEW X, NEW S PROVE \A s \in Seq(X) : ToSet(Only(s, S)) = ToSet(s) \cap S
  OBVIOUS
<1> DEFINE P == {s \in Seq(X) : ToSet(Only(s, S)) = ToSet(s) \cap S}
<1>1. <<>> \in P
  BY OnlyEmpty DEF ToSet
<1>2. ASSUME NEW s \in Seq(X), NEW x \in X, s \in P PROVE Append(s, x) \in P
  <2>1. Append(s, x) \in Seq(X) /\ Only(s, S) \in Seq(X)
    BY OnlyType
  <2>2. ToSet(Append(s, x)) = ToSet(s) \cup {x} /\ ToSet(Append(Only(s, S), x)) = ToSet(Only(s, S)) \cup {x}
    BY <2>1, OfAppend
  <2>3. ToSet(Only(Append(s, x), S)) = ToSet(Append(s, x)) \cap S
    <3>1. CASE x \in S
      <4>1. Only(Append(s, x), S) = Append(Only(s, S), x)
        BY <3>1, OnlyAppend
      <4> QED
        BY <1>2, <2>2, <3>1, <4>1
    <3>2. CASE x \notin S
      <4>1. Only(Append(s, x), S) = Only(s, S)
        BY <3>2, OnlyAppend
      <4> QED
        BY <1>2, <2>2, <3>2, <4>1
    <3> QED
      BY <3>1, <3>2
  <2> QED
    BY <2>1, <2>3
<1>3. Seq(X) \subseteq P
  <2> HIDE DEF P
  <2> QED
    BY <1>1, <1>2, Appending
<1> QED
  BY <1>3

JoinedAppend(s, t, x) == Append(s \o t, x) = s \o Append(t, x)

LEMMA JoinAppend ==
    ASSUME NEW X, NEW s \in Seq(X), NEW t \in Seq(X), NEW x \in X
    PROVE  JoinedAppend(s, t, x)
  BY DEF JoinedAppend

LEMMA OnlyJoin == \A X, S : \A s, t \in Seq(X) : Only(s \o t, S) = Only(s, S) \o Only(t, S)
<1> SUFFICES ASSUME NEW X, NEW S, NEW s \in Seq(X) PROVE \A t \in Seq(X) : Only(s \o t, S) = Only(s, S) \o Only(t, S)
  OBVIOUS
<1> DEFINE P == {t \in Seq(X) : Only(s \o t, S) = Only(s, S) \o Only(t, S)}
<1>0. Only(s, S) \in Seq(X)
  BY OnlyType
<1>1. <<>> \in P
  BY <1>0, OnlyEmpty
<1>2. ASSUME NEW t \in Seq(X), NEW x \in X, t \in P PROVE Append(t, x) \in P
  <2>1. s \o Append(t, x) = Append(s \o t, x) /\ s \o t \in Seq(X) /\ Append(t, x) \in Seq(X)
    OBVIOUS
  <2>2. Only(t, S) \in Seq(X)
    BY OnlyType
  <2>3. Only(Append(s \o t, x), S) = IF x \in S THEN Append(Only(s \o t, S), x) ELSE Only(s \o t, S)
    BY <2>1, OnlyAppend
  <2>4. Only(Append(t, x), S) = IF x \in S THEN Append(Only(t, S), x) ELSE Only(t, S)
    BY OnlyAppend
  <2>5. Append(Only(s, S) \o Only(t, S), x) = Only(s, S) \o Append(Only(t, S), x)
    <3>1. JoinedAppend(Only(s, S), Only(t, S), x)
      BY <1>0, <2>2, JoinAppend
    <3> QED
      BY <3>1 DEF JoinedAppend
  <2>6. Only(s \o t, S) = Only(s, S) \o Only(t, S)
    BY <1>2
  <2>7. Only(s \o Append(t, x), S) = Only(s, S) \o Only(Append(t, x), S)
    BY <2>1, <2>3, <2>4, <2>5, <2>6
  <2> QED
    BY <2>1, <2>7
<1>3. Seq(X) \subseteq P
  <2> HIDE DEF P
  <2> QED
    BY <1>1, <1>2, Appending
<1> QED
  BY <1>3

\* What is kept of what is kept, and of what is in two sets alike.
LEMMA OnlyTwice == \A X, S, T : \A s \in Seq(X) : Only(Only(s, S), T) = Only(s, S \cap T)
<1> SUFFICES ASSUME NEW X, NEW S, NEW T PROVE \A s \in Seq(X) : Only(Only(s, S), T) = Only(s, S \cap T)
  OBVIOUS
<1> DEFINE P == {s \in Seq(X) : Only(Only(s, S), T) = Only(s, S \cap T)}
<1>1. <<>> \in P
  BY OnlyEmpty
<1>2. ASSUME NEW s \in Seq(X), NEW x \in X, s \in P PROVE Append(s, x) \in P
  <2>1. Append(s, x) \in Seq(X) /\ Only(s, S) \in Seq(X)
    BY OnlyType
  <2>2. Only(Append(s, x), S \cap T) = IF x \in S \cap T THEN Append(Only(s, S \cap T), x) ELSE Only(s, S \cap T)
    BY OnlyAppend
  <2>3. Only(Append(s, x), S) = IF x \in S THEN Append(Only(s, S), x) ELSE Only(s, S)
    BY OnlyAppend
  <2>4. Only(Append(Only(s, S), x), T) = IF x \in T THEN Append(Only(Only(s, S), T), x) ELSE Only(Only(s, S), T)
    BY <2>1, OnlyAppend
  <2>5. Only(Only(s, S), T) = Only(s, S \cap T)
    BY <1>2
  <2>6. Only(Only(Append(s, x), S), T) = Only(Append(s, x), S \cap T)
    <3>1. CASE x \in S /\ x \in T
      BY <2>2, <2>3, <2>4, <2>5, <3>1
    <3>2. CASE x \in S /\ x \notin T
      BY <2>2, <2>3, <2>4, <2>5, <3>2
    <3>3. CASE x \notin S
      BY <2>2, <2>3, <2>5, <3>3
    <3> QED
      BY <3>1, <3>2, <3>3
  <2> QED
    BY <2>1, <2>6
<1>3. Seq(X) \subseteq P
  <2> HIDE DEF P
  <2> QED
    BY <1>1, <1>2, Appending
<1> QED
  BY <1>3

LEMMA OnlyAgree ==
    \A X, S, T : \A s \in Seq(X) : (\A x \in ToSet(s) : x \in S <=> x \in T) => Only(s, S) = Only(s, T)
<1> SUFFICES ASSUME NEW X, NEW S, NEW T
             PROVE  \A s \in Seq(X) : (\A x \in ToSet(s) : x \in S <=> x \in T) => Only(s, S) = Only(s, T)
  OBVIOUS
<1> DEFINE P == {s \in Seq(X) : (\A x \in ToSet(s) : x \in S <=> x \in T) => Only(s, S) = Only(s, T)}
<1>1. <<>> \in P
  BY OnlyEmpty
<1>2. ASSUME NEW s \in Seq(X), NEW x \in X, s \in P PROVE Append(s, x) \in P
  <2> SUFFICES ASSUME \A y \in ToSet(Append(s, x)) : y \in S <=> y \in T
               PROVE  Only(Append(s, x), S) = Only(Append(s, x), T)
    OBVIOUS
  <2>1. (x \in S <=> x \in T) /\ \A y \in ToSet(s) : y \in S <=> y \in T
    BY OfAppend
  <2>2. Only(s, S) = Only(s, T)
    BY <1>2, <2>1
  <2>3. CASE x \in S
    <3>1. Only(Append(s, x), S) = Append(Only(s, S), x) /\ Only(Append(s, x), T) = Append(Only(s, T), x)
      BY <2>1, <2>3, OnlyAppend
    <3> QED
      BY <2>2, <3>1
  <2>4. CASE x \notin S
    BY <2>1, <2>2, <2>4, OnlyAppend
  <2> QED
    BY <2>3, <2>4
<1>3. Seq(X) \subseteq P
  <2> HIDE DEF P
  <2> QED
    BY <1>1, <1>2, Appending
<1> QED
  BY <1>3

\* Each place of what is kept comes from a place of its own.
LEMMA OnlyFrom ==
    \A X, S : \A s \in Seq(X) :
        \E e \in [1 .. Len(Only(s, S)) -> 1 .. Len(s)] :
            /\ \A i \in 1 .. Len(Only(s, S)) : Only(s, S)[i] = s[e[i]]
            /\ \A i, j \in 1 .. Len(Only(s, S)) : e[i] = e[j] => i = j
<1> DEFINE From(s, r) == \E e \in [1 .. Len(r) -> 1 .. Len(s)] :
                             /\ \A i \in 1 .. Len(r) : r[i] = s[e[i]]
                             /\ \A i, j \in 1 .. Len(r) : e[i] = e[j] => i = j
<1> SUFFICES ASSUME NEW X, NEW S PROVE \A s \in Seq(X) : From(s, Only(s, S))
  OBVIOUS
<1> DEFINE P == {s \in Seq(X) : From(s, Only(s, S))}
<1>1. <<>> \in P
  <2> DEFINE e == [i \in 1 .. 0 |-> 0]
  <2>1. e \in [1 .. Len(<<>>) -> 1 .. Len(<<>>)] /\ \A i \in 1 .. Len(<<>>) : FALSE
    OBVIOUS
  <2> HIDE DEF e
  <2>2. From(<<>>, <<>>)
    BY <2>1
  <2>3. <<>> \in Seq(X)
    OBVIOUS
  <2> HIDE DEF From
  <2> QED
    BY <2>2, <2>3, OnlyEmpty
<1>2. ASSUME NEW s \in Seq(X), NEW x \in X, s \in P PROVE Append(s, x) \in P
  <2> DEFINE r == Only(s, S)
             t == Append(s, x)
  <2>1. PICK e \in [1 .. Len(r) -> 1 .. Len(s)] :
            /\ \A i \in 1 .. Len(r) : r[i] = s[e[i]]
            /\ \A i, j \in 1 .. Len(r) : e[i] = e[j] => i = j
    BY <1>2
  <2>2. r \in Seq(X)
    BY OnlyType
  <2>3. t \in Seq(X) /\ Len(t) = Len(s) + 1 /\ t[Len(s) + 1] = x /\ Len(s) \in Nat /\ \A i \in 1 .. Len(s) : t[i] = s[i]
    OBVIOUS
  <2>4. CASE x \in S
    <3> DEFINE q == Append(r, x)
               d == [i \in 1 .. Len(r) + 1 |-> IF i = Len(r) + 1 THEN Len(s) + 1 ELSE e[i]]
    <3>1. Only(t, S) = q
      BY <2>4, OnlyAppend
    <3>2. Len(q) = Len(r) + 1 /\ q[Len(r) + 1] = x /\ Len(r) \in Nat /\ \A i \in 1 .. Len(r) : q[i] = r[i]
      BY <2>2
    <3> HIDE DEF q, r, t
    <3>3. \A i \in 1 .. Len(r) : d[i] = e[i] /\ e[i] \in 1 .. Len(s)
      BY <2>1, <3>2
    <3>4. d[Len(r) + 1] = Len(s) + 1
      BY <3>2
    <3>5. d \in [1 .. Len(q) -> 1 .. Len(t)]
      BY <2>3, <3>2, <3>3, <3>4
    <3> HIDE DEF d
    <3>6. \A i \in 1 .. Len(q) : i \in 1 .. Len(r) \/ i = Len(r) + 1
      BY <3>2
    <3>7. \A i \in 1 .. Len(q) : q[i] = t[d[i]]
      BY <2>1, <2>3, <3>2, <3>3, <3>4, <3>6
    <3>8. \A i, j \in 1 .. Len(q) : d[i] = d[j] => i = j
      BY <2>1, <2>3, <3>3, <3>4, <3>6
    <3>9. From(t, q)
      BY <3>5, <3>7, <3>8
    <3> HIDE DEF From
    <3> QED
      BY <2>3, <3>1, <3>9 DEF t
  <2>5. CASE x \notin S
    <3>1. Only(t, S) = r
      BY <2>5, OnlyAppend
    <3> HIDE DEF r, t
    <3>2. e \in [1 .. Len(r) -> 1 .. Len(t)]
      BY <2>1, <2>3
    <3>3. \A i \in 1 .. Len(r) : r[i] = t[e[i]]
      BY <2>1, <2>3
    <3>4. From(t, r)
      BY <2>1, <3>2, <3>3
    <3> HIDE DEF From
    <3> QED
      BY <2>3, <3>1, <3>4 DEF t
  <2> QED
    BY <2>4, <2>5
<1>3. Seq(X) \subseteq P
  <2> HIDE DEF P
  <2> QED
    BY <1>1, <1>2, Appending
<1> QED
  BY <1>3

LEMMA OfJoin ==
    ASSUME NEW X, NEW s \in Seq(X), NEW t \in Seq(X)
    PROVE  s \o t \in Seq(X) /\ ToSet(s \o t) = ToSet(s) \cup ToSet(t)
<1> DEFINE r == s \o t
<1>1. /\ r \in Seq(X) /\ DOMAIN r = 1 .. Len(s) + Len(t) /\ Len(s) \in Nat /\ Len(t) \in Nat
      /\ DOMAIN s = 1 .. Len(s) /\ DOMAIN t = 1 .. Len(t)
      /\ \A i \in 1 .. Len(s) + Len(t) : r[i] = IF i <= Len(s) THEN s[i] ELSE t[i - Len(s)]
  OBVIOUS
<1> HIDE DEF r
<1>2. ASSUME NEW i \in DOMAIN r PROVE r[i] \in ToSet(s) \cup ToSet(t)
  <2>1. CASE i <= Len(s)
    <3>1. i \in DOMAIN s /\ r[i] = s[i]
      BY <1>1, <2>1
    <3> QED
      BY <3>1 DEF ToSet
  <2>2. CASE ~(i <= Len(s))
    <3>1. i - Len(s) \in DOMAIN t /\ r[i] = t[i - Len(s)]
      BY <1>1, <2>2
    <3> QED
      BY <3>1 DEF ToSet
  <2> QED
    BY <2>1, <2>2
<1>3. ASSUME NEW i \in DOMAIN s PROVE s[i] \in ToSet(r)
  <2>1. i \in DOMAIN r /\ r[i] = s[i]
    BY <1>1
  <2> QED
    BY <2>1 DEF ToSet
<1>4. ASSUME NEW i \in DOMAIN t PROVE t[i] \in ToSet(r)
  <2>1. i + Len(s) \in DOMAIN r /\ r[i + Len(s)] = t[i]
    BY <1>1
  <2> QED
    BY <2>1 DEF ToSet
<1>5. ToSet(r) = ToSet(s) \cup ToSet(t)
  BY <1>2, <1>3, <1>4 DEF ToSet
<1> QED
  BY <1>1, <1>5 DEF r

LEMMA OneAlone == \A X : \A s \in Seq(X) : <<>> \o s = s
  OBVIOUS

LEMMA Flattened ==
    ASSUME NEW X, NEW q \in Seq(Seq(X))
    PROVE  FlattenSeq(q) \in Seq(X) /\ ToSet(FlattenSeq(q)) = UNION {ToSet(q[i]) : i \in DOMAIN q}
<1> DEFINE n == Len(q)
           Y == Seq(X)
           e == <<>>
           g == [p \in Y \X (1 .. n) |-> p[1] \o q[p[2]]]
           eq(f) == [i \in 1 .. n |-> IF i = 1 THEN q[i] ELSE f[i - 1] \o q[i]]
           flat == CHOOSE f : f = eq(f)
<1>1. n \in Nat /\ DOMAIN q = 1 .. n /\ e \in Y /\ \A i \in 1 .. n : q[i] \in Y
  OBVIOUS
<1>2. \A s, t \in Y : s \o t \in Y
  OBVIOUS
<1>3. PICK f \in [0 .. n -> Y] : f[0] = e /\ \A i \in 1 .. n : f[i] = g[<<f[i - 1], i>>]
  <2>1. g \in [Y \X (1 .. n) -> Y]
    <3> HIDE DEF n, Y
    <3> QED
      BY <1>1, <1>2
  <2> HIDE DEF n, Y, e, g
  <2>2. Iterate(Y, e, n, g)
    BY <1>1, <2>1, Iterates
  <2> QED
    BY <2>2 DEF Iterate
<1>4. \A i \in 1 .. n : i - 1 \in 0 .. n /\ i \in 0 .. n /\ f[i - 1] \in Y /\ f[i] = f[i - 1] \o q[i]
  <2> TAKE i \in 1 .. n
  <2> HIDE DEF n, Y, e
  <2>1. i - 1 \in 0 .. n /\ i \in 0 .. n
    BY <1>1
  <2>2. <<f[i - 1], i>> \in Y \X (1 .. n)
    BY <2>1
  <2> QED
    BY <1>3, <2>1, <2>2
<1>5. \A i \in 1 .. n : f[i] = IF i = 1 THEN q[i] ELSE f[i - 1] \o q[i]
  <2> TAKE i \in 1 .. n
  <2>1. CASE i = 1
    <3>1. e \o q[i] = q[i]
      BY <1>1, OneAlone
    <3> HIDE DEF e, n, Y
    <3> QED
      BY <1>3, <1>4, <2>1, <3>1, 1 - 1 = 0
  <2>2. CASE i # 1
    BY <1>4, <2>2
  <2> QED
    BY <2>1, <2>2
<1> HIDE DEF n, Y, e, g
<1> DEFINE h == [i \in 1 .. n |-> f[i]]
<1>6. h = eq(h)
  <2>1. \A i \in 1 .. n : i # 1 => i - 1 \in 1 .. n
    BY <1>1
  <2>2. \A i \in 1 .. n : h[i] = IF i = 1 THEN q[i] ELSE h[i - 1] \o q[i]
    BY <1>5, <2>1
  <2>3. h = [i \in 1 .. n |-> h[i]]
    OBVIOUS
  <2> HIDE DEF h
  <2> QED
    BY <2>2, <2>3
<1>7. flat = eq(flat)
  <2> HIDE DEF eq, h
  <2> QED
    BY <1>6
<1>8. \A i \in 1 .. n : flat[i] = f[i]
  <2> DEFINE Same == {i \in Nat : i \in 1 .. n => flat[i] = f[i]}
  <2>0. \A i \in 1 .. n : flat[i] = IF i = 1 THEN q[i] ELSE flat[i - 1] \o q[i]
    <3> HIDE DEF flat
    <3>1. \A i \in 1 .. n : eq(flat)[i] = IF i = 1 THEN q[i] ELSE flat[i - 1] \o q[i]
      OBVIOUS
    <3> HIDE DEF eq
    <3> QED
      BY <1>7, <3>1
  <2> HIDE DEF flat, eq
  <2>1. 0 \in Same
    OBVIOUS
  <2>2. ASSUME NEW i \in Nat, i \in Same PROVE i + 1 \in Same
    <3> SUFFICES ASSUME i + 1 \in 1 .. n PROVE flat[i + 1] = f[i + 1]
      OBVIOUS
    <3>1. CASE i = 0
      BY <1>5, <2>0, <3>1
    <3>2. CASE i # 0
      <4>1. i \in 1 .. n /\ i + 1 # 1 /\ (i + 1) - 1 = i
        BY <1>1, <3>2
      <4> QED
        BY <1>5, <2>0, <2>2, <4>1
    <3> QED
      BY <3>1, <3>2
  <2>3. Nat \subseteq Same
    <3> HIDE DEF Same
    <3> QED
      BY <2>1, <2>2, Counting
  <2> QED
    BY <2>3
<1> DEFINE All(k) == UNION {ToSet(q[i]) : i \in 1 .. k}
           Fine == {k \in Nat : k <= n => ToSet(f[k]) = All(k)}
<1>9. ToSet(f[n]) = All(n)
  <2>1. 0 \in Fine
    <3>1. ToSet(e) = {} /\ All(0) = {}
      BY DEF ToSet, e
    <3> QED
      BY <1>3, <3>1
  <2>2. ASSUME NEW k \in Nat, k \in Fine PROVE k + 1 \in Fine
    <3> SUFFICES ASSUME k + 1 <= n PROVE ToSet(f[k + 1]) = All(k + 1)
      OBVIOUS
    <3>1. k + 1 \in 1 .. n /\ (k + 1) - 1 = k
      BY <1>1
    <3>2. f[k] \in Y /\ f[k + 1] = f[k] \o q[k + 1] /\ q[k + 1] \in Y
      BY <1>1, <1>4, <3>1
    <3>3. ToSet(f[k + 1]) = ToSet(f[k]) \cup ToSet(q[k + 1])
      BY <3>2, OfJoin DEF Y
    <3>4. ToSet(f[k]) = All(k)
      BY <1>1, <2>2
    <3>5. \A i : i \in 1 .. k + 1 <=> i \in 1 .. k \/ i = k + 1
      OBVIOUS
    <3>6. All(k + 1) = All(k) \cup ToSet(q[k + 1])
      BY <3>5
    <3> QED
      BY <3>3, <3>4, <3>6
  <2>3. Nat \subseteq Fine
    <3> HIDE DEF Fine
    <3> QED
      BY <2>1, <2>2, Counting
  <2>4. n \in Fine
    BY <1>1, <2>3
  <2> HIDE DEF All
  <2> QED
    BY <1>1, <2>4
<1>10. CASE n = 0
  <2>1. FlattenSeq(q) = q /\ q = <<>>
    BY <1>10 DEF FlattenSeq, n
  <2>2. DOMAIN q = {}
    BY <1>1, <1>10
  <2> QED
    BY <2>1, <2>2 DEF ToSet
<1>11. CASE n # 0
  <2>1. FlattenSeq(q) = flat[n]
    BY <1>11 DEF FlattenSeq, n
  <2>2. n \in 1 .. n /\ n \in 0 .. n
    BY <1>1, <1>11
  <2>3. FlattenSeq(q) = f[n] /\ f[n] \in Y
    BY <1>8, <2>1, <2>2
  <2> QED
    BY <1>1, <1>9, <2>3 DEF Y
<1> QED
  BY <1>10, <1>11

LEMMA Listed ==
    ASSUME NEW S, IsFiniteSet(S)
    PROVE  SetToSeq(S) \in Seq(S) /\ ToSet(SetToSeq(S)) = S
<1> DEFINE n == Cardinality(S)
           D == 1 .. n
           list == SetToSeq(S)
<1>1. n \in Nat /\ ExistsBijection(D, S)
  BY FS_CardinalityType
<1>2. PICK f \in Bijection(D, S) : TRUE
  BY <1>1 DEF ExistsBijection
<1>3. f \in [D -> S] /\ IsInjective(f)
  BY <1>2 DEF Bijection, Injection, IsInjective
<1>4. list \in [D -> S] /\ IsInjective(list)
  BY <1>3 DEF SetToSeq
<1>5. IsFiniteSet(D) /\ Cardinality(D) = n
  BY <1>1, FS_Interval
<1>6. list \in Injection(D, S)
  BY <1>4 DEF Injection, IsInjective
<1> HIDE DEF list, D
<1>7. list \in Surjection(D, S)
  BY <1>5, <1>6, FS_Injection
<1>8. \A x \in S : \E i \in D : list[i] = x
  BY <1>7 DEF Surjection
<1>9. DOMAIN list = D /\ \A i \in D : list[i] \in S
  BY <1>4
<1>10. ToSet(list) = S
  BY <1>8, <1>9 DEF ToSet
<1>11. list \in Seq(S)
  BY <1>1, <1>4 DEF D
<1> QED
  BY <1>10, <1>11 DEF list

----------------------------------------------------------------------------
(* What a text says of tracks, and what is parsed of it. *)

LEMMA ListIs == ASSUME NEW s, IsList(s) PROVE s \in Seq(ToSet(s)) /\ Len(s) \in Nat /\ DOMAIN s = 1 .. Len(s)
BY DEF IsList

LEMMA InList == ASSUME NEW X, NEW s \in Seq(X) PROVE ToSet(s) \subseteq X /\ s \in Seq(ToSet(s)) /\ IsList(s)
<1>1. DOMAIN s = 1 .. Len(s) /\ Len(s) \in Nat /\ \A i \in DOMAIN s : s[i] \in X /\ s[i] \in ToSet(s)
  BY DEF ToSet
<1>2. s \in [1 .. Len(s) -> ToSet(s)]
  BY <1>1
<1>3. s \in Seq(ToSet(s))
  BY <1>1, <1>2
<1> QED
  BY <1>1, <1>3 DEF ToSet, IsList

\* A function of the first naturals is a sequence of what it gives.
LEMMA FunctionIsList ==
    ASSUME NEW n \in Nat, NEW X, NEW f \in [1 .. n -> X]
    PROVE  f \in Seq(X) /\ Len(f) = n /\ DOMAIN f = 1 .. n /\ IsList(f)
<1>1. f \in Seq(X) /\ Len(f) = n /\ DOMAIN f = 1 .. n
  OBVIOUS
<1> QED
  BY <1>1, InList

----------------------------------------------------------------------------
\* Parsing and saving.

TrackSays(says) == {w \in says : SaysTrack(w)}
SaysIn(text) == {x.says : x \in ToSet(text)}

TracksSaid(text) == {TrackOf(w) : w \in TrackSays(SaysIn(text))}

\* Parse: the tracks of a board are those its text says, by net too.
LEMMA ParseTracks ==
    ASSUME NEW text, IsList(text)
    PROVE  /\ ToSet(ParseBoard(text).tracks) = TracksSaid(text)
           /\ IsList(ParseBoard(text).tracks)
           /\ \A net : TracksOfNet(ParseBoard(text), net) = {t \in TracksSaid(text) : t.net = net}
<1> DEFINE root == ReadTree(text)
           X == ToSet(root.items)
           S == {n \in X : SaysTrack(n.says)}
           nodes == Only(root.items, S)
           all == [i \in DOMAIN nodes |-> TrackOf(nodes[i].says)]
<1>1. Len(text) \in Nat /\ DOMAIN text = 1 .. Len(text)
  BY ListIs
<1>2. root.items = [i \in 1 .. Len(text) |-> [says |-> text[i].says, form |-> text[i].form, dirty |-> FALSE]]
  BY <1>1 DEF ReadTree
<1>3. root.items \in Seq(X)
  <2> DEFINE Y == {[says |-> text[i].says, form |-> text[i].form, dirty |-> FALSE] : i \in 1 .. Len(text)}
  <2>1. root.items \in [1 .. Len(text) -> Y]
    BY <1>2
  <2> HIDE DEF Y, root
  <2> QED
    BY <1>1, <2>1, FunctionIsList DEF IsList
<1>4. nodes \in Seq(X) /\ ToSet(nodes) = S
  <2> HIDE DEF root
  <2>1. ToSet(nodes) = X \cap S
    BY <1>3, OnlyMembers
  <2> QED
    BY <1>3, <2>1, OnlyType
<1>5. S = {n \in X : SaysTrack(n.says)} /\ {n.says : n \in S} = TrackSays(SaysIn(text))
  <2>1. ASSUME NEW n \in S PROVE n.says \in TrackSays(SaysIn(text))
    <3>1. PICK i \in 1 .. Len(text) : n.says = text[i].says
      BY <1>2 DEF ToSet
    <3> QED
      BY <1>1, <3>1 DEF TrackSays, SaysIn, ToSet
  <2>2. ASSUME NEW w \in TrackSays(SaysIn(text)) PROVE \E n \in S : n.says = w
    <3>1. PICK i \in 1 .. Len(text) : w = text[i].says /\ SaysTrack(w)
      BY <1>1 DEF TrackSays, SaysIn, ToSet
    <3>2. DOMAIN root.items = 1 .. Len(text) /\ root.items[i].says = w
      BY <1>2, <3>1
    <3>3. root.items[i] \in X
      BY <3>2 DEF ToSet
    <3> QED
      BY <3>1, <3>2, <3>3
  <2> HIDE DEF S
  <2>3. {n.says : n \in S} = TrackSays(SaysIn(text))
    BY <2>1, <2>2
  <2> QED
    BY <2>3 DEF S
<1> HIDE DEF root, X, S
<1>6. ToSet(all) = {TrackOf(n.says) : n \in S} /\ IsList(all)
  <2>0. Len(nodes) \in Nat /\ DOMAIN nodes = 1 .. Len(nodes) /\ \A i \in DOMAIN nodes : nodes[i] \in S
    BY <1>4, InList DEF ToSet
  <2>1. all \in [1 .. Len(nodes) -> {TrackOf(n.says) : n \in S}]
    BY <2>0
  <2>2. ASSUME NEW n \in S PROVE TrackOf(n.says) \in ToSet(all)
    <3>1. PICK i \in DOMAIN nodes : nodes[i] = n
      BY <1>4 DEF ToSet
    <3> QED
      BY <3>1 DEF ToSet
  <2> HIDE DEF nodes, all
  <2>3. IsList(all) /\ ToSet(all) \subseteq {TrackOf(n.says) : n \in S}
    BY <2>0, <2>1, FunctionIsList, InList
  <2> QED
    BY <2>2, <2>3
<1>7. ToSet(all) = TracksSaid(text)
  BY <1>5, <1>6 DEF TracksSaid
<1>8. ParseBoard(text).tracks = all /\ ParseBoard(text).byNet = OnNets(ToSet(all))
  BY DEF ParseBoard, root, X, S
<1> HIDE DEF all
<1>9. ASSUME NEW net PROVE TracksOfNet(ParseBoard(text), net) = {t \in TracksSaid(text) : t.net = net}
  <2>1. CASE net \in {t.net : t \in TracksSaid(text)}
    BY <1>7, <1>8, <2>1 DEF TracksOfNet, OnNets
  <2>2. CASE net \notin {t.net : t \in TracksSaid(text)}
    BY <1>7, <1>8, <2>2 DEF TracksOfNet, OnNets
  <2> QED
    BY <2>1, <2>2
<1> QED
  BY <1>6, <1>7, <1>8, <1>9

----------------------------------------------------------------------------
(* Obstacles: the pieces of the tracks of a board, and what does not move. *)

LEMMA FileTracks == TracksOfFile = TracksSaid(File)
<1>1. IsList(File)
  BY CheckerAssumption
<1> QED
  BY <1>1, ParseTracks DEF TracksOfFile

LEMMA AllWritten == \A t \in AllTracks : KeepsWritten(t)
<1>1. ASSUME NEW t \in TracksOfFile PROVE KeepsWritten(t)
  <2>1. PICK w \in TrackSays(SaysIn(File)) : t = TrackOf(w)
    BY FileTracks DEF TracksSaid
  <2>2. PICK x \in ToSet(File) : w = x.says
    BY DEF TrackSays, SaysIn
  <2>3. SaysTrack(w) /\ IsCopper(w)
    BY <2>2, CheckerAssumption DEF TrackSays
  <2> QED
    BY <2>1, <2>3 DEF IsCopper
<1>2. \A t \in Tracks : KeepsWritten(t)
  BY CheckerAssumption
<1> QED
  BY <1>1, <1>2 DEF AllTracks

LEMMA FiniteList == ASSUME NEW s, IsList(s) PROVE IsFiniteSet(ToSet(s))
<1>1. IsFiniteSet(1 .. Len(s)) /\ DOMAIN s = 1 .. Len(s)
  BY ListIs, FS_Interval
<1>2. s \in Surjection(1 .. Len(s), ToSet(s))
  <2>1. s \in [1 .. Len(s) -> ToSet(s)]
    BY ListIs
  <2>2. \A y \in ToSet(s) : \E i \in 1 .. Len(s) : s[i] = y
    BY <1>1 DEF ToSet
  <2> QED
    BY <2>1, <2>2 DEF Surjection
<1> QED
  BY <1>1, <1>2, FS_Surjection

LEMMA LayersFinite == ASSUME NEW t \in AllTracks PROVE IsFiniteSet(LayersOf(t))
<1>1. IsFiniteSet(ToSet(t.on)) /\ IsFiniteSet(ToSet(CopperLayers))
  BY AllWritten, FiniteList, CheckerAssumption DEF KeepsWritten
<1>2. LayersOf(t) \subseteq ToSet(t.on) \/ LayersOf(t) \subseteq ToSet(CopperLayers)
  BY DEF LayersOf, ToSet
<1> QED
  BY <1>1, <1>2, FS_Subset

----------------------------------------------------------------------------
\* Obstacles.

LiveOf(o) == {x \in ToSet(o) : ~x.dead}

IsObstacle(x) ==
    /\ x = [box |-> x.box, layer |-> x.layer, net |-> x.net, kind |-> x.kind, ref |-> x.ref,
            owner |-> x.owner, edge |-> x.edge, dead |-> x.dead]
    /\ x.dead \in BOOLEAN

ObsOK(o) == IsList(o) /\ \A x \in ToSet(o) : IsObstacle(x)

PieceObs(t) == {Obstacle(t.box, l, t.net, t.kind, t.id, "", FALSE) : l \in LayersOf(t)}

FixedObs ==
    {Obstacle(Fixed[i].box, Fixed[i].layer, Fixed[i].net, Fixed[i].kind, Fixed[i].ref,
              Fixed[i].owner, Fixed[i].kind = "board-edge") : i \in DOMAIN Fixed}

ObsOfAll(S) == UNION {PieceObs(t) : t \in S}

BoardObs(S) == ObsOfAll(S) \cup FixedObs

\* A track is an obstacle on each of its layers, and New makes no other.
LEMMA PieceList ==
    ASSUME NEW t \in AllTracks
    PROVE  IsList(ObstaclesOf(t)) /\ ToSet(ObstaclesOf(t)) = PieceObs(t)
<1> DEFINE layers == SetToSeq(LayersOf(t))
           ob(l) == Obstacle(t.box, l, t.net, t.kind, t.id, "", FALSE)
           list == [i \in DOMAIN layers |-> ob(layers[i])]
<1>1. layers \in Seq(LayersOf(t)) /\ ToSet(layers) = LayersOf(t)
  BY LayersFinite, Listed
<1>2. ObstaclesOf(t) = list
  BY DEF ObstaclesOf
<1>3. PieceObs(t) = {ob(l) : l \in LayersOf(t)}
  BY DEF PieceObs
<1> HIDE DEF layers, ob
<1>4. Len(layers) \in Nat /\ DOMAIN layers = 1 .. Len(layers) /\ \A i \in DOMAIN layers : layers[i] \in LayersOf(t)
  BY <1>1
<1>5. list \in [1 .. Len(layers) -> PieceObs(t)]
  BY <1>3, <1>4
<1>6. ASSUME NEW l \in LayersOf(t) PROVE ob(l) \in ToSet(list)
  <2>1. PICK i \in DOMAIN layers : layers[i] = l
    BY <1>1 DEF ToSet
  <2> QED
    BY <2>1 DEF ToSet
<1> HIDE DEF list
<1>7. IsList(list) /\ ToSet(list) \subseteq PieceObs(t)
  BY <1>4, <1>5, FunctionIsList, InList
<1>8. PieceObs(t) \subseteq ToSet(list)
  BY <1>3, <1>6
<1> QED
  BY <1>2, <1>7, <1>8

LEMMA PiecesFlat ==
    ASSUME NEW list \in Seq(AllTracks)
    PROVE  IsList(ObstaclesOfAll(list)) /\ ToSet(ObstaclesOfAll(list)) = ObsOfAll(ToSet(list))
<1> DEFINE q == [i \in DOMAIN list |-> ObstaclesOf(list[i])]
           X == ObsOfAll(ToSet(list))
<1>1. Len(list) \in Nat /\ DOMAIN list = 1 .. Len(list) /\ \A i \in DOMAIN list : list[i] \in AllTracks /\ list[i] \in ToSet(list)
  BY DEF ToSet
<1>2. ASSUME NEW i \in DOMAIN list PROVE ObstaclesOf(list[i]) \in Seq(X) /\ ToSet(ObstaclesOf(list[i])) = PieceObs(list[i])
  <2>1. IsList(ObstaclesOf(list[i])) /\ ToSet(ObstaclesOf(list[i])) = PieceObs(list[i])
    BY <1>1, PieceList
  <2>2. PieceObs(list[i]) \subseteq X
    BY <1>1 DEF ObsOfAll
  <2> HIDE DEF X
  <2>3. ASSUME NEW s, s \in Seq(PieceObs(list[i])) PROVE s \in Seq(X)
    BY <2>2, <2>3
  <2> QED
    BY <2>1, <2>3 DEF IsList
<1> HIDE DEF X
<1>3. q \in [1 .. Len(list) -> Seq(X)]
  BY <1>1, <1>2
<1>4. q \in Seq(Seq(X)) /\ DOMAIN q = DOMAIN list /\ \A i \in DOMAIN list : q[i] = ObstaclesOf(list[i])
  BY <1>1, <1>3
<1> HIDE DEF q
<1>5. FlattenSeq(q) \in Seq(X) /\ ToSet(FlattenSeq(q)) = UNION {ToSet(q[i]) : i \in DOMAIN q}
  BY <1>4, Flattened
<1>6. {ToSet(q[i]) : i \in DOMAIN q} = {PieceObs(t) : t \in ToSet(list)}
  <2>1. \A i \in DOMAIN q : ToSet(q[i]) = PieceObs(list[i]) /\ list[i] \in ToSet(list)
    BY <1>1, <1>2, <1>4
  <2>2. \A t \in ToSet(list) : \E i \in DOMAIN q : t = list[i]
    BY <1>4 DEF ToSet
  <2> QED
    BY <2>1, <2>2
<1>7. ToSet(FlattenSeq(q)) = X
  BY <1>5, <1>6 DEF X, ObsOfAll
<1>8. ObstaclesOfAll(list) = FlattenSeq(q)
  BY DEF ObstaclesOfAll, q
<1> QED
  BY <1>5, <1>7, <1>8, InList DEF X

LEMMA AreObstacles == ASSUME NEW S \in SUBSET AllTracks PROVE \A x \in BoardObs(S) : IsObstacle(x) /\ ~x.dead
<1>0. ASSUME NEW box, NEW layer, NEW net, NEW kind, NEW ref, NEW owner, NEW edge
      PROVE  LET x == Obstacle(box, layer, net, kind, ref, owner, edge) IN IsObstacle(x) /\ ~x.dead
  BY DEF Obstacle, IsObstacle
<1>1. ASSUME NEW t, NEW x \in PieceObs(t) PROVE IsObstacle(x) /\ ~x.dead
  BY <1>0 DEF PieceObs
<1>2. ASSUME NEW x \in FixedObs PROVE IsObstacle(x) /\ ~x.dead
  <2>1. PICK i \in DOMAIN Fixed :
          x = Obstacle(Fixed[i].box, Fixed[i].layer, Fixed[i].net, Fixed[i].kind, Fixed[i].ref,
                       Fixed[i].owner, Fixed[i].kind = "board-edge")
    BY DEF FixedObs
  <2> DEFINE edge == Fixed[i].kind = "board-edge"
  <2> HIDE DEF edge
  <2> QED
    BY <1>0, <2>1 DEF edge
<1> QED
  BY <1>1, <1>2 DEF BoardObs, ObsOfAll

LEMMA ListJoin ==
    ASSUME NEW s, NEW t, IsList(s), IsList(t)
    PROVE  IsList(s \o t) /\ ToSet(s \o t) = ToSet(s) \cup ToSet(t)
<1> DEFINE X == ToSet(s) \cup ToSet(t)
<1>1. s \in Seq(X) /\ t \in Seq(X)
  BY DEF IsList
<1> HIDE DEF X
<1>2. s \o t \in Seq(X) /\ ToSet(s \o t) = ToSet(s) \cup ToSet(t)
  BY <1>1, OfJoin
<1> QED
  BY <1>2 DEF IsList, X

LEMMA NewObsIs ==
    ASSUME NEW b, b.tracks \in Seq(AllTracks)
    PROVE  ObsOK(NewObs(b)) /\ LiveOf(NewObs(b)) = BoardObs(ToSet(b.tracks))
<1> DEFINE fixed == [i \in DOMAIN Fixed |->
                        Obstacle(Fixed[i].box, Fixed[i].layer, Fixed[i].net, Fixed[i].kind, Fixed[i].ref,
                                 Fixed[i].owner, Fixed[i].kind = "board-edge")]
           list == ObstaclesOfAll(b.tracks)
<1>1. IsList(list) /\ ToSet(list) = ObsOfAll(ToSet(b.tracks))
  BY PiecesFlat
<1>2. IsList(fixed) /\ ToSet(fixed) = FixedObs
  <2>1. IsList(Fixed)
    BY CheckerAssumption
  <2>2. Len(Fixed) \in Nat /\ DOMAIN Fixed = 1 .. Len(Fixed)
    BY <2>1, ListIs
  <2>3. DOMAIN fixed = 1 .. Len(Fixed) /\ ToSet(fixed) = FixedObs
    BY <2>2 DEF ToSet, FixedObs
  <2>4. fixed \in [1 .. Len(Fixed) -> FixedObs]
    BY <2>2, <2>3 DEF ToSet, FixedObs
  <2> HIDE DEF fixed
  <2> QED
    BY <2>2, <2>3, <2>4, FunctionIsList
<1>3. NewObs(b) = list \o fixed
  BY DEF NewObs
<1> HIDE DEF list, fixed
<1>4. IsList(NewObs(b)) /\ ToSet(NewObs(b)) = BoardObs(ToSet(b.tracks))
  BY <1>1, <1>2, <1>3, ListJoin DEF BoardObs
<1>5. ToSet(b.tracks) \in SUBSET AllTracks
  BY InList
<1> QED
  BY <1>4, <1>5, AreObstacles DEF ObsOK, LiveOf

\* RemoveRef takes the obstacles of the names away and leaves the index good.
LEMMA RetiredIs ==
    ASSUME NEW o, ObsOK(o), NEW refs
    PROVE  /\ ObsOK(Retired(o, refs))
           /\ LiveOf(Retired(o, refs)) = {x \in LiveOf(o) : x.ref \notin refs}
           /\ IndexOf(Retired(o, refs), 0) = IndexOf(o, 0)
<1> DEFINE r == Retired(o, refs)
<1>1. Len(o) \in Nat /\ DOMAIN o = 1 .. Len(o) /\ \A i \in DOMAIN o : o[i] \in ToSet(o) /\ IsObstacle(o[i])
  BY ListIs DEF ObsOK, ToSet
<1>2. DOMAIN r = DOMAIN o /\ \A i \in DOMAIN o : r[i] = [o[i] EXCEPT !.dead = @ \/ o[i].ref \in refs]
  BY DEF Retired
<1>3. ASSUME NEW i \in DOMAIN o
      PROVE  /\ IsObstacle(r[i]) /\ r[i].box = o[i].box /\ r[i].ref = o[i].ref
             /\ r[i].dead <=> o[i].dead \/ o[i].ref \in refs
             /\ ~r[i].dead => r[i] = o[i]
  <2>1. IsObstacle(o[i])
    BY <1>1
  <2>2. r[i] = [box |-> o[i].box, layer |-> o[i].layer, net |-> o[i].net, kind |-> o[i].kind, ref |-> o[i].ref,
            owner |-> o[i].owner, edge |-> o[i].edge, dead |-> (o[i].dead \/ o[i].ref \in refs)]
    BY <1>2, <2>1 DEF IsObstacle
  <2>3. IsObstacle(r[i])
    BY <2>2 DEF IsObstacle
  <2>4. /\ r[i].box = o[i].box /\ r[i].ref = o[i].ref
        /\ r[i].dead <=> o[i].dead \/ o[i].ref \in refs
    <3> DEFINE gone == o[i].dead \/ o[i].ref \in refs
    <3> HIDE DEF gone
    <3>1. r[i].box = o[i].box /\ r[i].ref = o[i].ref /\ r[i].dead = gone
      BY <2>2 DEF gone
    <3> QED
      BY <3>1 DEF gone
  <2>5. ASSUME ~r[i].dead PROVE r[i] = o[i]
    <3>1. o[i].dead = FALSE /\ (o[i].dead \/ o[i].ref \in refs) = FALSE
      BY <2>1, <2>4, <2>5 DEF IsObstacle
    <3> QED
      BY <2>1, <2>2, <3>1 DEF IsObstacle
  <2> QED
    BY <2>3, <2>4, <2>5
<1> HIDE DEF r
<1>4. r \in [1 .. Len(o) -> ToSet(r)]
  <2>1. r = [i \in DOMAIN o |-> [o[i] EXCEPT !.dead = @ \/ o[i].ref \in refs]]
    BY DEF r, Retired
  <2> QED
    BY <1>1, <1>2, <2>1 DEF ToSet
<1>5. ObsOK(r)
  <2>1. IsList(r)
    BY <1>1, <1>4, FunctionIsList
  <2> QED
    BY <1>2, <1>3, <2>1 DEF ObsOK, ToSet
<1>6. LiveOf(r) = {x \in LiveOf(o) : x.ref \notin refs}
  BY <1>1, <1>2, <1>3 DEF LiveOf, ToSet
<1>7. IndexOf(r, 0) = IndexOf(o, 0)
  BY <1>2, <1>3 DEF IndexOf
<1> QED
  BY <1>5, <1>6, <1>7 DEF r

LEMMA IndexJoin ==
    ASSUME NEW s, NEW t, IsList(s), IsList(t)
    PROVE  IndexOf(s \o t, 0) = IndexOf(s, 0) \cup IndexOf(t, Len(s))
<1> DEFINE o == s \o t
<1>1. /\ Len(s) \in Nat /\ Len(t) \in Nat /\ DOMAIN s = 1 .. Len(s) /\ DOMAIN t = 1 .. Len(t)
      /\ DOMAIN o = 1 .. Len(s) + Len(t)
      /\ \A i \in 1 .. Len(s) : o[i] = s[i]
      /\ \A i \in 1 .. Len(t) : o[Len(s) + i] = t[i]
  <2> DEFINE X == ToSet(s) \cup ToSet(t)
  <2>1. s \in Seq(X) /\ t \in Seq(X)
    BY DEF IsList
  <2> HIDE DEF X
  <2> QED
    BY <2>1
<1> HIDE DEF o
<1> DEFINE at(x, i) == CellsOf(x.box) \X {i}
<1>2. ASSUME NEW u, NEW from PROVE IndexOf(u, from) = UNION {at(u[i], from + i) : i \in DOMAIN u}
  BY DEF IndexOf
<1> HIDE DEF at
<1>3. ASSUME NEW p \in IndexOf(o, 0) PROVE p \in IndexOf(s, 0) \cup IndexOf(t, Len(s))
  <2>1. PICK i \in DOMAIN o : p \in at(o[i], 0 + i)
    BY <1>2
  <2>2. CASE i <= Len(s)
    <3>1. i \in DOMAIN s /\ o[i] = s[i]
      BY <1>1, <2>2
    <3> QED
      BY <1>2, <2>1, <3>1
  <2>3. CASE ~(i <= Len(s))
    <3>1. i - Len(s) \in DOMAIN t /\ Len(s) + (i - Len(s)) = 0 + i
      BY <1>1, <2>3
    <3>2. o[i] = t[i - Len(s)]
      <4>1. o[Len(s) + (i - Len(s))] = t[i - Len(s)]
        BY <1>1, <3>1
      <4> QED
        BY <1>1, <3>1, <4>1
    <3> QED
      BY <1>2, <2>1, <3>1, <3>2
  <2> QED
    BY <2>2, <2>3
<1>4. ASSUME NEW p \in IndexOf(s, 0) PROVE p \in IndexOf(o, 0)
  BY <1>1, <1>2
<1>5. ASSUME NEW p \in IndexOf(t, Len(s)) PROVE p \in IndexOf(o, 0)
  <2>1. PICK i \in DOMAIN t : p \in at(t[i], Len(s) + i)
    BY <1>2
  <2>2. Len(s) + i \in DOMAIN o /\ o[Len(s) + i] = t[i] /\ 0 + (Len(s) + i) = Len(s) + i
    BY <1>1
  <2> QED
    BY <1>2, <2>1, <2>2
<1> QED
  BY <1>3, <1>4, <1>5 DEF o

----------------------------------------------------------------------------
\* The answer of Check by what is live.

TooNear(x, t, l, exempt) ==
    LET reach == Grow(t.box, SearchMargin(t.net))
    IN  /\ CellsOf(x.box) \cap CellsOf(reach) # {} /\ Overlaps(x.box, reach)
        /\ x.edge \/ x.layer = l
        /\ x.ref \notin exempt
        /\ Apart(t.box, x.box) < Required(t.net, t.box, x)

\* With an index of all there is, near is what shares a cell and overlaps.
LEMMA NearIs ==
    ASSUME NEW o, IsList(o), NEW box, NEW margin
    PROVE  Near(o, IndexOf(o, 0), box, margin) =
             {i \in DOMAIN o : /\ CellsOf(o[i].box) \cap CellsOf(Grow(box, margin)) # {}
                               /\ Overlaps(o[i].box, Grow(box, margin))}
<1> DEFINE ix == IndexOf(o, 0)
           C(x) == CellsOf(x.box)
           R == CellsOf(Grow(box, margin))
           V(x) == Overlaps(x.box, Grow(box, margin))
<1>1. Len(o) \in Nat /\ DOMAIN o = 1 .. Len(o) /\ \A i \in DOMAIN o : 0 + i = i
  BY ListIs
<1>2. ix = UNION {C(o[i]) \X {0 + i} : i \in DOMAIN o}
  BY DEF IndexOf
<1>3. Near(o, ix, box, margin) = {i \in {p[2] : p \in {q \in ix : q[1] \in R}} : V(o[i])}
  BY DEF Near
<1> HIDE DEF ix, C, R, V
<1>4. \A q \in ix : q[2] \in DOMAIN o /\ q[1] \in C(o[q[2]])
  BY <1>1, <1>2
<1>5. \A i \in DOMAIN o : \A c : c \in C(o[i]) => <<c, i>> \in ix
  BY <1>1, <1>2
<1>6. {p[2] : p \in {q \in ix : q[1] \in R}} = {i \in DOMAIN o : C(o[i]) \cap R # {}}
  <2> DEFINE A == {p[2] : p \in {q \in ix : q[1] \in R}}
             B == {i \in DOMAIN o : C(o[i]) \cap R # {}}
  <2>1. ASSUME NEW q \in ix, q[1] \in R PROVE q[2] \in DOMAIN o /\ C(o[q[2]]) \cap R # {}
    BY <1>4, <2>1
  <2>2. ASSUME NEW i \in DOMAIN o, NEW c \in C(o[i]) \cap R PROVE <<c, i>> \in ix /\ <<c, i>>[1] \in R /\ <<c, i>>[2] = i
    BY <1>5
  <2>3. ASSUME NEW i \in A PROVE i \in B
    <3>1. PICK q \in ix : q[1] \in R /\ i = q[2]
      OBVIOUS
    <3> QED
      BY <2>1, <3>1
  <2>4. ASSUME NEW i \in B PROVE i \in A
    <3>1. PICK c \in C(o[i]) : c \in R
      OBVIOUS
    <3> QED
      BY <2>2, <3>1
  <2> QED
    BY <2>3, <2>4
<1>7. Near(o, ix, box, margin) = {i \in DOMAIN o : C(o[i]) \cap R # {} /\ V(o[i])}
  BY <1>3, <1>6
<1> QED
  BY <1>7 DEF ix, C, R, V

\* What Check answers depends on what is live, in whatever order it is kept.
LEMMA ClearIs ==
    ASSUME NEW o, ObsOK(o), NEW t, NEW exempt
    PROVE  Clear(o, IndexOf(o, 0), t, exempt) <=>
             \A l \in LayersOf(t), x \in LiveOf(o) : ~TooNear(x, t, l, exempt)
<1>1. ASSUME NEW l \in LayersOf(t)
      PROVE  Clashes(o, IndexOf(o, 0), t.net, t.box, l, exempt) =
               {i \in DOMAIN o : ~o[i].dead /\ TooNear(o[i], t, l, exempt)}
  <2>1. IsList(o)
    BY DEF ObsOK
  <2>2. Near(o, IndexOf(o, 0), t.box, SearchMargin(t.net)) =
          {i \in DOMAIN o : /\ CellsOf(o[i].box) \cap CellsOf(Grow(t.box, SearchMargin(t.net))) # {}
                            /\ Overlaps(o[i].box, Grow(t.box, SearchMargin(t.net)))}
    BY <2>1, NearIs
  <2> QED
    BY <2>2 DEF Clashes, TooNear
<1>2. LiveOf(o) = {o[i] : i \in {j \in DOMAIN o : ~o[j].dead}}
  BY DEF LiveOf, ToSet
<1>3. ASSUME NEW l \in LayersOf(t)
      PROVE  Clashes(o, IndexOf(o, 0), t.net, t.box, l, exempt) = {} <=>
               \A x \in LiveOf(o) : ~TooNear(x, t, l, exempt)
  BY <1>1, <1>2
<1> QED
  BY <1>3 DEF Clear

----------------------------------------------------------------------------
\* The board in memory.

Says == SaysIn(File) \cup {NodeSays(t) : t \in Tracks}

Forms == {x.form : x \in ToSet(File)} \cup {AsKiCad}

Node == [says : Says, form : Forms, dirty : BOOLEAN]

Once(items) == \A i, j \in DOMAIN items : SaysTrack(items[i].says) /\ items[i].says = items[j].says => i = j

SaysOf(S) == {NodeSays(t) : t \in S}

InMemory(b) ==
    /\ b.tracks \in Seq(AllTracks)
    /\ b.root.items \in Seq(Node)
    /\ Once(b.root.items)
    /\ TrackSays(SaysIn(b.root.items)) = SaysOf(ToSet(b.tracks))
    /\ b.byNet = [net \in DOMAIN b.byNet |-> {t \in ToSet(b.tracks) : t.net = net}]
    /\ {t.net : t \in ToSet(b.tracks)} \subseteq DOMAIN b.byNet

LEMMA SaysApart == \A t, u \in AllTracks : NodeSays(t) = NodeSays(u) => t = u
BY AllWritten DEF KeepsWritten

LEMMA SaysTracks == \A t : SaysTrack(NodeSays(t))
BY DEF SaysTrack, NodeSays

LEMMA ByNetIs ==
    ASSUME NEW b, InMemory(b), NEW net
    PROVE  TracksOfNet(b, net) = {t \in ToSet(b.tracks) : t.net = net}
BY DEF InMemory, TracksOfNet

LEMMA OnceJoin ==
    ASSUME NEW X, NEW s \in Seq(X), NEW t \in Seq(X)
    PROVE  Once(s \o t) <=>
             Once(s) /\ Once(t) /\ TrackSays(SaysIn(s)) \cap TrackSays(SaysIn(t)) = {}
<1> DEFINE r == s \o t
<1>1. /\ DOMAIN r = 1 .. Len(s) + Len(t) /\ Len(s) \in Nat /\ Len(t) \in Nat
      /\ DOMAIN s = 1 .. Len(s) /\ DOMAIN t = 1 .. Len(t)
      /\ \A i \in 1 .. Len(s) : r[i] = s[i]
      /\ \A i \in 1 .. Len(t) : r[Len(s) + i] = t[i]
      /\ \A i \in DOMAIN r : i > Len(s) => i - Len(s) \in DOMAIN t /\ r[i] = t[i - Len(s)]
  OBVIOUS
<1> HIDE DEF r
<1>2. ASSUME Once(r) PROVE Once(s)
  BY <1>1, <1>2 DEF Once
<1>3. ASSUME Once(r) PROVE Once(t)
  <2> SUFFICES ASSUME NEW i \in DOMAIN t, NEW j \in DOMAIN t, SaysTrack(t[i].says), t[i].says = t[j].says
               PROVE  i = j
    BY DEF Once
  <2>1. Len(s) + i \in DOMAIN r /\ Len(s) + j \in DOMAIN r /\ r[Len(s) + i] = t[i] /\ r[Len(s) + j] = t[j]
    BY <1>1
  <2>2. Len(s) + i = Len(s) + j
    BY <1>3, <2>1 DEF Once
  <2> QED
    BY <1>1, <2>2
<1>4. ASSUME Once(r), NEW w \in TrackSays(SaysIn(s)), w \in TrackSays(SaysIn(t)) PROVE FALSE
  <2>1. PICK i \in DOMAIN s, j \in DOMAIN t : s[i].says = w /\ t[j].says = w /\ SaysTrack(w)
    BY <1>4 DEF TrackSays, SaysIn, ToSet
  <2>2. i \in DOMAIN r /\ r[i] = s[i] /\ Len(s) + j \in DOMAIN r /\ r[Len(s) + j] = t[j]
    BY <1>1
  <2>3. i = Len(s) + j
    BY <1>4, <2>1, <2>2 DEF Once
  <2> QED
    BY <1>1, <2>3
<1>5. ASSUME Once(s), Once(t), TrackSays(SaysIn(s)) \cap TrackSays(SaysIn(t)) = {} PROVE Once(r)
  <2>1. \A i \in DOMAIN s : SaysTrack(s[i].says) => s[i].says \in TrackSays(SaysIn(s))
    BY DEF TrackSays, SaysIn, ToSet
  <2>2. \A i \in DOMAIN t : SaysTrack(t[i].says) => t[i].says \in TrackSays(SaysIn(t))
    BY DEF TrackSays, SaysIn, ToSet
  <2> SUFFICES ASSUME NEW i \in DOMAIN r, NEW j \in DOMAIN r, SaysTrack(r[i].says), r[i].says = r[j].says
               PROVE  i = j
    BY DEF Once
  <2>3. CASE i <= Len(s) /\ j <= Len(s)
    BY <1>1, <1>5, <2>3 DEF Once
  <2>4. CASE i > Len(s) /\ j > Len(s)
    <3>1. i - Len(s) \in DOMAIN t /\ j - Len(s) \in DOMAIN t /\ r[i] = t[i - Len(s)] /\ r[j] = t[j - Len(s)]
      BY <1>1, <2>4
    <3>2. i - Len(s) = j - Len(s)
      BY <1>5, <3>1 DEF Once
    <3> QED
      BY <1>1, <3>2
  <2>5. CASE i <= Len(s) /\ j > Len(s)
    <3>1. i \in DOMAIN s /\ j - Len(s) \in DOMAIN t /\ r[i] = s[i] /\ r[j] = t[j - Len(s)]
      BY <1>1, <2>5
    <3> QED
      BY <1>5, <2>1, <2>2, <3>1
  <2>6. CASE i > Len(s) /\ j <= Len(s)
    <3>1. j \in DOMAIN s /\ i - Len(s) \in DOMAIN t /\ r[j] = s[j] /\ r[i] = t[i - Len(s)]
      BY <1>1, <2>6
    <3> QED
      BY <1>5, <2>1, <2>2, <3>1
  <2> QED
    BY <1>1, <2>3, <2>4, <2>5, <2>6
<1> QED
  BY <1>2, <1>3, <1>4, <1>5 DEF r

LEMMA SaysJoin ==
    ASSUME NEW X, NEW s \in Seq(X), NEW t \in Seq(X)
    PROVE  SaysIn(s \o t) = SaysIn(s) \cup SaysIn(t)
BY OfJoin DEF SaysIn

LEMMA BuiltIs ==
    ASSUME NEW run \in Seq(Tracks), IsInjective(run)
    PROVE  /\ BuiltAll(run) \in Seq(Node)
           /\ SaysIn(BuiltAll(run)) = SaysOf(ToSet(run))
           /\ Once(BuiltAll(run))
<1>1. Len(run) \in Nat /\ DOMAIN run = 1 .. Len(run) /\ \A i \in DOMAIN run : run[i] \in Tracks /\ run[i] \in AllTracks
  BY DEF AllTracks
<1>2. DOMAIN BuiltAll(run) = DOMAIN run /\ \A i \in DOMAIN run : BuiltAll(run)[i] = Built(NodeSays(run[i]))
  BY DEF BuiltAll
<1>3. \A i \in DOMAIN run : BuiltAll(run)[i] \in Node /\ BuiltAll(run)[i].says = NodeSays(run[i])
  <2>1. ASSUME NEW w \in Says PROVE Built(w) \in Node /\ Built(w).says = w
    BY DEF Built, Node, Forms
  <2>2. \A i \in DOMAIN run : NodeSays(run[i]) \in Says
    BY <1>1 DEF Says
  <2> QED
    BY <1>2, <2>1, <2>2
<1>4. BuiltAll(run) \in [1 .. Len(run) -> Node]
  BY <1>1, <1>3 DEF BuiltAll
<1>5. SaysIn(BuiltAll(run)) = SaysOf(ToSet(run))
  <2>1. SaysIn(BuiltAll(run)) = {BuiltAll(run)[i].says : i \in DOMAIN run}
    BY <1>2 DEF SaysIn, ToSet
  <2> QED
    BY <1>3, <2>1 DEF SaysOf, ToSet
<1>6. Once(BuiltAll(run))
  BY <1>1, <1>2, <1>3, SaysApart DEF Once, IsInjective
<1> QED
  BY <1>1, <1>4, <1>5, <1>6, FunctionIsList

\* AddTrack, RemoveTracks and ReplaceTrack leave tree, list and nets agreed.
LEMMA AddedTo ==
    ASSUME NEW b, InMemory(b), NEW run \in Seq(Tracks), IsInjective(run),
           ToSet(run) \cap ToSet(b.tracks) = {}
    PROVE  /\ InMemory(AddTracks(b, run))
           /\ ToSet(AddTracks(b, run).tracks) = ToSet(b.tracks) \cup ToSet(run)
           /\ SaysIn(AddTracks(b, run).root.items) = SaysIn(b.root.items) \cup SaysOf(ToSet(run))
<1> DEFINE c == AddTracks(b, run)
<1>1. /\ c.root.items = b.root.items \o BuiltAll(run)
      /\ c.tracks = b.tracks \o run
      /\ c.byNet = [n \in DOMAIN b.byNet \cup {t.net : t \in ToSet(run)} |->
                      TracksOfNet(b, n) \cup {t \in ToSet(run) : t.net = n}]
  BY DEF AddTracks, AppendNodes, Changed
<1> HIDE DEF c
<1>2. b.tracks \in Seq(AllTracks) /\ run \in Seq(AllTracks)
  BY DEF InMemory, AllTracks
<1>3. c.tracks \in Seq(AllTracks) /\ ToSet(c.tracks) = ToSet(b.tracks) \cup ToSet(run)
  BY <1>1, <1>2, OfJoin
<1>4. /\ BuiltAll(run) \in Seq(Node) /\ SaysIn(BuiltAll(run)) = SaysOf(ToSet(run)) /\ Once(BuiltAll(run))
      /\ b.root.items \in Seq(Node) /\ Once(b.root.items)
  BY BuiltIs DEF InMemory
<1>5. c.root.items \in Seq(Node) /\ SaysIn(c.root.items) = SaysIn(b.root.items) \cup SaysOf(ToSet(run))
  BY <1>1, <1>4, OfJoin, SaysJoin
<1>6. TrackSays(SaysIn(b.root.items)) \cap TrackSays(SaysOf(ToSet(run))) = {}
  <2>1. TrackSays(SaysIn(b.root.items)) = SaysOf(ToSet(b.tracks))
    BY DEF InMemory
  <2>2. ToSet(b.tracks) \subseteq AllTracks /\ ToSet(run) \subseteq AllTracks
    BY <1>2, InList
  <2> QED
    BY <2>1, <2>2, SaysApart DEF SaysOf, TrackSays
<1>7. Once(c.root.items)
  BY <1>1, <1>4, <1>6, OnceJoin
<1>8. TrackSays(SaysIn(c.root.items)) = SaysOf(ToSet(c.tracks))
  BY <1>3, <1>5, SaysTracks DEF InMemory, TrackSays, SaysOf
<1>9. /\ c.byNet = [net \in DOMAIN c.byNet |-> {t \in ToSet(c.tracks) : t.net = net}]
      /\ {t.net : t \in ToSet(c.tracks)} \subseteq DOMAIN c.byNet
  <2>1. \A net : TracksOfNet(b, net) = {t \in ToSet(b.tracks) : t.net = net}
    BY ByNetIs
  <2> DEFINE D == DOMAIN b.byNet \cup {t.net : t \in ToSet(run)}
  <2>2. c.byNet = [net \in D |-> {t \in ToSet(c.tracks) : t.net = net}]
    <3>1. \A net : TracksOfNet(b, net) \cup {t \in ToSet(run) : t.net = net} = {t \in ToSet(c.tracks) : t.net = net}
      BY <1>3, <2>1
    <3> QED
      BY <1>1, <3>1
  <2>3. {t.net : t \in ToSet(c.tracks)} \subseteq D
    BY <1>3 DEF InMemory
  <2> QED
    BY <2>2, <2>3
<1> QED
  BY <1>3, <1>5, <1>7, <1>8, <1>9 DEF InMemory, c

\* What is before, at and after a place of a list.
Around(s, i, p, x, q) == s = (p \o <<x>>) \o q

LEMMA Split ==
    ASSUME NEW X, NEW s \in Seq(X), NEW i \in 1 .. Len(s)
    PROVE  /\ SubSeq(s, 1, i - 1) \in Seq(X) /\ SubSeq(s, i + 1, Len(s)) \in Seq(X) /\ s[i] \in X
           /\ Around(s, i, SubSeq(s, 1, i - 1), s[i], SubSeq(s, i + 1, Len(s)))
<1> DEFINE n == Len(s)
           p == SubSeq(s, 1, i - 1)
           q == SubSeq(s, i + 1, n)
           x == s[i]
<1>1. n \in Nat /\ i \in 1 .. n /\ DOMAIN s = 1 .. n /\ \A j \in 1 .. n : s[j] \in X
  OBVIOUS
<1>2. /\ p \in Seq(X) /\ Len(p) = i - 1 /\ \A j \in 1 .. i - 1 : p[j] = s[j]
  BY <1>1
<1>3. /\ q \in Seq(X) /\ Len(q) = n - i /\ \A j \in 1 .. n - i : q[j] = s[j + i]
  <2>1. q \in Seq(X) /\ Len(q) = n - i
    <3>1. \A j \in i + 1 .. n : s[j] \in X
      BY <1>1
    <3>2. q \in Seq(X) /\ Len(q) = IF i + 1 <= n THEN n - (i + 1) + 1 ELSE 0
      BY <1>1, <3>1, SubSeqProperties
    <3> HIDE DEF q, n
    <3> QED
      BY <1>1, <3>2
  <2>2. ASSUME NEW j \in 1 .. n - i PROVE q[j] = s[j + i]
    <3>1. q[j] = s[(i + 1) + j - 1] /\ (i + 1) + j - 1 = j + i
      BY <1>1
    <3> QED
      BY <3>1
  <2> QED
    BY <2>1, <2>2
<1> HIDE DEF n, p, q
<1> DEFINE l == p \o <<x>>
           r == l \o q
<1>4. l \in Seq(X) /\ Len(l) = i /\ \A j \in 1 .. i : l[j] = s[j]
  BY <1>1, <1>2
<1> HIDE DEF l
<1>5. /\ r \in Seq(X) /\ Len(r) = n /\ \A j \in 1 .. n : r[j] = IF j <= i THEN l[j] ELSE q[j - i]
  BY <1>1, <1>3, <1>4
<1>6. \A j \in 1 .. n : r[j] = s[j]
  <2> SUFFICES ASSUME NEW j \in 1 .. n PROVE r[j] = s[j]
    OBVIOUS
  <2> HIDE DEF r
  <2>1. CASE j <= i
    BY <1>1, <1>4, <1>5, <2>1
  <2>2. CASE ~(j <= i)
    <3>1. j - i \in 1 .. n - i /\ (j - i) + i = j
      BY <1>1, <2>2
    <3>2. q[j - i] = s[j]
      <4>1. q[j - i] = s[(j - i) + i]
        BY <1>3, <3>1
      <4> QED
        BY <3>1, <4>1
    <3> QED
      BY <1>5, <2>2, <3>2
  <2> QED
    BY <2>1, <2>2
<1> HIDE DEF r
<1>7. r = s
  BY <1>1, <1>5, <1>6 DEF n
<1> QED
  BY <1>1, <1>2, <1>3, <1>7 DEF Around, r, l, n, p, q, x

LEMMA OnceOnly ==
    ASSUME NEW X, NEW items \in Seq(X), NEW S, Once(items)
    PROVE  Once(Only(items, S))
<1> DEFINE r == Only(items, S)
<1>1. r \in Seq(X)
  BY OnlyType
<1>2. PICK e \in [1 .. Len(r) -> 1 .. Len(items)] :
        /\ \A i \in 1 .. Len(r) : r[i] = items[e[i]]
        /\ \A i, j \in 1 .. Len(r) : e[i] = e[j] => i = j
  BY OnlyFrom
<1> HIDE DEF r
<1>3. DOMAIN r = 1 .. Len(r) /\ DOMAIN items = 1 .. Len(items)
  BY <1>1
<1> QED
  BY <1>2, <1>3 DEF Once, r

LEMMA RemovedFrom ==
    ASSUME NEW b, InMemory(b), NEW drop \in SUBSET AllTracks
    PROVE  LET c == RemoveTracks(b, drop) IN
           /\ InMemory(c)
           /\ ToSet(c.tracks) = ToSet(b.tracks) \ drop
           /\ SaysIn(c.root.items) = SaysIn(b.root.items) \ SaysOf(drop)
           /\ c.root.items = Only(b.root.items, {n \in ToSet(b.root.items) : n.says \notin SaysOf(drop)})
<1> DEFINE items == b.root.items
           c == RemoveTracks(b, drop)
           S == {n \in ToSet(items) : n.says \notin SaysOf(drop)}
           root == RemoveNodes(b.root, SaysOf(drop))
<1>1. /\ b.tracks \in Seq(AllTracks) /\ items \in Seq(Node) /\ Once(items)
      /\ TrackSays(SaysIn(items)) = SaysOf(ToSet(b.tracks)) /\ ToSet(b.tracks) \subseteq AllTracks
  BY InList DEF InMemory
<1>2. root.items = Only(items, S)
  BY DEF RemoveNodes, Changed
<1>3. c = IF root = b.root THEN b
          ELSE [root |-> root, tracks |-> Only(b.tracks, ToSet(b.tracks) \ drop),
                byNet |-> [n \in DOMAIN b.byNet |-> b.byNet[n] \ drop]]
  BY DEF RemoveTracks, SaysOf
<1> HIDE DEF items, c, root
<1>4. c.root.items = Only(items, S)
  BY <1>2, <1>3
<1>5. c.root.items \in Seq(Node) /\ ToSet(c.root.items) = S /\ Once(c.root.items)
  <2>1. ToSet(c.root.items) = ToSet(items) \cap S
    BY <1>1, <1>4, OnlyMembers
  <2> QED
    BY <1>1, <1>4, <2>1, OnlyType, OnceOnly
<1>6. SaysIn(c.root.items) = SaysIn(items) \ SaysOf(drop)
  BY <1>5 DEF SaysIn
<1>7. c.tracks \in Seq(AllTracks) /\ ToSet(c.tracks) = ToSet(b.tracks) \ drop
  <2>1. CASE root = b.root
    <3>1. c = b
      BY <1>3, <2>1
    <3>2. SaysIn(items) \cap SaysOf(drop) = {}
      BY <1>6, <3>1 DEF items
    <3>3. \A t \in ToSet(b.tracks) : NodeSays(t) \in SaysIn(items)
      BY <1>1 DEF SaysOf, TrackSays
    <3>4. ToSet(b.tracks) \cap drop = {}
      BY <3>2, <3>3 DEF SaysOf
    <3> QED
      BY <1>1, <3>1, <3>4
  <2>2. CASE root # b.root
    <3>1. c.tracks = Only(b.tracks, ToSet(b.tracks) \ drop)
      BY <1>3, <2>2
    <3>2. ToSet(c.tracks) = ToSet(b.tracks) \cap (ToSet(b.tracks) \ drop)
      BY <1>1, <3>1, OnlyMembers
    <3> QED
      BY <1>1, <3>1, <3>2, OnlyType
  <2> QED
    BY <2>1, <2>2
<1>8. TrackSays(SaysIn(c.root.items)) = SaysOf(ToSet(c.tracks))
  <2>1. TrackSays(SaysIn(c.root.items)) = SaysOf(ToSet(b.tracks)) \ SaysOf(drop)
    BY <1>1, <1>6 DEF TrackSays
  <2>2. SaysOf(ToSet(b.tracks)) \ SaysOf(drop) = SaysOf(ToSet(b.tracks) \ drop)
    BY <1>1, SaysApart DEF SaysOf
  <2> QED
    BY <1>7, <2>1, <2>2
<1>9. /\ c.byNet = [net \in DOMAIN c.byNet |-> {t \in ToSet(c.tracks) : t.net = net}]
      /\ {t.net : t \in ToSet(c.tracks)} \subseteq DOMAIN c.byNet
  <2>1. CASE root = b.root
    BY <1>3, <2>1 DEF InMemory
  <2>2. CASE root # b.root
    <3>1. c.byNet = [n \in DOMAIN b.byNet |-> b.byNet[n] \ drop]
      BY <1>3, <2>2
    <3>2. \A n \in DOMAIN b.byNet : b.byNet[n] \ drop = {t \in ToSet(c.tracks) : t.net = n}
      BY <1>7 DEF InMemory
    <3>3. c.byNet = [n \in DOMAIN b.byNet |-> {t \in ToSet(c.tracks) : t.net = n}]
      BY <3>1, <3>2
    <3>4. {t.net : t \in ToSet(c.tracks)} \subseteq DOMAIN b.byNet
      BY <1>7 DEF InMemory
    <3> QED
      BY <3>3, <3>4
  <2> QED
    BY <2>1, <2>2
<1> QED
  BY <1>4, <1>5, <1>6, <1>7, <1>8, <1>9 DEF InMemory, items, c

LEMMA InPlaceIs ==
    ASSUME NEW X, NEW list \in Seq(X), NEW old, NEW with \in Seq(X)
    PROVE  /\ InPlace(list, old, with) \in Seq(X)
           /\ ToSet(InPlace(list, old, with)) =
                (ToSet(list) \ {old}) \cup (IF old \in ToSet(list) THEN ToSet(with) ELSE {})
<1> DEFINE q == [i \in DOMAIN list |-> IF list[i] = old THEN with ELSE <<list[i]>>]
           set(x) == IF x = old THEN ToSet(with) ELSE {x}
<1>1. Len(list) \in Nat /\ DOMAIN list = 1 .. Len(list) /\ \A i \in DOMAIN list : list[i] \in X
  OBVIOUS
<1>2. ASSUME NEW x \in X PROVE <<x>> \in Seq(X) /\ ToSet(<<x>>) = {x}
  BY DEF ToSet
<1>3. q \in [1 .. Len(list) -> Seq(X)] /\ DOMAIN q = DOMAIN list
  BY <1>1
<1>4. \A i \in DOMAIN list : q[i] = IF list[i] = old THEN with ELSE <<list[i]>>
  OBVIOUS
<1>5. q \in Seq(Seq(X))
  BY <1>1, <1>3
<1> HIDE DEF q
<1>6. FlattenSeq(q) \in Seq(X) /\ ToSet(FlattenSeq(q)) = UNION {ToSet(q[i]) : i \in DOMAIN q}
  BY <1>5, Flattened
<1>7. \A i \in DOMAIN list : ToSet(q[i]) = set(list[i])
  BY <1>1, <1>2, <1>4
<1> DEFINE new == (ToSet(list) \ {old}) \cup (IF old \in ToSet(list) THEN ToSet(with) ELSE {})
<1>8. UNION {ToSet(q[i]) : i \in DOMAIN q} = new
  <2>1. ASSUME NEW i \in DOMAIN q, NEW y \in ToSet(q[i]) PROVE y \in new
    <3>1. list[i] \in ToSet(list) /\ y \in set(list[i])
      BY <1>3, <1>7 DEF ToSet
    <3> QED
      BY <3>1
  <2>2. ASSUME NEW y \in new PROVE \E i \in DOMAIN q : y \in ToSet(q[i])
    <3>1. \A x \in ToSet(list) : \E i \in DOMAIN q : list[i] = x /\ ToSet(q[i]) = set(x)
      BY <1>3, <1>7 DEF ToSet
    <3>2. CASE y \in ToSet(list) /\ y # old
      BY <3>1, <3>2
    <3>3. CASE old \in ToSet(list) /\ y \in ToSet(with)
      BY <3>1, <3>3
    <3> QED
      BY <3>2, <3>3
  <2> HIDE DEF new
  <2> QED
    BY <2>1, <2>2
<1> QED
  BY <1>6, <1>8 DEF InPlace, q

----------------------------------------------------------------------------
(* A run of tracks in the place of a track. *)

LEMMA LeastOf == ASSUME NEW S \in SUBSET Nat, S # {} PROVE Min(S) \in S
<1>1. PICK x \in S : \A y \in S : <<y, x>> \notin OpToRel(<, Nat)
  BY NatLessThanWellFounded, WFMin
<1>2. ASSUME NEW y \in S PROVE x <= y
  <2>1. x \in Nat /\ y \in Nat
    BY <1>1
  <2>2. ASSUME y < x PROVE <<y, x>> \in OpToRel(<, Nat)
    BY <2>1, <2>2 DEF OpToRel
  <2>3. ~(y < x)
    BY <1>1, <2>2
  <2> QED
    BY <2>1, <2>3
<1> QED
  BY <1>1, <1>2 DEF Min

LEMMA NodeAt ==
    ASSUME NEW root, IsList(root.items), NEW says, IndexOfNode(root, says) # 0
    PROVE  LET i == IndexOfNode(root, says) IN i \in 1 .. Len(root.items) /\ root.items[i].says = says
<1> DEFINE I == {i \in 1 .. Len(root.items) : root.items[i].says = says}
<1>1. IndexOfNode(root, says) = IF I # {} THEN Min(I) ELSE 0
  BY DEF IndexOfNode, SelectInSeq
<1>2. I # {} /\ I \in SUBSET Nat
  BY <1>1
<1>3. Min(I) \in I
  BY <1>2, LeastOf
<1> QED
  BY <1>1, <1>2, <1>3

PutInPlace(b, c, says, with) ==
    \E p \in Seq(Node), q \in Seq(Node), x \in Node :
        /\ b.root.items = (p \o <<x>>) \o q
        /\ c.root.items = (p \o BuiltAll(with)) \o q
        /\ x.says = says /\ says \notin SaysIn(p) \cup SaysIn(q)

LEMMA SaysAlone == ASSUME NEW x PROVE SaysIn(<<x>>) = {x.says}
BY DEF SaysIn, ToSet

LEMMA PutsInPlace ==
    ASSUME NEW b, InMemory(b), NEW old \in AllTracks, NEW with,
           IndexOfNode(b.root, NodeSays(old)) # 0
    PROVE  PutInPlace(b, ReplaceTrack(b, old, with), NodeSays(old), with)
<1> DEFINE items == b.root.items
           i == IndexOfNode(b.root, NodeSays(old))
           c == ReplaceTrack(b, old, with)
<1>1. items \in Seq(Node) /\ IsList(items) /\ Once(items)
  BY InList DEF InMemory
<1>2. i \in 1 .. Len(items) /\ items[i].says = NodeSays(old)
  BY <1>1, NodeAt
<1> DEFINE p == SubSeq(items, 1, i - 1)
           q == SubSeq(items, i + 1, Len(items))
           x == items[i]
<1>3. c.root.items = (p \o BuiltAll(with)) \o q
  BY <1>2 DEF ReplaceTrack, ReplaceNode, Changed
<1> HIDE DEF items, i, c
<1>4. p \in Seq(Node) /\ q \in Seq(Node) /\ x \in Node /\ items = (p \o <<x>>) \o q
  BY <1>1, <1>2, Split DEF Around
<1> DEFINE one == <<x>>
           l == p \o one
<1> HIDE DEF p, q, x
<1>5. x.says = NodeSays(old) /\ SaysTrack(x.says)
  BY <1>2, SaysTracks DEF x
<1>6. NodeSays(old) \notin SaysIn(p) \cup SaysIn(q)
  <2>0. SaysIn(one) = {x.says} /\ one \in Seq(Node)
    BY <1>4, SaysAlone
  <2> HIDE DEF one
  <2>1. l \in Seq(Node) /\ items = l \o q
    BY <1>4, <2>0 DEF one
  <2>4. SaysIn(l) = SaysIn(p) \cup {x.says}
    BY <1>4, <2>0, SaysJoin
  <2>5. Once(l) => TrackSays(SaysIn(p)) \cap TrackSays(SaysIn(one)) = {}
    BY <1>4, <2>0, OnceJoin
  <2> HIDE DEF l
  <2>2. Once(l) /\ TrackSays(SaysIn(l)) \cap TrackSays(SaysIn(q)) = {}
    BY <1>1, <1>4, <2>1, OnceJoin
  <2> QED
    BY <1>5, <2>0, <2>2, <2>4, <2>5 DEF TrackSays
<1> QED
  BY <1>3, <1>4, <1>5, <1>6 DEF PutInPlace, items, c

LEMMA ReplacedIn ==
    ASSUME NEW b, InMemory(b), NEW old \in AllTracks, NEW with \in Seq(Tracks), IsInjective(with),
           ToSet(with) \cap ToSet(b.tracks) = {}, \A t \in ToSet(with) : t.net = old.net,
           IndexOfNode(b.root, NodeSays(old)) # 0
    PROVE  LET c == ReplaceTrack(b, old, with) IN
           /\ InMemory(c)
           /\ old \in ToSet(b.tracks)
           /\ ToSet(c.tracks) = (ToSet(b.tracks) \ {old}) \cup ToSet(with)
           /\ SaysIn(c.root.items) = (SaysIn(b.root.items) \ {NodeSays(old)}) \cup SaysOf(ToSet(with))
<1> DEFINE c == ReplaceTrack(b, old, with)
           w == BuiltAll(with)
<1>0. /\ c.tracks = InPlace(b.tracks, old, with)
      /\ c.byNet = [b.byNet EXCEPT ![old.net] = IF old \in @ THEN (@ \ {old}) \cup ToSet(with) ELSE @]
  BY DEF ReplaceTrack
<1>1. PutInPlace(b, c, NodeSays(old), with)
  BY PutsInPlace
<1> HIDE DEF c
<1>2. PICK p \in Seq(Node), q \in Seq(Node), x \in Node :
        /\ b.root.items = (p \o <<x>>) \o q
        /\ c.root.items = (p \o w) \o q
        /\ x.says = NodeSays(old) /\ NodeSays(old) \notin SaysIn(p) \cup SaysIn(q)
  BY <1>1 DEF PutInPlace
<1>3. w \in Seq(Node) /\ SaysIn(w) = SaysOf(ToSet(with)) /\ Once(w)
  BY BuiltIs
<1> DEFINE one == <<x>>
           l == p \o one
           m == p \o w
<1> HIDE DEF w
<1>4. one \in Seq(Node) /\ SaysIn(one) = {NodeSays(old)}
  BY <1>2, SaysAlone
<1> HIDE DEF one
<1>5. /\ l \in Seq(Node) /\ SaysIn(l) = SaysIn(p) \cup {NodeSays(old)}
      /\ Once(l) => Once(p)
  BY <1>2, <1>4, SaysJoin, OnceJoin
<1>6. /\ m \in Seq(Node) /\ SaysIn(m) = SaysIn(p) \cup SaysOf(ToSet(with))
      /\ Once(p) /\ TrackSays(SaysIn(p)) \cap TrackSays(SaysIn(w)) = {} => Once(m)
  BY <1>2, <1>3, SaysJoin, OnceJoin
<1>15. b.root.items = l \o q /\ c.root.items = m \o q
  BY <1>2 DEF one
<1> HIDE DEF l, m
<1>16. /\ SaysIn(b.root.items) = (SaysIn(p) \cup {NodeSays(old)}) \cup SaysIn(q)
       /\ Once(b.root.items) => Once(l) /\ Once(q) /\ TrackSays(SaysIn(l)) \cap TrackSays(SaysIn(q)) = {}
  <2>1. SaysIn(l \o q) = SaysIn(l) \cup SaysIn(q)
    BY <1>2, <1>5, SaysJoin
  <2>2. Once(l \o q) <=> Once(l) /\ Once(q) /\ TrackSays(SaysIn(l)) \cap TrackSays(SaysIn(q)) = {}
    BY <1>2, <1>5, OnceJoin
  <2> QED
    BY <1>5, <1>15, <2>1, <2>2
<1>17. /\ SaysIn(c.root.items) = (SaysIn(p) \cup SaysOf(ToSet(with))) \cup SaysIn(q)
       /\ Once(m) /\ Once(q) /\ TrackSays(SaysIn(m)) \cap TrackSays(SaysIn(q)) = {} => Once(c.root.items)
  <2>1. SaysIn(m \o q) = SaysIn(m) \cup SaysIn(q)
    BY <1>2, <1>6, SaysJoin
  <2>2. Once(m \o q) <=> Once(m) /\ Once(q) /\ TrackSays(SaysIn(m)) \cap TrackSays(SaysIn(q)) = {}
    BY <1>2, <1>6, OnceJoin
  <2> QED
    BY <1>6, <1>15, <2>1, <2>2
<1>7. /\ b.tracks \in Seq(AllTracks) /\ with \in Seq(AllTracks)
      /\ ToSet(b.tracks) \subseteq AllTracks /\ ToSet(with) \subseteq AllTracks
      /\ TrackSays(SaysIn(b.root.items)) = SaysOf(ToSet(b.tracks))
  <2>1. b.tracks \in Seq(AllTracks) /\ with \in Seq(AllTracks)
    BY DEF InMemory, AllTracks
  <2> QED
    BY <2>1, InList DEF InMemory
<1>8. old \in ToSet(b.tracks)
  <2>1. NodeSays(old) \in SaysOf(ToSet(b.tracks))
    BY <1>7, <1>16, SaysTracks DEF TrackSays
  <2> QED
    BY <1>7, <2>1, SaysApart DEF SaysOf
<1>9. c.tracks \in Seq(AllTracks) /\ ToSet(c.tracks) = (ToSet(b.tracks) \ {old}) \cup ToSet(with)
  BY <1>0, <1>7, <1>8, InPlaceIs
<1>10. SaysIn(c.root.items) = (SaysIn(b.root.items) \ {NodeSays(old)}) \cup SaysOf(ToSet(with))
  BY <1>2, <1>16, <1>17
<1>11. TrackSays(SaysIn(c.root.items)) = SaysOf(ToSet(c.tracks))
  <2>1. TrackSays(SaysIn(c.root.items)) = (SaysOf(ToSet(b.tracks)) \ {NodeSays(old)}) \cup SaysOf(ToSet(with))
    BY <1>7, <1>10, SaysTracks DEF TrackSays, SaysOf
  <2>2. SaysOf(ToSet(b.tracks)) \ {NodeSays(old)} = SaysOf(ToSet(b.tracks) \ {old})
    BY <1>7, SaysApart DEF SaysOf
  <2> QED
    BY <1>9, <2>1, <2>2 DEF SaysOf
<1>12. Once(c.root.items)
  <2>1. Once(b.root.items)
    BY DEF InMemory
  <2>2. Once(p) /\ Once(q) /\ TrackSays(SaysIn(l)) \cap TrackSays(SaysIn(q)) = {}
    BY <1>5, <1>16, <2>1
  <2>3. SaysOf(ToSet(with)) \cap TrackSays(SaysIn(b.root.items)) = {}
    BY <1>7, SaysApart DEF SaysOf
  <2>4. TrackSays(SaysIn(p)) \cap TrackSays(SaysIn(w)) = {}
    BY <1>3, <1>16, <2>3 DEF TrackSays
  <2>5. TrackSays(SaysIn(m)) \cap TrackSays(SaysIn(q)) = {}
    BY <1>5, <1>6, <1>16, <2>2, <2>3 DEF TrackSays
  <2> QED
    BY <1>6, <1>17, <2>2, <2>4, <2>5
<1>13. /\ c.byNet = [net \in DOMAIN c.byNet |-> {t \in ToSet(c.tracks) : t.net = net}]
       /\ {t.net : t \in ToSet(c.tracks)} \subseteq DOMAIN c.byNet
  <2> DEFINE D == DOMAIN b.byNet
  <2>1. b.byNet = [net \in D |-> {t \in ToSet(b.tracks) : t.net = net}] /\ {t.net : t \in ToSet(b.tracks)} \subseteq D
    BY DEF InMemory
  <2>2. old.net \in D /\ old \in b.byNet[old.net]
    BY <1>8, <2>1
  <2> HIDE DEF D
  <2>3. c.byNet = [net \in D |-> IF net = old.net THEN (b.byNet[net] \ {old}) \cup ToSet(with) ELSE b.byNet[net]]
    BY <1>0, <2>1, <2>2
  <2>4. \A net \in D : (IF net = old.net THEN (b.byNet[net] \ {old}) \cup ToSet(with) ELSE b.byNet[net])
                         = {t \in ToSet(c.tracks) : t.net = net}
    BY <1>9, <2>1
  <2>5. c.byNet = [net \in D |-> {t \in ToSet(c.tracks) : t.net = net}]
    BY <2>3, <2>4
  <2>6. {t.net : t \in ToSet(c.tracks)} \subseteq D
    BY <1>9, <2>1, <2>2
  <2> QED
    BY <2>5, <2>6
<1>14. c.root.items \in Seq(Node)
  BY <1>2, <1>6, <1>15
<1> QED
  BY <1>8, <1>9, <1>10, <1>11, <1>12, <1>13, <1>14 DEF InMemory, c

----------------------------------------------------------------------------
(* What is the file's stays as it was: the lines of a board, and of them the ones of the file. *)

Line == [says : Says, form : Forms]

LineOf(n) == [says |-> n.says, form |-> FormOf(n)]

Text(items) == [i \in DOMAIN items |-> LineOf(items[i])]

NodesOn(W) == {n \in Node : n.says \in W}
LinesOn(W) == {x \in Line : x.says \in W}

LEMMA LineType == \A n \in Node : LineOf(n) \in Line /\ LineOf(n).says = n.says
<1> SUFFICES ASSUME NEW n \in Node PROVE LineOf(n) \in Line /\ LineOf(n).says = n.says
  OBVIOUS
<1>1. n.says \in Says /\ n.form \in Forms /\ AsKiCad \in Forms
  BY DEF Node, Forms
<1>2. FormOf(n) \in Forms
  BY <1>1 DEF FormOf
<1> QED
  BY <1>1, <1>2 DEF LineOf, Line

LEMMA TextIs ==
    ASSUME NEW s \in Seq(Node)
    PROVE  Text(s) \in Seq(Line) /\ Len(Text(s)) = Len(s) /\ SaysIn(Text(s)) = SaysIn(s)
<1>1. Len(s) \in Nat /\ DOMAIN s = 1 .. Len(s) /\ \A i \in DOMAIN s : s[i] \in Node
  OBVIOUS
<1>2. DOMAIN Text(s) = DOMAIN s /\ \A i \in DOMAIN s : Text(s)[i] = LineOf(s[i])
  BY DEF Text
<1>3. \A i \in DOMAIN s : Text(s)[i] \in Line /\ Text(s)[i].says = s[i].says
  BY <1>1, <1>2, LineType
<1>4. Text(s) \in [1 .. Len(s) -> Line]
  BY <1>1, <1>3 DEF Text
<1>5. SaysIn(Text(s)) = SaysIn(s)
  <2>1. SaysIn(Text(s)) = {Text(s)[i].says : i \in DOMAIN s}
    BY <1>2 DEF SaysIn, ToSet
  <2>2. SaysIn(s) = {s[i].says : i \in DOMAIN s}
    BY DEF SaysIn, ToSet
  <2> QED
    BY <1>3, <2>1, <2>2
<1> QED
  BY <1>1, <1>4, <1>5, FunctionIsList

TextsJoined(s, t) == Text(s \o t) = Text(s) \o Text(t)

LEMMA TextJoin == ASSUME NEW s \in Seq(Node), NEW t \in Seq(Node) PROVE TextsJoined(s, t)
<1> DEFINE n == Len(s)
           m == Len(t)
           r == s \o t
           u == Text(s) \o Text(t)
<1>1. /\ n \in Nat /\ m \in Nat /\ r \in Seq(Node) /\ DOMAIN r = 1 .. n + m
      /\ \A i \in 1 .. n + m : r[i] = IF i <= n THEN s[i] ELSE t[i - n]
  OBVIOUS
<1>2. /\ Text(s) \in Seq(Line) /\ Len(Text(s)) = n /\ \A i \in 1 .. n : Text(s)[i] = LineOf(s[i])
      /\ Text(t) \in Seq(Line) /\ Len(Text(t)) = m /\ \A i \in 1 .. m : Text(t)[i] = LineOf(t[i])
  <2>1. DOMAIN s = 1 .. n /\ DOMAIN t = 1 .. m
    OBVIOUS
  <2> QED
    BY <2>1, TextIs DEF Text
<1> HIDE DEF n, m
<1>3. /\ u \in Seq(Line) /\ Len(u) = n + m
      /\ \A i \in 1 .. n + m : u[i] = IF i <= n THEN Text(s)[i] ELSE Text(t)[i - n]
  BY <1>1, <1>2
<1>4. Text(r) \in Seq(Line) /\ Len(Text(r)) = n + m /\ \A i \in 1 .. n + m : Text(r)[i] = LineOf(r[i])
  <2> HIDE DEF r
  <2>1. Len(r) = n + m
    BY <1>1
  <2> QED
    BY <1>1, <2>1, TextIs DEF Text
<1> HIDE DEF r, u
<1>5. ASSUME NEW i \in 1 .. n + m PROVE Text(r)[i] = u[i]
  <2>1. CASE i <= n
    <3>1. i \in 1 .. n /\ r[i] = s[i] /\ u[i] = Text(s)[i]
      BY <1>1, <1>3, <2>1
    <3> QED
      BY <1>2, <1>4, <3>1
  <2>2. CASE ~(i <= n)
    <3>1. i - n \in 1 .. m /\ r[i] = t[i - n] /\ u[i] = Text(t)[i - n]
      BY <1>1, <1>3, <2>2
    <3> QED
      BY <1>2, <1>4, <3>1
  <2> QED
    BY <2>1, <2>2
<1>6. Text(r) = u
  BY <1>1, <1>3, <1>4, <1>5
<1> QED
  BY <1>6 DEF TextsJoined, r, u

JoinedBoth(s, t) ==
    s \o t \in Seq(Node) /\ SaysIn(s \o t) = SaysIn(s) \cup SaysIn(t) /\ Text(s \o t) = Text(s) \o Text(t)

LEMMA BothJoin == ASSUME NEW s \in Seq(Node), NEW t \in Seq(Node) PROVE JoinedBoth(s, t)
<1>1. SaysIn(s \o t) = SaysIn(s) \cup SaysIn(t)
  BY SaysJoin
<1>2. Text(s \o t) = Text(s) \o Text(t)
  BY TextJoin DEF TextsJoined
<1> QED
  BY <1>1, <1>2 DEF JoinedBoth

TextAlone(x) == Text(<<x>>) = <<LineOf(x)>>

LEMMA TextOfOne == ASSUME NEW x PROVE TextAlone(x)
BY DEF TextAlone, Text

LEMMA AppendIsJoin == \A X : \A s \in Seq(X), x \in X : Append(s, x) = s \o <<x>>
OBVIOUS

TextOfOnly(s, W) == Text(Only(s, NodesOn(W))) = Only(Text(s), LinesOn(W))

LEMMA TextOnly == ASSUME NEW s \in Seq(Node), NEW W PROVE TextOfOnly(s, W)
<1> DEFINE P == {r \in Seq(Node) : TextOfOnly(r, W)}
           S == NodesOn(W)
           T == LinesOn(W)
<1>0. Text(<<>>) = <<>>
  BY DEF Text
<1>1. <<>> \in P
  BY <1>0, OnlyEmpty DEF TextOfOnly
<1>2. ASSUME NEW r \in Seq(Node), NEW x \in Node, r \in P PROVE Append(r, x) \in P
  <2>1. Append(r, x) \in Seq(Node) /\ Only(r, S) \in Seq(Node)
    BY OnlyType
  <2>2. Only(Append(r, x), S) = IF x \in S THEN Append(Only(r, S), x) ELSE Only(r, S)
    BY OnlyAppend
  <2>3. ASSUME NEW u \in Seq(Node) PROVE Text(Append(u, x)) = Append(Text(u), LineOf(x))
    <3> DEFINE one == <<x>>
    <3>1. one \in Seq(Node) /\ Text(one) = <<LineOf(x)>> /\ Append(u, x) = u \o one
      BY TextOfOne, AppendIsJoin DEF TextAlone
    <3> HIDE DEF one
    <3>2. Text(u \o one) = Text(u) \o Text(one)
      BY <3>1, TextJoin DEF TextsJoined
    <3>3. Text(u) \in Seq(Line) /\ LineOf(x) \in Line
      BY TextIs, LineType
    <3> QED
      BY <3>1, <3>2, <3>3, AppendIsJoin
  <2>4. Only(Append(Text(r), LineOf(x)), T) =
          IF LineOf(x) \in T THEN Append(Only(Text(r), T), LineOf(x)) ELSE Only(Text(r), T)
    <3>1. Text(r) \in Seq(Line) /\ LineOf(x) \in Line
      BY TextIs, LineType
    <3> QED
      BY <3>1, OnlyAppend
  <2>5. x \in S <=> LineOf(x) \in T
    BY LineType DEF NodesOn, LinesOn
  <2>6. Text(Only(r, S)) = Only(Text(r), T)
    BY <1>2 DEF TextOfOnly
  <2>7. Text(Append(r, x)) = Append(Text(r), LineOf(x)) /\ Text(Append(Only(r, S), x)) = Append(Text(Only(r, S)), LineOf(x))
    BY <2>1, <2>3
  <2>8. Text(Only(Append(r, x), S)) = Only(Text(Append(r, x)), T)
    <3> HIDE DEF S, T
    <3>1. CASE x \in S
      BY <2>2, <2>4, <2>5, <2>6, <2>7, <3>1
    <3>2. CASE x \notin S
      BY <2>2, <2>4, <2>5, <2>6, <2>7, <3>2
    <3> QED
      BY <3>1, <3>2
  <2> QED
    BY <2>1, <2>8 DEF TextOfOnly
<1> HIDE DEF P
<1>3. Seq(Node) \subseteq P
  BY <1>1, <1>2, Appending
<1> QED
  BY <1>3 DEF P

LEMMA LinesAgree ==
    ASSUME NEW s \in Seq(Line), NEW V, NEW W, V \cap SaysIn(s) = W \cap SaysIn(s)
    PROVE  Only(s, LinesOn(V)) = Only(s, LinesOn(W))
<1>1. \A x \in ToSet(s) : x \in LinesOn(V) <=> x \in LinesOn(W)
  <2>1. ToSet(s) \subseteq Line
    BY InList
  <2> QED
    BY <2>1 DEF LinesOn, SaysIn
<1> QED
  BY <1>1, OnlyAgree

LEMMA LinesTwice ==
    ASSUME NEW s \in Seq(Line), NEW V, NEW W
    PROVE  Only(Only(s, LinesOn(V)), LinesOn(W)) = Only(s, LinesOn(V \cap W))
<1>1. LinesOn(V) \cap LinesOn(W) = LinesOn(V \cap W)
  BY DEF LinesOn
<1>2. Only(Only(s, LinesOn(V)), LinesOn(W)) = Only(s, LinesOn(V) \cap LinesOn(W))
  BY OnlyTwice
<1> QED
  BY <1>1, <1>2

LEMMA LinesNone ==
    ASSUME NEW s \in Seq(Line), NEW W, W \cap SaysIn(s) = {}
    PROVE  Only(s, LinesOn(W)) = <<>>
<1> DEFINE r == Only(s, LinesOn(W))
<1>1. r \in Seq(Line) /\ ToSet(r) = ToSet(s) \cap LinesOn(W)
  BY OnlyType, OnlyMembers
<1>2. ToSet(r) = {}
  BY <1>1 DEF LinesOn, SaysIn
<1> HIDE DEF r
<1>3. Len(r) = 0
  BY <1>1, <1>2 DEF ToSet
<1>4. r = <<>>
  BY <1>1, <1>3
<1> QED
  BY <1>4 DEF r

LinesJoined(s, t, W) == Only(s \o t, LinesOn(W)) = Only(s, LinesOn(W)) \o Only(t, LinesOn(W))

LEMMA LinesJoin == ASSUME NEW s \in Seq(Line), NEW t \in Seq(Line), NEW W PROVE LinesJoined(s, t, W)
BY OnlyJoin DEF LinesJoined

LEMMA JoinNone == \A X : \A s \in Seq(X) : s \o <<>> = s
OBVIOUS

----------------------------------------------------------------------------
\* What the file said, and how it was laid out.
Were == SaysIn(File)

TextWas == [i \in DOMAIN File |-> [says |-> File[i].says, form |-> File[i].form]]

\* What is of the file is as it was, and only tracks of it are gone.
LinesKept(items) ==
    /\ Only(Text(items), LinesOn(Were)) = Only(TextWas, LinesOn(SaysIn(items)))
    /\ \A w \in Were \ SaysIn(items) : SaysTrack(w)

LEMMA TextWasIs == TextWas \in Seq(Line) /\ SaysIn(TextWas) = Were
<1>1. IsList(File)
  BY CheckerAssumption
<1>2. Len(File) \in Nat /\ DOMAIN File = 1 .. Len(File)
  BY <1>1, ListIs
<1>3. \A i \in DOMAIN File : File[i].says \in Says /\ File[i].form \in Forms
  BY DEF Says, Forms, SaysIn, ToSet
<1>4. DOMAIN TextWas = DOMAIN File /\ \A i \in DOMAIN File : TextWas[i] \in Line /\ TextWas[i].says = File[i].says
  BY <1>3 DEF TextWas, Line
<1>5. TextWas \in [1 .. Len(File) -> Line]
  BY <1>2, <1>4 DEF TextWas
<1>6. SaysIn(TextWas) = Were
  <2>1. SaysIn(TextWas) = {TextWas[i].says : i \in DOMAIN File}
    BY <1>4 DEF SaysIn, ToSet
  <2> QED
    BY <1>4, <2>1 DEF SaysIn, ToSet, Were
<1> QED
  BY <1>2, <1>5, <1>6, FunctionIsList

LEMMA LinesAdded ==
    ASSUME NEW items \in Seq(Node), NEW new \in Seq(Node), LinesKept(items), SaysIn(new) \cap Were = {}
    PROVE  LinesKept(items \o new)
<1> DEFINE all == items \o new
<1>1. all \in Seq(Node) /\ SaysIn(all) = SaysIn(items) \cup SaysIn(new)
  BY SaysJoin
<1>2. Text(all) = Text(items) \o Text(new)
  BY TextJoin DEF TextsJoined
<1> HIDE DEF all
<1>3. Text(items) \in Seq(Line) /\ Text(new) \in Seq(Line) /\ SaysIn(Text(new)) = SaysIn(new)
  BY TextIs
<1>4. Only(Text(all), LinesOn(Were)) = Only(Text(items), LinesOn(Were)) \o Only(Text(new), LinesOn(Were))
  BY <1>2, <1>3, LinesJoin DEF LinesJoined
<1>5. Only(Text(new), LinesOn(Were)) = <<>>
  BY <1>3, LinesNone
<1>6. Only(Text(items), LinesOn(Were)) \in Seq(Line)
  BY <1>3, OnlyType
<1>7. Only(Text(all), LinesOn(Were)) = Only(Text(items), LinesOn(Were))
  BY <1>4, <1>5, <1>6, JoinNone
<1>8. Only(TextWas, LinesOn(SaysIn(all))) = Only(TextWas, LinesOn(SaysIn(items)))
  BY <1>1, TextWasIs, LinesAgree
<1> QED
  BY <1>1, <1>7, <1>8 DEF LinesKept, all

LEMMA LinesRemoved ==
    ASSUME NEW items \in Seq(Node), NEW gone, LinesKept(items), gone \cap Were = {}
    PROVE  LinesKept(Only(items, {n \in ToSet(items) : n.says \notin gone}))
<1> DEFINE left == Only(items, {n \in ToSet(items) : n.says \notin gone})
           W == SaysIn(items) \ gone
<1>0. ToSet(items) \subseteq Node
  BY InList
<1>1. left = Only(items, NodesOn(W))
  <2> DEFINE S == {n \in ToSet(items) : n.says \notin gone}
  <2>1. \A n \in ToSet(items) : n \in S <=> n \in NodesOn(W)
    BY <1>0 DEF NodesOn, SaysIn
  <2> HIDE DEF S, W
  <2>2. Only(items, S) = Only(items, NodesOn(W))
    BY <2>1, OnlyAgree
  <2> QED
    BY <2>2 DEF S
<1> HIDE DEF left
<1>2. SaysIn(left) = W
  <2>1. ToSet(left) = ToSet(items) \cap NodesOn(W)
    BY <1>1, OnlyMembers
  <2> QED
    BY <1>0, <2>1 DEF SaysIn, NodesOn
<1>3. Text(left) = Only(Text(items), LinesOn(W))
  BY <1>1, TextOnly DEF TextOfOnly
<1>4. Text(items) \in Seq(Line) /\ SaysIn(Text(items)) = SaysIn(items)
  BY TextIs
<1>5. Only(Text(left), LinesOn(Were)) = Only(Text(items), LinesOn(W \cap Were))
  BY <1>3, <1>4, LinesTwice
<1>6. Only(Text(items), LinesOn(W \cap Were)) = Only(Text(items), LinesOn(Were))
  BY <1>4, LinesAgree
<1>7. Only(TextWas, LinesOn(W)) = Only(TextWas, LinesOn(SaysIn(items)))
  BY TextWasIs, LinesAgree
<1> QED
  BY <1>2, <1>5, <1>6, <1>7 DEF LinesKept, left

LEMMA LinesPut ==
    ASSUME NEW p \in Seq(Node), NEW q \in Seq(Node), NEW x \in Node, NEW new \in Seq(Node),
           LinesKept((p \o <<x>>) \o q), SaysIn(new) \cap Were = {}, SaysTrack(x.says),
           x.says \notin SaysIn(p) \cup SaysIn(q)
    PROVE  LinesKept((p \o new) \o q)
<1> DEFINE one == <<x>>
           l == p \o one
           m == p \o new
           old == l \o q
           now == m \o q
           V == Were \ {x.says}
<1>1. one \in Seq(Node) /\ SaysIn(one) = {x.says}
  BY SaysAlone
<1> HIDE DEF one
<1>2. /\ l \in Seq(Node) /\ SaysIn(l) = SaysIn(p) \cup {x.says} /\ Text(l) = Text(p) \o Text(one)
      /\ m \in Seq(Node) /\ SaysIn(m) = SaysIn(p) \cup SaysIn(new) /\ Text(m) = Text(p) \o Text(new)
  <2>1. JoinedBoth(p, one) /\ JoinedBoth(p, new)
    BY <1>1, BothJoin
  <2> QED
    BY <1>1, <2>1 DEF JoinedBoth
<1> HIDE DEF l, m
<1>3. /\ old \in Seq(Node) /\ SaysIn(old) = SaysIn(l) \cup SaysIn(q) /\ Text(old) = Text(l) \o Text(q)
      /\ now \in Seq(Node) /\ SaysIn(now) = SaysIn(m) \cup SaysIn(q) /\ Text(now) = Text(m) \o Text(q)
  BY <1>2, BothJoin DEF JoinedBoth
<1>4. LinesKept(old)
  BY DEF old, l, one
<1> HIDE DEF old, now
<1> DEFINE P == Text(p)
           Q == Text(q)
           O == Text(one)
           N == Text(new)
<1>5. /\ P \in Seq(Line) /\ SaysIn(P) = SaysIn(p) /\ Q \in Seq(Line) /\ SaysIn(Q) = SaysIn(q)
      /\ O \in Seq(Line) /\ SaysIn(O) = {x.says} /\ N \in Seq(Line) /\ SaysIn(N) = SaysIn(new)
      /\ Text(l) \in Seq(Line) /\ Text(m) \in Seq(Line) /\ Text(old) \in Seq(Line)
      /\ SaysIn(Text(old)) = SaysIn(old)
  BY <1>1, <1>2, <1>3, TextIs
<1> HIDE DEF P, Q, O, N
<1>6. Text(l) = P \o O /\ Text(m) = P \o N /\ Text(old) = Text(l) \o Q /\ Text(now) = Text(m) \o Q
  BY <1>2, <1>3 DEF P, Q, O, N
<1>7. ASSUME NEW W
      PROVE  /\ Only(Text(old), LinesOn(W)) = (Only(P, LinesOn(W)) \o Only(O, LinesOn(W))) \o Only(Q, LinesOn(W))
             /\ Only(Text(now), LinesOn(W)) = (Only(P, LinesOn(W)) \o Only(N, LinesOn(W))) \o Only(Q, LinesOn(W))
  <2>1. /\ Only(P \o O, LinesOn(W)) = Only(P, LinesOn(W)) \o Only(O, LinesOn(W))
        /\ Only(P \o N, LinesOn(W)) = Only(P, LinesOn(W)) \o Only(N, LinesOn(W))
    <3>1. LinesJoined(P, O, W) /\ LinesJoined(P, N, W)
      BY <1>5, LinesJoin
    <3> QED
      BY <3>1 DEF LinesJoined
  <2>2. /\ Only(Text(l) \o Q, LinesOn(W)) = Only(Text(l), LinesOn(W)) \o Only(Q, LinesOn(W))
        /\ Only(Text(m) \o Q, LinesOn(W)) = Only(Text(m), LinesOn(W)) \o Only(Q, LinesOn(W))
    <3>1. LinesJoined(Text(l), Q, W) /\ LinesJoined(Text(m), Q, W)
      BY <1>5, LinesJoin
    <3> QED
      BY <3>1 DEF LinesJoined
  <2> QED
    BY <1>6, <2>1, <2>2
<1>8. Only(N, LinesOn(Were)) = <<>> /\ Only(O, LinesOn(V)) = <<>>
  BY <1>5, LinesNone
<1>9. Only(P, LinesOn(V)) = Only(P, LinesOn(Were)) /\ Only(Q, LinesOn(V)) = Only(Q, LinesOn(Were))
  <2>1. V \cap SaysIn(P) = Were \cap SaysIn(P) /\ V \cap SaysIn(Q) = Were \cap SaysIn(Q)
    BY <1>5
  <2> HIDE DEF V
  <2>2. Only(P, LinesOn(V)) = Only(P, LinesOn(Were))
    BY <1>5, <2>1, LinesAgree
  <2>3. Only(Q, LinesOn(V)) = Only(Q, LinesOn(Were))
    BY <1>5, <2>1, LinesAgree
  <2> QED
    BY <2>2, <2>3
<1>10. Only(Text(now), LinesOn(Were)) = Only(Text(old), LinesOn(V))
  BY <1>7, <1>8, <1>9
<1>11. Only(Text(old), LinesOn(V)) = Only(Only(Text(old), LinesOn(Were)), LinesOn(V))
  <2>1. Were \cap V = V
    OBVIOUS
  <2> HIDE DEF V
  <2>2. Only(Only(Text(old), LinesOn(Were)), LinesOn(V)) = Only(Text(old), LinesOn(Were \cap V))
    BY <1>5, LinesTwice
  <2> QED
    BY <2>1, <2>2
<1>12. Only(Only(TextWas, LinesOn(SaysIn(old))), LinesOn(V)) = Only(TextWas, LinesOn(SaysIn(old) \cap V))
  BY TextWasIs, LinesTwice
<1>13. Only(TextWas, LinesOn(SaysIn(old) \cap V)) = Only(TextWas, LinesOn(SaysIn(now)))
  <2>1. (SaysIn(old) \cap V) \cap SaysIn(TextWas) = SaysIn(now) \cap SaysIn(TextWas)
    BY <1>2, <1>3, TextWasIs
  <2> QED
    BY <2>1, TextWasIs, LinesAgree
<1>14. Only(Text(now), LinesOn(Were)) = Only(TextWas, LinesOn(SaysIn(now)))
  BY <1>4, <1>10, <1>11, <1>12, <1>13 DEF LinesKept
<1>15. \A w \in Were \ SaysIn(now) : SaysTrack(w)
  BY <1>2, <1>3, <1>4 DEF LinesKept
<1> QED
  BY <1>14, <1>15 DEF LinesKept, now, m

\* The board agrees with itself and, but for edits, with the file; what is
\* live in the checker is what is on the board; what was looked up for a net is
\* what would be found now; while the router works the board is the file and
\* the paths that are laid.
CheckerInv ==
    /\ InMemory(board) /\ LinesKept(board.root.items)
    /\ ObsOK(obs) /\ LiveOf(obs) = BoardObs(ToSet(board.tracks))
    /\ index = IndexOf(obs, 0)
    /\ \A net \in DOMAIN exemptions : exemptions[net] = OwnCopper(board, net)
    /\ routed \in SUBSET Paths /\ tuning \in BOOLEAN
    /\ tuning => exemptions = <<>>
    /\ ~tuning => ToSet(board.tracks) = TracksOfFile \cup UNION {ToSet(p) : p \in routed}
    /\ added \subseteq ToSet(board.tracks) \ TracksOfFile
    /\ edits \in Nat /\ (edits = 0 => board.root = ReadTree(File))

LEMMA OwnCopperIs ==
    ASSUME NEW b, InMemory(b), NEW net
    PROVE  OwnCopper(b, net) = {t.id : t \in {u \in ToSet(b.tracks) : u.net = net}} \cup PadsOfNet(net)
BY ByNetIs DEF OwnCopper

LEMMA ItemsRead ==
    /\ ReadTree(File).items \in Seq(Node)
    /\ SaysIn(ReadTree(File).items) = Were
    /\ Text(ReadTree(File).items) = TextWas
    /\ FreshIds => Once(ReadTree(File).items)
<1> DEFINE items == ReadTree(File).items
<1>0. IsList(File)
  BY CheckerAssumption
<1>1. Len(File) \in Nat /\ DOMAIN File = 1 .. Len(File)
  BY <1>0, ListIs
<1>2. items = [i \in DOMAIN File |-> [says |-> File[i].says, form |-> File[i].form, dirty |-> FALSE]]
  BY DEF ReadTree
<1> HIDE DEF items
<1>3. \A i \in DOMAIN File : File[i].says \in Says /\ File[i].form \in Forms
  BY DEF Says, Forms, SaysIn, ToSet
<1>4. \A i \in DOMAIN File : /\ items[i] \in Node /\ items[i].says = File[i].says
                             /\ LineOf(items[i]) = [says |-> File[i].says, form |-> File[i].form]
  BY <1>2, <1>3 DEF Node, LineOf, FormOf
<1>5. items \in [1 .. Len(File) -> Node] /\ DOMAIN items = DOMAIN File
  BY <1>1, <1>2, <1>4
<1>6. SaysIn(items) = Were
  <2>1. SaysIn(items) = {items[i].says : i \in DOMAIN File}
    BY <1>5 DEF SaysIn, ToSet
  <2>2. Were = {File[i].says : i \in DOMAIN File}
    BY DEF Were, SaysIn, ToSet
  <2> QED
    BY <1>4, <2>1, <2>2
<1>7. Text(items) = TextWas
  BY <1>4, <1>5 DEF Text, TextWas
<1>8. FreshIds => Once(items)
  BY <1>4, <1>5 DEF FreshIds, Once
<1> QED
  BY <1>1, <1>5, <1>6, <1>7, <1>8, FunctionIsList DEF items

LEMMA ReadInMemory ==
    ASSUME FreshIds
    PROVE  InMemory(ParseBoard(File)) /\ ToSet(ParseBoard(File).tracks) = TracksOfFile
<1> DEFINE b == ParseBoard(File)
<1>1. b.root = ReadTree(File) /\ b.byNet = OnNets(ToSet(b.tracks)) /\ ToSet(b.tracks) = TracksOfFile
  BY DEF ParseBoard, TracksOfFile
<1>2. IsList(b.tracks) /\ TracksOfFile = TracksSaid(File)
  BY CheckerAssumption, ParseTracks, FileTracks
<1> HIDE DEF b
<1>3. b.tracks \in Seq(AllTracks)
  <2>1. \A s : s \in Seq(TracksOfFile) => s \in Seq(AllTracks)
    BY DEF AllTracks
  <2> QED
    BY <1>1, <1>2, <2>1 DEF IsList
<1>4. TrackSays(SaysIn(b.root.items)) = SaysOf(ToSet(b.tracks))
  <2>1. SaysIn(b.root.items) = SaysIn(File)
    BY <1>1, ItemsRead DEF Were
  <2>2. \A w \in TrackSays(SaysIn(File)) : NodeSays(TrackOf(w)) = w
    BY CheckerAssumption DEF TrackSays, SaysIn, IsCopper
  <2> QED
    BY <1>1, <1>2, <2>1, <2>2 DEF SaysOf, TracksSaid
<1>5. /\ b.byNet = [net \in DOMAIN b.byNet |-> {t \in ToSet(b.tracks) : t.net = net}]
      /\ {t.net : t \in ToSet(b.tracks)} \subseteq DOMAIN b.byNet
  BY <1>1 DEF OnNets
<1> QED
  BY <1>1, <1>3, <1>4, <1>5, ItemsRead DEF InMemory, b

LEMMA NewChecker ==
    ASSUME NEW b, InMemory(b)
    PROVE  /\ ObsOK(NewObs(b)) /\ LiveOf(NewObs(b)) = BoardObs(ToSet(b.tracks))
           /\ NewIndex(b) = IndexOf(NewObs(b), 0)
BY NewObsIs DEF InMemory, NewIndex

LEMMA CheckerInit == ASSUME FreshIds, Init PROVE CheckerInv
<1>1. board = ParseBoard(File) /\ exemptions = <<>> /\ routed = {} /\ added = {} /\ edits = 0 /\ tuning = FALSE
      /\ obs = NewObs(board) /\ index = NewIndex(board)
  BY DEF Init
<1>2. InMemory(board) /\ ToSet(board.tracks) = TracksOfFile
  BY <1>1, ReadInMemory
<1>3. board.root = ReadTree(File)
  BY <1>1 DEF ParseBoard
<1>4. LinesKept(board.root.items)
  BY <1>3, ItemsRead DEF LinesKept
<1>5. ObsOK(obs) /\ LiveOf(obs) = BoardObs(ToSet(board.tracks)) /\ index = IndexOf(obs, 0)
  BY <1>1, <1>2, NewChecker
<1>6. DOMAIN exemptions = {}
  BY <1>1
<1> QED
  BY <1>1, <1>2, <1>3, <1>4, <1>5, <1>6 DEF CheckerInv

----------------------------------------------------------------------------
(* The steps, and the first result. *)

LEMMA CheckerRefuse == ASSUME CheckerInv, NEW path \in Paths, Refuse(path) PROVE CheckerInv'
<1> DEFINE net == path[1].net
<1>1. /\ exemptions' = [n \in DOMAIN exemptions \cup {net} |-> Exempt(n)] /\ ~tuning
      /\ UNCHANGED <<tuning, board, obs, index, routed, added, edits>>
  BY DEF Refuse, chk
<1>2. \A n : Exempt(n) = OwnCopper(board, n)
  BY DEF CheckerInv, Exempt
<1> HIDE DEF net
<1>3. \A n \in DOMAIN exemptions' : exemptions'[n] = OwnCopper(board, n)
  BY <1>1, <1>2
<1>4. \A n : OwnCopper(board, n)' = OwnCopper(board, n)
  BY <1>1 DEF OwnCopper, TracksOfNet
<1>5. (\A n \in DOMAIN exemptions : exemptions[n] = OwnCopper(board, n))'
  BY <1>3, <1>4
<1> QED
  BY <1>1, <1>5 DEF CheckerInv

\* The copper of the other nets is not touched by what is done to one.
LEMMA ExemptionsKept ==
    ASSUME CheckerInv, NEW net, InMemory(board'), exemptions' = Forget(net),
           \A t \in (ToSet(board.tracks) \ ToSet(board.tracks')) \cup (ToSet(board.tracks') \ ToSet(board.tracks)) :
               t.net = net
    PROVE  (\A n \in DOMAIN exemptions : exemptions[n] = OwnCopper(board, n))'
<1>1. exemptions' = [n \in DOMAIN exemptions \ {net} |-> exemptions[n]]
  BY DEF Forget
<1>2. ASSUME NEW n \in DOMAIN exemptions', n # net
      PROVE  OwnCopper(board', n) = OwnCopper(board, n)
  <2>1. {u \in ToSet(board.tracks) : u.net = n} = {u \in ToSet(board.tracks') : u.net = n}
    BY <1>2
  <2>2. InMemory(board)
    BY DEF CheckerInv
  <2>3. OwnCopper(board, n) = {t.id : t \in {u \in ToSet(board.tracks) : u.net = n}} \cup PadsOfNet(n)
    BY <2>2, OwnCopperIs
  <2>4. OwnCopper(board', n) = {t.id : t \in {u \in ToSet(board'.tracks) : u.net = n}} \cup PadsOfNet(n)
    BY OwnCopperIs
  <2> QED
    BY <2>1, <2>3, <2>4
<1>3. \A n \in DOMAIN exemptions' : n # net /\ n \in DOMAIN exemptions /\ exemptions'[n] = exemptions[n]
  BY <1>1
<1>4. \A n \in DOMAIN exemptions' : exemptions'[n] = OwnCopper(board', n)
  BY <1>2, <1>3 DEF CheckerInv
<1> QED
  BY <1>4

LEMMA PathIs ==
    ASSUME NEW path \in Paths
    PROVE  path \in Seq(Tracks) /\ path \in Seq(AllTracks) /\ ToSet(path) \subseteq Tracks
           /\ \A t \in ToSet(path) : t.net = path[1].net
<1>1. IsList(path) /\ \A t \in ToSet(path) : t.net = path[1].net
  BY CheckerAssumption
<1>2. ToSet(path) \subseteq Tracks /\ ToSet(path) \subseteq AllTracks
  BY DEF Tracks, AllTracks
<1>3. \A S : ToSet(path) \subseteq S => path \in Seq(S)
  BY <1>1 DEF IsList
<1> QED
  BY <1>1, <1>2, <1>3

LEMMA NewSays ==
    ASSUME NEW S \in SUBSET AllTracks, S \cap TracksOfFile = {}
    PROVE  SaysOf(S) \cap Were = {}
<1> SUFFICES ASSUME NEW t \in S, NodeSays(t) \in Were PROVE FALSE
  BY DEF SaysOf
<1>1. TrackOf(NodeSays(t)) \in TracksSaid(File)
  BY SaysTracks DEF TracksSaid, TrackSays, Were
<1>2. TrackOf(NodeSays(t)) = t
  BY AllWritten DEF KeepsWritten
<1> QED
  BY <1>1, <1>2, FileTracks

LEMMA CheckerLay == ASSUME FreshIds, CheckerInv, NEW path \in Paths, Lay(path) PROVE CheckerInv'
<1> DEFINE new == ObstaclesOfAll(path)
           S == ToSet(path)
<1>1. /\ ~tuning /\ path \notin routed /\ board' = AddTracks(board, path)
      /\ obs' = obs \o new /\ index' = index \cup IndexOf(new, Len(obs))
      /\ exemptions' = Forget(path[1].net) /\ routed' = routed \cup {path} /\ added' = added \cup S
      /\ edits' = edits + 1 /\ tuning' = tuning
  BY DEF Lay
<1>2. path \in Seq(Tracks) /\ path \in Seq(AllTracks) /\ S \subseteq AllTracks /\ \A t \in S : t.net = path[1].net
  BY PathIs DEF AllTracks
<1>3. IsInjective(path) /\ S \cap TracksOfFile = {}
  BY DEF FreshIds
<1>4. S \cap ToSet(board.tracks) = {}
  <2>1. \A p \in routed : p \in Paths /\ p # path
    BY <1>1 DEF CheckerInv
  <2>2. \A p \in routed : ToSet(p) \cap S = {}
    BY <2>1 DEF FreshIds
  <2> QED
    BY <1>1, <1>3, <2>2 DEF CheckerInv
<1>5. /\ InMemory(board')
      /\ ToSet(board'.tracks) = ToSet(board.tracks) \cup S
      /\ SaysIn(board'.root.items) = SaysIn(board.root.items) \cup SaysOf(S)
  BY <1>1, <1>2, <1>3, <1>4, AddedTo DEF CheckerInv
<1>6. LinesKept(board'.root.items)
  <2>1. BuiltAll(path) \in Seq(Node) /\ SaysIn(BuiltAll(path)) = SaysOf(S)
    BY <1>2, <1>3, BuiltIs
  <2>2. SaysOf(S) \cap Were = {}
    BY <1>2, <1>3, NewSays
  <2>3. board.root.items \in Seq(Node) /\ LinesKept(board.root.items)
    BY DEF CheckerInv, InMemory
  <2>4. board'.root.items = board.root.items \o BuiltAll(path)
    BY <1>1 DEF AddTracks, AppendNodes, Changed
  <2>5. LinesKept(board.root.items \o BuiltAll(path))
    BY <2>1, <2>2, <2>3, LinesAdded
  <2> QED
    BY <2>4, <2>5
<1>7. IsList(new) /\ ToSet(new) = ObsOfAll(S)
  BY <1>2, PiecesFlat
<1> HIDE DEF new, S
<1>8. ObsOK(obs) /\ IsList(obs) /\ \A x \in ObsOfAll(S) : IsObstacle(x) /\ ~x.dead
  BY <1>2, AreObstacles DEF CheckerInv, ObsOK, BoardObs
<1>9. ObsOK(obs') /\ LiveOf(obs') = BoardObs(ToSet(board'.tracks))
  <2>1. IsList(obs \o new) /\ ToSet(obs \o new) = ToSet(obs) \cup ToSet(new)
    BY <1>7, <1>8, ListJoin
  <2>2. ObsOK(obs')
    BY <1>1, <1>7, <1>8, <2>1 DEF ObsOK
  <2>3. LiveOf(obs') = LiveOf(obs) \cup ObsOfAll(S)
    BY <1>1, <1>7, <1>8, <2>1 DEF LiveOf
  <2>4. ObsOfAll(ToSet(board'.tracks)) = ObsOfAll(ToSet(board.tracks)) \cup ObsOfAll(S)
    BY <1>5 DEF ObsOfAll
  <2> QED
    BY <2>2, <2>3, <2>4 DEF CheckerInv, BoardObs
<1>10. index' = IndexOf(obs', 0)
  BY <1>1, <1>7, <1>8, IndexJoin DEF CheckerInv
<1>11. (\A n \in DOMAIN exemptions : exemptions[n] = OwnCopper(board, n))'
  BY <1>1, <1>2, <1>5, ExemptionsKept
<1>12. ToSet(board'.tracks) = TracksOfFile \cup UNION {ToSet(p) : p \in routed'}
  BY <1>1, <1>5 DEF CheckerInv, S
<1>13. added' \subseteq ToSet(board'.tracks) \ TracksOfFile
  BY <1>1, <1>3, <1>5 DEF CheckerInv
<1>14. edits' \in Nat /\ edits' # 0
  BY <1>1 DEF CheckerInv
<1> QED
  BY <1>1, <1>5, <1>6, <1>9, <1>10, <1>11, <1>12, <1>13, <1>14 DEF CheckerInv

\* What the retired names leave: the pieces of the other tracks.
LEMMA RetiredPieces ==
    ASSUME FreshIds, NEW A \in SUBSET AllTracks, NEW S \in SUBSET AllTracks
    PROVE  {x \in BoardObs(A) : x.ref \notin {t.id : t \in S}} = BoardObs(A \ S)
<1> DEFINE ids == {t.id : t \in S}
<1>1. ASSUME NEW t \in A, NEW x \in PieceObs(t) PROVE x.ref = t.id
  <2>1. PICK l \in LayersOf(t) : x = Obstacle(t.box, l, t.net, t.kind, t.id, "", FALSE)
    BY DEF PieceObs
  <2> QED
    BY <2>1 DEF Obstacle
<1>2. ASSUME NEW t \in A PROVE t.id \in ids <=> t \in S
  BY DEF FreshIds, AllTracks
<1>3. ASSUME NEW x \in FixedObs PROVE x.ref \notin ids
  <2>1. PICK o \in ToSet(Fixed) : x.ref = o.ref
    BY DEF FixedObs, Obstacle, ToSet
  <2> QED
    BY <2>1 DEF FreshIds
<1> HIDE DEF ids
<1>4. {x \in ObsOfAll(A) : x.ref \notin ids} = ObsOfAll(A \ S)
  <2>1. ASSUME NEW x \in ObsOfAll(A), x.ref \notin ids PROVE x \in ObsOfAll(A \ S)
    <3>1. PICK t \in A : x \in PieceObs(t)
      BY DEF ObsOfAll
    <3>2. t \in A \ S
      BY <1>1, <1>2, <2>1, <3>1
    <3> QED
      BY <3>1, <3>2 DEF ObsOfAll
  <2>2. ASSUME NEW x \in ObsOfAll(A \ S) PROVE x \in ObsOfAll(A) /\ x.ref \notin ids
    <3>1. PICK t \in A \ S : x \in PieceObs(t)
      BY DEF ObsOfAll
    <3> QED
      BY <1>1, <1>2, <3>1 DEF ObsOfAll
  <2> QED
    BY <2>1, <2>2
<1> QED
  BY <1>3, <1>4 DEF BoardObs, ids

LEMMA CheckerRipUp == ASSUME FreshIds, CheckerInv, NEW path \in Paths, RipUp(path) PROVE CheckerInv'
<1> DEFINE S == ToSet(path)
           ids == {t.id : t \in S}
<1>1. /\ ~tuning /\ path \in routed /\ board' = RemoveTracks(board, S)
      /\ obs' = Retired(obs, ids) /\ index' = index
      /\ exemptions' = Forget(path[1].net) /\ routed' = routed \ {path} /\ added' = added \ S
      /\ edits' = edits + 1 /\ tuning' = tuning
  BY DEF RipUp
<1>2. S \subseteq AllTracks /\ \A t \in S : t.net = path[1].net
  BY PathIs DEF AllTracks
<1>3. S \cap TracksOfFile = {}
  BY DEF FreshIds
<1>4. /\ InMemory(board')
      /\ ToSet(board'.tracks) = ToSet(board.tracks) \ S
      /\ SaysIn(board'.root.items) = SaysIn(board.root.items) \ SaysOf(S)
      /\ board'.root.items = Only(board.root.items, {n \in ToSet(board.root.items) : n.says \notin SaysOf(S)})
  BY <1>1, <1>2, RemovedFrom DEF CheckerInv
<1>5. LinesKept(board'.root.items)
  <2>1. SaysOf(S) \cap Were = {}
    BY <1>2, <1>3, NewSays
  <2>2. board.root.items \in Seq(Node) /\ LinesKept(board.root.items)
    BY DEF CheckerInv, InMemory
  <2> HIDE DEF S
  <2> QED
    BY <1>4, <2>1, <2>2, LinesRemoved
<1>6. ObsOK(obs') /\ LiveOf(obs') = BoardObs(ToSet(board'.tracks)) /\ index' = IndexOf(obs', 0)
  <2>1. /\ ObsOK(obs') /\ LiveOf(obs') = {x \in LiveOf(obs) : x.ref \notin ids}
        /\ IndexOf(obs', 0) = IndexOf(obs, 0)
    BY <1>1, RetiredIs DEF CheckerInv
  <2>2. ToSet(board.tracks) \in SUBSET AllTracks
    BY InList DEF CheckerInv, InMemory
  <2>3. {x \in BoardObs(ToSet(board.tracks)) : x.ref \notin ids} = BoardObs(ToSet(board.tracks) \ S)
    BY <1>2, <2>2, RetiredPieces
  <2> QED
    BY <1>1, <1>4, <2>1, <2>3 DEF CheckerInv
<1> HIDE DEF S, ids
<1>7. (\A n \in DOMAIN exemptions : exemptions[n] = OwnCopper(board, n))'
  BY <1>1, <1>2, <1>4, ExemptionsKept
<1>8. ToSet(board'.tracks) = TracksOfFile \cup UNION {ToSet(p) : p \in routed'}
  <2>1. \A p \in routed' : ToSet(p) \cap S = {}
    BY <1>1 DEF CheckerInv, FreshIds, S
  <2> DEFINE left == UNION {ToSet(p) : p \in routed'}
             all == UNION {ToSet(p) : p \in routed}
  <2>2. all = left \cup S
    <3>1. \A p \in routed : p = path \/ p \in routed'
      BY <1>1
    <3>2. \A p \in routed' : p \in routed
      BY <1>1
    <3> QED
      BY <1>1, <3>1, <3>2 DEF S
  <2>3. left \cap S = {}
    BY <2>1
  <2>4. ToSet(board.tracks) = TracksOfFile \cup all
    BY <1>1 DEF CheckerInv
  <2> HIDE DEF left, all
  <2>5. ToSet(board'.tracks) = TracksOfFile \cup left
    BY <1>3, <1>4, <2>2, <2>3, <2>4
  <2> QED
    BY <2>5 DEF left
<1>9. added' \subseteq ToSet(board'.tracks) \ TracksOfFile
  BY <1>1, <1>4 DEF CheckerInv
<1>10. edits' \in Nat /\ edits' # 0
  BY <1>1 DEF CheckerInv
<1> QED
  BY <1>1, <1>4, <1>5, <1>6, <1>7, <1>8, <1>9, <1>10 DEF CheckerInv

LEMMA CheckerStart == ASSUME CheckerInv, StartTuning PROVE CheckerInv'
<1>1. /\ tuning' = TRUE /\ exemptions' = <<>> /\ routed' = {}
      /\ UNCHANGED <<board, added, edits>>
      /\ obs' = NewObs(board) /\ index' = NewIndex(board)
  BY DEF StartTuning, Rebuild
<1>2. InMemory(board)
  BY DEF CheckerInv
<1>3. ObsOK(obs') /\ LiveOf(obs') = BoardObs(ToSet(board'.tracks)) /\ index' = IndexOf(obs', 0)
  BY <1>1, <1>2, NewChecker
<1>4. DOMAIN exemptions' = {}
  BY <1>1
<1> QED
  BY <1>1, <1>3, <1>4 DEF CheckerInv

LEMMA RunIs ==
    ASSUME NEW m \in Meanders
    PROVE  /\ m.run \in Seq(Tracks) /\ m.of \in AllTracks /\ ToSet(m.run) \subseteq Tracks
           /\ \A t \in ToSet(m.run) : t.net = m.of.net
<1>1. IsList(m.run) /\ \A t \in ToSet(m.run) : t.net = m.of.net
  BY CheckerAssumption
<1>2. ToSet(m.run) \subseteq Tracks /\ m.of \in AllTracks
  BY DEF Tracks, AllTracks
<1>3. \A S : ToSet(m.run) \subseteq S => m.run \in Seq(S)
  BY <1>1 DEF IsList
<1> QED
  BY <1>1, <1>2, <1>3

LEMMA CheckerRedraw == ASSUME FreshIds, CheckerInv, NEW m \in Meanders, Redraw(m) PROVE CheckerInv'
<1> DEFINE S == ToSet(m.run)
<1>1. /\ tuning /\ IndexOfNode(board.root, NodeSays(m.of)) # 0
      /\ S \cap ToSet(board.tracks) = {}
      /\ board' = ReplaceTrack(board, m.of, m.run)
      /\ added' = Redrawn(added, m, S \ Stretches(m))
      /\ obs' = NewObs(board') /\ index' = NewIndex(board')
      /\ edits' = edits + 1 /\ UNCHANGED <<tuning, exemptions, routed>>
  BY DEF Redraw, Rebuild
<1>2. /\ m.run \in Seq(Tracks) /\ m.of \in AllTracks /\ S \subseteq AllTracks
      /\ \A t \in S : t.net = m.of.net
  BY RunIs DEF AllTracks
<1>3. IsInjective(m.run) /\ S \cap TracksOfFile = {}
  BY DEF FreshIds
<1>4. InMemory(board)
  BY DEF CheckerInv
<1>5. /\ InMemory(board')
      /\ ToSet(board'.tracks) = (ToSet(board.tracks) \ {m.of}) \cup S
  BY <1>1, <1>2, <1>3, <1>4, ReplacedIn
<1>6. LinesKept(board'.root.items)
  <2>1. PutInPlace(board, board', NodeSays(m.of), m.run)
    BY <1>1, <1>2, <1>4, PutsInPlace
  <2>2. PICK p \in Seq(Node), q \in Seq(Node), x \in Node :
          /\ board.root.items = (p \o <<x>>) \o q
          /\ board'.root.items = (p \o BuiltAll(m.run)) \o q
          /\ x.says = NodeSays(m.of) /\ NodeSays(m.of) \notin SaysIn(p) \cup SaysIn(q)
    BY <2>1 DEF PutInPlace
  <2>3. BuiltAll(m.run) \in Seq(Node) /\ SaysIn(BuiltAll(m.run)) = SaysOf(S)
    BY <1>2, <1>3, BuiltIs
  <2>4. SaysOf(S) \cap Were = {}
    BY <1>2, <1>3, NewSays
  <2>5. LinesKept((p \o <<x>>) \o q) /\ SaysTrack(x.says)
    BY <2>2, SaysTracks DEF CheckerInv
  <2>6. LinesKept((p \o BuiltAll(m.run)) \o q)
    BY <2>2, <2>3, <2>4, <2>5, LinesPut
  <2> QED
    BY <2>2, <2>6
<1>7. ObsOK(obs') /\ LiveOf(obs') = BoardObs(ToSet(board'.tracks)) /\ index' = IndexOf(obs', 0)
  BY <1>1, <1>5, NewChecker
<1>8. added' \subseteq ToSet(board'.tracks) \ TracksOfFile
  <2>1. Stretches(m) \subseteq S
    BY DEF Stretches
  <2> HIDE DEF S
  <2> QED
    BY <1>1, <1>3, <1>5, <2>1 DEF CheckerInv, Redrawn
<1>9. edits' \in Nat /\ edits' # 0
  BY <1>1 DEF CheckerInv
<1>10. DOMAIN exemptions' = {}
  BY <1>1 DEF CheckerInv
<1> QED
  BY <1>1, <1>5, <1>6, <1>7, <1>8, <1>9, <1>10 DEF CheckerInv

LEMMA CheckerStep == ASSUME FreshIds, CheckerInv, [Next]_vars PROVE CheckerInv'
<1>1. CASE UNCHANGED vars
  <2>1. UNCHANGED <<rules, tuning, board, obs, index, exemptions, routed, added, drawn, edits>>
    BY <1>1 DEF vars, chk
  <2> QED
    BY <2>1 DEF CheckerInv, OwnCopper, TracksOfNet
<1>2. CASE Next
  <2>1. ASSUME NEW p \in Paths, Lay(p) \/ Refuse(p) \/ RipUp(p) PROVE CheckerInv'
    BY <2>1, CheckerLay, CheckerRefuse, CheckerRipUp
  <2>2. ASSUME NEW m \in Meanders, Redraw(m) PROVE CheckerInv'
    BY <2>2, CheckerRedraw
  <2> QED
    BY <1>2, <2>1, <2>2, CheckerStart DEF Next
<1> QED
  BY <1>1, <1>2

\* A board that is saved and read again has the tracks it had.
LEMMA SavedIs ==
    ASSUME NEW b, InMemory(b)
    PROVE  LET saved == Save(b) IN
           /\ IsList(saved) /\ DOMAIN saved = DOMAIN b.root.items
           /\ SaysIn(saved) = SaysIn(b.root.items)
           /\ [i \in DOMAIN saved |-> [says |-> saved[i].says, form |-> saved[i].form]] = Text(b.root.items)
           /\ TracksSaid(saved) = ToSet(b.tracks)
<1> DEFINE saved == Save(b)
           items == b.root.items
           sep(i) == IF b.root.dirty THEN AsKiCad ELSE b.root.pre[i]
<1>1. Len(items) \in Nat /\ DOMAIN items = 1 .. Len(items)
  BY DEF InMemory
<1>2. saved = [i \in DOMAIN items |-> [says |-> items[i].says, form |-> FormOf(items[i]), sep |-> sep(i)]]
  BY DEF Save, WriteTree
<1> HIDE DEF saved, sep
<1>3. DOMAIN saved = DOMAIN items /\ \A i \in DOMAIN items : saved[i].says = items[i].says /\ saved[i].form = FormOf(items[i])
  BY <1>2
<1>4. IsList(saved)
  <2>1. saved \in [1 .. Len(items) -> ToSet(saved)]
    BY <1>1, <1>2, <1>3 DEF ToSet
  <2> QED
    BY <1>1, <2>1, FunctionIsList
<1>5. SaysIn(saved) = SaysIn(items)
  <2>1. SaysIn(saved) = {saved[i].says : i \in DOMAIN items}
    BY <1>3 DEF SaysIn, ToSet
  <2>2. SaysIn(items) = {items[i].says : i \in DOMAIN items}
    BY DEF SaysIn, ToSet
  <2> QED
    BY <1>3, <2>1, <2>2
<1>6. [i \in DOMAIN saved |-> [says |-> saved[i].says, form |-> saved[i].form]] = Text(items)
  BY <1>3 DEF Text, LineOf
<1>7. TracksSaid(saved) = ToSet(b.tracks)
  <2>1. TracksSaid(saved) = {TrackOf(w) : w \in SaysOf(ToSet(b.tracks))}
    BY <1>5 DEF TracksSaid, InMemory
  <2>2. \A t \in ToSet(b.tracks) : TrackOf(NodeSays(t)) = t
    BY InList, AllWritten DEF InMemory, KeepsWritten
  <2> QED
    BY <2>1, <2>2 DEF SaysOf
<1> QED
  BY <1>3, <1>4, <1>5, <1>6, <1>7 DEF saved

LEMMA AnswersFollow == ASSUME CheckerInv PROVE AnswersAgree
<1> DEFINE saved == ParseBoard(Save(board))
           net == {t.net : t \in Tracks}
           kept == [obs |-> obs, index |-> index, exempt |-> [n \in net |-> Exempt(n)]]
           fresh == [obs |-> NewObs(saved), index |-> NewIndex(saved),
                     exempt |-> [n \in net |-> OwnCopper(saved, n)]]
           clear(c) == {t \in Tracks : Clear(c.obs, c.index, t, c.exempt[t.net])}
<1>1. InMemory(board) /\ ToSet(board.tracks) \subseteq AllTracks
  BY InList DEF CheckerInv, InMemory
<1>2. /\ ToSet(saved.tracks) = ToSet(board.tracks) /\ saved.tracks \in Seq(AllTracks)
      /\ \A n : TracksOfNet(saved, n) = {t \in ToSet(board.tracks) : t.net = n}
  <2>1. IsList(Save(board)) /\ TracksSaid(Save(board)) = ToSet(board.tracks)
    BY <1>1, SavedIs
  <2>2. /\ ToSet(saved.tracks) = ToSet(board.tracks) /\ IsList(saved.tracks)
        /\ \A n : TracksOfNet(saved, n) = {t \in ToSet(board.tracks) : t.net = n}
    BY <2>1, ParseTracks
  <2> HIDE DEF saved
  <2>3. \A s, S, T : S \subseteq T /\ s \in Seq(S) => s \in Seq(T)
    OBVIOUS
  <2> QED
    BY <1>1, <2>2, <2>3 DEF IsList
<1> HIDE DEF saved
<1>3. \A n : Exempt(n) = OwnCopper(saved, n)
  <2>1. \A n : Exempt(n) = OwnCopper(board, n)
    BY DEF CheckerInv, Exempt
  <2>2. \A n : OwnCopper(board, n) = OwnCopper(saved, n)
    BY <1>1, <1>2, ByNetIs DEF OwnCopper
  <2> QED
    BY <2>1, <2>2
<1>4. /\ ObsOK(obs) /\ index = IndexOf(obs, 0)
      /\ ObsOK(NewObs(saved)) /\ NewIndex(saved) = IndexOf(NewObs(saved), 0)
      /\ LiveOf(obs) = LiveOf(NewObs(saved))
  BY <1>2, NewObsIs DEF CheckerInv, NewIndex
<1>5. ASSUME NEW t \in Tracks, NEW ex PROVE Clear(obs, index, t, ex) <=> Clear(NewObs(saved), NewIndex(saved), t, ex)
  <2>1. Clear(obs, index, t, ex) <=> \A l \in LayersOf(t), x \in LiveOf(obs) : ~TooNear(x, t, l, ex)
    BY <1>4, ClearIs
  <2>2. Clear(NewObs(saved), NewIndex(saved), t, ex) <=>
          \A l \in LayersOf(t), x \in LiveOf(NewObs(saved)) : ~TooNear(x, t, l, ex)
    BY <1>4, ClearIs
  <2> QED
    BY <1>4, <2>1, <2>2
<1>6. \A t \in Tracks : kept.exempt[t.net] = Exempt(t.net) /\ fresh.exempt[t.net] = Exempt(t.net)
  BY <1>3
<1>7. clear(kept) = clear(fresh)
  <2>1. kept.obs = obs /\ kept.index = index /\ fresh.obs = NewObs(saved) /\ fresh.index = NewIndex(saved)
    OBVIOUS
  <2> HIDE DEF kept, fresh
  <2> QED
    BY <1>5, <1>6, <2>1
<1> HIDE DEF kept, fresh, clear
<1>8. [c \in {kept, fresh} |-> clear(c)][kept] = [c \in {kept, fresh} |-> clear(c)][fresh]
  BY <1>7
<1> QED
  BY <1>8 DEF AnswersAgree, kept, fresh, clear, saved, net

LEMMA ChangesShow == ASSUME CheckerInv PROVE OnlyChangesShow
<1> DEFINE saved == Save(board)
           items(text) == [i \in DOMAIN text |-> [says |-> text[i].says, form |-> text[i].form]]
           are == SaysIn(board.root.items)
           T == Text(board.root.items)
<1>1. InMemory(board) /\ LinesKept(board.root.items)
  BY DEF CheckerInv
<1>2. IsList(saved) /\ SaysIn(saved) = are /\ items(saved) = T /\ DOMAIN saved = DOMAIN board.root.items
  BY <1>1, SavedIs
<1>3. T \in Seq(Line) /\ SaysIn(T) = are /\ TextWas \in Seq(Line) /\ SaysIn(TextWas) = Were
  BY <1>1, TextIs, TextWasIs DEF InMemory
<1>4. items(File) = TextWas
  BY DEF TextWas
<1>5. ASSUME NEW s \in Seq(Line), NEW W
      PROVE  Only(s, {n \in ToSet(s) : n.says \in W}) = Only(s, LinesOn(W))
  <2> DEFINE S == {n \in ToSet(s) : n.says \in W}
  <2>1. \A n \in ToSet(s) : n \in S <=> n \in LinesOn(W)
    BY InList DEF LinesOn
  <2> HIDE DEF S
  <2>2. Only(s, S) = Only(s, LinesOn(W))
    BY <2>1, OnlyAgree
  <2> QED
    BY <2>2 DEF S
<1> HIDE DEF saved, T, are, items
<1>6. Only(T, {n \in ToSet(T) : n.says \in Were \cap are}) = Only(TextWas, {n \in ToSet(TextWas) : n.says \in Were \cap are})
  <2>1. Only(T, LinesOn(Were \cap are)) = Only(T, LinesOn(Were))
    BY <1>3, LinesAgree
  <2>2. Only(TextWas, LinesOn(Were \cap are)) = Only(TextWas, LinesOn(are))
    BY <1>3, LinesAgree
  <2>3. Only(T, LinesOn(Were)) = Only(TextWas, LinesOn(are))
    BY <1>1 DEF LinesKept, T, are
  <2>4. /\ Only(T, {n \in ToSet(T) : n.says \in Were \cap are}) = Only(T, LinesOn(Were \cap are))
        /\ Only(TextWas, {n \in ToSet(TextWas) : n.says \in Were \cap are}) = Only(TextWas, LinesOn(Were \cap are))
    BY <1>3, <1>5
  <2> QED
    BY <2>1, <2>2, <2>3, <2>4
<1>7. {File[i].says : i \in DOMAIN File} = Were /\ {saved[i].says : i \in DOMAIN saved} = are
  <2>1. SaysIn(saved) = {saved[i].says : i \in DOMAIN saved}
    BY DEF SaysIn, ToSet
  <2>2. Were = {File[i].says : i \in DOMAIN File}
    BY DEF Were, SaysIn, ToSet
  <2> QED
    BY <1>2, <2>1, <2>2
<1>8. \A says \in Were \ are : SaysTrack(says)
  BY <1>1 DEF LinesKept, are
<1>9. {NodeSays(t) : t \in added} \subseteq are \ Were
  <2>1. added \subseteq ToSet(board.tracks) /\ added \subseteq AllTracks /\ added \cap TracksOfFile = {}
    BY InList DEF CheckerInv, InMemory
  <2>2. SaysOf(added) \cap Were = {}
    BY <2>1, NewSays
  <2>3. SaysOf(added) \subseteq are
    BY <1>1, <2>1 DEF InMemory, SaysOf, TrackSays, are
  <2> QED
    BY <2>2, <2>3 DEF SaysOf
<1>10. ASSUME edits = 0 PROVE saved = File
  <2>1. saved = WriteTree(ReadTree(File))
    BY <1>10 DEF CheckerInv, Save, saved
  <2>2. IsList(File)
    BY CheckerAssumption
  <2>3. Len(File) \in Nat /\ DOMAIN File = 1 .. Len(File) /\ File \in [1 .. Len(File) -> ToSet(File)]
    BY <2>2, ListIs
  <2>4. \A i \in DOMAIN File : File[i] = [says |-> File[i].says, form |-> File[i].form, sep |-> File[i].sep]
    BY CheckerAssumption DEF ToSet
  <2>5. DOMAIN saved = DOMAIN File /\ \A i \in DOMAIN File : saved[i] = File[i]
    BY <2>1, <2>4 DEF WriteTree, ReadTree, FormOf
  <2>6. saved = [i \in DOMAIN File |-> saved[i]]
    BY <2>1, <2>5 DEF WriteTree, ReadTree
  <2> QED
    BY <2>3, <2>5, <2>6
<1>11. /\ Only(items(saved), {n \in ToSet(items(saved)) : n.says \in Were \cap are}) =
            Only(items(File), {n \in ToSet(items(File)) : n.says \in Were \cap are})
  BY <1>2, <1>4, <1>6
<1> QED
  BY <1>7, <1>8, <1>9, <1>10, <1>11 DEF OnlyChangesShow, items, saved

LEMMA CheckerKeepsInv == ASSUME FreshIds PROVE Spec => []CheckerInv
<1>1. Init => CheckerInv
  BY CheckerInit
<1>2. CheckerInv /\ [Next]_vars => CheckerInv'
  BY CheckerStep
<1> QED
  BY <1>1, <1>2, PTL DEF Spec

\* The checker answers after any edits as one built over the board that would be
\* saved (drc.go:306-314), and that file differs from the one that was opened
\* by the tracks that changed and by nothing else (board.go:318-319).  Uuids
\* that name two tracks would break both, and are ruled out here.
THEOREM CheckerFollowsBoard == ASSUME FreshIds PROVE Spec => []FollowsBoard
<1>1. CheckerInv => FollowsBoard
  BY AnswersFollow, ChangesShow DEF FollowsBoard
<1> QED
  BY <1>1, CheckerKeepsInv, PTL

----------------------------------------------------------------------------
(* Distances: what is within reach is found, the search reaches far enough. *)

\* The distance of two boxes is the largest of four differences.
LEMMA ApartBy ==
    ASSUME NEW a, NEW b, IsBox(a), IsBox(b)
    PROVE  /\ Apart(a, b) \in Nat /\ Apart(a, b) = Apart(b, a)
           /\ \A m \in Nat : Apart(a, b) <= m <=> /\ a.x0 - b.x1 <= m /\ b.x0 - a.x1 <= m
                                                  /\ a.y0 - b.y1 <= m /\ b.y0 - a.y1 <= m
           /\ Overlaps(a, b) <=> a.x0 <= b.x1 /\ b.x0 <= a.x1 /\ a.y0 <= b.y1 /\ b.y0 <= a.y1
<1>1. /\ a.x0 \in Int /\ a.x1 \in Int /\ a.y0 \in Int /\ a.y1 \in Int
      /\ b.x0 \in Int /\ b.x1 \in Int /\ b.y0 \in Int /\ b.y1 \in Int
  BY DEF IsBox
<1> DEFINE p == a.x0 - b.x1
           q == b.x0 - a.x1
           r == a.y0 - b.y1
           s == b.y0 - a.y1
<1>2. p \in Int /\ q \in Int /\ r \in Int /\ s \in Int
  BY <1>1
<1>3. /\ Apart(a, b) = Larger(Larger(Larger(p, q), Larger(r, s)), 0)
      /\ Apart(b, a) = Larger(Larger(Larger(q, p), Larger(s, r)), 0)
  BY DEF Apart
<1>4. Overlaps(a, b) <=> Apart(a, b) = 0
  BY DEF Overlaps
<1>5. (p <= 0 <=> a.x0 <= b.x1) /\ (q <= 0 <=> b.x0 <= a.x1) /\ (r <= 0 <=> a.y0 <= b.y1) /\ (s <= 0 <=> b.y0 <= a.y1)
  BY <1>1
<1> HIDE DEF p, q, r, s
<1>6. Apart(a, b) \in Nat /\ Apart(a, b) = Apart(b, a)
  BY <1>2, <1>3 DEF Larger
<1>7. \A m \in Nat : Apart(a, b) <= m <=> p <= m /\ q <= m /\ r <= m /\ s <= m
  BY <1>2, <1>3 DEF Larger
<1>8. Overlaps(a, b) <=> p <= 0 /\ q <= 0 /\ r <= 0 /\ s <= 0
  BY <1>4, <1>6, <1>7
<1> QED
  BY <1>5, <1>6, <1>7, <1>8 DEF p, q, r, s

LEMMA GrownIs ==
    ASSUME NEW a, IsBox(a), NEW m \in Nat
    PROVE  /\ IsBox(Grow(a, m))
           /\ Grow(a, m).x0 = a.x0 - m /\ Grow(a, m).x1 = a.x1 + m
           /\ Grow(a, m).y0 = a.y0 - m /\ Grow(a, m).y1 = a.y1 + m
<1>1. /\ a.x0 \in Int /\ a.x1 \in Int /\ a.y0 \in Int /\ a.y1 \in Int /\ a.x0 <= a.x1 /\ a.y0 <= a.y1
  BY DEF IsBox
<1>2. /\ Grow(a, m).x0 = a.x0 - m /\ Grow(a, m).x1 = a.x1 + m
      /\ Grow(a, m).y0 = a.y0 - m /\ Grow(a, m).y1 = a.y1 + m
  BY DEF Grow, Box
<1>3. Grow(a, m) = Box(Grow(a, m).x0, Grow(a, m).x1, Grow(a, m).y0, Grow(a, m).y1)
  BY <1>2 DEF Grow
<1>4. a.x0 - m <= a.x1 + m /\ a.y0 - m <= a.y1 + m
  BY <1>1
<1> QED
  BY <1>1, <1>2, <1>3, <1>4 DEF IsBox

LEMMA DivGrows == ASSUME NEW a \in Int, NEW b \in Int, NEW d \in Nat \ {0}, a <= b PROVE a \div d <= b \div d
<1> DEFINE p == a \div d
           q == b \div d
<1>1. p \in Int /\ q \in Int /\ d * p <= a /\ b < d * (q + 1)
  OBVIOUS
<1> HIDE DEF p, q
<1>2. SUFFICES ASSUME q + 1 <= p PROVE FALSE
  BY <1>1 DEF p, q
<1>3. d * (q + 1) <= d * p
  BY <1>1, <1>2
<1> QED
  BY <1>1, <1>3

\* What is within reach is found in the cells round a box.
LEMMA FoundNear ==
    ASSUME NEW a, NEW b, IsBox(a), IsBox(b), NEW m \in Nat, Apart(a, b) <= m
    PROVE  CellsOf(b) \cap CellsOf(Grow(a, m)) # {} /\ Overlaps(b, Grow(a, m))
<1> DEFINE g == Grow(a, m)
           x == Larger(b.x0, g.x0)
           y == Larger(b.y0, g.y0)
<1>1. /\ IsBox(g) /\ g.x0 = a.x0 - m /\ g.x1 = a.x1 + m /\ g.y0 = a.y0 - m /\ g.y1 = a.y1 + m
  BY GrownIs
<1>2. /\ a.x0 - b.x1 <= m /\ b.x0 - a.x1 <= m /\ a.y0 - b.y1 <= m /\ b.y0 - a.y1 <= m
  BY ApartBy
<1>3. /\ a.x0 \in Int /\ a.x1 \in Int /\ a.y0 \in Int /\ a.y1 \in Int
      /\ b.x0 \in Int /\ b.x1 \in Int /\ b.y0 \in Int /\ b.y1 \in Int
      /\ b.x0 <= b.x1 /\ b.y0 <= b.y1 /\ a.x0 <= a.x1 /\ a.y0 <= a.y1
  BY DEF IsBox
<1> HIDE DEF g
<1>4. b.x0 <= g.x1 /\ g.x0 <= b.x1 /\ b.y0 <= g.y1 /\ g.y0 <= b.y1
  BY <1>1, <1>2, <1>3
<1>5. Overlaps(b, g)
  BY <1>1, <1>4, ApartBy
<1>6. /\ g.x0 \in Int /\ g.x1 \in Int /\ g.y0 \in Int /\ g.y1 \in Int /\ g.x0 <= g.x1 /\ g.y0 <= g.y1
  BY <1>1 DEF IsBox
<1>7. /\ x \in Int /\ b.x0 <= x /\ x <= b.x1 /\ g.x0 <= x /\ x <= g.x1
      /\ y \in Int /\ b.y0 <= y /\ y <= b.y1 /\ g.y0 <= y /\ y <= g.y1
  BY <1>3, <1>4, <1>6 DEF Larger
<1> HIDE DEF x, y
<1>8. Step \in Nat \ {0}
  BY SpacingAssumption
<1>9. ASSUME NEW lo \in Int, NEW hi \in Int, NEW v \in Int, lo <= v, v <= hi
      PROVE  v \div Step \in (lo \div Step) .. (hi \div Step)
  <2>1. lo \div Step <= v \div Step /\ v \div Step <= hi \div Step
    BY <1>8, <1>9, DivGrows
  <2>2. lo \div Step \in Int /\ v \div Step \in Int /\ hi \div Step \in Int
    BY <1>8
  <2> QED
    BY <2>1, <2>2
<1>10. /\ x \div Step \in (b.x0 \div Step) .. (b.x1 \div Step) /\ x \div Step \in (g.x0 \div Step) .. (g.x1 \div Step)
       /\ y \div Step \in (b.y0 \div Step) .. (b.y1 \div Step) /\ y \div Step \in (g.y0 \div Step) .. (g.y1 \div Step)
  BY <1>3, <1>6, <1>7, <1>9
<1>11. <<x \div Step, y \div Step>> \in CellsOf(b) /\ <<x \div Step, y \div Step>> \in CellsOf(g)
  BY <1>10 DEF CellsOf
<1> QED
  BY <1>5, <1>11 DEF g

----------------------------------------------------------------------------
\* The largest of finitely many numbers.
LEMMA MaxIs ==
    ASSUME NEW S \in SUBSET Int, IsFiniteSet(S), S # {}
    PROVE  Max(S) \in S /\ \A y \in S : y <= Max(S)
<1> DEFINE Has(T) == \E x \in T : \A y \in T : y <= x
           N == {n \in Nat : \A T \in SUBSET Int : IsFiniteSet(T) /\ Cardinality(T) = n /\ T # {} => Has(T)}
<1>1. 0 \in N
  BY FS_EmptySet
<1>2. ASSUME NEW n \in Nat, n \in N PROVE n + 1 \in N
  <2> SUFFICES ASSUME NEW T \in SUBSET Int, IsFiniteSet(T), Cardinality(T) = n + 1, T # {} PROVE Has(T)
    OBVIOUS
  <2>1. PICK z \in T : TRUE
    OBVIOUS
  <2>2. IsFiniteSet(T \ {z}) /\ Cardinality(T \ {z}) = n
    <3>1. IsFiniteSet(T \ {z}) /\ Cardinality(T \ {z}) = Cardinality(T) - 1
      BY <2>1, FS_RemoveElement, Zenon
    <3> QED
      BY <3>1
  <2>3. CASE T \ {z} = {}
    BY <2>1, <2>3
  <2>4. CASE T \ {z} # {}
    <3>1. Has(T \ {z})
      BY <1>2, <2>2, <2>4
    <3>2. PICK x \in T \ {z} : \A y \in T \ {z} : y <= x
      BY <3>1
    <3>3. x \in Int /\ z \in Int
      BY <3>2
    <3>4. CASE z <= x
      BY <3>2, <3>4
    <3>5. CASE ~(z <= x)
      <4>1. \A y \in T : y <= z
        BY <3>2, <3>3, <3>5
      <4> QED
        BY <4>1
    <3> QED
      BY <3>4, <3>5
  <2> QED
    BY <2>3, <2>4
<1> HIDE DEF N
<1>3. Nat \subseteq N
  BY <1>1, <1>2, Counting
<1>4. Cardinality(S) \in Nat
  BY FS_CardinalityType
<1>5. Has(S)
  BY <1>3, <1>4 DEF N
<1> QED
  BY <1>5 DEF Max

LEMMA TableIs == ASSUME NEW f PROVE Table(f) = f
BY DEF Table

\* Copper of one net, as the checker and the rules have it.
Track(t) == t \in AllTracks /\ TypeOf(t.kind) = "Track"

Piece(x, t) == \E l \in LayersOf(t) : x = Obstacle(t.box, l, t.net, t.kind, t.id, "", FALSE)

LEMMA PieceIs ==
    ASSUME NEW t, NEW x, Piece(x, t)
    PROVE  /\ x.layer \in LayersOf(t) /\ x.box = t.box /\ x.net = t.net /\ x.kind = t.kind /\ x.ref = t.id
           /\ x.owner = "" /\ x.edge = FALSE /\ x.dead = FALSE
           /\ ObstacleItem(x) = TrackItem(t)
<1>1. PICK l \in LayersOf(t) : x = Obstacle(t.box, l, t.net, t.kind, t.id, "", FALSE)
  BY DEF Piece
<1>2. /\ x.layer = l /\ x.box = t.box /\ x.net = t.net /\ x.kind = t.kind /\ x.ref = t.id
      /\ x.owner = "" /\ x.edge = FALSE /\ x.dead = FALSE
  BY <1>1 DEF Obstacle
<1> QED
  BY <1>2 DEF ObstacleItem, TrackItem

LEMMA TrackIs ==
    ASSUME NEW t \in AllTracks
    PROVE  /\ IsBox(t.box) /\ CandItem(t.net, t.box) \in Items /\ TrackItem(t) \in Items
           /\ t.kind \in {"track", "via", "arc"}
           /\ CandItem(t.net, t.box).net = t.net
           /\ TypeOf(t.kind) = "Track" => TrackItem(t) = CandItem(t.net, t.box)
<1>1. IsBox(t.box) /\ {CandItem(t.net, t.box), TrackItem(t)} \subseteq Items
  BY SpacingAssumption
<1>2. TrackOf(NodeSays(t)) = t
  BY AllWritten DEF KeepsWritten
<1>3. NodeSays(t).name \in {"via", "arc", "segment"}
  BY DEF NodeSays
<1>4. TrackOf(NodeSays(t)).kind \in {"track", "via", "arc"}
  BY <1>3 DEF TrackOf
<1> QED
  BY <1>1, <1>2, <1>4 DEF CandItem, TrackItem

\* What is on a board: pieces of its tracks, pads, zones, the outline.
LEMMA LiveIs ==
    ASSUME NEW S \in SUBSET AllTracks, NEW x \in BoardObs(S)
    PROVE  /\ (\E t \in S : Piece(x, t)) \/ \E o \in ToSet(Fixed) : /\ x.box = o.box /\ x.net = o.net /\ x.kind = o.kind
                                                                    /\ x.ref = o.ref /\ x.owner = o.owner
           /\ x.edge <=> x.kind = "board-edge"
           /\ ~x.edge => IsBox(x.box) /\ ObstacleItem(x) \in Items /\ ObstacleItem(x).net = x.net
<1>0. ObstacleItem(x).net = x.net
  BY DEF ObstacleItem
<1>1. CASE x \in ObsOfAll(S)
  <2>1. PICK t \in S : x \in PieceObs(t)
    BY <1>1 DEF ObsOfAll
  <2>2. Piece(x, t)
    BY <2>1 DEF PieceObs, Piece
  <2>3. x.box = t.box /\ x.kind = t.kind /\ x.edge = FALSE /\ ObstacleItem(x) = TrackItem(t)
    BY <2>2, PieceIs
  <2> QED
    BY <1>0, <2>2, <2>3, TrackIs
<1>2. CASE x \in FixedObs
  <2>1. PICK i \in DOMAIN Fixed :
          x = Obstacle(Fixed[i].box, Fixed[i].layer, Fixed[i].net, Fixed[i].kind, Fixed[i].ref,
                       Fixed[i].owner, Fixed[i].kind = "board-edge")
    BY <1>2 DEF FixedObs
  <2> DEFINE o == Fixed[i]
             edge == o.kind = "board-edge"
  <2>2. o \in ToSet(Fixed) /\ edge \in BOOLEAN
    BY DEF ToSet
  <2>3. x = Obstacle(o.box, o.layer, o.net, o.kind, o.ref, o.owner, edge)
    BY <2>1
  <2> HIDE DEF edge, o
  <2>4. /\ x.box = o.box /\ x.net = o.net /\ x.kind = o.kind
        /\ x.ref = o.ref /\ x.owner = o.owner /\ x.edge = edge
    BY <2>3 DEF Obstacle
  <2>5. x.edge <=> x.kind = "board-edge"
    BY <2>4 DEF edge
  <2>6. ObstacleItem(x) = ObstacleItem(o)
    BY <2>4 DEF ObstacleItem
  <2>7. ~x.edge => IsBox(x.box) /\ ObstacleItem(x) \in Items
    BY <2>2, <2>4, <2>5, <2>6, SpacingAssumption
  <2> QED
    BY <1>0, <2>2, <2>4, <2>5, <2>7
<1> QED
  BY <1>1, <1>2 DEF BoardObs

----------------------------------------------------------------------------
\* What is required, and how far the checker looks.

LEMMA ClearanceNat == \A i \in Items : ClearanceOf[i.net] \in Nat
<1>1. \A i \in Items : i.net \in {j.net : j \in Items}
  OBVIOUS
<1> QED
  BY <1>1, SpacingAssumption

LEMMA GapsFinite == ASSUME NEW Z, IsFiniteSet(Z) PROVE IsFiniteSet({z.gap : z \in Z})
<1> DEFINE f == [z \in Z |-> z.gap]
<1>1. f \in Surjection(Z, {z.gap : z \in Z})
  BY DEF Surjection
<1> QED
  BY <1>1, FS_Surjection, Zenon

\* The gap of the areas two boxes are both in: every such area gets its own.
LEMMA ZoneIs ==
    ASSUME NEW a, NEW b
    PROVE  /\ ZoneClearance(a, b) \in {0} \cup {z.gap : z \in ClearanceZones}
           /\ ZoneClearance(a, b) \in Nat
           /\ \A z \in ClearanceZones : Overlaps(z.box, a) /\ Overlaps(z.box, b) => ZoneClearance(a, b) >= z.gap
           /\ ZoneClearance(a, b) = ZoneClearance(b, a)
<1> DEFINE Z == {y \in ClearanceZones : Overlaps(y.box, a) /\ Overlaps(y.box, b)}
           G == {0} \cup {z.gap : z \in Z}
<1>1. ClearanceZones \subseteq Zones /\ IsFiniteSet(ClearanceZones) /\ {z.gap : z \in ClearanceZones} \subseteq Nat
  BY SpacingAssumption, FS_EmptySet DEF ClearanceZones
<1>2. IsFiniteSet(Z)
  BY <1>1, FS_Subset
<1>3. IsFiniteSet({z.gap : z \in Z})
  <2> HIDE DEF Z
  <2> QED
    BY <1>2, GapsFinite
<1>4. IsFiniteSet(G) /\ G \in SUBSET Int /\ G # {} /\ G \subseteq Nat
  BY <1>1, <1>3, FS_AddElement
<1>5. ZoneClearance(a, b) = Max(G)
  BY DEF ZoneClearance
<1>6. ZoneClearance(b, a) = Max({0} \cup {z.gap : z \in {y \in ClearanceZones : Overlaps(y.box, b) /\ Overlaps(y.box, a)}})
  BY DEF ZoneClearance
<1>7. Z = {y \in ClearanceZones : Overlaps(y.box, b) /\ Overlaps(y.box, a)}
  OBVIOUS
<1> HIDE DEF G
<1>8. Max(G) \in G /\ \A y \in G : y <= Max(G)
  BY <1>4, MaxIs
<1>9. \A z \in Z : z.gap \in G
  BY DEF G
<1>10. ZoneClearance(a, b) = ZoneClearance(b, a)
  BY <1>5, <1>6, <1>7 DEF G
<1>11. G \subseteq {0} \cup {z.gap : z \in ClearanceZones}
  BY DEF G
<1>12. \A z \in ClearanceZones : Overlaps(z.box, a) /\ Overlaps(z.box, b) => z.gap <= Max(G)
  BY <1>8, <1>9
<1> QED
  BY <1>1, <1>4, <1>5, <1>8, <1>10, <1>11, <1>12

\* SearchMargin is no less than what it is made of.
LEMMA MarginIs ==
    ASSUME NEW net
    PROVE  LET S == {ClearanceOf[net], EdgeClearance, OpenClearance} \cup {z.gap : z \in ClearanceZones} IN
           ClearanceOf[net] \in Nat => SearchMargin(net) \in Nat /\ \A y \in S : y <= SearchMargin(net)
<1> DEFINE S == {ClearanceOf[net], EdgeClearance, OpenClearance} \cup {z.gap : z \in ClearanceZones}
<1> SUFFICES ASSUME ClearanceOf[net] \in Nat PROVE SearchMargin(net) \in Nat /\ \A y \in S : y <= SearchMargin(net)
  OBVIOUS
<1>1. IsFiniteSet(ClearanceZones) /\ {z.gap : z \in ClearanceZones} \subseteq Nat
  BY SpacingAssumption, FS_EmptySet DEF ClearanceZones
<1>2. IsFiniteSet({z.gap : z \in ClearanceZones})
  BY <1>1, GapsFinite
<1>3. {ClearanceOf[net], EdgeClearance, OpenClearance} \subseteq Nat
  BY SpacingAssumption DEF OpenClearance
<1>4. IsFiniteSet({ClearanceOf[net], EdgeClearance, OpenClearance})
  <2>1. IsFiniteSet({ClearanceOf[net]}) /\ IsFiniteSet({EdgeClearance}) /\ IsFiniteSet({OpenClearance})
    BY FS_Singleton
  <2>2. IsFiniteSet({ClearanceOf[net]} \cup {EdgeClearance})
    BY <2>1, FS_Union
  <2>3. IsFiniteSet(({ClearanceOf[net]} \cup {EdgeClearance}) \cup {OpenClearance})
    BY <2>1, <2>2, FS_Union
  <2>4. ({ClearanceOf[net]} \cup {EdgeClearance}) \cup {OpenClearance} = {ClearanceOf[net], EdgeClearance, OpenClearance}
    OBVIOUS
  <2> QED
    BY <2>3, <2>4
<1>5. IsFiniteSet(S) /\ S \in SUBSET Int /\ S \subseteq Nat /\ S # {}
  <2>1. IsFiniteSet(S)
    BY <1>2, <1>4, FS_Union, Zenon
  <2>2. S \subseteq Nat /\ S # {}
    BY <1>1, <1>3
  <2> HIDE DEF S
  <2> QED
    BY <2>1, <2>2
<1>6. SearchMargin(net) = Max(S) + SameNetGap
  BY DEF SearchMargin
<1> HIDE DEF S
<1>7. Max(S) \in Nat /\ \A y \in S : y <= Max(S)
  BY <1>5, MaxIs
<1>8. SameNetGap \in Nat
  BY SpacingAssumption
<1> QED
  BY <1>5, <1>6, <1>7, <1>8

\* The parts of what is required of two nets.
ByClass(a, b) == Larger(ClearanceOf[a.net], ClearanceOf[b.net])
ByClassAndRule(a, b) == ByRule(ByClass(a, b), RuleClearance[rules][a][b])

\* Required, for copper of two nets while the tuner works.
LEMMA RequiredIs ==
    ASSUME rules \in DOMAIN RuleLists, tuning, NEW net, NEW box, NEW x, ~x.edge, x.net # net,
           CandItem(net, box) \in Items, ObstacleItem(x) \in Items
    PROVE  LET a == CandItem(net, box)
               b == ObstacleItem(x)
               byZone == IF PairOf(net, x.net) THEN ByClassAndRule(a, b) ELSE Larger(ByClassAndRule(a, b), ZoneClearance(box, x.box))
               inOpen == /\ ~PairOf(net, x.net)
                         /\ ~AroundComponent(Overlap(Grow(box, OpenGap), Grow(x.box, OpenGap)))
           IN  /\ Required(net, box, x) = IF inOpen THEN Larger(byZone, OpenGap) ELSE byZone
               /\ ByClassAndRule(a, b) \in Nat /\ ByClass(a, b) <= ByClassAndRule(a, b) /\ ByClass(a, b) \in Nat
               /\ a.net = net /\ b.net = x.net
               /\ \/ ByClassAndRule(a, b) = ClearanceOf[a.net] \/ ByClassAndRule(a, b) = ClearanceOf[b.net]
                  \/ ByClassAndRule(a, b) = RuleClearance[rules][a][b]
<1> DEFINE a == CandItem(net, box)
           b == ObstacleItem(x)
<1>1. a.net = net /\ b.net = x.net
  BY DEF CandItem, ObstacleItem
<1>2. ClearanceOf[a.net] \in Nat /\ ClearanceOf[b.net] \in Nat
  BY ClearanceNat
<1>3. RuleClearance[rules][a][b] \in Nat
  BY SpacingAssumption
<1>4. Required(net, box, x) =
        LET byZone == IF PairOf(net, x.net) THEN ByClassAndRule(a, b) ELSE Larger(ByClassAndRule(a, b), ZoneClearance(box, x.box))
            inOpen == /\ ~PairOf(net, x.net)
                      /\ ~AroundComponent(Overlap(Grow(box, OpenGap), Grow(x.box, OpenGap)))
        IN  IF inOpen THEN Larger(byZone, OpenGap) ELSE byZone
  BY <1>1 DEF Required, ByClassAndRule, ByClass, OpenClearance
<1> HIDE DEF a, b
<1>5. ByClass(a, b) \in {ClearanceOf[a.net], ClearanceOf[b.net]} /\ ByClass(a, b) \in Nat
  BY <1>2 DEF ByClass, Larger
<1>6. /\ ByClassAndRule(a, b) \in Nat /\ ByClass(a, b) <= ByClassAndRule(a, b)
      /\ ByClassAndRule(a, b) \in {ByClass(a, b), RuleClearance[rules][a][b]}
  BY <1>3, <1>5 DEF ByClassAndRule, ByRule
<1> QED
  BY <1>1, <1>4, <1>5, <1>6 DEF a, b

\* The tuner looks as far round one net as the property says, which is as far as
\* the open field and the areas ask, and its own class.
LEMMA LooksRound ==
    ASSUME tuning, NEW net, ClearanceOf[net] \in Nat
    PROVE  /\ SearchMargin(net) = LookRound(net) /\ LookRound(net) \in Nat
           /\ ClearanceOf[net] <= LookRound(net) /\ OpenGap <= LookRound(net)
           /\ \A z \in Zones : z.gap <= LookRound(net)
<1>1. OpenClearance = OpenGap /\ ClearanceZones = Zones
  BY DEF OpenClearance, ClearanceZones
<1>2. SearchMargin(net) = LookRound(net)
  BY <1>1 DEF SearchMargin, LookRound
<1>3. /\ SearchMargin(net) \in Nat
      /\ \A y \in {ClearanceOf[net], EdgeClearance, OpenGap} \cup {z.gap : z \in Zones} : y <= SearchMargin(net)
  BY <1>1, MarginIs
<1> QED
  BY <1>2, <1>3

LEMMA ReachIs ==
    ASSUME NEW m, NEW n, LookRound(m) \in Nat, LookRound(n) \in Nat
    PROVE  /\ Reach(m, n) \in Nat /\ Reach(m, n) = Reach(n, m)
           /\ Reach(m, n) <= LookRound(m) /\ Reach(m, n) <= LookRound(n)
  BY DEF Reach, Smaller

LEMMA CoveredBothWays ==
    ASSUME NEW m, NEW n, LookRound(m) \in Nat, LookRound(n) \in Nat,
           ClearanceOf[m] \in Nat, ClearanceOf[n] \in Nat, Covered(m, n)
    PROVE  Covered(n, m)
<1>1. Reach(m, n) = Reach(n, m)
  BY ReachIs
<1>2. Larger(ClearanceOf[m], ClearanceOf[n]) = Larger(ClearanceOf[n], ClearanceOf[m])
  BY DEF Larger
<1>3. {m, n} = {n, m}
  OBVIOUS
<1> QED
  BY <1>1, <1>2, <1>3 DEF Covered

\* Where nothing asks for more than that, the search reaches as far as anything
\* is required.
LEMMA MarginReaches ==
    ASSUME rules \in DOMAIN RuleLists, tuning, NEW net, NEW box, NEW x, ~x.edge, x.net # net, Covered(net, x.net),
           CandItem(net, box) \in Items, ObstacleItem(x) \in Items
    PROVE  SearchMargin(net) \in Nat /\ Required(net, box, x) \in Nat /\ Required(net, box, x) <= SearchMargin(net)
<1> DEFINE a == CandItem(net, box)
           b == ObstacleItem(x)
           r == ByClassAndRule(a, b)
           z == ZoneClearance(box, x.box)
           m == SearchMargin(net)
<1>1. a.net = net /\ b.net = x.net /\ a \in Items /\ b \in Items
  BY DEF CandItem, ObstacleItem
<1>2. ClearanceOf[net] \in Nat
  BY <1>1, ClearanceNat
<1>3. OpenClearance = OpenGap /\ ClearanceZones = Zones /\ OpenGap \in Nat
  BY SpacingAssumption DEF OpenClearance, ClearanceZones
<1>4. m \in Nat /\ ClearanceOf[net] <= m /\ OpenGap <= m /\ \A y \in {y.gap : y \in Zones} : y <= m
  BY <1>2, <1>3, MarginIs
<1>5. Reach(a.net, b.net) \in Nat /\ Reach(a.net, b.net) <= m
  <2>1. ClearanceOf[b.net] \in Nat
    BY <1>1, ClearanceNat
  <2>2. m = LookRound(net) /\ LookRound(net) \in Nat /\ LookRound(b.net) \in Nat
    <3> HIDE DEF a, b
    <3> QED
      BY <1>2, <2>1, LooksRound DEF m
  <2> HIDE DEF a, b, m
  <2> QED
    BY <1>1, <2>2, ReachIs
<1>6. ClearanceOf[b.net] <= m /\ RuleClearance[rules][a][b] <= m
  <2>1. Covered(a.net, b.net)
    BY <1>1
  <2>2. ClearanceOf[a.net] \in Nat /\ ClearanceOf[b.net] \in Nat /\ RuleClearance[rules][a][b] \in Nat
    BY <1>1, ClearanceNat, SpacingAssumption
  <2> HIDE DEF a, b, m
  <2>3. RuleClearance[rules][a][b] <= Reach(a.net, b.net)
    BY <1>1, <2>1 DEF Covered
  <2>4. ClearanceOf[b.net] <= Reach(a.net, b.net)
    BY <1>5, <2>1, <2>2 DEF Covered, Larger
  <2> QED
    BY <1>4, <1>5, <2>2, <2>3, <2>4
<1>7. r \in Nat /\ r <= m
  <2> HIDE DEF m
  <2>1. /\ ByClassAndRule(a, b) \in Nat
        /\ \/ ByClassAndRule(a, b) = ClearanceOf[a.net] \/ ByClassAndRule(a, b) = ClearanceOf[b.net]
           \/ ByClassAndRule(a, b) = RuleClearance[rules][a][b]
    BY RequiredIs
  <2> QED
    BY <1>1, <1>4, <1>6, <2>1
<1>8. z \in Nat /\ z <= m
  <2>1. z \in Nat /\ z \in {0} \cup {y.gap : y \in Zones}
    BY <1>3, ZoneIs
  <2> HIDE DEF z, m
  <2> QED
    BY <1>4, <2>1
<1>9. Required(net, box, x) \in {r, Larger(r, z), Larger(r, OpenGap), Larger(Larger(r, z), OpenGap)}
  BY RequiredIs
<1> HIDE DEF r, z, m
<1>10. Required(net, box, x) \in Nat /\ Required(net, box, x) <= m
  BY <1>3, <1>4, <1>7, <1>8, <1>9 DEF Larger
<1> QED
  BY <1>4, <1>10 DEF m

\* Two boxes grown by what is asked for in the open share a place when they are
\* nearer than that on both sides.
LEMMA GrownMeet ==
    ASSUME NEW a, NEW b, IsBox(a), IsBox(b), NEW g \in Nat
    PROVE  /\ Overlaps(Grow(a, g), Grow(b, g)) <=> Apart(a, b) <= 2 * g
           /\ Overlaps(Grow(a, g), Grow(b, g)) =>
                LET o == Overlap(Grow(a, g), Grow(b, g)) IN
                /\ o = Overlap(Grow(b, g), Grow(a, g))
                /\ IsBox(o)
                /\ a.x0 - g <= o.x0 /\ o.x1 <= a.x1 + g /\ a.y0 - g <= o.y0 /\ o.y1 <= a.y1 + g
                /\ b.x0 - g <= o.x0 /\ o.x1 <= b.x1 + g /\ b.y0 - g <= o.y0 /\ o.y1 <= b.y1 + g
<1> DEFINE p == Grow(a, g)
           q == Grow(b, g)
           o == Overlap(p, q)
<1>1. /\ IsBox(p) /\ p.x0 = a.x0 - g /\ p.x1 = a.x1 + g /\ p.y0 = a.y0 - g /\ p.y1 = a.y1 + g
      /\ IsBox(q) /\ q.x0 = b.x0 - g /\ q.x1 = b.x1 + g /\ q.y0 = b.y0 - g /\ q.y1 = b.y1 + g
  BY GrownIs
<1>2. /\ a.x0 \in Int /\ a.x1 \in Int /\ a.y0 \in Int /\ a.y1 \in Int
      /\ b.x0 \in Int /\ b.x1 \in Int /\ b.y0 \in Int /\ b.y1 \in Int
      /\ a.x0 <= a.x1 /\ a.y0 <= a.y1 /\ b.x0 <= b.x1 /\ b.y0 <= b.y1
  BY DEF IsBox
<1> HIDE DEF p, q
<1>3. Overlaps(p, q) <=> p.x0 <= q.x1 /\ q.x0 <= p.x1 /\ p.y0 <= q.y1 /\ q.y0 <= p.y1
  BY <1>1, ApartBy
<1>4. 2 * g \in Nat
  OBVIOUS
<1>5. Apart(a, b) <= 2 * g <=> /\ a.x0 - b.x1 <= 2 * g /\ b.x0 - a.x1 <= 2 * g
                               /\ a.y0 - b.y1 <= 2 * g /\ b.y0 - a.y1 <= 2 * g
  BY <1>4, ApartBy
<1>6. Overlaps(p, q) <=> Apart(a, b) <= 2 * g
  BY <1>1, <1>2, <1>3, <1>5
<1>7. Overlaps(q, p) <=> Overlaps(p, q)
  BY <1>1, ApartBy DEF Overlaps
<1>8. ASSUME Overlaps(p, q)
      PROVE  /\ o = Overlap(q, p) /\ IsBox(o)
             /\ a.x0 - g <= o.x0 /\ o.x1 <= a.x1 + g /\ a.y0 - g <= o.y0 /\ o.y1 <= a.y1 + g
             /\ b.x0 - g <= o.x0 /\ o.x1 <= b.x1 + g /\ b.y0 - g <= o.y0 /\ o.y1 <= b.y1 + g
  <2> DEFINE x0 == Larger(p.x0, q.x0)
             x1 == Smaller(p.x1, q.x1)
             y0 == Larger(p.y0, q.y0)
             y1 == Smaller(p.y1, q.y1)
  <2>1. /\ p.x0 \in Int /\ p.x1 \in Int /\ p.y0 \in Int /\ p.y1 \in Int
        /\ q.x0 \in Int /\ q.x1 \in Int /\ q.y0 \in Int /\ q.y1 \in Int
    BY <1>1 DEF IsBox
  <2>2. o = Box(x0, x1, y0, y1)
    BY <1>8 DEF Overlap
  <2>3. Overlap(q, p) = Box(Larger(q.x0, p.x0), Smaller(q.x1, p.x1), Larger(q.y0, p.y0), Smaller(q.y1, p.y1))
    BY <1>7, <1>8 DEF Overlap
  <2>4. /\ Larger(q.x0, p.x0) = x0 /\ Smaller(q.x1, p.x1) = x1 /\ Larger(q.y0, p.y0) = y0 /\ Smaller(q.y1, p.y1) = y1
    BY <2>1 DEF Larger, Smaller
  <2>5. /\ x0 \in Int /\ x1 \in Int /\ y0 \in Int /\ y1 \in Int /\ x0 <= x1 /\ y0 <= y1
        /\ p.x0 <= x0 /\ x1 <= p.x1 /\ p.y0 <= y0 /\ y1 <= p.y1
        /\ q.x0 <= x0 /\ x1 <= q.x1 /\ q.y0 <= y0 /\ y1 <= q.y1
    <3>1. p.x0 <= p.x1 /\ p.y0 <= p.y1 /\ q.x0 <= q.x1 /\ q.y0 <= q.y1
      BY <1>1 DEF IsBox
    <3> QED
      BY <1>3, <1>8, <2>1, <3>1 DEF Larger, Smaller
  <2> HIDE DEF x0, x1, y0, y1, o
  <2>6. o.x0 = x0 /\ o.x1 = x1 /\ o.y0 = y0 /\ o.y1 = y1
    BY <2>2 DEF Box
  <2>7. IsBox(o)
    BY <2>2, <2>5, <2>6 DEF IsBox
  <2>8. o = Overlap(q, p)
    BY <2>2, <2>3, <2>4
  <2>9. /\ a.x0 - g <= o.x0 /\ o.x1 <= a.x1 + g /\ a.y0 - g <= o.y0 /\ o.y1 <= a.y1 + g
        /\ b.x0 - g <= o.x0 /\ o.x1 <= b.x1 + g /\ b.y0 - g <= o.y0 /\ o.y1 <= b.y1 + g
    BY <1>1, <2>5, <2>6
  <2> QED
    BY <2>7, <2>8, <2>9
<1> QED
  BY <1>6, <1>8 DEF p, q

\* A custom rule asks the same of two items in either order.
LEMMA RuleBothWays == \A l \in DOMAIN RuleLists, a, b \in Items : RuleClearance[l][a][b] = RuleClearance[l][b][a]
<1> SUFFICES ASSUME NEW l \in DOMAIN RuleLists, NEW a \in Items, NEW b \in Items
             PROVE  RuleClearance[l][a][b] = RuleClearance[l][b][a]
  OBVIOUS
<1> DEFINE read == Read(RuleLists[l])
<1>1. RuleClearance = [k \in DOMAIN RuleLists |-> ByRules(RuleLists[k])]
  BY TableIs DEF RuleClearance
<1>2. ByRules(RuleLists[l]) = [c \in Items |-> Table([d \in Items |-> ClearanceFor(read, c, d)])]
  BY TableIs DEF ByRules
<1>3. RuleClearance[l][a][b] = ClearanceFor(read, a, b) /\ RuleClearance[l][b][a] = ClearanceFor(read, b, a)
  <2>1. RuleClearance[l] = ByRules(RuleLists[l])
    BY <1>1
  <2> DEFINE row(c) == [d \in Items |-> ClearanceFor(read, c, d)]
  <2> HIDE DEF read
  <2>2. \A c \in Items : Table(row(c)) = row(c)
    BY TableIs
  <2>3. \A c \in Items : row(c)[a] = ClearanceFor(read, c, a) /\ row(c)[b] = ClearanceFor(read, c, b)
    OBVIOUS
  <2>4. ByRules(RuleLists[l]) = [c \in Items |-> Table(row(c))]
    BY <1>2
  <2> HIDE DEF row
  <2>5. ByRules(RuleLists[l])[a] = row(a) /\ ByRules(RuleLists[l])[b] = row(b)
    BY <2>2, <2>4
  <2> QED
    BY <2>1, <2>3, <2>5
<1>4. {a, b} = {b, a}
  OBVIOUS
<1>5. ClearanceFor(read, a, b) = ClearanceFor(read, b, a)
  <2> HIDE DEF read
  <2> QED
    BY <1>4 DEF ClearanceFor
<1> QED
  BY <1>3, <1>5

\* Enough room for one of two pieces of copper is enough for the other.
Room(t, x) == Apart(t.box, x.box) >= Required(t.net, t.box, x)

LEMMA RoomBothWays ==
    ASSUME rules \in DOMAIN RuleLists, tuning, NEW t, NEW u, Track(t), Track(u), t.net # u.net,
           NEW x, Piece(x, u), NEW y, Piece(y, t), Room(t, x)
    PROVE  Room(u, y)
<1> DEFINE a == TrackItem(t)
           b == TrackItem(u)
           r == ByClassAndRule(a, b)
           z == ZoneClearance(t.box, u.box)
           d == Apart(t.box, u.box)
           pair == PairOf(t.net, u.net)
           near == Overlap(Grow(t.box, OpenGap), Grow(u.box, OpenGap))
           near2 == Overlap(Grow(u.box, OpenGap), Grow(t.box, OpenGap))
           byZone == IF pair THEN r ELSE Larger(r, z)
           open == ~pair /\ ~AroundComponent(near)
           open2 == ~pair /\ ~AroundComponent(near2)
<1>1. /\ IsBox(t.box) /\ IsBox(u.box) /\ a \in Items /\ b \in Items
      /\ CandItem(t.net, t.box) = a /\ CandItem(u.net, u.box) = b
  BY TrackIs DEF Track
<1>2. /\ x.edge = FALSE /\ x.net = u.net /\ x.box = u.box /\ ObstacleItem(x) = b
      /\ y.edge = FALSE /\ y.net = t.net /\ y.box = t.box /\ ObstacleItem(y) = a
  BY PieceIs
<1>3. OpenGap \in Nat
  BY SpacingAssumption
<1>4. PairOf(u.net, t.net) <=> pair
  BY DEF PairOf
<1>5. ZoneClearance(u.box, t.box) = z /\ z \in Nat
  BY ZoneIs
<1>6. ByClassAndRule(b, a) = r
  <2>1. ByClass(a, b) = ByClass(b, a)
    <3>1. ClearanceOf[a.net] \in Nat /\ ClearanceOf[b.net] \in Nat
      BY <1>1, ClearanceNat
    <3> HIDE DEF a, b
    <3> QED
      BY <3>1 DEF ByClass, Larger
  <2>2. RuleClearance[rules][a][b] = RuleClearance[rules][b][a]
    BY <1>1, RuleBothWays
  <2> QED
    BY <2>1, <2>2 DEF ByClassAndRule
<1>7. d \in Nat /\ Apart(u.box, t.box) = d
  BY <1>1, ApartBy
<1>8. /\ Required(t.net, t.box, x) = IF open THEN Larger(byZone, OpenGap) ELSE byZone
      /\ r \in Nat
  <2>1. x.net # t.net
    BY <1>2
  <2> QED
    BY <1>1, <1>2, <2>1, RequiredIs
<1>9. Required(u.net, u.box, y) = IF open2 THEN Larger(byZone, OpenGap) ELSE byZone
  <2>1. y.net # u.net
    BY <1>2
  <2> QED
    BY <1>1, <1>2, <1>4, <1>5, <1>6, <2>1, RequiredIs
<1>10. d <= 2 * OpenGap => near = near2
  BY <1>1, <1>3, GrownMeet
<1>11. byZone \in Nat
  BY <1>5, <1>8 DEF Larger
<1>12. d >= (IF open THEN Larger(byZone, OpenGap) ELSE byZone)
  BY <1>2, <1>8 DEF Room
<1> HIDE DEF byZone, r, z, d, near, near2, pair, a, b
<1>13. d >= (IF open2 THEN Larger(byZone, OpenGap) ELSE byZone)
  <2>1. CASE d <= 2 * OpenGap
    BY <1>10, <1>12, <2>1
  <2>2. CASE ~(d <= 2 * OpenGap)
    <3>1. d >= OpenGap
      BY <1>3, <1>7, <2>2
    <3>2. d >= byZone
      BY <1>3, <1>7, <1>11, <1>12 DEF Larger
    <3> QED
      BY <1>3, <1>7, <1>11, <3>1, <3>2 DEF Larger
  <2> QED
    BY <2>1, <2>2
<1> QED
  BY <1>2, <1>7, <1>9, <1>13 DEF Room, d

\* The space the classes and the areas ask for, as far as both nets look round.
Space(t, x) ==
    /\ \/ Apart(t.box, x.box) >= Larger(ClearanceOf[t.net], ClearanceOf[x.net])
       \/ Apart(t.box, x.box) > Reach(t.net, x.net)
    /\ \/ PairOf(t.net, x.net)
       \/ \A z \in Zones : Overlaps(z.box, t.box) /\ Overlaps(z.box, x.box) => Apart(t.box, x.box) >= z.gap

LEMMA SpaceBothWays ==
    ASSUME tuning, NEW t, NEW u, Track(t), Track(u), NEW x, Piece(x, u), NEW y, Piece(y, t), Space(t, x)
    PROVE  Space(u, y)
<1>1. IsBox(t.box) /\ IsBox(u.box) /\ ClearanceOf[t.net] \in Nat /\ ClearanceOf[u.net] \in Nat
  BY TrackIs, ClearanceNat DEF Track
<1>2. x.net = u.net /\ x.box = u.box /\ y.net = t.net /\ y.box = t.box
  BY PieceIs
<1>3. Apart(u.box, t.box) = Apart(t.box, u.box)
  BY <1>1, ApartBy
<1>4. Reach(u.net, t.net) = Reach(t.net, u.net)
  BY <1>1, LooksRound, ReachIs
<1>5. Larger(ClearanceOf[u.net], ClearanceOf[t.net]) = Larger(ClearanceOf[t.net], ClearanceOf[u.net])
  BY <1>1 DEF Larger
<1>6. PairOf(u.net, t.net) <=> PairOf(t.net, u.net)
  BY DEF PairOf
<1> QED
  BY <1>2, <1>3, <1>4, <1>5, <1>6 DEF Space

\* What is left of a track has the space the track had.
LEMMA SpaceWithin ==
    ASSUME tuning, NEW t, NEW s, Track(t), Track(s), s.net = t.net, Within(s.box, t.box),
           NEW x, IsBox(x.box), ClearanceOf[x.net] \in Nat, Space(t, x)
    PROVE  Space(s, x)
<1> DEFINE d == Apart(t.box, x.box)
           e == Apart(s.box, x.box)
           need == Larger(ClearanceOf[t.net], ClearanceOf[x.net])
<1>1. IsBox(t.box) /\ IsBox(s.box) /\ ClearanceOf[t.net] \in Nat
  BY TrackIs, ClearanceNat DEF Track
<1>2. d \in Nat /\ e \in Nat
  BY <1>1, ApartBy
<1>3. ASSUME NEW b, IsBox(b) PROVE Apart(t.box, b) <= Apart(s.box, b)
  <2> DEFINE A == t.box
             B == s.box
  <2>1. /\ IsBox(A) /\ IsBox(B)
        /\ A.x0 <= B.x0 /\ B.x1 <= A.x1 /\ A.y0 <= B.y0 /\ B.y1 <= A.y1
    BY <1>1 DEF Within
  <2> HIDE DEF A, B
  <2>2. Apart(B, b) \in Nat /\ Apart(A, b) \in Nat
    BY <1>3, <2>1, ApartBy
  <2> DEFINE k == Apart(B, b)
  <2>3. B.x0 - b.x1 <= k /\ b.x0 - B.x1 <= k /\ B.y0 - b.y1 <= k /\ b.y0 - B.y1 <= k
    BY <1>3, <2>1, <2>2, ApartBy
  <2> HIDE DEF k
  <2>4. k \in Nat
    BY <2>2 DEF k
  <2>5. /\ A.x0 \in Int /\ A.x1 \in Int /\ A.y0 \in Int /\ A.y1 \in Int
        /\ B.x0 \in Int /\ B.x1 \in Int /\ B.y0 \in Int /\ B.y1 \in Int
        /\ b.x0 \in Int /\ b.x1 \in Int /\ b.y0 \in Int /\ b.y1 \in Int
    BY <1>3, <2>1 DEF IsBox
  <2>6. A.x0 - b.x1 <= k /\ b.x0 - A.x1 <= k /\ A.y0 - b.y1 <= k /\ b.y0 - A.y1 <= k
    BY <2>1, <2>3, <2>4, <2>5
  <2>7. Apart(A, b) <= k
    BY <1>3, <2>1, <2>4, <2>6, ApartBy
  <2> QED
    BY <2>7 DEF k, A, B
<1>4. d <= e
  BY <1>3
<1>5. LookRound(t.net) \in Nat /\ LookRound(x.net) \in Nat
  BY <1>1, LooksRound
<1>6. Reach(t.net, x.net) \in Nat /\ need \in Nat
  BY <1>1, <1>5, ReachIs DEF Larger
<1>7. \A z \in Zones : Overlaps(z.box, s.box) => Overlaps(z.box, t.box)
  <2>1. SUFFICES ASSUME NEW z \in Zones, Overlaps(z.box, s.box) PROVE Overlaps(z.box, t.box)
    OBVIOUS
  <2>2. IsBox(z.box)
    BY SpacingAssumption
  <2>3. Apart(t.box, z.box) <= Apart(s.box, z.box)
    BY <1>3, <2>2
  <2>4. /\ Apart(t.box, z.box) = Apart(z.box, t.box) /\ Apart(s.box, z.box) = Apart(z.box, s.box)
        /\ Apart(t.box, z.box) \in Nat
    BY <1>1, <2>2, ApartBy
  <2> QED
    BY <2>1, <2>3, <2>4 DEF Overlaps
<1>8. \A z \in Zones : z.gap \in Nat
  BY SpacingAssumption
<1>9. /\ d >= need \/ d > Reach(t.net, x.net)
      /\ PairOf(t.net, x.net) \/ \A z \in Zones : Overlaps(z.box, t.box) /\ Overlaps(z.box, x.box) => d >= z.gap
  BY DEF Space
<1> HIDE DEF d, e, need
<1>10. e >= need \/ e > Reach(t.net, x.net)
  BY <1>2, <1>4, <1>6, <1>9
<1>11. PairOf(t.net, x.net) \/ \A z \in Zones : Overlaps(z.box, s.box) /\ Overlaps(z.box, x.box) => e >= z.gap
  BY <1>2, <1>4, <1>7, <1>8, <1>9
<1> QED
  BY <1>10, <1>11 DEF Space, e, need

\* What the tuner drew, and what each piece of it was found to have.
HasSpace(t, x) == ~x.edge /\ x.layer \in LayersOf(t) /\ x.net # t.net => Space(t, x)

HasRoom(t, x) == ~x.edge /\ x.layer \in LayersOf(t) /\ x.net # t.net /\ Covered(t.net, x.net) => Room(t, x)

SpacingInv ==
    /\ rules \in DOMAIN RuleLists
    /\ drawn \subseteq ToSet(board.tracks)
    /\ \A t \in drawn : Track(t)
    /\ ~tuning => drawn = {}
    /\ \A t \in drawn, x \in LiveOf(obs) : HasSpace(t, x) /\ HasRoom(t, x)

\* The room required is what the property asks for.
LEMMA RoomIsSpacing == ASSUME CheckerInv, SpacingInv PROVE SpacingKept
<1> SUFFICES ASSUME NEW p \in NewPairs(drawn)
             PROVE  LET t == p[1]
                        o == obs[p[2]]
                        d == Apart(t.box, o.box)
                    IN  /\ d >= Larger(ClearanceOf[t.net], ClearanceOf[o.net]) \/ d > Reach(t.net, o.net)
                        /\ \/ PairOf(t.net, o.net)
                           \/ /\ \A z \in Zones : Overlaps(z.box, t.box) /\ Overlaps(z.box, o.box) => d >= z.gap
                              /\ \/ d >= OpenGap
                                 \/ \E c \in Components : Apart(c, t.box) <= OpenMargin + OpenGap
                                                         /\ Apart(c, o.box) <= OpenMargin + OpenGap
                                 \/ ~Covered(t.net, o.net)
  BY DEF SpacingKept
<1> DEFINE t == p[1]
           o == obs[p[2]]
           d == Apart(t.box, o.box)
           a == CandItem(t.net, t.box)
           b == ObstacleItem(o)
           z0 == ZoneClearance(t.box, o.box)
           r == ByClassAndRule(a, b)
           near == Overlap(Grow(t.box, OpenGap), Grow(o.box, OpenGap))
<1>1. t \in drawn /\ o \in LiveOf(obs) /\ ~o.edge /\ o.layer \in LayersOf(t) /\ o.net # t.net
  BY DEF NewPairs, LiveOf, ToSet
<1>2. tuning /\ Space(t, o) /\ Track(t) /\ (Covered(t.net, o.net) => Room(t, o))
  BY <1>1 DEF SpacingInv, HasRoom, HasSpace
<1>3. IsBox(t.box) /\ a \in Items /\ a.net = t.net
  BY <1>2, TrackIs DEF Track
<1>4. ToSet(board.tracks) \in SUBSET AllTracks /\ LiveOf(obs) = BoardObs(ToSet(board.tracks))
  BY InList DEF CheckerInv, InMemory
<1>5. IsBox(o.box) /\ b \in Items /\ b.net = o.net
  BY <1>1, <1>4, LiveIs
<1>6. d \in Nat
  BY <1>3, <1>5, ApartBy
<1> DEFINE byZone == IF PairOf(t.net, o.net) THEN r ELSE Larger(r, z0)
           open == ~PairOf(t.net, o.net) /\ ~AroundComponent(near)
<1>7. /\ Required(t.net, t.box, o) = IF open THEN Larger(byZone, OpenGap) ELSE byZone
      /\ r \in Nat /\ ByClass(a, b) <= r /\ ByClass(a, b) \in Nat
  <2>1. rules \in DOMAIN RuleLists
    BY DEF SpacingInv
  <2> HIDE DEF o, t
  <2> QED
    BY <1>1, <1>2, <1>3, <1>5, <2>1, RequiredIs
<1>8. ClearanceZones = Zones /\ OpenGap \in Nat /\ OpenMargin \in Nat
  BY <1>2, SpacingAssumption DEF ClearanceZones
<1>9. z0 \in Nat
  BY <1>8, ZoneIs
<1>10. Covered(t.net, o.net) => d >= Required(t.net, t.box, o)
  BY <1>2 DEF Room
<1>12. ASSUME NEW c \in Components, Overlaps(Grow(c, OpenMargin), near), d <= 2 * OpenGap
       PROVE  Apart(c, t.box) <= OpenMargin + OpenGap /\ Apart(c, o.box) <= OpenMargin + OpenGap
  <2> DEFINE A == t.box
             B == o.box
             k == Grow(c, OpenMargin)
  <2>1. IsBox(c) /\ IsBox(A) /\ IsBox(B)
    BY <1>3, <1>5, SpacingAssumption
  <2> HIDE DEF A, B, t, o, k
  <2>2. /\ IsBox(near)
        /\ A.x0 - OpenGap <= near.x0 /\ near.x1 <= A.x1 + OpenGap /\ A.y0 - OpenGap <= near.y0 /\ near.y1 <= A.y1 + OpenGap
        /\ B.x0 - OpenGap <= near.x0 /\ near.x1 <= B.x1 + OpenGap /\ B.y0 - OpenGap <= near.y0 /\ near.y1 <= B.y1 + OpenGap
    BY <1>8, <1>12, <2>1, GrownMeet DEF A, B
  <2> HIDE DEF near
  <2>3. /\ IsBox(k) /\ k.x0 = c.x0 - OpenMargin /\ k.x1 = c.x1 + OpenMargin
        /\ k.y0 = c.y0 - OpenMargin /\ k.y1 = c.y1 + OpenMargin
    BY <1>8, <2>1, GrownIs DEF k
  <2>4. k.x0 <= near.x1 /\ near.x0 <= k.x1 /\ k.y0 <= near.y1 /\ near.y0 <= k.y1
    BY <1>12, <2>2, <2>3, ApartBy DEF k
  <2>5. /\ near.x0 \in Int /\ near.x1 \in Int /\ near.y0 \in Int /\ near.y1 \in Int
        /\ c.x0 \in Int /\ c.x1 \in Int /\ c.y0 \in Int /\ c.y1 \in Int
        /\ A.x0 \in Int /\ A.x1 \in Int /\ A.y0 \in Int /\ A.y1 \in Int
        /\ B.x0 \in Int /\ B.x1 \in Int /\ B.y0 \in Int /\ B.y1 \in Int
    BY <2>1, <2>2 DEF IsBox
  <2>6. OpenMargin + OpenGap \in Nat
    BY <1>8
  <2>7. Apart(c, A) <= OpenMargin + OpenGap
    <3>1. /\ c.x0 - A.x1 <= OpenMargin + OpenGap /\ A.x0 - c.x1 <= OpenMargin + OpenGap
          /\ c.y0 - A.y1 <= OpenMargin + OpenGap /\ A.y0 - c.y1 <= OpenMargin + OpenGap
      BY <1>8, <2>2, <2>3, <2>4, <2>5
    <3> QED
      BY <2>1, <2>6, <3>1, ApartBy
  <2>8. Apart(c, B) <= OpenMargin + OpenGap
    <3>1. /\ c.x0 - B.x1 <= OpenMargin + OpenGap /\ B.x0 - c.x1 <= OpenMargin + OpenGap
          /\ c.y0 - B.y1 <= OpenMargin + OpenGap /\ B.y0 - c.y1 <= OpenMargin + OpenGap
      BY <1>8, <2>2, <2>3, <2>4, <2>5
    <3> QED
      BY <2>1, <2>6, <3>1, ApartBy
  <2> QED
    BY <2>7, <2>8 DEF A, B
<1>13. AroundComponent(near) => \E c \in Components : Overlaps(Grow(c, OpenMargin), near)
  BY DEF AroundComponent
<1> DEFINE pair == PairOf(t.net, o.net)
<1>15. open /\ Covered(t.net, o.net) => OpenGap <= d
  <2> HIDE DEF r, z0, d, near
  <2> QED
    BY <1>6, <1>7, <1>8, <1>9, <1>10 DEF Larger
<1>16. d >= OpenGap \/ d <= 2 * OpenGap
  BY <1>6, <1>8
<1>17. \/ pair \/ d >= OpenGap \/ ~Covered(t.net, o.net)
       \/ \E c \in Components : Apart(c, t.box) <= OpenMargin + OpenGap /\ Apart(c, o.box) <= OpenMargin + OpenGap
  <2>1. CASE pair \/ ~Covered(t.net, o.net)
    BY <2>1
  <2>2. CASE d >= OpenGap \/ (open /\ Covered(t.net, o.net))
    BY <1>6, <1>8, <1>15, <2>2
  <2>3. CASE ~(open \/ pair) /\ ~(d >= OpenGap)
    <3>1. PICK c \in Components : Overlaps(Grow(c, OpenMargin), near)
      BY <1>13, <2>3
    <3> QED
      BY <1>12, <1>16, <2>3, <3>1
  <2> QED
    BY <2>1, <2>2, <2>3
<1> QED
  BY <1>2, <1>17 DEF Space

----------------------------------------------------------------------------
\* What a redraw looks at.

\* Copper of another net is never among what a redraw is let off.
LEMMA NotExempt ==
    ASSUME FreshIds, CheckerInv, NEW u \in AllTracks, NEW x \in LiveOf(obs), ~x.edge, x.net # u.net
    PROVE  x.ref \notin ExemptFor(u)
<1> DEFINE S == ToSet(board.tracks)
<1>1. InMemory(board) /\ S \in SUBSET AllTracks /\ x \in BoardObs(S)
  BY InList DEF CheckerInv, InMemory
<1>2. TracksOfNet(board, u.net) = {t \in S : t.net = u.net}
  BY <1>1, ByNetIs
<1>3. SUFFICES ASSUME x.ref \in ExemptFor(u) PROVE FALSE
  OBVIOUS
<1>4. (\E t \in S : t.net = u.net /\ x.ref = t.id) \/ x.ref \in PadsOfNet(u.net)
  BY <1>2, <1>3 DEF ExemptFor
<1>5. x.ref \in PadsOfNet(u.net) => \E o \in ToSet(Fixed) : o.kind = "pad" /\ o.net = u.net /\ o.ref = x.ref
  BY DEF PadsOfNet, ToSet
<1>6. CASE \E t \in S : Piece(x, t)
  <2>1. PICK t \in S : Piece(x, t)
    BY <1>6
  <2>2. x.ref = t.id /\ x.net = t.net
    BY <2>1, PieceIs
  <2> QED
    BY <1>1, <1>4, <1>5, <2>2 DEF FreshIds
<1>7. CASE \E o \in ToSet(Fixed) : x.net = o.net /\ x.ref = o.ref
  BY <1>1, <1>4, <1>5, <1>7 DEF FreshIds
<1> QED
  BY <1>1, <1>6, <1>7, LiveIs

\* What takes from the space of a net is found.
LEMMA FoundInSpace ==
    ASSUME FreshIds, CheckerInv, rules \in DOMAIN RuleLists, tuning, NEW s, Track(s),
           NEW u \in AllTracks, u.net = s.net,
           NEW x \in LiveOf(obs), ~x.edge, x.net # s.net, x.layer \in LayersOf(s), ~Space(s, x)
    PROVE  TooNear(x, s, x.layer, ExemptFor(u))
<1> DEFINE m == LookRound(s.net)
           d == Apart(s.box, x.box)
           a == CandItem(s.net, s.box)
           b == ObstacleItem(x)
           r == ByClassAndRule(a, b)
           z0 == ZoneClearance(s.box, x.box)
           byZone == IF PairOf(s.net, x.net) THEN r ELSE Larger(r, z0)
           open == ~PairOf(s.net, x.net) /\ ~AroundComponent(Overlap(Grow(s.box, OpenGap), Grow(x.box, OpenGap)))
           req == Required(s.net, s.box, x)
<1>1. IsBox(s.box) /\ a \in Items /\ a.net = s.net
  BY TrackIs DEF Track
<1>2. ToSet(board.tracks) \in SUBSET AllTracks /\ LiveOf(obs) = BoardObs(ToSet(board.tracks))
  BY InList DEF CheckerInv, InMemory
<1>3. IsBox(x.box) /\ b \in Items /\ b.net = x.net
  BY <1>2, LiveIs
<1>4. ClearanceOf[s.net] \in Nat /\ ClearanceOf[x.net] \in Nat
  <2> HIDE DEF a, b
  <2> QED
    BY <1>1, <1>3, ClearanceNat
<1>5. d \in Nat
  BY <1>1, <1>3, ApartBy
<1>6. /\ SearchMargin(s.net) = m /\ m \in Nat /\ \A z \in Zones : z.gap <= m
      /\ Reach(s.net, x.net) \in Nat /\ Reach(s.net, x.net) <= m
  BY <1>4, LooksRound, ReachIs
<1>7. /\ req = IF open THEN Larger(byZone, OpenGap) ELSE byZone
      /\ r \in Nat /\ Larger(ClearanceOf[s.net], ClearanceOf[x.net]) <= r
  <2>1. /\ req = IF open THEN Larger(byZone, OpenGap) ELSE byZone
        /\ r \in Nat /\ ByClass(a, b) <= r
    BY <1>1, <1>3, RequiredIs
  <2>2. ByClass(a, b) = Larger(ClearanceOf[s.net], ClearanceOf[x.net])
    BY <1>1, <1>3 DEF ByClass
  <2> QED
    BY <2>1, <2>2
<1>8. z0 \in Nat /\ \A z \in Zones : Overlaps(z.box, s.box) /\ Overlaps(z.box, x.box) => z0 >= z.gap
  <2>1. ClearanceZones = Zones
    BY DEF ClearanceZones
  <2> QED
    BY <2>1, ZoneIs
<1>9. OpenGap \in Nat /\ \A z \in Zones : z.gap \in Nat
  BY SpacingAssumption
<1> DEFINE pair == PairOf(s.net, x.net)
<1>10. \/ d < Larger(ClearanceOf[s.net], ClearanceOf[x.net]) /\ d <= Reach(s.net, x.net)
       \/ ~pair /\ \E z \in Zones : Overlaps(z.box, s.box) /\ Overlaps(z.box, x.box) /\ d < z.gap
  <2>1. Larger(ClearanceOf[s.net], ClearanceOf[x.net]) \in Nat
    BY <1>4 DEF Larger
  <2>2. ~(/\ d >= Larger(ClearanceOf[s.net], ClearanceOf[x.net]) \/ d > Reach(s.net, x.net)
          /\ pair \/ \A z \in Zones : Overlaps(z.box, s.box) /\ Overlaps(z.box, x.box) => d >= z.gap)
    BY DEF Space
  <2> HIDE DEF d, pair
  <2> QED
    BY <1>5, <1>6, <1>9, <2>1, <2>2
<1> HIDE DEF d, r, z0, m, req, pair
<1>11. r <= req /\ (~pair => z0 <= req) /\ req \in Nat
  <2>1. byZone \in Nat /\ r <= byZone /\ (~pair => z0 <= byZone)
    BY <1>7, <1>8 DEF Larger, pair
  <2>2. req \in {byZone, Larger(byZone, OpenGap)}
    BY <1>7
  <2> HIDE DEF byZone, open
  <2>3. OpenGap \in Nat
    BY <1>9
  <2>4. req \in Nat /\ byZone <= req
    BY <2>1, <2>2, <2>3 DEF Larger
  <2> QED
    BY <1>7, <1>8, <2>1, <2>4
<1>12. d < req /\ d <= m
  <2>1. CASE d < Larger(ClearanceOf[s.net], ClearanceOf[x.net]) /\ d <= Reach(s.net, x.net)
    <3>1. Larger(ClearanceOf[s.net], ClearanceOf[x.net]) \in Nat
      BY <1>4 DEF Larger
    <3> QED
      BY <1>5, <1>6, <1>7, <1>11, <2>1, <3>1
  <2>2. CASE ~pair /\ \E z \in Zones : Overlaps(z.box, s.box) /\ Overlaps(z.box, x.box) /\ d < z.gap
    <3>1. PICK z \in Zones : Overlaps(z.box, s.box) /\ Overlaps(z.box, x.box) /\ d < z.gap
      BY <2>2
    <3> QED
      BY <1>5, <1>6, <1>8, <1>9, <1>11, <2>2, <3>1
  <2> QED
    BY <1>10, <2>1, <2>2
<1>13. CellsOf(x.box) \cap CellsOf(Grow(s.box, m)) # {} /\ Overlaps(x.box, Grow(s.box, m))
  BY <1>1, <1>3, <1>6, <1>12, FoundNear DEF d
<1>14. x.ref \notin ExemptFor(u)
  BY NotExempt
<1> QED
  BY <1>6, <1>12, <1>13, <1>14 DEF TooNear, d, req

\* What is too near, where the search covers it, is found.
LEMMA FoundTooNear ==
    ASSUME FreshIds, CheckerInv, rules \in DOMAIN RuleLists, tuning, NEW s, Track(s),
           NEW u \in AllTracks, u.net = s.net,
           NEW x \in LiveOf(obs), ~x.edge, x.net # s.net, x.layer \in LayersOf(s), ~Room(s, x),
           Covered(s.net, x.net)
    PROVE  TooNear(x, s, x.layer, ExemptFor(u))
<1> DEFINE m == SearchMargin(s.net)
<1>1. IsBox(s.box) /\ CandItem(s.net, s.box) \in Items
  BY TrackIs DEF Track
<1>2. ToSet(board.tracks) \in SUBSET AllTracks /\ LiveOf(obs) = BoardObs(ToSet(board.tracks))
  BY InList DEF CheckerInv, InMemory
<1>3. IsBox(x.box) /\ ObstacleItem(x) \in Items
  BY <1>2, LiveIs
<1>4. m \in Nat /\ Required(s.net, s.box, x) \in Nat /\ Required(s.net, s.box, x) <= m
  BY <1>1, <1>3, MarginReaches
<1>5. Apart(s.box, x.box) \in Nat
  BY <1>1, <1>3, ApartBy
<1>6. Apart(s.box, x.box) < Required(s.net, s.box, x)
  BY <1>4, <1>5 DEF Room
<1> HIDE DEF m
<1>7. Apart(s.box, x.box) <= m
  BY <1>4, <1>5, <1>6
<1>8. CellsOf(x.box) \cap CellsOf(Grow(s.box, m)) # {} /\ Overlaps(x.box, Grow(s.box, m))
  BY <1>1, <1>3, <1>4, <1>7, FoundNear
<1>9. x.ref \notin ExemptFor(u)
  BY NotExempt
<1> QED
  BY <1>6, <1>8, <1>9 DEF TooNear, m

NameOf(x) == <<x.kind, x.ref, x.net>>

\* The names a run clashes with.
LEMMA WorstNames ==
    ASSUME ObsOK(obs), index = IndexOf(obs, 0), NEW run, NEW exempt
    PROVE  DOMAIN Worst(run, exempt) =
             {NameOf(x) : x \in {y \in LiveOf(obs) :
                 \E k \in DOMAIN run : \E l \in LayersOf(run[k]) : TooNear(y, run[k], l, exempt)}}
<1> DEFINE at(k) == UNION {Clashes(obs, index, run[k].net, run[k].box, l, exempt) : l \in LayersOf(run[k])}
           clashes == UNION {{k} \X at(k) : k \in DOMAIN run}
           Name(c) == <<obs[c[2]].kind, obs[c[2]].ref, obs[c[2]].net>>
           Found == {y \in LiveOf(obs) :
                       \E k \in DOMAIN run : \E l \in LayersOf(run[k]) : TooNear(y, run[k], l, exempt)}
<1>1. DOMAIN Worst(run, exempt) = {Name(c) : c \in clashes}
  BY DEF Worst
<1>2. ASSUME NEW k \in DOMAIN run, NEW l \in LayersOf(run[k]), NEW i
      PROVE  i \in Clashes(obs, index, run[k].net, run[k].box, l, exempt) <=>
               i \in DOMAIN obs /\ ~obs[i].dead /\ TooNear(obs[i], run[k], l, exempt)
  <2>1. Near(obs, index, run[k].box, SearchMargin(run[k].net)) =
          {j \in DOMAIN obs : /\ CellsOf(obs[j].box) \cap CellsOf(Grow(run[k].box, SearchMargin(run[k].net))) # {}
                              /\ Overlaps(obs[j].box, Grow(run[k].box, SearchMargin(run[k].net)))}
    BY NearIs DEF ObsOK
  <2> QED
    BY <2>1 DEF Clashes, TooNear
<1> HIDE DEF clashes, at
<1>3. ASSUME NEW c \in clashes PROVE \E y \in Found : Name(c) = NameOf(y)
  <2>0. PICK k \in DOMAIN run : c \in {k} \X at(k)
    BY DEF clashes
  <2>1. PICK l \in LayersOf(run[k]) : c[2] \in Clashes(obs, index, run[k].net, run[k].box, l, exempt)
    BY <2>0 DEF at
  <2>2. c[2] \in DOMAIN obs /\ ~obs[c[2]].dead /\ TooNear(obs[c[2]], run[k], l, exempt)
    BY <1>2, <2>1
  <2>3. obs[c[2]] \in LiveOf(obs)
    BY <2>2 DEF LiveOf, ToSet
  <2> QED
    BY <2>2, <2>3 DEF NameOf
<1>4. ASSUME NEW y \in Found PROVE \E c \in clashes : NameOf(y) = Name(c)
  <2>0. PICK k \in DOMAIN run : \E l \in LayersOf(run[k]) : TooNear(y, run[k], l, exempt)
    OBVIOUS
  <2>1. PICK l \in LayersOf(run[k]) : TooNear(y, run[k], l, exempt)
    BY <2>0
  <2>2. PICK i \in DOMAIN obs : obs[i] = y
    BY DEF LiveOf, ToSet
  <2>3. ~y.dead
    BY DEF LiveOf
  <2>4. i \in Clashes(obs, index, run[k].net, run[k].box, l, exempt)
    BY <1>2, <2>1, <2>2, <2>3
  <2>5. <<k, i>> \in clashes
    BY <2>4 DEF clashes, at
  <2>6. Name(<<k, i>>) = NameOf(y)
    BY <2>2 DEF NameOf
  <2> QED
    BY <2>5, <2>6
<1> HIDE DEF Name, Found
<1>5. {Name(c) : c \in clashes} = {NameOf(x) : x \in Found}
  BY <1>3, <1>4
<1> QED
  BY <1>1, <1>5 DEF Found

\* A run that is no worse than the track it replaces has the room the track had.
LEMMA RunHasRoom ==
    ASSUME FreshIds, CheckerInv, rules \in DOMAIN RuleLists, tuning,
           NEW m \in Meanders, NEW s \in ToSet(m.run),
           NoWorseThan(Worst(<<m.of>>, ExemptFor(m.of)), Worst(m.run, ExemptFor(m.of))),
           NEW x \in LiveOf(obs), ~x.edge, x.net # m.of.net, x.layer \in LayersOf(m.of),
           Covered(m.of.net, x.net),
           \A y \in LiveOf(obs) : NameOf(y) = NameOf(x) => HasRoom(m.of, y)
    PROVE  Room(s, x)
<1>1. SUFFICES ASSUME ~Room(s, x) PROVE FALSE
  OBVIOUS
<1> DEFINE ex == ExemptFor(m.of)
<1>2. /\ ObsOK(obs) /\ index = IndexOf(obs, 0) /\ LiveOf(obs) = BoardObs(ToSet(board.tracks))
      /\ ToSet(board.tracks) \in SUBSET AllTracks
  BY InList DEF CheckerInv, InMemory
<1>3. /\ s \in AllTracks /\ m.of \in AllTracks /\ s.net = m.of.net /\ s \in Tracks
  BY RunIs DEF AllTracks
<1>4. Track(s) /\ LayersOf(s) = LayersOf(m.of)
  BY <1>3, SpacingAssumption DEF Track
<1>5. TooNear(x, s, x.layer, ex)
  BY <1>1, <1>3, <1>4, FoundTooNear
<1> HIDE DEF ex
<1>6. PICK k \in DOMAIN m.run : m.run[k] = s
  BY DEF ToSet
<1>7. NameOf(x) \in DOMAIN Worst(m.run, ex)
  <2>1. \E l \in LayersOf(m.run[k]) : TooNear(x, m.run[k], l, ex)
    BY <1>4, <1>5, <1>6
  <2> QED
    BY <1>2, <2>1, WorstNames
<1>8. NameOf(x) \in DOMAIN Worst(<<m.of>>, ex)
  BY <1>7 DEF NoWorseThan, ex
<1>9. PICK y \in LiveOf(obs) :
        /\ NameOf(y) = NameOf(x)
        /\ \E j \in DOMAIN <<m.of>> : \E l \in LayersOf(<<m.of>>[j]) : TooNear(y, <<m.of>>[j], l, ex)
  <2> DEFINE one == <<m.of>>
  <2>1. NameOf(x) \in DOMAIN Worst(one, ex)
    BY <1>8
  <2> HIDE DEF one
  <2>2. DOMAIN Worst(one, ex) = {NameOf(z) : z \in {y \in LiveOf(obs) :
                 \E j \in DOMAIN one : \E l \in LayersOf(one[j]) : TooNear(y, one[j], l, ex)}}
    BY <1>2, WorstNames
  <2>3. \E y \in LiveOf(obs) : /\ NameOf(y) = NameOf(x)
                               /\ \E j \in DOMAIN one : \E l \in LayersOf(one[j]) : TooNear(y, one[j], l, ex)
    BY <2>1, <2>2
  <2> QED
    BY <2>3 DEF one
<1>10. PICK l \in LayersOf(m.of) : TooNear(y, m.of, l, ex)
  BY <1>9
<1>11. y.kind = x.kind /\ y.net = x.net
  BY <1>9 DEF NameOf
<1>12. ~y.edge
  <2>1. (y.edge <=> y.kind = "board-edge") /\ (x.edge <=> x.kind = "board-edge")
    BY <1>2, LiveIs
  <2> QED
    BY <1>11, <2>1
<1>13. y.layer \in LayersOf(m.of) /\ Apart(m.of.box, y.box) < Required(m.of.net, m.of.box, y)
  BY <1>10, <1>12 DEF TooNear
<1>14. Room(m.of, y)
  BY <1>9, <1>11, <1>12, <1>13 DEF HasRoom
<1>15. Apart(m.of.box, y.box) \in Nat /\ Required(m.of.net, m.of.box, y) \in Nat
  <2>1. IsBox(m.of.box) /\ CandItem(m.of.net, m.of.box) \in Items
    BY <1>3, TrackIs
  <2>2. IsBox(y.box) /\ ObstacleItem(y) \in Items
    BY <1>2, <1>12, LiveIs
  <2>3. y.net # m.of.net /\ Covered(m.of.net, y.net)
    BY <1>11
  <2> QED
    BY <1>12, <2>1, <2>2, <2>3, ApartBy, MarginReaches
<1> QED
  BY <1>13, <1>14, <1>15 DEF Room

\* Of two pieces of copper with one uuid there is one track.
LEMMA SameName ==
    ASSUME FreshIds, CheckerInv, NEW t \in AllTracks, NEW x, Piece(x, t), NEW y \in LiveOf(obs), NameOf(y) = NameOf(x)
    PROVE  Piece(y, t)
<1>1. ToSet(board.tracks) \in SUBSET AllTracks /\ LiveOf(obs) = BoardObs(ToSet(board.tracks))
  BY InList DEF CheckerInv, InMemory
<1>2. y.ref = t.id
  <2>1. x.ref = t.id
    BY PieceIs
  <2> QED
    BY <2>1 DEF NameOf
<1>3. ~\E o \in ToSet(Fixed) : y.ref = o.ref
  BY <1>2 DEF FreshIds
<1>4. PICK u \in ToSet(board.tracks) : Piece(y, u)
  BY <1>1, <1>3, LiveIs
<1>5. y.ref = u.id
  BY <1>4, PieceIs
<1> QED
  BY <1>1, <1>2, <1>4, <1>5 DEF FreshIds

LEMMA PieceLives ==
    ASSUME CheckerInv, NEW t \in ToSet(board.tracks), NEW x, Piece(x, t)
    PROVE  x \in LiveOf(obs)
<1>1. x \in PieceObs(t)
  BY DEF Piece, PieceObs
<1> QED
  BY <1>1 DEF CheckerInv, BoardObs, ObsOfAll

\* The copper of a board after one track of it is replaced by a run.
LEMMA LiveAfter ==
    ASSUME NEW S, NEW u, NEW R, NEW x \in BoardObs((S \ {u}) \cup R)
    PROVE  x \in BoardObs(S) \/ \E s \in R : Piece(x, s)
<1>1. CASE x \in FixedObs
  BY <1>1 DEF BoardObs
<1>2. CASE x \in ObsOfAll((S \ {u}) \cup R)
  <2>1. PICK t \in (S \ {u}) \cup R : x \in PieceObs(t)
    BY <1>2 DEF ObsOfAll
  <2>2. Piece(x, t)
    BY <2>1 DEF PieceObs, Piece
  <2> QED
    BY <2>1, <2>2 DEF BoardObs, ObsOfAll
<1> QED
  BY <1>1, <1>2 DEF BoardObs

\* A redraw: what was drawn before, the meander and what is left of a track
\* that was cut, each against what is still there and against the run.
LEMMA SpacingRedraw ==
    ASSUME FreshIds, CheckerInv, SpacingInv, CheckerInv', NEW m \in Meanders, Redraw(m)
    PROVE  SpacingInv'
<1> DEFINE S == ToSet(board.tracks)
           R == ToSet(m.run)
           ex == ExemptFor(m.of)
           meander == R \ Stretches(m)
<1>1. /\ tuning /\ tuning' = tuning /\ rules' = rules
      /\ IndexOfNode(board.root, NodeSays(m.of)) # 0
      /\ R \cap S = {}
      /\ board' = ReplaceTrack(board, m.of, m.run)
      /\ drawn' = Redrawn(drawn, m, meander)
  BY DEF Redraw
<1>2. \A s \in meander : Clear(obs, index, s, ex)
  BY DEF Redraw
<1>3. NoWorseThan(Worst(<<m.of>>, ex), Worst(m.run, ex))
  <2> DEFINE one == <<m.of>>
             worst == [run \in {one, m.run} |-> Worst(run, ex)]
  <2>1. NoWorseThan(worst[one], worst[m.run])
    BY DEF Redraw
  <2> HIDE DEF one, ex
  <2>2. worst[one] = Worst(one, ex) /\ worst[m.run] = Worst(m.run, ex)
    OBVIOUS
  <2> HIDE DEF worst
  <2>3. NoWorseThan(Worst(one, ex), Worst(m.run, ex))
    BY <2>1, <2>2
  <2> QED
    BY <2>3 DEF one
<1>4. /\ m.run \in Seq(Tracks) /\ m.of \in AllTracks /\ R \subseteq AllTracks /\ R \subseteq Tracks
      /\ \A t \in R : t.net = m.of.net
  BY RunIs DEF AllTracks
<1>5. InMemory(board) /\ IsInjective(m.run) /\ S \subseteq AllTracks
  BY InList DEF CheckerInv, FreshIds, InMemory
<1>6. m.of \in S /\ ToSet(board'.tracks) = (S \ {m.of}) \cup R
  BY <1>1, <1>4, <1>5, ReplacedIn
<1>7. m.of \in Tracks /\ Track(m.of) /\ \A s \in R : Track(s) /\ LayersOf(s) = LayersOf(m.of)
  <2>1. m.of \in Tracks
    BY DEF Tracks
  <2> QED
    BY <1>4, <2>1, SpacingAssumption DEF Track
<1>8. rules \in DOMAIN RuleLists /\ rules' \in DOMAIN RuleLists
  BY <1>1 DEF SpacingInv
<1>9. Stretches(m) \subseteq R
  BY DEF Stretches
<1>10. /\ ObsOK(obs) /\ index = IndexOf(obs, 0)
       /\ LiveOf(obs) = BoardObs(S) /\ LiveOf(obs') = BoardObs((S \ {m.of}) \cup R)
  BY <1>6 DEF CheckerInv
<1> HIDE DEF S, R, ex, meander
<1>11. \A t, x : Room(t, x)' <=> Room(t, x)
  BY <1>1 DEF Room, Required, ByRule, ZoneClearance, ClearanceZones, OpenClearance, AroundComponent
<1>15. \A s \in R : ClearanceOf[s.net] \in Nat /\ LookRound(s.net) \in Nat
  BY <1>1, <1>7, TrackIs, ClearanceNat, LooksRound DEF Track
<1>16. ASSUME NEW t \in drawn', NEW x \in LiveOf(obs'), ~x.edge, x.layer \in LayersOf(t), x.net # t.net
       PROVE  Space(t, x)
  <2>1. x \in LiveOf(obs) \/ \E s \in R : Piece(x, s)
    <3> DEFINE u == m.of
    <3>1. x \in BoardObs((S \ {u}) \cup R)
      BY <1>10, <1>16
    <3> HIDE DEF u
    <3>2. x \in BoardObs(S) \/ \E s \in R : Piece(x, s)
      BY <3>1, LiveAfter
    <3> QED
      BY <1>10, <3>2
  <2>2. t \in drawn \/ t \in meander \/ (m.of \in drawn /\ t \in Stretches(m))
    BY <1>1, <1>16 DEF Redrawn
  \* A meander is clear of all there is.
  <2>3. ASSUME NEW s \in meander, NEW y \in LiveOf(obs), ~y.edge, y.layer \in LayersOf(s), y.net # s.net
        PROVE  Space(s, y)
    <3>1. s \in R /\ Track(s) /\ s.net = m.of.net
      BY <1>4, <1>7, <2>3 DEF meander
    <3>2. SUFFICES ASSUME ~Space(s, y) PROVE FALSE
      OBVIOUS
    <3>3. TooNear(y, s, y.layer, ex)
      BY <1>1, <1>4, <1>8, <2>3, <3>1, <3>2, FoundInSpace DEF ex
    <3>4. Clear(obs, index, s, ex)
      BY <1>2, <2>3
    <3> QED
      BY <1>10, <2>3, <3>3, <3>4, ClearIs
  \* What was drawn before, and copper that is still there.
  <2>4. CASE t \in drawn /\ x \in LiveOf(obs)
    BY <1>16, <2>4 DEF SpacingInv, HasSpace
  \* What was drawn before, and the run: its stretches have the space the track had.
  <2>5. CASE t \in drawn /\ \E s \in R : Piece(x, s)
    <3>1. PICK s \in R : Piece(x, s)
      BY <2>5
    <3>2. x.net = m.of.net /\ x.layer \in LayersOf(m.of) /\ s.net = m.of.net /\ LayersOf(s) = LayersOf(m.of)
      BY <1>4, <1>7, <3>1, PieceIs
    <3>3. Track(t) /\ t \in S
      BY <2>5 DEF SpacingInv, S
    <3> DEFINE y == Obstacle(t.box, x.layer, t.net, t.kind, t.id, "", FALSE)
               w == Obstacle(m.of.box, x.layer, m.of.net, m.of.kind, m.of.id, "", FALSE)
    <3>4. Piece(y, t) /\ y.layer = x.layer /\ Piece(w, m.of) /\ w.layer = x.layer
      BY <1>16, <3>2 DEF Piece, Obstacle
    <3> HIDE DEF y, w
    <3>5. /\ y \in LiveOf(obs) /\ ~y.edge /\ y.net = t.net /\ y.box = t.box
          /\ w \in LiveOf(obs) /\ ~w.edge /\ w.net = m.of.net
      BY <1>6, <3>3, <3>4, PieceLives, PieceIs DEF S
    <3>6. Space(s, y)
      <4>1. CASE s \in meander
        BY <1>16, <2>3, <3>2, <3>4, <3>5, <4>1
      <4>2. CASE s \in Stretches(m)
        <5>1. Space(t, w)
          BY <1>16, <2>5, <3>2, <3>4, <3>5 DEF SpacingInv, HasSpace
        <5>2. Space(m.of, y)
          BY <1>1, <1>7, <3>3, <3>4, <5>1, SpaceBothWays
        <5>3. Within(s.box, m.of.box)
          BY <4>2 DEF Stretches
        <5>4. IsBox(y.box) /\ ClearanceOf[y.net] \in Nat
          BY <3>3, <3>5, TrackIs, ClearanceNat DEF Track
        <5> QED
          BY <1>1, <1>7, <3>1, <3>2, <5>2, <5>3, <5>4, SpaceWithin
      <4> QED
        BY <3>1, <4>1, <4>2 DEF meander
    <3> QED
      BY <1>1, <1>7, <3>1, <3>3, <3>4, <3>6, SpaceBothWays
  <2>6. CASE t \in meander /\ x \in LiveOf(obs)
    BY <1>16, <2>3, <2>6
  \* What is left of a track that was drawn before.
  <2>7. CASE m.of \in drawn /\ t \in Stretches(m) /\ x \in LiveOf(obs)
    <3>1. t \in R /\ t.net = m.of.net /\ LayersOf(t) = LayersOf(m.of) /\ Within(t.box, m.of.box)
      BY <1>4, <1>7, <1>9, <2>7 DEF Stretches
    <3>2. Space(m.of, x)
      BY <1>16, <2>7, <3>1 DEF SpacingInv, HasSpace
    <3>3. IsBox(x.box) /\ ClearanceOf[x.net] \in Nat
      <4>1. x \in BoardObs(S)
        BY <1>10, <2>7
      <4>2. IsBox(x.box) /\ ObstacleItem(x) \in Items /\ ObstacleItem(x).net = x.net
        BY <1>5, <1>16, <4>1, LiveIs
      <4> QED
        BY <4>2, ClearanceNat
    <3> QED
      BY <1>1, <1>7, <3>1, <3>2, <3>3, SpaceWithin
  \* The run is of one net.
  <2>8. CASE t \in R /\ \E s \in R : Piece(x, s)
    BY <1>4, <1>16, <2>8, PieceIs
  <2> QED
    BY <1>9, <2>1, <2>2, <2>4, <2>5, <2>6, <2>7, <2>8 DEF meander
<1>12. ASSUME NEW t \in drawn', NEW x \in LiveOf(obs'), ~x.edge, x.layer \in LayersOf(t), x.net # t.net, Covered(t.net, x.net)
       PROVE  Room(t, x)
  <2>1. x \in LiveOf(obs) \/ \E s \in R : Piece(x, s)
    <3> DEFINE u == m.of
    <3>1. x \in BoardObs((S \ {u}) \cup R)
      BY <1>10, <1>12
    <3> HIDE DEF u
    <3>2. x \in BoardObs(S) \/ \E s \in R : Piece(x, s)
      BY <3>1, LiveAfter
    <3> QED
      BY <1>10, <3>2
  <2>2. t \in drawn \/ t \in meander \/ (m.of \in drawn /\ t \in Stretches(m))
    BY <1>1, <1>12 DEF Redrawn
  \* What was drawn before, and copper that is still there.
  <2>3. CASE t \in drawn /\ x \in LiveOf(obs)
    BY <1>12, <2>3 DEF SpacingInv, HasRoom
  \* What was drawn before, and the run: the track the run replaces had room.
  <2>4. CASE t \in drawn /\ \E s \in R : Piece(x, s)
    <3>1. PICK s \in R : Piece(x, s)
      BY <2>4
    <3>2. x.net = m.of.net /\ x.layer \in LayersOf(m.of)
      BY <1>4, <1>7, <3>1, PieceIs
    <3>3. Track(t) /\ t \in S /\ t \in AllTracks
      BY <2>4 DEF SpacingInv, Track, S
    <3> DEFINE y == Obstacle(t.box, x.layer, t.net, t.kind, t.id, "", FALSE)
    <3>4. Piece(y, t)
      BY <1>12 DEF Piece
    <3> HIDE DEF y
    <3>5. y \in LiveOf(obs)
      BY <3>3, <3>4, PieceLives DEF S
    <3>6. /\ ~y.edge /\ y.net = t.net /\ y.net # m.of.net /\ y.layer \in LayersOf(m.of)
      <4>1. y.net = t.net /\ y.edge = FALSE
        BY <3>4, PieceIs
      <4>2. y.layer = x.layer
        BY DEF y, Obstacle
      <4> QED
        BY <1>12, <3>2, <4>1, <4>2
    <3>10. Covered(m.of.net, t.net) /\ Covered(t.net, m.of.net)
      <4>1. ClearanceOf[t.net] \in Nat /\ LookRound(t.net) \in Nat
        BY <1>1, <3>3, TrackIs, ClearanceNat, LooksRound DEF Track
      <4>2. ClearanceOf[m.of.net] \in Nat /\ LookRound(m.of.net) \in Nat
        BY <1>4, <1>15, <3>1
      <4> QED
        BY <1>12, <3>2, <4>1, <4>2, CoveredBothWays
    <3>7. ASSUME NEW z \in LiveOf(obs), NameOf(z) = NameOf(y) PROVE HasRoom(m.of, z)
      <4>1. Piece(z, t)
        BY <3>3, <3>4, <3>7, SameName
      <4>2. SUFFICES ASSUME z.layer \in LayersOf(m.of) PROVE Room(m.of, z)
        BY DEF HasRoom
      <4> DEFINE w == Obstacle(m.of.box, z.layer, m.of.net, m.of.kind, m.of.id, "", FALSE)
      <4>3. Piece(w, m.of) /\ w.layer = z.layer
        BY <4>2 DEF Piece, Obstacle
      <4> HIDE DEF w
      <4>4. w \in LiveOf(obs)
        BY <1>6, <4>3, PieceLives DEF S
      <4>5. w.net = m.of.net /\ w.edge = FALSE /\ z.layer \in LayersOf(t)
        BY <4>1, <4>3, PieceIs
      <4>6. t.net # m.of.net
        BY <3>6
      <4>7. Room(t, w)
        BY <2>4, <3>10, <4>3, <4>4, <4>5, <4>6 DEF SpacingInv, HasRoom
      <4> QED
        BY <1>1, <1>7, <1>8, <3>3, <4>1, <4>3, <4>6, <4>7, RoomBothWays
    <3>8. Room(s, y)
      BY <1>1, <1>3, <1>8, <3>1, <3>5, <3>6, <3>7, <3>10, RunHasRoom DEF R, ex
    <3>9. s.net # t.net
      BY <1>4, <3>1, <3>6
    <3> QED
      BY <1>1, <1>7, <1>8, <3>1, <3>3, <3>4, <3>8, <3>9, RoomBothWays
  \* A meander, and the other nets: it is clear of them.
  <2>5. CASE t \in meander /\ x \in LiveOf(obs)
    <3>1. t \in R /\ Track(t) /\ t.net = m.of.net
      BY <1>4, <1>7, <2>5 DEF meander
    <3>2. SUFFICES ASSUME ~Room(t, x) PROVE FALSE
      OBVIOUS
    <3>3. TooNear(x, t, x.layer, ex)
      BY <1>1, <1>4, <1>8, <1>12, <2>5, <3>1, <3>2, FoundTooNear DEF ex
    <3>4. Clear(obs, index, t, ex)
      BY <1>2, <2>5
    <3> QED
      BY <1>10, <1>12, <2>5, <3>3, <3>4, ClearIs
  \* What is left of a track that was drawn before.
  <2>6. CASE m.of \in drawn /\ t \in Stretches(m) /\ x \in LiveOf(obs)
    <3>1. t \in R /\ t.net = m.of.net /\ LayersOf(t) = LayersOf(m.of)
      BY <1>4, <1>7, <1>9, <2>6
    <3>2. \A y \in LiveOf(obs) : HasRoom(m.of, y)
      BY <2>6 DEF SpacingInv
    <3> QED
      BY <1>1, <1>3, <1>8, <1>12, <2>6, <3>1, <3>2, RunHasRoom DEF R, ex
  \* The run is of one net.
  <2>7. CASE t \in R /\ \E s \in R : Piece(x, s)
    BY <1>4, <1>12, <2>7, PieceIs
  <2> QED
    BY <1>9, <2>1, <2>2, <2>3, <2>4, <2>5, <2>6, <2>7 DEF meander
<1>13. drawn' \subseteq ToSet(board'.tracks) /\ \A t \in drawn' : Track(t)
  <2>1. drawn \subseteq S /\ \A t \in drawn : Track(t)
    BY DEF SpacingInv, S
  <2>2. drawn' \subseteq (drawn \ {m.of}) \cup R
    BY <1>1, <1>9 DEF Redrawn, meander
  <2> QED
    BY <1>6, <1>7, <2>1, <2>2
<1>17. \A t, x : Space(t, x)' <=> Space(t, x)
  BY DEF Space
<1>14. (\A t \in drawn, x \in LiveOf(obs) : HasSpace(t, x) /\ HasRoom(t, x))'
  <2>1. ASSUME NEW t \in drawn', NEW x \in LiveOf(obs') PROVE HasSpace(t, x)'
    BY <1>16, <1>17, <2>1 DEF HasSpace
  <2>2. ASSUME NEW t \in drawn', NEW x \in LiveOf(obs') PROVE HasRoom(t, x)'
    BY <1>11, <1>12, <2>2 DEF HasRoom
  <2> QED
    BY <2>1, <2>2 DEF LiveOf
<1> QED
  BY <1>1, <1>8, <1>13, <1>14 DEF SpacingInv

LEMMA SpacingStep ==
    ASSUME FreshIds, CheckerInv, SpacingInv, CheckerInv', [Next]_vars
    PROVE  SpacingInv'
<1>1. ASSUME rules' = rules, drawn' = drawn, ~tuning \/ UNCHANGED <<board, obs, tuning>> PROVE SpacingInv'
  <2>1. CASE UNCHANGED <<board, obs, tuning>>
    <3>1. \A t, x : Room(t, x)' <=> Room(t, x)
      BY <1>1, <2>1 DEF Room, Required, ByRule, ZoneClearance, ClearanceZones, OpenClearance, AroundComponent
    <3>2. \A t, x : (HasSpace(t, x) /\ HasRoom(t, x))' <=> HasSpace(t, x) /\ HasRoom(t, x)
      BY <3>1 DEF HasSpace, Space, HasRoom
    <3>3. LiveOf(obs)' = LiveOf(obs)
      BY <2>1 DEF LiveOf
    <3> HIDE DEF HasRoom, HasSpace
    <3> QED
      BY <1>1, <2>1, <3>2, <3>3 DEF SpacingInv
  <2>2. CASE ~tuning
    <3>1. drawn' = {} /\ rules' \in DOMAIN RuleLists
      BY <1>1, <2>2 DEF SpacingInv
    <3> QED
      BY <3>1 DEF SpacingInv
  <2> QED
    BY <1>1, <2>1, <2>2
<1>2. CASE UNCHANGED vars
  BY <1>1, <1>2 DEF vars, chk
<1>3. CASE Next
  <2>1. ASSUME NEW p \in Paths, Lay(p) \/ Refuse(p) \/ RipUp(p) PROVE SpacingInv'
    BY <1>1, <2>1 DEF Lay, Refuse, RipUp
  <2>2. CASE StartTuning
    BY <1>1, <2>2 DEF StartTuning
  <2>3. ASSUME NEW m \in Meanders, Redraw(m) PROVE SpacingInv'
    BY <2>3, SpacingRedraw
  <2> QED
    BY <1>3, <2>1, <2>2, <2>3 DEF Next
<1> QED
  BY <1>2, <1>3

\* Whatever the tuner draws, and draws again, keeps the class clearances and the
\* space asked for in the areas and in the open (drc.go:181-185 and required),
\* from what was there and from what comes later: for any classes and rules, those
\* that ask for more than the search for obstacles covers (drc.go:557) included.
THEOREM CheckerSpacingKept == ASSUME FreshIds PROVE Spec => []SpacingKept
<1>1. Init => CheckerInv /\ SpacingInv
  <2> SUFFICES ASSUME Init PROVE CheckerInv /\ SpacingInv
    OBVIOUS
  <2>1. CheckerInv
    BY CheckerInit
  <2>2. rules \in DOMAIN RuleLists /\ drawn = {}
    BY DEF Init
  <2> QED
    BY <2>1, <2>2 DEF SpacingInv
<1>2. CheckerInv /\ SpacingInv /\ [Next]_vars => (CheckerInv /\ SpacingInv)'
  BY CheckerStep, SpacingStep
<1>3. CheckerInv /\ SpacingInv => SpacingKept
  BY RoomIsSpacing
<1> QED
  BY <1>1, <1>2, <1>3, PTL DEF Spec
===============================================================================
