--------------------------- MODULE Interfaces_proofs ---------------------------
(***************************************************************************)
(* Interfaces, proved for any boards, names, parts, lengths and islands:   *)
(* that an interface the report asks nothing of is matched, that what is   *)
(* asked of a net is what the page and the panel say of it, and that the   *)
(* connections a net is said to miss take as little copper as any that     *)
(* join its islands.                                                       *)
(*                                                                         *)
(* The last is what is known of a minimum spanning tree.  islandJoins      *)
(* keeps, after each of its rounds, to connections that can be completed   *)
(* with those of any way to join the islands, at no more copper than it    *)
(* takes: the connection it chooses next takes the place of one that way   *)
(* has from what is reached to what is not, and is no longer.  Its rounds  *)
(* and the sums of copper are folds, which are shown to be given first.    *)
(***************************************************************************)
EXTENDS Interfaces, TLAPS, FiniteSetTheorems, WellFoundedInduction

LEMMA Counting ==
    ASSUME NEW S, 0 \in S, \A n \in Nat : n \in S => n + 1 \in S
    PROVE  Nat \subseteq S
<1> SUFFICES ASSUME Nat \ S # {} PROVE FALSE
  OBVIOUS
<1>1. PICK x \in Nat \ S : \A y \in Nat \ S : <<y, x>> \notin OpToRel(<, Nat)
  BY NatLessThanWellFounded, WFMin
<1>2. x # 0 /\ x - 1 \in Nat \ S
  <2>1. x \in Nat /\ x # 0
    OBVIOUS
  <2>2. x - 1 \in Nat /\ (x - 1) + 1 = x
    BY <2>1
  <2> QED
    BY <2>1, <2>2
<1>3. <<x - 1, x>> \in OpToRel(<, Nat)
  BY <1>2 DEF OpToRel
<1> QED
  BY <1>1, <1>2, <1>3

--------------------------------------------------------------------------------
(* Folds *)

\* The step g is taken for every member of a set, the last of them named by c.
IsFoldAt(F, x0, c, g, s) == F[s] = IF s = {} THEN x0 ELSE g[<<F[s \ {c[s]}], c[s]>>]

IsFold(F, D, x0, c, g) == \A s \in SUBSET D : IsFoldAt(F, x0, c, g, s)

\* One member is taken away at a time.
LEMMA OneLess ==
    ASSUME NEW s, IsFiniteSet(s), NEW x \in s
    PROVE  /\ IsFiniteSet(s \ {x}) /\ Cardinality(s) \in Nat
           /\ Cardinality(s \ {x}) \in Nat /\ Cardinality(s \ {x}) + 1 = Cardinality(s)
<1>1. IsFiniteSet(s \ {x}) /\ Cardinality(s \ {x}) = Cardinality(s) - 1
  BY FS_RemoveElement, Zenon
<1>2. Cardinality(s) \in Nat /\ Cardinality(s \ {x}) \in Nat
  BY <1>1, FS_CardinalityType
<1> QED
  BY <1>1, <1>2

LEMMA FoldsExist ==
    ASSUME NEW D, IsFiniteSet(D), NEW X, NEW x0 \in X, NEW g \in [X \X D -> X],
           NEW c, \A s \in SUBSET D : s # {} => c[s] \in s
    PROVE  \E F \in [SUBSET D -> X] : IsFold(F, D, x0, c, g)
<1> DEFINE UpTo(k) == {s \in SUBSET D : Cardinality(s) <= k}
           P(k) == \E F \in [UpTo(k) -> X] : \A s \in UpTo(k) : IsFoldAt(F, x0, c, g, s)
           K == {k \in Nat : P(k)}
<1>1. \A s \in SUBSET D : IsFiniteSet(s) /\ Cardinality(s) \in Nat
  BY FS_Subset, FS_CardinalityType
<1>2. P(0)
  <2> DEFINE F == [s \in UpTo(0) |-> x0]
  <2>1. \A s \in UpTo(0) : s = {}
    BY <1>1, FS_EmptySet
  <2>2. F \in [UpTo(0) -> X]
    OBVIOUS
  <2>3. \A s \in UpTo(0) : IsFoldAt(F, x0, c, g, s)
    BY <2>1 DEF IsFoldAt
  <2> QED
    BY <2>2, <2>3
<1>3. ASSUME NEW k \in Nat, P(k) PROVE P(k + 1)
  <2>1. PICK F \in [UpTo(k) -> X] : \A s \in UpTo(k) : IsFoldAt(F, x0, c, g, s)
    BY <1>3
  <2> DEFINE h == [s \in UpTo(k + 1) |-> IF s = {} THEN x0 ELSE g[<<F[s \ {c[s]}], c[s]>>]]
  <2>2. ASSUME NEW s \in UpTo(k + 1), s # {}
        PROVE  s \ {c[s]} \in UpTo(k) /\ s \ {c[s]} \in UpTo(k + 1) /\ c[s] \in D
    <3>1. c[s] \in s /\ c[s] \in D
      BY <2>2
    <3>2. Cardinality(s \ {c[s]}) \in Nat /\ Cardinality(s \ {c[s]}) + 1 = Cardinality(s) /\ Cardinality(s) \in Nat
      BY <1>1, <3>1, OneLess
    <3> QED
      BY <3>1, <3>2
  <2>3. \A s \in UpTo(k) : s \in UpTo(k + 1)
    BY <1>1
  <2>4. \A s \in UpTo(k) : h[s] = F[s]
    BY <2>1, <2>3 DEF IsFoldAt
  <2>5. h \in [UpTo(k + 1) -> X]
    <3> SUFFICES ASSUME NEW s \in UpTo(k + 1) PROVE h[s] \in X
      OBVIOUS
    <3>1. CASE s = {}
      BY <3>1
    <3>2. CASE s # {}
      <4>1. F[s \ {c[s]}] \in X /\ c[s] \in D
        BY <2>2, <3>2
      <4>2. g[<<F[s \ {c[s]}], c[s]>>] \in X
        <5> HIDE DEF UpTo
        <5> QED
          BY <4>1
      <4> QED
        BY <3>2, <4>2
    <3> QED
      BY <3>1, <3>2
  <2>6. \A s \in UpTo(k + 1) : IsFoldAt(h, x0, c, g, s)
    BY <2>2, <2>4 DEF IsFoldAt
  <2> QED
    BY <2>5, <2>6
<1>4. Nat \subseteq K
  <2> HIDE DEF P
  <2>1. K \subseteq Nat /\ 0 \in K /\ \A k \in K : k + 1 \in K
    BY <1>2, <1>3
  <2> HIDE DEF K
  <2> QED
    BY <2>1, Counting
<1>5. P(Cardinality(D))
  BY <1>1, <1>4
<1>6. UpTo(Cardinality(D)) = SUBSET D
  <2>1. \A s \in SUBSET D : Cardinality(s) <= Cardinality(D)
    BY FS_Subset
  <2> QED
    BY <2>1
<1> QED
  BY <1>5, <1>6 DEF IsFold

\* The largest of finitely many numbers, and the smallest.
LEMMA MaxIs ==
    ASSUME NEW S \in SUBSET Int, IsFiniteSet(S), S # {}
    PROVE  Max(S) \in S /\ \A y \in S : y <= Max(S)
<1> DEFINE Has(T) == \E x \in T : \A y \in T : y <= x
           N == {n \in Nat : \A T \in SUBSET Int : IsFiniteSet(T) /\ Cardinality(T) = n /\ T # {} => Has(T)}
<1>1. 0 \in N
  BY FS_EmptySet
<1>2. ASSUME NEW n \in Nat, n \in N PROVE n + 1 \in N
  <2> SUFFICES ASSUME NEW T \in SUBSET Int, IsFiniteSet(T), Cardinality(T) = n + 1, T # {} PROVE Has(T)
    OBVIOUS
  <2>1. PICK z \in T : TRUE
    OBVIOUS
  <2>2. IsFiniteSet(T \ {z}) /\ Cardinality(T \ {z}) = n
    <3>1. IsFiniteSet(T \ {z}) /\ Cardinality(T \ {z}) = Cardinality(T) - 1
      BY <2>1, FS_RemoveElement, Zenon
    <3> QED
      BY <3>1
  <2>3. CASE T \ {z} = {}
    BY <2>1, <2>3
  <2>4. CASE T \ {z} # {}
    <3>1. Has(T \ {z})
      BY <1>2, <2>2, <2>4
    <3>2. PICK x \in T \ {z} : \A y \in T \ {z} : y <= x
      BY <3>1
    <3>3. x \in Int /\ z \in Int
      BY <3>2
    <3>4. CASE z <= x
      BY <3>2, <3>4
    <3>5. CASE ~(z <= x)
      <4>1. \A y \in T : y <= z
        BY <3>2, <3>3, <3>5
      <4> QED
        BY <4>1
    <3> QED
      BY <3>4, <3>5
  <2> QED
    BY <2>3, <2>4
<1> HIDE DEF N
<1>3. Nat \subseteq N
  BY <1>1, <1>2, Counting
<1>4. Cardinality(S) \in Nat
  BY FS_CardinalityType
<1>5. Has(S)
  BY <1>3, <1>4 DEF N
<1> QED
  BY <1>5 DEF Max

--------------------------------------------------------------------------------
(* Sums *)

Pick(s) == CHOOSE x \in s : TRUE

\* The sums of the weights w, over the subsets of D.
IsSumAt(g, w, s) == g[s] = IF s = {} THEN 0 ELSE w[Pick(s)] + g[s \ {Pick(s)}]

IsSum(g, w, D) == \A s \in SUBSET D : IsSumAt(g, w, s)

LEMMA SumsExist ==
    ASSUME NEW D, IsFiniteSet(D), NEW w \in [D -> Nat]
    PROVE  \E g \in [SUBSET D -> Nat] : IsSum(g, w, D)
<1> DEFINE c == [s \in SUBSET D |-> Pick(s)]
           g == [p \in Nat \X D |-> w[p[2]] + p[1]]
<1>1. g \in [Nat \X D -> Nat] /\ 0 \in Nat
  OBVIOUS
<1>2. \A s \in SUBSET D : s # {} => c[s] \in s
  BY DEF Pick
<1>3. PICK F \in [SUBSET D -> Nat] : IsFold(F, D, 0, c, g)
  <2> HIDE DEF c, g
  <2> QED
    BY <1>1, <1>2, FoldsExist
<1>4. ASSUME NEW s \in SUBSET D PROVE IsSumAt(F, w, s)
  <2>1. CASE s = {}
    BY <1>3, <2>1 DEF IsFold, IsFoldAt, IsSumAt
  <2>2. CASE s # {}
    <3>1. Pick(s) \in s /\ Pick(s) \in D /\ c[s] = Pick(s)
      BY <2>2 DEF Pick
    <3>2. F[s] = g[<<F[s \ {Pick(s)}], Pick(s)>>]
      <4> HIDE DEF g
      <4> QED
        BY <1>3, <2>2, <3>1 DEF IsFold, IsFoldAt
    <3>3. F[s \ {Pick(s)}] \in Nat
      OBVIOUS
    <3>4. <<F[s \ {Pick(s)}], Pick(s)>> \in Nat \X D
      BY <3>1, <3>3
    <3>5. g[<<F[s \ {Pick(s)}], Pick(s)>>] = w[Pick(s)] + F[s \ {Pick(s)}]
      BY <3>4
    <3> QED
      BY <2>2, <3>2, <3>5 DEF IsSumAt
  <2> QED
    BY <2>1, <2>2
<1> QED
  BY <1>3, <1>4 DEF IsSum

\* A sum, the members taken in either order.
AddsUp(h, w, s) ==
    \/ IsSumAt(h, w, s)
    \/ h[s] = IF s = {} THEN 0 ELSE h[s \ {Pick(s)}] + w[Pick(s)]

SumsTo(h, v, T) == \A s \in SUBSET T : AddsUp(h, v, s)

Same(v, w, T) == \A x \in T : v[x] = w[x]

\* Two sums agree wherever both are given.
LEMMA SumsAgree ==
    ASSUME NEW D, IsFiniteSet(D), NEW w \in [D -> Nat], NEW g \in [SUBSET D -> Nat], IsSum(g, w, D),
           NEW T \in SUBSET D, NEW v, Same(v, w, T), NEW h, SumsTo(h, v, T)
    PROVE  h[T] = g[T]
<1> USE DEF Same, SumsTo
<1> DEFINE K == {k \in Nat : \A s \in SUBSET T : Cardinality(s) = k => h[s] = g[s]}
<1>1. \A s \in SUBSET T : s \in SUBSET D /\ IsFiniteSet(s) /\ Cardinality(s) \in Nat
  BY FS_Subset, FS_CardinalityType
<1>2. 0 \in K
  <2>1. ASSUME NEW s \in SUBSET T, Cardinality(s) = 0 PROVE h[s] = g[s]
    <3>1. s = {}
      BY <1>1, <2>1, FS_EmptySet
    <3>2. IsSumAt(g, w, s) /\ AddsUp(h, v, s)
      BY <1>1 DEF IsSum
    <3> QED
      BY <3>1, <3>2 DEF IsSumAt, AddsUp
  <2> QED
    BY <2>1
<1>3. ASSUME NEW k \in Nat, k \in K PROVE k + 1 \in K
  <2> SUFFICES ASSUME NEW s \in SUBSET T, Cardinality(s) = k + 1 PROVE h[s] = g[s]
    OBVIOUS
  <2>1. s # {}
    <3>1. k + 1 # 0
      OBVIOUS
    <3> HIDE DEF K
    <3> QED
      BY <3>1, FS_EmptySet
  <2> DEFINE x == Pick(s)
             r == s \ {x}
  <2>2. x \in s
    BY <2>1 DEF Pick
  <2>3. r \in SUBSET T /\ r \in SUBSET D /\ Cardinality(r) = k
    <3>1. Cardinality(r) \in Nat /\ Cardinality(r) + 1 = Cardinality(s)
      BY <1>1, <2>2, OneLess
    <3> HIDE DEF K
    <3>2. r \in SUBSET T /\ r \in SUBSET D
      OBVIOUS
    <3> HIDE DEF r
    <3> QED
      BY <3>1, <3>2
  <2>4. h[r] = g[r]
    <3>1. \A q \in SUBSET T : Cardinality(q) = k => h[q] = g[q]
      BY <1>3
    <3> HIDE DEF r, K
    <3> QED
      BY <2>3, <3>1
  <2>5. g[r] \in Nat /\ w[x] \in Nat /\ v[x] = w[x]
    <3>1. x \in D /\ x \in T
      BY <2>2
    <3> HIDE DEF r, x, K
    <3> QED
      BY <2>3, <3>1
  <2>6. g[s] = w[x] + g[r]
    <3>1. IsSumAt(g, w, s)
      BY DEF IsSum
    <3> QED
      BY <2>1, <3>1 DEF IsSumAt
  <2>7. h[s] = v[x] + h[r] \/ h[s] = h[r] + v[x]
    <3>1. AddsUp(h, v, s)
      OBVIOUS
    <3> QED
      BY <2>1, <3>1 DEF AddsUp, IsSumAt
  <2> HIDE DEF r, x, K
  <2> QED
    BY <2>4, <2>5, <2>6, <2>7
<1>4. Nat \subseteq K
  <2> HIDE DEF K
  <2> QED
    BY <1>2, <1>3, Counting
<1>5. Cardinality(T) \in Nat /\ T \in SUBSET T
  BY <1>1
<1> QED
  BY <1>4, <1>5

AddsOne(g, w, A, b) == g[A \cup {b}] = g[A] + w[b]

\* The member taken away first does not matter.
LEMMA SumsPlus ==
    ASSUME NEW D, IsFiniteSet(D), NEW w \in [D -> Nat], NEW g \in [SUBSET D -> Nat], IsSum(g, w, D),
           NEW A \in SUBSET D, NEW b \in D \ A
    PROVE  AddsOne(g, w, A, b)
<1> DEFINE K == {k \in Nat : \A T \in SUBSET D : \A y \in D \ T :
                    Cardinality(T) = k => g[T \cup {y}] = g[T] + w[y]}
<1>1. \A T \in SUBSET D : IsFiniteSet(T) /\ Cardinality(T) \in Nat
  BY FS_Subset, FS_CardinalityType
<1>2. \A x \in D : w[x] \in Nat
  OBVIOUS
<1>3. \A T \in SUBSET D : g[T] \in Nat /\ IsSumAt(g, w, T)
  BY DEF IsSum
<1>4. ASSUME NEW T \in SUBSET D, NEW y \in D \ T, Pick(T \cup {y}) = y
      PROVE  g[T \cup {y}] = g[T] + w[y]
  <2>1. (T \cup {y}) \ {y} = T /\ T \cup {y} # {} /\ T \cup {y} \in SUBSET D
    OBVIOUS
  <2>2. IsSumAt(g, w, T \cup {y})
    BY <1>3, <2>1
  <2>3. g[T \cup {y}] = w[y] + g[T]
    BY <1>4, <2>1, <2>2 DEF IsSumAt
  <2> QED
    BY <2>3, <1>2, <1>3
<1>5. 0 \in K
  <2> SUFFICES ASSUME NEW T \in SUBSET D, NEW y \in D \ T, Cardinality(T) = 0
               PROVE  g[T \cup {y}] = g[T] + w[y]
    OBVIOUS
  <2>1. T = {}
    BY <1>1, FS_EmptySet
  <2>2. Pick(T \cup {y}) \in T \cup {y}
    BY DEF Pick
  <2> QED
    BY <2>1, <2>2, <1>4
<1>6. ASSUME NEW k \in K PROVE k + 1 \in K
  <2> SUFFICES ASSUME NEW T \in SUBSET D, NEW y \in D \ T, Cardinality(T) = k + 1
               PROVE  g[T \cup {y}] = g[T] + w[y]
    OBVIOUS
  <2> DEFINE x == Pick(T \cup {y})
  <2>1. x \in T \cup {y}
    BY DEF Pick
  <2>2. CASE x = y
    BY <2>2, <1>4
  <2>3. CASE x # y
    <3>1. x \in T /\ x \in D
      BY <2>1, <2>3
    <3>2. IsSumAt(g, w, T \cup {y})
      BY <1>3
    <3>3. g[T \cup {y}] = w[x] + g[(T \cup {y}) \ {x}]
      BY <3>2 DEF IsSumAt
    <3> HIDE DEF x
    <3> DEFINE R == T \ {x}
    <3>4. R \in SUBSET D /\ x \in D \ R /\ y \in D \ R /\ Cardinality(R) = k
      <4>1. k \in Nat /\ R \in SUBSET D /\ x \in D \ R /\ y \in D \ R
        BY <3>1
      <4>2. Cardinality(R) \in Nat /\ Cardinality(R) + 1 = Cardinality(T)
        BY <3>1, <1>1, OneLess
      <4> HIDE DEF R, K
      <4> QED
        BY <4>1, <4>2
    <3>5. g[R \cup {y}] = g[R] + w[y] /\ g[R \cup {x}] = g[R] + w[x]
      BY <3>4
    <3>6. (T \cup {y}) \ {x} = R \cup {y} /\ T = R \cup {x}
      BY <3>1, <2>3
    <3>7. g[R] \in Nat /\ w[x] \in Nat /\ w[y] \in Nat
      BY <3>4, <1>2, <1>3
    <3>8. g[T \cup {y}] = w[x] + (g[R] + w[y]) /\ g[T] = g[R] + w[x]
      <4> HIDE DEF R, K
      <4> QED
        BY <3>3, <3>5, <3>6
    <3> HIDE DEF R, K
    <3> QED
      BY <3>7, <3>8
  <2> QED
    BY <2>2, <2>3
<1>7. Nat \subseteq K
  <2>1. K \subseteq Nat
    OBVIOUS
  <2> HIDE DEF K
  <2> QED
    BY <1>5, <1>6, <2>1, Counting
<1> QED
  BY <1>1, <1>7 DEF AddsOne

\* What a net measures with the nets its signal runs on to.
LEMMA JoinedTyped ==
    ASSUME NEW B, NEW own \in [B -> Nat], NEW S \in SUBSET B, IsFiniteSet(S)
    PROVE  Joined(S, own) \in Nat
<1> DEFINE w == [x \in S |-> own[x]]
           Sums(i) == i = [s \in SUBSET S |->
                             IF s = {} THEN 0
                             ELSE LET x == CHOOSE x \in s : TRUE
                                  IN  own[x] + i[s \ {x}]]
           iter == CHOOSE i : Sums(i)
<1>1. w \in [S -> Nat]
  OBVIOUS
<1>2. PICK g \in [SUBSET S -> Nat] : IsSum(g, w, S)
  <2> HIDE DEF w
  <2> QED
    BY <1>1, SumsExist
<1>3. Sums(g)
  <2>1. ASSUME NEW s \in SUBSET S
        PROVE  g[s] = IF s = {} THEN 0 ELSE LET x == CHOOSE x \in s : TRUE IN own[x] + g[s \ {x}]
    <3>1. IsSumAt(g, w, s)
      BY <1>2 DEF IsSum
    <3>2. s # {} => Pick(s) \in S
      BY DEF Pick
    <3> QED
      BY <3>1, <3>2 DEF IsSumAt, Pick
  <2> QED
    BY <2>1
<1>4. Sums(iter)
  <2> HIDE DEF Sums
  <2> QED
    BY <1>3
<1>5. \A s \in SUBSET S : AddsUp(iter, own, s)
  <2> HIDE DEF iter
  <2> QED
    BY <1>4 DEF AddsUp, IsSumAt, Pick
<1>6. iter[S] = g[S]
  <2>1. Same(own, w, S) /\ SumsTo(iter, own, S)
    <3> HIDE DEF iter, Sums
    <3> QED
      BY <1>5 DEF Same, SumsTo
  <2>2. S \in SUBSET S /\ IsSum(g, w, S)
    BY <1>2
  <2> HIDE DEF iter, w, Sums
  <2> QED
    BY <1>1, <2>1, <2>2, SumsAgree
<1>7. MapThenSumSet(LAMBDA m : own[m], S) = iter[S]
  BY DEF MapThenSumSet, MapThenFoldSet
<1>8. g[S] \in Nat
  <2>1. S \in SUBSET S
    OBVIOUS
  <2> QED
    BY <2>1
<1> HIDE DEF iter
<1> QED
  BY <1>6, <1>7, <1>8 DEF Joined

--------------------------------------------------------------------------------
(* The copper of connections *)

IntLinks == Int \X Int

Long(D) == [l \in D |-> Abs(l[1] - l[2])]

LEMMA LongTyped == ASSUME NEW D \in SUBSET IntLinks PROVE Long(D) \in [D -> Nat]
<1>1. ASSUME NEW l \in D PROVE Abs(l[1] - l[2]) \in Nat
  <2>1. l[1] \in Int /\ l[2] \in Int
    BY DEF IntLinks
  <2>2. l[1] - l[2] \in Int
    BY <2>1
  <2> QED
    BY <2>2 DEF Abs
<1> QED
  BY <1>1 DEF Long

LEMMA CopperIs ==
    ASSUME NEW D \in SUBSET IntLinks, IsFiniteSet(D), NEW g \in [SUBSET D -> Nat], IsSum(g, Long(D), D),
           NEW S \in SUBSET D
    PROVE  Copper(S) = g[S]
<1> DEFINE Sums(i) == i = [s \in SUBSET S |->
                             IF s = {} THEN 0
                             ELSE LET x == CHOOSE x \in s : TRUE
                                  IN  i[s \ {x}] + Abs(x[1] - x[2])]
           iter == CHOOSE i : Sums(i)
<1>1. Long(S) \in [S -> Nat] /\ Long(D) \in [D -> Nat] /\ IsFiniteSet(S)
  BY LongTyped, FS_Subset
<1>2. PICK h \in [SUBSET S -> Nat] : IsSum(h, Long(S), S)
  BY <1>1, SumsExist
<1>3. Sums(h)
  <2>1. ASSUME NEW s \in SUBSET S
        PROVE  h[s] = IF s = {} THEN 0 ELSE LET x == CHOOSE x \in s : TRUE IN h[s \ {x}] + Abs(x[1] - x[2])
    <3>1. IsSumAt(h, Long(S), s)
      BY <1>2 DEF IsSum
    <3>2. CASE s = {}
      BY <3>1, <3>2 DEF IsSumAt
    <3>3. CASE s # {}
      <4>1. Pick(s) \in S
        BY <3>3 DEF Pick
      <4>2. h[s] = Long(S)[Pick(s)] + h[s \ {Pick(s)}]
        BY <3>1, <3>3 DEF IsSumAt
      <4>3. Long(S)[Pick(s)] = Abs(Pick(s)[1] - Pick(s)[2])
        BY <4>1 DEF Long
      <4>4. Long(S)[Pick(s)] \in Nat /\ h[s \ {Pick(s)}] \in Nat
        <5>1. s \ {Pick(s)} \in SUBSET S
          OBVIOUS
        <5> QED
          BY <1>1, <1>2, <4>1, <5>1
      <4>5. h[s] = h[s \ {Pick(s)}] + Long(S)[Pick(s)]
        BY <4>2, <4>4
      <4> QED
        BY <3>3, <4>3, <4>5 DEF Pick
    <3> QED
      BY <3>2, <3>3
  <2> QED
    BY <2>1
<1>4. Sums(iter)
  <2> HIDE DEF Sums
  <2> QED
    BY <1>3
<1>5. SumsTo(iter, Long(S), S)
  <2> HIDE DEF iter
  <2> SUFFICES ASSUME NEW s \in SUBSET S PROVE AddsUp(iter, Long(S), s)
    BY DEF SumsTo
  <2>1. iter[s] = IF s = {} THEN 0 ELSE iter[s \ {Pick(s)}] + Abs(Pick(s)[1] - Pick(s)[2])
    BY <1>4 DEF Pick
  <2>2. s # {} => Long(S)[Pick(s)] = Abs(Pick(s)[1] - Pick(s)[2])
    BY DEF Long, Pick
  <2> QED
    BY <2>1, <2>2 DEF AddsUp
<1>6. iter[S] = g[S]
  <2>1. Same(Long(S), Long(D), S)
    BY DEF Same, Long
  <2> DEFINE w == Long(D)
             v == Long(S)
  <2>2. w \in [D -> Nat] /\ IsSum(g, w, D) /\ Same(v, w, S) /\ SumsTo(iter, v, S)
    BY <1>1, <1>5, <2>1
  <2> HIDE DEF iter, Sums, w, v
  <2> QED
    BY <2>2, SumsAgree, SMTT(60)
<1>7. Copper(S) = iter[S]
  BY DEF Copper, FoldSet, MapThenFoldSet
<1> HIDE DEF iter
<1> QED
  BY <1>6, <1>7

\* One connection more.
LEMMA CopperPlus ==
    ASSUME NEW S \in SUBSET IntLinks, IsFiniteSet(S), NEW l \in IntLinks \ S
    PROVE  Copper(S) \in Nat /\ Abs(l[1] - l[2]) \in Nat /\ Copper(S \cup {l}) = Copper(S) + Abs(l[1] - l[2])
<1> DEFINE D == S \cup {l}
<1>1. D \in SUBSET IntLinks /\ IsFiniteSet(D) /\ S \in SUBSET D /\ l \in D \ S /\ D \in SUBSET D
  BY FS_AddElement
<1>2. Long(D) \in [D -> Nat]
  <2> HIDE DEF D
  <2> QED
    BY <1>1, LongTyped
<1> HIDE DEF D
<1>3. PICK g \in [SUBSET D -> Nat] : IsSum(g, Long(D), D)
  BY <1>1, <1>2, SumsExist
<1>4. Copper(D) = g[D] /\ Copper(S) = g[S]
  BY <1>1, <1>3, CopperIs
<1>5. g[S \cup {l}] = g[S] + Long(D)[l]
  <2>1. AddsOne(g, Long(D), S, l)
    BY <1>1, <1>2, <1>3, SumsPlus
  <2> QED
    BY <2>1 DEF AddsOne
<1>6. Long(D)[l] = Abs(l[1] - l[2]) /\ Long(D)[l] \in Nat /\ g[S] \in Nat
  <2>1. Long(D)[l] = Abs(l[1] - l[2])
    BY <1>1 DEF Long
  <2> QED
    BY <1>1, <1>2, <1>3, <2>1
<1> QED
  BY <1>4, <1>5, <1>6 DEF D

LEMMA CopperNone == Copper({}) = 0
<1>1. {} \in SUBSET IntLinks /\ IsFiniteSet({}) /\ {} \in SUBSET {}
  BY FS_EmptySet
<1>2. Long({}) \in [{} -> Nat]
  BY <1>1, LongTyped
<1>3. PICK g \in [SUBSET {} -> Nat] : IsSum(g, Long({}), {})
  BY <1>1, <1>2, SumsExist
<1>4. Copper({}) = g[{}]
  BY <1>1, <1>3, CopperIs
<1>5. IsSumAt(g, Long({}), {})
  BY <1>3 DEF IsSum
<1> QED
  BY <1>4, <1>5 DEF IsSumAt

\* Fewer connections are no more copper.
LEMMA CopperSubset ==
    ASSUME NEW T \in SUBSET IntLinks, IsFiniteSet(T), NEW S \in SUBSET T
    PROVE  Copper(S) <= Copper(T) /\ Copper(S) \in Nat /\ Copper(T) \in Nat
<1> DEFINE K == {k \in Nat : \A U \in SUBSET T : S \subseteq U /\ Cardinality(U \ S) = k =>
                   Copper(U) \in Nat /\ Copper(S) \in Nat /\ Copper(S) <= Copper(U)}
<1>1. \A U \in SUBSET T : IsFiniteSet(U) /\ U \in SUBSET IntLinks /\ IsFiniteSet(U \ S) /\ Cardinality(U \ S) \in Nat
  <2>1. \A U \in SUBSET T : U \ S \in SUBSET T
    OBVIOUS
  <2> QED
    BY <2>1, FS_Subset, FS_CardinalityType
<1>2. \A U \in SUBSET T : \A l \in T \ U :
          Copper(U) \in Nat /\ Abs(l[1] - l[2]) \in Nat /\ Copper(U \cup {l}) = Copper(U) + Abs(l[1] - l[2])
  BY <1>1, CopperPlus
<1>3. Copper(S) \in Nat
  <2>1. CASE S = {}
    BY <2>1, CopperNone
  <2>2. CASE S # {}
    <3>1. PICK l \in S : TRUE
      BY <2>2
    <3>2. S \ {l} \in SUBSET T /\ l \in T \ (S \ {l}) /\ (S \ {l}) \cup {l} = S
      BY <3>1
    <3>3. Copper(S) = Copper(S \ {l}) + Abs(l[1] - l[2]) /\ Copper(S \ {l}) \in Nat /\ Abs(l[1] - l[2]) \in Nat
      BY <1>2, <3>2
    <3> QED
      BY <3>3
  <2> QED
    BY <2>1, <2>2
<1>4. 0 \in K
  <2> SUFFICES ASSUME NEW U \in SUBSET T, S \subseteq U, Cardinality(U \ S) = 0
               PROVE  Copper(U) \in Nat /\ Copper(S) \in Nat /\ Copper(S) <= Copper(U)
    OBVIOUS
  <2>1. U \ S = {}
    BY <1>1, FS_EmptySet
  <2>2. U = S
    BY <2>1
  <2> QED
    BY <1>3, <2>2
<1>5. ASSUME NEW k \in Nat, k \in K PROVE k + 1 \in K
  <2> SUFFICES ASSUME NEW U \in SUBSET T, S \subseteq U, Cardinality(U \ S) = k + 1
               PROVE  Copper(U) \in Nat /\ Copper(S) \in Nat /\ Copper(S) <= Copper(U)
    OBVIOUS
  <2>1. U \ S # {}
    <3>1. k + 1 # 0
      OBVIOUS
    <3> HIDE DEF K
    <3> QED
      BY <3>1, FS_EmptySet
  <2>2. PICK l \in U \ S : TRUE
    BY <2>1
  <2> DEFINE V == U \ {l}
  <2>3. V \in SUBSET T /\ S \subseteq V /\ l \in T \ V /\ V \cup {l} = U /\ V \ S = (U \ S) \ {l}
    BY <2>2
  <2>4. Cardinality(V \ S) = k
    <3>1. Cardinality((U \ S) \ {l}) \in Nat /\ Cardinality((U \ S) \ {l}) + 1 = Cardinality(U \ S)
      BY <1>1, <2>2, OneLess
    <3> HIDE DEF K, V
    <3> QED
      BY <2>3, <3>1
  <2>5. Copper(V) \in Nat /\ Copper(S) \in Nat /\ Copper(S) <= Copper(V)
    <3> HIDE DEF V
    <3> QED
      BY <1>5, <2>3, <2>4
  <2>6. Copper(U) = Copper(V) + Abs(l[1] - l[2]) /\ Abs(l[1] - l[2]) \in Nat
    <3> HIDE DEF V, K
    <3> QED
      BY <1>2, <2>3
  <2> HIDE DEF V, K
  <2> QED
    BY <2>5, <2>6
<1>6. Nat \subseteq K
  <2> HIDE DEF K
  <2> QED
    BY <1>4, <1>5, Counting
<1>7. Cardinality(T \ S) \in Nat /\ T \in SUBSET T /\ S \subseteq T
  BY <1>1
<1>8. Cardinality(T \ S) \in K
  <2> HIDE DEF K
  <2> QED
    BY <1>6, <1>7
<1> QED
  BY <1>7, <1>8

--------------------------------------------------------------------------------
(* Sets of links that join *)

Across(a, b, part) == (a \in part) # (b \in part)

\* The links T, from p to q, leave no part of V apart.
Connects(T, V, p, q) ==
    \A part \in (SUBSET V) \ {{}, V} : \E e \in T : Across(p[e], q[e], part)

\* A link from a part to the rest takes the place of one that T has there.
LEMMA Exchange ==
    ASSUME NEW V, NEW L, NEW p \in [L -> V], NEW q \in [L -> V], NEW T \in SUBSET L, Connects(T, V, p, q),
           NEW l \in L, NEW R \in SUBSET V, p[l] \in R, q[l] \notin R
    PROVE  \E e \in T : Across(p[e], q[e], R) /\ Connects((T \ {e}) \cup {l}, V, p, q)
<1> SUFFICES ASSUME \A e \in T : Across(p[e], q[e], R) => ~Connects((T \ {e}) \cup {l}, V, p, q)
             PROVE  FALSE
  OBVIOUS
<1> DEFINE D == {e \in T : Across(p[e], q[e], R)}
           Alone(e, X) == \A f \in T : f # e => ~Across(p[f], q[f], X)
           Has(e, X) == p[l] \in X /\ q[l] \in X /\ X # V /\ Alone(e, X)
           S == [e \in D |-> CHOOSE X \in SUBSET V : Has(e, X)]
<1>1. ASSUME NEW e \in D PROVE \E X \in SUBSET V : Has(e, X)
  <2>1. ~Connects((T \ {e}) \cup {l}, V, p, q)
    OBVIOUS
  <2>2. PICK X \in (SUBSET V) \ {{}, V} : \A f \in (T \ {e}) \cup {l} : ~Across(p[f], q[f], X)
    BY <2>1 DEF Connects
  <2>3. ~Across(p[l], q[l], X) /\ Alone(e, X)
    BY <2>2
  <2>4. CASE p[l] \in X
    BY <2>2, <2>3, <2>4 DEF Across
  <2>5. CASE p[l] \notin X
    <3>1. p[l] \in V \ X /\ q[l] \in V \ X /\ V \ X # V
      BY <2>2, <2>3, <2>5 DEF Across
    <3>2. Alone(e, V \ X)
      <4> SUFFICES ASSUME NEW f \in T, f # e PROVE ~Across(p[f], q[f], V \ X)
        OBVIOUS
      <4>1. p[f] \in V /\ q[f] \in V /\ ~Across(p[f], q[f], X)
        BY <2>3
      <4> QED
        BY <4>1 DEF Across
    <3> QED
      BY <3>1, <3>2
  <2> QED
    BY <2>4, <2>5
<1>2. ASSUME NEW e \in D PROVE S[e] \in SUBSET V /\ Has(e, S[e])
  <2> HIDE DEF Has, D
  <2> QED
    BY <1>1
<1>3. ASSUME NEW e \in D PROVE Across(p[e], q[e], S[e])
  <2>1. S[e] \in (SUBSET V) \ {{}, V} /\ Alone(e, S[e])
    <3> HIDE DEF S, Alone, D
    <3> QED
      BY <1>2
  <2>2. PICK f \in T : Across(p[f], q[f], S[e])
    BY <2>1 DEF Connects
  <2> QED
    BY <2>1, <2>2
<1>4. \A e \in D : S[e] \in SUBSET V /\ p[l] \in S[e] /\ q[l] \in S[e]
  <2> HIDE DEF S, D, Alone
  <2> QED
    BY <1>2
<1>5. \A e \in D : \A f \in T : f # e => ~Across(p[f], q[f], S[e])
  <2> HIDE DEF S, D
  <2> QED
    BY <1>2
<1> HIDE DEF S
<1> DEFINE Y == {v \in V : \A e \in D : v \in S[e]}
           A == {e \in D : p[e] \in Y \cap R \/ q[e] \in Y \cap R}
           Z == {v \in V : (v \in Y /\ v \in R) \/ \E e \in A : v \notin S[e]}
<1>6. p[l] \in Z /\ q[l] \in V \ Z
  <2>1. p[l] \in V /\ q[l] \in V
    OBVIOUS
  <2> QED
    BY <1>4, <2>1
<1>7. PICK f \in T : Across(p[f], q[f], Z)
  <2>1. Z \in (SUBSET V) \ {{}, V}
    BY <1>6
  <2> QED
    BY <2>1 DEF Connects
<1>8. PICK x \in V, y \in V : /\ x \in Z /\ y \notin Z
                              /\ \/ x = p[f] /\ y = q[f]
                                 \/ x = q[f] /\ y = p[f]
  <2>1. p[f] \in V /\ q[f] \in V
    OBVIOUS
  <2> HIDE DEF Z
  <2> QED
    BY <1>7, <2>1 DEF Across
<1>9. \A e \in D : f # e => (x \in S[e] <=> y \in S[e])
  <2> HIDE DEF Z, D
  <2> QED
    BY <1>5, <1>8 DEF Across
<1>10. f \in D => (x \in S[f] <=> y \notin S[f])
  <2> HIDE DEF Z, D
  <2> QED
    BY <1>3, <1>8 DEF Across
<1>11. ASSUME x \in Y, x \in R PROVE FALSE
  <2>1. CASE y \in Y
    <3>1. y \notin R
      BY <1>8, <2>1
    <3>2. f \in D
      BY <1>8, <1>11, <3>1 DEF Across
    <3> QED
      BY <1>10, <1>11, <2>1, <3>2
  <2>2. CASE y \notin Y
    <3>1. PICK g \in D : y \notin S[g]
      BY <2>2
    <3>2. x \in S[g]
      BY <1>11
    <3>3. f = g
      <4> HIDE DEF D, Y, A, Z
      <4> QED
        BY <1>9, <3>1, <3>2
    <3>4. g \in A
      <4> HIDE DEF D, Y, Z
      <4> QED
        BY <1>8, <1>11, <3>3
    <3> QED
      BY <1>8, <3>1, <3>4
  <2> QED
    BY <2>1, <2>2
<1>12. ASSUME NEW e \in A, x \notin S[e] PROVE FALSE
  <2>1. e \in D /\ y \in S[e]
    BY <1>8, <1>12
  <2>2. f = e
    <3> HIDE DEF D, Y, A, Z
    <3> QED
      BY <1>9, <1>12, <2>1
  <2>3. x \notin Y
    BY <1>12, <2>1
  <2>4. y \in Y /\ y \in R
    <3> HIDE DEF Z, Y
    <3> QED
      BY <1>8, <2>2, <2>3
  <2> QED
    BY <1>8, <2>4
<1> QED
  BY <1>8, <1>11, <1>12

--------------------------------------------------------------------------------
(* Islands *)

IslandOf(I, x) == CHOOSE a \in I : x \in a

PadLinks(I) == (UNION I) \X (UNION I)

Ones(I) == [l \in PadLinks(I) |-> IslandOf(I, l[1])]
Twos(I) == [l \in PadLinks(I) |-> IslandOf(I, l[2])]

LEMMA IslandIs ==
    ASSUME NEW I, IsIslands(I), NEW x \in UNION I
    PROVE  /\ IslandOf(I, x) \in I /\ x \in IslandOf(I, x)
           /\ \A a \in I : x \in a => a = IslandOf(I, x)
           /\ \A part \in SUBSET I : x \in UNION part <=> IslandOf(I, x) \in part
<1>1. IslandOf(I, x) \in I /\ x \in IslandOf(I, x)
  BY DEF IslandOf
<1>2. \A a \in I : x \in a => a = IslandOf(I, x)
  BY <1>1 DEF IsIslands
<1> QED
  BY <1>1, <1>2

LEMMA JoinsIsConnects ==
    ASSUME NEW I, IsIslands(I), NEW T \in SUBSET PadLinks(I)
    PROVE  Joins(T, I) <=> Connects(T, I, Ones(I), Twos(I))
<1>1. ASSUME NEW part \in SUBSET I, NEW l \in T
      PROVE  ((l[1] \in UNION part) # (l[2] \in UNION part)) <=> Across(Ones(I)[l], Twos(I)[l], part)
  <2>1. l \in PadLinks(I) /\ l[1] \in UNION I /\ l[2] \in UNION I
    BY DEF PadLinks
  <2>2. (l[1] \in UNION part <=> IslandOf(I, l[1]) \in part) /\ (l[2] \in UNION part <=> IslandOf(I, l[2]) \in part)
    BY <2>1, IslandIs
  <2>3. Ones(I)[l] = IslandOf(I, l[1]) /\ Twos(I)[l] = IslandOf(I, l[2])
    BY <2>1 DEF Ones, Twos
  <2> QED
    BY <2>2, <2>3 DEF Across
<1> QED
  BY <1>1 DEF Joins, Connects

LEMMA LeastOf == ASSUME NEW S \in SUBSET Nat, S # {} PROVE \E x \in S : \A y \in S : x <= y
<1>1. PICK x \in S : \A y \in S : <<y, x>> \notin OpToRel(<, Nat)
  BY NatLessThanWellFounded, WFMin
<1>2. ASSUME NEW y \in S PROVE x <= y
  <2>1. x \in Nat /\ y \in Nat
    BY <1>1
  <2>2. ASSUME y < x PROVE <<y, x>> \in OpToRel(<, Nat)
    BY <2>1, <2>2 DEF OpToRel
  <2>3. ~(y < x)
    BY <1>1, <2>2
  <2> QED
    BY <2>1, <2>3
<1> QED
  BY <1>1, <1>2

\* Of some connections there is a shortest.
LEMMA ShortestIs ==
    ASSUME NEW S \in SUBSET IntLinks, S # {}
    PROVE  Shortest(S) \in S /\ \A o \in S : Abs(Shortest(S)[1] - Shortest(S)[2]) <= Abs(o[1] - o[2])
<1> DEFINE W == {Abs(l[1] - l[2]) : l \in S}
<1>1. \A l \in S : Abs(l[1] - l[2]) \in Nat
  <2>1. \A l \in S : Long(S)[l] = Abs(l[1] - l[2])
    BY DEF Long
  <2> QED
    BY <2>1, LongTyped
<1>2. W \in SUBSET Nat /\ W # {}
  BY <1>1
<1>3. PICK x \in W : \A y \in W : x <= y
  <2> HIDE DEF W
  <2> QED
    BY <1>2, LeastOf
<1>4. PICK l \in S : x = Abs(l[1] - l[2])
  BY <1>3
<1>5. \A o \in S : Abs(l[1] - l[2]) <= Abs(o[1] - o[2])
  BY <1>3, <1>4
<1> QED
  BY <1>4, <1>5 DEF Shortest

--------------------------------------------------------------------------------
(* islandJoins *)

JoinsWithin(reached, joins, I) ==
    \A part \in (SUBSET reached) \ {{}, reached} : \E l \in joins : Across(Ones(I)[l], Twos(I)[l], part)

\* Whatever joins the islands can be had with the connections made so far, and
\* takes no less copper than that.
NoDearer(joins, I) ==
    \A T \in SUBSET PadLinks(I) : IsFiniteSet(T) /\ Joins(T, I) =>
        \E U \in SUBSET PadLinks(I) : IsFiniteSet(U) /\ Joins(U, I) /\ joins \subseteq U /\ Copper(U) <= Copper(T)

Reaches(st, k, I) ==
    /\ st.reached \in SUBSET I /\ Cardinality(st.reached) = k + 1
    /\ st.joins \in SUBSET ((UNION st.reached) \X (UNION st.reached)) /\ IsFiniteSet(st.joins)
    /\ JoinsWithin(st.reached, st.joins, I)
    /\ NoDearer(st.joins, I)

LEMMA LinksAreInts == ASSUME NEW I, IsIslands(I) PROVE PadLinks(I) \in SUBSET IntLinks
BY DEF IsIslands, PadLinks, IntLinks

LEMMA Dearer ==
    ASSUME NEW x \in Int, NEW y \in Int PROVE Abs(x - y) \in Nat /\ Abs(y - x) = Abs(x - y)
BY DEF Abs

\* One connection for another that is no shorter.
LEMMA SwapIsNoDearer ==
    ASSUME NEW I, IsIslands(I), NEW U \in SUBSET PadLinks(I), IsFiniteSet(U), NEW e \in U, NEW l \in PadLinks(I) \ U,
           Abs(l[1] - l[2]) <= Abs(e[1] - e[2])
    PROVE  /\ (U \ {e}) \cup {l} \in SUBSET PadLinks(I) /\ IsFiniteSet((U \ {e}) \cup {l})
           /\ Copper((U \ {e}) \cup {l}) <= Copper(U) /\ Copper((U \ {e}) \cup {l}) \in Nat /\ Copper(U) \in Nat
<1> DEFINE V == U \ {e}
<1>1. V \in SUBSET IntLinks /\ IsFiniteSet(V) /\ e \in IntLinks \ V /\ l \in IntLinks \ V /\ V \cup {e} = U
  <2>1. V \in SUBSET U /\ PadLinks(I) \in SUBSET IntLinks
    BY LinksAreInts
  <2> QED
    BY <2>1, FS_Subset
<1>2. IsFiniteSet(V \cup {l})
  BY <1>1, FS_AddElement
<1> HIDE DEF V
<1>3. Copper(V) \in Nat /\ Abs(e[1] - e[2]) \in Nat /\ Copper(U) = Copper(V) + Abs(e[1] - e[2])
  BY <1>1, CopperPlus
<1>4. Abs(l[1] - l[2]) \in Nat /\ Copper(V \cup {l}) = Copper(V) + Abs(l[1] - l[2])
  BY <1>1, CopperPlus
<1>5. Copper(V \cup {l}) <= Copper(U) /\ Copper(V \cup {l}) \in Nat /\ Copper(U) \in Nat
  BY <1>3, <1>4
<1>6. V \cup {l} \in SUBSET PadLinks(I)
  BY DEF V
<1> QED
  BY <1>2, <1>5, <1>6 DEF V

LEMMA FirstReaches ==
    ASSUME NEW I, IsIslands(I), NEW a \in I
    PROVE  Reaches([reached |-> {a}, joins |-> {}], 0, I)
<1>1. Cardinality({a}) = 0 + 1
  <2>1. Cardinality({a}) = 1
    BY FS_Singleton, Zenon
  <2> QED
    BY <2>1
<1>2. JoinsWithin({a}, {}, I)
  <2>1. (SUBSET {a}) \ {{}, {a}} = {}
    OBVIOUS
  <2> QED
    BY <2>1 DEF JoinsWithin
<1>3. NoDearer({}, I)
  <2> SUFFICES ASSUME NEW T \in SUBSET PadLinks(I), IsFiniteSet(T), Joins(T, I)
               PROVE  {} \subseteq T /\ Copper(T) <= Copper(T)
    BY DEF NoDearer
  <2>1. T \in SUBSET IntLinks /\ T \in SUBSET T
    BY LinksAreInts
  <2>2. Copper(T) \in Nat
    BY <2>1, CopperSubset
  <2> QED
    BY <2>2
<1> QED
  BY <1>1, <1>2, <1>3, FS_EmptySet DEF Reaches

\* What is chosen next leads to an island not yet reached, by the shortest way.
LEMMA NearestIs ==
    ASSUME NEW I, IsIslands(I), NEW reached \in SUBSET I, reached # {}, reached # I
    PROVE  LET l == Nearest(reached, I) IN
           /\ l \in PadLinks(I) /\ l[1] \in UNION reached /\ l[2] \in UNION (I \ reached)
           /\ \A e \in PadLinks(I) : Across(Ones(I)[e], Twos(I)[e], reached) => Abs(l[1] - l[2]) <= Abs(e[1] - e[2])
<1> DEFINE S == (UNION reached) \X UNION (I \ reached)
           l == Nearest(reached, I)
<1>1. S \in SUBSET IntLinks /\ S \in SUBSET PadLinks(I)
  <2>1. S \in SUBSET PadLinks(I)
    BY DEF PadLinks
  <2> QED
    BY <2>1, LinksAreInts
<1>2. S # {}
  <2>1. PICK a \in reached, b \in I \ reached : TRUE
    OBVIOUS
  <2>2. PICK x \in a, y \in b : TRUE
    BY <2>1 DEF IsIslands
  <2>3. <<x, y>> \in S
    BY <2>1, <2>2
  <2> QED
    BY <2>3
<1>3. l \in S /\ \A o \in S : Abs(l[1] - l[2]) <= Abs(o[1] - o[2])
  <2>1. l = Shortest(S)
    BY DEF Nearest
  <2> HIDE DEF S, l
  <2> QED
    BY <1>1, <1>2, <2>1, ShortestIs
<1>4. ASSUME NEW e \in PadLinks(I), Across(Ones(I)[e], Twos(I)[e], reached)
      PROVE  Abs(l[1] - l[2]) <= Abs(e[1] - e[2])
  <2>1. e[1] \in UNION I /\ e[2] \in UNION I /\ e = <<e[1], e[2]>>
    BY DEF PadLinks
  <2>2. /\ e[1] \in UNION reached <=> IslandOf(I, e[1]) \in reached
        /\ e[2] \in UNION reached <=> IslandOf(I, e[2]) \in reached
        /\ e[1] \in UNION (I \ reached) <=> IslandOf(I, e[1]) \in I \ reached
        /\ e[2] \in UNION (I \ reached) <=> IslandOf(I, e[2]) \in I \ reached
        /\ IslandOf(I, e[1]) \in I /\ IslandOf(I, e[2]) \in I
    <3>1. I \ reached \in SUBSET I
      OBVIOUS
    <3> QED
      BY <2>1, <3>1, IslandIs
  <2>3. Ones(I)[e] = IslandOf(I, e[1]) /\ Twos(I)[e] = IslandOf(I, e[2])
    BY DEF Ones, Twos
  <2>4. CASE e[1] \in UNION reached
    <3>1. e[2] \in UNION (I \ reached)
      BY <1>4, <2>2, <2>3, <2>4 DEF Across
    <3>2. e \in S
      BY <2>1, <2>4, <3>1
    <3> QED
      BY <1>3, <3>2
  <2>5. CASE e[1] \notin UNION reached
    <3>1. e[2] \in UNION reached /\ e[1] \in UNION (I \ reached)
      BY <1>4, <2>2, <2>3, <2>5 DEF Across
    <3>2. <<e[2], e[1]>> \in S
      BY <3>1
    <3>3. Abs(l[1] - l[2]) <= Abs(<<e[2], e[1]>>[1] - <<e[2], e[1]>>[2])
      <4> HIDE DEF S, l
      <4> QED
        BY <1>3, <3>2
    <3>4. e[1] \in Int /\ e[2] \in Int
      BY <2>1 DEF IsIslands
    <3>5. Abs(e[2] - e[1]) = Abs(e[1] - e[2])
      BY <3>4, Dearer
    <3> HIDE DEF l
    <3> QED
      BY <3>3, <3>5
  <2> QED
    BY <2>4, <2>5
<1>5. l \in PadLinks(I) /\ l[1] \in UNION reached /\ l[2] \in UNION (I \ reached)
  <2> HIDE DEF l
  <2> QED
    BY <1>1, <1>3
<1> QED
  BY <1>4, <1>5

\* One connection more, and one island.
LEMMA NextReaches ==
    ASSUME NEW I, IsIslands(I), NEW st, NEW k \in Nat, Reaches(st, k, I), st.reached # I
    PROVE  Reaches(Reach(st, Nearest(st.reached, I), I), k + 1, I)
<1> DEFINE was == st.reached
           l == Nearest(was, I)
           b == IslandOf(I, l[2])
           now == was \cup {b}
           joins == st.joins \cup {l}
<1>1. was \in SUBSET I /\ was # {} /\ IsFiniteSet(was) /\ Cardinality(was) = k + 1
  <2>1. was \in SUBSET I /\ Cardinality(was) = k + 1
    BY DEF Reaches
  <2>2. IsFiniteSet(was)
    BY <2>1, FS_Subset DEF IsIslands
  <2>3. was # {}
    <3>1. k + 1 # 0
      OBVIOUS
    <3> HIDE DEF was
    <3> QED
      BY <2>1, <3>1, FS_EmptySet
  <2> QED
    BY <2>1, <2>2, <2>3
<1>2. /\ l \in PadLinks(I) /\ l[1] \in UNION was /\ l[2] \in UNION (I \ was)
      /\ \A e \in PadLinks(I) : Across(Ones(I)[e], Twos(I)[e], was) => Abs(l[1] - l[2]) <= Abs(e[1] - e[2])
  BY <1>1, NearestIs
<1> HIDE DEF l, was
<1>3. /\ b \in I /\ b \notin was /\ l[2] \in b
      /\ \A a \in I : l[2] \in a => a = b
  <2>1. I \ was \in SUBSET I /\ l[2] \in UNION I
    BY <1>2
  <2> QED
    BY <1>2, <2>1, IslandIs
<1>4. IslandOf(I, l[1]) \in was /\ IslandOf(I, l[1]) \in I
  <2>1. l[1] \in UNION I
    BY <1>1, <1>2
  <2> QED
    BY <1>1, <1>2, <2>1, IslandIs
<1>5. Ones(I)[l] = IslandOf(I, l[1]) /\ Twos(I)[l] = b
  BY <1>2 DEF Ones, Twos
<1>6. Reach(st, l, I) = [reached |-> now, joins |-> joins]
  <2>1. {a \in I : l[2] \in a} = {b}
    BY <1>3
  <2> HIDE DEF b
  <2> QED
    BY <2>1 DEF Reach, was
<1>7. now \in SUBSET I /\ Cardinality(now) = (k + 1) + 1
  <2>1. now \in SUBSET I
    BY <1>1, <1>3
  <2>2. Cardinality(now) = Cardinality(was) + 1
    <3> HIDE DEF b
    <3> QED
      BY <1>1, <1>3, FS_AddElement
  <2> QED
    BY <1>1, <2>1, <2>2
<1>8. st.joins \in SUBSET ((UNION was) \X (UNION was)) /\ IsFiniteSet(st.joins)
  BY DEF Reaches, was
<1>9. joins \in SUBSET ((UNION now) \X (UNION now)) /\ IsFiniteSet(joins)
  <2>1. l \in (UNION now) \X (UNION now)
    <3>1. l = <<l[1], l[2]>> /\ l[1] \in UNION now /\ l[2] \in UNION now
      BY <1>2, <1>3 DEF PadLinks
    <3> HIDE DEF now
    <3> QED
      BY <3>1
  <2>2. st.joins \in SUBSET ((UNION now) \X (UNION now))
    BY <1>8
  <2>3. IsFiniteSet(joins)
    BY <1>8, FS_AddElement
  <2> HIDE DEF now
  <2> QED
    BY <2>1, <2>2, <2>3
<1>10. \A f \in st.joins : /\ f \in PadLinks(I)
                           /\ Ones(I)[f] \in was /\ Twos(I)[f] \in was
  <2> SUFFICES ASSUME NEW f \in st.joins
               PROVE  f \in PadLinks(I) /\ Ones(I)[f] \in was /\ Twos(I)[f] \in was
    OBVIOUS
  <2>1. f[1] \in UNION was /\ f[2] \in UNION was /\ f = <<f[1], f[2]>>
    BY <1>8
  <2>2. f[1] \in UNION I /\ f[2] \in UNION I
    BY <1>1, <2>1
  <2>3. f \in PadLinks(I)
    BY <2>1, <2>2 DEF PadLinks
  <2>4. IslandOf(I, f[1]) \in was /\ IslandOf(I, f[2]) \in was
    BY <1>1, <2>1, <2>2, IslandIs
  <2> QED
    BY <2>3, <2>4 DEF Ones, Twos
<1>11. JoinsWithin(now, joins, I)
  <2> SUFFICES ASSUME NEW part \in (SUBSET now) \ {{}, now}
               PROVE  \E f \in joins : Across(Ones(I)[f], Twos(I)[f], part)
    BY DEF JoinsWithin
  <2>1. JoinsWithin(was, st.joins, I)
    BY DEF Reaches, was
  <2>2. CASE part \cap was = {}
    <3>1. b \in part /\ IslandOf(I, l[1]) \notin part
      BY <1>4, <2>2
    <3>2. Across(Ones(I)[l], Twos(I)[l], part)
      BY <1>5, <3>1 DEF Across
    <3> QED
      BY <3>2
  <2>3. CASE part \cap was = was
    <3>1. b \notin part /\ IslandOf(I, l[1]) \in part
      BY <1>4, <2>3
    <3>2. Across(Ones(I)[l], Twos(I)[l], part)
      BY <1>5, <3>1 DEF Across
    <3> QED
      BY <3>2
  <2>4. CASE part \cap was \notin {{}, was}
    <3>1. PICK f \in st.joins : Across(Ones(I)[f], Twos(I)[f], part \cap was)
      <4>1. part \cap was \in (SUBSET was) \ {{}, was}
        BY <2>4
      <4> QED
        BY <2>1, <4>1 DEF JoinsWithin
    <3>2. Across(Ones(I)[f], Twos(I)[f], part)
      BY <1>10, <3>1 DEF Across
    <3> QED
      BY <3>2
  <2> QED
    BY <2>2, <2>3, <2>4
<1>12. NoDearer(joins, I)
  <2> SUFFICES ASSUME NEW T \in SUBSET PadLinks(I), IsFiniteSet(T), Joins(T, I)
               PROVE  \E U \in SUBSET PadLinks(I) : IsFiniteSet(U) /\ Joins(U, I) /\ joins \subseteq U /\ Copper(U) <= Copper(T)
    BY DEF NoDearer
  <2>1. PICK U \in SUBSET PadLinks(I) :
           IsFiniteSet(U) /\ Joins(U, I) /\ st.joins \subseteq U /\ Copper(U) <= Copper(T)
    BY DEF Reaches, NoDearer
  <2>2. CASE l \in U
    <3>1. joins \subseteq U
      BY <2>1, <2>2
    <3> HIDE DEF joins
    <3> QED
      BY <2>1, <3>1
  <2>3. CASE l \notin U
    <3>1. Ones(I) \in [PadLinks(I) -> I] /\ Twos(I) \in [PadLinks(I) -> I]
      <4>1. \A f \in PadLinks(I) : f[1] \in UNION I /\ f[2] \in UNION I
        BY DEF PadLinks
      <4>2. \A f \in PadLinks(I) : IslandOf(I, f[1]) \in I /\ IslandOf(I, f[2]) \in I
        BY <4>1, IslandIs
      <4> QED
        BY <4>2 DEF Ones, Twos
    <3>2. Connects(U, I, Ones(I), Twos(I))
      BY <2>1, JoinsIsConnects
    <3>3. Ones(I)[l] \in was /\ Twos(I)[l] \notin was
      BY <1>3, <1>4, <1>5
    <3>4. PICK e \in U : Across(Ones(I)[e], Twos(I)[e], was) /\ Connects((U \ {e}) \cup {l}, I, Ones(I), Twos(I))
      <4> DEFINE p == Ones(I)
                 q == Twos(I)
                 L == PadLinks(I)
      <4>1. p \in [L -> I] /\ q \in [L -> I] /\ U \in SUBSET L /\ Connects(U, I, p, q) /\ l \in L
            /\ was \in SUBSET I /\ p[l] \in was /\ q[l] \notin was
        BY <1>1, <1>2, <2>1, <3>1, <3>2, <3>3
      <4> HIDE DEF p, q, L
      <4>2. \E e \in U : Across(p[e], q[e], was) /\ Connects((U \ {e}) \cup {l}, I, p, q)
        BY <4>1, Exchange
      <4> QED
        BY <4>2 DEF p, q
    <3> DEFINE V == (U \ {e}) \cup {l}
    <3>5. e \in PadLinks(I) /\ l \in PadLinks(I) \ U /\ Abs(l[1] - l[2]) <= Abs(e[1] - e[2])
      BY <1>2, <2>1, <2>3, <3>4
    <3>6. V \in SUBSET PadLinks(I) /\ IsFiniteSet(V) /\ Copper(V) <= Copper(U) /\ Copper(V) \in Nat /\ Copper(U) \in Nat
      BY <2>1, <3>5, SwapIsNoDearer
    <3>7. e \notin st.joins
      BY <1>10, <3>4 DEF Across
    <3>8. joins \subseteq V
      BY <2>1, <3>7
    <3>9. Joins(V, I)
      BY <3>4, <3>6, JoinsIsConnects
    <3>10. Copper(T) \in Nat
      <4>1. T \in SUBSET IntLinks /\ T \in SUBSET T
        BY LinksAreInts
      <4> QED
        BY <4>1, CopperSubset
    <3>11. Copper(V) <= Copper(T)
      <4> HIDE DEF V
      <4> QED
        BY <2>1, <3>6, <3>10
    <3> HIDE DEF V, joins
    <3> QED
      BY <3>6, <3>8, <3>9, <3>11
  <2> QED
    BY <2>2, <2>3
<1> HIDE DEF now, joins
<1>13. Reaches([reached |-> now, joins |-> joins], k + 1, I)
  BY <1>7, <1>9, <1>11, <1>12 DEF Reaches
<1> QED
  BY <1>6, <1>13 DEF l, was

\* Nothing is left to reach.
LEMMA AllReached ==
    ASSUME NEW I, IsIslands(I), NEW st, NEW k \in Nat, k + 1 = Cardinality(I), Reaches(st, k, I)
    PROVE  /\ st.joins \in SUBSET PadLinks(I) /\ Joins(st.joins, I)
           /\ \A T \in SUBSET PadLinks(I) : IsFiniteSet(T) /\ Joins(T, I) => Copper(st.joins) <= Copper(T)
<1>1. st.reached = I
  <2>1. st.reached \in SUBSET I /\ Cardinality(st.reached) = Cardinality(I) /\ IsFiniteSet(I)
    BY DEF Reaches, IsIslands
  <2> QED
    BY <2>1, FS_Subset
<1>2. st.joins \in SUBSET PadLinks(I) /\ IsFiniteSet(st.joins)
  BY <1>1 DEF Reaches, PadLinks
<1>3. Joins(st.joins, I)
  <2>1. Connects(st.joins, I, Ones(I), Twos(I))
    BY <1>1 DEF Reaches, JoinsWithin, Connects
  <2> QED
    BY <1>2, <2>1, JoinsIsConnects
<1>4. ASSUME NEW T \in SUBSET PadLinks(I), IsFiniteSet(T), Joins(T, I)
      PROVE  Copper(st.joins) <= Copper(T)
  <2>1. PICK U \in SUBSET PadLinks(I) :
           IsFiniteSet(U) /\ Joins(U, I) /\ st.joins \subseteq U /\ Copper(U) <= Copper(T)
    BY <1>4 DEF Reaches, NoDearer
  <2>2. U \in SUBSET IntLinks /\ T \in SUBSET IntLinks /\ T \in SUBSET T /\ st.joins \in SUBSET U
    BY <2>1, LinksAreInts
  <2>3. Copper(st.joins) <= Copper(U) /\ Copper(st.joins) \in Nat /\ Copper(U) \in Nat
    BY <2>1, <2>2, CopperSubset
  <2>4. Copper(T) \in Nat
    BY <1>4, <2>2, CopperSubset
  <2> QED
    BY <2>1, <2>3, <2>4
<1> QED
  BY <1>2, <1>3, <1>4

\* The smallest of finitely many numbers.
LEMMA MinIs ==
    ASSUME NEW S \in SUBSET Int, IsFiniteSet(S), S # {}
    PROVE  Min(S) \in S /\ \A y \in S : Min(S) <= y
<1> DEFINE Has(T) == \E x \in T : \A y \in T : x <= y
           N == {n \in Nat : \A T \in SUBSET Int : IsFiniteSet(T) /\ Cardinality(T) = n /\ T # {} => Has(T)}
<1>1. 0 \in N
  BY FS_EmptySet
<1>2. ASSUME NEW n \in Nat, n \in N PROVE n + 1 \in N
  <2> SUFFICES ASSUME NEW T \in SUBSET Int, IsFiniteSet(T), Cardinality(T) = n + 1, T # {} PROVE Has(T)
    OBVIOUS
  <2>1. PICK z \in T : TRUE
    OBVIOUS
  <2>2. IsFiniteSet(T \ {z}) /\ Cardinality(T \ {z}) = n
    <3>1. IsFiniteSet(T \ {z}) /\ Cardinality(T \ {z}) = Cardinality(T) - 1
      BY <2>1, FS_RemoveElement, Zenon
    <3> QED
      BY <3>1
  <2>3. CASE T \ {z} = {}
    BY <2>1, <2>3
  <2>4. CASE T \ {z} # {}
    <3>1. Has(T \ {z})
      BY <1>2, <2>2, <2>4
    <3>2. PICK x \in T \ {z} : \A y \in T \ {z} : x <= y
      BY <3>1
    <3>3. x \in Int /\ z \in Int
      BY <3>2
    <3>4. CASE x <= z
      BY <3>2, <3>4
    <3>5. CASE ~(x <= z)
      <4>1. \A y \in T : z <= y
        BY <3>2, <3>3, <3>5
      <4> QED
        BY <4>1
    <3> QED
      BY <3>4, <3>5
  <2> QED
    BY <2>3, <2>4
<1> HIDE DEF N
<1>3. Nat \subseteq N
  BY <1>1, <1>2, Counting
<1>4. Cardinality(S) \in Nat
  BY FS_CardinalityType
<1>5. Has(S)
  BY <1>3, <1>4 DEF N
<1> QED
  BY <1>5 DEF Min

LEMMA ImageFinite ==
    ASSUME NEW S, IsFiniteSet(S), NEW f PROVE IsFiniteSet({f[x] : x \in S})
<1> DEFINE T == {f[x] : x \in S}
           h == [x \in S |-> f[x]]
<1>1. h \in Surjection(S, T)
  BY DEF Surjection
<1> HIDE DEF h, T
<1>2. IsFiniteSet(T)
  BY <1>1, FS_Surjection
<1> QED
  BY <1>2 DEF T

\* Max of 1 .. k.
LEMMA LastIs ==
    ASSUME NEW n \in Nat, NEW k \in 1 .. n
    PROVE  Max(1 .. k) = k /\ (1 .. k) \ {k} = 1 .. k - 1 /\ 1 .. k # {} /\ 1 .. k \in SUBSET (1 .. n)
<1>1. \A y \in 1 .. k : k >= y
  OBVIOUS
<1>2. \A x \in 1 .. k : (\A y \in 1 .. k : x >= y) => x = k
  OBVIOUS
<1>3. k \in 1 .. k
  OBVIOUS
<1>4. Max(1 .. k) = k
  BY <1>1, <1>2, <1>3 DEF Max
<1> QED
  BY <1>3, <1>4

\* Max of any of these.
LEMMA MaxAmong ==
    ASSUME NEW n \in Nat, NEW s \in SUBSET (1 .. n), s # {} PROVE Max(s) \in s
<1>1. IsFiniteSet(1 .. n)
  BY FS_Interval
<1>2. IsFiniteSet(s) /\ s \in SUBSET Int
  <2> DEFINE D == 1 .. n
  <2>1. s \in SUBSET Int /\ s \in SUBSET D /\ IsFiniteSet(D)
    BY <1>1
  <2> HIDE DEF D
  <2> QED
    BY <2>1, FS_Subset
<1> QED
  BY <1>2, MaxIs

Begin(I) == [reached |-> {CHOOSE a \in I : \A b \in I : Min(a) <= Min(b)}, joins |-> {}]

Onward(was, I) == Reach(was, Nearest(was.reached, I), I)

\* The rounds of islandJoins, as a function of how many there were.
LEMMA RoundsOfJoins ==
    ASSUME NEW I, IsIslands(I), NEW n \in Nat, n + 1 = Cardinality(I), Begin(I).reached \in SUBSET I
    PROVE  \E f :
              /\ f[0] = Begin(I)
              /\ \A k \in 1 .. n : f[k] = Onward(f[k - 1], I)
              /\ IslandJoins(I) = f[n].joins
<1> DEFINE D == 1 .. n
           X == [reached : SUBSET I, joins : SUBSET (PadLinks(I) \cup {Shortest({})})]
           g == [p \in X \X D |-> Onward(p[1], I)]
           c == [s \in SUBSET D |-> Max(s)]
           Folds(i) == i = [s \in SUBSET D |->
                              IF s = {} THEN Begin(I)
                              ELSE LET x == Max(s) IN Onward(i[s \ {x}], I)]
           iter == CHOOSE i : Folds(i)
<1>1. Begin(I) \in X
  BY DEF Begin
<1>2. ASSUME NEW st \in X PROVE Onward(st, I) \in X
  <2> DEFINE S == (UNION st.reached) \X UNION (I \ st.reached)
             l == Nearest(st.reached, I)
  <2>1. S \in SUBSET PadLinks(I) /\ S \in SUBSET IntLinks
    <3>1. S \in SUBSET PadLinks(I)
      BY DEF PadLinks
    <3> QED
      BY <3>1, LinksAreInts
  <2>2. l = Shortest(S)
    BY DEF Nearest
  <2>3. l \in PadLinks(I) \cup {Shortest({})}
    <3> HIDE DEF S, l, X
    <3>1. CASE S = {}
      BY <2>2, <3>1
    <3>2. CASE S # {}
      BY <2>1, <2>2, <3>2, ShortestIs
    <3> QED
      BY <3>1, <3>2
  <2> HIDE DEF l
  <2>4. Reach(st, l, I) \in X
    BY <2>3 DEF Reach
  <2> QED
    BY <2>4 DEF l, Onward
<1>3. \A s \in SUBSET D : s # {} => c[s] \in s
  BY MaxAmong
<1>4. PICK F \in [SUBSET D -> X] : IsFold(F, D, Begin(I), c, g)
  <2>1. g \in [X \X D -> X]
    <3> HIDE DEF X, D
    <3> QED
      BY <1>2
  <2>2. IsFiniteSet(D)
    BY FS_Interval
  <2> HIDE DEF g, c, X, D
  <2> QED
    BY <1>1, <1>3, <2>1, <2>2, FoldsExist
<1>5. Folds(F)
  <2>1. ASSUME NEW s \in SUBSET D
        PROVE  F[s] = IF s = {} THEN Begin(I) ELSE LET x == Max(s) IN Onward(F[s \ {x}], I)
    <3>1. IsFoldAt(F, Begin(I), c, g, s)
      BY <1>4 DEF IsFold
    <3>2. CASE s = {}
      BY <3>1, <3>2 DEF IsFoldAt
    <3>3. CASE s # {}
      <4>1. c[s] = Max(s) /\ Max(s) \in D
        BY <1>3, <3>3
      <4>2. F[s \ {Max(s)}] \in X
        <5> HIDE DEF X, D
        <5> QED
          OBVIOUS
      <4>3. F[s] = g[<<F[s \ {Max(s)}], Max(s)>>]
        <5> HIDE DEF X, D, g, c
        <5> QED
          BY <3>1, <3>3, <4>1 DEF IsFoldAt
      <4>4. <<F[s \ {Max(s)}], Max(s)>> \in X \X D
        <5> HIDE DEF X, D
        <5> QED
          BY <4>1, <4>2
      <4>5. g[<<F[s \ {Max(s)}], Max(s)>>] = Onward(F[s \ {Max(s)}], I)
        <5> HIDE DEF X, D
        <5> QED
          BY <4>4
      <4> QED
        BY <3>3, <4>3, <4>5
    <3> QED
      BY <3>2, <3>3
  <2> HIDE DEF X, D, c, g
  <2> QED
    BY <2>1
<1>6. Folds(iter)
  <2> HIDE DEF Folds
  <2> QED
    BY <1>5
<1>7. IslandJoins(I) = iter[D].joins
  <2>1. Cardinality(I) - 1 = n
    OBVIOUS
  <2>2. DOMAIN [k \in 1 .. n |-> k] = 1 .. n
    OBVIOUS
  <2> QED
    BY <2>1, <2>2 DEF IslandJoins, FoldLeft, MapThenFoldSet, Begin, Onward
<1> HIDE DEF iter
<1> DEFINE f == [k \in 0 .. n |-> iter[1 .. k]]
<1>8. \A s \in SUBSET D : iter[s] = IF s = {} THEN Begin(I) ELSE Onward(iter[s \ {Max(s)}], I)
  <2> HIDE DEF D
  <2> QED
    BY <1>6
<1>9. f[0] = Begin(I)
  <2>1. 1 .. 0 = {} /\ 0 \in 0 .. n
    OBVIOUS
  <2> QED
    BY <1>8, <2>1
<1>10. ASSUME NEW k \in 1 .. n PROVE f[k] = Onward(f[k - 1], I)
  <2>1. k \in 0 .. n /\ k - 1 \in 0 .. n
    OBVIOUS
  <2>2. Max(1 .. k) = k /\ (1 .. k) \ {k} = 1 .. k - 1 /\ 1 .. k # {} /\ 1 .. k \in SUBSET D
    BY LastIs
  <2>3. iter[1 .. k] = Onward(iter[1 .. k - 1], I)
    <3> HIDE DEF D
    <3> QED
      BY <1>8, <2>2
  <2> QED
    BY <2>1, <2>3
<1>11. f[n] = iter[D]
  OBVIOUS
<1> HIDE DEF f
<1> QED
  BY <1>7, <1>9, <1>10, <1>11

\* islandJoins joins the islands with as little copper as any connections would.
LEMMA IslandJoinsIs ==
    ASSUME NEW I, IsIslands(I)
    PROVE  /\ IslandJoins(I) \in SUBSET PadLinks(I) /\ Joins(IslandJoins(I), I)
           /\ \A T \in SUBSET PadLinks(I) : IsFiniteSet(T) /\ Joins(T, I) => Copper(IslandJoins(I)) <= Copper(T)
<1> DEFINE n == Cardinality(I) - 1
           first == CHOOSE a \in I : \A b \in I : Min(a) <= Min(b)
<1>1. n \in Nat /\ n + 1 = Cardinality(I)
  <2>1. Cardinality(I) \in Nat /\ Cardinality(I) # 0
    BY FS_CardinalityType, FS_EmptySet DEF IsIslands
  <2> QED
    BY <2>1
<1>2. first \in I
  <2> DEFINE M == {Min(a) : a \in I}
  <2>1. \A a \in I : Min(a) \in Int
    <3> SUFFICES ASSUME NEW a \in I PROVE Min(a) \in Int
      OBVIOUS
    <3>1. a \in SUBSET Int /\ IsFiniteSet(a) /\ a # {}
      BY DEF IsIslands
    <3>2. Min(a) \in a
      BY <3>1, MinIs
    <3> QED
      BY <3>1, <3>2
  <2>2. M \in SUBSET Int /\ M # {} /\ IsFiniteSet(M)
    <3> DEFINE h == [a \in I |-> Min(a)]
    <3>1. IsFiniteSet({h[a] : a \in I})
      <4>1. IsFiniteSet(I)
        BY DEF IsIslands
      <4> HIDE DEF h
      <4> QED
        BY <4>1, ImageFinite
    <3>2. {h[a] : a \in I} = M
      OBVIOUS
    <3>3. I # {}
      BY DEF IsIslands
    <3> QED
      BY <2>1, <3>1, <3>2, <3>3
  <2>3. Min(M) \in M /\ \A y \in M : Min(M) <= y
    <3> HIDE DEF M
    <3> QED
      BY <2>2, MinIs
  <2>4. PICK a \in I : Min(M) = Min(a)
    BY <2>3
  <2>5. \A b \in I : Min(a) <= Min(b)
    BY <2>3, <2>4
  <2> QED
    BY <2>5
<1> HIDE DEF first
<1>3. Begin(I) = [reached |-> {first}, joins |-> {}]
  BY DEF Begin, first
<1>4. PICK f : /\ f[0] = Begin(I)
               /\ \A k \in 1 .. n : f[k] = Onward(f[k - 1], I)
               /\ IslandJoins(I) = f[n].joins
  <2>1. Begin(I).reached \in SUBSET I
    BY <1>2, <1>3
  <2> HIDE DEF n
  <2> QED
    BY <1>1, <2>1, RoundsOfJoins
<1> HIDE DEF n
<1> DEFINE K == {k \in Nat : k <= n => Reaches(f[k], k, I)}
<1>5. 0 \in K
  BY <1>2, <1>3, <1>4, FirstReaches
<1>6. ASSUME NEW k \in Nat, k \in K PROVE k + 1 \in K
  <2> SUFFICES ASSUME k + 1 <= n PROVE Reaches(f[k + 1], k + 1, I)
    OBVIOUS
  <2>1. k + 1 \in 1 .. n /\ (k + 1) - 1 = k /\ Reaches(f[k], k, I)
    BY <1>1, <1>6
  <2>2. f[k + 1] = Onward(f[k], I)
    BY <1>4, <2>1
  <2>3. f[k].reached # I
    BY <1>1, <2>1 DEF Reaches
  <2>4. Reaches(Reach(f[k], Nearest(f[k].reached, I), I), k + 1, I)
    BY <2>1, <2>3, NextReaches
  <2> QED
    BY <2>2, <2>4 DEF Onward
<1>7. Nat \subseteq K
  <2> HIDE DEF K
  <2> QED
    BY <1>5, <1>6, Counting
<1>8. Reaches(f[n], n, I)
  BY <1>1, <1>7
<1> QED
  BY <1>1, <1>4, <1>8, AllReached

--------------------------------------------------------------------------------
(* The interfaces read are of the nets they were read from *)

IsGroup(g, B) ==
    /\ g = Group(g.name, g.reference, g.members, g.limit)
    /\ g.members \in SUBSET B /\ g.reference \in B \cup {0} /\ g.limit \in Nat /\ g.name[1] # "pair"

ArePairs(pairs, B) == \A q \in pairs : q.p \in B /\ q.n \in B

Alike(g, h) == g.name = h.name => g.limit = h.limit

AreGroups(groups, B) == (\A g \in groups : IsGroup(g, B)) /\ \A g, h \in groups : Alike(g, h)

IsInterface(i, B) ==
    /\ i = [kind |-> i.kind, instance |-> i.instance, nets |-> i.nets, pairs |-> i.pairs,
            groups |-> i.groups, name |-> i.name]
    /\ i.kind \in DOMAIN Label /\ i.nets \in SUBSET B /\ ArePairs(i.pairs, B)
    /\ AreGroups(i.groups, B)

LEMMA MinOf == ASSUME NEW S \in SUBSET Nat, S # {} PROVE Min(S) \in S
<1>1. PICK x \in S : \A y \in S : x <= y
  BY LeastOf
<1> QED
  BY <1>1 DEF Min

LEMMA FirstOfIs == ASSUME NEW S \in SUBSET Nat PROVE FirstOf(S) \in S \cup {0}
BY MinOf DEF FirstOf

LEMMA PairsOfNets == ASSUME NEW ns PROVE ArePairs(FindPairs(ns), ns)
<1>1. \A n, w : With(n, w, ns) \subseteq ns
  BY DEF With
<1>2. \A n, ws : FirstWith(n, ws, ns) \subseteq ns
  BY <1>1 DEF FirstWith
<1>3. \A n : Partners(n, ns) \subseteq ns
  BY <1>2 DEF Partners
<1> QED
  BY <1>3 DEF FindPairs, ArePairs

\* More nets, or fewer pairs.
LEMMA PairsAmong ==
    ASSUME NEW pairs, NEW some \in SUBSET pairs, NEW ns, NEW B, ns \subseteq B, ArePairs(pairs, ns)
    PROVE  ArePairs(some, B)
BY DEF ArePairs

LEMMA Among ==
    ASSUME NEW i, NEW S, NEW B, S \subseteq B, IsInterface(i, S) PROVE IsInterface(i, B)
BY DEF IsInterface, IsGroup, ArePairs, AreGroups

LEMMA NamedIs ==
    ASSUME NEW i, NEW B, NEW family, IsInterface(i, B) PROVE IsInterface(Named(i, family), B)
BY DEF IsInterface, Named

\* An interface that is its pairs, or nothing more than its nets.
LEMMA PlainIs ==
    ASSUME NEW kind \in DOMAIN Label, NEW instance, NEW B, NEW ns \in SUBSET B, NEW pairs, ArePairs(pairs, B)
    PROVE  IsInterface(Interface(kind, instance, ns, pairs, {}), B)
BY DEF IsInterface, Interface, AreGroups

LEMMA PairedAmong == ASSUME NEW pairs, NEW B, ArePairs(pairs, B) PROVE Paired(pairs) \in SUBSET B
BY DEF ArePairs, Paired

LEMMA OfPairsIs ==
    ASSUME NEW kind \in DOMAIN Label, NEW ns, NEW family, NEW i \in OfPairs(kind, ns, FindPairs(ns), family)
    PROVE  IsInterface(i, ns)
<1>1. i = Named(Interface(kind, KeyOf(ns), Paired(FindPairs(ns)), FindPairs(ns), {}), family)
  BY DEF OfPairs
<1>2. ArePairs(FindPairs(ns), ns)
  BY PairsOfNets
<1>3. Paired(FindPairs(ns)) \in SUBSET ns
  BY <1>2, PairedAmong
<1>4. IsInterface(Interface(kind, KeyOf(ns), Paired(FindPairs(ns)), FindPairs(ns), {}), ns)
  BY <1>2, <1>3, PlainIs
<1> QED
  BY <1>1, <1>4, NamedIs

Kinds == DOMAIN Label

LEMMA KindsAre == Kinds = {"ddr", "rgmii", "mipi", "pcie", "usb2", "sdmmc", "differential"}
BY DEF Kinds, Label

LEMMA InstanceAmong ==
    ASSUME NEW nets, NEW some \in SUBSET nets, NEW ns \in ByInstance(some) PROVE ns \in SUBSET nets
<1>1. PICK k : ns = {n \in some : Key(n) = k}
  BY DEF ByInstance
<1> QED
  BY <1>1

\* One group, of nets of the interface.
LEMMA GroupIs ==
    ASSUME NEW B, NEW name, NEW reference \in B \cup {0}, NEW members \in SUBSET B, NEW limit \in Nat,
           name[1] # "pair"
    PROVE  IsGroup(Group(name, reference, members, limit), B)
BY DEF IsGroup, Group

LEMMA OneGroup == ASSUME NEW B, NEW g, IsGroup(g, B) PROVE AreGroups({g}, B)
BY DEF AreGroups, Alike

LEMMA GroupedIs ==
    ASSUME NEW kind \in DOMAIN Label, NEW instance, NEW B, NEW ns \in SUBSET B, NEW pairs, ArePairs(pairs, B),
           NEW groups, AreGroups(groups, B)
    PROVE  IsInterface(Interface(kind, instance, ns, pairs, groups), B)
BY DEF IsInterface, Interface

LEMMA DDRIs ==
    ASSUME NEW nets \in SUBSET Nat, NEW i \in detectDDR(nets)
    PROVE  IsInterface(i, nets)
<1> DEFINE some == {n \in nets : Bare(Signal(n)) \in DdrSignals}
<1>1. some \in SUBSET nets
  OBVIOUS
<1>6. PICK ns \in ByInstance(some) : i = Named(Interface("ddr", KeyOf(ns), ns, FindPairs(ns), {}), "DDR")
  BY DEF detectDDR
<1>7. ns \in SUBSET nets
  <2> HIDE DEF some
  <2> QED
    BY <1>1, <1>6, InstanceAmong
<1>2. "ddr" \in DOMAIN Label
  BY KindsAre DEF Kinds
<1>3. ArePairs(FindPairs(ns), ns)
  BY PairsOfNets
<1>4. ArePairs(FindPairs(ns), nets)
  BY <1>7, <1>3, PairsAmong
<1>5. IsInterface(Interface("ddr", KeyOf(ns), ns, FindPairs(ns), {}), nets)
  BY <1>7, <1>2, <1>4, PlainIs
<1> QED
  BY <1>6, <1>5, NamedIs

LEMMA RGMIIIs ==
    ASSUME NEW nets \in SUBSET Nat, NEW i \in detectRGMII(nets)
    PROVE  IsInterface(i, nets)
<1>1. PICK ns \in EthBuses({n \in nets : EthStart(n) > 0}) :
         i \in Rgmii(ns, {n \in ns : EthSignal(n) \in RgmiiTx}, {n \in ns : EthSignal(n) \in RgmiiRx \ RgmiiTx})
  BY DEF detectRGMII
<1> DEFINE tx == {n \in ns : EthSignal(n) \in RgmiiTx}
           rx == {n \in ns : EthSignal(n) \in RgmiiRx \ RgmiiTx}
<1>2. ns \in SUBSET nets
  <2> DEFINE claimed == {n \in nets : EthStart(n) > 0}
  <2>1. claimed \in SUBSET nets /\ ns \in EthBuses(claimed)
    BY <1>1
  <2> HIDE DEF claimed
  <2>2. PICK k \in {EthInstance(n) : n \in claimed} : ns = {n \in claimed : EthInstance(n) = k}
    BY <2>1, Zenon DEF EthBuses
  <2> QED
    BY <2>1, <2>2
<1>3. tx \in SUBSET nets /\ rx \in SUBSET nets
  BY <1>2
<1>4. i \in Rgmii(ns, tx, rx)
  BY <1>1
<1> HIDE DEF tx, rx
<1> DEFINE g == Group(<<"transmit", 0>>, EthClock(tx, RgmiiTxClock), tx, GroupLimit["rgmii"])
           h == Group(<<"receive", 0>>, EthClock(rx, RgmiiRxClock), rx, GroupLimit["rgmii"])
<1>5. i = Interface("rgmii", EthInstance(Min(ns)), ns, {}, {g, h})
  BY <1>4 DEF Rgmii
<1>6. "rgmii" \in DOMAIN Label
  BY KindsAre DEF Kinds
<1>7. GroupLimit["rgmii"] \in Nat
  BY <1>6, InterfacesAssumption
<1>8. EthClock(tx, RgmiiTxClock) \in nets \cup {0} /\ EthClock(rx, RgmiiRxClock) \in nets \cup {0}
  <2>1. ASSUME NEW S \in SUBSET nets, NEW names PROVE EthClock(S, names) \in nets \cup {0}
    <3>1. {n \in S : EthSignal(n) \in names} \in SUBSET Nat
      OBVIOUS
    <3> QED
      BY <3>1, FirstOfIs DEF EthClock
  <2> QED
    BY <1>3, <2>1
<1>9. IsGroup(g, nets) /\ IsGroup(h, nets)
  BY <1>3, <1>7, <1>8, GroupIs
<1>11. g.limit = h.limit
  BY DEF Group
<1> HIDE DEF g, h
<1>10. ArePairs({}, nets) /\ AreGroups({g, h}, nets)
  BY <1>9, <1>11 DEF ArePairs, AreGroups, Alike
<1> QED
  BY <1>2, <1>5, <1>6, <1>10, GroupedIs

LEMMA MIPIIs ==
    ASSUME NEW nets \in SUBSET Nat, NEW i \in detectMIPI(nets)
    PROVE  IsInterface(i, nets)
<1>1. PICK ns \in ByInstance({n \in nets : Signal(n) \in MipiClock \cup MipiLane}) : i \in MipiLink(ns, FindPairs(ns))
  BY DEF detectMIPI
<1> DEFINE pairs == FindPairs(ns)
           clocks == {q.p : q \in {r \in pairs : Signal(r.p) \in MipiClock}}
           lanes == {q.p : q \in {r \in pairs : Signal(r.p) \notin MipiClock}}
<1>2. ns \in SUBSET nets
  <2> DEFINE some == {n \in nets : Signal(n) \in MipiClock \cup MipiLane}
  <2>1. some \in SUBSET nets /\ ns \in ByInstance(some)
    BY <1>1
  <2> HIDE DEF some
  <2> QED
    BY <2>1, InstanceAmong
<1>3. ArePairs(pairs, nets)
  <2>1. ArePairs(pairs, ns)
    BY PairsOfNets
  <2> HIDE DEF pairs
  <2> QED
    BY <1>2, <2>1, PairsAmong
<1>4. clocks \in SUBSET nets /\ lanes \in SUBSET nets
  <2>1. \A q \in pairs : q.p \in nets
    BY <1>3 DEF ArePairs
  <2> HIDE DEF pairs
  <2>2. ASSUME NEW c \in clocks PROVE c \in nets
    BY <2>1
  <2>3. ASSUME NEW c \in lanes PROVE c \in nets
    BY <2>1
  <2> HIDE DEF clocks, lanes
  <2> QED
    BY <2>2, <2>3
<1>5. i \in Mipi(ns, pairs, clocks, lanes)
  BY <1>1 DEF MipiLink
<1> HIDE DEF pairs, clocks, lanes
<1> DEFINE plain == {n \in clocks : Signal(n) \in MipiPlain}
           g == Group(<<"data lanes to clock", 0>>, PlainClock(plain, clocks), lanes, GroupLimit["mipi"])
<1>6. i = Interface("mipi", KeyOf(ns), ns, pairs, {g})
  BY <1>5 DEF Mipi
<1>7. "mipi" \in DOMAIN Label
  BY KindsAre DEF Kinds
<1>8. GroupLimit["mipi"] \in Nat
  BY <1>7, InterfacesAssumption
<1>9. PlainClock(plain, clocks) \in nets \cup {0}
  <2>1. plain \in SUBSET Nat /\ clocks \in SUBSET Nat /\ plain \subseteq nets
    BY <1>4
  <2> HIDE DEF plain
  <2> QED
    BY <1>4, <2>1, FirstOfIs, MinOf DEF PlainClock
<1>10. IsGroup(g, nets)
  <2> HIDE DEF plain
  <2> QED
    BY <1>4, <1>8, <1>9, GroupIs
<1> HIDE DEF g
<1>11. AreGroups({g}, nets)
  BY <1>10, OneGroup
<1> QED
  BY <1>2, <1>3, <1>6, <1>7, <1>11, GroupedIs

LEMMA PCIeIs ==
    ASSUME NEW nets \in SUBSET Nat, NEW i \in detectPCIe(nets)
    PROVE  IsInterface(i, nets)
<1> DEFINE some == {n \in nets : PcieLike(Signal(n))}
<1>1. PICK ns \in ByInstance(some) : i \in OfPairs("pcie", ns, FindPairs(ns), "PCIE")
  BY DEF detectPCIe
<1>4. ns \in SUBSET nets
  <2>1. some \in SUBSET nets
    OBVIOUS
  <2> HIDE DEF some
  <2> QED
    BY <1>1, <2>1, InstanceAmong
<1>2. "pcie" \in DOMAIN Label
  BY KindsAre DEF Kinds
<1>3. IsInterface(i, ns)
  BY <1>1, <1>2, OfPairsIs
<1> QED
  BY <1>4, <1>3, Among

LEMMA USBIs ==
    ASSUME NEW nets \in SUBSET Nat, NEW i \in detectUSB(nets)
    PROVE  IsInterface(i, nets)
<1> DEFINE some == {n \in nets : UsbLike(Signal(n))}
<1>1. PICK ns \in ByInstance(some) : i \in OfPairs("usb2", ns, FindPairs(ns), "USB")
  BY DEF detectUSB
<1>4. ns \in SUBSET nets
  <2>1. some \in SUBSET nets
    OBVIOUS
  <2> HIDE DEF some
  <2> QED
    BY <1>1, <2>1, InstanceAmong
<1>2. "usb2" \in DOMAIN Label
  BY KindsAre DEF Kinds
<1>3. IsInterface(i, ns)
  BY <1>1, <1>2, OfPairsIs
<1> QED
  BY <1>4, <1>3, Among

LEMMA SDMMCIs ==
    ASSUME NEW nets \in SUBSET Nat, NEW i \in detectSDMMC(nets)
    PROVE  IsInterface(i, nets)
<1>1. PICK ns \in SdGroups({n \in nets : SdName(n)[1] # ""}) :
         i \in SdBus(ns, FirstOf({n \in ns : SdName(n)[2] \in SdClocks}))
  BY DEF detectSDMMC
<1> DEFINE clock == FirstOf({n \in ns : SdName(n)[2] \in SdClocks})
           g == Group(<<"command and data to clock", 0>>, clock, ns \ {clock}, GroupLimit["sdmmc"])
<1>2. ns \in SUBSET nets
  <2> DEFINE claimed == {n \in nets : SdName(n)[1] # ""}
  <2>1. claimed \in SUBSET nets /\ ns \in SdGroups(claimed)
    BY <1>1
  <2> HIDE DEF claimed
  <2>2. PICK k \in {SdName(n)[1] : n \in claimed} : ns = {n \in claimed : SdName(n)[1] = k}
    BY <2>1, Zenon DEF SdGroups
  <2> QED
    BY <2>1, <2>2
<1>3. clock \in nets \cup {0}
  <2>1. {n \in ns : SdName(n)[2] \in SdClocks} \in SUBSET Nat
    BY <1>2
  <2> QED
    BY <1>2, <2>1, FirstOfIs
<1>4. i \in SdBus(ns, clock)
  BY <1>1
<1> HIDE DEF clock
<1>5. i = Interface("sdmmc", <<SdName(Min(ns))[1]>>, ns, {}, {g})
  BY <1>4 DEF SdBus
<1>6. "sdmmc" \in DOMAIN Label
  BY KindsAre DEF Kinds
<1>7. GroupLimit["sdmmc"] \in Nat
  BY <1>6, InterfacesAssumption
<1>8. IsGroup(g, nets)
  <2>1. ns \ {clock} \in SUBSET nets
    BY <1>2
  <2> QED
    BY <1>3, <1>7, <2>1, GroupIs
<1> HIDE DEF g
<1>9. ArePairs({}, nets) /\ AreGroups({g}, nets)
  BY <1>8, OneGroup DEF ArePairs
<1> QED
  BY <1>2, <1>5, <1>6, <1>9, GroupedIs

LEMMA LeftoverIs ==
    ASSUME NEW nets \in SUBSET Nat, NEW i \in detectLeftoverPairs(nets)
    PROVE  IsInterface(i, nets)
<1> DEFINE all == FindPairs(nets)
           of(s) == {q \in all : Scope(q.p) = s}
<1>1. PICK s : i = Interface("differential", s, Paired(of(s)), of(s), {})
  BY DEF detectLeftoverPairs, Leftover
<1>2. "differential" \in DOMAIN Label
  BY KindsAre DEF Kinds
<1>3. ArePairs(of(s), nets)
  BY PairsOfNets, PairsAmong
<1> HIDE DEF of
<1>4. Paired(of(s)) \in SUBSET nets
  BY <1>3, PairedAmong
<1> QED
  BY <1>1, <1>2, <1>3, <1>4, PlainIs

LEMMA DetectorAre ==
    ASSUME NEW nets
    PROVE  /\ Detector(1, nets) = detectDDR(nets)
           /\ Detector(2, nets) = detectRGMII(nets)
           /\ Detector(3, nets) = detectMIPI(nets)
           /\ Detector(4, nets) = detectPCIe(nets)
           /\ Detector(5, nets) = detectUSB(nets)
           /\ Detector(6, nets) = detectSDMMC(nets)
           /\ Detector(7, nets) = detectLeftoverPairs(nets)
BY DEF Detector

LEMMA UpToSeven ==
    ASSUME NEW d \in 1 .. 7 PROVE d = 1 \/ d = 2 \/ d = 3 \/ d = 4 \/ d = 5 \/ d = 6 \/ d = 7
OBVIOUS

LEMMA DetectorIs ==
    ASSUME NEW nets \in SUBSET Nat, NEW d \in 1 .. 7, NEW i \in Detector(d, nets)
    PROVE  IsInterface(i, nets)
<1>1. d = 1 \/ d = 2 \/ d = 3 \/ d = 4 \/ d = 5 \/ d = 6 \/ d = 7
  BY UpToSeven, Zenon
<1>2. CASE d = 1
  <2>1. i \in detectDDR(nets)
    BY <1>2, DetectorAre
  <2> QED
    BY <2>1, DDRIs
<1>3. CASE d = 2
  <2>1. i \in detectRGMII(nets)
    BY <1>3, DetectorAre
  <2> QED
    BY <2>1, RGMIIIs
<1>4. CASE d = 3
  <2>1. i \in detectMIPI(nets)
    BY <1>4, DetectorAre
  <2> QED
    BY <2>1, MIPIIs
<1>5. CASE d = 4
  <2>1. i \in detectPCIe(nets)
    BY <1>5, DetectorAre
  <2> QED
    BY <2>1, PCIeIs
<1>6. CASE d = 5
  <2>1. i \in detectUSB(nets)
    BY <1>6, DetectorAre
  <2> QED
    BY <2>1, USBIs
<1>7. CASE d = 6
  <2>1. i \in detectSDMMC(nets)
    BY <1>7, DetectorAre
  <2> QED
    BY <2>1, SDMMCIs
<1>8. CASE d = 7
  <2>1. i \in detectLeftoverPairs(nets)
    BY <1>8, DetectorAre
  <2> QED
    BY <2>1, LeftoverIs
<1> QED
  BY <1>1, <1>2, <1>3, <1>4, <1>5, <1>6, <1>7, <1>8

--------------------------------------------------------------------------------
(* What is found, and where a signal runs *)

\* Steps taken for 1, 2 and so on, as a function of those taken.
IsRun(F, n, x0, g) ==
    \A s \in SUBSET (1 .. n) : F[s] = IF s = {} THEN x0 ELSE g[<<F[s \ {Max(s)}], Max(s)>>]

LEMMA RunsExist ==
    ASSUME NEW n \in Nat, NEW X, NEW x0 \in X, NEW g \in [X \X (1 .. n) -> X]
    PROVE  \E F \in [SUBSET (1 .. n) -> X] : IsRun(F, n, x0, g)
<1> DEFINE D == 1 .. n
           c == [s \in SUBSET D |-> Max(s)]
<1>1. IsFiniteSet(D)
  BY FS_Interval
<1>2. \A s \in SUBSET D : s # {} => c[s] \in s
  BY MaxAmong
<1>3. PICK F \in [SUBSET D -> X] : IsFold(F, D, x0, c, g)
  <2>1. g \in [X \X D -> X]
    OBVIOUS
  <2> HIDE DEF c, D
  <2> QED
    BY <1>1, <1>2, <2>1, FoldsExist
<1>4. ASSUME NEW s \in SUBSET D PROVE F[s] = IF s = {} THEN x0 ELSE g[<<F[s \ {Max(s)}], Max(s)>>]
  <2>1. IsFoldAt(F, x0, c, g, s) /\ c[s] = Max(s)
    BY <1>3 DEF IsFold
  <2> HIDE DEF c, D
  <2> QED
    BY <2>1 DEF IsFoldAt
<1> QED
  BY <1>3, <1>4 DEF IsRun

\* Every interface found on a board is of its nets.
LEMMA DetectIs ==
    ASSUME NEW nets \in SUBSET Nat, NEW i \in Detect(nets)
    PROVE  IsInterface(i, nets)
<1> DEFINE U == UNION {Detector(p[1], p[2]) : p \in (1 .. 7) \X SUBSET nets}
           X == SUBSET U
           D == 1 .. 7
           g == [p \in X \X D |-> Claim(p[2], p[1], nets)]
           Q == <<1, 2, 3, 4, 5, 6, 7>>
           Folds(r) == r = [s \in SUBSET D |->
                              IF s = {} THEN {}
                              ELSE LET x == Max(s) IN Claim(Q[x], r[s \ {x}], nets)]
           iter == CHOOSE r : Folds(r)
<1>1. ASSUME NEW fs \in X, NEW d \in D PROVE Claim(d, fs, nets) \in X
  <2>1. Available(nets, fs) \in SUBSET nets
    BY DEF Available
  <2>2. Detector(d, Available(nets, fs)) \in X
    <3> DEFINE p == <<d, Available(nets, fs)>>
    <3>1. p \in (1 .. 7) \X SUBSET nets /\ p[1] = d /\ p[2] = Available(nets, fs)
      BY <2>1
    <3> HIDE DEF p
    <3> QED
      BY <3>1
  <2> QED
    BY <2>2 DEF Claim
<1>2. {} \in X
  OBVIOUS
<1>3. PICK F \in [SUBSET D -> X] : IsRun(F, 7, {}, g)
  <2>1. g \in [X \X D -> X]
    <3> HIDE DEF X, D
    <3> QED
      BY <1>1
  <2> HIDE DEF g, X
  <2> QED
    BY <1>2, <2>1, RunsExist
<1>4. \A x \in D : Q[x] = x
  OBVIOUS
<1>5. \A s \in SUBSET D : s # {} => Max(s) \in s /\ Max(s) \in D
  BY MaxAmong
<1>6. Folds(F)
  <2>1. ASSUME NEW s \in SUBSET D
        PROVE  F[s] = IF s = {} THEN {} ELSE LET x == Max(s) IN Claim(Q[x], F[s \ {x}], nets)
    <3>1. F[s] = IF s = {} THEN {} ELSE g[<<F[s \ {Max(s)}], Max(s)>>]
      BY <1>3 DEF IsRun
    <3>2. CASE s = {}
      BY <3>1, <3>2
    <3>3. CASE s # {}
      <4>1. Max(s) \in D /\ Q[Max(s)] = Max(s) /\ F[s \ {Max(s)}] \in X
        <5> HIDE DEF D, X, Q
        <5> QED
          BY <1>4, <1>5, <3>3
      <4>2. g[<<F[s \ {Max(s)}], Max(s)>>] = Claim(Max(s), F[s \ {Max(s)}], nets)
        <5> HIDE DEF D, X, Q
        <5> QED
          BY <4>1
      <4> HIDE DEF g, Q, D, X
      <4> QED
        BY <3>1, <3>3, <4>1, <4>2
    <3> QED
      BY <3>2, <3>3
  <2> HIDE DEF X, D, g, Q
  <2> QED
    BY <2>1
<1>7. Folds(iter)
  <2> HIDE DEF Folds
  <2> QED
    BY <1>6
<1>8. Detect(nets) = iter[D]
  <2>1. DOMAIN Q = 1 .. 7
    OBVIOUS
  <2> HIDE DEF Q
  <2> QED
    BY <2>1 DEF Detect, FoldLeft, MapThenFoldSet, Q
<1> HIDE DEF iter
<1>9. \A s \in SUBSET D : iter[s] = IF s = {} THEN {} ELSE Claim(Q[Max(s)], iter[s \ {Max(s)}], nets)
  <2> HIDE DEF D, Q
  <2> QED
    BY <1>7
<1> DEFINE K == {k \in Nat : k <= 7 => iter[1 .. k] \in X}
<1>10. 0 \in K
  <2>1. 1 .. 0 = {}
    OBVIOUS
  <2> QED
    BY <1>9, <2>1
<1>11. ASSUME NEW k \in Nat, k \in K PROVE k + 1 \in K
  <2> SUFFICES ASSUME k + 1 <= 7 PROVE iter[1 .. k + 1] \in X
    OBVIOUS
  <2>1. k + 1 \in 1 .. 7 /\ (k + 1) - 1 = k /\ iter[1 .. k] \in X
    BY <1>11
  <2>2. Max(1 .. k + 1) = k + 1 /\ (1 .. k + 1) \ {k + 1} = 1 .. k /\ 1 .. k + 1 # {} /\ 1 .. k + 1 \in SUBSET D
    <3> DEFINE m == k + 1
    <3>1. m \in 1 .. 7 /\ 7 \in Nat /\ m - 1 = k
      BY <2>1
    <3> HIDE DEF m
    <3>2. Max(1 .. m) = m /\ (1 .. m) \ {m} = 1 .. m - 1 /\ 1 .. m # {} /\ 1 .. m \in SUBSET (1 .. 7)
      BY <3>1, LastIs
    <3> QED
      BY <3>1, <3>2 DEF m
  <2>3. iter[1 .. k + 1] = Claim(k + 1, iter[1 .. k], nets)
    <3>1. Q[k + 1] = k + 1
      BY <1>4, <2>1
    <3> HIDE DEF D, Q
    <3> QED
      BY <1>9, <2>2, <3>1
  <2> HIDE DEF X
  <2> QED
    BY <1>1, <2>1, <2>3
<1>12. Nat \subseteq K
  <2> HIDE DEF K
  <2> QED
    BY <1>10, <1>11, Counting
<1>13. iter[D] \in X
  <2>1. 7 \in K
    <3> HIDE DEF K
    <3> QED
      BY <1>12
  <2> QED
    BY <2>1
<1>14. i \in U
  BY <1>8, <1>13
<1>15. PICK p \in (1 .. 7) \X SUBSET nets : i \in Detector(p[1], p[2])
  <2> DEFINE P == (1 .. 7) \X SUBSET nets
  <2> HIDE DEF P
  <2> QED
    BY <1>14
<1>16. p[1] \in 1 .. 7 /\ p[2] \in SUBSET nets /\ p[2] \in SUBSET Nat
  OBVIOUS
<1>17. IsInterface(i, p[2])
  BY <1>15, <1>16, DetectorIs
<1> QED
  BY <1>16, <1>17, Among

Further(was, nets) == (UNION {Links(m, nets) : m \in was.front}) \ was.seen

Beyond(was, nets) == [seen |-> was.seen \cup Further(was, nets), front |-> Further(was, nets)]

\* A signal runs on nets of its board.
LEMMA SegmentsAmong ==
    ASSUME NEW nets, NEW n \in nets PROVE Segments(n, nets) \in SUBSET nets
<1> DEFINE N == MaxSeriesHops
           D == 1 .. N
           X == [seen : SUBSET nets, front : SUBSET nets]
           x0 == [seen |-> {n}, front |-> {n}]
           g == [p \in X \X D |-> Beyond(p[1], nets)]
           Q == [hop \in 1 .. N |-> hop]
           Folds(r) == r = [s \in SUBSET D |->
                              IF s = {} THEN x0
                              ELSE LET x == Max(s) IN Beyond(r[s \ {x}], nets)]
           iter == CHOOSE r : Folds(r)
<1>0. N \in Nat
  BY InterfacesAssumption
<1>1. ASSUME NEW was \in X PROVE Beyond(was, nets) \in X
  <2>1. \A m \in was.front : Links(m, nets) \in SUBSET nets
    BY DEF Links
  <2>2. Further(was, nets) \in SUBSET nets
    BY <2>1 DEF Further
  <2> QED
    BY <2>2 DEF Beyond
<1>2. x0 \in X
  OBVIOUS
<1>3. PICK F \in [SUBSET D -> X] : IsRun(F, N, x0, g)
  <2>1. g \in [X \X D -> X]
    <3> HIDE DEF X, D
    <3> QED
      BY <1>1
  <2> HIDE DEF g, X, x0, N
  <2> QED
    BY <1>0, <1>2, <2>1, RunsExist
<1>5. \A s \in SUBSET D : s # {} => Max(s) \in s /\ Max(s) \in D
  <2> HIDE DEF N
  <2> QED
    BY <1>0, MaxAmong
<1>6. Folds(F)
  <2>1. ASSUME NEW s \in SUBSET D
        PROVE  F[s] = IF s = {} THEN x0 ELSE LET x == Max(s) IN Beyond(F[s \ {x}], nets)
    <3>1. F[s] = IF s = {} THEN x0 ELSE g[<<F[s \ {Max(s)}], Max(s)>>]
      BY <1>3 DEF IsRun
    <3>2. CASE s = {}
      BY <3>1, <3>2
    <3>3. CASE s # {}
      <4>1. Max(s) \in D /\ F[s \ {Max(s)}] \in X
        <5> HIDE DEF D, X
        <5> QED
          BY <1>5, <3>3
      <4>2. g[<<F[s \ {Max(s)}], Max(s)>>] = Beyond(F[s \ {Max(s)}], nets)
        <5> HIDE DEF D, X
        <5> QED
          BY <4>1
      <4> HIDE DEF g, D, X, x0
      <4> QED
        BY <3>1, <3>3, <4>2
    <3> QED
      BY <3>2, <3>3
  <2> HIDE DEF X, D, g, x0
  <2> QED
    BY <2>1
<1>7. Folds(iter)
  <2> HIDE DEF Folds
  <2> QED
    BY <1>6
<1>8. Segments(n, nets) = iter[D].seen
  <2>1. DOMAIN Q = 1 .. N
    OBVIOUS
  <2> HIDE DEF Q
  <2> QED
    BY <2>1 DEF Segments, FoldLeft, MapThenFoldSet, Beyond, Further, Q
<1> HIDE DEF iter
<1>9. \A s \in SUBSET D : iter[s] = IF s = {} THEN x0 ELSE Beyond(iter[s \ {Max(s)}], nets)
  <2> HIDE DEF D, x0
  <2> QED
    BY <1>7
<1> DEFINE K == {k \in Nat : k <= N => iter[1 .. k] \in X}
<1>10. 0 \in K
  <2>1. 1 .. 0 = {}
    OBVIOUS
  <2> HIDE DEF x0
  <2> QED
    BY <1>2, <1>9, <2>1
<1>11. ASSUME NEW k \in Nat, k \in K PROVE k + 1 \in K
  <2> SUFFICES ASSUME k + 1 <= N PROVE iter[1 .. k + 1] \in X
    OBVIOUS
  <2> HIDE DEF N, x0
  <2>1. k + 1 \in 1 .. N /\ (k + 1) - 1 = k /\ iter[1 .. k] \in X
    BY <1>0, <1>11
  <2>2. Max(1 .. k + 1) = k + 1 /\ (1 .. k + 1) \ {k + 1} = 1 .. k /\ 1 .. k + 1 # {} /\ 1 .. k + 1 \in SUBSET (1 .. N)
    <3> DEFINE m == k + 1
    <3>1. m \in 1 .. N /\ m - 1 = k
      BY <2>1
    <3> HIDE DEF m
    <3>2. Max(1 .. m) = m /\ (1 .. m) \ {m} = 1 .. m - 1 /\ 1 .. m # {} /\ 1 .. m \in SUBSET (1 .. N)
      BY <1>0, <3>1, LastIs
    <3> QED
      BY <3>1, <3>2 DEF m
  <2>3. iter[1 .. k + 1] = Beyond(iter[1 .. k], nets)
    <3>1. 1 .. k + 1 \in SUBSET D
      BY <2>2
    <3> HIDE DEF D
    <3> QED
      BY <1>9, <2>2, <3>1
  <2> HIDE DEF X
  <2> QED
    BY <1>1, <2>1, <2>3
<1>12. Nat \subseteq K
  <2> HIDE DEF K
  <2> QED
    BY <1>10, <1>11, Counting
<1>13. iter[D] \in X
  <2>1. N \in K
    <3> HIDE DEF K, N
    <3> QED
      BY <1>0, <1>12
  <2> HIDE DEF N
  <2> QED
    BY <1>0, <2>1
<1> HIDE DEF D
<1> QED
  BY <1>8, <1>13

\* What the signals measure, where the nets measure what they do.
LEMMA MeasureTyped ==
    ASSUME NEW b \in SUBSET Nat, IsFiniteSet(b), NEW own \in [b -> Nat], NEW runs \in [b -> SUBSET b]
    PROVE  Measure(runs, own) \in [b -> Nat]
<1>1. ASSUME NEW n \in b PROVE Joined(runs[n], own) \in Nat
  <2>1. runs[n] \in SUBSET b
    OBVIOUS
  <2>2. IsFiniteSet(runs[n])
    BY <2>1, FS_Subset
  <2> QED
    BY <2>1, <2>2, JoinedTyped
<1> QED
  BY <1>1 DEF Measure

--------------------------------------------------------------------------------
(* What the user says leaves an interface one *)

IsSaying(o, B) == o.kind \in DOMAIN Label \cup {""} /\ o.reference \in B \cup {0}

AreSayings(said, B) == \A id \in DOMAIN said : IsSaying(said[id], B)

AreLimits(limits) == \A p \in DOMAIN limits : limits[p] \in Nat

LEMMA ReassignIs ==
    ASSUME NEW ns \in SUBSET Nat, NEW kind \in DOMAIN Label
    PROVE  IsInterface(Reassign(ns, kind), ns)
<1> DEFINE plain == Interface(kind, <<>>, ns, FindPairs(ns), {})
           named == [plain EXCEPT !.name = <<"family", <<kind>>>>]
           one == OneOf(Structured(ns, kind), named)
<1>1. IsInterface(plain, ns)
  <2>1. ArePairs(FindPairs(ns), ns)
    BY PairsOfNets
  <2> QED
    BY <2>1, PlainIs
<1>2. IsInterface(named, ns)
  <2> HIDE DEF plain
  <2> QED
    BY <1>1 DEF IsInterface
<1>3. IsInterface(one, ns)
  <2> HIDE DEF named
  <2>1. CASE Structured(ns, kind) = {}
    BY <1>2, <2>1 DEF OneOf
  <2>2. CASE Structured(ns, kind) # {}
    <3>1. one \in Structured(ns, kind)
      BY <2>2 DEF OneOf
    <3>2. PICK d \in 1 .. 7 : one \in Detector(d, ns)
      <4> HIDE DEF one
      <4> QED
        BY <3>1 DEF Structured, Detectors
    <3> HIDE DEF one
    <3> QED
      BY <3>2, DetectorIs
  <2> QED
    BY <2>1, <2>2
<1>4. Reassign(ns, kind) = [one EXCEPT !.nets = ns]
  BY DEF Reassign
<1> HIDE DEF one
<1> QED
  BY <1>3, <1>4 DEF IsInterface

LEMMA WithReferenceIs ==
    ASSUME NEW B, NEW i, IsInterface(i, B), NEW ref \in B
    PROVE  IsInterface(WithReference(i, ref), B)
<1> DEFINE g == Group(<<"matched to", ref>>, ref, i.nets \ {ref}, GroupLimit[i.kind])
<1>1. IsGroup(g, B)
  <2>1. i.kind \in DOMAIN Label /\ i.nets \in SUBSET B
    BY DEF IsInterface
  <2>2. GroupLimit[i.kind] \in Nat
    BY <2>1, InterfacesAssumption
  <2>3. i.nets \ {ref} \in SUBSET B /\ ref \in B \cup {0}
    BY <2>1
  <2> QED
    BY <2>2, <2>3, GroupIs
<1>2. WithReference(i, ref) = [i EXCEPT !.groups = {g}]
  BY DEF WithReference
<1> HIDE DEF g
<1>3. AreGroups({g}, B)
  BY <1>1, OneGroup
<1> QED
  BY <1>2, <1>3 DEF IsInterface

LEMMA ToleratedIs ==
    ASSUME NEW B, NEW i, IsInterface(i, B), NEW limits, AreLimits(limits)
    PROVE  IsInterface(Tolerated(i, limits), B)
<1> DEFINE set(g) == IF <<i.name, g.name>> \in DOMAIN limits
                     THEN [g EXCEPT !.limit = limits[<<i.name, g.name>>]] ELSE g
           groups == {set(g) : g \in i.groups}
<1>1. Tolerated(i, limits) = [i EXCEPT !.groups = groups]
  BY DEF Tolerated
<1>2. \A g \in i.groups : IsGroup(set(g), B)
  <2> SUFFICES ASSUME NEW g \in i.groups PROVE IsGroup(set(g), B)
    OBVIOUS
  <2>1. IsGroup(g, B)
    BY DEF IsInterface, AreGroups
  <2>2. CASE <<i.name, g.name>> \in DOMAIN limits
    <3> DEFINE l == limits[<<i.name, g.name>>]
    <3>1. l \in Nat
      BY <2>2 DEF AreLimits
    <3>2. set(g) = [g EXCEPT !.limit = l]
      BY <2>2
    <3> HIDE DEF l, set
    <3> QED
      BY <2>1, <3>1, <3>2 DEF IsGroup, Group
  <2>3. CASE <<i.name, g.name>> \notin DOMAIN limits
    BY <2>1, <2>3
  <2> QED
    BY <2>2, <2>3
<1>4. \A g, h \in i.groups : Alike(set(g), set(h))
  <2> SUFFICES ASSUME NEW g \in i.groups, NEW h \in i.groups, set(g).name = set(h).name
               PROVE  set(g).limit = set(h).limit
    BY DEF Alike
  <2>1. IsGroup(g, B) /\ IsGroup(h, B) /\ Alike(g, h)
    BY DEF IsInterface, AreGroups
  <2>2. g.name = set(g).name /\ h.name = set(h).name
    BY <2>1 DEF IsGroup, Group
  <2>3. g.name = h.name
    BY <2>2
  <2>4. CASE <<i.name, g.name>> \in DOMAIN limits
    BY <2>1, <2>3, <2>4 DEF IsGroup, Group
  <2>5. CASE <<i.name, g.name>> \notin DOMAIN limits
    BY <2>1, <2>3, <2>5 DEF Alike
  <2> QED
    BY <2>4, <2>5
<1> HIDE DEF set
<1>3. AreGroups(groups, B)
  BY <1>2, <1>4 DEF AreGroups
<1> HIDE DEF groups
<1> QED
  BY <1>1, <1>3 DEF IsInterface

LEMMA ReadingIs ==
    ASSUME NEW B \in SUBSET Nat, NEW i, IsInterface(i, B), NEW o, IsSaying(o, B), NEW limits, AreLimits(limits)
    PROVE  IsInterface(Reading(i, o, limits), B)
<1> DEFINE one == Reassigned(i, o.kind)
           two == Referenced(one, o.reference)
<1>1. IsInterface(one, B)
  <2>1. CASE o.kind \in {"", i.kind}
    BY <2>1 DEF Reassigned
  <2>2. CASE o.kind \notin {"", i.kind}
    <3>1. one = Reassign(i.nets, o.kind)
      BY <2>2 DEF Reassigned
    <3>2. i.nets \in SUBSET B /\ i.nets \in SUBSET Nat /\ o.kind \in DOMAIN Label
      BY <2>2 DEF IsInterface, IsSaying
    <3>3. IsInterface(Reassign(i.nets, o.kind), i.nets)
      BY <3>2, ReassignIs
    <3> QED
      BY <3>1, <3>2, <3>3, Among
  <2> QED
    BY <2>1, <2>2
<1> HIDE DEF one
<1>2. IsInterface(two, B)
  <2>1. CASE o.reference = 0
    BY <1>1, <2>1 DEF Referenced
  <2>2. CASE o.reference # 0
    <3>1. two = WithReference(one, o.reference) /\ o.reference \in B
      BY <2>2 DEF Referenced, IsSaying
    <3> HIDE DEF two
    <3> QED
      BY <1>1, <3>1, WithReferenceIs
  <2> QED
    BY <2>1, <2>2
<1> HIDE DEF two
<1>3. Reading(i, o, limits) = Tolerated(two, limits)
  BY DEF Reading, one, two
<1> QED
  BY <1>2, <1>3, ToleratedIs

LEMMA ToldIs ==
    ASSUME NEW B, NEW said, AreSayings(said, B), NEW i
    PROVE  IsSaying(Told(i, said), B)
<1>1. IsSaying(Nothing, B)
  BY DEF IsSaying, Nothing
<1> QED
  BY <1>1 DEF Told, AreSayings

--------------------------------------------------------------------------------
(* What an interface asks for *)

LEMMA AbsIs == ASSUME NEW x \in Int PROVE Abs(x) \in Nat /\ Abs(x) >= x /\ Abs(x) >= -x
BY DEF Abs

LEMMA ReferenceLengthTyped ==
    ASSUME NEW B \in SUBSET Nat, IsFiniteSet(B), NEW len \in [B -> Nat], NEW g, IsGroup(g, B)
    PROVE  ReferenceLength(g, len) \in Nat
<1>1. g.members \in SUBSET B /\ g.reference \in B \cup {0}
  BY DEF IsGroup
<1> DEFINE T == {len[m] : m \in g.members}
           S == T \cup {0}
<1>2. S \in SUBSET Nat /\ S # {}
  <2>1. ASSUME NEW m \in g.members PROVE len[m] \in Nat
    BY <1>1
  <2>2. T \in SUBSET Nat
    BY <2>1
  <2> HIDE DEF T
  <2> QED
    BY <2>2
<1>3. IsFiniteSet(S)
  <2>1. IsFiniteSet(g.members)
    BY <1>1, FS_Subset
  <2>2. IsFiniteSet(T)
    BY <2>1, ImageFinite
  <2> HIDE DEF T
  <2> QED
    BY <2>2, FS_AddElement
<1>4. Max(S) \in Nat
  <2> HIDE DEF S
  <2>1. S \in SUBSET Int
    BY <1>2
  <2> QED
    BY <1>2, <1>3, <2>1, MaxIs
<1>5. CASE g.reference # 0 /\ len[g.reference] > 0
  BY <1>1, <1>5 DEF ReferenceLength
<1>6. CASE ~(g.reference # 0 /\ len[g.reference] > 0)
  BY <1>4, <1>6 DEF ReferenceLength
<1> QED
  BY <1>5, <1>6

LEMMA OtherHalvesAmong ==
    ASSUME NEW B, NEW i, IsInterface(i, B), NEW g, NEW len, NEW own
    PROVE  OtherHalves(i, g, len, own) \in SUBSET B
<1>1. \A q \in i.pairs : q.p \in B /\ q.n \in B
  BY DEF IsInterface, ArePairs
<1> QED
  BY <1>1 DEF OtherHalves

LEMMA TargetTyped ==
    ASSUME NEW B \in SUBSET Nat, IsFiniteSet(B), NEW len \in [B -> Nat], NEW own \in [B -> Nat],
           NEW i, IsInterface(i, B), NEW g, IsGroup(g, B)
    PROVE  Target(i, g, len, own) \in Int
<1> DEFINE H == OtherHalves(i, g, len, own)
           T == {own[h] : h \in H}
           r == ReferenceLength(g, len)
<1>1. r \in Nat
  BY ReferenceLengthTyped
<1>2. H \in SUBSET B
  BY OtherHalvesAmong
<1>3. T \in SUBSET Int
  <2> HIDE DEF H
  <2> QED
    BY <1>2
<1>4. IsFiniteSet(T)
  <2>1. IsFiniteSet(H)
    BY <1>2, FS_Subset
  <2> HIDE DEF H
  <2> QED
    BY <2>1, ImageFinite
<1>5. Target(i, g, len, own) = Mean(r, T)
  BY DEF Target
<1> HIDE DEF T, r, H
<1>6. CASE T = {}
  BY <1>1, <1>5, <1>6 DEF Mean
<1>7. CASE T # {}
  <2>1. Max(T) \in Int
    BY <1>3, <1>4, <1>7, MaxIs
  <2>2. (r + Max(T)) \div 2 \in Int
    BY <1>1, <2>1
  <2> QED
    BY <1>5, <1>7, <2>2 DEF Mean
<1> QED
  BY <1>6, <1>7

\* Whatever is asked for is an amount of length.
LEMMA NeedTyped ==
    ASSUME NEW B \in SUBSET Nat, IsFiniteSet(B), NEW len \in [B -> Nat], NEW own \in [B -> Nat],
           NEW i, IsInterface(i, B), NEW c \in Candidates(i, len, own)
    PROVE  c.need \in Nat
<1>1. CASE c \in GroupCandidates(i, len, own)
  <2>1. PICK g \in i.groups :
           c \in GroupAsks(g, g.members \ ReferenceNets(i, g, len, own), Target(i, g, len, own), len)
    BY <1>1 DEF GroupCandidates
  <2>2. IsGroup(g, B)
    BY DEF IsInterface, AreGroups
  <2> DEFINE t == Target(i, g, len, own)
  <2>3. t \in Int
    BY <2>2, TargetTyped
  <2> HIDE DEF t
  <2>4. PICK m \in g.members : c = MemberAsks(g, m, len[m], Larger(0, t - len[m]), Larger(0, len[m] - t - g.limit))
    BY <2>1 DEF GroupAsks, t
  <2>5. c.need = Larger(0, t - len[m])
    BY <2>4 DEF MemberAsks, Candidate
  <2>6. len[m] \in Nat
    BY <2>2 DEF IsGroup
  <2> QED
    BY <2>3, <2>5, <2>6 DEF Larger
<1>2. CASE c \in PairCandidates(i, len)
  <2>1. PICK q \in OwnPairs(i) : c = PairAsks(q, Shorter(q, len), len[Shorter(q, len)], Skew(q, len))
    BY <1>2 DEF PairCandidates
  <2>2. c.need = Skew(q, len)
    BY <2>1 DEF PairAsks, Candidate
  <2>3. len[q.p] \in Nat /\ len[q.n] \in Nat
    <3>1. q.p \in B /\ q.n \in B
      BY DEF OwnPairs, IsInterface, ArePairs
    <3> QED
      BY <3>1
  <2> QED
    BY <2>2, <2>3, AbsIs DEF Skew
<1> QED
  BY <1>1, <1>2 DEF Candidates

\* Lengths near the same target are near each other.
LEMMA NearEach ==
    ASSUME NEW a \in Int, NEW b \in Int, NEW t \in Int, NEW limit \in Nat,
           a = t \/ Abs(a - t) <= limit, b = t \/ Abs(b - t) <= limit
    PROVE  Abs(a - b) <= 2 * limit
BY DEF Abs

LEMMA SilentGroup ==
    ASSUME NEW B \in SUBSET Nat, IsFiniteSet(B), NEW len \in [B -> Nat], NEW own \in [B -> Nat],
           NEW i, IsInterface(i, B), Candidates(i, len, own) = {}, NEW g \in i.groups,
           NEW m \in g.members \ ReferenceNets(i, g, len, own), NEW n \in g.members \ ReferenceNets(i, g, len, own),
           len[m] > 0, len[n] > 0
    PROVE  Abs(len[m] - len[n]) <= 2 * g.limit
<1> DEFINE t == Target(i, g, len, own)
           M == g.members \ ReferenceNets(i, g, len, own)
<1>1. IsGroup(g, B)
  BY DEF IsInterface, AreGroups
<1>2. t \in Int
  BY <1>1, TargetTyped
<1>3. GroupAsks(g, M, t, len) = {}
  <2> DEFINE asks == GroupAsks(g, M, t, len)
  <2>1. asks \subseteq GroupCandidates(i, len, own)
    BY Zenon DEF GroupCandidates
  <2>2. GroupCandidates(i, len, own) = {}
    BY DEF Candidates
  <2> HIDE DEF asks
  <2> QED
    BY <2>1, <2>2 DEF asks
<1>4. g.limit \in Nat /\ len[m] \in Int /\ len[n] \in Int
  <2>1. g.limit \in Nat /\ m \in B /\ n \in B
    BY <1>1 DEF IsGroup
  <2>2. len[m] \in Nat /\ len[n] \in Nat
    BY <2>1
  <2> QED
    BY <2>1, <2>2
<1> HIDE DEF t
<1>5. m \in M /\ n \in M
  OBVIOUS
<1> HIDE DEF M
<1>6. ~Off(len[m], t, g.limit) /\ ~Off(len[n], t, g.limit)
  BY <1>3, <1>5 DEF GroupAsks
<1>7. len[m] = t \/ Abs(len[m] - t) <= g.limit
  BY <1>6 DEF Off
<1>8. len[n] = t \/ Abs(len[n] - t) <= g.limit
  BY <1>6 DEF Off
<1> QED
  BY <1>2, <1>4, <1>7, <1>8, NearEach

LEMMA SilentPair ==
    ASSUME NEW i, NEW len, NEW own, Candidates(i, len, own) = {}, NEW q \in i.pairs,
           {q.p, q.n} \cap Grouped(i) = {}, PairRouted(q, len)
    PROVE  PairWithin(i, q, len)
<1>1. OwnPairs(i) \cap PairsOut(i, len) = {}
  BY DEF Candidates, PairCandidates
<1>2. q \in OwnPairs(i)
  BY DEF OwnPairs
<1> QED
  BY <1>1, <1>2 DEF PairsOut

--------------------------------------------------------------------------------
(* A net is judged the same in every list: what is asked of it, what the page     *)
(* lists and what the panel has all say of a member of a group how short or long  *)
(* of its target it is, and of the shorter half of a pair how much it is short.   *)

Shortfall(size, t) == Larger(0, t - size)
Surplus(size, t, limit) == Larger(0, size - t - limit)

OffTarget(i, g, m, len, own) ==
    m \in g.members \ ReferenceNets(i, g, len, own) /\ Off(len[m], Target(i, g, len, own), g.limit)

SaysOfMember(x, i, g, m, len, own) ==
    /\ x.net = m /\ x.group = g.name
    /\ x.need = Shortfall(len[m], Target(i, g, len, own)) /\ x.excess = Surplus(len[m], Target(i, g, len, own), g.limit)

SaysOfHalf(x, q, len) ==
    x.net = Shorter(q, len) /\ x.group = PairName(q) /\ x.need = Skew(q, len) /\ x.excess = 0

LEMMA MembersTell ==
    ASSUME NEW i, NEW g, NEW m, NEW len, NEW own, NEW r, NEW c,
           SaysOfMember(r, i, g, m, len, own), SaysOfMember(c, i, g, m, len, own)
    PROVE  Tells(r, c)
BY DEF SaysOfMember, Tells

LEMMA HalvesTell ==
    ASSUME NEW q, NEW len, NEW r, NEW c, SaysOfHalf(r, q, len), SaysOfHalf(c, q, len)
    PROVE  Tells(r, c)
BY DEF SaysOfHalf, Tells

\* A group has one limit by its name, and is not named as a pair is.
HasLimit(i, c) == \A g \in i.groups : g.name = c.group => g.limit > 0

LEMMA MemberHasLimit ==
    ASSUME NEW B, NEW i, IsInterface(i, B), NEW g \in i.groups, g.limit > 0,
           NEW m, NEW len, NEW own, NEW c, SaysOfMember(c, i, g, m, len, own)
    PROVE  HasLimit(i, c)
<1>1. \A h \in i.groups : h.name = g.name => h.limit = g.limit
  BY DEF IsInterface, AreGroups, Alike
<1> QED
  BY <1>1 DEF HasLimit, SaysOfMember

LEMMA HalfHasLimit ==
    ASSUME NEW B, NEW i, IsInterface(i, B), NEW q, NEW len, NEW c, SaysOfHalf(c, q, len)
    PROVE  HasLimit(i, c)
<1>1. \A g \in i.groups : g.name[1] # "pair"
  BY DEF IsInterface, AreGroups, IsGroup
<1>2. c.group[1] = "pair"
  BY DEF SaysOfHalf, PairName
<1> QED
  BY <1>1, <1>2 DEF HasLimit

\* What a member and its group measure.
LEMMA MemberSized ==
    ASSUME NEW B \in SUBSET Nat, IsFiniteSet(B), NEW len \in [B -> Nat], NEW own \in [B -> Nat],
           NEW i, IsInterface(i, B), NEW g \in i.groups, NEW m \in g.members
    PROVE  len[m] \in Nat /\ Target(i, g, len, own) \in Int /\ g.limit \in Nat
<1>1. IsGroup(g, B)
  BY DEF IsInterface, AreGroups
<1>2. m \in B /\ g.limit \in Nat
  BY <1>1 DEF IsGroup
<1> QED
  BY <1>1, <1>2, TargetTyped

LEMMA PairSized ==
    ASSUME NEW B, NEW len \in [B -> Nat], NEW i, IsInterface(i, B), NEW q \in OwnPairs(i)
    PROVE  q \in i.pairs /\ len[q.p] \in Nat /\ len[q.n] \in Nat /\ PairLimit[i.kind] \in Nat
<1>1. q \in i.pairs /\ q.p \in B /\ q.n \in B
  BY DEF OwnPairs, IsInterface, ArePairs
<1>2. PairLimit[i.kind] \in Nat
  BY InterfacesAssumption DEF IsInterface
<1> QED
  BY <1>1, <1>2

\* What is asked.
LEMMA GroupAsked ==
    ASSUME NEW i, NEW len, NEW own, NEW c
    PROVE  c \in GroupCandidates(i, len, own) <=>
              \E g \in i.groups : \E m : OffTarget(i, g, m, len, own) /\ c = MemberAsks(g, m, len[m],
                 Shortfall(len[m], Target(i, g, len, own)), Surplus(len[m], Target(i, g, len, own), g.limit))
<1>1. c \in GroupCandidates(i, len, own) <=>
         \E g \in i.groups :
            c \in GroupAsks(g, g.members \ ReferenceNets(i, g, len, own), Target(i, g, len, own), len)
  BY Zenon DEF GroupCandidates
<1>2. ASSUME NEW g \in i.groups
      PROVE  c \in GroupAsks(g, g.members \ ReferenceNets(i, g, len, own), Target(i, g, len, own), len) <=>
                \E m : OffTarget(i, g, m, len, own) /\ c = MemberAsks(g, m, len[m],
                   Shortfall(len[m], Target(i, g, len, own)), Surplus(len[m], Target(i, g, len, own), g.limit))
  <2> DEFINE M == g.members \ ReferenceNets(i, g, len, own)
             t == Target(i, g, len, own)
  <2>1. \A m : OffTarget(i, g, m, len, own) <=> m \in M /\ Off(len[m], t, g.limit)
    BY Zenon DEF OffTarget
  <2>2. c \in GroupAsks(g, M, t, len) <=>
           \E m \in M : Off(len[m], t, g.limit) /\ c = MemberAsks(g, m, len[m], Shortfall(len[m], t), Surplus(len[m], t, g.limit))
    <3> HIDE DEF M, t
    <3> QED
      BY DEF GroupAsks, Shortfall, Surplus
  <2> HIDE DEF M, t
  <2>3. c \in GroupAsks(g, M, t, len) <=>
           \E m : OffTarget(i, g, m, len, own) /\ c = MemberAsks(g, m, len[m], Shortfall(len[m], t), Surplus(len[m], t, g.limit))
    BY <2>1, <2>2
  <2> QED
    BY <2>3 DEF M, t
<1> QED
  BY <1>1, <1>2, Zenon

LEMMA MemberAsksIs ==
    ASSUME NEW g, NEW m, NEW size, NEW need, NEW excess, NEW c, c = MemberAsks(g, m, size, need, excess)
    PROVE  c.net = m /\ c.group = g.name /\ c.need = need /\ c.excess = excess
BY DEF MemberAsks, Candidate

LEMMA AskedOfMember ==
    ASSUME NEW i, NEW len, NEW own, NEW c \in GroupCandidates(i, len, own)
    PROVE  \E g \in i.groups : \E m : OffTarget(i, g, m, len, own) /\ SaysOfMember(c, i, g, m, len, own)
<1>1. PICK g \in i.groups : \E m : OffTarget(i, g, m, len, own) /\ c = MemberAsks(g, m, len[m],
         Shortfall(len[m], Target(i, g, len, own)), Surplus(len[m], Target(i, g, len, own), g.limit))
  BY GroupAsked
<1>2. PICK m : OffTarget(i, g, m, len, own) /\ c = MemberAsks(g, m, len[m],
         Shortfall(len[m], Target(i, g, len, own)), Surplus(len[m], Target(i, g, len, own), g.limit))
  BY <1>1
<1>3. SaysOfMember(c, i, g, m, len, own)
  BY <1>2, MemberAsksIs DEF SaysOfMember
<1> QED
  BY <1>2, <1>3

LEMMA MemberIsAsked ==
    ASSUME NEW i, NEW len, NEW own, NEW g \in i.groups, NEW m, OffTarget(i, g, m, len, own)
    PROVE  \E c \in Candidates(i, len, own) : SaysOfMember(c, i, g, m, len, own)
<1> DEFINE c == MemberAsks(g, m, len[m],
                   Shortfall(len[m], Target(i, g, len, own)), Surplus(len[m], Target(i, g, len, own), g.limit))
<1>1. SaysOfMember(c, i, g, m, len, own)
  BY MemberAsksIs DEF SaysOfMember
<1>2. c \in GroupCandidates(i, len, own)
  BY GroupAsked
<1> HIDE DEF c
<1> QED
  BY <1>1, <1>2 DEF Candidates

LEMMA AskedOfHalf ==
    ASSUME NEW i, NEW len, NEW c \in PairCandidates(i, len)
    PROVE  \E q \in OwnPairs(i) : q \in PairsOut(i, len) /\ SaysOfHalf(c, q, len)
<1>1. PICK q \in OwnPairs(i) \cap PairsOut(i, len) :
         c = PairAsks(q, Shorter(q, len), len[Shorter(q, len)], Skew(q, len))
  BY DEF PairCandidates
<1>2. SaysOfHalf(c, q, len)
  BY <1>1 DEF PairAsks, Candidate, SaysOfHalf
<1> QED
  BY <1>1, <1>2

LEMMA HalfIsAsked ==
    ASSUME NEW i, NEW len, NEW own, NEW q \in OwnPairs(i), q \in PairsOut(i, len)
    PROVE  \E c \in Candidates(i, len, own) : SaysOfHalf(c, q, len)
<1> DEFINE c == PairAsks(q, Shorter(q, len), len[Shorter(q, len)], Skew(q, len))
<1>1. SaysOfHalf(c, q, len)
  BY DEF PairAsks, Candidate, SaysOfHalf
<1>2. c \in PairCandidates(i, len)
  BY DEF PairCandidates
<1> HIDE DEF c
<1> QED
  BY <1>1, <1>2 DEF Candidates

\* The rows of the page: a member as it is listed, and a half of a pair that is out.
MemberListed(i, g, m, len, own) ==
    Listed(m, g, len[m] - Target(i, g, len, own), len[m] > 0, m \in ReferenceNets(i, g, len, own))

HalfListed(q, h, len) ==
    Row(h, PairName(q), h # Shorter(q, len), TRUE, h # Shorter(q, len),
        IF h = Shorter(q, len) THEN Skew(q, len) ELSE 0, 0)

LEMMA InPage ==
    ASSUME NEW i, NEW len, NEW own, NEW r
    PROVE  r \in PageRows(i, len, own) <=>
              \/ \E g \in i.groups : \E m \in g.members : r = MemberListed(i, g, m, len, own)
              \/ \E q \in OwnPairs(i) \cap PairsOut(i, len) : \E h \in {q.p, q.n} : r = HalfListed(q, h, len)
<1>1. r \in PageRows(i, len, own) <=>
         \/ \E g \in i.groups : r \in GroupList(g, Target(i, g, len, own), ReferenceNets(i, g, len, own), len)
         \/ \E q \in OwnPairs(i) \cap PairsOut(i, len) : r \in PairList(q, len)
  BY DEF PageRows
<1>2. ASSUME NEW g
      PROVE  r \in GroupList(g, Target(i, g, len, own), ReferenceNets(i, g, len, own), len) <=>
                \E m \in g.members : r = MemberListed(i, g, m, len, own)
  BY Zenon DEF GroupList, MemberListed
<1>3. ASSUME NEW q PROVE r \in PairList(q, len) <=> \E h \in {q.p, q.n} : r = HalfListed(q, h, len)
  BY Zenon DEF PairList, HalfListed
<1> QED
  BY <1>1, <1>2, <1>3, Zenon

\* The same by the figures alone.
LEMMA ListedIs ==
    ASSUME NEW m, NEW g, g.limit \in Nat, NEW size \in Nat, NEW t \in Int, NEW isReference \in BOOLEAN,
           NEW off, off = size - t, NEW routed \in BOOLEAN, routed <=> size > 0,
           NEW r, r = Listed(m, g, off, routed, isReference)
    PROVE  /\ r.net = m /\ r.group = g.name
           /\ ~isReference /\ g.limit > 0 /\ Off(size, t, g.limit)
                 => r.need = Shortfall(size, t) /\ r.excess = Surplus(size, t, g.limit)
           /\ r.need > 0 \/ r.excess > 0
                 => ~isReference /\ g.limit > 0 /\ Off(size, t, g.limit)
BY DEF Listed, Row, Shortfall, Surplus, Off, Larger, Abs

LEMMA MemberListedIs ==
    ASSUME NEW i, NEW g, NEW m \in g.members, NEW len, NEW own,
           len[m] \in Nat, Target(i, g, len, own) \in Int, g.limit \in Nat,
           NEW r, r = MemberListed(i, g, m, len, own)
    PROVE  /\ OffTarget(i, g, m, len, own) /\ g.limit > 0 => SaysOfMember(r, i, g, m, len, own)
           /\ r.need > 0 \/ r.excess > 0 => OffTarget(i, g, m, len, own) /\ g.limit > 0
<1> DEFINE t == Target(i, g, len, own)
           size == len[m]
           isReference == m \in ReferenceNets(i, g, len, own)
           off == size - t
           routed == size > 0
<1>1. /\ r = Listed(m, g, off, routed, isReference) /\ isReference \in BOOLEAN
      /\ off = size - t /\ routed \in BOOLEAN /\ (routed <=> size > 0) /\ t \in Int /\ size \in Nat
  BY DEF MemberListed
<1>2. OffTarget(i, g, m, len, own) <=> ~isReference /\ Off(size, t, g.limit)
  BY DEF OffTarget
<1>3. SaysOfMember(r, i, g, m, len, own) <=>
         r.net = m /\ r.group = g.name /\ r.need = Shortfall(size, t) /\ r.excess = Surplus(size, t, g.limit)
  BY DEF SaysOfMember
<1> HIDE DEF t, size, isReference, off, routed
<1>4. /\ r.net = m /\ r.group = g.name
      /\ ~isReference /\ g.limit > 0 /\ Off(size, t, g.limit)
            => r.need = Shortfall(size, t) /\ r.excess = Surplus(size, t, g.limit)
      /\ r.need > 0 \/ r.excess > 0
            => ~isReference /\ g.limit > 0 /\ Off(size, t, g.limit)
  BY <1>1, ListedIs
<1> QED
  BY <1>2, <1>3, <1>4

LEMMA HalfListedIs ==
    ASSUME NEW q, NEW h, NEW len, NEW r, r = HalfListed(q, h, len)
    PROVE  /\ h = Shorter(q, len) => SaysOfHalf(r, q, len)
           /\ r.need > 0 \/ r.excess > 0 => h = Shorter(q, len)
BY DEF HalfListed, Row, SaysOfHalf

LEMMA ShorterIs == ASSUME NEW q, NEW len PROVE Shorter(q, len) \in {q.p, q.n}
BY DEF Shorter

LEMMA PageAsks ==
    ASSUME NEW B \in SUBSET Nat, IsFiniteSet(B), NEW len \in [B -> Nat], NEW own \in [B -> Nat],
           NEW i, IsInterface(i, B), NEW c \in Candidates(i, len, own), HasLimit(i, c)
    PROVE  \E r \in PageRows(i, len, own) : Tells(r, c)
<1>1. CASE c \in GroupCandidates(i, len, own)
  <2>0. PICK g \in i.groups : \E m : OffTarget(i, g, m, len, own) /\ SaysOfMember(c, i, g, m, len, own)
    BY <1>1, AskedOfMember
  <2>1. PICK m : OffTarget(i, g, m, len, own) /\ SaysOfMember(c, i, g, m, len, own)
    BY <2>0
  <2>2. m \in g.members
    BY <2>1 DEF OffTarget
  <2>3. len[m] \in Nat /\ Target(i, g, len, own) \in Int /\ g.limit \in Nat
    BY <2>2, MemberSized
  <2>4. g.limit > 0
    BY <2>1 DEF HasLimit, SaysOfMember
  <2> DEFINE r == MemberListed(i, g, m, len, own)
  <2>5. r \in PageRows(i, len, own)
    BY <2>2, InPage
  <2>6. SaysOfMember(r, i, g, m, len, own)
    BY <2>1, <2>2, <2>3, <2>4, MemberListedIs
  <2> HIDE DEF r
  <2> QED
    BY <2>1, <2>5, <2>6, MembersTell
<1>2. CASE c \in PairCandidates(i, len)
  <2>1. PICK q \in OwnPairs(i) : q \in PairsOut(i, len) /\ SaysOfHalf(c, q, len)
    BY <1>2, AskedOfHalf
  <2> DEFINE h == Shorter(q, len)
             r == HalfListed(q, h, len)
  <2>2. SaysOfHalf(r, q, len)
    BY HalfListedIs
  <2>3. r \in PageRows(i, len, own)
    BY <2>1, ShorterIs, InPage
  <2> HIDE DEF r
  <2> QED
    BY <2>1, <2>2, <2>3, HalvesTell
<1> QED
  BY <1>1, <1>2 DEF Candidates

LEMMA PageAsked ==
    ASSUME NEW B \in SUBSET Nat, IsFiniteSet(B), NEW len \in [B -> Nat], NEW own \in [B -> Nat],
           NEW i, IsInterface(i, B), NEW r \in PageRows(i, len, own), r.need > 0 \/ r.excess > 0
    PROVE  \E c \in Candidates(i, len, own) : HasLimit(i, c) /\ Tells(r, c)
<1>1. CASE \E g \in i.groups : \E m \in g.members : r = MemberListed(i, g, m, len, own)
  <2>1. PICK g \in i.groups : \E m \in g.members : r = MemberListed(i, g, m, len, own)
    BY <1>1
  <2>2. PICK m \in g.members : r = MemberListed(i, g, m, len, own)
    BY <2>1
  <2>3. len[m] \in Nat /\ Target(i, g, len, own) \in Int /\ g.limit \in Nat
    BY MemberSized
  <2>4. OffTarget(i, g, m, len, own) /\ g.limit > 0 /\ SaysOfMember(r, i, g, m, len, own)
    BY <2>2, <2>3, MemberListedIs
  <2>5. PICK c \in Candidates(i, len, own) : SaysOfMember(c, i, g, m, len, own)
    BY <2>4, MemberIsAsked
  <2> QED
    BY <2>4, <2>5, MemberHasLimit, MembersTell
<1>2. CASE \E q \in OwnPairs(i) \cap PairsOut(i, len) : \E h \in {q.p, q.n} : r = HalfListed(q, h, len)
  <2>1. PICK q \in OwnPairs(i) \cap PairsOut(i, len) : \E h \in {q.p, q.n} : r = HalfListed(q, h, len)
    BY <1>2
  <2>2. PICK h \in {q.p, q.n} : r = HalfListed(q, h, len)
    BY <2>1
  <2>3. SaysOfHalf(r, q, len)
    BY <2>2, HalfListedIs
  <2>4. PICK c \in Candidates(i, len, own) : SaysOfHalf(c, q, len)
    BY <2>1, HalfIsAsked
  <2> QED
    BY <2>3, <2>4, HalfHasLimit, HalvesTell
<1> QED
  BY <1>1, <1>2, InPage

\* The rows of the panel: a member as it is judged, and a half of a pair.
MemberJudged(i, g, m, len, own) ==
    Judged(m, g.name, m \in ReferenceNets(i, g, len, own), len[m] > 0, len[m] - Target(i, g, len, own), g.limit)

HalfJudged(i, q, h, len) ==
    Judged(h, PairName(q), FALSE, PairRouted(q, len), len[h] - Larger(len[q.p], len[q.n]), PairLimit[i.kind])

HalvesJudged(i, q, len) == {HalfJudged(i, q, h, len) : h \in {q.p, q.n}}

LEMMA InGroupRows ==
    ASSUME NEW i, NEW len, NEW own, NEW r
    PROVE  r \in GroupRows(i, len, own) <=>
              \E g \in i.groups : \E m \in g.members : r = MemberJudged(i, g, m, len, own)
<1>1. r \in GroupRows(i, len, own) <=>
         \E g \in i.groups : r \in RowsOfGroup(g, Target(i, g, len, own), ReferenceNets(i, g, len, own), len)
  BY DEF GroupRows
<1>2. ASSUME NEW g
      PROVE  r \in RowsOfGroup(g, Target(i, g, len, own), ReferenceNets(i, g, len, own), len) <=>
                \E m \in g.members : r = MemberJudged(i, g, m, len, own)
  BY Zenon DEF RowsOfGroup, MemberJudged
<1> QED
  BY <1>1, <1>2, Zenon

LEMMA InPairRows ==
    ASSUME NEW i, NEW len, NEW r
    PROVE  r \in PairRows(i, len) <=> \E q \in OwnPairs(i) : \E h \in {q.p, q.n} : r = HalfJudged(i, q, h, len)
<1>1. PairRows(i, len) = UNION {HalvesJudged(i, q, len) : q \in OwnPairs(i)}
  BY Zenon DEF PairRows, HalvesJudged, HalfJudged
<1>2. ASSUME NEW q PROVE r \in HalvesJudged(i, q, len) <=> \E h \in {q.p, q.n} : r = HalfJudged(i, q, h, len)
  BY Zenon DEF HalvesJudged
<1>3. r \in PairRows(i, len) <=> \E q \in OwnPairs(i) : r \in HalvesJudged(i, q, len)
  BY <1>1
<1> QED
  BY <1>2, <1>3, Zenon

\* A row wants attention where its net is off its limit, and says by how much.
LEMMA JudgedIs ==
    ASSUME NEW m, NEW name, NEW isReference \in BOOLEAN, NEW routed \in BOOLEAN, NEW off \in Int, NEW limit \in Nat,
           NEW r, r = Judged(m, name, isReference, routed, off, limit)
    PROVE  /\ r.net = m /\ r.group = name
           /\ NeedsAttention(r) <=> routed /\ ~isReference /\ limit > 0 /\ Abs(off) > limit
           /\ NeedsAttention(r) => r.need = Larger(0, -off) /\ r.excess = Larger(0, off - limit)
<1> DEFINE within == routed /\ (limit = 0 \/ Abs(off) <= limit)
           wanting == routed /\ ~within /\ ~isReference
<1>1. r = Row(m, name, isReference, routed, within,
              IF wanting THEN Larger(0, -off) ELSE 0, IF wanting THEN Larger(0, off - limit) ELSE 0)
  BY DEF Judged
<1>2. /\ r.net = m /\ r.group = name /\ r.reference = isReference /\ r.routed = routed /\ r.within = within
      /\ r.need = IF wanting THEN Larger(0, -off) ELSE 0
      /\ r.excess = IF wanting THEN Larger(0, off - limit) ELSE 0
  <2> HIDE DEF within, wanting
  <2> QED
    BY <1>1 DEF Row
<1>3. NeedsAttention(r) <=> wanting
  BY <1>2 DEF NeedsAttention
<1>4. wanting <=> routed /\ ~isReference /\ limit > 0 /\ Abs(off) > limit
  BY AbsIs
<1> HIDE DEF wanting, within
<1> QED
  BY <1>2, <1>3, <1>4

LEMMA MemberJudgedIs ==
    ASSUME NEW i, NEW g, NEW m \in g.members, NEW len, NEW own,
           len[m] \in Nat, Target(i, g, len, own) \in Int, g.limit \in Nat,
           NEW r, r = MemberJudged(i, g, m, len, own)
    PROVE  /\ NeedsAttention(r) <=> OffTarget(i, g, m, len, own) /\ g.limit > 0
           /\ NeedsAttention(r) => SaysOfMember(r, i, g, m, len, own)
<1> DEFINE t == Target(i, g, len, own)
           size == len[m]
           isReference == m \in ReferenceNets(i, g, len, own)
           off == size - t
           routed == size > 0
<1>1. /\ r = Judged(m, g.name, isReference, routed, off, g.limit) /\ isReference \in BOOLEAN
      /\ off \in Int /\ off = size - t /\ routed \in BOOLEAN /\ (routed <=> size > 0) /\ t \in Int /\ size \in Nat
  BY DEF MemberJudged
<1>2. OffTarget(i, g, m, len, own) <=> ~isReference /\ Off(size, t, g.limit)
  BY DEF OffTarget
<1>3. SaysOfMember(r, i, g, m, len, own) <=>
         r.net = m /\ r.group = g.name /\ r.need = Shortfall(size, t) /\ r.excess = Surplus(size, t, g.limit)
  BY DEF SaysOfMember
<1> HIDE DEF t, size, isReference, off, routed
<1>4. /\ r.net = m /\ r.group = g.name
      /\ NeedsAttention(r) <=> routed /\ ~isReference /\ g.limit > 0 /\ Abs(off) > g.limit
      /\ NeedsAttention(r) => r.need = Larger(0, -off) /\ r.excess = Larger(0, off - g.limit)
  BY <1>1, JudgedIs
<1>5. -off = t - size
  BY <1>1
<1>6. g.limit > 0 => (Off(size, t, g.limit) <=> size > 0 /\ Abs(off) > g.limit)
  BY <1>1 DEF Off, Abs
<1>7. NeedsAttention(r) => r.need = Shortfall(size, t) /\ r.excess = Surplus(size, t, g.limit)
  BY <1>1, <1>4, <1>5 DEF Shortfall, Surplus
<1> QED
  BY <1>1, <1>2, <1>3, <1>4, <1>6, <1>7

LEMMA HalfJudgedIs ==
    ASSUME NEW i, NEW q, NEW h \in {q.p, q.n}, NEW len,
           q \in i.pairs, len[q.p] \in Nat, len[q.n] \in Nat, PairLimit[i.kind] \in Nat,
           NEW r, r = HalfJudged(i, q, h, len)
    PROVE  /\ NeedsAttention(r) <=> q \in PairsOut(i, len) /\ h = Shorter(q, len)
           /\ NeedsAttention(r) => SaysOfHalf(r, q, len)
<1> DEFINE off == len[h] - Larger(len[q.p], len[q.n])
           s == Skew(q, len)
           limit == PairLimit[i.kind]
           routed == PairRouted(q, len)
           never == FALSE
           name == PairName(q)
           x == Shorter(q, len)
<1>1. off \in Int /\ s \in Nat /\ (off = 0 \/ h = x) /\ (h = x => off = -s) /\ limit \in Nat
  BY DEF Larger, Skew, Abs, Shorter
<1>2. r = Judged(h, name, never, routed, off, limit) /\ never \in BOOLEAN /\ ~never /\ routed \in BOOLEAN
  BY DEF HalfJudged, PairRouted
<1>3. q \in PairsOut(i, len) <=> routed /\ limit # 0 /\ ~(s <= limit)
  BY DEF PairsOut, PairWithin
<1>4. SaysOfHalf(r, q, len) <=> r.net = x /\ r.group = name /\ r.need = s /\ r.excess = 0
  BY DEF SaysOfHalf
<1> HIDE DEF off, s, limit, routed, never, name, x
<1>5. /\ r.net = h /\ r.group = name
      /\ NeedsAttention(r) <=> routed /\ ~never /\ limit > 0 /\ Abs(off) > limit
      /\ NeedsAttention(r) => r.need = Larger(0, -off) /\ r.excess = Larger(0, off - limit)
  BY <1>1, <1>2, JudgedIs
<1>6. Abs(off) > limit <=> h = x /\ ~(s <= limit)
  BY <1>1 DEF Abs
<1>7. h = x => Larger(0, -off) = s /\ Larger(0, off - limit) = 0
  BY <1>1 DEF Larger
<1>8. limit > 0 <=> limit # 0
  BY <1>1
<1>9. NeedsAttention(r) <=> routed /\ limit # 0 /\ ~(s <= limit) /\ h = x
  BY <1>2, <1>5, <1>6, <1>8
<1>10. NeedsAttention(r) => r.net = x /\ r.group = name /\ r.need = s /\ r.excess = 0
  BY <1>5, <1>7, <1>9
<1>11. q \in PairsOut(i, len) /\ h = Shorter(q, len) <=> NeedsAttention(r)
  BY <1>3, <1>9 DEF x
<1> QED
  BY <1>4, <1>10, <1>11

PanelRows(i, len, own) == GroupRows(i, len, own) \cup PairRows(i, len)

LEMMA PanelAsks ==
    ASSUME NEW B \in SUBSET Nat, IsFiniteSet(B), NEW len \in [B -> Nat], NEW own \in [B -> Nat],
           NEW i, IsInterface(i, B), NEW c \in Candidates(i, len, own), HasLimit(i, c)
    PROVE  \E r \in PanelRows(i, len, own) : NeedsAttention(r) /\ Tells(r, c)
<1>1. CASE c \in GroupCandidates(i, len, own)
  <2>0. PICK g \in i.groups : \E m : OffTarget(i, g, m, len, own) /\ SaysOfMember(c, i, g, m, len, own)
    BY <1>1, AskedOfMember
  <2>1. PICK m : OffTarget(i, g, m, len, own) /\ SaysOfMember(c, i, g, m, len, own)
    BY <2>0
  <2>2. m \in g.members
    BY <2>1 DEF OffTarget
  <2>3. len[m] \in Nat /\ Target(i, g, len, own) \in Int /\ g.limit \in Nat
    BY <2>2, MemberSized
  <2>4. g.limit > 0
    BY <2>1 DEF HasLimit, SaysOfMember
  <2> DEFINE r == MemberJudged(i, g, m, len, own)
  <2>5. r \in PanelRows(i, len, own)
    BY <2>2, InGroupRows DEF PanelRows
  <2>6. NeedsAttention(r) /\ SaysOfMember(r, i, g, m, len, own)
    BY <2>1, <2>2, <2>3, <2>4, MemberJudgedIs
  <2> HIDE DEF r
  <2> QED
    BY <2>1, <2>5, <2>6, MembersTell
<1>2. CASE c \in PairCandidates(i, len)
  <2>1. PICK q \in OwnPairs(i) : q \in PairsOut(i, len) /\ SaysOfHalf(c, q, len)
    BY <1>2, AskedOfHalf
  <2>2. q \in i.pairs /\ len[q.p] \in Nat /\ len[q.n] \in Nat /\ PairLimit[i.kind] \in Nat
    BY PairSized
  <2> DEFINE h == Shorter(q, len)
             r == HalfJudged(i, q, h, len)
  <2>3. h \in {q.p, q.n}
    BY ShorterIs
  <2>4. NeedsAttention(r) /\ SaysOfHalf(r, q, len)
    BY <2>1, <2>2, <2>3, HalfJudgedIs
  <2>5. r \in PanelRows(i, len, own)
    BY <2>3, InPairRows DEF PanelRows
  <2> HIDE DEF r
  <2> QED
    BY <2>1, <2>4, <2>5, HalvesTell
<1> QED
  BY <1>1, <1>2 DEF Candidates

LEMMA PanelAsked ==
    ASSUME NEW B \in SUBSET Nat, IsFiniteSet(B), NEW len \in [B -> Nat], NEW own \in [B -> Nat],
           NEW i, IsInterface(i, B), NEW r \in PanelRows(i, len, own), NeedsAttention(r)
    PROVE  \E c \in Candidates(i, len, own) : HasLimit(i, c) /\ Tells(r, c)
<1>1. CASE r \in GroupRows(i, len, own)
  <2>1. PICK g \in i.groups : \E m \in g.members : r = MemberJudged(i, g, m, len, own)
    BY <1>1, InGroupRows
  <2>2. PICK m \in g.members : r = MemberJudged(i, g, m, len, own)
    BY <2>1
  <2>3. len[m] \in Nat /\ Target(i, g, len, own) \in Int /\ g.limit \in Nat
    BY MemberSized
  <2>4. OffTarget(i, g, m, len, own) /\ g.limit > 0 /\ SaysOfMember(r, i, g, m, len, own)
    BY <2>2, <2>3, MemberJudgedIs
  <2>5. PICK c \in Candidates(i, len, own) : SaysOfMember(c, i, g, m, len, own)
    BY <2>4, MemberIsAsked
  <2> QED
    BY <2>4, <2>5, MemberHasLimit, MembersTell
<1>2. CASE r \in PairRows(i, len)
  <2>1. PICK q \in OwnPairs(i) : \E h \in {q.p, q.n} : r = HalfJudged(i, q, h, len)
    BY <1>2, InPairRows
  <2>2. PICK h \in {q.p, q.n} : r = HalfJudged(i, q, h, len)
    BY <2>1
  <2>3. q \in i.pairs /\ len[q.p] \in Nat /\ len[q.n] \in Nat /\ PairLimit[i.kind] \in Nat
    BY PairSized
  <2>4. q \in PairsOut(i, len) /\ SaysOfHalf(r, q, len)
    BY <2>2, <2>3, HalfJudgedIs
  <2>5. PICK c \in Candidates(i, len, own) : SaysOfHalf(c, q, len)
    BY <2>4, HalfIsAsked
  <2> QED
    BY <2>4, <2>5, HalfHasLimit, HalvesTell
<1> QED
  BY <1>1, <1>2 DEF PanelRows

LEMMA HalfRowsNamed ==
    ASSUME NEW i, NEW len, NEW r \in HalfRows(i, len)
    PROVE  r.group[1] = "half"
<1>1. PICK q, h, other : r = HalfRow(i, q, h, other, len)
  BY DEF HalfRows
<1>2. r.group = <<"half", h>>
  BY <1>1 DEF HalfRow, Judged, Row
<1> QED
  BY <1>2

--------------------------------------------------------------------------------
(* The invariant: what was found is of the nets of the board, every net and       *)
(* every signal measures something, what the user said names nets of the board,   *)
(* the islands of a net have nothing in common, and the report is of all this as  *)
(* it is now.                                                                     *)

Surveyed == board \in Boards /\ found = Detect(board) /\ segments \in [board -> SUBSET board]
Sized    == length \in [board -> Nat] /\ signal \in [board -> Nat]
Heard    == AreSayings(over, board) /\ AreLimits(tolerance)
Torn     == DOMAIN joined \subseteq board /\ \A n \in DOMAIN joined : IsIslands(joined[n])
Judges   == report = Reported(found, over, tolerance, signal, length)

IInv == Surveyed /\ Sized /\ Heard /\ Torn /\ Judges

\* A board has finitely many nets.
LEMMA BoardIs ==
    ASSUME NEW b \in Boards
    PROVE  b \in SUBSET Nat /\ IsFiniteSet(b)
<1>1. Len(Names) \in Nat
  BY NamesAssumption
<1>2. b \subseteq Nets
  BY InterfacesAssumption
<1>3. Nets \in SUBSET Nat /\ IsFiniteSet(Nets)
  BY <1>1, FS_Interval DEF Nets
<1> QED
  BY <1>2, <1>3, FS_Subset

\* An entry of the report is of nets of the board, and up to date.
LEMMA EntryIs ==
    ASSUME Surveyed, Heard, Judges, NEW e \in report
    PROVE  /\ IsInterface(e.of, board) /\ IsInterface(e.as, board)
           /\ e.candidates = Candidates(e.as, signal, length)
<1>1. PICK i \in found : e = Entry(i, Reading(i, Told(i, over), tolerance), signal, length)
  BY DEF Judges, Reported
<1>2. board \in SUBSET Nat
  BY BoardIs DEF Surveyed
<1>3. IsInterface(i, board)
  BY <1>2, DetectIs DEF Surveyed
<1>4. IsSaying(Told(i, over), board)
  BY ToldIs DEF Heard
<1>5. AreLimits(tolerance)
  BY DEF Heard
<1>6. IsInterface(Reading(i, Told(i, over), tolerance), board)
  BY <1>2, <1>3, <1>4, <1>5, ReadingIs
<1>7. /\ e.of = i /\ e.as = Reading(i, Told(i, over), tolerance)
      /\ e.candidates = Candidates(e.as, signal, length)
  BY <1>1 DEF Entry
<1> QED
  BY <1>3, <1>6, <1>7

LEMMA BeganInv == Init => IInv
<1> SUFFICES ASSUME Init PROVE IInv
  OBVIOUS
<1>1. board \in Boards /\ board \in SUBSET Nat /\ IsFiniteSet(board)
  BY BoardIs DEF Init
<1>2. segments \in [board -> SUBSET board]
  <2>1. \A n \in board : Segments(n, board) \in SUBSET board
    BY SegmentsAmong
  <2> QED
    BY <2>1 DEF Init
<1>3. length \in [board -> Nat]
  <2>1. length \in FirstLengths[board]
    BY DEF Init
  <2>2. FirstLengths[board] \subseteq [board -> Nat]
    BY <1>1, InterfacesAssumption
  <2> QED
    BY <2>1, <2>2
<1>4. signal \in [board -> Nat]
  BY <1>1, <1>2, <1>3, MeasureTyped DEF Init
<1>5. Torn
  <2>1. DOMAIN Broken[board] \subseteq board /\ \A n \in DOMAIN Broken[board] : IsIslands(Broken[board][n])
    BY <1>1, InterfacesAssumption
  <2> QED
    BY <2>1 DEF Torn, Init
<1>6. Heard
  <2>1. DOMAIN over = {} /\ DOMAIN tolerance = {}
    BY DEF Init
  <2> QED
    BY <2>1 DEF Heard, AreSayings, AreLimits
<1> QED
  BY <1>1, <1>2, <1>3, <1>4, <1>5, <1>6 DEF IInv, Surveyed, Sized, Judges, Init

\* Making a report leaves what it is of as it should be.
LEMMA AnalyseInv ==
    ASSUME Surveyed', length' \in [board' -> Nat], Heard', Torn', Analyse
    PROVE  IInv'
<1>1. board' \in SUBSET Nat /\ IsFiniteSet(board')
  BY BoardIs DEF Surveyed
<1>2. signal' \in [board' -> Nat]
  <2>1. segments' \in [board' -> SUBSET board']
    BY DEF Surveyed
  <2>2. Measure(segments', length') \in [board' -> Nat]
    BY <1>1, <2>1, MeasureTyped
  <2> QED
    BY <2>2 DEF Analyse
<1> QED
  BY <1>2 DEF IInv, Sized, Judges, Analyse

LEMMA SayingsAre ==
    ASSUME NEW B, NEW said, AreSayings(said, B), NEW id, NEW o, IsSaying(o, B) PROVE AreSayings(Set(said, id, o), B)
BY DEF AreSayings, Set

LEMMA LimitsAre ==
    ASSUME NEW limits, AreLimits(limits), NEW p, NEW l \in Nat PROVE AreLimits(Set(limits, p, l))
BY DEF AreLimits, Set

LEMMA SayInv ==
    ASSUME IInv, NEW e \in report, Say(e), Analyse PROVE IInv'
<1>1. PICK id \in {ID(e.of), e.as.name},
           o \in Sayings[e.of.kind] \cup {[Nothing EXCEPT !.reference = n] : n \in e.as.nets} :
             over' = Set(over, id, o)
  BY DEF Say
<1>2. IsInterface(e.of, board) /\ IsInterface(e.as, board)
  BY EntryIs DEF IInv
<1>3. IsSaying(o, board)
  <2>1. CASE o \in Sayings[e.of.kind]
    <3>1. e.of.kind \in DOMAIN Label
      BY <1>2 DEF IsInterface
    <3>2. o.kind \in DOMAIN Label \cup {""} /\ o.reference = 0
      BY <2>1, <3>1, InterfacesAssumption
    <3> QED
      BY <3>2 DEF IsSaying
  <2>2. CASE o \in {[Nothing EXCEPT !.reference = n] : n \in e.as.nets}
    <3>1. PICK n \in e.as.nets : o = [Nothing EXCEPT !.reference = n]
      BY <2>2
    <3>2. n \in board
      BY <1>2 DEF IsInterface
    <3> QED
      BY <3>1, <3>2 DEF IsSaying, Nothing
  <2> QED
    BY <2>1, <2>2
<1>4. Heard'
  <2>1. board' = board /\ tolerance' = tolerance
    BY DEF Say
  <2>2. AreSayings(over', board)
    BY <1>1, <1>3, SayingsAre DEF IInv, Heard
  <2> QED
    BY <2>1, <2>2 DEF IInv, Heard
<1>5. Surveyed' /\ length' \in [board' -> Nat] /\ Torn'
  BY DEF IInv, Surveyed, Sized, Torn, Say
<1> QED
  BY <1>4, <1>5, AnalyseInv

LEMMA TolerateInv ==
    ASSUME IInv, NEW e \in report, Tolerate(e), Analyse PROVE IInv'
<1>1. PICK g \in e.as.groups, l \in Limits : tolerance' = Set(tolerance, <<e.as.name, g.name>>, l)
  BY DEF Tolerate
<1>2. l \in Nat
  BY InterfacesAssumption
<1>3. Heard'
  <2>1. AreLimits(tolerance')
    BY <1>1, <1>2, LimitsAre DEF IInv, Heard
  <2>2. board' = board /\ over' = over
    BY DEF Tolerate
  <2> QED
    BY <2>1, <2>2 DEF IInv, Heard
<1>4. Surveyed' /\ length' \in [board' -> Nat] /\ Torn'
  BY DEF IInv, Surveyed, Sized, Torn, Tolerate
<1> QED
  BY <1>3, <1>4, AnalyseInv

EndsOf(l, I) == {a \in I : l[1] \in a \/ l[2] \in a}

\* Two islands that were joined are one.
LEMMA Merged ==
    ASSUME NEW I, IsIslands(I), NEW l \in PadLinks(I)
    PROVE  /\ IsIslands((I \ EndsOf(l, I)) \cup {UNION EndsOf(l, I)})
           /\ UNION EndsOf(l, I) \in SUBSET Int /\ UNION EndsOf(l, I) # {} /\ IsFiniteSet(UNION EndsOf(l, I))
<1> DEFINE ends == EndsOf(l, I)
<1>10. ends = {a \in I : l[1] \in a \/ l[2] \in a}
  BY DEF EndsOf
<1> HIDE DEF ends
<1> SUFFICES /\ IsIslands((I \ ends) \cup {UNION ends})
             /\ UNION ends \in SUBSET Int /\ UNION ends # {} /\ IsFiniteSet(UNION ends)
  BY DEF ends
<1>1. l[1] \in UNION I
  BY DEF PadLinks
<1>2. IsFiniteSet(I) /\ ends \in SUBSET I
  BY <1>10 DEF IsIslands
<1>3. IsFiniteSet(ends) /\ IsFiniteSet(I \ ends)
  BY <1>2, FS_Subset
<1>4. \A a \in I : a \in SUBSET Int /\ a # {} /\ IsFiniteSet(a)
  BY DEF IsIslands
<1>5. IsFiniteSet(UNION ends)
  BY <1>2, <1>3, <1>4, FS_UNION
<1>6. UNION ends \in SUBSET Int /\ UNION ends # {}
  BY <1>1, <1>2, <1>4, <1>10
<1>7. IsFiniteSet((I \ ends) \cup {UNION ends})
  BY <1>3, FS_AddElement
<1>8. \A a \in I \ ends : a \cap UNION ends = {}
  BY <1>2 DEF IsIslands
<1> HIDE DEF PadLinks
<1>9. \A a, b \in (I \ ends) \cup {UNION ends} : a # b => a \cap b = {}
  BY <1>8 DEF IsIslands
<1> QED
  BY <1>4, <1>5, <1>6, <1>7, <1>9 DEF IsIslands

LEMMA ConnectInv ==
    ASSUME IInv, NEW n \in board, Connect(n), Analyse PROVE IInv'
<1>1. n \in DOMAIN joined /\ IsIslands(joined[n])
  BY DEF Connect, IInv, Torn
<1>2. PICK l \in Missing(n) :
        LET ends == {a \in joined[n] : l[1] \in a \/ l[2] \in a}
            islands == (joined[n] \ ends) \cup {UNION ends}
        IN  /\ joined' = [joined EXCEPT ![n] = islands]
            /\ length' = [length EXCEPT ![n] = Larger(@, Max(UNION ends) - Min(UNION ends))]
  BY DEF Connect
<1> DEFINE I == joined[n]
           ends == {a \in I : l[1] \in a \/ l[2] \in a}
           U == UNION ends
           span == Max(U) - Min(U)
<1>3. l \in PadLinks(I)
  <2>1. Missing(n) = IslandJoins(I)
    BY <1>1 DEF Missing
  <2>2. IslandJoins(I) \in SUBSET PadLinks(I)
    BY <1>1, IslandJoinsIs
  <2> QED
    BY <2>1, <2>2
<1>4. joined' = [joined EXCEPT ![n] = (I \ ends) \cup {U}] /\ length' = [length EXCEPT ![n] = Larger(@, span)]
  BY <1>2
<1>5. IsIslands((I \ ends) \cup {U}) /\ U \in SUBSET Int /\ U # {} /\ IsFiniteSet(U)
  <2>1. ends = EndsOf(l, I)
    BY DEF EndsOf
  <2>2. IsIslands(I)
    BY <1>1
  <2> HIDE DEF ends, I
  <2> QED
    BY <1>3, <2>1, <2>2, Merged
<1>6. span \in Int
  <2> HIDE DEF U
  <2>1. Max(U) \in U /\ Min(U) \in U
    BY <1>5, MaxIs, MinIs
  <2> QED
    BY <1>5, <2>1
<1> HIDE DEF I, ends, U, span
<1>7. board' = board
  BY DEF Connect
<1>8. length' \in [board' -> Nat]
  <2>1. length \in [board -> Nat]
    BY DEF IInv, Sized
  <2>2. Larger(length[n], span) \in Nat
    BY <1>6, <2>1 DEF Larger
  <2> QED
    BY <1>4, <1>7, <2>1, <2>2
<1>9. Torn'
  BY <1>4, <1>5, <1>7 DEF IInv, Torn
<1>10. Surveyed' /\ Heard'
  BY DEF IInv, Surveyed, Heard, Connect
<1> QED
  BY <1>8, <1>9, <1>10, AnalyseInv

LEMMA LengthenInv ==
    ASSUME IInv, NEW e \in report, Lengthen(e), Analyse PROVE IInv'
<1>1. PICK room \in Rooms : length' = Lengthened(e, room)
  BY DEF Lengthen
<1>2. room \in Nat
  BY InterfacesAssumption
<1>3. board \in SUBSET Nat /\ IsFiniteSet(board) /\ length \in [board -> Nat] /\ signal \in [board -> Nat]
  BY BoardIs DEF IInv, Surveyed, Sized
<1>4. IsInterface(e.as, board) /\ e.candidates = Candidates(e.as, signal, length)
  BY EntryIs DEF IInv
<1>5. \A c \in e.candidates : c.need \in Nat
  BY <1>3, <1>4, NeedTyped
<1>6. ASSUME NEW n \in board
      PROVE  Lengthened(e, room)[n] \in Nat
  <2> DEFINE T == {Smaller(c.need, room) : c \in {d \in e.candidates : d.net = n}}
             S == {0} \cup T
  <2>1. T \in SUBSET (0 .. room)
    <3>1. ASSUME NEW c \in e.candidates PROVE Smaller(c.need, room) \in 0 .. room
      BY <1>2, <1>5 DEF Smaller
    <3> QED
      BY <3>1
  <2> HIDE DEF T
  <2>2. S \in SUBSET (0 .. room) /\ S # {}
    BY <1>2, <2>1
  <2>3. IsFiniteSet(0 .. room)
    BY <1>2, FS_Interval
  <2>4. Max(S) \in Nat
    <3> HIDE DEF S
    <3>1. IsFiniteSet(S)
      BY <2>2, <2>3, FS_Subset
    <3>2. S \in SUBSET Nat /\ S \in SUBSET Int
      BY <2>2
    <3>3. Max(S) \in S
      BY <2>2, <3>1, <3>2, MaxIs
    <3> QED
      BY <3>2, <3>3
  <2>5. Lengthened(e, room)[n] = length[n] + Max(S)
    BY DEF Lengthened, T
  <2>6. length[n] \in Nat
    BY <1>3
  <2> HIDE DEF S
  <2> QED
    BY <2>4, <2>5, <2>6
<1>7. length' \in [board' -> Nat]
  <2>1. board' = board
    BY DEF Lengthen
  <2>2. Lengthened(e, room) \in [board -> Nat]
    <3>1. Lengthened(e, room) = [n \in board |-> Lengthened(e, room)[n]]
      BY DEF Lengthened
    <3> QED
      BY <1>6, <3>1
  <2> QED
    BY <1>1, <2>1, <2>2
<1>8. Surveyed' /\ Heard' /\ Torn'
  BY DEF IInv, Surveyed, Heard, Torn, Lengthen
<1> QED
  BY <1>7, <1>8, AnalyseInv

LEMMA StepInv == IInv /\ [Next]_vars => IInv'
<1> SUFFICES ASSUME IInv, [Next]_vars PROVE IInv'
  OBVIOUS
<1>1. ASSUME NEW e \in report, Say(e), Analyse PROVE IInv'
  BY <1>1, SayInv
<1>2. ASSUME NEW e \in report, Tolerate(e), Analyse PROVE IInv'
  BY <1>2, TolerateInv
<1>3. ASSUME NEW e \in report, Lengthen(e), Analyse PROVE IInv'
  BY <1>3, LengthenInv
<1>4. ASSUME NEW n \in board, Connect(n), Analyse PROVE IInv'
  BY <1>4, ConnectInv
<1>5. CASE UNCHANGED vars
  BY <1>5 DEF IInv, Surveyed, Sized, Heard, Torn, Judges, vars
<1> QED
  BY <1>1, <1>2, <1>3, <1>4, <1>5 DEF Next, Act

--------------------------------------------------------------------------------
(* What follows from it *)

LEMMA SilentOf == IInv => SilentMeansMatched
<1> SUFFICES ASSUME IInv, NEW e \in report, e.candidates = {}
             PROVE  /\ \A g \in e.as.groups : Together(g.members \ ReferenceNets(e.as, g, signal, length), g.limit)
                    /\ \A q \in e.as.pairs :
                          {q.p, q.n} \cap Grouped(e.as) = {} /\ PairRouted(q, signal) => PairWithin(e.as, q, signal)
  BY DEF SilentMeansMatched
<1>1. board \in SUBSET Nat /\ IsFiniteSet(board) /\ length \in [board -> Nat] /\ signal \in [board -> Nat]
  BY BoardIs DEF IInv, Surveyed, Sized
<1>2. IsInterface(e.as, board) /\ Candidates(e.as, signal, length) = {}
  BY EntryIs DEF IInv
<1>3. ASSUME NEW g \in e.as.groups PROVE Together(g.members \ ReferenceNets(e.as, g, signal, length), g.limit)
  BY <1>1, <1>2, SilentGroup DEF Together
<1>4. ASSUME NEW q \in e.as.pairs, {q.p, q.n} \cap Grouped(e.as) = {}, PairRouted(q, signal)
      PROVE  PairWithin(e.as, q, signal)
  BY <1>2, <1>4, SilentPair
<1> QED
  BY <1>3, <1>4

LEMMA FewestOf == IInv => FewestJoins
<1> SUFFICES ASSUME IInv, NEW n \in DOMAIN joined
             PROVE  /\ Joins(Missing(n), joined[n])
                    /\ \A t \in Trees(joined[n]) : Copper(Missing(n)) <= Copper(t)
  BY DEF FewestJoins
<1> DEFINE I == joined[n]
<1>1. IsIslands(I) /\ Missing(n) = IslandJoins(I)
  BY DEF IInv, Torn, Missing
<1>2. ASSUME NEW t \in Trees(I) PROVE t \in SUBSET PadLinks(I) /\ IsFiniteSet(t) /\ Joins(t, I)
  <2> DEFINE L == {l \in (UNION I) \X (UNION I) : l[1] < l[2]}
  <2>1. t \in kSubset(Cardinality(I) - 1, L) /\ Joins(t, I)
    BY <1>2 DEF Trees
  <2>2. L \in SUBSET PadLinks(I)
    BY DEF PadLinks
  <2> HIDE DEF L
  <2>3. t \in SUBSET L
    BY <2>1 DEF kSubset
  <2>4. IsFiniteSet(PadLinks(I))
    <3>1. IsFiniteSet(UNION I)
      BY <1>1, FS_UNION DEF IsIslands
    <3> QED
      BY <3>1, FS_Product DEF PadLinks
  <2> QED
    BY <2>1, <2>2, <2>3, <2>4, FS_Subset
<1> HIDE DEF I
<1>3. Joins(IslandJoins(I), I)
  BY <1>1, IslandJoinsIs
<1>4. \A t \in Trees(I) : Copper(IslandJoins(I)) <= Copper(t)
  BY <1>1, <1>2, IslandJoinsIs
<1> QED
  BY <1>1, <1>3, <1>4 DEF I

LEMMA InRows ==
    ASSUME NEW r
    PROVE  r \in Rows <=> \E e \in report : e.as.kind # "ddr" /\
              (r \in PanelRows(e.as, signal, length) \/ r \in HalfRows(e.as, signal))
<1> DEFINE js == {e.as : e \in report}
           is == {j \in js : j.kind # "ddr"}
<1>1. Rows = UNION {GroupRows(i, signal, length) \cup HalfRows(i, signal) \cup PairRows(i, signal) : i \in is}
  BY Zenon DEF Rows, NetRows
<1>2. \A i : i \in is <=> \E e \in report : i = e.as /\ e.as.kind # "ddr"
  OBVIOUS
<1> HIDE DEF is
<1>3. r \in Rows <=> \E i \in is : r \in PanelRows(i, signal, length) \/ r \in HalfRows(i, signal)
  BY <1>1 DEF PanelRows
<1> QED
  BY <1>2, <1>3

\* A row that needs work is found by the net it is of, and by a net without a row
\* that its signal runs on to.
LEMMA FoundByName ==
    ASSUME NEW rows, NEW c, NEW r \in rows, NeedsAttention(r), Tells(r, c)
    PROVE  ToldOf(rows, c)
<1> SUFFICES ASSUME NEW n \in {c.net} \cup {m \in segments[c.net] : \A x \in rows : x.net # m},
                    NEW asked, Meant(asked, board) = {n}
             PROVE  \E x \in Answer(rows, asked, board, segments) : NeedsAttention(x) /\ Tells(x, c)
  BY Zenon DEF ToldOf
<1>1. r.net = c.net
  BY DEF Tells
<1>2. r \in RowsFor(rows, n, segments)
  <2>1. CASE n = c.net
    BY <1>1, <2>1 DEF RowsFor
  <2>2. CASE n # c.net
    <3>1. n \in segments[r.net] /\ (\A x \in rows : x.net # n) /\ n # r.net
      BY <1>1, <2>2
    <3>2. {x \in rows : x.net = n} = {}
      BY <3>1
    <3>3. r \in Continuing(rows, n, segments)
      BY <3>1 DEF Continuing
    <3> QED
      BY <3>2, <3>3 DEF RowsFor
  <2> QED
    BY <2>1, <2>2
<1>3. r \in Answer(rows, asked, board, segments)
  BY <1>2 DEF Answer
<1> QED
  BY <1>3

LEMMA ToldAlikeOf == IInv => ToldAlike
<1> SUFFICES ASSUME IInv PROVE ToldAlike
  OBVIOUS
<1>1. board \in SUBSET Nat /\ IsFiniteSet(board) /\ length \in [board -> Nat] /\ signal \in [board -> Nat]
  BY BoardIs DEF IInv, Surveyed, Sized
<1>2. ASSUME NEW e \in report
      PROVE  IsInterface(e.as, board) /\ e.candidates = Candidates(e.as, signal, length)
  BY EntryIs DEF IInv
<1>3. ASSUME NEW e \in report, NEW c
      PROVE  c \in AskedBy(e) <=> c \in Candidates(e.as, signal, length) /\ HasLimit(e.as, c)
  BY <1>2 DEF AskedBy, Limited, HasLimit
<1>4. ASSUME NEW e \in report PROVE PageTells(PageRows(e.as, signal, length), AskedBy(e))
  <2>1. ASSUME NEW c \in AskedBy(e) PROVE \E r \in PageRows(e.as, signal, length) : Tells(r, c)
    BY <1>1, <1>2, <1>3, PageAsks
  <2>2. ASSUME NEW r \in PageRows(e.as, signal, length), r.need > 0 \/ r.excess > 0
        PROVE  \E c \in AskedBy(e) : Tells(r, c)
    BY <1>1, <1>2, <1>3, <2>2, PageAsked
  <2> QED
    BY <2>1, <2>2, Zenon DEF PageTells
<1> DEFINE listed == {f \in report : f.as.kind # "ddr"}
           asks == UNION {AskedBy(e) : e \in listed}
<1>5. ASSUME NEW c \in asks PROVE ToldOf(Rows, c)
  <2>1. PICK e \in report : e.as.kind # "ddr" /\ c \in AskedBy(e)
    BY <1>5
  <2>2. PICK r \in PanelRows(e.as, signal, length) : NeedsAttention(r) /\ Tells(r, c)
    BY <1>1, <1>2, <1>3, <2>1, PanelAsks
  <2>3. r \in Rows
    BY <2>1, InRows
  <2> QED
    BY <2>2, <2>3, FoundByName
<1>6. ASSUME NEW r \in WorkOrder(Rows), r.group[1] # "half" PROVE \E c \in asks : Tells(r, c)
  <2>1. r \in Rows /\ NeedsAttention(r)
    BY DEF WorkOrder
  <2>2. PICK e \in report : e.as.kind # "ddr" /\
           (r \in PanelRows(e.as, signal, length) \/ r \in HalfRows(e.as, signal))
    BY <2>1, InRows
  <2>3. r \in PanelRows(e.as, signal, length)
    BY <1>6, <2>2, HalfRowsNamed
  <2>4. PICK c \in AskedBy(e) : Tells(r, c)
    BY <1>1, <1>2, <1>3, <2>1, <2>3, PanelAsked
  <2>5. c \in asks
    BY <2>2
  <2> QED
    BY <2>4, <2>5
<1>7. PanelTells(Rows, asks)
  <2> HIDE DEF asks
  <2> QED
    BY <1>5, <1>6, Zenon DEF PanelTells
<1> QED
  BY <1>4, <1>7, Zenon DEF ToldAlike

\* An interface the report asks nothing of is matched: the routed members of a
\* group, its reference aside, lie within twice its limit of each other, and its
\* other pairs within the limit of their family (detectInterfaces of
\* server/interfaces.go and Assess of proto/measure.go).
THEOREM InterfacesSilentMeansMatched == Spec => []SilentMeansMatched
<1>1. Spec => []IInv
  BY BeganInv, StepInv, PTL DEF Spec
<1> QED
  BY <1>1, SilentOf, PTL

\* The connections a net is said to miss join its islands into one, and no tree of
\* connections that does takes less copper (islandJoins of server/interfaces.go).
THEOREM InterfacesFewestJoins == Spec => []FewestJoins
<1>1. Spec => []IInv
  BY BeganInv, StepInv, PTL DEF Spec
<1> QED
  BY <1>1, FewestOf, PTL

\* The user is told the same of a net wherever it is shown: what is asked of it is
\* in the rows of the page and in the panel's list of work, with the same figures,
\* and a click finds it; and nothing else is to be changed there
\* (detectInterfaces of server/interfaces.go, netRows and lookupNets of kicad.go).
THEOREM InterfacesToldAlike == Spec => []ToldAlike
<1>1. Spec => []IInv
  BY BeganInv, StepInv, PTL DEF Spec
<1> QED
  BY <1>1, ToldAlikeOf, PTL
================================================================================
