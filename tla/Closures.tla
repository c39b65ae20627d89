------------------------------- MODULE Closures -------------------------------
(****************************************************************************)
(* What the proofs about recursive functions rest on: induction over the    *)
(* naturals, stated of sets; that a recursive function is what its          *)
(* definition says; and that a set which grows in rounds inside a finite    *)
(* one stops growing, at the least set that is closed. Then the largest of  *)
(* finitely many numbers, and division with remainder.                      *)
(****************************************************************************)
EXTENDS Integers, WellFoundedInduction, FiniteSetTheorems, TLAPS

(* A set of numbers that is not empty has a least element.                  *)
LEMMA LeastNumber ==
    ASSUME NEW T \in SUBSET Nat, T # {}
    PROVE  \E x \in T : \A y \in T : x <= y
<1>1. \E x \in T : \A y \in T : <<y, x>> \notin OpToRel(<, Nat)
  BY NatLessThanWellFounded, WFMin, Zenon
<1>2. \A x, y \in Nat : <<y, x>> \in OpToRel(<, Nat) <=> y < x
  BY DEF OpToRel
<1>3. \E x \in T : \A y \in T : ~(y < x)
  BY <1>1, <1>2, Zenon
<1>4. QED
  BY <1>3

(* Induction: what holds of zero, and of n + 1 when it holds of n.          *)
LEMMA Induction ==
    ASSUME NEW S, 0 \in S, \A n \in Nat : n \in S => n + 1 \in S
    PROVE  \A n \in Nat : n \in S
<1>1. SUFFICES ASSUME Nat \ S # {} PROVE FALSE
  OBVIOUS
<1>2. PICK x \in Nat \ S : \A y \in Nat \ S : x <= y
  BY <1>1, LeastNumber
<1>3. x # 0 /\ x - 1 \in Nat
  BY <1>2
<1>4. (x - 1) + 1 \in S
  BY <1>2, <1>3
<1>5. QED
  BY <1>2, <1>4

----------------------------------------------------------------------------
(* Functions defined by recursion over 0..n: each value is a step h from    *)
(* the one before.                                                          *)

IsRecursive(f, n, a, h) == f = [i \in 0..n |-> IF i = 0 THEN a ELSE h[<<i, f[i - 1]>>]]

(* There is such a function, and its values are where the steps lead.       *)
LEMMA RecursiveExists ==
    ASSUME NEW V, NEW a \in V, NEW h \in [Nat \X V -> V], NEW n \in Nat
    PROVE  \E f \in [0..n -> V] : IsRecursive(f, n, a, h)
<1> DEFINE S == {m \in Nat : \E f \in [0..m -> V] : IsRecursive(f, m, a, h)}
<1>1. 0 \in S
  <2> DEFINE f == [i \in 0..0 |-> a]
  <2>1. f \in [0..0 -> V]
    OBVIOUS
  <2>2. IsRecursive(f, 0, a, h)
    BY DEF IsRecursive
  <2> QED
    BY <2>1, <2>2
<1>2. ASSUME NEW m \in Nat, m \in S PROVE m + 1 \in S
  <2>1. PICK f \in [0..m -> V] : IsRecursive(f, m, a, h)
    BY <1>2
  <2> DEFINE e == [i \in 0..(m + 1) |-> IF i = m + 1 THEN h[<<m + 1, f[m]>>] ELSE f[i]]
  <2>2. e \in [0..(m + 1) -> V]
    OBVIOUS
  <2>3. ASSUME NEW i \in 0..(m + 1)
        PROVE  e[i] = IF i = 0 THEN a ELSE h[<<i, e[i - 1]>>]
    <3>1. CASE i = m + 1
      <4>1. i # 0 /\ i - 1 = m /\ e[m] = f[m] /\ e[i] = h[<<i, f[m]>>]
        BY <3>1
      <4> QED
        BY <4>1
    <3>2. CASE i \in 0..m
      <4>1. f[i] = IF i = 0 THEN a ELSE h[<<i, f[i - 1]>>]
        BY <2>1, <3>2 DEF IsRecursive
      <4>2. e[i] = f[i] /\ (i # 0 => e[i - 1] = f[i - 1])
        BY <3>2
      <4> HIDE DEF e
      <4> QED
        BY <4>1, <4>2
    <3> QED
      BY <3>1, <3>2
  <2>4. IsRecursive(e, m + 1, a, h)
    <3>1. e = [i \in 0..(m + 1) |-> e[i]]
      BY <2>2
    <3> HIDE DEF e
    <3> QED
      BY <2>3, <3>1 DEF IsRecursive
  <2> QED
    BY <2>2, <2>4
<1> HIDE DEF S
<1>3. n \in S
  BY <1>1, <1>2, Induction
<1> QED
  BY <1>3 DEF S

(* There is no other.                                                       *)
LEMMA RecursiveIsUnique ==
    ASSUME NEW n \in Nat, NEW a, NEW h, NEW f, NEW e,
           IsRecursive(f, n, a, h), IsRecursive(e, n, a, h)
    PROVE  f = e
<1> DEFINE S == {m \in Nat : m \in 0..n => f[m] = e[m]}
<1>1. 0 \in S
  BY DEF IsRecursive
<1>2. ASSUME NEW m \in Nat, m \in S PROVE m + 1 \in S
  <2> SUFFICES ASSUME m + 1 \in 0..n PROVE f[m + 1] = e[m + 1]
    OBVIOUS
  <2>1. f[m] = e[m]
    BY <1>2
  <2>2. /\ f[m + 1] = h[<<m + 1, f[(m + 1) - 1]>>]
        /\ e[m + 1] = h[<<m + 1, e[(m + 1) - 1]>>]
    BY DEF IsRecursive
  <2> QED
    BY <2>1, <2>2
<1> HIDE DEF S
<1>3. \A m \in Nat : m \in S
  BY <1>1, <1>2, Induction
<1>4. \A m \in 0..n : f[m] = e[m]
  BY <1>3 DEF S
<1>5. f = [m \in 0..n |-> f[m]] /\ e = [m \in 0..n |-> e[m]]
  BY DEF IsRecursive
<1> QED
  BY <1>4, <1>5

----------------------------------------------------------------------------
(* Rounds. *)

(* W collects, in n rounds, what h adds, within a finite set U that has no  *)
(* more than n elements.                                                    *)
IsRounds(W, n, U, h) ==
    /\ IsFiniteSet(U) /\ n \in Nat /\ Cardinality(U) <= n
    /\ h \in [SUBSET U -> SUBSET U]
    /\ h[{}] = {} /\ \A X \in SUBSET U : X \subseteq h[X]
    /\ W \in [0..n -> SUBSET U]
    /\ \A i \in 1..n : W[i] = h[W[i - 1]]

(* The rounds never lose anything.                                          *)
LEMMA RoundsKeep ==
    ASSUME NEW W, NEW n, NEW U, NEW h, IsRounds(W, n, U, h)
    PROVE  W[0] \subseteq W[n]
<1> USE DEF IsRounds
<1> DEFINE S == {m \in Nat : m \in 0..n => W[0] \subseteq W[m]}
<1>1. 0 \in S
  OBVIOUS
<1>2. ASSUME NEW m \in Nat, m \in S PROVE m + 1 \in S
  <2> SUFFICES ASSUME m + 1 \in 0..n PROVE W[0] \subseteq W[m + 1]
    OBVIOUS
  <2>1. m \in 0..n /\ W[0] \subseteq W[m]
    BY <1>2
  <2>2. W[m] \in SUBSET U /\ W[m + 1] = h[W[m]]
    BY <2>1
  <2> QED
    BY <2>1, <2>2
<1> HIDE DEF S
<1>3. \A m \in Nat : m \in S
  BY <1>1, <1>2, Induction
<1> QED
  BY <1>3 DEF S

(* The last round adds nothing: each before had an element more.            *)
LEMMA RoundsEnd ==
    ASSUME NEW W, NEW n, NEW U, NEW h, IsRounds(W, n, U, h)
    PROVE  h[W[n]] = W[n]
<1> USE DEF IsRounds
<1>0. \A X \in SUBSET U : IsFiniteSet(X) /\ Cardinality(X) \in Nat /\ Cardinality(X) <= Cardinality(U)
  BY FS_Subset, FS_CardinalityType
<1> DEFINE S == {m \in Nat : m \in 0..n => h[W[m]] = W[m] \/ Cardinality(W[m]) > m}
<1>1. 0 \in S
  <2>1. 0 \in 0..n /\ W[0] \in SUBSET U
    OBVIOUS
  <2>2. CASE W[0] = {}
    <3>1. h[W[0]] = W[0]
      BY <2>2
    <3> QED
      BY <3>1
  <2>3. CASE W[0] # {}
    <3>1. Cardinality(W[0]) # 0 /\ Cardinality(W[0]) \in Nat
      BY <1>0, <2>1, <2>3, FS_EmptySet
    <3>2. Cardinality(W[0]) > 0
      BY <3>1
    <3> QED
      BY <3>2
  <2> QED
    BY <2>2, <2>3
<1>2. ASSUME NEW m \in Nat, m \in S PROVE m + 1 \in S
  <2> SUFFICES ASSUME m + 1 \in 0..n
               PROVE  h[W[m + 1]] = W[m + 1] \/ Cardinality(W[m + 1]) > m + 1
    OBVIOUS
  <2>1. W[m] \in SUBSET U /\ W[m + 1] \in SUBSET U /\ W[m + 1] = h[W[m]]
    OBVIOUS
  <2>2. CASE h[W[m]] = W[m]
    BY <2>1, <2>2
  <2>3. CASE h[W[m]] # W[m]
    <3>1. Cardinality(W[m]) > m
      BY <1>2, <2>3
    <3>2. W[m] \subseteq W[m + 1] /\ W[m] # W[m + 1]
      BY <2>1, <2>3
    <3>3. Cardinality(W[m]) < Cardinality(W[m + 1])
      BY <1>0, <2>1, <3>2, FS_Subset
    <3> QED
      BY <1>0, <2>1, <3>1, <3>3
  <2> QED
    BY <2>2, <2>3
<1> HIDE DEF S
<1>3. n \in S
  BY <1>1, <1>2, Induction
<1>4. n \in 0..n /\ W[n] \in SUBSET U
  OBVIOUS
<1>5. ~(Cardinality(W[n]) > n)
  BY <1>0, <1>4, FS_CardinalityType
<1> QED
  BY <1>3, <1>4, <1>5 DEF S

(* What the rounds collect lies in every set that holds what they begin     *)
(* with and that no round leaves.                                           *)
LEMMA RoundsAreNeeded ==
    ASSUME NEW W, NEW n, NEW U, NEW h, IsRounds(W, n, U, h),
           NEW T, W[0] \subseteq T, \A X \in SUBSET U : X \subseteq T => h[X] \subseteq T
    PROVE  W[n] \subseteq T
<1> USE DEF IsRounds
<1> DEFINE S == {m \in Nat : m \in 0..n => W[m] \subseteq T}
<1>1. 0 \in S
  OBVIOUS
<1>2. ASSUME NEW m \in Nat, m \in S PROVE m + 1 \in S
  <2> SUFFICES ASSUME m + 1 \in 0..n PROVE W[m + 1] \subseteq T
    OBVIOUS
  <2>1. m \in 0..n /\ W[m] \subseteq T /\ W[m] \in SUBSET U
    BY <1>2
  <2>2. W[m + 1] = h[W[m]]
    BY <2>1
  <2> QED
    BY <2>1, <2>2
<1> HIDE DEF S
<1>3. \A m \in Nat : m \in S
  BY <1>1, <1>2, Induction
<1> QED
  BY <1>3 DEF S

----------------------------------------------------------------------------
(* A finite chain has a first element: one that is related to all others,   *)
(* when of any two one is related to the other.                             *)
LEMMA ChainHasFirst ==
    ASSUME NEW P, IsFiniteSet(P), P # {}, NEW R,
           \A x, y \in P : <<x, y>> \in R \/ <<y, x>> \in R,
           \A x, y, z \in P : <<x, y>> \in R /\ <<y, z>> \in R => <<x, z>> \in R
    PROVE  \E x \in P : \A y \in P : <<x, y>> \in R
<1> DEFINE Beyond(x) == {y \in P : <<x, y>> \notin R}
<1>1. \A x \in P : IsFiniteSet(Beyond(x)) /\ Cardinality(Beyond(x)) \in Nat
  BY FS_Subset, FS_CardinalityType
<1> DEFINE Sizes == {m \in Nat : \E x \in P : m = Cardinality(Beyond(x))}
<1>2. Sizes \in SUBSET Nat /\ Sizes # {}
  <2> HIDE DEF Beyond
  <2>1. PICK x \in P : TRUE
    OBVIOUS
  <2>2. Cardinality(Beyond(x)) \in Sizes
    BY <1>1
  <2> QED
    BY <2>2
<1>3. PICK least \in Sizes : \A y \in Sizes : least <= y
  BY <1>2, LeastNumber
<1>4. PICK x \in P : least = Cardinality(Beyond(x))
  BY <1>3
<1>5. SUFFICES ASSUME NEW y \in P, <<x, y>> \notin R PROVE FALSE
  BY <1>4
<1>6. <<y, x>> \in R /\ <<y, y>> \in R
  BY <1>5
<1>7. Beyond(y) \subseteq Beyond(x) /\ y \in Beyond(x) /\ y \notin Beyond(y)
  <2>1. ASSUME NEW z \in P, <<x, z>> \in R PROVE <<y, z>> \in R
    BY <1>6, <2>1
  <2> QED
    BY <1>5, <1>6, <2>1
<1>8. Cardinality(Beyond(y)) < Cardinality(Beyond(x))
  <2> HIDE DEF Beyond
  <2>1. Beyond(y) # Beyond(x)
    BY <1>7
  <2> QED
    BY <1>1, <1>7, <2>1, FS_Subset
<1>9. least <= Cardinality(Beyond(y))
  <2> HIDE DEF Beyond
  <2>1. Cardinality(Beyond(y)) \in Sizes
    BY <1>1
  <2> QED
    BY <1>3, <2>1
<1> QED
  BY <1>1, <1>4, <1>8, <1>9

(* A finite set of numbers that is not empty has a largest one.             *)
LEMMA LargestNumber ==
    ASSUME NEW S, IsFiniteSet(S), S \subseteq Int, S # {}
    PROVE  \E x \in S : \A y \in S : y <= x
<1> DEFINE R == {e \in S \X S : e[1] >= e[2]}
<1>1. \A x, y \in S : <<x, y>> \in R <=> x >= y
  OBVIOUS
<1> HIDE DEF R
<1>2. ASSUME NEW x \in S, NEW y \in S PROVE <<x, y>> \in R \/ <<y, x>> \in R
  <2>1. x \in Int /\ y \in Int
    OBVIOUS
  <2>2. x >= y \/ y >= x
    BY <2>1
  <2> QED
    BY <1>1, <2>2
<1>3. \A x, y, z \in S : <<x, y>> \in R /\ <<y, z>> \in R => <<x, z>> \in R
  BY <1>1
<1>4. \E x \in S : \A y \in S : <<x, y>> \in R
  BY <1>2, <1>3, ChainHasFirst
<1> QED
  BY <1>1, <1>4

----------------------------------------------------------------------------
(* Division with remainder. *)

(* The remainder is smaller than the divisor, and the quotient and the      *)
(* remainder give the number back.                                          *)
LEMMA DivMod ==
    ASSUME NEW a \in Nat, NEW d \in Nat \ {0}
    PROVE  /\ a \div d \in Nat
           /\ a % d \in 0..(d - 1)
           /\ a = d * (a \div d) + (a % d)
  BY SMT

(* No other quotient and remainder do.                                      *)
LEMMA DivModUnique ==
    ASSUME NEW d \in Nat \ {0},
           NEW q \in Nat, NEW r \in 0..(d - 1), NEW p \in Nat, NEW s \in 0..(d - 1),
           d * q + r = d * p + s
    PROVE  q = p /\ r = s
<1>1. q = p
  <2>1. CASE q < p
    <3>1. q + 1 <= p
      BY <2>1
    <3>2. d * (q + 1) <= d * p
      BY <3>1, SMT
    <3>3. d * (q + 1) = d * q + d
      BY SMT
    <3>4. d * q \in Nat /\ d * p \in Nat
      BY SMT
    <3> QED
      BY <3>2, <3>3, <3>4
  <2>2. CASE p < q
    <3>1. p + 1 <= q
      BY <2>2
    <3>2. d * (p + 1) <= d * q
      BY <3>1, SMT
    <3>3. d * (p + 1) = d * p + d
      BY SMT
    <3>4. d * q \in Nat /\ d * p \in Nat
      BY SMT
    <3> QED
      BY <3>2, <3>3, <3>4
  <2> QED
    BY <2>1, <2>2
<1>2. d * q \in Nat
  BY SMT
<1> QED
  BY <1>1, <1>2

(* A number below the modulus is its own remainder.                         *)
LEMMA ModSmall ==
    ASSUME NEW w \in Nat \ {0}, NEW a \in Nat, a < w PROVE a % w = a
<1>1. a \div w \in Nat /\ a % w \in 0..(w - 1) /\ a = w * (a \div w) + (a % w)
  BY DivMod
<1>2. a \in 0..(w - 1) /\ a = w * 0 + a
  BY SMT
<1> DEFINE p == a \div w
           s == a % w
<1>3. p \in Nat /\ s \in 0..(w - 1) /\ w * p + s = w * 0 + a
  BY <1>1, <1>2
<1> HIDE DEF p, s
<1>4. s = a
  BY <1>2, <1>3, DivModUnique
<1> QED
  BY <1>4 DEF s
=============================================================================
