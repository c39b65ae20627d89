------------------------ MODULE FeatureExtractionProofs ------------------------
(****************************************************************************)
(* Proofs about FeatureExtraction: the walk back from the use of a load     *)
(* collects the ways to it and the distance counts what lies on them; the   *)
(* entry of a block in the list of depths is the length of its longest      *)
(* chain, its entries in the lists of live values say what a data-flow      *)
(* analysis would; and no load is missing from both counts of divergent and *)
(* uniform ones. All of it holds for every kernel in SSA form, structured   *)
(* or not. The argument has three parts: what the walk has collected and    *)
(* still has on its stack (WalkInv), how far the traversal of the blocks    *)
(* has come (PlaceInv), and that the features are those of the blocks       *)
(* behind it (CollectorInv); the rest is about the kernel alone.            *)
(****************************************************************************)
EXTENDS FeatureExtraction, KernelProofs, SequenceTheorems

(* What a sequence holds.                                                   *)
Elems(s) == {s[n] : n \in DOMAIN s}

(* What a stack holds is its top and what is left when the top is taken.    *)
LEMMA ElemsPopped ==
    ASSUME NEW X, NEW s \in Seq(X), s # <<>>
    PROVE  /\ Head(s) \in X /\ Tail(s) \in Seq(X)
           /\ Len(Tail(s)) = Len(s) - 1
           /\ Elems(s) = {Head(s)} \cup Elems(Tail(s))
<1>1. /\ Len(s) \in Nat \ {0} /\ DOMAIN s = 1..Len(s)
      /\ Head(s) = s[1] /\ s[1] \in X
      /\ Tail(s) \in Seq(X) /\ Len(Tail(s)) = Len(s) - 1
      /\ DOMAIN Tail(s) = 1..(Len(s) - 1)
      /\ \A n \in 1..(Len(s) - 1) : Tail(s)[n] = s[n + 1]
  OBVIOUS
<1>2. \A x : x \in Elems(s) <=> x \in {Head(s)} \cup Elems(Tail(s))
  <2>1. \A n \in 1..Len(s) : n = 1 \/ \E m \in 1..(Len(s) - 1) : n = m + 1
    <3> SUFFICES ASSUME NEW n \in 1..Len(s), n # 1 PROVE \E m \in 1..(Len(s) - 1) : n = m + 1
      OBVIOUS
    <3>1. n - 1 \in 1..(Len(s) - 1) /\ n = (n - 1) + 1
      BY <1>1
    <3> QED
      BY <3>1
  <2>2. 1 \in 1..Len(s) /\ \A m \in 1..(Len(s) - 1) : m + 1 \in 1..Len(s)
    BY <1>1
  <2>3. ASSUME NEW x \in Elems(s) PROVE x \in {Head(s)} \cup Elems(Tail(s))
    <3>1. PICK n \in 1..Len(s) : x = s[n]
      BY <1>1 DEF Elems
    <3>2. ASSUME NEW m \in 1..(Len(s) - 1), n = m + 1 PROVE x \in Elems(Tail(s))
      BY <1>1, <3>1, <3>2, Zenon DEF Elems
    <3> QED
      BY <1>1, <2>1, <3>1, <3>2
  <2>4. ASSUME NEW x \in Elems(Tail(s)) PROVE x \in Elems(s)
    <3>1. PICK n \in 1..(Len(s) - 1) : x = Tail(s)[n]
      BY <1>1 DEF Elems
    <3> QED
      BY <1>1, <2>2, <3>1, Zenon DEF Elems
  <2>5. Head(s) \in Elems(s)
    BY <1>1, <2>2 DEF Elems
  <2> QED
    BY <2>3, <2>4, <2>5
<1> QED
  BY <1>1, <1>2

(* Two sequences together hold what either holds.                           *)
LEMMA ElemsJoined ==
    ASSUME NEW X, NEW s \in Seq(X), NEW t \in Seq(X)
    PROVE  /\ s \o t \in Seq(X) /\ Len(s \o t) = Len(s) + Len(t)
           /\ Elems(s \o t) = Elems(s) \cup Elems(t)
<1>1. /\ s \o t \in Seq(X) /\ Len(s \o t) = Len(s) + Len(t)
      /\ Len(s) \in Nat /\ Len(t) \in Nat
      /\ DOMAIN s = 1..Len(s) /\ DOMAIN t = 1..Len(t) /\ DOMAIN (s \o t) = 1..(Len(s) + Len(t))
      /\ \A n \in 1..Len(s) : (s \o t)[n] = s[n]
      /\ \A n \in 1..Len(t) : (s \o t)[Len(s) + n] = t[n]
  OBVIOUS
<1>2. \A n \in 1..(Len(s) + Len(t)) : n \in 1..Len(s) \/ \E m \in 1..Len(t) : n = Len(s) + m
  <2> SUFFICES ASSUME NEW n \in 1..(Len(s) + Len(t)), n \notin 1..Len(s)
               PROVE  \E m \in 1..Len(t) : n = Len(s) + m
    OBVIOUS
  <2>1. n - Len(s) \in 1..Len(t) /\ n = Len(s) + (n - Len(s))
    BY <1>1
  <2> QED
    BY <2>1
<1>3. \A n \in 1..Len(s) : n \in 1..(Len(s) + Len(t))
  BY <1>1
<1>4. \A n \in 1..Len(t) : Len(s) + n \in 1..(Len(s) + Len(t))
  BY <1>1
<1>5. ASSUME NEW x \in Elems(s \o t) PROVE x \in Elems(s) \cup Elems(t)
  <2>1. PICK n \in 1..(Len(s) + Len(t)) : x = (s \o t)[n]
    BY <1>1, <1>5 DEF Elems
  <2>2. CASE n \in 1..Len(s)
    BY <1>1, <2>1, <2>2 DEF Elems
  <2>3. CASE \E m \in 1..Len(t) : n = Len(s) + m
    BY <1>1, <2>1, <2>3 DEF Elems
  <2> QED
    BY <1>2, <2>2, <2>3
<1>6. ASSUME NEW x \in Elems(s) PROVE x \in Elems(s \o t)
  BY <1>1, <1>3, <1>6 DEF Elems
<1>7. ASSUME NEW x \in Elems(t) PROVE x \in Elems(s \o t)
  BY <1>1, <1>4, <1>7 DEF Elems
<1> QED
  BY <1>1, <1>5, <1>6, <1>7

(* A sequence holds, with one element more, that one too.                   *)
LEMMA ElemsAppended ==
    ASSUME NEW X, NEW s \in Seq(X), NEW x \in X
    PROVE  /\ Append(s, x) \in Seq(X) /\ Len(Append(s, x)) = Len(s) + 1
           /\ Elems(Append(s, x)) = Elems(s) \cup {x}
<1>1. <<x>> \in Seq(X) /\ Len(<<x>>) = 1 /\ Append(s, x) = s \o <<x>>
  OBVIOUS
<1>2. Elems(<<x>>) = {x}
  BY DEF Elems
<1>3. /\ s \o <<x>> \in Seq(X) /\ Len(s \o <<x>>) = Len(s) + Len(<<x>>)
      /\ Elems(s \o <<x>>) = Elems(s) \cup Elems(<<x>>)
  BY <1>1, ElemsJoined, Zenon
<1> QED
  BY <1>1, <1>2, <1>3, Zenon

----------------------------------------------------------------------------
(* Numbers in their order.                                                  *)

(* The number of x among the members of N.                                  *)
Nth(N, x) == Quantify(N, LAMBDA y : y <= x)

(* The members of a set of numbers are numbered from 1, none like another.  *)
LEMMA NthIs ==
    ASSUME NEW N \in SUBSET Nat, IsFiniteSet(N), NEW x \in N
    PROVE  /\ Nth(N, x) \in 1..Cardinality(N)
           /\ \A y \in N : Nth(N, y) = Nth(N, x) => x = y
<1> DEFINE Upto(y) == {z \in N : z <= y}
<1>1. \A y : Nth(N, y) = Cardinality(Upto(y))
  BY Zenon DEF Nth, Quantify
<1>2. \A y : IsFiniteSet(Upto(y)) /\ Cardinality(Upto(y)) \in Nat
             /\ Cardinality(Upto(y)) <= Cardinality(N)
  BY FS_Subset, FS_CardinalityType
<1>3. Cardinality(N) \in Nat
  BY FS_CardinalityType
<1>4. x \in Upto(x)
  OBVIOUS
<1>5. Cardinality(Upto(x)) # 0
  BY <1>2, <1>4, FS_EmptySet
<1>6. ASSUME NEW y \in N, Cardinality(Upto(y)) = Cardinality(Upto(x)) PROVE x = y
  <2>1. CASE x <= y
    <3>0. \A z \in N : z <= x => z <= y
      BY <2>1
    <3>1. Upto(x) \subseteq Upto(y)
      BY <3>0
    <3>2. Upto(x) = Upto(y)
      <4> HIDE DEF Upto
      <4> QED
        BY <1>2, <1>6, <3>1, FS_Subset
    <3>3. y \in Upto(y)
      OBVIOUS
    <3>4. y \in Upto(x)
      BY <3>2, <3>3, Zenon
    <3> QED
      BY <2>1, <3>4
  <2>2. CASE y <= x
    <3>0. \A z \in N : z <= y => z <= x
      BY <2>2
    <3>1. Upto(y) \subseteq Upto(x)
      BY <3>0
    <3>2. Upto(x) = Upto(y)
      <4> HIDE DEF Upto
      <4> QED
        BY <1>2, <1>6, <3>1, FS_Subset
    <3>4. x \in Upto(y)
      BY <3>2, <1>4, Zenon
    <3> QED
      BY <2>2, <3>4
  <2> QED
    BY <2>1, <2>2
<1> HIDE DEF Upto
<1> QED
  BY <1>1, <1>2, <1>3, <1>5, <1>6

(* Sorted lists each member of a set once, at its number.                   *)
LEMMA SortedIs ==
    ASSUME NEW N \in SUBSET Nat, IsFiniteSet(N)
    PROVE  /\ Sorted(N) \in Seq(N) /\ Len(Sorted(N)) = Cardinality(N)
           /\ DOMAIN Sorted(N) = 1..Cardinality(N)
           /\ Elems(Sorted(N)) = N
           /\ \A x \in N : Sorted(N)[Nth(N, x)] = x
           /\ \A n \in 1..Cardinality(N) : Nth(N, Sorted(N)[n]) = n
<1> DEFINE c == Cardinality(N)
           f == [x \in N |-> Nth(N, x)]
<1>1. c \in Nat
  BY FS_CardinalityType
<1>2. f \in Injection(N, 1..c)
  BY NthIs, Zenon DEF Injection, IsInjective
<1>3. IsFiniteSet(1..c) /\ Cardinality(1..c) = c
  BY <1>1, FS_Interval
<1>4. f \in Surjection(N, 1..c)
  BY <1>2, <1>3, FS_Injection
<1>5. \A n \in 1..c : \E x \in N : Nth(N, x) = n
  BY <1>4 DEF Surjection
<1>6. \A n \in 1..c : Sorted(N)[n] = CHOOSE x \in N : Nth(N, x) = n
  BY DEF Sorted, Nth, Quantify
<1>7. \A n \in 1..c : Sorted(N)[n] \in N /\ Nth(N, Sorted(N)[n]) = n
  BY <1>5, <1>6
<1>8. Sorted(N) \in [1..c -> N]
  BY <1>7 DEF Sorted
<1>9. Sorted(N) \in Seq(N) /\ Len(Sorted(N)) = c /\ DOMAIN Sorted(N) = 1..c
  BY <1>1, <1>8
<1>10. ASSUME NEW x \in N PROVE Nth(N, x) \in 1..c /\ Sorted(N)[Nth(N, x)] = x
  <2>1. Nth(N, x) \in 1..c /\ \A y \in N : Nth(N, y) = Nth(N, x) => x = y
    BY NthIs
  <2> HIDE DEF c, f
  <2> QED
    BY <1>7, <2>1
<1> HIDE DEF c, f
<1>11. Elems(Sorted(N)) = N
  BY <1>7, <1>9, <1>10 DEF Elems
<1> QED
  BY <1>7, <1>9, <1>10, <1>11 DEF c

----------------------------------------------------------------------------
(* The walk back from a use, and what lies on the way.                      *)

(* countLoadsBounded counts finitely many loads, all of the block.          *)
LEMMA LoadsInIs ==
    ASSUME NEW k \in Kernels, NEW b, NEW x
    PROVE  IsFiniteSet(LoadsIn(k, b, x)) /\ LoadsIn(k, b, x) \subseteq Insts(k, b)
<1>1. LoadsIn(k, b, x) \subseteq Insts(k, b) /\ LoadsIn(k, b, x) \subseteq k.insts
  BY DEF LoadsIn, Insts
<1> QED
  BY <1>1, FS_Subset, KernelsAssumption

(* The distance by which a walk measures, one block after the other.        *)
LEMMA DistanceIs ==
    ASSUME NEW k \in Kernels, NEW x, NEW w \in Seq(k.blocks)
    PROVE  \E D \in [0..Len(w) -> Nat] :
              /\ D[0] = 0 /\ Distance(k, x, w) = D[Len(w)]
              /\ \A n \in 1..Len(w) : D[n] = D[n - 1] + Cardinality(LoadsIn(k, w[n], x))
<1> DEFINE C == [n \in 1..Len(w) |-> Cardinality(LoadsIn(k, w[n], x))]
           L == Len(w)
           h == [z \in Nat \X Nat |-> IF z[1] \in 1..L THEN z[2] + C[z[1]] ELSE 0]
           D[n \in 0..Len(w)] ==
               IF n = 0 THEN 0 ELSE D[n - 1] + Cardinality(LoadsIn(k, w[n], x))
<1>1. L \in Nat /\ C \in [1..L -> Nat]
  <2>1. \A n \in 1..L : Cardinality(LoadsIn(k, w[n], x)) \in Nat
    BY LoadsInIs, FS_CardinalityType
  <2> QED
    BY <2>1
<1>2. Distance(k, x, w) = D[L]
  BY DEF Distance
<1>3. h \in [Nat \X Nat -> Nat]
  BY <1>1
<1>4. PICK W \in [0..L -> Nat] : IsRecursive(W, L, 0, h)
  <2> HIDE DEF L, h
  <2> QED
    BY <1>1, <1>3, RecursiveExists
<1>5. \A i \in 0..L : W[i] = IF i = 0 THEN 0 ELSE W[i - 1] + C[i]
  <2> SUFFICES ASSUME NEW i \in 0..L PROVE W[i] = IF i = 0 THEN 0 ELSE W[i - 1] + C[i]
    OBVIOUS
  <2> HIDE DEF L, C
  <2>1. W[i] = IF i = 0 THEN 0 ELSE h[<<i, W[i - 1]>>]
    <3> HIDE DEF h
    <3> QED
      BY <1>4 DEF IsRecursive
  <2>2. ASSUME i # 0 PROVE i \in 1..L /\ i - 1 \in 0..L /\ W[i - 1] \in Nat
    BY <1>1, <2>2
  <2> QED
    BY <2>1, <2>2
<1>6. W = [n \in 0..Len(w) |-> IF n = 0 THEN 0 ELSE W[n - 1] + Cardinality(LoadsIn(k, w[n], x))]
  <2>1. W = [i \in 0..L |-> W[i]]
    BY <1>4
  <2>2. \A i \in 0..L : i # 0 => i \in 1..L
    BY <1>1
  <2>3. \A i \in 0..L : W[i] = IF i = 0 THEN 0 ELSE W[i - 1] + Cardinality(LoadsIn(k, w[i], x))
    BY <1>5, <2>2
  <2> HIDE DEF C, h
  <2> QED
    BY <2>1, <2>3
<1>7. D = [n \in 0..Len(w) |-> IF n = 0 THEN 0 ELSE D[n - 1] + Cardinality(LoadsIn(k, w[n], x))]
  BY <1>6
<1> HIDE DEF D
<1>8. D[0] = 0 /\ \A i \in 1..L : D[i] = D[i - 1] + C[i]
  <2>1. 0 \in 0..Len(w) /\ \A i \in 1..L : i \in 0..Len(w) /\ i # 0
    BY <1>1
  <2>2. D[0] = 0
    BY <1>7, <2>1
  <2>3. ASSUME NEW i \in 1..L PROVE D[i] = D[i - 1] + C[i]
    <3>1. C[i] = Cardinality(LoadsIn(k, w[i], x))
      OBVIOUS
    <3>2. D[i] = D[i - 1] + Cardinality(LoadsIn(k, w[i], x))
      BY <1>7, <2>1, Zenon
    <3> QED
      BY <3>1, <3>2, Zenon
  <2> QED
    BY <2>2, <2>3
<1> DEFINE T == {m \in Nat : m \in 0..L => D[m] = W[m]}
<1>9. \A m \in Nat : m \in T
  <2> HIDE DEF C, h, L
  <2>1. 0 \in T
    BY <1>1, <1>5, <1>8
  <2>2. ASSUME NEW m \in Nat, m \in T PROVE m + 1 \in T
    <3> SUFFICES ASSUME m + 1 \in 0..L PROVE D[m + 1] = W[m + 1]
      OBVIOUS
    <3>1. m + 1 \in 1..L /\ (m + 1) - 1 = m /\ D[m] = W[m]
      BY <1>1, <2>2
    <3> QED
      BY <1>5, <1>8, <3>1
  <2> HIDE DEF T
  <2> QED
    BY <2>1, <2>2, Induction
<1>10. D \in [0..L -> Nat]
  <2>1. \A m \in 0..L : D[m] = W[m] /\ W[m] \in Nat
    BY <1>1, <1>4, <1>9
  <2>2. D = [m \in 0..L |-> D[m]]
    BY <1>7
  <2> QED
    BY <2>1, <2>2
<1> QED
  BY <1>2, <1>8, <1>10

(* It misses no load that the walk meets; it counts none twice if the walk  *)
(* meets no block twice.                                                    *)
LEMMA DistanceCounts ==
    ASSUME NEW k \in Kernels, NEW x, NEW w \in Seq(k.blocks)
    PROVE  LET seen == UNION {LoadsIn(k, b, x) : b \in Elems(w)}
           IN  /\ Distance(k, x, w) \in Nat /\ Distance(k, x, w) >= Cardinality(seen)
               /\ IsInjective(w) => Distance(k, x, w) = Cardinality(seen)
<1>0. PICK D \in [0..Len(w) -> Nat] :
              /\ D[0] = 0 /\ Distance(k, x, w) = D[Len(w)]
              /\ \A n \in 1..Len(w) : D[n] = D[n - 1] + Cardinality(LoadsIn(k, w[n], x))
  BY DistanceIs, Zenon
<1> DEFINE L == Len(w)
           Seen(n) == UNION {LoadsIn(k, w[m], x) : m \in 1..n}
           T == {n \in Nat : n \in 0..L =>
                    /\ IsFiniteSet(Seen(n)) /\ D[n] >= Cardinality(Seen(n))
                    /\ IsInjective(w) => D[n] = Cardinality(Seen(n))}
<1>1. L \in Nat /\ DOMAIN w = 1..L
  OBVIOUS
<1>2. 0 \in T
  <2>1. Seen(0) = {}
    OBVIOUS
  <2>2. IsFiniteSet(Seen(0)) /\ Cardinality(Seen(0)) = 0
    BY <2>1, FS_EmptySet
  <2> HIDE DEF Seen
  <2> QED
    BY <1>0, <2>2
<1>3. ASSUME NEW n \in Nat, n \in T PROVE n + 1 \in T
  <2> SUFFICES ASSUME n + 1 \in 0..L
               PROVE  /\ IsFiniteSet(Seen(n + 1)) /\ D[n + 1] >= Cardinality(Seen(n + 1))
                      /\ IsInjective(w) => D[n + 1] = Cardinality(Seen(n + 1))
    <3> HIDE DEF Seen
    <3> QED
      OBVIOUS
  <2> DEFINE new == LoadsIn(k, w[n + 1], x)
  <2>1. Seen(n + 1) = Seen(n) \cup new
    <3>1. \A m \in 1..(n + 1) : m \in 1..n \/ m = n + 1
      OBVIOUS
    <3>2. 1..n \subseteq 1..(n + 1) /\ n + 1 \in 1..(n + 1)
      OBVIOUS
    <3> QED
      BY <3>1, <3>2
  <2>2. IsFiniteSet(new)
    BY LoadsInIs
  <2>3. ASSUME IsInjective(w) PROVE Seen(n) \cap new = {}
    <3> SUFFICES ASSUME NEW m \in 1..n, NEW i \in LoadsIn(k, w[m], x), i \in new PROVE FALSE
      OBVIOUS
    <3>1. i \in Insts(k, w[m]) /\ i \in Insts(k, w[n + 1])
      BY LoadsInIs
    <3>2. w[m] = w[n + 1]
      BY <3>1 DEF Insts
    <3>3. m \in 1..L /\ n + 1 \in 1..L /\ m # n + 1
      BY <1>1
    <3> QED
      BY <1>1, <2>3, <3>2, <3>3 DEF IsInjective
  <2>4. /\ IsFiniteSet(Seen(n)) /\ D[n] >= Cardinality(Seen(n)) /\ D[n] \in Nat
        /\ IsInjective(w) => D[n] = Cardinality(Seen(n))
    <3>1. n \in 0..L
      BY <1>1
    <3> HIDE DEF Seen
    <3> QED
      BY <1>0, <1>3, <3>1
  <2>5. D[n + 1] = D[n] + Cardinality(new) /\ D[n + 1] \in Nat
    <3>1. n + 1 \in 1..L /\ (n + 1) - 1 = n
      BY <1>1
    <3> QED
      BY <1>0, <3>1
  <2> HIDE DEF new, Seen
  <2>6. /\ IsFiniteSet(Seen(n) \cup new)
        /\ Cardinality(Seen(n) \cup new) = Cardinality(Seen(n)) + Cardinality(new) - Cardinality(Seen(n) \cap new)
        /\ IsFiniteSet(Seen(n) \cap new)
    BY <2>2, <2>4, FS_Union, FS_Intersection
  <2>7. /\ Cardinality(Seen(n)) \in Nat /\ Cardinality(new) \in Nat
        /\ Cardinality(Seen(n) \cap new) \in Nat
        /\ Seen(n) \cap new = {} => Cardinality(Seen(n) \cap new) = 0
    BY <2>2, <2>4, <2>6, FS_CardinalityType, FS_EmptySet
  <2> DEFINE more == Cardinality(new)
             all == Cardinality(Seen(n + 1))
             before == Cardinality(Seen(n))
             both == Cardinality(Seen(n) \cap new)
  <2>a. all = before + more - both /\ D[n + 1] = D[n] + more
    BY <2>1, <2>5, <2>6, Zenon
  <2>b. before \in Nat /\ more \in Nat /\ both \in Nat /\ D[n] \in Nat /\ D[n] >= before
    BY <2>4, <2>7, Zenon
  <2>c. IsInjective(w) => both = 0 /\ D[n] = before
    BY <2>3, <2>4, <2>7, Zenon
  <2> HIDE DEF more, all, before, both
  <2>8. D[n + 1] >= all
    BY <2>a, <2>b
  <2>9. IsInjective(w) => D[n + 1] = all
    BY <2>a, <2>b, <2>c
  <2> QED
    BY <2>1, <2>6, <2>8, <2>9 DEF all
<1>4. L \in T
  <2> HIDE DEF T, L
  <2> QED
    BY <1>1, <1>2, <1>3, Induction
<1>5. Seen(L) = UNION {LoadsIn(k, b, x) : b \in Elems(w)}
  BY <1>1 DEF Elems
<1>6. L \in 0..L /\ D[L] \in Nat
  BY <1>0, <1>1
<1> HIDE DEF Seen
<1> QED
  BY <1>0, <1>4, <1>5, <1>6

(* Going back from a block that d dominates, one comes to d.                *)
LEMMA BackToDominator ==
    ASSUME NEW g, IsGraph(g), AllReached(g), NEW d, NEW T \in SUBSET g.blocks,
           \A b \in T \ {d} : Preds(g, b) \subseteq T,
           NEW c \in T, Dominates(g, d, c)
    PROVE  d \in T
<1> SUFFICES ASSUME d \notin T PROVE FALSE
  OBVIOUS
<1>1. \A u \in g.blocks \ T : Succs(g, u) \subseteq g.blocks \ T
  BY DEF IsGraph, Preds
<1>2. d \in g.blocks /\ c \in ReachAvoid(g, {d}, {})
  BY DominatedIsReached
<1> DEFINE U == g.blocks \ T
<1>3. /\ {d} \in SUBSET g.blocks /\ {d} \ {} \subseteq U
      /\ \A u \in U : u \in g.blocks \ {} => Succs(g, u) \ {} \subseteq U
  BY <1>1, <1>2
<1>4. ReachAvoid(g, {d}, {}) \subseteq U
  <2> HIDE DEF U
  <2> QED
    BY <1>3, ReachAvoidIsLeast
<1> QED
  BY <1>2, <1>4

(* When d dominates p, the blocks on the ways from d to p are the least set *)
(* that holds p and, except for d, the predecessors of its members; d       *)
(* dominates all of them.                                                   *)
LEMMA WayIs ==
    ASSUME NEW g, IsGraph(g), AllReached(g), NEW d \in g.blocks, NEW p \in g.blocks,
           Dominates(g, d, p)
    PROVE  /\ Way(g, d, p) \subseteq g.blocks /\ d \in Way(g, d, p) /\ p \in Way(g, d, p)
           /\ \A b \in Way(g, d, p) : Dominates(g, d, b)
           /\ \A b \in Way(g, d, p) \ {d} : Preds(g, b) \subseteq Way(g, d, p)
           /\ \A T \in SUBSET g.blocks :
                 p \in T /\ (\A b \in T \ {d} : Preds(g, b) \subseteq T) => Way(g, d, p) \subseteq T
<1>1. CASE p = d
  <2>1. Way(g, d, p) = {d}
    BY <1>1 DEF Way
  <2> QED
    BY <1>1, <2>1
<1>2. CASE p # d
  <2> DEFINE R == ReachAvoid(g, Succs(g, d), {d})
             W == Way(g, d, p)
  <2>1. \A b : b \in W <=> b = d \/ (b \in R /\ p \in ReachAvoid(g, {b}, {d}))
    BY <1>2 DEF Way
  <2>2. Succs(g, d) \in SUBSET g.blocks /\ R \subseteq g.blocks \ {d}
    BY ReachAvoidIsClosed DEF IsGraph
  <2>3. W \subseteq g.blocks
    BY <2>1, <2>2
  <2>4. \A b \in W : Dominates(g, d, b)
    BY <2>1, <2>3, DominatesBack, DominatesItself
  <2>5. ASSUME NEW b \in g.blocks, b # d, p \in ReachAvoid(g, {b}, {d}) PROVE b \in W
    <3>1. Dominates(g, d, b)
      BY <2>5, DominatesBack
    <3>2. b \in ReachAvoid(g, {d}, {})
      BY <3>1, DominatedIsReached
    <3>3. b \in ReachAvoid(g, Succs(g, d), {} \cup {d})
      BY <2>5, <3>2, ReachLast
    <3>4. {} \cup {d} = {d}
      OBVIOUS
    <3> QED
      BY <2>1, <2>5, <3>3, <3>4
  <2>6. p \in W
    BY <1>2, <2>5, ReachItself
  <2>7. ASSUME NEW b \in W \ {d}, NEW q \in Preds(g, b), q # d PROVE q \in W
    <3>1. q \in g.blocks /\ b \in Succs(g, q) /\ b \in g.blocks
      BY <2>3, <2>7 DEF Preds
    <3>2. q \in ReachAvoid(g, {q}, {d}) /\ {q} \in SUBSET g.blocks
      BY <2>7, <3>1, ReachItself
    <3>3. b \in ReachAvoid(g, {q}, {d})
      BY <2>7, <3>1, <3>2, ReachNext
    <3>a. p \in ReachAvoid(g, {b}, {d})
      BY <2>1, <2>7
    <3>4. p \in ReachAvoid(g, {q}, {d})
      BY <3>2, <3>3, <3>a, ReachOn
    <3> QED
      BY <2>5, <2>7, <3>1, <3>4
  <2>8. ASSUME NEW T \in SUBSET g.blocks, p \in T, \A b \in T \ {d} : Preds(g, b) \subseteq T,
               NEW b \in W
        PROVE  b \in T
    <3>1. d \in T
      BY <2>8, BackToDominator
    <3>2. SUFFICES ASSUME b \notin T, b # d PROVE FALSE
      BY <3>1
    <3> DEFINE U == g.blocks \ T
    <3>3. {b} \in SUBSET g.blocks /\ {b} \ {d} \subseteq U
      BY <2>3, <2>8, <3>2
    <3>4. \A u \in U : u \in g.blocks \ {d} => Succs(g, u) \ {d} \subseteq U
      BY <2>8 DEF IsGraph, Preds
    <3>5. ReachAvoid(g, {b}, {d}) \subseteq U
      <4> HIDE DEF U
      <4> QED
        BY <3>3, <3>4, ReachAvoidIsLeast
    <3> QED
      BY <2>1, <2>8, <3>2, <3>5
  <2> HIDE DEF W, R
  <2>9. \A b \in W \ {d} : Preds(g, b) \subseteq W
    BY <2>1, <2>7
  <2>10. \A T \in SUBSET g.blocks :
            p \in T /\ (\A b \in T \ {d} : Preds(g, b) \subseteq T) => W \subseteq T
    BY <2>8
  <2> QED
    BY <2>1, <2>3, <2>4, <2>6, <2>9, <2>10 DEF W
<1> QED
  BY <1>1, <1>2

(* Where no two ways meet, a block has one predecessor on the way.          *)
LEMMA OneBefore ==
    ASSUME NEW S, IsFiniteSet(S), ~(Cardinality(S) > 1), NEW x \in S
    PROVE  S = {x} /\ Cardinality(S) = 1
<1>1. Cardinality(S) \in Nat /\ Cardinality(S) # 0
  BY FS_CardinalityType, FS_EmptySet
<1>2. Cardinality(S) = 1
  BY <1>1
<1>3. PICK y : S = {y}
  BY <1>2, FS_Singleton
<1> QED
  BY <1>2, <1>3

IsUse(x) ==
    /\ x.load \in kernel.loads /\ x.user \in kernel.insts
    /\ kernel.parent[x.user] = kernel.parent[x.load]
    /\ \E q \in DOMAIN kernel.ops[x.user] : kernel.ops[x.user][q] = x.load

Def == kernel.parent[walk.load]

TheWay == Way(kernel, Def, walk.from)

Met == Elems(walk.stack) \cup Elems(walk.walked)

(* Where no two ways meet, the walk goes from block to block.               *)
Straight ==
    /\ IsInjective(walk.walked) /\ Len(walk.stack) <= 1
    /\ \A n \in 1..Len(walk.walked) : walk.walked[n] = Def => n = Len(walk.walked) /\ walk.stack = <<>>
    /\ \A n \in 1..Len(walk.walked) :
          n # Len(walk.walked) => walk.walked[n + 1] \in Preds(kernel, walk.walked[n])
    /\ (walk.stack # <<>> /\ walk.walked # <<>>)
          => Head(walk.stack) \in Preds(kernel, walk.walked[Len(walk.walked)])

(* All that the walk meets lies on the way, and with a block that is walked *)
(* the blocks before it are met.                                            *)
OnTheWay ==
    /\ walk.load \in kernel.loads /\ walk.from \in kernel.blocks
    /\ Dominates(kernel, Def, walk.from)
    /\ Met \subseteq TheWay /\ walk.from \in Met
    /\ \A b \in Elems(walk.walked) \ {Def} : Preds(kernel, b) \subseteq Met
    /\ ~JoinOn(kernel, TheWay, Def) => Straight

WalkInv ==
    /\ kernel \in Kernels
    /\ \A x \in intervals : IsUse(x)
    /\ walk \in [load : Nat, user : Nat, from : Nat, stack : Seq(Nat), walked : Seq(Nat)]
    /\ pc = "walk" => OnTheWay

(* What is assumed of a kernel, in the forms that are cited.                *)
LEMMA KernelIsGraph ==
    ASSUME NEW k \in Kernels
    PROVE  /\ IsGraph(k) /\ AllReached(k) /\ k.blocks \subseteq Nat
           /\ IsFiniteSet(k.blocks) /\ IsFiniteSet(k.insts) /\ k.insts \subseteq Nat \ {Const}
           /\ k.parent \in [k.insts -> k.blocks]
           /\ \A b : Preds(k, b) \subseteq k.blocks /\ IsFiniteSet(Preds(k, b))
<1>1. /\ IsGraph(k) /\ AllReached(k) /\ k.blocks \subseteq Nat
      /\ IsFiniteSet(k.insts) /\ k.insts \subseteq Nat \ {Const}
      /\ k.parent \in [k.insts -> k.blocks]
  BY KernelsAssumption DEF AllReached
<1>2. IsFiniteSet(k.blocks)
  BY <1>1 DEF IsGraph
<1>3. \A b : Preds(k, b) \subseteq k.blocks
  BY DEF Preds
<1>4. \A b : IsFiniteSet(Preds(k, b))
  BY <1>2, <1>3, FS_Subset
<1> QED
  BY <1>1, <1>2, <1>3, <1>4

(* A use is measured from a block that the block of the load dominates.     *)
LEMMA FromIsDominated ==
    ASSUME NEW x, kernel \in Kernels, IsUse(x), NEW b \in Froms(kernel, x)
    PROVE  /\ kernel.parent[x.load] \in kernel.blocks /\ x.load \in kernel.insts
           /\ b \in kernel.blocks /\ Dominates(kernel, kernel.parent[x.load], b)
<1>1. /\ x.load \in kernel.insts /\ x.user \in kernel.insts /\ SSA(kernel)
      /\ kernel.parent[x.user] = kernel.parent[x.load]
  BY KernelsAssumption DEF IsUse
<1>2. kernel.parent[x.load] \in kernel.blocks /\ x.load # Const
  BY <1>1, KernelIsGraph
<1>3. CASE kernel.kind[x.user] # "phi"
  <2>1. b = kernel.parent[x.load]
    BY <1>1, <1>3 DEF Froms
  <2> QED
    BY <1>1, <1>2, <2>1, DominatesItself, KernelIsGraph
<1>4. CASE kernel.kind[x.user] = "phi"
  <2>1. b \in DOMAIN kernel.ops[x.user] /\ kernel.ops[x.user][b] = x.load
    BY <1>4 DEF Froms
  <2>2. x.load \in Operands(kernel, x.user)
    BY <1>2, <2>1 DEF Operands
  <2>3. Available(kernel, x.load, x.user) /\ DOMAIN kernel.ops[x.user] = Preds(kernel, kernel.parent[x.user])
    BY <1>1, <1>4, <2>2 DEF SSA
  <2>4. Dominates(kernel, kernel.parent[x.load], b)
    BY <1>4, <2>1, <2>3 DEF Available
  <2> QED
    BY <1>1, <1>2, <2>1, <2>3, <2>4 DEF Preds
<1> QED
  BY <1>3, <1>4

(* The block from which a walk starts lies on the way.                      *)
LEMMA StartWalkKeeps ==
    ASSUME WalkInv, NEW x \in intervals, StartWalk(x)
    PROVE  WalkInv'
<1>1. kernel' = kernel /\ intervals' = intervals \ {x} /\ kernel \in Kernels /\ IsUse(x)
  BY DEF WalkInv, StartWalk, input
<1>2. PICK b \in Froms(kernel, x) :
          walk' = [load |-> x.load, user |-> x.user, from |-> b, stack |-> <<b>>, walked |-> <<>>]
  BY Zenon DEF StartWalk
<1>3. /\ kernel.parent[x.load] \in kernel.blocks /\ x.load \in kernel.insts
      /\ b \in kernel.blocks /\ Dominates(kernel, kernel.parent[x.load], b)
      /\ x.user \in kernel.insts /\ x.load \in kernel.loads
  BY <1>1, FromIsDominated DEF IsUse
<1>4. /\ walk'.load = x.load /\ walk'.from = b /\ walk'.stack = <<b>> /\ walk'.walked = <<>>
      /\ walk' \in [load : Nat, user : Nat, from : Nat, stack : Seq(Nat), walked : Seq(Nat)]
  <2>1. x.load \in Nat /\ x.user \in Nat /\ b \in Nat
    BY <1>1, <1>3, KernelIsGraph
  <2>2. <<b>> \in Seq(Nat) /\ <<>> \in Seq(Nat)
    BY <2>1
  <2> QED
    BY <1>2, <2>1, <2>2
<1>5. /\ Def' = kernel.parent[x.load] /\ TheWay' = Way(kernel, kernel.parent[x.load], b)
      /\ Met' = {b} /\ Elems(walk.walked)' = {}
  <2>1. Elems(<<b>>) = {b} /\ Elems(<<>>) = {}
    BY DEF Elems
  <2>2. Def' = kernel.parent[x.load]
    BY <1>1, <1>4 DEF Def
  <2>3. TheWay' = Way(kernel, kernel.parent[x.load], b)
    BY <1>1, <1>4, <2>2 DEF TheWay, Way, ReachAvoid, Succs
  <2>4. Met' = {b} /\ Elems(walk.walked)' = {}
    BY <1>4, <2>1 DEF Met, Elems
  <2> QED
    BY <2>2, <2>3, <2>4
<1>6. b \in TheWay'
  BY <1>1, <1>3, <1>5, WayIs, KernelIsGraph
<1>7. Straight'
  <2>1. IsInjective(<<>>) /\ Len(<<>>) = 0 /\ Len(<<b>>) = 1 /\ <<b>> # <<>>
    BY DEF IsInjective
  <2> QED
    BY <1>4, <2>1 DEF Straight, IsInjective
<1>8. \A y \in intervals' : IsUse(y)'
  BY <1>1 DEF WalkInv, IsUse
<1>9. OnTheWay'
  BY <1>1, <1>3, <1>4, <1>5, <1>6, <1>7 DEF OnTheWay, Dominates, ReachAvoid, Succs
<1> QED
  BY <1>1, <1>4, <1>8, <1>9 DEF WalkInv

(* A sequence of at most one element holds at most one.                     *)
LEMMA ShortIsOne ==
    ASSUME NEW s \in Seq(Nat), s # <<>>, Len(s) <= 1
    PROVE  Len(s) = 1 /\ Tail(s) = <<>>
<1>1. Len(s) \in Nat \ {0}
  OBVIOUS
<1>a. \A n \in Nat \ {0} : n <= 1 => n = 1
  OBVIOUS
<1>2. Len(s) = 1
  BY <1>1, <1>a, Zenon
<1>3. Tail(s) \in Seq(Nat) /\ Len(Tail(s)) = 0
  BY <1>2
<1>4. Tail(s) = <<>>
  BY <1>3, EmptySeq
<1> QED
  BY <1>2, <1>4

(* getRegionBlocks goes on to predecessors that lie on the way and, where   *)
(* no two ways meet, to one at a time.                                      *)
LEMMA WalkBackKeeps ==
    ASSUME WalkInv, WalkBack
    PROVE  WalkInv'
<1> DEFINE k == kernel
           d == Def
           way == TheWay
           s == walk.stack
           w == walk.walked
           L == Len(walk.walked)
           top == Head(walk.stack)
           pushed == Pushed(kernel, Head(walk.stack), Def)
<1>1. /\ k \in Kernels /\ OnTheWay /\ kernel' = kernel /\ intervals' = intervals /\ pc' = pc
      /\ s # <<>> /\ s \in Seq(Nat) /\ w \in Seq(Nat)
  BY DEF WalkInv, WalkBack, input
<1>2. /\ walk' = [walk EXCEPT !.walked = Append(w, top), !.stack = pushed \o Tail(s)]
      /\ walk \in [load : Nat, user : Nat, from : Nat, stack : Seq(Nat), walked : Seq(Nat)]
  BY DEF WalkInv, WalkBack, Def
<1>3. /\ IsGraph(k) /\ AllReached(k) /\ k.blocks \subseteq Nat
      /\ \A b : Preds(k, b) \subseteq k.blocks /\ IsFiniteSet(Preds(k, b))
  BY <1>1, KernelIsGraph
<1>4. /\ d \in k.blocks /\ walk.from \in k.blocks /\ Dominates(k, d, walk.from)
      /\ walk.from \in Met /\ Met \subseteq way
      /\ \A b \in Elems(w) \ {d} : Preds(k, b) \subseteq Met
  <2>1. walk.load \in k.insts
    BY <1>1, KernelsAssumption DEF OnTheWay
  <2>2. d \in k.blocks
    BY <1>1, <2>1, KernelIsGraph DEF Def
  <2> QED
    BY <1>1, <2>2 DEF OnTheWay
<1>5. /\ way \subseteq k.blocks /\ d \in way
      /\ \A b \in way : Dominates(k, d, b)
      /\ \A b \in way \ {d} : Preds(k, b) \subseteq way
  BY <1>3, <1>4, WayIs DEF TheWay
<1>6. /\ top \in Nat /\ Tail(s) \in Seq(Nat) /\ Len(Tail(s)) = Len(s) - 1
      /\ Elems(s) = {top} \cup Elems(Tail(s))
  BY <1>1, ElemsPopped
<1>7. top \in way
  BY <1>4, <1>6 DEF Met
<1>8. /\ pushed \in Seq(Nat) /\ Elems(pushed) = (IF top = d THEN {} ELSE Preds(k, top))
      /\ Len(pushed) = (IF top = d THEN 0 ELSE Cardinality(Preds(k, top)))
  <2>1. Elems(<<>>) = {} /\ <<>> \in Seq(Nat) /\ Len(<<>>) = 0
    BY DEF Elems
  <2>2. CASE top = d
    BY <2>1, <2>2 DEF Pushed
  <2>3. CASE top # d
    <3>1. pushed = Sorted(Preds(k, top)) /\ Preds(k, top) \in SUBSET Nat /\ IsFiniteSet(Preds(k, top))
      BY <1>3, <2>3 DEF Pushed
    <3>2. pushed \in Seq(Preds(k, top)) /\ Elems(pushed) = Preds(k, top) /\ Len(pushed) = Cardinality(Preds(k, top))
      BY <3>1, SortedIs
    <3>3. pushed \in Seq(Nat)
      BY <3>1, <3>2, SeqMonotonic
    <3> QED
      BY <2>3, <3>2, <3>3
  <2> QED
    BY <2>2, <2>3
<1>9. /\ walk'.load = walk.load /\ walk'.from = walk.from
      /\ walk'.stack = pushed \o Tail(s) /\ walk'.walked = Append(w, top)
  BY <1>2
<1>10. /\ walk'.stack \in Seq(Nat) /\ Elems(walk'.stack) = Elems(pushed) \cup Elems(Tail(s))
       /\ Len(walk'.stack) = Len(pushed) + Len(Tail(s))
       /\ walk'.walked \in Seq(Nat) /\ Elems(walk'.walked) = Elems(w) \cup {top}
       /\ Len(walk'.walked) = L + 1
  <2> HIDE DEF pushed, top
  <2> DEFINE rest == Tail(s)
  <2>1. rest \in Seq(Nat) /\ pushed \in Seq(Nat) /\ top \in Nat /\ w \in Seq(Nat)
    BY <1>1, <1>6, <1>8
  <2> HIDE DEF rest
  <2>2. /\ pushed \o rest \in Seq(Nat) /\ Len(pushed \o rest) = Len(pushed) + Len(rest)
        /\ Elems(pushed \o rest) = Elems(pushed) \cup Elems(rest)
    BY <2>1, ElemsJoined, ZenonT(30)
  <2>3. /\ Append(w, top) \in Seq(Nat) /\ Len(Append(w, top)) = Len(w) + 1
        /\ Elems(Append(w, top)) = Elems(w) \cup {top}
    <3> HIDE DEF w
    <3> QED
      BY <2>1, ElemsAppended
  <2> QED
    BY <1>9, <2>2, <2>3, Zenon DEF rest, L, w
<1>11. walk' \in [load : Nat, user : Nat, from : Nat, stack : Seq(Nat), walked : Seq(Nat)]
  BY <1>2, <1>9, <1>10
<1>12. Def' = d /\ TheWay' = way
  BY <1>1, <1>9 DEF Def, TheWay, Way, ReachAvoid, Succs
<1>13. Met' = Met \cup (IF top = d THEN {} ELSE Preds(k, top))
  BY <1>6, <1>8, <1>10 DEF Met, Elems
<1>14. Met' \subseteq way /\ walk.from \in Met'
  BY <1>4, <1>5, <1>7, <1>13
<1>15. \A b \in Elems(walk'.walked) \ {d} : Preds(k, b) \subseteq Met'
  BY <1>4, <1>10, <1>13
<1>16. ASSUME ~JoinOn(k, way, d) PROVE Straight'
  <2>1. /\ IsInjective(w) /\ Len(s) <= 1
        /\ \A n \in 1..L : w[n] = d => n = L /\ s = <<>>
        /\ \A n \in 1..L : n # L => w[n + 1] \in Preds(k, w[n])
        /\ w # <<>> => top \in Preds(k, w[L])
    BY <1>1, <1>16 DEF OnTheWay, Straight
  <2>2. Len(s) = 1 /\ Tail(s) = <<>> /\ L \in Nat /\ DOMAIN w = 1..L /\ \A n \in 1..L : w[n] \in Nat
    <3>1. s \in Seq(Nat) /\ s # <<>> /\ Len(s) <= 1
      BY <1>1, <2>1, Zenon
    <3>2. Len(s) = 1 /\ Tail(s) = <<>>
      BY <3>1, ShortIsOne, Zenon
    <3>5. L \in Nat /\ DOMAIN w = 1..L /\ \A n \in 1..L : w[n] \in Nat
      BY <1>1
    <3> QED
      BY <3>2, <3>5
  <2>3. \A n \in 1..L : w[n] # d /\ w[n] \in way
    <3>1. \A n \in 1..L : w[n] \in Elems(w)
      BY <2>2 DEF Elems
    <3> QED
      BY <1>1, <1>4, <2>1, <3>1 DEF Met
  <2>4. \A b \in way \ {d} : \A q \in Preds(k, b) : Preds(k, b) = {q} /\ Cardinality(Preds(k, b)) = 1
    <3> SUFFICES ASSUME NEW b \in way \ {d}, NEW q \in Preds(k, b)
                 PROVE  Preds(k, b) = {q} /\ Cardinality(Preds(k, b)) = 1
      OBVIOUS
    <3>1. Preds(k, b) \cap way = Preds(k, b)
      BY <1>5
    <3>2. ~(Cardinality(Preds(k, b)) > 1)
      BY <1>16, <3>1 DEF JoinOn
    <3> QED
      BY <1>3, <3>2, OneBefore
  <2>5. top \notin Elems(w)
    <3> SUFFICES ASSUME top \in Elems(w) PROVE FALSE
      OBVIOUS
    <3>1. PICK m \in 1..L : top = w[m]
      BY <2>2 DEF Elems
    <3> DEFINE C == {w[j] : j \in m..L}
    <3>2. C \in SUBSET k.blocks /\ top \in C /\ d \notin C
      <4>1. m..L \subseteq 1..L /\ m \in m..L
        BY <2>2
      <4> QED
        BY <1>5, <2>3, <3>1, <4>1
    <3>3. ASSUME NEW j \in m..L PROVE Preds(k, w[j]) \subseteq C
      <4>1. j \in 1..L /\ w[j] \in way \ {d}
        BY <2>2, <2>3
      <4>2. CASE j # L
        <5>1. j + 1 \in m..L /\ w[j + 1] \in Preds(k, w[j])
          BY <2>1, <2>2, <4>1, <4>2
        <5>2. Preds(k, w[j]) = {w[j + 1]}
          BY <2>4, <4>1, <5>1
        <5> QED
          BY <5>1, <5>2
      <4>3. CASE j = L
        <5>1. w # <<>>
          BY <2>2, <4>1
        <5>2. Preds(k, w[j]) = {top}
          BY <2>1, <2>4, <4>1, <4>3, <5>1
        <5> QED
          BY <3>2, <5>2
      <4> QED
        BY <4>2, <4>3
    <3>4. \A b \in C \ {d} : Preds(k, b) \subseteq C
      <4> SUFFICES ASSUME NEW b \in C PROVE Preds(k, b) \subseteq C
        OBVIOUS
      <4>1. PICK j \in m..L : b = w[j]
        OBVIOUS
      <4> HIDE DEF C
      <4> QED
        BY <3>3, <4>1
    <3>5. Dominates(k, d, top)
      BY <1>5, <1>7
    <3> HIDE DEF C
    <3> QED
      BY <1>3, <3>2, <3>4, <3>5, BackToDominator
  <2>6. Len(walk'.stack) = Len(pushed) /\ walk'.stack = pushed /\ Len(pushed) \in Nat
    <3> HIDE DEF pushed
    <3>1. pushed \o <<>> = pushed /\ Len(pushed) \in Nat
      BY <1>8
    <3>2. walk'.stack = pushed \o <<>>
      BY <1>9, <2>2, Zenon
    <3> QED
      BY <3>1, <3>2
  <2>7. /\ Len(pushed) <= 1
        /\ top = d => pushed = <<>>
        /\ pushed # <<>> => Head(pushed) \in Preds(k, top)
    <3>1. top = d => pushed = <<>>
      BY DEF Pushed
    <3>2. ASSUME pushed # <<>>
          PROVE  Head(pushed) \in Preds(k, top)
      <4>1. Head(pushed) \in Elems(pushed)
        BY <1>8, <3>2, ElemsPopped
      <4> QED
        BY <1>8, <4>1
    <3>3. CASE top = d
      BY <1>8, <3>1, <3>2, <3>3
    <3>4. CASE top # d
      <4>1. CASE Preds(k, top) = {}
        BY <1>8, <3>1, <3>2, <3>4, <4>1, FS_EmptySet
      <4>2. CASE Preds(k, top) # {}
        <5>1. Cardinality(Preds(k, top)) = 1
          BY <1>7, <2>4, <3>4, <4>2
        <5> QED
          BY <1>8, <3>1, <3>2, <3>4, <5>1
      <4> QED
        BY <4>1, <4>2
    <3> QED
      BY <3>3, <3>4
  <2> DEFINE v == Append(w, top)
  <2>8. /\ v \in Seq(Nat) /\ Len(v) = L + 1 /\ DOMAIN v = 1..(L + 1)
        /\ v[L + 1] = top /\ \A n \in 1..L : v[n] = w[n]
        /\ \A n \in 1..(L + 1) : n \in 1..L \/ n = L + 1
    BY <1>1, <1>6, <2>2
  <2>9. IsInjective(v)
    <3>1. \A n \in 1..L : w[n] # top
      BY <2>2, <2>5 DEF Elems
    <3>2. \A m, n \in 1..L : w[m] = w[n] => m = n
      BY <2>1, <2>2 DEF IsInjective
    <3> HIDE DEF v
    <3>3. \A m, n \in 1..(L + 1) : v[m] = v[n] => m = n
      BY <2>8, <3>1, <3>2
    <3> QED
      BY <2>8, <3>3 DEF IsInjective
  <2>10. \A n \in 1..(L + 1) : v[n] = d => n = L + 1 /\ pushed = <<>>
    <3> HIDE DEF v
    <3> QED
      BY <2>3, <2>7, <2>8
  <2>11. \A n \in 1..(L + 1) : n # L + 1 => v[n + 1] \in Preds(k, v[n])
    <3> SUFFICES ASSUME NEW n \in 1..L PROVE v[n + 1] \in Preds(k, v[n])
      BY <2>2
    <3>1. CASE n # L
      <4>1. n + 1 \in 1..L /\ w[n + 1] \in Preds(k, w[n])
        BY <2>1, <2>2, <3>1
      <4> HIDE DEF v
      <4> QED
        BY <2>8, <4>1
    <3>2. CASE n = L
      <4>1. w # <<>> /\ v[n] = w[L] /\ v[n + 1] = top
        BY <2>2, <2>8, <3>2
      <4> QED
        BY <2>1, <4>1, Zenon
    <3> QED
      BY <3>1, <3>2
  <2> HIDE DEF v, pushed, L, top, d
  <2>12. walk'.walked = v /\ walk'.stack = pushed /\ Def' = d /\ kernel' = kernel /\ Len(v) = L + 1 /\ v[L + 1] = top
    BY <1>1, <1>9, <1>12, <2>6, <2>8 DEF v, L, top
  <2> QED
    BY <2>7, <2>9, <2>10, <2>11, <2>12 DEF Straight
<1>17. \A y \in intervals' : IsUse(y)'
  BY <1>1 DEF WalkInv, IsUse
<1>18. /\ Dominates(kernel, Def, walk.from)' /\ (walk.load \in kernel.loads)'
       /\ (walk.from \in kernel.blocks)'
  BY <1>1, <1>4, <1>9, <1>12 DEF OnTheWay, Dominates, ReachAvoid, Succs
<1>19. JoinOn(kernel, TheWay, Def)' <=> JoinOn(k, way, d)
  BY <1>1, <1>12 DEF JoinOn, Preds, Succs
<1>20. (\A b \in Elems(walk.walked) \ {Def} : Preds(kernel, b) \subseteq Met)'
  <2>1. Elems(walk.walked)' = Elems(walk'.walked) /\ \A b : Preds(kernel, b)' = Preds(k, b)
    BY <1>1 DEF Elems, Preds, Succs
  <2> QED
    BY <1>12, <1>15, <2>1
<1>21. OnTheWay'
  <2>1. Met' \subseteq TheWay' /\ walk'.from \in Met'
    BY <1>9, <1>12, <1>14
  <2>2. ~JoinOn(kernel, TheWay, Def)' => Straight'
    BY <1>16, <1>19
  <2> QED
    BY <1>18, <1>20, <2>1, <2>2, Zenon DEF OnTheWay
<1> QED
  BY <1>1, <1>11, <1>17, <1>21 DEF WalkInv

(* The inductive invariant of the walks.                                    *)
LEMMA WalkIsInvariant == Spec => []WalkInv
<1>1. Init => WalkInv
  <2>1. <<>> \in Seq(Nat)
    OBVIOUS
  <2> QED
    BY <2>1 DEF Init, WalkInv, None, NoBlock
<1>2. WalkInv /\ [Next]_vars => WalkInv'
  <2> SUFFICES ASSUME WalkInv, [Next]_vars PROVE WalkInv'
    OBVIOUS
  <2>1. ASSUME kernel' = kernel, walk' = walk, intervals' \subseteq intervals, pc' = "walk" => pc = "walk"
        PROVE  WalkInv'
    <3>1. \A y \in intervals' : IsUse(y)'
      BY <2>1 DEF WalkInv, IsUse
    <3>a. Def' = Def /\ Met' = Met /\ TheWay' = TheWay /\ \A b : Preds(kernel, b)' = Preds(kernel, b)
      BY <2>1 DEF Def, Met, Elems, TheWay, Way, ReachAvoid, Succs, Preds
    <3>b. /\ JoinOn(kernel, TheWay, Def)' <=> JoinOn(kernel, TheWay, Def)
          /\ Dominates(kernel, Def, walk.from)' <=> Dominates(kernel, Def, walk.from)
      BY <2>1, <3>a DEF JoinOn, Dominates, ReachAvoid, Succs, Preds
    <3>c. Straight' <=> Straight
      BY <2>1, <3>a DEF Straight
    <3>d. Elems(walk.walked)' = Elems(walk.walked)
      BY <2>1 DEF Elems
    <3>2. OnTheWay => OnTheWay'
      BY <2>1, <3>a, <3>b, <3>c, <3>d DEF OnTheWay
    <3> QED
      BY <2>1, <3>1, <3>2 DEF WalkInv
  <2>2. CASE VisitFunction
    BY <2>1, <2>2 DEF VisitFunction, input
  <2>3. CASE VisitBlock
    <3>1. kernel' = kernel /\ walk' = walk /\ pc' = "mlp" /\ intervals' = Intervals(kernel, block)
      BY <2>3 DEF VisitBlock, input
    <3>2. ASSUME NEW x \in intervals' PROVE IsUse(x)'
      <4>1. PICK l \in kernel.loads \cap Insts(kernel, block), u \in Insts(kernel, block) :
               x \in {[load |-> l, user |-> u, at |-> p] : p \in {q \in DOMAIN kernel.ops[u] : kernel.ops[u][q] = l}}
        BY <3>1, <3>2 DEF Intervals
      <4>2. PICK p \in DOMAIN kernel.ops[u] : kernel.ops[u][p] = l /\ x = [load |-> l, user |-> u, at |-> p]
        BY <4>1
      <4> QED
        BY <3>1, <4>1, <4>2 DEF IsUse, Insts
    <3> QED
      BY <3>1, <3>2 DEF WalkInv
  <2>4. CASE \E x \in intervals : StartWalk(x)
    BY <2>4, StartWalkKeeps
  <2>5. CASE WalkBack
    BY <2>5, WalkBackKeeps
  <2>6. CASE Hang
    BY <2>1, <2>6 DEF Hang, input
  <2>7. CASE EndWalk
    <3>1. kernel' = kernel /\ walk' = None /\ pc' = "mlp" /\ intervals' = intervals
      BY <2>7 DEF EndWalk, input
    <3>2. None \in [load : Nat, user : Nat, from : Nat, stack : Seq(Nat), walked : Seq(Nat)]
      <4>1. <<>> \in Seq(Nat)
        OBVIOUS
      <4> QED
        BY <4>1 DEF None, NoBlock
    <3>3. \A y \in intervals' : IsUse(y)'
      BY <3>1 DEF WalkInv, IsUse
    <3> QED
      BY <3>1, <3>2, <3>3 DEF WalkInv
  <2>8. ASSUME NextBlock PROVE pc' \in {"dump", "block"}
    BY <2>8 DEF NextBlock
  <2>9. CASE FinishBlock
    BY <2>1, <2>8, <2>9 DEF FinishBlock, input
  <2>10. CASE PassOverBlock
    BY <2>1, <2>8, <2>10 DEF PassOverBlock, input
  <2>11. CASE Dump
    BY <2>1, <2>11 DEF Dump, input
  <2>12. CASE UNCHANGED vars
    BY <2>1, <2>12 DEF vars
  <2> QED
    BY <2>2, <2>3, <2>4, <2>5, <2>6, <2>7, <2>9, <2>10, <2>11, <2>12 DEF Next, Terminated
<1> QED
  BY <1>1, <1>2, PTL DEF Spec

(* getRegionBlocks ends with the blocks on the ways from the load to the    *)
(* use and no other, whatever the control-flow graph; and the distance that *)
(* countLoads takes over them is the number of loads there unless two ways  *)
(* meet, when it is no less.                                                *)
THEOREM WalksMeasureTheWay == Spec => []MeasuresTheWay
<1>1. WalkInv => MeasuresTheWay
  <2> SUFFICES ASSUME WalkInv, pc = "walk", walk.stack = <<>>
               PROVE  LET way  == TheWay
                          seen == UNION {LoadsIn(kernel, b, walk) : b \in way}
                          dist == Distance(kernel, walk, walk.walked)
                      IN  /\ {walk.walked[n] : n \in DOMAIN walk.walked} = way
                          /\ dist >= Cardinality(seen)
                          /\ dist # Cardinality(seen) => JoinOn(kernel, way, Def)
    BY DEF MeasuresTheWay, TheWay, Def
  <2>1. kernel \in Kernels /\ OnTheWay /\ walk.walked \in Seq(Nat)
    BY DEF WalkInv
  <2>2. /\ IsGraph(kernel) /\ AllReached(kernel) /\ Def \in kernel.blocks
    <3>1. walk.load \in kernel.insts
      BY <2>1, KernelsAssumption DEF OnTheWay
    <3> QED
      BY <2>1, <3>1, KernelIsGraph DEF Def
  <2>3. Met = Elems(walk.walked)
    BY DEF Met, Elems
  <2>4. /\ walk.from \in kernel.blocks /\ Dominates(kernel, Def, walk.from)
        /\ Elems(walk.walked) \subseteq TheWay /\ walk.from \in Elems(walk.walked)
        /\ \A b \in Elems(walk.walked) \ {Def} : Preds(kernel, b) \subseteq Elems(walk.walked)
    BY <2>1, <2>3 DEF OnTheWay
  <2>5. /\ TheWay \subseteq kernel.blocks
        /\ Elems(walk.walked) \in SUBSET kernel.blocks => TheWay \subseteq Elems(walk.walked)
    BY <2>2, <2>4, WayIs DEF TheWay
  <2>6. Elems(walk.walked) = TheWay
    BY <2>4, <2>5
  <2>7. walk.walked \in Seq(kernel.blocks)
    <3> DEFINE w == walk.walked
    <3>1. Len(w) \in Nat /\ w \in [1..Len(w) -> Nat]
      BY <2>1
    <3>2. \A n \in 1..Len(w) : w[n] \in kernel.blocks
      BY <2>4, <2>5, <3>1 DEF Elems
    <3> HIDE DEF w
    <3>3. w \in Seq(kernel.blocks)
      BY <3>1, <3>2
    <3> QED
      BY <3>3 DEF w
  <2> DEFINE seen == UNION {LoadsIn(kernel, b, walk) : b \in TheWay}
             dist == Distance(kernel, walk, walk.walked)
  <2>8. dist >= Cardinality(seen) /\ (IsInjective(walk.walked) => dist = Cardinality(seen))
    BY <2>1, <2>6, <2>7, DistanceCounts, Zenon
  <2>9. ~JoinOn(kernel, TheWay, Def) => IsInjective(walk.walked)
    BY <2>1 DEF OnTheWay, Straight
  <2>10. {walk.walked[n] : n \in DOMAIN walk.walked} = TheWay
    BY <2>6 DEF Elems
  <2> QED
    BY <2>8, <2>9, <2>10
<1> QED
  BY <1>1, WalkIsInvariant, PTL

----------------------------------------------------------------------------
(* One block after the other.                                               *)

(* The greatest of finitely many numbers.                                   *)
LEMMA MaxIs ==
    ASSUME NEW N \in SUBSET Int, IsFiniteSet(N), N # {}
    PROVE  Max(N) \in N /\ \A y \in N : Max(N) >= y
<1> DEFINE R == {z \in N \X N : z[1] >= z[2]}
<1>1. \A x, y \in N : <<x, y>> \in R <=> x >= y
  OBVIOUS
<1> HIDE DEF R
<1>2. \A x, y \in N : <<x, y>> \in R \/ <<y, x>> \in R
  <2>1. \A x, y \in N : x >= y \/ y >= x
    OBVIOUS
  <2> QED
    BY <1>1, <2>1
<1>3. \A x, y, z \in N : <<x, y>> \in R /\ <<y, z>> \in R => <<x, z>> \in R
  BY <1>1
<1>4. \E x \in N : \A y \in N : <<x, y>> \in R
  BY <1>2, <1>3, ChainHasFirst
<1>5. \E x \in N : \A y \in N : x >= y
  BY <1>1, <1>4
<1> QED
  BY <1>5 DEF Max

(* The least of finitely many numbers.                                      *)
LEMMA MinIs ==
    ASSUME NEW N \in SUBSET Int, IsFiniteSet(N), N # {}
    PROVE  Min(N) \in N /\ \A y \in N : Min(N) <= y
<1> DEFINE R == {z \in N \X N : z[1] <= z[2]}
<1>1. \A x, y \in N : <<x, y>> \in R <=> x <= y
  OBVIOUS
<1> HIDE DEF R
<1>2. \A x, y \in N : <<x, y>> \in R \/ <<y, x>> \in R
  <2>1. \A x, y \in N : x <= y \/ y <= x
    OBVIOUS
  <2> QED
    BY <1>1, <2>1
<1>3. \A x, y, z \in N : <<x, y>> \in R /\ <<y, z>> \in R => <<x, z>> \in R
  BY <1>1
<1>4. \E x \in N : \A y \in N : <<x, y>> \in R
  BY <1>2, <1>3, ChainHasFirst
<1>5. \E x \in N : \A y \in N : x <= y
  BY <1>1, <1>4
<1> QED
  BY <1>5 DEF Min

(* The blocks whose visit is over, and those whose depth is known.          *)
Finished == {b \in VisitedBlocks : pc \in {"dump", "dumped"} \/ b < block}

Measured ==
    {b \in VisitedBlocks : \/ pc \in {"dump", "dumped"}
                           \/ b < block
                           \/ pc \in {"mlp", "walk", "hung"} /\ b = block}

(* Where the traversal can be.                                              *)
PlaceInv ==
    /\ kernel \in Kernels /\ block \in kernel.blocks
    /\ pc \in {"function", "block", "mlp", "walk", "hung", "dump", "dumped"}
    /\ pc = "function" => block = kernel.entry
    /\ pc \in {"mlp", "walk", "hung"} => block \in VisitedBlocks

(* The blocks visited are among those of the kernel.                        *)
LEMMA VisitedIs ==
    ASSUME kernel \in Kernels
    PROVE  /\ VisitedBlocks \in SUBSET kernel.blocks /\ VisitedBlocks \in SUBSET Nat
           /\ IsFiniteSet(VisitedBlocks)
<1>1. VisitedBlocks \in SUBSET kernel.blocks
  BY DEF VisitedBlocks
<1> QED
  BY <1>1, KernelIsGraph, FS_Subset

(* To go on to the next block finishes the present one and no other.        *)
LEMMA NextBlockFinishes ==
    ASSUME PlaceInv, pc \in {"block", "mlp"}, NextBlock, UNCHANGED input
    PROVE  /\ VisitedBlocks' = VisitedBlocks /\ block' \in kernel.blocks
           /\ pc' \in {"dump", "block"}
           /\ Finished = {b \in VisitedBlocks : b < block}
           /\ Finished' = {b \in VisitedBlocks : b <= block}
           /\ Measured' = Finished'
<1>1. /\ kernel \in Kernels /\ block \in kernel.blocks /\ kernel' = kernel
      /\ VisitedBlocks' = VisitedBlocks
  BY DEF PlaceInv, input, VisitedBlocks, IsInLoop
<1>2. kernel.blocks \subseteq Nat /\ IsFiniteSet(kernel.blocks) /\ VisitedBlocks \subseteq kernel.blocks
  BY <1>1, KernelIsGraph, VisitedIs
<1>3. \A b \in kernel.blocks : b <= Max(kernel.blocks)
  BY <1>1, <1>2, MaxIs
<1>4. CASE block = Max(kernel.blocks)
  <2>1. pc' = "dump" /\ block' = block
    BY <1>4 DEF NextBlock
  <2> QED
    BY <1>1, <1>2, <1>3, <1>4, <2>1 DEF Finished, Measured
<1>5. CASE block # Max(kernel.blocks)
  <2> DEFINE later == {b \in kernel.blocks : b > block}
  <2>1. pc' = "block" /\ block' = Min(later)
    BY <1>5 DEF NextBlock
  <2>2. IsFiniteSet(later) /\ later \in SUBSET Int
    <3>1. later \subseteq kernel.blocks
      OBVIOUS
    <3> HIDE DEF later
    <3> QED
      BY <1>2, <3>1, FS_Subset
  <2>3. Max(kernel.blocks) \in later
    BY <1>1, <1>2, <1>3, <1>5, MaxIs
  <2>4. block' \in later /\ \A b \in later : block' <= b
    <3> HIDE DEF later
    <3> QED
      BY <2>1, <2>2, <2>3, MinIs
  <2>5. \A b \in kernel.blocks : b < block' <=> b <= block
    BY <1>1, <1>2, <2>4
  <2> QED
    BY <1>1, <1>2, <2>1, <2>4, <2>5 DEF Finished, Measured
<1> QED
  BY <1>4, <1>5

(* A step either leaves the places alone or goes on to the next block.      *)
LEMMA PlaceIsInvariant == Spec => []PlaceInv
<1>1. Init => PlaceInv
  BY KernelIsGraph DEF Init, PlaceInv, IsGraph
<1>2. PlaceInv /\ [Next]_vars => PlaceInv'
  <2> SUFFICES ASSUME PlaceInv, [Next]_vars PROVE PlaceInv'
    OBVIOUS
  <2>1. ASSUME UNCHANGED input PROVE VisitedBlocks' = VisitedBlocks
    BY <2>1 DEF input, VisitedBlocks, IsInLoop
  <2>2. ASSUME NextBlock, pc \in {"block", "mlp"}, UNCHANGED input PROVE PlaceInv'
    BY <2>2, NextBlockFinishes DEF PlaceInv, input
  <2>3. CASE VisitFunction
    BY <2>1, <2>3 DEF VisitFunction, PlaceInv, input
  <2>4. CASE VisitBlock
    BY <2>1, <2>4 DEF VisitBlock, PlaceInv, input
  <2>5. ASSUME NEW x \in intervals, StartWalk(x) PROVE PlaceInv'
    BY <2>1, <2>5 DEF StartWalk, PlaceInv, input
  <2>6. CASE WalkBack
    BY <2>1, <2>6 DEF WalkBack, PlaceInv, input
  <2>7. CASE Hang
    BY <2>1, <2>7 DEF Hang, PlaceInv, input
  <2>8. CASE EndWalk
    BY <2>1, <2>8 DEF EndWalk, PlaceInv, input
  <2>9. CASE FinishBlock
    BY <2>2, <2>9 DEF FinishBlock
  <2>10. CASE PassOverBlock
    BY <2>2, <2>10 DEF PassOverBlock
  <2>11. CASE Dump
    BY <2>1, <2>11 DEF Dump, PlaceInv, input
  <2>12. CASE UNCHANGED vars
    BY <2>1, <2>12 DEF vars, PlaceInv, input
  <2> QED
    BY <2>3, <2>4, <2>5, <2>6, <2>7, <2>8, <2>9, <2>10, <2>11, <2>12 DEF Next, Terminated
<1> QED
  BY <1>1, <1>2, PTL DEF Spec

(* The features gathered so far are about the first of the visited blocks.  *)
DepthOf(n) == [insts |-> Size(kernel, Listed[n]), depth |-> Depth(kernel, Listed[n])]

RangesOf(n) == LiveRanges(kernel, Listed[n])

AliveOutOf(n) == Quantify(Named(kernel, Listed[n]), LAMBDA i : IsUsedOutside(kernel, i))

LoadsOf(blocks) == {i \in kernel.loads : kernel.parent[i] \in blocks}

(* What the collector holds of the blocks behind the traversal.             *)
CollectorInv ==
    /\ DOMAIN collector = DOMAIN Empty
    /\ collector.loads = Cardinality(LoadsOf(Finished))
    /\ pc # "function" =>
          collector.uniformLoads = Cardinality({i \in kernel.loads \ sdda : kernel.parent[i] \in VisitedBlocks})
    /\ collector.blockILP = [n \in 1..Cardinality(Measured) |-> DepthOf(n)]
    /\ collector.avgLiveRange = [n \in 1..Cardinality(Finished) |-> RangesOf(n)]
    /\ collector.aliveOutBlocks = [n \in 1..Cardinality(Finished) |-> AliveOutOf(n)]

(* The blocks behind the traversal are finitely many.                       *)
LEMMA FinishedIs ==
    ASSUME PlaceInv
    PROVE  /\ Finished \subseteq VisitedBlocks /\ Measured \subseteq VisitedBlocks
           /\ IsFiniteSet(Finished) /\ Cardinality(Finished) \in Nat
           /\ IsFiniteSet(Measured) /\ Cardinality(Measured) \in Nat
<1>1. Finished \subseteq VisitedBlocks /\ Measured \subseteq VisitedBlocks
  BY DEF Finished, Measured
<1> QED
  BY <1>1, VisitedIs, FS_Subset, FS_CardinalityType DEF PlaceInv

(* The next block to finish is the next of the list.                        *)
LEMMA NextIsListed ==
    ASSUME PlaceInv, block \in VisitedBlocks, NEW F, F = {b \in VisitedBlocks : b < block}
    PROVE  /\ {b \in VisitedBlocks : b <= block} = F \cup {block}
           /\ Cardinality(F \cup {block}) = Cardinality(F) + 1
           /\ Cardinality(F) \in Nat /\ IsFiniteSet(F)
           /\ Listed[Cardinality(F) + 1] = block
<1>1. VisitedBlocks \in SUBSET Nat /\ IsFiniteSet(VisitedBlocks)
  BY VisitedIs DEF PlaceInv
<1>2. F \subseteq VisitedBlocks /\ block \notin F /\ block \in Nat
  BY <1>1
<1>a. \A b \in VisitedBlocks : b <= block <=> (b < block \/ b = block)
  BY <1>1, <1>2
<1>3. {b \in VisitedBlocks : b <= block} = F \cup {block}
  BY <1>a, <1>2
<1>4. IsFiniteSet(F) /\ Cardinality(F) \in Nat
  BY <1>1, <1>2, FS_Subset, FS_CardinalityType
<1>5. Cardinality(F \cup {block}) = Cardinality(F) + 1
  BY <1>2, <1>4, FS_AddElement
<1>6. Nth(VisitedBlocks, block) = Cardinality(F) + 1
  BY <1>3, <1>5, Zenon DEF Nth, Quantify
<1>7. Listed[Nth(VisitedBlocks, block)] = block
  BY <1>1, SortedIs DEF Listed
<1> QED
  BY <1>3, <1>4, <1>5, <1>6, <1>7

(* A list of the first n values of f becomes that of the first n + 1.       *)
LEMMA AppendNext ==
    ASSUME NEW n \in Nat, NEW f, NEW e, e = [i \in 1..n |-> f[i]]
    PROVE  Append(e, f[n + 1]) = [i \in 1..(n + 1) |-> f[i]]
<1> DEFINE V == {f[i] : i \in 1..(n + 1)}
<1>1. \A i \in 1..n : f[i] \in V
  OBVIOUS
<1>2. f[n + 1] \in V
  OBVIOUS
<1> HIDE DEF V
<1>3. e \in Seq(V) /\ Len(e) = n
  BY <1>1
<1>4. /\ Append(e, f[n + 1]) \in Seq(V) /\ Len(Append(e, f[n + 1])) = n + 1
      /\ Append(e, f[n + 1])[n + 1] = f[n + 1]
      /\ \A i \in 1..n : Append(e, f[n + 1])[i] = e[i]
  BY <1>2, <1>3, AppendProperties
<1> DEFINE a == Append(e, f[n + 1])
<1> HIDE DEF a
<1>5. a = [i \in 1..(n + 1) |-> a[i]]
  BY <1>4 DEF a
<1>6. \A i \in 1..(n + 1) : a[i] = f[i]
  <2>1. \A i \in 1..(n + 1) : i \in 1..n \/ i = n + 1
    OBVIOUS
  <2> QED
    BY <1>4, <2>1 DEF a
<1> QED
  BY <1>5, <1>6 DEF a

(* What an entry of the lists should be depends on the kernel only.         *)
LEMMA EntriesKept ==
    ASSUME kernel' = kernel, VisitedBlocks' = VisitedBlocks
    PROVE  /\ \A n : DepthOf(n)' = DepthOf(n)
           /\ \A n : RangesOf(n)' = RangesOf(n)
           /\ \A n : AliveOutOf(n)' = AliveOutOf(n)
<1>1. Listed' = Listed
  BY DEF Listed
<1>2. ASSUME NEW n PROVE DepthOf(n)' = DepthOf(n)
  BY <1>1 DEF DepthOf
<1>3. ASSUME NEW n PROVE RangesOf(n)' = RangesOf(n)
  BY <1>1 DEF RangesOf
<1>4. ASSUME NEW n PROVE AliveOutOf(n)' = AliveOutOf(n)
  BY <1>1 DEF AliveOutOf, Quantify
<1> QED
  BY <1>2, <1>3, <1>4

(* The rest of visitBasicBlock adds the features of the block.              *)
LEMMA FinishBlockKeeps ==
    ASSUME PlaceInv, CollectorInv, FinishBlock
    PROVE  CollectorInv'
<1> DEFINE F == Cardinality(Finished)
           c == PhisCounted(collector, kernel, block)
           new == kernel.loads \cap Insts(kernel, block)
<1>1. /\ kernel \in Kernels /\ UNCHANGED input /\ kernel' = kernel /\ sdda' = sdda /\ block \in VisitedBlocks
      /\ pc = "mlp" /\ NextBlock /\ collector' = FinishedBlock(collector, kernel, block)
  BY DEF FinishBlock, PlaceInv, input
<1>2. /\ VisitedBlocks' = VisitedBlocks /\ pc' \in {"dump", "block"}
      /\ Finished = {b \in VisitedBlocks : b < block}
      /\ Finished' = {b \in VisitedBlocks : b <= block} /\ Measured' = Finished'
  BY <1>1, NextBlockFinishes
<1>3. Measured = {b \in VisitedBlocks : b <= block}
  <2>1. \A b \in VisitedBlocks : b <= block <=> (b < block \/ b = block)
    BY <1>1, VisitedIs
  <2> QED
    BY <1>1, <2>1 DEF Measured
<1>4. /\ Finished' = Finished \cup {block} /\ Cardinality(Finished') = F + 1
      /\ F \in Nat /\ IsFiniteSet(Finished) /\ Listed[F + 1] = block
  BY <1>1, <1>2, NextIsListed
<1>5. /\ DOMAIN c = DOMAIN Empty /\ c.loads = collector.loads /\ c.blockILP = collector.blockILP
      /\ c.avgLiveRange = collector.avgLiveRange /\ c.aliveOutBlocks = collector.aliveOutBlocks
      /\ c.uniformLoads = collector.uniformLoads
  BY DEF PhisCounted, CollectorInv, Empty
<1>6. /\ DOMAIN collector' = DOMAIN Empty
      /\ collector'.loads = collector.loads + Cardinality(new)
      /\ collector'.blockILP = collector.blockILP
      /\ collector'.uniformLoads = collector.uniformLoads
      /\ collector'.avgLiveRange = Append(collector.avgLiveRange, LiveRanges(kernel, block))
      /\ collector'.aliveOutBlocks
            = Append(collector.aliveOutBlocks, Quantify(Named(kernel, block), LAMBDA i : IsUsedOutside(kernel, i)))
  <2>1. collector' = [c EXCEPT
                       !.blockMLP       = Append(@, distances),
                       !.blockInsts     = Append(@, Size(kernel, block)),
                       !.avgLiveRange   = Append(@, LiveRanges(kernel, block)),
                       !.aliveOutBlocks = Append(@, Quantify(Named(kernel, block), LAMBDA i : IsUsedOutside(kernel, i))),
                       !.insts          = @ + Size(kernel, block),
                       !.loads          = @ + Cardinality(new)]
    BY <1>1 DEF FinishedBlock
  <2> HIDE DEF c, new
  <2> QED
    BY <1>5, <2>1 DEF Empty
<1>7. Cardinality(LoadsOf(Finished')) = Cardinality(LoadsOf(Finished)) + Cardinality(new)
  <2>1. LoadsOf(Finished') = LoadsOf(Finished) \cup new /\ LoadsOf(Finished) \cap new = {}
    <3>1. \A i \in kernel.loads : i \in kernel.insts
      BY <1>1, KernelsAssumption
    <3>2. block \notin Finished
      BY <1>1, <1>2, VisitedIs
    <3> QED
      BY <1>4, <3>1, <3>2 DEF LoadsOf, Insts
  <2>2. IsFiniteSet(LoadsOf(Finished)) /\ IsFiniteSet(new)
    <3>1. LoadsOf(Finished) \subseteq kernel.insts /\ new \subseteq kernel.insts
      BY <1>1, KernelsAssumption DEF LoadsOf
    <3> HIDE DEF new
    <3> QED
      BY <1>1, <3>1, KernelIsGraph, FS_Subset
  <2> HIDE DEF new
  <2>3. /\ Cardinality(LoadsOf(Finished')) = Cardinality(LoadsOf(Finished)) + Cardinality(new) - Cardinality({})
        /\ Cardinality({}) = 0 /\ Cardinality(LoadsOf(Finished)) \in Nat /\ Cardinality(new) \in Nat
    BY <2>1, <2>2, FS_Union, FS_EmptySet, FS_CardinalityType
  <2> QED
    BY <2>3
<1>8. \A n : DepthOf(n)' = DepthOf(n) /\ RangesOf(n)' = RangesOf(n) /\ AliveOutOf(n)' = AliveOutOf(n)
  BY <1>1, <1>2, EntriesKept
<1>9. collector'.avgLiveRange = [n \in 1..(F + 1) |-> RangesOf(n)]
  <2> DEFINE f == [n \in Nat |-> RangesOf(n)]
  <2>1. F + 1 \in Nat /\ \A n \in 1..(F + 1) : n \in Nat
    BY <1>4
  <2>2. f[F + 1] = LiveRanges(kernel, block)
    BY <1>4, <2>1 DEF RangesOf
  <2>3. collector.avgLiveRange = [n \in 1..F |-> f[n]]
    BY <1>4 DEF CollectorInv
  <2>4. collector'.avgLiveRange = [n \in 1..(F + 1) |-> f[n]]
    <3> HIDE DEF f, F
    <3> QED
      BY <1>4, <1>6, <2>2, <2>3, AppendNext
  <2> QED
    BY <2>1, <2>4
<1>10. collector'.aliveOutBlocks = [n \in 1..(F + 1) |-> AliveOutOf(n)]
  <2> DEFINE f == [n \in Nat |-> AliveOutOf(n)]
  <2>1. F + 1 \in Nat /\ \A n \in 1..(F + 1) : n \in Nat
    BY <1>4
  <2>2. f[F + 1] = Quantify(Named(kernel, block), LAMBDA i : IsUsedOutside(kernel, i))
    BY <1>4, <2>1, Zenon DEF AliveOutOf
  <2>3. collector.aliveOutBlocks = [n \in 1..F |-> f[n]]
    BY <1>4 DEF CollectorInv
  <2>4. collector'.aliveOutBlocks = [n \in 1..(F + 1) |-> f[n]]
    <3> HIDE DEF f, F
    <3> QED
      BY <1>4, <1>6, <2>2, <2>3, AppendNext
  <2> QED
    BY <2>1, <2>4
<1>11. LoadsOf(Finished)' = LoadsOf(Finished')
  BY <1>1 DEF LoadsOf
<1>12. /\ Cardinality(Finished)' = F + 1 /\ Cardinality(Measured)' = Cardinality(Measured)
       /\ pc # "function"
  BY <1>1, <1>2, <1>3, <1>4
<1> HIDE DEF F, c, new
<1> QED
  BY <1>1, <1>2, <1>6, <1>7, <1>8, <1>9, <1>10, <1>11, <1>12 DEF CollectorInv

(* getILP adds the depth of the block.                                      *)
LEMMA VisitBlockKeeps ==
    ASSUME PlaceInv, CollectorInv, VisitBlock
    PROVE  CollectorInv'
<1> DEFINE M == Cardinality(Measured)
<1>1. /\ kernel \in Kernels /\ kernel' = kernel /\ sdda' = sdda /\ block' = block
      /\ VisitedBlocks' = VisitedBlocks /\ block \in VisitedBlocks
      /\ pc = "block" /\ pc' = "mlp"
  BY DEF VisitBlock, PlaceInv, input, VisitedBlocks, IsInLoop
<1>2. /\ DOMAIN collector' = DOMAIN Empty
      /\ collector'.loads = collector.loads
      /\ collector'.uniformLoads = collector.uniformLoads
      /\ collector'.avgLiveRange = collector.avgLiveRange
      /\ collector'.aliveOutBlocks = collector.aliveOutBlocks
      /\ collector'.blockILP = Append(collector.blockILP, [insts |-> Size(kernel, block), depth |-> Depth(kernel, block)])
  BY DEF VisitBlock, CollectorInv, Empty
<1>3. /\ Finished' = Finished /\ Measured = {b \in VisitedBlocks : b < block}
      /\ Measured' = {b \in VisitedBlocks : b <= block}
  <2>1. \A b \in VisitedBlocks : b <= block <=> (b < block \/ b = block)
    BY <1>1, VisitedIs
  <2> QED
    BY <1>1, <2>1 DEF Finished, Measured
<1>4. /\ Cardinality(Measured') = M + 1 /\ M \in Nat /\ Listed[M + 1] = block
  BY <1>1, <1>3, NextIsListed
<1>5. \A n : DepthOf(n)' = DepthOf(n) /\ RangesOf(n)' = RangesOf(n) /\ AliveOutOf(n)' = AliveOutOf(n)
  BY <1>1, EntriesKept
<1>6. collector'.blockILP = [n \in 1..(M + 1) |-> DepthOf(n)]
  <2> DEFINE f == [n \in Nat |-> DepthOf(n)]
  <2>1. M + 1 \in Nat /\ \A n \in 1..(M + 1) : n \in Nat
    BY <1>4
  <2>2. f[M + 1] = [insts |-> Size(kernel, block), depth |-> Depth(kernel, block)]
    BY <1>4, <2>1 DEF DepthOf
  <2>3. collector.blockILP = [n \in 1..M |-> f[n]]
    BY <1>4 DEF CollectorInv
  <2>4. collector'.blockILP = [n \in 1..(M + 1) |-> f[n]]
    <3> HIDE DEF f, M
    <3> QED
      BY <1>2, <1>4, <2>2, <2>3, AppendNext
  <2> QED
    BY <2>1, <2>4
<1>7. LoadsOf(Finished)' = LoadsOf(Finished) /\ Cardinality(Finished)' = Cardinality(Finished)
  BY <1>1, <1>3 DEF LoadsOf
<1>8. Cardinality(Measured)' = M + 1
  BY <1>4
<1> HIDE DEF M
<1> QED
  BY <1>1, <1>2, <1>5, <1>6, <1>7, <1>8 DEF CollectorInv

(* What leaves the visited blocks and the lists alone.                      *)
LEMMA SamePlaceKeeps ==
    ASSUME CollectorInv, UNCHANGED <<input, block>>,
           Finished' = Finished, Measured' = Measured,
           DOMAIN collector' = DOMAIN Empty,
           collector'.loads = collector.loads, collector'.blockILP = collector.blockILP,
           collector'.avgLiveRange = collector.avgLiveRange,
           collector'.aliveOutBlocks = collector.aliveOutBlocks,
           pc' # "function" => collector'.uniformLoads
               = Cardinality({i \in kernel.loads \ sdda : kernel.parent[i] \in VisitedBlocks})
    PROVE  CollectorInv'
<1>1. kernel' = kernel /\ sdda' = sdda /\ VisitedBlocks' = VisitedBlocks
  BY DEF input, VisitedBlocks, IsInLoop
<1>2. \A n : DepthOf(n)' = DepthOf(n) /\ RangesOf(n)' = RangesOf(n) /\ AliveOutOf(n)' = AliveOutOf(n)
  BY <1>1, EntriesKept
<1>3. LoadsOf(Finished)' = LoadsOf(Finished) /\ Cardinality(Finished)' = Cardinality(Finished)
      /\ Cardinality(Measured)' = Cardinality(Measured)
  BY <1>1 DEF LoadsOf
<1> QED
  BY <1>1, <1>2, <1>3 DEF CollectorInv

(* The features are at all times those of the blocks behind the traversal.  *)
LEMMA CollectorIsInvariant == Spec => [](PlaceInv /\ CollectorInv)
<1>1. ASSUME Init, PlaceInv PROVE CollectorInv
  <2>1. kernel \in Kernels /\ block = kernel.entry /\ collector = Empty /\ pc = "function"
    BY <1>1 DEF Init
  <2>2. \A b \in kernel.blocks : ~(b < block)
    <3>1. \A b \in kernel.blocks : kernel.entry <= b /\ b \in Nat
      BY <2>1, KernelsAssumption
    <3>2. kernel.entry \in Nat
      BY <2>1, <3>1, KernelIsGraph DEF IsGraph
    <3> QED
      BY <2>1, <3>1, <3>2
  <2>3. Finished = {} /\ Measured = {}
    BY <2>1, <2>2 DEF Finished, Measured, VisitedBlocks
  <2>4. LoadsOf({}) = {}
    BY DEF LoadsOf
  <2>5. Cardinality({}) = 0
    BY FS_EmptySet
  <2>6. Cardinality(Finished) = 0 /\ Cardinality(Measured) = 0 /\ Cardinality(LoadsOf(Finished)) = 0
    BY <2>3, <2>4, <2>5
  <2>7. /\ collector.loads = 0 /\ collector.blockILP = <<>> /\ collector.avgLiveRange = <<>>
        /\ collector.aliveOutBlocks = <<>>
    BY <2>1 DEF Empty
  <2>8. 1..0 = {}
    OBVIOUS
  <2>9. /\ [n \in 1..0 |-> DepthOf(n)] = <<>> /\ [n \in 1..0 |-> RangesOf(n)] = <<>>
        /\ [n \in 1..0 |-> AliveOutOf(n)] = <<>>
    BY <2>8
  <2> QED
    BY <2>1, <2>6, <2>7, <2>9 DEF CollectorInv
<1>2. ASSUME PlaceInv, CollectorInv, [Next]_vars PROVE CollectorInv'
  <2>1. ASSUME UNCHANGED input PROVE VisitedBlocks' = VisitedBlocks
    BY <2>1 DEF input, VisitedBlocks, IsInLoop
  <2>2. CASE VisitFunction
    <3>1. /\ UNCHANGED <<input, block>> /\ pc = "function" /\ pc' = "block"
          /\ collector' = countDivInsts(countEdges(countBranches(collector)))
      BY <2>2 DEF VisitFunction
    <3>2. Finished' = Finished /\ Measured' = Measured
      BY <2>1, <3>1 DEF Finished, Measured
    <3>a. DOMAIN countBranches(collector) = DOMAIN Empty
          /\ countBranches(collector).loads = collector.loads
          /\ countBranches(collector).blockILP = collector.blockILP
          /\ countBranches(collector).avgLiveRange = collector.avgLiveRange
          /\ countBranches(collector).aliveOutBlocks = collector.aliveOutBlocks
      BY <1>2 DEF countBranches, CollectorInv, Empty
    <3>b. DOMAIN countEdges(countBranches(collector)) = DOMAIN Empty
          /\ countEdges(countBranches(collector)).loads = collector.loads
          /\ countEdges(countBranches(collector)).blockILP = collector.blockILP
          /\ countEdges(countBranches(collector)).avgLiveRange = collector.avgLiveRange
          /\ countEdges(countBranches(collector)).aliveOutBlocks = collector.aliveOutBlocks
      BY <3>a DEF countEdges, Empty
    <3> DEFINE c == countEdges(countBranches(collector))
               uniform == Cardinality({i \in kernel.loads \ sdda : kernel.parent[i] \in VisitedBlocks})
    <3> HIDE DEF c
    <3>c. /\ DOMAIN countDivInsts(c) = DOMAIN Empty
          /\ countDivInsts(c).loads = c.loads
          /\ countDivInsts(c).blockILP = c.blockILP
          /\ countDivInsts(c).avgLiveRange = c.avgLiveRange
          /\ countDivInsts(c).aliveOutBlocks = c.aliveOutBlocks
          /\ countDivInsts(c).uniformLoads = uniform
      <4>1. \E x, y, z : countDivInsts(c) = [c EXCEPT !.divRegions = x, !.divRegionInsts = y,
                                               !.divInsts = z, !.uniformLoads = uniform]
        BY Zenon DEF countDivInsts, Quantify
      <4>2. PICK x, y, z : countDivInsts(c) = [c EXCEPT !.divRegions = x, !.divRegionInsts = y,
                                               !.divInsts = z, !.uniformLoads = uniform]
        BY <4>1
      <4> HIDE DEF uniform
      <4>3. DOMAIN c = DOMAIN Empty
        BY <3>b DEF c
      <4> QED
        BY <4>2, <4>3 DEF Empty
    <3>3. /\ DOMAIN collector' = DOMAIN Empty
          /\ collector'.loads = collector.loads /\ collector'.blockILP = collector.blockILP
          /\ collector'.avgLiveRange = collector.avgLiveRange
          /\ collector'.aliveOutBlocks = collector.aliveOutBlocks
          /\ collector'.uniformLoads = uniform
      BY <3>1, <3>b, <3>c, Zenon DEF c
    <3> QED
      BY <1>2, <3>1, <3>2, <3>3, SamePlaceKeeps
  <2>3. CASE VisitBlock
    BY <1>2, <2>3, VisitBlockKeeps
  <2>4. ASSUME UNCHANGED <<input, block, collector>>,
               pc' \in {"mlp", "walk", "hung"}, pc \in {"mlp", "walk", "hung"}
        PROVE  CollectorInv'
    <3>1. Finished' = Finished /\ Measured' = Measured
      BY <2>1, <2>4 DEF Finished, Measured
    <3> QED
      BY <1>2, <2>4, <3>1, SamePlaceKeeps DEF CollectorInv
  <2>5. ASSUME NEW x \in intervals, StartWalk(x) PROVE CollectorInv'
    BY <2>4, <2>5 DEF StartWalk
  <2>6. CASE WalkBack
    BY <2>4, <2>6 DEF WalkBack
  <2>7. CASE Hang
    BY <2>4, <2>7 DEF Hang
  <2>8. CASE EndWalk
    BY <2>4, <2>8 DEF EndWalk
  <2>9. CASE FinishBlock
    BY <1>2, <2>9, FinishBlockKeeps
  <2>10. CASE PassOverBlock
    <3>1. UNCHANGED <<input, collector>> /\ pc = "block" /\ NextBlock /\ block \notin VisitedBlocks
      BY <2>10 DEF PassOverBlock
    <3>2. /\ VisitedBlocks' = VisitedBlocks /\ pc' \in {"dump", "block"}
          /\ Finished = {b \in VisitedBlocks : b < block}
          /\ Finished' = {b \in VisitedBlocks : b <= block} /\ Measured' = Finished'
      BY <1>2, <3>1, NextBlockFinishes
    <3>3. \A b \in VisitedBlocks : b <= block <=> b < block
      BY <1>2, <3>1, VisitedIs, KernelIsGraph DEF PlaceInv
    <3>4. Finished' = Finished /\ Measured' = Measured
      BY <3>1, <3>2, <3>3 DEF Measured
    <3>5. kernel' = kernel /\ sdda' = sdda
      BY <3>1 DEF input
    <3>6. \A n : DepthOf(n)' = DepthOf(n) /\ RangesOf(n)' = RangesOf(n) /\ AliveOutOf(n)' = AliveOutOf(n)
      BY <3>2, <3>5, EntriesKept
    <3>7. LoadsOf(Finished)' = LoadsOf(Finished) /\ Cardinality(Finished)' = Cardinality(Finished)
          /\ Cardinality(Measured)' = Cardinality(Measured)
      BY <3>4, <3>5 DEF LoadsOf
    <3> QED
      BY <1>2, <3>1, <3>2, <3>5, <3>6, <3>7 DEF CollectorInv
  <2>11. CASE Dump
    <3>1. /\ UNCHANGED <<input, block>> /\ pc = "dump" /\ pc' = "dumped"
          /\ collector' = [collector EXCEPT !.phiArgSums = PhiArgSums(collector)]
      BY <2>11 DEF Dump
    <3>2. Finished' = Finished /\ Measured' = Measured
      BY <2>1, <3>1 DEF Finished, Measured
    <3>3. /\ DOMAIN collector' = DOMAIN Empty
          /\ collector'.loads = collector.loads /\ collector'.blockILP = collector.blockILP
          /\ collector'.avgLiveRange = collector.avgLiveRange
          /\ collector'.aliveOutBlocks = collector.aliveOutBlocks
          /\ collector'.uniformLoads = collector.uniformLoads
      BY <1>2, <3>1 DEF CollectorInv, Empty
    <3> QED
      BY <1>2, <3>1, <3>2, <3>3, SamePlaceKeeps DEF CollectorInv
  <2>12. CASE UNCHANGED vars
    <3>1. UNCHANGED <<input, block, pc, collector>>
      BY <2>12 DEF vars, input
    <3>2. Finished' = Finished /\ Measured' = Measured
      BY <2>1, <3>1 DEF Finished, Measured
    <3> QED
      BY <1>2, <3>1, <3>2, SamePlaceKeeps DEF CollectorInv
  <2> QED
    BY <1>2, <2>2, <2>3, <2>5, <2>6, <2>7, <2>8, <2>9, <2>10, <2>11, <2>12 DEF Next, Terminated
<1>3. Init /\ PlaceInv => CollectorInv
  BY <1>1
<1>4. PlaceInv /\ CollectorInv /\ [Next]_vars => CollectorInv'
  BY <1>2
<1> QED
  BY <1>3, <1>4, PlaceIsInvariant, PTL DEF Spec

----------------------------------------------------------------------------
(* Loads and live values.                                                   *)

(* What depends on the ids of one direction depends on those of all.        *)
InputInv == sdda \subseteq mdda.insts /\ mdda.insts \subseteq kernel.insts

(* The passes are handed the two analyses and change neither.               *)
LEMMA InputIsInvariant == Spec => []InputInv
<1>1. Init => InputInv
  <2> SUFFICES ASSUME Init PROVE InputInv
    OBVIOUS
  <2> DEFINE pdt == PostDomTree(kernel)
             ids == AllTids(kernel)
             all == Dependents(kernel, pdt, ids)
  <2>1. /\ kernel \in Kernels /\ mdda.insts = all
        /\ \E d \in Directions : sdda = Dependents(kernel, pdt, TidsIn(kernel, d))
    BY DEF Init
  <2>2. PICK d \in Directions : sdda = Dependents(kernel, pdt, TidsIn(kernel, d))
    BY <2>1
  <2>3. ids \in SUBSET kernel.insts /\ TidsIn(kernel, d) \subseteq ids
    <3>1. ids \subseteq kernel.insts /\ d \in DOMAIN kernel.tids
      BY <2>1, KernelsAssumption
    <3> QED
      BY <3>1 DEF AllTids, TidsIn
  <2> HIDE DEF pdt, ids
  <2>4. all \subseteq kernel.insts /\ ids \subseteq all /\ Closed(kernel, pdt, all)
    BY <2>1, <2>3, KernelIsGraph, DependentsIsLeast
  <2>5. TidsIn(kernel, d) \in SUBSET kernel.insts /\ TidsIn(kernel, d) \subseteq all
    BY <2>3, <2>4
  <2> HIDE DEF all
  <2>6. sdda \subseteq all
    BY <2>1, <2>2, <2>4, <2>5, KernelIsGraph, DependentsIsLeast
  <2> QED
    BY <2>1, <2>4, <2>6 DEF InputInv
<1>2. InputInv /\ [Next]_vars => InputInv'
  <2>1. ASSUME InputInv, [Next]_vars PROVE UNCHANGED input
    BY <2>1 DEF Next, vars, input, VisitFunction, VisitBlock, StartWalk, WalkBack, Hang, EndWalk,
       FinishBlock, PassOverBlock, Dump, Terminated
  <2> QED
    BY <2>1 DEF InputInv, input
<1> QED
  BY <1>1, <1>2, PTL DEF Spec

(* countLoads of the collector and of countDivInsts: when the features are  *)
(* dumped, each load of the visited blocks is counted as uniform or is      *)
(* among the divergent instructions of MultiDimDivAnalysis.                 *)
THEOREM LoadsAreCounted == Spec => []LoadsAreAccountedFor
<1>1. ASSUME PlaceInv, CollectorInv, InputInv PROVE LoadsAreAccountedFor
  <2> SUFFICES ASSUME pc = "dumped"
               PROVE  collector.loads <= collector.uniformLoads
                  + Quantify(kernel.loads \cap mdda.insts, LAMBDA i : kernel.parent[i] \in VisitedBlocks)
    BY DEF LoadsAreAccountedFor
  <2> DEFINE A == {i \in kernel.loads \ sdda : kernel.parent[i] \in VisitedBlocks}
             B == {i \in kernel.loads \cap mdda.insts : kernel.parent[i] \in VisitedBlocks}
             C == LoadsOf(VisitedBlocks)
  <2>1. Finished = VisitedBlocks
    BY DEF Finished
  <2>2. collector.loads = Cardinality(C) /\ collector.uniformLoads = Cardinality(A)
    BY <1>1, <2>1 DEF CollectorInv
  <2>3. Quantify(kernel.loads \cap mdda.insts, LAMBDA i : kernel.parent[i] \in VisitedBlocks) = Cardinality(B)
    BY Zenon DEF Quantify
  <2>4. kernel.loads \subseteq kernel.insts /\ IsFiniteSet(kernel.insts)
    BY <1>1, KernelsAssumption DEF PlaceInv
  <2>5. A \subseteq kernel.insts /\ B \subseteq kernel.insts /\ C \subseteq A \cup B
    BY <1>1, <2>4 DEF InputInv, LoadsOf
  <2> HIDE DEF A, B, C
  <2>6. IsFiniteSet(A) /\ IsFiniteSet(B) /\ A \cap B \subseteq A
    BY <2>4, <2>5, FS_Subset
  <2>7. /\ IsFiniteSet(A \cup B) /\ IsFiniteSet(A \cap B)
        /\ Cardinality(A \cup B) = Cardinality(A) + Cardinality(B) - Cardinality(A \cap B)
    BY <2>6, FS_Union, FS_Subset
  <2>8. /\ Cardinality(C) <= Cardinality(A \cup B) /\ Cardinality(C) \in Nat
        /\ Cardinality(A) \in Nat /\ Cardinality(B) \in Nat /\ Cardinality(A \cap B) \in Nat
    BY <2>5, <2>6, <2>7, FS_Subset, FS_CardinalityType
  <2> QED
    BY <2>2, <2>3, <2>7, <2>8
<1>2. PlaceInv /\ CollectorInv /\ InputInv => LoadsAreAccountedFor
  BY <1>1
<1> QED
  BY <1>2, CollectorIsInvariant, InputIsInvariant, PTL

(* The user of a value stands where the value is available.                 *)
LEMMA OperandIs ==
    ASSUME NEW k \in Kernels, NEW v \in k.insts, NEW u \in Users(k, v)
    PROVE  /\ u \in k.insts /\ k.parent[u] \in k.blocks /\ k.parent[v] \in k.blocks
           /\ Available(k, v, u)
           /\ k.kind[u] = "phi" =>
                \E p \in DOMAIN k.ops[u] : /\ k.ops[u][p] = v /\ p \in k.blocks
                                           /\ Dominates(k, k.parent[v], p)
<1>1. u \in k.insts /\ v \in Operands(k, u) /\ SSA(k)
  BY KernelsAssumption DEF Users
<1>2. Available(k, v, u) /\ (k.kind[u] = "phi" => DOMAIN k.ops[u] = Preds(k, k.parent[u]))
  BY <1>1 DEF SSA
<1>3. k.parent[u] \in k.blocks /\ k.parent[v] \in k.blocks
  BY <1>1, KernelIsGraph
<1>4. \E p \in DOMAIN k.ops[u] : k.ops[u][p] = v
  BY <1>1 DEF Operands
<1>5. ASSUME k.kind[u] = "phi", NEW p \in DOMAIN k.ops[u], k.ops[u][p] = v
      PROVE  p \in k.blocks /\ Dominates(k, k.parent[v], p)
  BY <1>2, <1>5 DEF Available, Preds
<1> QED
  BY <1>1, <1>2, <1>3, <1>4, <1>5

(* The end of a block leads to the blocks it dominates.                     *)
LEMMA DominatedIsAfter ==
    ASSUME NEW g, IsGraph(g), AllReached(g), NEW b \in g.blocks, NEW c \in g.blocks \ {b},
           Dominates(g, b, c)
    PROVE  c \in ReachAvoid(g, Succs(g, b), {b})
<1>1. c \in ReachAvoid(g, {b}, {}) \ {b}
  BY DominatedIsReached
<1>2. c \in ReachAvoid(g, Succs(g, b), {} \cup {b})
  BY <1>1, ReachLast
<1>3. {} \cup {b} = {b}
  OBVIOUS
<1> QED
  BY <1>2, <1>3

(* isUsedOutsideOfDefiningBlock holds of the values that live out of their  *)
(* block and of the phis that are used, and of no others.                   *)
LEMMA UsedOutsideIsLive ==
    ASSUME NEW k \in Kernels, NEW v \in k.insts
    PROVE  IsUsedOutside(k, v) <=> LiveOut(k, v) \/ (k.kind[v] = "phi" /\ Users(k, v) # {})
<1> DEFINE b == k.parent[v]
           after == ReachAvoid(k, Succs(k, b), {b})
<1>1. IsGraph(k) /\ AllReached(k) /\ b \in k.blocks
  BY KernelIsGraph
<1>2. Succs(k, b) \in SUBSET k.blocks
  BY <1>1 DEF IsGraph
<1>3. after \subseteq k.blocks \ {b}
  BY <1>1, <1>2, ReachAvoidIsClosed
<1>4. \A c \in k.blocks \ {b} : Dominates(k, b, c) => c \in after
  BY <1>1, DominatedIsAfter
<1> HIDE DEF after
<1>5. LiveOut(k, v) <=>
        \E u \in Users(k, v) :
           IF k.kind[u] = "phi" THEN \E p \in {b} \cup after : p \in DOMAIN k.ops[u] /\ k.ops[u][p] = v
           ELSE k.parent[u] \in after
  BY Zenon DEF LiveOut, after
<1> HIDE DEF b
<1>6. ASSUME NEW u \in Users(k, v), k.kind[u] = "phi"
      PROVE  \E p \in {b} \cup after : p \in DOMAIN k.ops[u] /\ k.ops[u][p] = v
  <2>1. PICK p \in DOMAIN k.ops[u] : k.ops[u][p] = v /\ p \in k.blocks /\ Dominates(k, b, p)
    BY <1>6, OperandIs DEF b
  <2>2. p \in {b} \cup after
    BY <1>4, <2>1
  <2> QED
    BY <2>1, <2>2
<1>7. ASSUME NEW u \in Users(k, v), k.kind[u] # "phi", k.parent[u] # b
      PROVE  k.parent[u] \in after
  <2>1. k.parent[u] \in k.blocks /\ Available(k, v, u)
    BY OperandIs
  <2>2. Dominates(k, b, k.parent[u])
    BY <1>7, <2>1 DEF Available, b
  <2> QED
    BY <1>4, <1>7, <2>1, <2>2
<1>8. ASSUME IsUsedOutside(k, v), k.kind[v] # "phi" PROVE LiveOut(k, v)
  <2>1. PICK u \in Users(k, v) : k.parent[u] # b \/ k.kind[u] = "phi"
    BY <1>8 DEF IsUsedOutside, b
  <2> QED
    BY <1>5, <1>6, <1>7, <2>1
<1>9. ASSUME LiveOut(k, v) PROVE IsUsedOutside(k, v)
  <2>1. PICK u \in Users(k, v) : k.kind[u] = "phi" \/ k.parent[u] \in after
    BY <1>5, <1>9
  <2> QED
    BY <1>3, <2>1 DEF IsUsedOutside, b
<1>10. IsUsedOutside(k, v) => Users(k, v) # {}
  BY DEF IsUsedOutside
<1>11. k.kind[v] = "phi" /\ Users(k, v) # {} => IsUsedOutside(k, v)
  BY DEF IsUsedOutside
<1> QED
  BY <1>8, <1>9, <1>10, <1>11

(* The order of the instructions in a block.                                *)
LEMMA PrecedesIsOrder ==
    ASSUME NEW k \in Kernels, NEW h \in k.insts, NEW i \in k.insts, NEW j \in k.insts
    PROVE  /\ Precedes(k, h, i) /\ Precedes(k, i, j) => Precedes(k, h, j)
           /\ ~Precedes(k, i, i)
<1>1. /\ k.kind[h] \in {"phi", "inst", "br"} /\ k.kind[i] \in {"phi", "inst", "br"}
      /\ k.kind[j] \in {"phi", "inst", "br"} /\ h \in Nat /\ i \in Nat /\ j \in Nat
  BY KernelsAssumption
<1> QED
  BY <1>1 DEF Precedes, Before, Rank

(* The instructions of the block that stand before i.                       *)
Earlier(k, i) == {j \in Insts(k, k.parent[i]) : Precedes(k, j, i)}

(* The position of an instruction is the number of those before it.         *)
LEMMA PositionIs ==
    ASSUME NEW k \in Kernels, NEW i \in k.insts
    PROVE  /\ Position(k, i) = Cardinality(Earlier(k, i)) /\ IsFiniteSet(Earlier(k, i))
           /\ Position(k, i) \in Nat
           /\ Size(k, k.parent[i]) \in Nat /\ Position(k, i) <= Size(k, k.parent[i])
<1>1. Position(k, i) = Cardinality(Earlier(k, i))
  BY Zenon DEF Position, Quantify, Earlier
<1>2. IsFiniteSet(Insts(k, k.parent[i])) /\ Earlier(k, i) \subseteq Insts(k, k.parent[i])
  <2>1. Insts(k, k.parent[i]) \subseteq k.insts
    BY DEF Insts
  <2> QED
    BY <2>1, KernelIsGraph, FS_Subset DEF Earlier
<1>3. /\ IsFiniteSet(Earlier(k, i)) /\ Cardinality(Earlier(k, i)) \in Nat
      /\ Cardinality(Insts(k, k.parent[i])) \in Nat
      /\ Cardinality(Earlier(k, i)) <= Cardinality(Insts(k, k.parent[i]))
  BY <1>2, FS_Subset, FS_CardinalityType
<1> QED
  BY <1>1, <1>3 DEF Size

(* What stands before has the smaller position.                             *)
LEMMA PositionGrows ==
    ASSUME NEW k \in Kernels, NEW i \in k.insts, NEW j \in k.insts,
           k.parent[i] = k.parent[j], Precedes(k, i, j)
    PROVE  Position(k, i) < Position(k, j)
<1> DEFINE E == Earlier(k, i)
           F == Earlier(k, j)
<1>1. E \subseteq F
  BY PrecedesIsOrder DEF Earlier, Insts
<1>2. i \in F /\ i \notin E
  BY PrecedesIsOrder DEF Earlier, Insts
<1>3. IsFiniteSet(E) /\ IsFiniteSet(F) /\ Position(k, i) = Cardinality(E) /\ Position(k, j) = Cardinality(F)
  BY PositionIs
<1> HIDE DEF E, F
<1>4. /\ Cardinality(E) \in Nat /\ Cardinality(F) \in Nat /\ Cardinality(E) <= Cardinality(F)
      /\ Cardinality(E) = Cardinality(F) => E = F
  BY <1>1, <1>3, FS_Subset, FS_CardinalityType
<1> QED
  BY <1>1, <1>2, <1>3, <1>4

(* The live range of a value that is used in its block only.                *)
LEMMA LiveRangeIs ==
    ASSUME NEW k \in Kernels, NEW v \in k.insts, ~IsUsedOutside(k, v), Users(k, v) # {}
    PROVE  LiveRange(k, v) = Cardinality({p \in 0..Size(k, k.parent[v]) :
              Position(k, v) <= p /\ \E u \in Users(k, v) : Position(k, u) > p})
<1> DEFINE at == Position(k, v)
           size == Size(k, k.parent[v])
           N == {Position(k, u) : u \in Users(k, v)}
<1>1. \A u \in Users(k, v) : /\ u \in k.insts /\ k.parent[u] = k.parent[v]
                             /\ k.kind[u] # "phi" /\ Available(k, v, u)
  BY OperandIs DEF IsUsedOutside
<1>2. \A u \in Users(k, v) : Precedes(k, v, u)
  BY <1>1 DEF Available, Precedes
<1>3. at \in Nat /\ size \in Nat /\ \A u \in Users(k, v) :
         Position(k, u) \in Nat /\ at < Position(k, u) /\ Position(k, u) <= size
  <2>1. ASSUME NEW u \in Users(k, v)
        PROVE  Position(k, u) \in Nat /\ at < Position(k, u) /\ Position(k, u) <= size
    <3>1. u \in k.insts /\ k.parent[u] = k.parent[v] /\ Precedes(k, v, u)
      BY <1>1, <1>2
    <3>2. at < Position(k, u)
      BY <3>1, PositionGrows
    <3> QED
      BY <3>1, <3>2, PositionIs
  <2> QED
    BY <2>1, PositionIs
<1>4. IsFiniteSet(N) /\ N # {} /\ N \in SUBSET Int
  <2>1. N \subseteq 0..size
    BY <1>3
  <2>2. IsFiniteSet(0..size)
    BY <1>3, FS_Interval
  <2>3. IsFiniteSet(N)
    <3> HIDE DEF N
    <3> QED
      BY <2>1, <2>2, FS_Subset
  <2> QED
    BY <1>3, <2>3
<1> DEFINE M == Max(N)
<1> HIDE DEF N
<1>5. M \in N /\ \A y \in N : M >= y
  BY <1>4, MaxIs
<1>6. LiveRange(k, v) = M - at
  BY DEF LiveRange, N
<1> HIDE DEF M, at, size
<1>7. M \in Nat /\ at < M /\ M <= size
  BY <1>3, <1>5 DEF N
<1>8. \A p \in 0..size : (\E u \in Users(k, v) : Position(k, u) > p) <=> M > p
  <2> SUFFICES ASSUME NEW p \in 0..size PROVE (\E u \in Users(k, v) : Position(k, u) > p) <=> M > p
    OBVIOUS
  <2>1. ASSUME NEW u \in Users(k, v), Position(k, u) > p PROVE M > p
    <3>1. Position(k, u) \in N
      BY DEF N
    <3> QED
      BY <1>3, <1>5, <1>7, <2>1, <3>1
  <2>2. ASSUME M > p PROVE \E u \in Users(k, v) : Position(k, u) > p
    <3>1. PICK u \in Users(k, v) : M = Position(k, u)
      BY <1>5 DEF N
    <3> QED
      BY <2>2, <3>1
  <2> QED
    BY <2>1, <2>2
<1>9. {p \in 0..size : at <= p /\ \E u \in Users(k, v) : Position(k, u) > p} = at..(M - 1)
  <2>1. \A p \in at..(M - 1) : p \in 0..size
    BY <1>3, <1>7
  <2>2. \A p \in 0..size : at <= p /\ M > p <=> p \in at..(M - 1)
    BY <1>3, <1>7
  <2> QED
    BY <1>8, <2>1, <2>2
<1>10. Cardinality(at..(M - 1)) = M - at
  <2>1. at \in Int /\ M - 1 \in Int /\ ~(at > M - 1) /\ (M - 1) - at + 1 = M - at
    BY <1>3, <1>7
  <2> QED
    BY <2>1, FS_Interval
<1> QED
  BY <1>6, <1>9, <1>10 DEF at, size

(* livenessAnalysis and computeLiveRange: aliveOutBlocks counts the values  *)
(* live out of their block and the used phis, and the live range of each    *)
(* other used value is the number of places where it is alive.              *)
THEOREM LiveValuesAreCounted == Spec => []CountsWhatIsLive
<1>1. ASSUME PlaceInv, CollectorInv PROVE CountsWhatIsLive
  <2> SUFFICES ASSUME pc = "dumped", NEW n \in DOMAIN Listed
               PROVE  LET b      == Listed[n]
                          named  == Named(kernel, b)
                          out    == {v \in named : LiveOut(kernel, v)}
                          phis   == {v \in Phis(kernel, b) \cap named : Users(kernel, v) # {}}
                          ranges == collector.avgLiveRange[n]
                          Alive(p, v) == Position(kernel, v) <= p /\ \E u \in Users(kernel, v) : Position(kernel, u) > p
                      IN  /\ collector.aliveOutBlocks[n] = Cardinality(out \cup phis)
                          /\ DOMAIN ranges = named \ (out \cup phis)
                          /\ \A v \in DOMAIN ranges : Users(kernel, v) # {} =>
                                ranges[v] = Quantify(0..Size(kernel, b), LAMBDA p : Alive(p, v))
    BY DEF CountsWhatIsLive
  <2> DEFINE b      == Listed[n]
             named  == Named(kernel, b)
             out    == {v \in named : LiveOut(kernel, v)}
             phis   == {v \in Phis(kernel, b) \cap named : Users(kernel, v) # {}}
             ranges == collector.avgLiveRange[n]
             away   == {v \in named : IsUsedOutside(kernel, v)}
  <2>1. kernel \in Kernels /\ Finished = VisitedBlocks
    BY <1>1 DEF PlaceInv, Finished
  <2>2. n \in 1..Cardinality(VisitedBlocks) /\ b \in kernel.blocks
    <3>1. DOMAIN Listed = 1..Cardinality(VisitedBlocks) /\ Elems(Listed) = VisitedBlocks
      BY <2>1, VisitedIs, SortedIs DEF Listed
    <3> QED
      BY <2>1, <3>1, VisitedIs DEF Elems
  <2>3. collector.aliveOutBlocks[n] = Cardinality(away)
    <3>1. collector.aliveOutBlocks[n] = AliveOutOf(n)
      BY <1>1, <2>1, <2>2 DEF CollectorInv
    <3> QED
      BY <3>1, Zenon DEF AliveOutOf, Quantify
  <2>4. ranges = [i \in named \ away |-> LiveRange(kernel, i)]
    <3>1. ranges = RangesOf(n)
      BY <1>1, <2>1, <2>2 DEF CollectorInv
    <3>2. RangesOf(n) = [i \in {j \in named : ~IsUsedOutside(kernel, j)} |-> LiveRange(kernel, i)]
      BY Zenon DEF RangesOf, LiveRanges
    <3>3. {j \in named : ~IsUsedOutside(kernel, j)} = named \ away
      OBVIOUS
    <3> HIDE DEF ranges, away, named
    <3> QED
      BY <3>1, <3>2, <3>3
  <2>5. \A v \in named : v \in kernel.insts /\ kernel.parent[v] = b
    BY DEF Named, Insts
  <2>6. \A v \in named : IsUsedOutside(kernel, v)
                            <=> LiveOut(kernel, v) \/ (kernel.kind[v] = "phi" /\ Users(kernel, v) # {})
    <3> HIDE DEF named
    <3> QED
      BY <2>1, <2>5, UsedOutsideIsLive
  <2>7. away = out \cup phis
    <3>1. \A v \in named : v \in phis <=> (kernel.kind[v] = "phi" /\ Users(kernel, v) # {})
      BY <2>5 DEF Phis
    <3>2. phis \subseteq named
      OBVIOUS
    <3> HIDE DEF named, phis
    <3> QED
      BY <2>6, <3>1, <3>2
  <2>8. ASSUME NEW v \in named \ away, Users(kernel, v) # {}
        PROVE  ranges[v] = Quantify(0..Size(kernel, b),
                  LAMBDA p : Position(kernel, v) <= p /\ \E u \in Users(kernel, v) : Position(kernel, u) > p)
    <3>1. v \in kernel.insts /\ kernel.parent[v] = b /\ ~IsUsedOutside(kernel, v)
      BY <2>5, <2>8
    <3>2. ranges[v] = LiveRange(kernel, v)
      <4> HIDE DEF ranges, named, away
      <4> QED
        BY <2>4, <2>8
    <3>3. LiveRange(kernel, v) = Cardinality({p \in 0..Size(kernel, b) :
              Position(kernel, v) <= p /\ \E u \in Users(kernel, v) : Position(kernel, u) > p})
      <4> HIDE DEF b
      <4> QED
        BY <2>1, <2>8, <3>1, LiveRangeIs
    <3> HIDE DEF b, ranges
    <3> QED
      BY <3>2, <3>3, Zenon DEF Quantify
  <2>9. DOMAIN ranges = named \ away
    <3> HIDE DEF ranges, named, away
    <3> QED
      BY <2>4
  <2> HIDE DEF b, named, out, phis, ranges, away
  <2>10. /\ collector.aliveOutBlocks[n] = Cardinality(out \cup phis)
         /\ DOMAIN ranges = named \ (out \cup phis)
         /\ \A v \in DOMAIN ranges : Users(kernel, v) # {} =>
               ranges[v] = Quantify(0..Size(kernel, b),
                  LAMBDA p : Position(kernel, v) <= p /\ \E u \in Users(kernel, v) : Position(kernel, u) > p)
    BY <2>3, <2>7, <2>8, <2>9
  <2> QED
    BY <2>10, Zenon DEF b, named, out, phis, ranges
<1>2. PlaceInv /\ CollectorInv => CountsWhatIsLive
  BY <1>1
<1> QED
  BY <1>2, CollectorIsInvariant, PTL

----------------------------------------------------------------------------
(* Depths and chains.                                                       *)

(* The operands in block b that i waits for, and the depth getILP gives i   *)
(* when it gave its operands those in D.                                    *)
Waits(k, b, i) == {p \in Operands(k, i) \cap Insts(k, b) : Precedes(k, p, i)}

DepthAfter(k, b, D, i) == 1 + Max({0} \cup {D[o] : o \in Waits(k, b, i)})

(* A block has finitely many instructions, each of which waits for finitely *)
(* many.                                                                    *)
LEMMA BlockIsFinite ==
    ASSUME NEW k \in Kernels, NEW b
    PROVE  /\ Insts(k, b) \subseteq k.insts /\ IsFiniteSet(Insts(k, b))
           /\ \A i : Waits(k, b, i) \subseteq Insts(k, b) /\ IsFiniteSet(Waits(k, b, i))
<1>1. Insts(k, b) \subseteq k.insts
  BY DEF Insts
<1>2. IsFiniteSet(Insts(k, b))
  BY <1>1, KernelIsGraph, FS_Subset
<1>3. \A i : Waits(k, b, i) \subseteq Insts(k, b)
  BY DEF Waits
<1> QED
  BY <1>1, <1>2, <1>3, FS_Subset

(* Finitely many arguments have finitely many values.                       *)
LEMMA ImageIsFinite ==
    ASSUME NEW S, IsFiniteSet(S), NEW f
    PROVE  IsFiniteSet({f[x] : x \in S})
<1> DEFINE R == {f[x] : x \in S}
           e == [x \in S |-> f[x]]
<1>1. e \in Surjection(S, R)
  BY DEF Surjection
<1> HIDE DEF R, e
<1>2. IsFiniteSet(R)
  BY <1>1, FS_Surjection
<1> QED
  BY <1>2 DEF R

(* The depth of an instruction is one more than some depth of those it      *)
(* waits for, none of which is greater; or 1.                               *)
LEMMA DepthAfterIs ==
    ASSUME NEW k \in Kernels, NEW b, NEW D, NEW i,
           \A o \in Waits(k, b, i) : D[o] \in Nat
    PROVE  /\ DepthAfter(k, b, D, i) \in Nat /\ DepthAfter(k, b, D, i) >= 1
           /\ \A o \in Waits(k, b, i) : DepthAfter(k, b, D, i) >= 1 + D[o]
           /\ \/ DepthAfter(k, b, D, i) = 1
              \/ \E o \in Waits(k, b, i) : DepthAfter(k, b, D, i) = 1 + D[o]
<1> DEFINE S == {0} \cup {D[o] : o \in Waits(k, b, i)}
           R == {D[o] : o \in Waits(k, b, i)}
<1>1. IsFiniteSet(Waits(k, b, i))
  BY BlockIsFinite
<1>2. S = R \cup {0}
  OBVIOUS
<1>3. IsFiniteSet(R)
  BY <1>1, ImageIsFinite
<1>4. S \in SUBSET Int /\ S # {} /\ \A x \in S : x \in Nat
  OBVIOUS
<1>5. IsFiniteSet(S)
  <2> HIDE DEF S, R
  <2> QED
    BY <1>2, <1>3, FS_AddElement
<1>6. DepthAfter(k, b, D, i) = 1 + Max(S)
  BY DEF DepthAfter
<1>7. 0 \in S /\ \A o \in Waits(k, b, i) : D[o] \in S
  OBVIOUS
<1>8. \A x \in S : x = 0 \/ \E o \in Waits(k, b, i) : x = D[o]
  OBVIOUS
<1> HIDE DEF S
<1>9. Max(S) \in S /\ \A x \in S : Max(S) >= x
  BY <1>4, <1>5, MaxIs
<1>10. Max(S) \in Nat
  BY <1>4, <1>9
<1> DEFINE m == Max(S)
<1> HIDE DEF m
<1>11. m \in Nat /\ (\A o \in Waits(k, b, i) : m >= D[o]) /\ (m = 0 \/ \E o \in Waits(k, b, i) : m = D[o])
  BY <1>7, <1>8, <1>9, <1>10 DEF m
<1> QED
  BY <1>6, <1>11 DEF m

(* It depends only on the depths of what the instruction waits for.         *)
LEMMA DepthAfterSame ==
    ASSUME NEW k, NEW b, NEW D, NEW E, NEW i, \A o \in Waits(k, b, i) : D[o] = E[o]
    PROVE  DepthAfter(k, b, D, i) = DepthAfter(k, b, E, i)
<1>1. {D[o] : o \in Waits(k, b, i)} = {E[o] : o \in Waits(k, b, i)}
  OBVIOUS
<1> QED
  BY <1>1 DEF DepthAfter

(* An instruction waits for earlier ones.                                   *)
LEMMA WaitsAreEarlier ==
    ASSUME NEW k \in Kernels, NEW b, NEW i \in Insts(k, b), NEW o \in Waits(k, b, i)
    PROVE  /\ o \in Insts(k, b) /\ Position(k, o) \in Nat /\ Position(k, i) \in Nat
           /\ Position(k, o) < Position(k, i)
<1>1. /\ o \in k.insts /\ i \in k.insts /\ o \in Insts(k, b)
      /\ k.parent[o] = k.parent[i] /\ Precedes(k, o, i)
  BY DEF Waits, Insts
<1> QED
  BY <1>1, PositionGrows, PositionIs

(* There are depths that fit together, for an operand stands before what    *)
(* waits for it.                                                            *)
LEMMA DepthsExist ==
    ASSUME NEW k \in Kernels, NEW b
    PROVE  \E D : D = [i \in Insts(k, b) |-> DepthAfter(k, b, D, i)]
<1> DEFINE I == Insts(k, b)
           V == [I -> Nat]
           none == [i \in I |-> 0]
           h == [z \in Nat \X V |-> [i \in I |-> DepthAfter(k, b, z[2], i)]]
           n == Cardinality(k.insts) + 1
<1>1. n \in Nat /\ none \in V
  BY KernelIsGraph, FS_CardinalityType
<1>2. \A f \in V : \A i \in I : DepthAfter(k, b, f, i) \in Nat
  <2> SUFFICES ASSUME NEW f \in V, NEW i \in I PROVE DepthAfter(k, b, f, i) \in Nat
    OBVIOUS
  <2>1. \A o \in Waits(k, b, i) : f[o] \in Nat
    BY BlockIsFinite
  <2> QED
    BY <2>1, DepthAfterIs
<1>3. h \in [Nat \X V -> V]
  BY <1>2
<1>4. PICK W \in [0..n -> V] : IsRecursive(W, n, none, h)
  <2> HIDE DEF V, n, none, h
  <2> QED
    BY <1>1, <1>3, RecursiveExists
<1>5. \A m \in 1..n : W[m - 1] \in V /\ W[m] = [i \in I |-> DepthAfter(k, b, W[m - 1], i)]
  <2> SUFFICES ASSUME NEW m \in 1..n
               PROVE  W[m - 1] \in V /\ W[m] = [i \in I |-> DepthAfter(k, b, W[m - 1], i)]
    OBVIOUS
  <2> HIDE DEF V, n, none
  <2>1. m \in 0..n /\ m # 0 /\ m \in Nat /\ m - 1 \in 0..n
    BY <1>1
  <2>2. W[m] = h[<<m, W[m - 1]>>]
    <3> HIDE DEF h
    <3> QED
      BY <2>1 , <1>4 DEF IsRecursive
  <2>3. W[m - 1] \in V
    BY <1>4, <2>1
  <2> QED
    BY <2>1, <2>2, <2>3
<1> DEFINE T == {m \in Nat : m \in 1..n => \A i \in I : Position(k, i) < m - 1 => W[m][i] = W[m - 1][i]}
<1>6. \A m \in Nat : m \in T
  <2>1. 0 \in T
    OBVIOUS
  <2>2. ASSUME NEW m \in Nat, m \in T PROVE m + 1 \in T
    <3> HIDE DEF V, n, none, h
    <3> SUFFICES ASSUME m + 1 \in 1..n, NEW i \in I, Position(k, i) < (m + 1) - 1
                 PROVE  W[m + 1][i] = W[(m + 1) - 1][i]
      OBVIOUS
    <3>1. Position(k, i) \in Nat /\ (m + 1) - 1 = m
      BY BlockIsFinite, PositionIs
    <3>2. m \in 1..n
      BY <1>1, <3>1
    <3>3. \A o \in Waits(k, b, i) : W[m][o] = W[m - 1][o]
      <4> SUFFICES ASSUME NEW o \in Waits(k, b, i) PROVE W[m][o] = W[m - 1][o]
        OBVIOUS
      <4>1. o \in I /\ Position(k, o) \in Nat /\ Position(k, o) < Position(k, i)
        BY WaitsAreEarlier
      <4>2. Position(k, o) < m - 1
        BY <3>1, <3>2, <4>1
      <4> QED
        BY <2>2, <3>2, <4>1, <4>2
    <3>4. DepthAfter(k, b, W[m], i) = DepthAfter(k, b, W[m - 1], i)
      BY <3>3, DepthAfterSame
    <3>5. W[m + 1][i] = DepthAfter(k, b, W[m], i) /\ W[m][i] = DepthAfter(k, b, W[m - 1], i)
        <4> DEFINE A(p) == [j \in I |-> DepthAfter(k, b, W[p], j)]
      <4>1. W[m + 1] = A((m + 1) - 1) /\ W[m] = A(m - 1)
        BY <1>5, <3>2
      <4>2. A((m + 1) - 1) = A(m)
        BY <3>1
      <4>3. \A p : A(p)[i] = DepthAfter(k, b, W[p], i)
        OBVIOUS
      <4> HIDE DEF A
      <4> QED
        BY <4>1, <4>2, <4>3
    <3> QED
      BY <3>1, <3>4, <3>5
  <2> HIDE DEF T
  <2> QED
    BY <2>1, <2>2, Induction
<1>7. \A i \in I : W[n][i] = W[n - 1][i]
  <2> SUFFICES ASSUME NEW i \in I PROVE W[n][i] = W[n - 1][i]
    OBVIOUS
  <2>1. i \in k.insts
    BY BlockIsFinite
  <2>2. Position(k, i) \in Nat /\ Position(k, i) = Cardinality(Earlier(k, i)) /\ Cardinality(Earlier(k, i)) < Cardinality(k.insts)
    <3>1. Earlier(k, i) \subseteq k.insts /\ i \notin Earlier(k, i)
      BY <2>1, PrecedesIsOrder DEF Earlier, Insts
    <3>2. /\ Cardinality(Earlier(k, i)) \in Nat /\ Cardinality(k.insts) \in Nat
          /\ Cardinality(Earlier(k, i)) <= Cardinality(k.insts)
          /\ (Cardinality(Earlier(k, i)) = Cardinality(k.insts) => Earlier(k, i) = k.insts)
      BY <3>1, KernelIsGraph, FS_Subset, FS_CardinalityType
    <3> QED
      BY <2>1, <3>1, <3>2, PositionIs
  <2>3. n \in T /\ n \in 1..n /\ Position(k, i) < n - 1
    <3>1. Cardinality(k.insts) \in Nat
      BY KernelIsGraph, FS_CardinalityType
    <3> HIDE DEF T
    <3> QED
      BY <1>1, <1>6, <2>2, <3>1
  <2> HIDE DEF n, V, h
  <2> QED
    BY <2>3
<1>8. W[n] = [i \in I |-> DepthAfter(k, b, W[n - 1], i)] /\ W[n - 1] \in V
  <2>1. n \in 1..n
    <3>1. Cardinality(k.insts) \in Nat
      BY KernelIsGraph, FS_CardinalityType
    <3> QED
      BY <3>1
  <2> HIDE DEF n, V, h
  <2> QED
    BY <1>5, <2>1
<1>9. W[n] = W[n - 1]
  <2> HIDE DEF n, h
  <2> QED
    BY <1>7, <1>8
<1> HIDE DEF n, V, h
<1> QED
  BY <1>8, <1>9

(* Induction along the block.                                               *)
LEMMA AlongTheBlock ==
    ASSUME NEW k \in Kernels, NEW b, NEW P,
           \A i \in Insts(k, b) :
              (\A o \in Insts(k, b) : Position(k, o) < Position(k, i) => o \in P) => i \in P
    PROVE  Insts(k, b) \subseteq P
<1> SUFFICES ASSUME Insts(k, b) \ P # {} PROVE FALSE
  OBVIOUS
<1> DEFINE T == {Position(k, i) : i \in Insts(k, b) \ P}
<1>1. \A i \in Insts(k, b) : Position(k, i) \in Nat
  BY BlockIsFinite, PositionIs
<1>2. T \in SUBSET Nat /\ T # {}
  BY <1>1
<1>3. PICK x \in T : \A y \in T : x <= y
  <2> HIDE DEF T
  <2> QED
    BY <1>2, LeastNumber
<1>4. PICK i \in Insts(k, b) \ P : x = Position(k, i)
  BY <1>3
<1>5. \A o \in Insts(k, b) \ P : Position(k, o) \in T
  OBVIOUS
<1> HIDE DEF T
<1>6. \A o \in Insts(k, b) : Position(k, o) < Position(k, i) => o \in P
  <2> SUFFICES ASSUME NEW o \in Insts(k, b) \ P, Position(k, o) < Position(k, i) PROVE FALSE
    OBVIOUS
  <2>1. Position(k, i) <= Position(k, o)
    BY <1>3, <1>4, <1>5
  <2> QED
    BY <1>1, <1>4, <2>1
<1> QED
  BY <1>4, <1>6

(* Depths of the instructions of a block that fit together.                 *)
IsDepths(k, b, D) == D = [i \in Insts(k, b) |-> DepthAfter(k, b, D, i)]

(* Depths that fit together are positive, one more than the greatest depth  *)
(* of what the instruction waits for.                                       *)
LEMMA DepthsAreNumbers ==
    ASSUME NEW k \in Kernels, NEW b, NEW D, IsDepths(k, b, D)
    PROVE  \A i \in Insts(k, b) :
              /\ D[i] \in Nat /\ D[i] >= 1
              /\ \A o \in Waits(k, b, i) : D[i] >= 1 + D[o]
              /\ D[i] = 1 \/ \E o \in Waits(k, b, i) : D[i] = 1 + D[o]
<1> DEFINE P == {i \in Insts(k, b) : D[i] \in Nat}
<1>1. \A i \in Insts(k, b) : D[i] = DepthAfter(k, b, D, i)
  <2> DEFINE e == [i \in Insts(k, b) |-> DepthAfter(k, b, D, i)]
  <2>1. D = e
    BY DEF IsDepths
  <2>2. \A i \in Insts(k, b) : e[i] = DepthAfter(k, b, D, i)
    OBVIOUS
  <2> HIDE DEF e
  <2> QED
    BY <2>1, <2>2
<1>2. ASSUME NEW i \in Insts(k, b),
             \A o \in Insts(k, b) : Position(k, o) < Position(k, i) => o \in P
      PROVE  i \in P
  <2>1. \A o \in Waits(k, b, i) : D[o] \in Nat
    BY <1>2, WaitsAreEarlier
  <2> QED
    BY <1>1, <2>1, DepthAfterIs
<1>3. Insts(k, b) \subseteq P
  <2> HIDE DEF P
  <2> QED
    BY <1>2, AlongTheBlock
<1>4. \A i \in Insts(k, b) : \A o \in Waits(k, b, i) : D[o] \in Nat
  BY <1>3, WaitsAreEarlier
<1> QED
  BY <1>1, <1>4, DepthAfterIs

(* The chains of a block whose last instruction is i.                       *)
ChainsTo(k, b, i) ==
    {C \in SUBSET Insts(k, b) : IsChain(k, C) /\ i \in C /\ \A j \in C \ {i} : Precedes(k, j, i)}

(* A chain to an operand goes on to the instruction that waits for it.      *)
LEMMA ChainGrows ==
    ASSUME NEW k \in Kernels, NEW b, NEW i \in Insts(k, b), NEW o \in Waits(k, b, i),
           NEW C \in ChainsTo(k, b, o)
    PROVE  C \cup {i} \in ChainsTo(k, b, i) /\ Cardinality(C \cup {i}) = Cardinality(C) + 1
<1>1. /\ C \subseteq Insts(k, b) /\ IsChain(k, C) /\ o \in C
      /\ \A j \in C \ {o} : Precedes(k, j, o)
      /\ o \in Operands(k, i) /\ Precedes(k, o, i)
  BY DEF ChainsTo, Waits
<1>2. \A j \in Insts(k, b) : j \in k.insts
  BY BlockIsFinite
<1>3. \A j \in C : Precedes(k, j, i)
  BY <1>1, <1>2, PrecedesIsOrder
<1>4. i \notin C
  BY <1>2, <1>3, PrecedesIsOrder
<1>5. IsChain(k, C \cup {i})
  <2> SUFFICES ASSUME NEW x \in C \cup {i}, NEW y \in C \cup {i}
               PROVE  \/ x = y \/ Precedes(k, y, x)
                      \/ Precedes(k, x, y) /\ (x \in Operands(k, y) \/ \E m \in C \cup {i} : Precedes(k, x, m) /\ Precedes(k, m, y))
    BY DEF IsChain
  <2>1. CASE x \in C /\ y \in C
    BY <1>1, <2>1 DEF IsChain
  <2>2. CASE x \in C /\ y = i
    BY <1>1, <1>3, <2>2
  <2>3. CASE x = i
    BY <1>3, <2>3
  <2> QED
    BY <2>1, <2>2, <2>3
<1>6. IsFiniteSet(C)
  BY <1>1, BlockIsFinite, FS_Subset
<1>7. Cardinality(C \cup {i}) = Cardinality(C) + 1
  BY <1>4, <1>6, FS_AddElement
<1> QED
  BY <1>1, <1>3, <1>5, <1>7 DEF ChainsTo

(* A chain that is not empty ends in one of its instructions.               *)
LEMMA ChainHasLast ==
    ASSUME NEW k \in Kernels, NEW b, NEW C \in SUBSET Insts(k, b), IsChain(k, C), C # {}
    PROVE  \E i \in C : C \in ChainsTo(k, b, i)
<1> DEFINE R == {z \in C \X C : z[1] = z[2] \/ Precedes(k, z[2], z[1])}
<1>1. IsFiniteSet(C) /\ \A j \in C : j \in k.insts
  BY BlockIsFinite, FS_Subset
<1>2. \A x, y \in C : <<x, y>> \in R <=> (x = y \/ Precedes(k, y, x))
  OBVIOUS
<1>3. \A x, y \in C : x = y \/ Precedes(k, y, x) \/ Precedes(k, x, y)
  BY DEF IsChain
<1>4. \A x, y, z \in C : Precedes(k, y, x) /\ Precedes(k, z, y) => Precedes(k, z, x)
  BY <1>1, PrecedesIsOrder
<1> HIDE DEF R
<1>5. \A x, y \in C : <<x, y>> \in R \/ <<y, x>> \in R
  BY <1>2, <1>3
<1>6. \A x, y, z \in C : <<x, y>> \in R /\ <<y, z>> \in R => <<x, z>> \in R
  BY <1>2, <1>4
<1>7. PICK i \in C : \A j \in C : <<i, j>> \in R
  BY <1>1, <1>5, <1>6, ChainHasFirst
<1> QED
  BY <1>2, <1>7 DEF ChainsTo

(* A chain of more than its last instruction ends, without it, in one that  *)
(* the last instruction waits for.                                          *)
LEMMA ChainIsCut ==
    ASSUME NEW k \in Kernels, NEW b, NEW i \in Insts(k, b), NEW C \in ChainsTo(k, b, i),
           C # {i}
    PROVE  /\ \E n \in Nat : n = Cardinality(C \ {i}) /\ Cardinality(C) = n + 1
           /\ \E o \in Waits(k, b, i) : C \ {i} \in ChainsTo(k, b, o)
<1> DEFINE A == C \ {i}
<1>1. /\ C \subseteq Insts(k, b) /\ IsChain(k, C) /\ i \in C
      /\ \A j \in A : Precedes(k, j, i)
  BY DEF ChainsTo
<1>2. \A j \in Insts(k, b) : j \in k.insts
  BY BlockIsFinite
<1>3. A # {} /\ IsFiniteSet(C)
  BY <1>1, BlockIsFinite, FS_Subset
<1>4. IsFiniteSet(A) /\ Cardinality(C) = Cardinality(A) + 1 /\ Cardinality(A) \in Nat
  <2>1. IsFiniteSet(A) /\ Cardinality(A) = Cardinality(C) - 1 /\ Cardinality(C) \in Nat
    BY <1>1, <1>3, FS_RemoveElement, FS_CardinalityType
  <2>2. Cardinality(A) \in Nat
    BY <2>1, FS_CardinalityType
  <2> QED
    BY <2>1, <2>2
<1>5. IsChain(k, A)
  <2> SUFFICES ASSUME NEW x \in A, NEW y \in A
               PROVE  \/ x = y \/ Precedes(k, y, x)
                      \/ Precedes(k, x, y) /\ (x \in Operands(k, y) \/ \E m \in A : Precedes(k, x, m) /\ Precedes(k, m, y))
    BY DEF IsChain
  <2>1. \A m \in C : Precedes(k, m, y) => m # i
    BY <1>1, <1>2, PrecedesIsOrder
  <2> QED
    BY <1>1, <2>1 DEF IsChain
<1>6. PICK o \in A : A \in ChainsTo(k, b, o)
  BY <1>1, <1>3, <1>5, ChainHasLast
<1>7. \A j \in A : o = j \/ Precedes(k, j, o)
  BY <1>6 DEF ChainsTo
<1>8. o \in Operands(k, i)
  <2>1. Precedes(k, o, i) /\ o # i /\ ~Precedes(k, i, o)
    BY <1>1, <1>2, PrecedesIsOrder
  <2>2. ASSUME NEW m \in C, Precedes(k, o, m), Precedes(k, m, i) PROVE FALSE
    <3>1. m \in A
      BY <1>1, <1>2, <2>2, PrecedesIsOrder
    <3> QED
      BY <1>1, <1>2, <1>7, <2>2, <3>1, PrecedesIsOrder
  <2> QED
    BY <1>1, <2>1, <2>2 DEF IsChain
<1>9. o \in Waits(k, b, i) /\ A \in ChainsTo(k, b, o)
  BY <1>1, <1>6, <1>8 DEF Waits
<1> QED
  BY <1>3, <1>4, <1>9

(* A depth is the length of the longest chain to the instruction.           *)
LEMMA DepthsMeasureChains ==
    ASSUME NEW k \in Kernels, NEW b, NEW D, IsDepths(k, b, D)
    PROVE  \A i \in Insts(k, b) :
              /\ \E C \in ChainsTo(k, b, i) : Cardinality(C) = D[i]
              /\ \A C \in ChainsTo(k, b, i) : Cardinality(C) \in Nat /\ Cardinality(C) <= D[i]
<1> DEFINE P == {i \in Insts(k, b) :
                   /\ \E C \in ChainsTo(k, b, i) : Cardinality(C) = D[i]
                   /\ \A C \in ChainsTo(k, b, i) : Cardinality(C) \in Nat /\ Cardinality(C) <= D[i]}
<1>1. ASSUME NEW i \in Insts(k, b),
             \A o \in Insts(k, b) : Position(k, o) < Position(k, i) => o \in P
      PROVE  i \in P
  <2>1. \A o \in Waits(k, b, i) : o \in P /\ o \in Insts(k, b)
    BY <1>1, WaitsAreEarlier
  <2>2. /\ D[i] \in Nat /\ D[i] >= 1 /\ \A o \in Waits(k, b, i) : D[i] >= 1 + D[o]
        /\ D[i] = 1 \/ \E o \in Waits(k, b, i) : D[i] = 1 + D[o]
        /\ \A o \in Waits(k, b, i) : D[o] \in Nat
    BY <2>1, DepthsAreNumbers
  <2>3. \E C \in ChainsTo(k, b, i) : Cardinality(C) = D[i]
    <3>1. CASE D[i] = 1
      <4>1. Cardinality({i}) = 1
        BY FS_Singleton
      <4>2. {i} \in ChainsTo(k, b, i)
        BY DEF ChainsTo, IsChain
      <4> QED
        BY <3>1, <4>1, <4>2
    <3>2. ASSUME NEW o \in Waits(k, b, i), D[i] = 1 + D[o]
          PROVE  \E C \in ChainsTo(k, b, i) : Cardinality(C) = D[i]
      <4>1. PICK C \in ChainsTo(k, b, o) : Cardinality(C) = D[o]
        BY <2>1
      <4>2. C \cup {i} \in ChainsTo(k, b, i) /\ Cardinality(C \cup {i}) = Cardinality(C) + 1
        BY ChainGrows
      <4>3. Cardinality(C \cup {i}) = D[i]
        BY <2>2, <3>2, <4>1, <4>2
      <4> QED
        BY <4>2, <4>3
    <3> QED
      BY <2>2, <3>1, <3>2
  <2>4. ASSUME NEW C \in ChainsTo(k, b, i)
        PROVE  Cardinality(C) \in Nat /\ Cardinality(C) <= D[i]
    <3>1. CASE C = {i}
      <4>1. Cardinality(C) = 1
        BY <3>1, FS_Singleton
      <4> QED
        BY <2>2, <4>1
    <3>2. CASE C # {i}
      <4>1. /\ \E n \in Nat : n = Cardinality(C \ {i}) /\ Cardinality(C) = n + 1
            /\ \E o \in Waits(k, b, i) : C \ {i} \in ChainsTo(k, b, o)
        BY <3>2, ChainIsCut
      <4>2. PICK o \in Waits(k, b, i) : C \ {i} \in ChainsTo(k, b, o)
        BY <4>1
      <4>3. Cardinality(C \ {i}) <= D[o]
        BY <2>1, <4>2
      <4> QED
        BY <2>2, <4>1, <4>3
    <3> QED
      BY <3>1, <3>2
  <2> QED
    BY <2>3, <2>4
<1> HIDE DEF P
<1>2. Insts(k, b) \subseteq P
  BY <1>1, AlongTheBlock
<1> QED
  BY <1>2 DEF P

(* What getILP computes.                                                    *)
LEMMA DepthIs ==
    ASSUME NEW k \in Kernels, NEW b
    PROVE  \E D : /\ IsDepths(k, b, D)
                  /\ Depth(k, b) = Max({D[i] : i \in Insts(k, b)}
                                          \cup (IF Len(k.succ[b]) = 2 THEN {} ELSE {1}))
<1> DEFINE D[i \in Insts(k, b)] ==
               1 + Max({0} \cup {D[o] : o \in {p \in Operands(k, i) \cap Insts(k, b) : Precedes(k, p, i)}})
<1>1. Depth(k, b) = Max({D[i] : i \in Insts(k, b)} \cup (IF Len(k.succ[b]) = 2 THEN {} ELSE {1}))
  BY DEF Depth
<1>2. \E E : E = [i \in Insts(k, b) |->
               1 + Max({0} \cup {E[o] : o \in {p \in Operands(k, i) \cap Insts(k, b) : Precedes(k, p, i)}})]
  BY DepthsExist DEF DepthAfter, Waits
<1>3. D = [i \in Insts(k, b) |->
               1 + Max({0} \cup {D[o] : o \in {p \in Operands(k, i) \cap Insts(k, b) : Precedes(k, p, i)}})]
  BY <1>2
<1> HIDE DEF D
<1>4. IsDepths(k, b, D)
  BY <1>3, Zenon DEF IsDepths, DepthAfter, Waits
<1> QED
  BY <1>1, <1>4

(* The depth of a block is the length of its longest chain, 1 if it has but *)
(* an unconditional branch.                                                 *)
LEMMA DepthIsLongest ==
    ASSUME NEW k \in Kernels, NEW b \in k.blocks
    PROVE  Depth(k, b) = Max({Cardinality(C) : C \in {S \in SUBSET Insts(k, b) : IsChain(k, S)}} \cup {1})
<1> DEFINE chains == {S \in SUBSET Insts(k, b) : IsChain(k, S)}
           N == {Cardinality(C) : C \in chains} \cup {1}
           one == IF Len(k.succ[b]) = 2 THEN {} ELSE {1}
<1>1. PICK D : IsDepths(k, b, D) /\ Depth(k, b) = Max({D[i] : i \in Insts(k, b)} \cup one)
  BY DepthIs
<1> DEFINE M == {D[i] : i \in Insts(k, b)} \cup one
<1>2. \A i \in Insts(k, b) : D[i] \in Nat /\ D[i] >= 1
  BY <1>1, DepthsAreNumbers
<1>3. \A C \in chains : IsFiniteSet(C) /\ Cardinality(C) \in Nat /\ Cardinality(C) <= Cardinality(Insts(k, b))
  BY BlockIsFinite, FS_Subset, FS_CardinalityType
<1>4. M \in SUBSET Int /\ IsFiniteSet(M)
  <2>1. IsFiniteSet({D[i] : i \in Insts(k, b)}) /\ IsFiniteSet(one)
    <3>1. IsFiniteSet({D[i] : i \in Insts(k, b)})
      BY BlockIsFinite, ImageIsFinite
    <3>2. IsFiniteSet(one)
      BY FS_Singleton, FS_EmptySet
    <3> QED
      BY <3>1, <3>2
  <2>2. IsFiniteSet(M)
    <3> HIDE DEF one
    <3> DEFINE A == {D[i] : i \in Insts(k, b)}
    <3>1. IsFiniteSet(A) /\ M = A \cup one
      BY <2>1
    <3> HIDE DEF A, M
    <3> QED
      BY <2>1, <3>1, FS_Union
  <2> QED
    BY <1>2, <2>2
<1>5. M # {}
  <2>1. CASE Len(k.succ[b]) # 2
    BY <2>1
  <2>2. CASE Len(k.succ[b]) = 2
    <3>1. Cardinality({i \in Insts(k, b) : k.kind[i] = "br"}) = 1
      BY <2>2, KernelsAssumption DEF SSA
    <3>2. {i \in Insts(k, b) : k.kind[i] = "br"} # {}
      BY <3>1, FS_EmptySet
    <3> QED
      BY <3>2
  <2> QED
    BY <2>1, <2>2
<1>6. N \in SUBSET Int /\ IsFiniteSet(N) /\ N # {}
  <2>1. Cardinality(Insts(k, b)) \in Nat
    BY BlockIsFinite, FS_CardinalityType
  <2>2. IsFiniteSet(0..Cardinality(Insts(k, b))) /\ {Cardinality(C) : C \in chains} \subseteq 0..Cardinality(Insts(k, b))
    BY <1>3, <2>1, FS_Interval
  <2>3. IsFiniteSet({Cardinality(C) : C \in chains})
    BY <2>2, FS_Subset
  <2>4. IsFiniteSet(N)
    BY <2>3, FS_AddElement
  <2> QED
    BY <1>3, <2>4
<1>7. \A x \in M : \E y \in N : y >= x
  <2>1. ASSUME NEW i \in Insts(k, b) PROVE D[i] \in N
    <3>1. PICK C \in ChainsTo(k, b, i) : Cardinality(C) = D[i]
      BY <1>1, DepthsMeasureChains
    <3>2. C \in chains
      BY DEF ChainsTo
    <3> QED
      BY <3>1, <3>2
  <2>2. \A x \in M : x \in N
    BY <2>1
  <2> HIDE DEF M, N
  <2> QED
    BY <1>6, <2>2
<1>8. \A y \in N : \E x \in M : x >= y
  <2>1. \E x \in M : x >= 1
    BY <1>2, <1>5
  <2>2. ASSUME NEW C \in chains, C # {} PROVE \E x \in M : x >= Cardinality(C)
    <3>1. PICK i \in C : C \in ChainsTo(k, b, i)
      BY <2>2, ChainHasLast
    <3>2. i \in Insts(k, b)
      BY <3>1 DEF ChainsTo
    <3>3. D[i] \in M /\ D[i] >= Cardinality(C)
      BY <1>1, <1>2, <3>1, <3>2, DepthsMeasureChains
    <3> QED
      BY <3>3
  <2>3. ASSUME NEW C \in chains, C = {} PROVE \E x \in M : x >= Cardinality(C)
    <3>1. Cardinality(C) = 0
      BY <2>3, FS_EmptySet
    <3>2. PICK x \in M : x >= 1
      BY <2>1
    <3> QED
      BY <1>4, <3>1, <3>2
  <2> QED
    BY <2>1, <2>2, <2>3
<1> HIDE DEF M, N
<1>9. /\ Max(M) \in M /\ \A x \in M : Max(M) >= x
      /\ Max(N) \in N /\ \A y \in N : Max(N) >= y
  BY <1>4, <1>5, <1>6, MaxIs
<1>10. Max(M) \in Int /\ Max(N) \in Int
  BY <1>4, <1>6, <1>9
<1>11. Max(N) >= Max(M)
  <2>1. PICK y \in N : y >= Max(M)
    BY <1>7, <1>9
  <2> QED
    BY <1>6, <1>9, <1>10, <2>1
<1>12. Max(M) >= Max(N)
  <2>1. PICK x \in M : x >= Max(N)
    BY <1>8, <1>9
  <2> QED
    BY <1>4, <1>9, <1>10, <2>1
<1>13. Max(M) = Max(N)
  BY <1>10, <1>11, <1>12
<1> QED
  BY <1>1, <1>13 DEF M, N

(* getILP: the depth by which the instructions of a block are divided is    *)
(* the length of its longest chain of dependent instructions.               *)
THEOREM DepthsAreLongestChains == Spec => []DepthIsLongestChain
<1>1. ASSUME PlaceInv, CollectorInv PROVE DepthIsLongestChain
  <2> SUFFICES ASSUME pc = "dumped", NEW n \in DOMAIN Listed
               PROVE  collector.blockILP[n].depth
                         = Max({Cardinality(C) : C \in {S \in SUBSET Insts(kernel, Listed[n]) : IsChain(kernel, S)}} \cup {1})
    BY DEF DepthIsLongestChain
  <2>1. kernel \in Kernels /\ Measured = VisitedBlocks
    BY <1>1 DEF PlaceInv, Measured
  <2>2. n \in 1..Cardinality(VisitedBlocks) /\ Listed[n] \in kernel.blocks
    <3>1. DOMAIN Listed = 1..Cardinality(VisitedBlocks) /\ Elems(Listed) = VisitedBlocks
      BY <2>1, VisitedIs, SortedIs DEF Listed
    <3> QED
      BY <2>1, <3>1, VisitedIs DEF Elems
  <2>3. collector.blockILP[n] = DepthOf(n)
    BY <1>1, <2>1, <2>2 DEF CollectorInv
  <2>4. collector.blockILP[n].depth = Depth(kernel, Listed[n])
    BY <2>3 DEF DepthOf
  <2> QED
    BY <2>1, <2>2, <2>4, DepthIsLongest
<1>2. PlaceInv /\ CollectorInv => DepthIsLongestChain
  BY <1>1
<1> QED
  BY <1>2, CollectorIsInvariant, PTL
=============================================================================
