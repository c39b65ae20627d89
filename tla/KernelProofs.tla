----------------------------- MODULE KernelProofs -----------------------------
(****************************************************************************)
(* What the operators of modules Cfg and Kernel are, for every graph and    *)
(* every kernel. Of graphs: ReachAvoid is reachability, the post-dominators *)
(* of a block are a chain, and the parent of a block in the post-dominator  *)
(* tree is the nearest of them; then paths, the order of dominators, loops  *)
(* with one way in and one way out, cycles, what a branch of a structured   *)
(* graph decides about, and where its two ways meet. Of kernels: Dependents *)
(* is the least set closed under dependence, and it grows with the joins    *)
(* that are known; the region of a branch of a structured kernel is entered *)
(* at its header and left at its exiting block only, and two of them are    *)
(* nested or apart.                                                         *)
(****************************************************************************)
EXTENDS Kernel, Closures

----------------------------------------------------------------------------
(* Graphs. *)

(* One round of ReachAvoid. *)
Step(g, A, X) == UNION {({b} \cup Succs(g, b)) \ A : b \in X}

AreSteps(W, g, S, A) ==
    /\ W \in [0..Cardinality(g.blocks) -> SUBSET (g.blocks \ A)]
    /\ W[0] = S \ A
    /\ \A i \in 1..Cardinality(g.blocks) : W[i] = Step(g, A, W[i - 1])
    /\ ReachAvoid(g, S, A) = W[Cardinality(g.blocks)]

LEMMA ReachAvoidInSteps ==
    ASSUME NEW g, IsGraph(g), NEW S \in SUBSET g.blocks, NEW A
    PROVE  \E W : AreSteps(W, g, S, A)
<1> DEFINE n == Cardinality(g.blocks)
           U == g.blocks \ A
           h == [x \in Nat \X SUBSET U |-> Step(g, A, x[2])]
           Within[i \in 0..n] ==
               IF i = 0 THEN S \ A
               ELSE UNION {({b} \cup Succs(g, b)) \ A : b \in Within[i - 1]}
<1>1. n \in Nat
  BY FS_CardinalityType DEF IsGraph
<1>2. ReachAvoid(g, S, A) = Within[n]
  BY DEF ReachAvoid
<1>3. h \in [Nat \X SUBSET U -> SUBSET U]
  <2> SUFFICES ASSUME NEW X \in SUBSET U PROVE Step(g, A, X) \in SUBSET U
    OBVIOUS
  <2> QED
    BY DEF Step, IsGraph
<1>4. S \ A \in SUBSET U
  OBVIOUS
<1>5. PICK W \in [0..n -> SUBSET U] : IsRecursive(W, n, S \ A, h)
  <2> HIDE DEF n, U, h
  <2> QED
    BY <1>1, <1>3, <1>4, RecursiveExists
<1> HIDE DEF n, U, h
<1>6. \A i \in 0..n : W[i] = IF i = 0 THEN S \ A ELSE Step(g, A, W[i - 1])
  <2> SUFFICES ASSUME NEW i \in 0..n PROVE W[i] = IF i = 0 THEN S \ A ELSE Step(g, A, W[i - 1])
    OBVIOUS
  <2>1. W[i] = IF i = 0 THEN S \ A ELSE h[<<i, W[i - 1]>>]
    BY <1>5 DEF IsRecursive
  <2>2. CASE i = 0
    BY <2>1, <2>2
  <2>3. CASE i # 0
    <3>1. i \in Nat /\ i - 1 \in 0..n /\ W[i - 1] \in SUBSET U
      BY <1>1, <1>5, <2>3
    <3>2. h[<<i, W[i - 1]>>] = Step(g, A, W[i - 1])
      BY <3>1 DEF h
    <3> QED
      BY <2>1, <2>3, <3>2
  <2> QED
    BY <2>2, <2>3
<1>7. W = [i \in 0..n |-> IF i = 0 THEN S \ A
                          ELSE UNION {({b} \cup Succs(g, b)) \ A : b \in W[i - 1]}]
  <2>1. W = [i \in 0..n |-> W[i]]
    BY <1>5
  <2> QED
    BY <1>6, <2>1 DEF Step
<1>8. Within = [i \in 0..n |-> IF i = 0 THEN S \ A
                               ELSE UNION {({b} \cup Succs(g, b)) \ A : b \in Within[i - 1]}]
  BY <1>7
<1> HIDE DEF Within
<1>9. Within[0] = S \ A /\ \A i \in 1..n : Within[i] = Step(g, A, Within[i - 1])
  <2>1. 0 \in 0..n
    BY <1>1
  <2>2. Within[0] = S \ A
    BY <1>8, <2>1
  <2>3. ASSUME NEW i \in 1..n PROVE Within[i] = Step(g, A, Within[i - 1])
    <3>1. i \in 0..n /\ i # 0
      BY <1>1
    <3>2. Within[i] = UNION {({b} \cup Succs(g, b)) \ A : b \in Within[i - 1]}
      BY <1>8, <3>1, Zenon
    <3> QED
      BY <3>2, Zenon DEF Step
  <2> QED
    BY <2>2, <2>3
<1> DEFINE T == {m \in Nat : m \in 0..n => Within[m] \in SUBSET U}
<1>10. \A m \in Nat : m \in T
  <2>1. 0 \in T
    BY <1>4, <1>9
  <2>2. ASSUME NEW m \in Nat, m \in T PROVE m + 1 \in T
    <3> SUFFICES ASSUME m + 1 \in 0..n PROVE Within[m + 1] \in SUBSET U
      OBVIOUS
    <3>1. Within[m + 1] = Step(g, A, Within[(m + 1) - 1]) /\ Within[m] \in SUBSET U
      BY <1>1, <1>9, <2>2
    <3> QED
      BY <3>1 DEF Step, IsGraph, U
  <2> HIDE DEF T
  <2> QED
    BY <2>1, <2>2, Induction
<1>11. Within \in [0..n -> SUBSET U]
  BY <1>8, <1>10
<1>12. AreSteps(Within, g, S, A)
  BY <1>2, <1>9, <1>11 DEF n, U, AreSteps
<1> QED
  BY <1>12

RoundOf(g, A) == [X \in SUBSET (g.blocks \ A) |-> Step(g, A, X)]

AreRounds(W, g, S, A) ==
    /\ IsRounds(W, Cardinality(g.blocks), g.blocks \ A, RoundOf(g, A))
    /\ W[0] = S \ A
    /\ ReachAvoid(g, S, A) = W[Cardinality(g.blocks)]

LEMMA ReachAvoidInRounds ==
    ASSUME NEW g, IsGraph(g), NEW S \in SUBSET g.blocks, NEW A
    PROVE  \E W : AreRounds(W, g, S, A)
<1>1. PICK W : AreSteps(W, g, S, A)
  BY ReachAvoidInSteps
<1> DEFINE n == Cardinality(g.blocks)
           U == g.blocks \ A
           h == RoundOf(g, A)
<1>2. n \in Nat /\ IsFiniteSet(U) /\ Cardinality(U) <= n
  BY FS_CardinalityType, FS_Subset DEF IsGraph
<1>3. \A X \in SUBSET U : X \subseteq Step(g, A, X) /\ Step(g, A, X) \in SUBSET U
  BY DEF Step, IsGraph
<1>4. /\ h \in [SUBSET U -> SUBSET U] /\ \A X \in SUBSET U : X \subseteq h[X]
      /\ h[{}] = {} /\ \A X \in SUBSET U : h[X] = Step(g, A, X)
  BY <1>3 DEF RoundOf, Step
<1>5. /\ W \in [0..n -> SUBSET U] /\ W[0] = S \ A
      /\ \A i \in 1..n : W[i] = Step(g, A, W[i - 1])
      /\ ReachAvoid(g, S, A) = W[n]
  BY <1>1 DEF AreSteps
<1> HIDE DEF n, U, h
<1>6. \A i \in 1..n : W[i] = h[W[i - 1]]
  <2> SUFFICES ASSUME NEW i \in 1..n PROVE W[i] = h[W[i - 1]]
    OBVIOUS
  <2>1. W[i - 1] \in SUBSET U
    BY <1>2, <1>5
  <2> QED
    BY <1>4, <1>5, <2>1
<1>7. IsRounds(W, n, U, h)
  BY <1>2, <1>4, <1>5, <1>6 DEF IsRounds
<1> QED
  BY <1>5, <1>7 DEF n, U, h, AreRounds

(* ReachAvoid holds S and, with a block, its successors, but for A; and it  *)
(* is within every set that does.                                           *)
LEMMA ReachAvoidIsClosed ==
    ASSUME NEW g, IsGraph(g), NEW S \in SUBSET g.blocks, NEW A
    PROVE  /\ ReachAvoid(g, S, A) \subseteq g.blocks \ A
           /\ S \ A \subseteq ReachAvoid(g, S, A)
           /\ \A b \in ReachAvoid(g, S, A) : Succs(g, b) \ A \subseteq ReachAvoid(g, S, A)
<1> DEFINE n == Cardinality(g.blocks)
           U == g.blocks \ A
           h == RoundOf(g, A)
<1>0. PICK W : AreRounds(W, g, S, A)
  BY ReachAvoidInRounds
<1>1. IsRounds(W, n, U, h) /\ W[0] = S \ A /\ ReachAvoid(g, S, A) = W[n]
  BY <1>0 DEF AreRounds
<1> HIDE DEF n, U, h
<1>2. h[W[n]] = W[n] /\ W[0] \subseteq W[n]
  BY <1>1, RoundsEnd, RoundsKeep
<1>3. W[n] \in SUBSET U
  BY <1>1 DEF IsRounds
<1>4. h[W[n]] = Step(g, A, W[n])
  BY <1>3 DEF h, RoundOf, U
<1>5. ASSUME NEW b \in W[n] PROVE Succs(g, b) \ A \subseteq W[n]
  <2>1. ({b} \cup Succs(g, b)) \ A \subseteq Step(g, A, W[n])
    BY <1>5 DEF Step
  <2> QED
    BY <1>2, <1>4, <2>1
<1> QED
  BY <1>1, <1>2, <1>3, <1>5 DEF U

LEMMA ReachAvoidIsLeast ==
    ASSUME NEW g, IsGraph(g), NEW S \in SUBSET g.blocks, NEW A,
           NEW T, S \ A \subseteq T,
           \A b \in T : b \in g.blocks \ A => Succs(g, b) \ A \subseteq T
    PROVE  ReachAvoid(g, S, A) \subseteq T
<1> DEFINE n == Cardinality(g.blocks)
           U == g.blocks \ A
           h == RoundOf(g, A)
<1>0. PICK W : AreRounds(W, g, S, A)
  BY ReachAvoidInRounds
<1>1. IsRounds(W, n, U, h) /\ W[0] = S \ A /\ ReachAvoid(g, S, A) = W[n]
  BY <1>0 DEF AreRounds
<1>2. ASSUME NEW X \in SUBSET U, X \subseteq T PROVE h[X] \subseteq T
  BY <1>2 DEF RoundOf, Step
<1> HIDE DEF n, U, h
<1>3. W[n] \subseteq T
  BY <1>1, <1>2, RoundsAreNeeded
<1> QED
  BY <1>1, <1>3

----------------------------------------------------------------------------
(* Post-dominance. *)

(* The blocks that p post-dominates. *)
Doomed(g, p) == {b \in g.blocks : PostDominates(g, p, b)}

(* What holds of them: only p itself may be an exit, or be left.            *)
IsTrap(g, T, p) ==
    /\ T \subseteq g.blocks
    /\ \A b \in T \ {p} : b \notin Exits(g) /\ Succs(g, b) \subseteq T

LEMMA DoomedIsTrap ==
    ASSUME NEW g, IsGraph(g), NEW p
    PROVE  IsTrap(g, Doomed(g, p), p)
<1> SUFFICES ASSUME NEW b \in Doomed(g, p) \ {p}
             PROVE  b \notin Exits(g) /\ \A c \in Succs(g, b) : c \in Doomed(g, p)
  BY DEF IsTrap, Doomed
<1> DEFINE R == ReachAvoid(g, {b}, {p})
<1>1. b \in g.blocks /\ Exits(g) \cap R = {}
  BY DEF Doomed, PostDominates
<1>2. /\ R \subseteq g.blocks \ {p}
      /\ {b} \ {p} \subseteq R
      /\ \A d \in R : Succs(g, d) \ {p} \subseteq R
  <2>1. {b} \in SUBSET g.blocks
    BY <1>1
  <2> HIDE DEF R
  <2> QED
    BY <2>1, ReachAvoidIsClosed DEF R
<1>3. ASSUME NEW c \in Succs(g, b) PROVE c \in Doomed(g, p)
  <2>1. c \in g.blocks
    BY <1>1 DEF IsGraph
  <2>2. ReachAvoid(g, {c}, {p}) \subseteq R
    <3>1. {c} \in SUBSET g.blocks /\ {c} \ {p} \subseteq R
      BY <1>2, <2>1
    <3>2. \A d \in R : d \in g.blocks \ {p} => Succs(g, d) \ {p} \subseteq R
      BY <1>2
    <3> HIDE DEF R
    <3> QED
      BY <3>1, <3>2, ReachAvoidIsLeast
  <2> QED
    BY <1>1, <2>1, <2>2 DEF Doomed, PostDominates
<1> QED
  BY <1>1, <1>2, <1>3

(* And p post-dominates whatever it holds of.                               *)
LEMMA TrapIsDoomed ==
    ASSUME NEW g, IsGraph(g), NEW p, NEW T, IsTrap(g, T, p)
    PROVE  T \subseteq Doomed(g, p)
<1> SUFFICES ASSUME NEW b \in T PROVE Exits(g) \cap ReachAvoid(g, {b}, {p}) = {}
  BY DEF Doomed, PostDominates, IsTrap
<1>1. ReachAvoid(g, {b}, {p}) \subseteq T \ {p}
  <2>1. {b} \in SUBSET g.blocks /\ {b} \ {p} \subseteq T \ {p}
    BY DEF IsTrap
  <2>2. \A d \in T \ {p} : d \in g.blocks \ {p} => Succs(g, d) \ {p} \subseteq T \ {p}
    BY DEF IsTrap
  <2> QED
    BY <2>1, <2>2, ReachAvoidIsLeast
<1> QED
  BY <1>1 DEF IsTrap

(* A set of blocks that is never left holds an exit.                        *)
LEMMA NoClosedTrap ==
    ASSUME NEW g, IsGraph(g), MayReturn(g),
           NEW T \in SUBSET g.blocks, T \cap Exits(g) = {},
           \A b \in T : Succs(g, b) \subseteq T
    PROVE  T = {}
<1> SUFFICES ASSUME NEW b \in T PROVE FALSE
  OBVIOUS
<1>1. ReachAvoid(g, {b}, {}) \subseteq T
  <2>1. {b} \in SUBSET g.blocks /\ {b} \ {} \subseteq T
    OBVIOUS
  <2>2. \A d \in T : d \in g.blocks \ {} => Succs(g, d) \ {} \subseteq T
    OBVIOUS
  <2> QED
    BY <2>1, <2>2, ReachAvoidIsLeast
<1> QED
  BY <1>1 DEF MayReturn

LEMMA PostDominatesItself ==
    ASSUME NEW g, IsGraph(g), NEW p \in g.blocks
    PROVE  PostDominates(g, p, p)
<1>1. IsTrap(g, {p}, p)
  BY DEF IsTrap
<1> QED
  BY <1>1, TrapIsDoomed DEF Doomed

LEMMA PostDominatesTransitively ==
    ASSUME NEW g, IsGraph(g), NEW p, NEW q \in g.blocks, NEW b \in g.blocks,
           PostDominates(g, p, q), PostDominates(g, q, b)
    PROVE  PostDominates(g, p, b)
<1>1. IsTrap(g, Doomed(g, p), p) /\ IsTrap(g, Doomed(g, q), q)
  BY DoomedIsTrap
<1>2. q \in Doomed(g, p) /\ b \in Doomed(g, q)
  BY DEF Doomed
<1>3. IsTrap(g, Doomed(g, p) \cup Doomed(g, q), p)
  BY <1>1, <1>2 DEF IsTrap
<1> QED
  BY <1>2, <1>3, TrapIsDoomed DEF Doomed

LEMMA PostDominatesOneWay ==
    ASSUME NEW g, IsGraph(g), MayReturn(g), NEW p \in g.blocks, NEW q \in g.blocks,
           PostDominates(g, p, q), PostDominates(g, q, p)
    PROVE  p = q
<1> SUFFICES ASSUME p # q PROVE FALSE
  OBVIOUS
<1> DEFINE T == Doomed(g, p) \cup Doomed(g, q)
<1>1. IsTrap(g, Doomed(g, p), p) /\ IsTrap(g, Doomed(g, q), q)
  BY DoomedIsTrap
<1>2. q \in Doomed(g, p) /\ p \in Doomed(g, q)
  BY DEF Doomed
<1>3. T \in SUBSET g.blocks /\ T # {}
  BY <1>2 DEF Doomed
<1>4. \A b \in T : b \notin Exits(g) /\ Succs(g, b) \subseteq T
  BY <1>1, <1>2 DEF IsTrap
<1>5. T \cap Exits(g) = {}
  BY <1>4
<1> HIDE DEF T
<1> QED
  BY <1>3, <1>4, <1>5, NoClosedTrap

(* Of two blocks that post-dominate a third, one post-dominates the other.  *)
LEMMA PostDominatorsAreChain ==
    ASSUME NEW g, IsGraph(g), MayReturn(g),
           NEW p \in g.blocks, NEW q \in g.blocks, NEW b \in g.blocks,
           PostDominates(g, p, b), PostDominates(g, q, b)
    PROVE  PostDominates(g, p, q) \/ PostDominates(g, q, p)
<1> SUFFICES ASSUME ~PostDominates(g, p, q), ~PostDominates(g, q, p) PROVE FALSE
  OBVIOUS
<1> DEFINE T == Doomed(g, p) \cap Doomed(g, q)
<1>1. IsTrap(g, Doomed(g, p), p) /\ IsTrap(g, Doomed(g, q), q)
  BY DoomedIsTrap
<1>2. q \notin T /\ p \notin T /\ b \in T
  BY DEF Doomed
<1>3. T \in SUBSET g.blocks
  BY DEF Doomed
<1>4. \A d \in T : d \notin Exits(g) /\ Succs(g, d) \subseteq T
  BY <1>1, <1>2 DEF IsTrap
<1>5. T \cap Exits(g) = {}
  BY <1>4
<1> HIDE DEF T
<1> QED
  BY <1>2, <1>3, <1>4, <1>5, NoClosedTrap

(* Blocks that all post-dominate some block have a nearest one among them:  *)
(* what the CHOOSEs over the post-dominator tree stand for.                 *)
LEMMA NearestPostDominator ==
    ASSUME NEW g, IsGraph(g), MayReturn(g), NEW b \in g.blocks,
           NEW P \in SUBSET g.blocks, P # {}, \A p \in P : PostDominates(g, p, b)
    PROVE  \E p \in P : \A q \in P : PostDominates(g, q, p)
<1> DEFINE R == {x \in g.blocks \X g.blocks : PostDominates(g, x[2], x[1])}
<1>1. \A x, y \in g.blocks : <<x, y>> \in R <=> PostDominates(g, y, x)
  OBVIOUS
<1>2. IsFiniteSet(P)
  BY FS_Subset DEF IsGraph
<1> HIDE DEF R
<1>3. \A x, y \in P : <<x, y>> \in R \/ <<y, x>> \in R
  BY <1>1, PostDominatorsAreChain
<1>4. \A x, y, z \in P : <<x, y>> \in R /\ <<y, z>> \in R => <<x, z>> \in R
  BY <1>1, PostDominatesTransitively
<1>5. \E x \in P : \A y \in P : <<x, y>> \in R
  BY <1>2, <1>3, <1>4, ChainHasFirst
<1> QED
  BY <1>1, <1>5

(* The parent of b in the post-dominator tree.                              *)
LEMMA ImmPostDomIsNearest ==
    ASSUME NEW g, IsGraph(g), MayReturn(g), NEW b \in g.blocks
    PROVE  \/ /\ ImmPostDom(g, b) = NoBlock
              /\ \A q \in g.blocks \ {b} : ~PostDominates(g, q, b)
           \/ /\ ImmPostDom(g, b) \in g.blocks \ {b}
              /\ PostDominates(g, ImmPostDom(g, b), b)
              /\ \A q \in g.blocks \ {b} :
                    PostDominates(g, q, b) => PostDominates(g, q, ImmPostDom(g, b))
<1> DEFINE P == {p \in g.blocks \ {b} : PostDominates(g, p, b)}
<1>1. CASE P = {}
  BY <1>1 DEF ImmPostDom
<1>2. CASE P # {}
  <2>1. \E p \in P : \A q \in P : PostDominates(g, q, p)
    <3>1. P \in SUBSET g.blocks /\ \A p \in P : PostDominates(g, p, b)
      OBVIOUS
    <3> HIDE DEF P
    <3> QED
      BY <1>2, <3>1, NearestPostDominator
  <2>2. ImmPostDom(g, b) = CHOOSE p \in P : \A q \in P : PostDominates(g, q, p)
    BY <1>2 DEF ImmPostDom
  <2>3. ImmPostDom(g, b) \in P /\ \A q \in P : PostDominates(g, q, ImmPostDom(g, b))
    <3> HIDE DEF P
    <3> QED
      BY <2>1, <2>2
  <2> QED
    BY <2>3
<1> QED
  BY <1>1, <1>2

(* A block that post-dominates another post-dominates what follows that.    *)
LEMMA PostDominatesSuccs ==
    ASSUME NEW g, IsGraph(g), NEW p, NEW b \in g.blocks, b # p, PostDominates(g, p, b),
           NEW c \in Succs(g, b)
    PROVE  PostDominates(g, p, c)
BY DoomedIsTrap DEF IsTrap, Doomed

----------------------------------------------------------------------------
(* Paths. *)

(* What can be reached from a and then from there can be reached.           *)
LEMMA ReachOn ==
    ASSUME NEW g, IsGraph(g), NEW S \in SUBSET g.blocks, NEW A,
           NEW x \in ReachAvoid(g, S, A)
    PROVE  /\ x \in g.blocks \ A
           /\ ReachAvoid(g, {x}, A) \subseteq ReachAvoid(g, S, A)
<1>1. /\ ReachAvoid(g, S, A) \subseteq g.blocks \ A
      /\ \A b \in ReachAvoid(g, S, A) : Succs(g, b) \ A \subseteq ReachAvoid(g, S, A)
  BY ReachAvoidIsClosed
<1>2. {x} \in SUBSET g.blocks /\ {x} \ A \subseteq ReachAvoid(g, S, A)
  BY <1>1
<1> QED
  BY <1>1, <1>2, ReachAvoidIsLeast

LEMMA ReachItself ==
    ASSUME NEW g, IsGraph(g), NEW A, NEW x \in g.blocks \ A
    PROVE  x \in ReachAvoid(g, {x}, A)
<1>1. {x} \in SUBSET g.blocks
  OBVIOUS
<1> QED
  BY <1>1, ReachAvoidIsClosed

LEMMA ReachFrom ==
    ASSUME NEW g, IsGraph(g), NEW S \in SUBSET g.blocks, NEW A, NEW x \in S \ A
    PROVE  ReachAvoid(g, {x}, A) \subseteq ReachAvoid(g, S, A)
BY ReachAvoidIsClosed, ReachOn

(* A step further.                                                          *)
LEMMA ReachNext ==
    ASSUME NEW g, IsGraph(g), NEW S \in SUBSET g.blocks, NEW A,
           NEW x \in ReachAvoid(g, S, A), NEW y \in Succs(g, x) \ A
    PROVE  y \in ReachAvoid(g, S, A)
BY ReachAvoidIsClosed

LEMMA ReachSuccs ==
    ASSUME NEW g, IsGraph(g), NEW A, NEW x \in g.blocks \ A
    PROVE  /\ Succs(g, x) \in SUBSET g.blocks
           /\ ReachAvoid(g, Succs(g, x), A) \subseteq ReachAvoid(g, {x}, A)
<1>1. Succs(g, x) \in SUBSET g.blocks
  BY DEF IsGraph
<1>2. Succs(g, x) \ A \subseteq ReachAvoid(g, {x}, A)
  BY ReachItself, ReachNext
<1> DEFINE R == ReachAvoid(g, {x}, A)
<1>3. \A b \in R : b \in g.blocks \ A => Succs(g, b) \ A \subseteq R
  BY ReachNext
<1>4. Succs(g, x) \ A \subseteq R
  BY <1>2
<1> HIDE DEF R
<1>5. ReachAvoid(g, Succs(g, x), A) \subseteq R
  BY <1>1, <1>3, <1>4, ReachAvoidIsLeast
<1> QED
  BY <1>1, <1>5 DEF R

(* The more is avoided the less is reached.                                 *)
LEMMA ReachLess ==
    ASSUME NEW g, IsGraph(g), NEW S \in SUBSET g.blocks, NEW A, NEW B, A \subseteq B
    PROVE  ReachAvoid(g, S, B) \subseteq ReachAvoid(g, S, A)
<1>1. /\ ReachAvoid(g, S, A) \subseteq g.blocks \ A
      /\ S \ A \subseteq ReachAvoid(g, S, A)
      /\ \A b \in ReachAvoid(g, S, A) : Succs(g, b) \ A \subseteq ReachAvoid(g, S, A)
  BY ReachAvoidIsClosed
<1>2. S \ B \subseteq ReachAvoid(g, S, A)
  BY <1>1
<1>3. \A b \in ReachAvoid(g, S, A) : b \in g.blocks \ B => Succs(g, b) \ B \subseteq ReachAvoid(g, S, A)
  BY <1>1
<1> QED
  BY <1>2, <1>3, ReachAvoidIsLeast

(* A path from S to y passes c or does not.                                 *)
LEMMA ReachPast ==
    ASSUME NEW g, IsGraph(g), NEW S \in SUBSET g.blocks, NEW A, NEW c,
           NEW y \in ReachAvoid(g, S, A)
    PROVE  \/ y \in ReachAvoid(g, S, A \cup {c})
           \/ c \in ReachAvoid(g, S, A) /\ y \in ReachAvoid(g, {c}, A)
<1> DEFINE R == ReachAvoid(g, S, A)
           Q == ReachAvoid(g, S, A \cup {c})
           P == {z \in R : c \in R /\ z \in ReachAvoid(g, {c}, A)}
<1>1. /\ R \subseteq g.blocks \ A /\ S \ A \subseteq R
      /\ \A b \in R : Succs(g, b) \ A \subseteq R
  BY ReachAvoidIsClosed
<1>2. /\ S \ (A \cup {c}) \subseteq Q /\ Q \subseteq g.blocks \ (A \cup {c})
      /\ \A b \in Q : Succs(g, b) \ (A \cup {c}) \subseteq Q
  BY ReachAvoidIsClosed
<1>3. Q \subseteq R
  BY ReachLess
<1>4. c \in R => c \in P
  BY <1>1, ReachItself
<1>5. S \ A \subseteq Q \cup P
  BY <1>1, <1>2, <1>4
<1>6. ASSUME NEW b \in Q \cup P, NEW d \in Succs(g, b) \ A PROVE d \in Q \cup P
  <2>1. CASE b \in Q
    <3> HIDE DEF P, Q, R
    <3> QED
      BY <1>1, <1>2, <1>3, <1>4, <1>6, <2>1
  <2>2. CASE b \in P
    <3>1. c \in R /\ b \in R /\ b \in ReachAvoid(g, {c}, A) /\ {c} \in SUBSET g.blocks
      BY <1>1, <2>2
    <3>2. d \in R
      BY <1>1, <1>6, <3>1
    <3>3. d \in ReachAvoid(g, {c}, A)
      BY <1>6, <3>1, ReachNext
    <3> QED
      BY <3>1, <3>2, <3>3
  <2> QED
    BY <1>6, <2>1, <2>2
<1>7. R \subseteq Q \cup P
  <2> HIDE DEF P, Q
  <2> QED
    BY <1>5, <1>6, ReachAvoidIsLeast
<1> QED
  BY <1>7

(* The first time y is reached it is from a block reached without it.       *)
LEMMA ReachFirst ==
    ASSUME NEW g, IsGraph(g), NEW S \in SUBSET g.blocks, NEW A,
           NEW y \in ReachAvoid(g, S, A) \ S
    PROVE  \E w \in ReachAvoid(g, S, A \cup {y}) : y \in Succs(g, w)
<1> SUFFICES ASSUME \A w \in ReachAvoid(g, S, A \cup {y}) : y \notin Succs(g, w)
             PROVE  FALSE
  OBVIOUS
<1> DEFINE Q == ReachAvoid(g, S, A \cup {y})
<1>1. /\ S \ (A \cup {y}) \subseteq Q /\ Q \subseteq g.blocks \ (A \cup {y})
      /\ \A b \in Q : Succs(g, b) \ (A \cup {y}) \subseteq Q
  BY ReachAvoidIsClosed
<1>2. S \ A \subseteq Q /\ \A b \in Q : Succs(g, b) \ A \subseteq Q
  BY <1>1
<1> HIDE DEF Q
<1>3. ReachAvoid(g, S, A) \subseteq Q
  BY <1>2, ReachAvoidIsLeast
<1> QED
  BY <1>1, <1>3

(* The last time x is left.                                                 *)
LEMMA ReachLast ==
    ASSUME NEW g, IsGraph(g), NEW A, NEW x \in g.blocks,
           NEW y \in ReachAvoid(g, {x}, A) \ {x}
    PROVE  y \in ReachAvoid(g, Succs(g, x), A \cup {x})
<1> DEFINE Q == ReachAvoid(g, Succs(g, x), A \cup {x})
           T == {x} \cup Q
<1>1. {x} \in SUBSET g.blocks /\ Succs(g, x) \in SUBSET g.blocks
  BY DEF IsGraph
<1>2. /\ Succs(g, x) \ (A \cup {x}) \subseteq Q
      /\ \A b \in Q : Succs(g, b) \ (A \cup {x}) \subseteq Q
  BY <1>1, ReachAvoidIsClosed
<1>3. \A b \in T : b \in g.blocks \ A => Succs(g, b) \ A \subseteq T
  <2> HIDE DEF Q
  <2> QED
    BY <1>2
<1>4. {x} \ A \subseteq T
  OBVIOUS
<1> HIDE DEF T
<1>5. ReachAvoid(g, {x}, A) \subseteq T
  BY <1>1, <1>3, <1>4, ReachAvoidIsLeast
<1> QED
  BY <1>5 DEF T

LEMMA ReachOne ==
    ASSUME NEW g, IsGraph(g), NEW S \in SUBSET g.blocks, NEW A,
           NEW y \in ReachAvoid(g, S, A)
    PROVE  \E x \in S \ A : y \in ReachAvoid(g, {x}, A)
<1> DEFINE T == {z \in g.blocks : \E x \in S \ A : z \in ReachAvoid(g, {x}, A)}
<1>1. S \ A \subseteq T
  BY ReachItself
<1>2. ASSUME NEW b \in T, NEW d \in Succs(g, b) \ A PROVE d \in T
  <2>1. PICK x \in S \ A : b \in ReachAvoid(g, {x}, A)
    BY <1>2
  <2>2. {x} \in SUBSET g.blocks /\ d \in g.blocks
    BY <1>2 DEF IsGraph
  <2>3. d \in ReachAvoid(g, {x}, A)
    BY <1>2, <2>1, <2>2, ReachNext
  <2> QED
    BY <2>2, <2>3
<1> HIDE DEF T
<1>3. ReachAvoid(g, S, A) \subseteq T
  BY <1>1, <1>2, ReachAvoidIsLeast
<1> QED
  BY <1>3 DEF T

(* The first step of a path that does not return.                           *)
LEMMA ReachStep ==
    ASSUME NEW g, IsGraph(g), NEW A, NEW x \in g.blocks,
           NEW y \in ReachAvoid(g, {x}, A) \ {x}
    PROVE  \E s \in Succs(g, x) \ (A \cup {x}) : y \in ReachAvoid(g, {s}, A \cup {x})
<1>1. Succs(g, x) \in SUBSET g.blocks
  BY DEF IsGraph
<1>2. y \in ReachAvoid(g, Succs(g, x), A \cup {x})
  BY ReachLast
<1>3. \A S \in SUBSET g.blocks : \A B : \A z \in ReachAvoid(g, S, B) :
         \E s \in S \ B : z \in ReachAvoid(g, {s}, B)
  BY ReachOne
<1> QED
  BY <1>1, <1>2, <1>3, Zenon

(* On the way to y, q comes first or not at all.                            *)
LEMMA ReachEither ==
    ASSUME NEW g, IsGraph(g), NEW A, NEW x \in g.blocks,
           NEW y \in ReachAvoid(g, {x}, A), NEW q, q # y
    PROVE  y \in ReachAvoid(g, {x}, A \cup {q}) \/ q \in ReachAvoid(g, {x}, A \cup {y})
<1> SUFFICES ASSUME y \notin ReachAvoid(g, {x}, A \cup {q})
             PROVE  q \in ReachAvoid(g, {x}, A \cup {y})
  OBVIOUS
<1> DEFINE U == ReachAvoid(g, {x}, A \cup {q})
           V == ReachAvoid(g, {x}, A \cup {y})
<1>0. {x} \in SUBSET g.blocks
  OBVIOUS
<1>1. q \in ReachAvoid(g, {x}, A)
  BY <1>0, ReachPast
<1>2. q \in g.blocks \ A /\ y \in g.blocks \ A
  BY <1>0, <1>1, ReachAvoidIsClosed
<1>3. CASE x = q
  BY <1>2, <1>3, ReachItself
<1>4. CASE x # q
  <2>0. x # y
    BY <1>2, <1>4, ReachItself
  <2>1. PICK w \in U : q \in Succs(g, w)
    BY <1>0, <1>1, <1>4, ReachFirst
  <2>2. /\ {x} \ (A \cup {q}) \subseteq U /\ U \subseteq g.blocks \ (A \cup {q})
        /\ \A b \in U : Succs(g, b) \ (A \cup {q}) \subseteq U
    BY <1>0, ReachAvoidIsClosed
  <2>3. /\ {x} \ (A \cup {y}) \subseteq V
        /\ \A b \in V : Succs(g, b) \ (A \cup {y}) \subseteq V
    BY <1>0, ReachAvoidIsClosed
  <2> HIDE DEF V
  <2> DEFINE T == U \cap V
  <2>4. U \subseteq T
    <3>1. {x} \ (A \cup {q}) \subseteq T
      BY <2>0, <2>2, <2>3
    <3>2. ASSUME NEW b \in T, NEW d \in Succs(g, b) \ (A \cup {q}) PROVE d \in T
      <4>1. d \in U
        BY <2>2, <3>2
      <4> QED
        BY <2>3, <3>2, <4>1
    <3> HIDE DEF T
    <3> QED
      BY <1>0, <3>1, <3>2, ReachAvoidIsLeast
  <2> QED
    BY <1>2, <2>1, <2>3, <2>4 DEF V
<1> QED
  BY <1>3, <1>4

----------------------------------------------------------------------------
(* Dominators. *)

AllReached(g) == ReachAvoid(g, {g.entry}, {}) = g.blocks

LEMMA EntryIsBlock ==
    ASSUME NEW g, IsGraph(g)
    PROVE  g.entry \in g.blocks /\ {g.entry} \in SUBSET g.blocks
BY DEF IsGraph

LEMMA DominatesItself ==
    ASSUME NEW g, IsGraph(g), NEW a
    PROVE  Dominates(g, a, a)
BY EntryIsBlock, ReachAvoidIsClosed DEF Dominates

(* On the way to what a dominates there are, without a, only blocks that a  *)
(* dominates.                                                               *)
LEMMA DominatesBack ==
    ASSUME NEW g, IsGraph(g), NEW a, NEW x \in g.blocks,
           NEW c \in ReachAvoid(g, {x}, {a}), Dominates(g, a, c)
    PROVE  Dominates(g, a, x)
BY EntryIsBlock, ReachOn DEF Dominates

LEMMA DominatesTransitively ==
    ASSUME NEW g, IsGraph(g), NEW a, NEW b, NEW c, Dominates(g, a, b), Dominates(g, b, c)
    PROVE  Dominates(g, a, c)
<1> SUFFICES ASSUME c \in ReachAvoid(g, {g.entry}, {a}) PROVE FALSE
  BY DEF Dominates
<1>1. c \in ReachAvoid(g, {g.entry}, {a} \cup {b})
  BY EntryIsBlock, ReachPast DEF Dominates
<1>2. {b} \subseteq {a} \cup {b}
  OBVIOUS
<1>3. c \in ReachAvoid(g, {g.entry}, {b})
  BY <1>1, <1>2, EntryIsBlock, ReachLess
<1> QED
  BY <1>3 DEF Dominates

LEMMA DominatesOneWay ==
    ASSUME NEW g, IsGraph(g), AllReached(g), NEW a \in g.blocks, NEW b,
           Dominates(g, a, b), Dominates(g, b, a)
    PROVE  a = b
<1> SUFFICES ASSUME a # b PROVE FALSE
  OBVIOUS
<1>1. a \in ReachAvoid(g, {g.entry}, {})
  BY DEF AllReached
<1>2. a \in ReachAvoid(g, {g.entry}, {} \cup {b}) \/ b \in ReachAvoid(g, {g.entry}, {} \cup {a})
  BY <1>1, EntryIsBlock, ReachEither
<1>3. {} \cup {a} = {a} /\ {} \cup {b} = {b}
  OBVIOUS
<1> QED
  BY <1>2, <1>3 DEF Dominates

(* What a dominates is reached from a.                                      *)
LEMMA DominatedIsReached ==
    ASSUME NEW g, IsGraph(g), AllReached(g), NEW a, NEW c \in g.blocks, Dominates(g, a, c)
    PROVE  a \in g.blocks /\ c \in ReachAvoid(g, {a}, {})
<1>1. c \in ReachAvoid(g, {g.entry}, {})
  BY DEF AllReached
<1>2. c \notin ReachAvoid(g, {g.entry}, {} \cup {a})
  <2>1. {} \cup {a} = {a}
    OBVIOUS
  <2> QED
    BY <2>1 DEF Dominates
<1>3. a \in ReachAvoid(g, {g.entry}, {}) /\ c \in ReachAvoid(g, {a}, {})
  BY <1>1, <1>2, EntryIsBlock, ReachPast
<1> QED
  BY <1>3 DEF AllReached

(* Two blocks that dominate a third: one of them is last on some way to it. *)
LEMMA LastOfTwo ==
    ASSUME NEW g, IsGraph(g), AllReached(g), NEW a \in g.blocks, NEW b \in g.blocks, a # b,
           NEW c \in g.blocks, Dominates(g, a, c)
    PROVE  c \in ReachAvoid(g, {a}, {b}) \/ c \in ReachAvoid(g, {b}, {a})
<1> DEFINE P == ReachAvoid(g, {g.entry}, {a, b})
           Q == ReachAvoid(g, {a}, {b})
           R == ReachAvoid(g, {b}, {a})
           T == P \cup Q \cup R
<1>0. {a} \in SUBSET g.blocks /\ {b} \in SUBSET g.blocks
  OBVIOUS
<1>1. {g.entry} \ {a, b} \subseteq P /\ \A z \in P : Succs(g, z) \ {a, b} \subseteq P
  BY EntryIsBlock, ReachAvoidIsClosed
<1>2. a \in Q /\ \A z \in Q : Succs(g, z) \ {b} \subseteq Q
  BY <1>0, ReachAvoidIsClosed
<1>3. b \in R /\ \A z \in R : Succs(g, z) \ {a} \subseteq R
  BY <1>0, ReachAvoidIsClosed
<1>4. P \subseteq ReachAvoid(g, {g.entry}, {a})
  <2>1. {a} \subseteq {a, b}
    OBVIOUS
  <2> QED
    BY <2>1, EntryIsBlock, ReachLess
<1> HIDE DEF P, Q, R
<1>5. {g.entry} \ {} \subseteq T
  BY <1>1, <1>2, <1>3
<1>6. \A z \in T : Succs(g, z) \ {} \subseteq T
  BY <1>1, <1>2, <1>3
<1> HIDE DEF T
<1>7. ReachAvoid(g, {g.entry}, {}) \subseteq T
  BY <1>5, <1>6, EntryIsBlock, ReachAvoidIsLeast
<1>8. c \in T
  BY <1>7 DEF AllReached
<1> QED
  BY <1>4, <1>8 DEF T, Dominates, Q, R

----------------------------------------------------------------------------
(* Loops. *)

(* The loop of header h has the latch l and is left from u to v only.       *)
IsLoop(g, h, l, u, v) ==
    LET L == LoopBlocks(g, h)
    IN  /\ h \in g.blocks /\ Latches(g, h) = {l}
        /\ u \in L /\ v \in g.blocks \ L /\ v \in Succs(g, u)
        /\ \A x \in L : \A y \in Succs(g, x) \ L : x = u /\ y = v
        /\ LoopExitBlock(g, h) = v

LEMMA StructuredIsReached ==
    ASSUME NEW g, Structured(g)
    PROVE  AllReached(g) /\ MayReturn(g)
BY DEF Structured, AllReached

LEMMA OnlyOne ==
    ASSUME NEW S, Cardinality(S) = 1, IsFiniteSet(S)
    PROVE  \E x : S = {x}
BY FS_Singleton

LEMMA LoopHasBounds ==
    ASSUME NEW g, IsGraph(g), Structured(g), NEW h \in g.blocks, IsLoopHeader(g, h)
    PROVE  \E l, u, v : IsLoop(g, h, l, u, v)
<1> DEFINE L == LoopBlocks(g, h)
           edges == {e \in L \X (g.blocks \ L) : e[2] \in Succs(g, e[1])}
<1>1. L \in SUBSET g.blocks
  BY DEF LoopBlocks
<1>2. PICK l : Latches(g, h) = {l}
  <2>1. Cardinality(Latches(g, h)) = 1
    BY DEF Structured
  <2>2. IsFiniteSet(Latches(g, h))
    BY FS_Subset DEF IsGraph, Latches, Preds
  <2> QED
    BY <2>1, <2>2, OnlyOne
<1>3. LoopExitBlock(g, h) # NoBlock
  BY DEF Structured
<1>4. Cardinality(edges) = 1 /\ LoopExitBlock(g, h) = (CHOOSE e \in edges : TRUE)[2]
  BY <1>3 DEF LoopExitBlock, ExitBlock
<1>5. IsFiniteSet(edges)
  <2>1. IsFiniteSet(L) /\ IsFiniteSet(g.blocks \ L)
    BY <1>1, FS_Subset DEF IsGraph
  <2>2. IsFiniteSet(L \X (g.blocks \ L))
    BY <2>1, FS_Product
  <2> QED
    BY <2>2, FS_Subset
<1>6. PICK e : edges = {e}
  BY <1>4, <1>5, OnlyOne
<1>7. e \in L \X (g.blocks \ L) /\ e[2] \in Succs(g, e[1])
  BY <1>6
<1>8. (CHOOSE x \in edges : TRUE) = e
  BY <1>6
<1>9. \A x \in L : \A y \in Succs(g, x) \ L : x = e[1] /\ y = e[2]
  <2> SUFFICES ASSUME NEW x \in L, NEW y \in Succs(g, x) \ L PROVE x = e[1] /\ y = e[2]
    OBVIOUS
  <2>1. y \in g.blocks
    BY <1>1 DEF IsGraph
  <2>2. <<x, y>> \in edges
    BY <2>1
  <2> QED
    BY <1>6, <2>2
<1>10. IsLoop(g, h, l, e[1], e[2])
  <2>1. LoopExitBlock(g, h) = e[2]
    BY <1>4, <1>8
  <2>2. e[1] \in L /\ e[2] \in g.blocks \ L /\ e[2] \in Succs(g, e[1])
    BY <1>7
  <2> HIDE DEF edges
  <2> QED
    BY <1>2, <1>9, <2>1, <2>2 DEF IsLoop
<1> QED
  BY <1>10

(* The blocks of a loop are those from which the latch is reached without   *)
(* the header, and the header.                                              *)
LEMMA LoopIs ==
    ASSUME NEW g, IsGraph(g), NEW h, NEW l, NEW u, NEW v, IsLoop(g, h, l, u, v)
    PROVE  /\ LoopBlocks(g, h) \in SUBSET g.blocks
           /\ \A b \in g.blocks : b \in LoopBlocks(g, h) <=> b = h \/ l \in ReachAvoid(g, {b}, {h})
           /\ \A b \in LoopBlocks(g, h) : Dominates(g, h, b)
           /\ h \in g.blocks /\ l \in g.blocks
           /\ h \in LoopBlocks(g, h) /\ l \in LoopBlocks(g, h) /\ h \in Succs(g, l)
<1>1. l \in g.blocks /\ h \in Succs(g, l) /\ Dominates(g, h, l) /\ Latches(g, h) = {l} /\ h \in g.blocks
  BY DEF IsLoop, Latches, Preds
<1>2. ASSUME NEW b \in g.blocks, l \in ReachAvoid(g, {b}, {h}) PROVE Dominates(g, h, b)
  BY <1>1, <1>2, DominatesBack
<1>3. \A b \in g.blocks : b \in LoopBlocks(g, h) <=> b = h \/ l \in ReachAvoid(g, {b}, {h})
  BY <1>1, <1>2 DEF LoopBlocks
<1>4. LoopBlocks(g, h) \in SUBSET g.blocks
  BY <1>1 DEF LoopBlocks
<1>5. \A b \in LoopBlocks(g, h) : Dominates(g, h, b)
  BY <1>2, <1>3, <1>4, DominatesItself
<1>6. l = h \/ l \in ReachAvoid(g, {l}, {h})
  BY <1>1, ReachItself
<1> QED
  BY <1>1, <1>3, <1>4, <1>5, <1>6

(* The only edge out of it.                                                 *)
LEMMA LoopLeft ==
    ASSUME NEW g, NEW h, NEW l, NEW u, NEW v, IsLoop(g, h, l, u, v)
    PROVE  /\ u \in LoopBlocks(g, h) /\ v \in g.blocks \ LoopBlocks(g, h) /\ v \in Succs(g, u)
           /\ \A x \in LoopBlocks(g, h) : \A y \in Succs(g, x) \ LoopBlocks(g, h) : x = u /\ y = v
           /\ LoopExitBlock(g, h) = v
BY DEF IsLoop

(* It is entered through its header, and the header from the latch.         *)
LEMMA LoopEntered ==
    ASSUME NEW g, IsGraph(g), NEW h, NEW l, NEW u, NEW v, IsLoop(g, h, l, u, v),
           NEW x \in LoopBlocks(g, h), NEW p \in g.blocks, x \in Succs(g, p)
    PROVE  /\ x # h => p \in LoopBlocks(g, h)
           /\ x = h /\ p \in LoopBlocks(g, h) => p = l
<1> USE LoopIs
<1>1. ASSUME x # h, p # h PROVE p \in LoopBlocks(g, h)
  <2>1. p \in ReachAvoid(g, {p}, {h}) /\ {p} \in SUBSET g.blocks
    BY <1>1, ReachItself
  <2>2. x \in ReachAvoid(g, {p}, {h})
    BY <1>1, <2>1, ReachNext
  <2>3. l \in ReachAvoid(g, {x}, {h})
    BY <1>1
  <2>4. l \in ReachAvoid(g, {p}, {h})
    BY <2>1, <2>2, <2>3, ReachOn
  <2> QED
    BY <2>4
<1>2. ASSUME x = h, p \in LoopBlocks(g, h) PROVE p = l
  <2>1. Dominates(g, h, p)
    BY <1>2
  <2>2. p \in Latches(g, h)
    BY <1>2, <2>1 DEF Latches, Preds
  <2> QED
    BY <2>2 DEF IsLoop
<1> QED
  BY <1>1, <1>2

(* A path that enters it passes the header.                                 *)
LEMMA LoopNotEntered ==
    ASSUME NEW g, IsGraph(g), NEW h, NEW l, NEW u, NEW v, IsLoop(g, h, l, u, v),
           NEW S \in SUBSET g.blocks, S \cap LoopBlocks(g, h) \subseteq {h}, NEW A, h \in A
    PROVE  ReachAvoid(g, S, A) \cap LoopBlocks(g, h) = {}
<1> DEFINE T == g.blocks \ LoopBlocks(g, h)
<1>1. S \ A \subseteq T
  OBVIOUS
<1>2. \A b \in T : b \in g.blocks \ A => Succs(g, b) \ A \subseteq T
  BY LoopEntered DEF IsGraph
<1> HIDE DEF T
<1>3. ReachAvoid(g, S, A) \subseteq T
  BY <1>1, <1>2, ReachAvoidIsLeast
<1> QED
  BY <1>3 DEF T

(* Within it the latch is reached without leaving it.                       *)
LEMMA LoopWithin ==
    ASSUME NEW g, IsGraph(g), NEW h, NEW l, NEW u, NEW v, IsLoop(g, h, l, u, v),
           NEW w, NEW y \in LoopBlocks(g, h), w \in g.blocks,
           y \in ReachAvoid(g, {w}, {h}),
           NEW Z, Z \cap LoopBlocks(g, h) \subseteq {h}
    PROVE  y \in ReachAvoid(g, {w}, Z)
<1> DEFINE M == LoopBlocks(g, h) \ {h}
           R == ReachAvoid(g, {w}, Z)
           T == R \cup (g.blocks \ M)
<1>0. {w} \in SUBSET g.blocks
  OBVIOUS
<1>1. {w} \ Z \subseteq R /\ \A b \in R : Succs(g, b) \ Z \subseteq R
  BY <1>0, ReachAvoidIsClosed
<1>2. {w} \ {h} \subseteq T
  BY <1>1
<1>3. ASSUME NEW b \in T, b \in g.blocks \ {h}, NEW d \in Succs(g, b) \ {h} PROVE d \in T
  <2>1. d \in g.blocks
    BY <1>3 DEF IsGraph
  <2>2. CASE b \in R
    <3> HIDE DEF R
    <3> QED
      BY <1>1, <1>3, <2>1, <2>2
  <2>3. CASE b \notin M
    <3> HIDE DEF R
    <3> QED
      BY <1>3, <2>1, <2>3, LoopEntered
  <2> QED
    BY <1>3, <2>2, <2>3
<1> HIDE DEF T
<1>4. ReachAvoid(g, {w}, {h}) \subseteq T
  BY <1>0, <1>2, <1>3, ReachAvoidIsLeast
<1>5. y # h
  BY <1>0, ReachAvoidIsClosed
<1> QED
  BY <1>4, <1>5 DEF T

(* No return is in it: every block has a successor.                         *)
LEMMA LoopHasNoExit ==
    ASSUME NEW g, IsGraph(g), AllReached(g),
           NEW h, NEW l, NEW u, NEW v, IsLoop(g, h, l, u, v)
    PROVE  LoopBlocks(g, h) \cap Exits(g) = {}
<1> SUFFICES ASSUME NEW x \in LoopBlocks(g, h), x \in Exits(g) PROVE FALSE
  OBVIOUS
<1>1. Succs(g, x) = {}
  BY DEF Exits, Succs
<1>2. x # l /\ x \in g.blocks /\ l \in g.blocks
  BY <1>1, LoopIs
<1>3. \E A : l \in ReachAvoid(g, {x}, A)
  <2>1. CASE x = h
    BY <1>2, <2>1, LoopIs, DominatedIsReached
  <2>2. CASE x # h
    BY <1>2, <2>2, LoopIs
  <2> QED
    BY <2>1, <2>2
<1> QED
  BY <1>1, <1>2, <1>3, ReachStep

(* The block it is left from and the one it is left to post-dominate it.    *)
LEMMA LoopPostDominated ==
    ASSUME NEW g, IsGraph(g), AllReached(g),
           NEW h, NEW l, NEW u, NEW v, IsLoop(g, h, l, u, v), NEW x \in LoopBlocks(g, h)
    PROVE  PostDominates(g, u, x) /\ PostDominates(g, v, x)
<1> DEFINE L == LoopBlocks(g, h)
<1>1. L \in SUBSET g.blocks /\ L \cap Exits(g) = {}
  BY LoopIs, LoopHasNoExit
<1>2. /\ v \in g.blocks
      /\ \A b \in L : \A y \in Succs(g, b) \ L : b = u /\ y = v
  BY DEF IsLoop
<1>3. IsTrap(g, L, u)
  <2> HIDE DEF L
  <2> QED
    BY <1>1, <1>2 DEF IsTrap
<1>4. IsTrap(g, L \cup {v}, v)
  <2> HIDE DEF L
  <2> QED
    BY <1>1, <1>2 DEF IsTrap
<1> QED
  BY <1>3, <1>4, TrapIsDoomed DEF Doomed
----------------------------------------------------------------------------
(* More about paths. *)

(* The more blocks one starts from, the more are reached.                   *)
LEMMA ReachMore ==
    ASSUME NEW g, IsGraph(g), NEW S \in SUBSET g.blocks, NEW P, P \subseteq S, NEW A
    PROVE  ReachAvoid(g, P, A) \subseteq ReachAvoid(g, S, A)
<1> DEFINE R == ReachAvoid(g, S, A)
<1>1. S \ A \subseteq R /\ \A b \in R : Succs(g, b) \ A \subseteq R
  BY ReachAvoidIsClosed
<1>2. P \ A \subseteq R /\ P \in SUBSET g.blocks
  BY <1>1
<1> HIDE DEF R
<1>3. ReachAvoid(g, P, A) \subseteq R
  BY <1>1, <1>2, ReachAvoidIsLeast
<1> QED
  BY <1>3 DEF R

(* Nothing is reached from what is to be avoided.                           *)
LEMMA ReachNothing ==
    ASSUME NEW g, IsGraph(g), NEW S \in SUBSET g.blocks, NEW A, S \subseteq A
    PROVE  ReachAvoid(g, S, A) = {}
<1> DEFINE T == {x \in g.blocks : FALSE}
<1>1. S \ A \subseteq T /\ \A b \in T : b \in g.blocks \ A => Succs(g, b) \ A \subseteq T
  OBVIOUS
<1>2. T = {}
  OBVIOUS
<1> HIDE DEF T
<1>3. ReachAvoid(g, S, A) \subseteq T
  BY <1>1, ReachAvoidIsLeast
<1> QED
  BY <1>2, <1>3

(* Before p is passed, p still post-dominates.                              *)
LEMMA PostDominatesOn ==
    ASSUME NEW g, IsGraph(g), NEW S \in SUBSET g.blocks, NEW p,
           \A s \in S : PostDominates(g, p, s),
           NEW A, p \in A, NEW x \in ReachAvoid(g, S, A)
    PROVE  x \in g.blocks /\ PostDominates(g, p, x)
<1> DEFINE T == Doomed(g, p)
<1>1. IsTrap(g, T, p)
  BY DoomedIsTrap
<1>2. S \ A \subseteq T
  BY DEF Doomed
<1> HIDE DEF T
<1>3. \A b \in T : b \in g.blocks \ A => Succs(g, b) \ A \subseteq T
  BY <1>1 DEF IsTrap
<1>4. ReachAvoid(g, S, A) \subseteq T
  BY <1>2, <1>3, ReachAvoidIsLeast
<1> QED
  BY <1>4 DEF T, Doomed

----------------------------------------------------------------------------
(* Several loops. *)

(* A loop whose header is in another loop, and not its header, lies within. *)
LEMMA LoopInside ==
    ASSUME NEW g, IsGraph(g), AllReached(g),
           NEW h, NEW l, NEW u, NEW v, IsLoop(g, h, l, u, v),
           NEW k, NEW m, NEW w, NEW y, IsLoop(g, k, m, w, y),
           k \in LoopBlocks(g, h), k # h
    PROVE  LoopBlocks(g, k) \subseteq LoopBlocks(g, h) \ {h}
<1>1. /\ LoopBlocks(g, h) \in SUBSET g.blocks /\ LoopBlocks(g, k) \in SUBSET g.blocks
      /\ h \in g.blocks /\ k \in g.blocks
  BY LoopIs
<1>2. h \notin LoopBlocks(g, k)
  BY <1>1, LoopIs, DominatesOneWay
<1> SUFFICES ASSUME NEW x \in LoopBlocks(g, k), x # k PROVE x \in LoopBlocks(g, h)
  BY <1>2
<1>3. m \in ReachAvoid(g, {x}, {k}) /\ x \in g.blocks /\ x # h
  BY <1>1, <1>2, LoopIs
<1>4. m \in ReachAvoid(g, {x}, {h})
  <2>1. m \in LoopBlocks(g, k) /\ {h} \cap LoopBlocks(g, k) \subseteq {k}
    BY <1>2, LoopIs
  <2> QED
    BY <1>3, <2>1, LoopWithin
<1>5. k \in ReachAvoid(g, {x}, {h})
  <2>1. k \in Succs(g, m) \ {h} /\ {x} \in SUBSET g.blocks
    BY <1>3, LoopIs
  <2> QED
    BY <1>4, <2>1, ReachNext
<1>6. l \in ReachAvoid(g, {k}, {h})
  BY <1>1, LoopIs
<1>7. l \in ReachAvoid(g, {x}, {h})
  <2>1. {x} \in SUBSET g.blocks
    BY <1>3
  <2> QED
    BY <1>5, <1>6, <2>1, ReachOn
<1> QED
  BY <1>1, <1>3, <1>7, LoopIs

(* Two loops that share a block: the header of one is in the other.         *)
LEMMA LoopsNest ==
    ASSUME NEW g, IsGraph(g), AllReached(g),
           NEW h, NEW l, NEW u, NEW v, IsLoop(g, h, l, u, v),
           NEW k, NEW m, NEW w, NEW y, IsLoop(g, k, m, w, y),
           NEW b \in LoopBlocks(g, h) \cap LoopBlocks(g, k), h # k
    PROVE  k \in LoopBlocks(g, h) \/ h \in LoopBlocks(g, k)
<1>1. b \in g.blocks /\ h \in g.blocks /\ k \in g.blocks
  BY LoopIs
<1>2. Dominates(g, h, b)
  BY LoopIs
<1>3. b \in ReachAvoid(g, {h}, {k}) \/ b \in ReachAvoid(g, {k}, {h})
  BY <1>1, <1>2, LastOfTwo
<1>4. {h} \in SUBSET g.blocks /\ {k} \in SUBSET g.blocks
  BY <1>1
<1>5. CASE b \in ReachAvoid(g, {h}, {k})
  <2>1. b # k /\ ReachAvoid(g, {b}, {k}) \subseteq ReachAvoid(g, {h}, {k})
    BY <1>4, <1>5, ReachOn
  <2>2. m \in ReachAvoid(g, {h}, {k})
    BY <1>1, <2>1, LoopIs
  <2> QED
    BY <1>1, <2>2, LoopIs
<1>6. CASE b \in ReachAvoid(g, {k}, {h})
  <2>1. b # h /\ ReachAvoid(g, {b}, {h}) \subseteq ReachAvoid(g, {k}, {h})
    BY <1>4, <1>6, ReachOn
  <2>2. l \in ReachAvoid(g, {k}, {h})
    BY <1>1, <2>1, LoopIs
  <2> QED
    BY <1>1, <2>2, LoopIs
<1> QED
  BY <1>3, <1>5, <1>6

(* A loop is not left from a loop inside it.                                *)
LEMMA LoopLeftOutside ==
    ASSUME NEW g, IsGraph(g), AllReached(g),
           NEW h, NEW l, NEW u, NEW v, IsLoop(g, h, l, u, v),
           NEW k, NEW m, NEW w, NEW y, IsLoop(g, k, m, w, y),
           k \in LoopBlocks(g, h), k # h
    PROVE  u \notin LoopBlocks(g, k)
<1> SUFFICES ASSUME u \in LoopBlocks(g, k) PROVE FALSE
  OBVIOUS
<1>1. LoopBlocks(g, k) \subseteq LoopBlocks(g, h) \ {h}
  BY LoopInside
<1>2. /\ v \in Succs(g, u) /\ v \in g.blocks \ LoopBlocks(g, h)
      /\ \A a \in LoopBlocks(g, k) : \A b \in Succs(g, a) \ LoopBlocks(g, k) : a = w /\ b = y
  BY LoopLeft
<1>3. y = v /\ v # h
  <2>1. h \in LoopBlocks(g, h)
    BY LoopIs
  <2>2. v \in Succs(g, u) \ LoopBlocks(g, k)
    BY <1>1, <1>2
  <2> QED
    BY <1>2, <2>1, <2>2
<1>4. k \in g.blocks /\ l \in ReachAvoid(g, {k}, {h}) /\ l \in LoopBlocks(g, h)
  BY LoopIs
<1>5. l \notin LoopBlocks(g, k)
  <2>1. h \in Succs(g, l) /\ h \in LoopBlocks(g, h)
    BY LoopIs
  <2> QED
    BY <1>1, <1>2, <1>3, <2>1
<1>6. l \in ReachAvoid(g, {v}, {h})
  <2> DEFINE R == ReachAvoid(g, {v}, {h})
             T == LoopBlocks(g, k) \cup R
  <2>1. {v} \in SUBSET g.blocks /\ {k} \in SUBSET g.blocks
    BY <1>2, <1>4
  <2>2. v \in R /\ \A b \in R : Succs(g, b) \ {h} \subseteq R
    BY <1>3, <2>1, ReachAvoidIsClosed
  <2>3. k \in LoopBlocks(g, k)
    BY LoopIs
  <2> HIDE DEF R
  <2>4. \A b \in T : b \in g.blocks \ {h} => Succs(g, b) \ {h} \subseteq T
    BY <1>2, <1>3, <2>2
  <2>5. {k} \ {h} \subseteq T
    BY <2>3
  <2> HIDE DEF T
  <2>6. ReachAvoid(g, {k}, {h}) \subseteq T
    BY <2>1, <2>4, <2>5, ReachAvoidIsLeast
  <2> QED
    BY <1>4, <1>5, <2>6 DEF T, R
<1> QED
  BY <1>2, <1>6, LoopIs

(* All of a loop is reached from its header without leaving it.             *)
LEMMA LoopFilled ==
    ASSUME NEW g, IsGraph(g), AllReached(g),
           NEW h, NEW l, NEW u, NEW v, IsLoop(g, h, l, u, v),
           NEW x \in LoopBlocks(g, h), NEW Z, Z \cap LoopBlocks(g, h) = {}
    PROVE  x \in ReachAvoid(g, {h}, Z)
<1> DEFINE R == ReachAvoid(g, {h}, Z)
           L == LoopBlocks(g, h)
           T == R \cup (g.blocks \ L)
<1>1. {h} \in SUBSET g.blocks /\ x \in g.blocks /\ h \in L /\ x \in ReachAvoid(g, {h}, {})
  BY LoopIs, DominatedIsReached
<1>2. h \in R /\ \A b \in R : Succs(g, b) \ Z \subseteq R
  <2>1. {h} \ Z \subseteq R
    BY <1>1, ReachAvoidIsClosed
  <2> QED
    BY <1>1, <2>1, ReachAvoidIsClosed
<1> HIDE DEF R
<1>3. ASSUME NEW b \in T, b \in g.blocks, NEW d \in Succs(g, b) PROVE d \in T
  <2>1. d \in g.blocks
    BY <1>3 DEF IsGraph
  <2>2. CASE b \in R
    BY <1>2, <1>3, <2>1, <2>2
  <2>3. CASE b \notin L
    BY <1>2, <1>3, <2>1, <2>3, LoopEntered
  <2> QED
    BY <1>3, <2>2, <2>3
<1>4. {h} \ {} \subseteq T
  BY <1>2
<1> HIDE DEF T
<1>5. ReachAvoid(g, {h}, {}) \subseteq T
  BY <1>1, <1>3, <1>4, ReachAvoidIsLeast
<1> QED
  BY <1>1, <1>5 DEF T, R

(* The innermost loop around a block is within all others around it.        *)
LEMMA LoopForIsInnermost ==
    ASSUME NEW g, IsGraph(g), Structured(g), NEW b \in g.blocks
    PROVE  \/ EnclosingHeaders(g, b) = {} /\ LoopFor(g, b) = NoBlock
           \/ /\ LoopFor(g, b) \in EnclosingHeaders(g, b)
              /\ \A h \in EnclosingHeaders(g, b) :
                    LoopBlocks(g, LoopFor(g, b)) \subseteq LoopBlocks(g, h)
<1> DEFINE H == {h \in g.blocks : IsLoopHeader(g, h) /\ b \in LoopBlocks(g, h)}
           R == {x \in H \X H : LoopBlocks(g, x[1]) \subseteq LoopBlocks(g, x[2])}
<1>1. EnclosingHeaders(g, b) = H
  BY DEF EnclosingHeaders
<1>2. /\ H = {} => LoopFor(g, b) = NoBlock
      /\ H # {} => LoopFor(g, b) =
                       CHOOSE h \in H : \A o \in H : LoopBlocks(g, h) \subseteq LoopBlocks(g, o)
  BY DEF LoopFor
<1>3. CASE H = {}
  BY <1>1, <1>2, <1>3
<1>4. CASE H # {}
  <2>1. \A x, y \in H : <<x, y>> \in R <=> LoopBlocks(g, x) \subseteq LoopBlocks(g, y)
    OBVIOUS
  <2>2. IsFiniteSet(H)
    BY FS_Subset DEF IsGraph
  <2>3. ASSUME NEW x \in H, NEW y \in H
        PROVE  LoopBlocks(g, x) \subseteq LoopBlocks(g, y) \/ LoopBlocks(g, y) \subseteq LoopBlocks(g, x)
    <3>0. AllReached(g) /\ x \in g.blocks /\ y \in g.blocks /\ b \in LoopBlocks(g, x) \cap LoopBlocks(g, y)
      BY StructuredIsReached
    <3>1. PICK l1, u1, v1 : IsLoop(g, x, l1, u1, v1)
      BY LoopHasBounds
    <3>2. PICK l2, u2, v2 : IsLoop(g, y, l2, u2, v2)
      BY LoopHasBounds
    <3>3. x = y \/ y \in LoopBlocks(g, x) \/ x \in LoopBlocks(g, y)
      <4> HIDE DEF H
      <4> QED
        BY <3>0, <3>1, <3>2, LoopsNest
    <3> HIDE DEF H
    <3>4. CASE x = y
      BY <3>4
    <3>5. CASE x # y /\ y \in LoopBlocks(g, x)
      BY <3>0, <3>1, <3>2, <3>5, LoopInside
    <3>6. CASE x # y /\ x \in LoopBlocks(g, y)
      BY <3>0, <3>1, <3>2, <3>6, LoopInside
    <3> QED
      BY <3>3, <3>4, <3>5, <3>6
  <2> HIDE DEF R, H
  <2>4. \A x, y \in H : <<x, y>> \in R \/ <<y, x>> \in R
    BY <2>1, <2>3
  <2>5. \A x, y, z \in H : <<x, y>> \in R /\ <<y, z>> \in R => <<x, z>> \in R
    BY <2>1
  <2>6. \E x \in H : \A y \in H : <<x, y>> \in R
    BY <1>4, <2>2, <2>4, <2>5, ChainHasFirst
  <2>7. \E x \in H : \A y \in H : LoopBlocks(g, x) \subseteq LoopBlocks(g, y)
    BY <2>1, <2>6
  <2> QED
    BY <1>1, <1>2, <1>4, <2>7
<1> QED
  BY <1>3, <1>4

----------------------------------------------------------------------------
(* Cycles. *)

OnCycle(g, c, A) == {x \in g.blocks : x \in ReachAvoid(g, {c}, A) /\ c \in ReachAvoid(g, {x}, A)}

LEMMA ForwardEdges ==
    ASSUME NEW g, IsGraph(g)
    PROVE  /\ IsGraph(WithoutBackEdges(g)) /\ WithoutBackEdges(g).blocks = g.blocks
           /\ \A b \in g.blocks :
                 Succs(WithoutBackEdges(g), b) = {c \in Succs(g, b) : ~Dominates(g, c, b)}
<1> DEFINE f == WithoutBackEdges(g)
<1>1. f.blocks = g.blocks /\ f.entry = g.entry
  BY DEF WithoutBackEdges
<1>2. ASSUME NEW b \in g.blocks PROVE Succs(f, b) = {c \in Succs(g, b) : ~Dominates(g, c, b)}
  <2> DEFINE D == {y \in DOMAIN g.succ[b] : ~Dominates(g, g.succ[b][y], b)}
             r == [x \in D |-> g.succ[b][x]]
  <2>1. f.succ[b] = r
    BY DEF WithoutBackEdges
  <2>2. DOMAIN r = D /\ \A x \in D : r[x] = g.succ[b][x]
    OBVIOUS
  <2> HIDE DEF r, f
  <2>3. Succs(f, b) = {g.succ[b][x] : x \in D}
    BY <2>1, <2>2 DEF Succs
  <2> QED
    BY <2>3 DEF Succs
<1> HIDE DEF f
<1>3. IsGraph(f)
  BY <1>1, <1>2 DEF IsGraph
<1> QED
  BY <1>1, <1>2, <1>3 DEF f

(* Of the blocks of a cycle, one no edge other than a back edge leads to    *)
(* from the cycle.                                                          *)
LEMMA CycleHasFirst ==
    ASSUME NEW g, IsGraph(g), Structured(g), NEW C \in SUBSET g.blocks, C # {}
    PROVE  \E z \in C : \A x \in C : z \in Succs(g, x) => Dominates(g, z, x)
<1> DEFINE f == WithoutBackEdges(g)
           F(z) == ReachAvoid(f, {z}, {})
           R == {e \in C \X C : Cardinality(F(e[1])) >= Cardinality(F(e[2]))}
<1>1. /\ IsGraph(f) /\ f.blocks = g.blocks
      /\ \A b \in g.blocks : Succs(f, b) = {c \in Succs(g, b) : ~Dominates(g, c, b)}
  BY ForwardEdges
<1>2. \A b \in g.blocks : b \notin ReachAvoid(f, Succs(f, b), {})
  BY DEF Structured
<1> HIDE DEF f
<1>3. ASSUME NEW z \in g.blocks PROVE F(z) \subseteq g.blocks /\ z \in F(z)
  BY <1>1, <1>3, ReachAvoidIsClosed, ReachItself
<1>4. \A z \in C : IsFiniteSet(F(z)) /\ Cardinality(F(z)) \in Nat
  BY <1>3, FS_Subset, FS_CardinalityType DEF IsGraph
<1>5. ASSUME NEW x \in C, NEW z \in C, z \in Succs(f, x) PROVE Cardinality(F(z)) < Cardinality(F(x))
  <2>0. x \in f.blocks /\ z \in f.blocks /\ z \notin {} /\ {x} \in SUBSET f.blocks /\ {z} \in SUBSET f.blocks
        /\ Succs(f, x) \in SUBSET f.blocks
    BY <1>1, <1>5 DEF IsGraph
  <2>1. F(z) \subseteq F(x)
    <3>1. z \in F(x)
      BY <1>1, <1>3, <1>5, <2>0, ReachNext
    <3> QED
      BY <1>1, <2>0, <3>1, ReachOn
  <2>2. F(z) \subseteq ReachAvoid(f, Succs(f, x), {})
    BY <1>1, <1>5, <2>0, ReachFrom
  <2>3. x \in F(x) /\ x \notin F(z)
    BY <1>2, <1>3, <2>2
  <2> HIDE DEF F
  <2>4. F(z) # F(x)
    BY <2>3
  <2> QED
    BY <1>4, <2>1, <2>4, FS_Subset
<1>6. \E x \in C : \A y \in C : <<x, y>> \in R
  <2>0. \A x, y \in C : <<x, y>> \in R <=> Cardinality(F(x)) >= Cardinality(F(y))
    OBVIOUS
  <2> HIDE DEF R, F
  <2>1. IsFiniteSet(C)
    BY FS_Subset DEF IsGraph
  <2>2. ASSUME NEW x \in C, NEW y \in C PROVE <<x, y>> \in R \/ <<y, x>> \in R
    <3>1. Cardinality(F(x)) \in Nat /\ Cardinality(F(y)) \in Nat
      BY <1>4
    <3>2. Cardinality(F(x)) >= Cardinality(F(y)) \/ Cardinality(F(y)) >= Cardinality(F(x))
      BY <3>1
    <3> QED
      BY <2>0, <3>2
  <2>3. \A x, y, z \in C : <<x, y>> \in R /\ <<y, z>> \in R => <<x, z>> \in R
    BY <1>4, <2>0
  <2> QED
    BY <2>1, <2>2, <2>3, ChainHasFirst
<1>7. PICK z \in C : \A y \in C : <<z, y>> \in R
  BY <1>6
<1>8. ASSUME NEW x \in C, z \in Succs(g, x), ~Dominates(g, z, x) PROVE FALSE
  <2>1. z \in Succs(f, x)
    BY <1>1, <1>8
  <2>2. Cardinality(F(z)) < Cardinality(F(x)) /\ Cardinality(F(z)) >= Cardinality(F(x))
    BY <1>5, <1>7, <2>1
  <2> HIDE DEF F
  <2> QED
    BY <1>4, <2>2
<1> QED
  BY <1>8

(* Every cycle lies in a loop, whose header and latch are on it.            *)
LEMMA CycleIsInLoop ==
    ASSUME NEW g, IsGraph(g), Structured(g), NEW A,
           NEW c \in g.blocks, c \in ReachAvoid(g, Succs(g, c), A)
    PROVE  \E z \in OnCycle(g, c, A) :
               /\ IsLoopHeader(g, z) /\ z \in g.blocks \ A
               /\ OnCycle(g, c, A) \subseteq LoopBlocks(g, z)
<1> DEFINE C == OnCycle(g, c, A)
<1>1. C \in SUBSET g.blocks /\ Succs(g, c) \in SUBSET g.blocks
  BY DEF OnCycle, IsGraph
<1>2. c \in g.blocks \ A /\ c \in C
  <2>1. c \in g.blocks \ A
    BY <1>1, ReachAvoidIsClosed
  <2> QED
    BY <2>1, ReachItself DEF OnCycle
<1>3. \A x \in C : /\ x \in g.blocks \ A /\ {x} \in SUBSET g.blocks
                   /\ x \in ReachAvoid(g, {c}, A) /\ c \in ReachAvoid(g, {x}, A)
  <2>1. ASSUME NEW x \in C PROVE x \in g.blocks \ A
    <3>1. {c} \in SUBSET g.blocks /\ x \in ReachAvoid(g, {c}, A)
      BY <1>2, <2>1 DEF OnCycle
    <3> QED
      BY <3>1, ReachAvoidIsClosed
  <2> QED
    BY <2>1 DEF OnCycle
<1>4. PICK z \in C : \A x \in C : z \in Succs(g, x) => Dominates(g, z, x)
  <2> HIDE DEF C
  <2> QED
    BY <1>1, <1>2, CycleHasFirst
<1> HIDE DEF C
(* What leads to z on the way from the cycle is on the cycle, hence a latch. *)
<1>5. ASSUME NEW x \in C, NEW w \in ReachAvoid(g, {x}, A), z \in Succs(g, w)
      PROVE  w \in Latches(g, z)
  <2>1. w \in g.blocks \ A /\ {c} \in SUBSET g.blocks /\ {w} \in SUBSET g.blocks
    BY <1>2, <1>3, <1>5, ReachAvoidIsClosed
  <2>2. w \in ReachAvoid(g, {c}, A)
    BY <1>3, <1>5, <2>1, ReachOn
  <2>3. z \in ReachAvoid(g, {w}, A)
    BY <1>3, <1>4, <1>5, <2>1, ReachItself, ReachNext
  <2>4. c \in ReachAvoid(g, {w}, A)
    BY <1>3, <1>4, <2>1, <2>3, ReachOn
  <2>5. w \in C
    BY <2>1, <2>2, <2>4 DEF C, OnCycle
  <2> QED
    BY <1>4, <1>5, <2>1, <2>5 DEF Latches, Preds
<1>6. z \in ReachAvoid(g, Succs(g, z), A)
  <2>1. CASE z = c
    BY <2>1
  <2>2. CASE z # c
    <3>1. /\ Succs(g, z) \in SUBSET g.blocks
          /\ c \in ReachAvoid(g, Succs(g, z), A \cup {z})
      BY <1>2, <1>3, <1>4, <2>2, ReachLast DEF IsGraph
    <3>2. c \in ReachAvoid(g, Succs(g, z), A)
      BY <3>1, ReachLess
    <3>3. z \in ReachAvoid(g, {c}, A)
      BY <1>3, <1>4
    <3> QED
      BY <3>1, <3>2, <3>3, ReachOn
  <2> QED
    BY <2>1, <2>2
<1>7. Latches(g, z) # {}
  <2>0. z \in g.blocks \ A /\ Succs(g, z) \in SUBSET g.blocks /\ {z} \in SUBSET g.blocks
        /\ z \in ReachAvoid(g, {z}, A)
    BY <1>3, <1>4, ReachItself DEF IsGraph
  <2>1. CASE z \in Succs(g, z)
    BY <1>4, <1>5, <2>0, <2>1
  <2>2. CASE z \notin Succs(g, z)
    <3>1. PICK w \in ReachAvoid(g, Succs(g, z), A \cup {z}) : z \in Succs(g, w)
      BY <1>6, <2>0, <2>2, ReachFirst
    <3>2. w \in ReachAvoid(g, Succs(g, z), A)
      BY <2>0, <3>1, ReachLess
    <3>3. w \in ReachAvoid(g, {z}, A)
      BY <2>0, <3>2, ReachSuccs
    <3> QED
      BY <1>4, <1>5, <3>1, <3>3
  <2> QED
    BY <2>1, <2>2
<1>8. PICK l, u, v : IsLoop(g, z, l, u, v)
  BY <1>3, <1>4, <1>7, LoopHasBounds DEF IsLoopHeader
<1>9. ASSUME NEW x \in C PROVE x \in LoopBlocks(g, z)
  <2>0. x \in g.blocks /\ {x} \in SUBSET g.blocks /\ {c} \in SUBSET g.blocks
    BY <1>2, <1>3, <1>9
  <2>1. CASE x = z
    BY <1>8, <2>1, LoopIs
  <2>2. CASE x # z
    <3>1. z \in ReachAvoid(g, {x}, A)
      BY <1>3, <1>4, <1>9, <2>0, ReachOn
    <3>2. PICK w \in ReachAvoid(g, {x}, A \cup {z}) : z \in Succs(g, w)
      BY <2>0, <2>2, <3>1, ReachFirst
    <3>3. w \in ReachAvoid(g, {x}, A) /\ w \in ReachAvoid(g, {x}, {z})
      <4>1. A \subseteq A \cup {z} /\ {z} \subseteq A \cup {z}
        OBVIOUS
      <4> QED
        BY <2>0, <3>2, <4>1, ReachLess
    <3>4. w \in Latches(g, z)
      BY <1>5, <1>9, <3>2, <3>3
    <3>5. w = l
      BY <1>8, <3>4 DEF IsLoop
    <3> QED
      BY <1>8, <2>0, <3>3, <3>5, LoopIs
  <2> QED
    BY <2>1, <2>2
<1> QED
  BY <1>3, <1>4, <1>7, <1>9 DEF C, IsLoopHeader

----------------------------------------------------------------------------
(* Joins of the branches in a loop. *)

(* The immediate post-dominator, where there is one.                        *)
IsJoin(g, b, p) ==
    /\ p = ImmPostDom(g, b) /\ p \in g.blocks \ {b} /\ PostDominates(g, p, b)
    /\ \A q \in g.blocks \ {b} : PostDominates(g, q, b) => PostDominates(g, q, p)

LEMMA JoinIs ==
    ASSUME NEW g, IsGraph(g), MayReturn(g), NEW b \in g.blocks
    PROVE  /\ ImmPostDom(g, b) # NoBlock => IsJoin(g, b, ImmPostDom(g, b))
           /\ (\E q \in g.blocks \ {b} : PostDominates(g, q, b)) => IsJoin(g, b, ImmPostDom(g, b))
<1>1. NoBlock \notin g.blocks
  BY DEF IsGraph
<1> QED
  BY <1>1, ImmPostDomIsNearest DEF IsJoin

(* It lies in every loop around the block but those left from the block.    *)
LEMMA JoinInLoop ==
    ASSUME NEW g, IsGraph(g), Structured(g),
           NEW h, NEW l, NEW u, NEW v, IsLoop(g, h, l, u, v),
           NEW b \in LoopBlocks(g, h)
    PROVE  /\ IsJoin(g, b, ImmPostDom(g, b))
           /\ ImmPostDom(g, b) \in LoopBlocks(g, h) <=> b # u
<1> DEFINE L == LoopBlocks(g, h)
           p == ImmPostDom(g, b)
<1>0. AllReached(g) /\ MayReturn(g)
  BY StructuredIsReached
<1>1. L \in SUBSET g.blocks /\ u \in L /\ v \in g.blocks \ L
      /\ \A x \in L : \A y \in Succs(g, x) \ L : x = u /\ y = v
  <2>1. LoopBlocks(g, h) \in SUBSET g.blocks
    BY LoopIs
  <2> QED
    BY <2>1, LoopLeft
<1>2. \A x \in L : PostDominates(g, u, x) /\ PostDominates(g, v, x)
  BY <1>0, LoopPostDominated
<1>3. IsJoin(g, b, p)
  BY <1>0, <1>1, <1>2, JoinIs
<1> HIDE DEF p, L
<1>4. ASSUME b = u, p \in L PROVE FALSE
  <2>1. PostDominates(g, u, p) /\ PostDominates(g, p, u) /\ p # u /\ p \in g.blocks /\ u \in g.blocks
    BY <1>1, <1>2, <1>3, <1>4 DEF IsJoin
  <2> QED
    BY <1>0, <2>1, PostDominatesOneWay
<1>5. ASSUME b # u, p \notin L PROVE FALSE
  <2>1. u \in g.blocks /\ p \in g.blocks /\ PostDominates(g, u, p) /\ PostDominates(g, p, b)
    BY <1>1, <1>2, <1>3, <1>5 DEF IsJoin, L
  <2>2. ~PostDominates(g, p, u)
    BY <1>0, <1>1, <1>5, <2>1, PostDominatesOneWay
  <2> DEFINE T == Doomed(g, p) \cap L
  <2>3. IsTrap(g, Doomed(g, p), p)
    BY DoomedIsTrap
  <2>4. u \notin T /\ b \in T /\ p \notin T /\ T \in SUBSET g.blocks
    BY <1>1, <1>5, <2>1, <2>2 DEF Doomed, L
  <2>5. \A x \in T : x \notin Exits(g) /\ Succs(g, x) \subseteq T
    BY <1>1, <2>3, <2>4 DEF IsTrap
  <2>6. T \cap Exits(g) = {}
    BY <2>5
  <2> HIDE DEF T
  <2> QED
    BY <1>0, <2>4, <2>5, <2>6, NoClosedTrap
<1> QED
  BY <1>3, <1>4, <1>5 DEF p, L

(* A block with two different successors branches two ways.                 *)
LEMMA TwoWays ==
    ASSUME NEW g, IsGraph(g), Structured(g), NEW b \in g.blocks,
           NEW x \in Succs(g, b), NEW y \in Succs(g, b), x # y
    PROVE  Len(g.succ[b]) = 2 /\ Succs(g, b) = {x, y}
<1>1. g.succ[b] \in Seq(g.blocks) /\ Len(g.succ[b]) <= 2
  BY DEF Structured
<1>2. DOMAIN g.succ[b] = 1..Len(g.succ[b]) /\ Len(g.succ[b]) \in Nat
  BY <1>1
<1>3. PICK i \in DOMAIN g.succ[b] : x = g.succ[b][i]
  BY DEF Succs
<1>4. PICK k \in DOMAIN g.succ[b] : y = g.succ[b][k]
  BY DEF Succs
<1>5. i # k
  BY <1>3, <1>4
<1>6. Len(g.succ[b]) = 2 /\ DOMAIN g.succ[b] = {i, k}
  <2> DEFINE n == Len(g.succ[b])
  <2>1. n \in Nat /\ n <= 2 /\ i \in 1..n /\ k \in 1..n
    BY <1>1, <1>2, <1>3, <1>4
  <2> HIDE DEF n
  <2>2. n = 2
    BY <1>5, <2>1
  <2>3. 1..2 = {1, 2} /\ i \in {1, 2} /\ k \in {1, 2}
    BY <2>1, <2>2
  <2>4. 1..2 = {i, k}
    BY <1>5, <2>3
  <2> QED
    BY <1>2, <2>2, <2>4 DEF n
<1>7. Succs(g, b) = {x, y}
  BY <1>3, <1>4, <1>6 DEF Succs
<1> QED
  BY <1>6, <1>7

(* The block a loop is left from dominates its latch: what the branch there *)
(* decides about includes the rest of the iteration.                        *)
LEMMA LoopLeftBeforeLatch ==
    ASSUME NEW g, IsGraph(g), Structured(g),
           NEW h, NEW l, NEW u, NEW v, IsLoop(g, h, l, u, v)
    PROVE  Dominates(g, u, l)
<1> DEFINE L == LoopBlocks(g, h)
           Z == {ImmPostDom(g, u)} \cup EnclosingHeaders(g, u)
<1>0. AllReached(g) /\ MayReturn(g)
  BY StructuredIsReached
<1>1. /\ L \in SUBSET g.blocks /\ u \in L /\ v \in Succs(g, u) \ L
      /\ h \in L /\ l \in L /\ h \in g.blocks /\ u \in g.blocks
  BY LoopIs, LoopLeft
<1> SUFFICES ASSUME u # l, u # h PROVE Dominates(g, u, l)
  BY <1>1, DominatesItself, LoopIs
<1>2. l \in ReachAvoid(g, {u}, {h}) \ {u}
  BY <1>1, LoopIs
<1>3. PICK s \in Succs(g, u) \ ({h} \cup {u}) : l \in ReachAvoid(g, {s}, {h} \cup {u})
  BY <1>1, <1>2, ReachStep
<1>4. s \in g.blocks /\ {s} \in SUBSET g.blocks /\ l \in ReachAvoid(g, {s}, {h})
  <2>1. s \in g.blocks /\ {s} \in SUBSET g.blocks
    BY <1>1 DEF IsGraph
  <2> QED
    BY <1>3, <2>1, ReachLess
<1>5. s \in L
  BY <1>4, LoopIs
<1>6. Z \cap L \subseteq {h}
  <2>1. ImmPostDom(g, u) \notin L
    BY JoinInLoop, <1>1
  <2>2. ASSUME NEW k \in EnclosingHeaders(g, u), k \in L, k # h PROVE FALSE
    <3>1. k \in g.blocks /\ IsLoopHeader(g, k) /\ u \in LoopBlocks(g, k)
      BY <2>2 DEF EnclosingHeaders
    <3>2. PICK m, w, y : IsLoop(g, k, m, w, y)
      BY <3>1, LoopHasBounds
    <3> QED
      BY <1>0, <2>2, <3>1, <3>2, LoopLeftOutside
  <2> QED
    BY <2>1, <2>2
<1>7. l \in ReachAvoid(g, {s}, Z)
  <2> HIDE DEF Z
  <2> QED
    BY <1>1, <1>4, <1>6, LoopWithin
<1>8. l \in ReachAvoid(g, Succs(g, u), Z)
  <2>1. Succs(g, u) \in SUBSET g.blocks /\ {s} \subseteq Succs(g, u)
    BY <1>1, <1>3 DEF IsGraph
  <2> HIDE DEF Z
  <2> QED
    BY <1>7, <2>1, ReachMore
<1>9. Len(g.succ[u]) = 2
  BY <1>1, <1>3, <1>5, TwoWays
<1> QED
  BY <1>1, <1>8, <1>9 DEF Structured, Decides

(* When a branch in a loop has its join there, and not in the header, the   *)
(* latch comes after the join: the branch decides nothing about whether the *)
(* iteration ends.                                                          *)
LEMMA LatchAfterJoin ==
    ASSUME NEW g, IsGraph(g), Structured(g),
           NEW h, NEW l, NEW u, NEW v, IsLoop(g, h, l, u, v),
           NEW b \in LoopBlocks(g, h), ImmPostDom(g, b) \in LoopBlocks(g, h) \ {h}
    PROVE  l \notin ReachAvoid(g, {b}, {ImmPostDom(g, b)})
<1> DEFINE L == LoopBlocks(g, h)
           p == ImmPostDom(g, b)
<1> SUFFICES ASSUME l \in ReachAvoid(g, {b}, {p}) PROVE FALSE
  OBVIOUS
<1>0. AllReached(g) /\ MayReturn(g)
  BY StructuredIsReached
<1>1. /\ L \in SUBSET g.blocks /\ u \in L /\ h \in L /\ l \in L /\ b \in L /\ h \in Succs(g, l)
      /\ u \in g.blocks /\ h \in g.blocks /\ l \in g.blocks /\ b \in g.blocks
      /\ {b} \in SUBSET g.blocks /\ {h} \in SUBSET g.blocks
      /\ Dominates(g, h, u) /\ Dominates(g, h, b)
  <2>1. /\ L \in SUBSET g.blocks /\ h \in L /\ l \in L /\ h \in Succs(g, l) /\ h \in g.blocks
        /\ \A x \in L : Dominates(g, h, x)
    BY LoopIs
  <2>2. u \in L
    BY LoopLeft
  <2> QED
    BY <2>1, <2>2
<1>2. IsJoin(g, b, p) /\ b # u /\ p \in g.blocks
  BY <1>1, JoinInLoop
<1>3. \A x \in ReachAvoid(g, {b}, {p}) : PostDominates(g, p, x) /\ x # p
  <2>1. \A s \in {b} : PostDominates(g, p, s)
    BY <1>2 DEF IsJoin
  <2>2. p \in {p}
    OBVIOUS
  <2>3. \A x \in ReachAvoid(g, {b}, {p}) : x # p
    BY <1>1, ReachAvoidIsClosed
  <2> HIDE DEF p
  <2> QED
    BY <1>1, <2>1, <2>2, <2>3, PostDominatesOn
<1>4. u \notin ReachAvoid(g, {b}, {p})
  <2>1. PostDominates(g, u, p) /\ p \in LoopBlocks(g, h)
    BY <1>0, LoopPostDominated
  <2> QED
    BY <1>0, <1>1, <1>2, <1>3, <2>1, PostDominatesOneWay
<1> HIDE DEF p
<1>5. l \in ReachAvoid(g, {b}, {u})
  <2>1. l \in ReachAvoid(g, {b}, {p} \cup {u})
    BY <1>1, <1>4, ReachPast
  <2>2. {u} \subseteq {p} \cup {u}
    OBVIOUS
  <2> QED
    BY <1>1, <2>1, <2>2, ReachLess
<1>6. Dominates(g, u, b)
  BY <1>1, <1>5, LoopLeftBeforeLatch, DominatesBack
<1>7. PostDominates(g, p, h)
  BY <1>1, <1>3, PostDominatesSuccs DEF p
<1>8. u # h /\ b # h
  <2>1. PostDominates(g, u, p) /\ p # h
    BY <1>0, LoopPostDominated DEF p
  <2>2. u # h
    BY <1>0, <1>1, <1>2, <1>7, <2>1, PostDominatesOneWay
  <2> QED
    BY <1>0, <1>1, <1>6, <2>2, DominatesOneWay
(* Either the iteration goes on to u, in a loop inside this one ...         *)
<1>9. CASE u \in ReachAvoid(g, {b}, {h})
  <2>1. b \in ReachAvoid(g, {u}, {h})
    <3>1. b \in ReachAvoid(g, {u}, {h}) \/ b \in ReachAvoid(g, {h}, {u})
      BY <1>0, <1>1, <1>6, <1>8, LastOfTwo
    <3>2. ASSUME b \in ReachAvoid(g, {h}, {u}) PROVE FALSE
      <4>1. Dominates(g, u, h)
        BY <1>1, <1>6, <3>2, DominatesBack
      <4> QED
        BY <1>0, <1>1, <1>8, <4>1, DominatesOneWay
    <3> QED
      BY <3>1, <3>2
  <2>2. u \in ReachAvoid(g, Succs(g, u), {h})
    <3>1. Succs(g, u) \in SUBSET g.blocks
      BY <1>1 DEF IsGraph
    <3>2. b \in ReachAvoid(g, Succs(g, u), {h} \cup {u})
      BY <1>1, <1>2, <2>1, ReachLast
    <3>3. b \in ReachAvoid(g, Succs(g, u), {h})
      BY <3>1, <3>2, ReachLess
    <3> QED
      BY <1>9, <3>1, <3>3, ReachOn
  <2>3. PICK z \in OnCycle(g, u, {h}) :
               /\ IsLoopHeader(g, z) /\ z \in g.blocks \ {h}
               /\ OnCycle(g, u, {h}) \subseteq LoopBlocks(g, z)
    BY <1>1, <2>2, CycleIsInLoop
  <2>4. PICK m, w, y : IsLoop(g, z, m, w, y)
    BY <2>3, LoopHasBounds
  <2>5. u \in LoopBlocks(g, z)
    <3>1. u \in OnCycle(g, u, {h})
      BY <1>1, <1>8, ReachItself DEF OnCycle
    <3> QED
      BY <2>3, <3>1
  <2>6. z \in LoopBlocks(g, h) /\ z # h
    <3>1. u \in ReachAvoid(g, {z}, {h}) /\ {z} \in SUBSET g.blocks /\ z # h
      BY <2>3 DEF OnCycle
    <3>2. l \in ReachAvoid(g, {u}, {h})
      BY <1>1, <1>8, LoopIs
    <3>3. l \in ReachAvoid(g, {z}, {h})
      BY <3>1, <3>2, ReachOn
    <3> QED
      BY <3>1, <3>3, LoopIs
  <2> QED
    BY <1>0, <2>4, <2>5, <2>6, LoopLeftOutside
(* ... or it ends in the header, which is the join then.                    *)
<1>10. CASE u \notin ReachAvoid(g, {b}, {h})
  <2> DEFINE R == ReachAvoid(g, {b}, {h})
             T == (R \cap L) \cup {h}
  <2>1. R \subseteq g.blocks /\ b \in R /\ \A x \in R : Succs(g, x) \ {h} \subseteq R
    BY <1>1, <1>8, ReachAvoidIsClosed, ReachItself
  <2>2. \A x \in L : \A y \in Succs(g, x) \ L : x = u
    BY LoopLeft
  <2>3. L \cap Exits(g) = {}
    BY <1>0, LoopHasNoExit
  <2>4. IsTrap(g, T, h)
    <3> HIDE DEF R, L
    <3>1. T \in SUBSET g.blocks
      BY <1>1, <2>1
    <3>2. \A x \in T \ {h} : x \notin Exits(g) /\ Succs(g, x) \subseteq T
      BY <1>1, <1>10, <2>1, <2>2, <2>3 DEF R
    <3> HIDE DEF T
    <3> QED
      BY <3>1, <3>2 DEF IsTrap
  <2>5. PostDominates(g, h, b)
    <3>1. b \in T
      BY <1>1, <2>1
    <3> HIDE DEF T
    <3> QED
      BY <2>4, <3>1, TrapIsDoomed DEF Doomed
  <2>6. PostDominates(g, h, p) /\ p # h
    BY <1>1, <1>2, <1>8, <2>5 DEF IsJoin, p
  <2> QED
    BY <1>0, <1>1, <1>2, <1>7, <2>6, PostDominatesOneWay
<1> QED
  BY <1>9, <1>10

----------------------------------------------------------------------------
(* What a branch decides about. *)

(* The branch at the end of b: b branches two ways and has a join p.        *)
IsBranch(g, b, p) == b \in g.blocks /\ Len(g.succ[b]) = 2 /\ IsJoin(g, b, p)

LEMMA EnclosingAre ==
    ASSUME NEW g, NEW b
    PROVE  /\ EnclosingHeaders(g, b) \in SUBSET g.blocks
           /\ \A h : h \in EnclosingHeaders(g, b) <=>
                         h \in g.blocks /\ IsLoopHeader(g, h) /\ b \in LoopBlocks(g, h)
BY DEF EnclosingHeaders

LEMMA DecidesIs ==
    ASSUME NEW g, IsGraph(g), Structured(g), NEW b, NEW p, IsBranch(g, b, p)
    PROVE  /\ Decides(g, b) = ReachAvoid(g, Succs(g, b), {p} \cup EnclosingHeaders(g, b))
           /\ \A x \in Decides(g, b) :
                 /\ x \in g.blocks /\ x # p /\ x \notin EnclosingHeaders(g, b)
                 /\ Dominates(g, b, x)
                 /\ x \in ReachAvoid(g, {b}, {p})
           /\ b \in ReachAvoid(g, {b}, {p}) /\ Dominates(g, b, b)
<1> DEFINE E == EnclosingHeaders(g, b)
<1>1. Decides(g, b) = ReachAvoid(g, Succs(g, b), {p} \cup E)
  BY DEF Decides, IsBranch, IsJoin
<1>2. b \in g.blocks \ {p} /\ Succs(g, b) \in SUBSET g.blocks /\ Len(g.succ[b]) = 2
  BY DEF IsBranch, IsJoin, IsGraph
<1> HIDE DEF E
<1>3. ASSUME NEW x \in Decides(g, b)
      PROVE  x \in g.blocks /\ x # p /\ x \notin E /\ x \in ReachAvoid(g, {b}, {p})
  <2>1. x \in g.blocks \ ({p} \cup E)
    BY <1>1, <1>2, <1>3, ReachAvoidIsClosed
  <2>2. x \in ReachAvoid(g, Succs(g, b), {p})
    BY <1>1, <1>2, <1>3, ReachLess
  <2> QED
    BY <1>2, <2>1, <2>2, ReachSuccs
<1>4. \A x \in Decides(g, b) : Dominates(g, b, x)
  BY <1>2 DEF Structured
<1>5. b \in ReachAvoid(g, {b}, {p}) /\ Dominates(g, b, b)
  BY <1>2, ReachItself, DominatesItself
<1> QED
  BY <1>1, <1>3, <1>4, <1>5 DEF E

(* The header of a loop around b, when it follows what b decides about, is  *)
(* the join or the branch leaves that loop.                                 *)
LEMMA IterationEnds ==
    ASSUME NEW g, IsGraph(g), Structured(g), NEW b, NEW p, IsBranch(g, b, p),
           NEW x \in {b} \cup Decides(g, b),
           NEW h \in EnclosingHeaders(g, b), h \in Succs(g, x), h # p,
           NEW l, NEW u, NEW v, IsLoop(g, h, l, u, v)
    PROVE  x = l /\ b = u
<1>0. AllReached(g) /\ b \in LoopBlocks(g, h) /\ x \in g.blocks /\ p = ImmPostDom(g, b)
  BY StructuredIsReached, EnclosingAre, DecidesIs DEF IsBranch, IsJoin
<1>1. x = l
  <2>1. Dominates(g, h, x)
    BY <1>0, LoopIs, DecidesIs, DominatesTransitively
  <2>2. x \in Latches(g, h)
    BY <1>0, <2>1 DEF Latches, Preds
  <2> QED
    BY <2>2 DEF IsLoop
<1>2. b = u
  <2> SUFFICES ASSUME b # u PROVE FALSE
    OBVIOUS
  <2>1. ImmPostDom(g, b) \in LoopBlocks(g, h) \ {h}
    BY <1>0, JoinInLoop
  <2>2. l \notin ReachAvoid(g, {b}, {p})
    BY <1>0, <2>1, LatchAfterJoin
  <2> QED
    BY <1>1, <2>2, DecidesIs
<1> QED
  BY <1>1, <1>2

----------------------------------------------------------------------------
(* Where the two ways from a branch meet. *)

(* A loop is entered from one block.                                        *)
LEMMA LoopHasOneEntry ==
    ASSUME NEW g, IsGraph(g), Structured(g), NEW h \in g.blocks, IsLoopHeader(g, h)
    PROVE  \E q : Preds(g, h) \ LoopBlocks(g, h) = {q}
<1> DEFINE P == Preds(g, h) \ LoopBlocks(g, h)
<1>1. LoopPredecessor(g, h) # NoBlock
  BY DEF Structured
<1>2. Cardinality(P) = 1
  BY <1>1 DEF LoopPredecessor
<1>3. IsFiniteSet(P)
  BY FS_Subset DEF IsGraph, Preds
<1> QED
  BY <1>2, <1>3, OnlyOne

(* They do not meet in the header of a loop around b: one that leaves such  *)
(* a loop comes back to it only within a loop around both.                  *)
LEMMA MeetNotAround ==
    ASSUME NEW g, IsGraph(g), Structured(g), NEW b, NEW p, IsBranch(g, b, p),
           NEW j \in g.blocks, j # p, MeetIn(g, b, j)
    PROVE  j # b /\ j \notin EnclosingHeaders(g, b)
<1> DEFINE E == EnclosingHeaders(g, b)
           around == E \ {j}
<1>0. /\ AllReached(g) /\ b \in g.blocks /\ p \in g.blocks /\ p # b
      /\ Succs(g, b) \in SUBSET g.blocks /\ {b} \in SUBSET g.blocks
      /\ Len(g.succ[b]) = 2 /\ g.succ[b] \in Seq(g.blocks)
  BY StructuredIsReached DEF IsBranch, IsJoin, IsGraph, Structured
<1>1. /\ \A s \in Succs(g, b) : j \in ReachAvoid(g, {s}, {b} \cup around)
      /\ \A c \in g.blocks \ {b, j} : j \in ReachAvoid(g, Succs(g, b), {b, c} \cup around)
  BY DEF MeetIn
<1>2. j # b
  <2>1. g.succ[b][1] \in Succs(g, b)
    BY <1>0 DEF Succs
  <2>2. PICK s \in Succs(g, b) : TRUE
    BY <2>1
  <2>3. {s} \in SUBSET g.blocks /\ j \in ReachAvoid(g, {s}, {b} \cup around)
    BY <1>0, <1>1
  <2> HIDE DEF around
  <2> QED
    BY <2>3, ReachAvoidIsClosed
<1> SUFFICES ASSUME j \in E PROVE FALSE
  BY <1>2
<1>3. \A k \in E : k \in g.blocks /\ IsLoopHeader(g, k) /\ b \in LoopBlocks(g, k)
  BY EnclosingAre
<1>4. PICK l, u, v : IsLoop(g, j, l, u, v)
  BY <1>3, LoopHasBounds
<1>5. \E x \in {b} \cup Decides(g, b) : j \in Succs(g, x)
  <2>1. CASE j \in Succs(g, b)
    BY <2>1
  <2>2. CASE j \notin Succs(g, b)
    <3>1. j \in ReachAvoid(g, Succs(g, b), {b, p} \cup around)
      BY <1>0, <1>1, <1>2
    <3>2. {p} \cup E \subseteq ({b, p} \cup around) \cup {j}
      OBVIOUS
    <3>3. Decides(g, b) = ReachAvoid(g, Succs(g, b), {p} \cup E)
      BY DecidesIs
    <3> HIDE DEF E, around
    <3>4. PICK w \in ReachAvoid(g, Succs(g, b), ({b, p} \cup around) \cup {j}) : j \in Succs(g, w)
      BY <1>0, <2>2, <3>1, ReachFirst
    <3>5. w \in Decides(g, b)
      BY <1>0, <3>2, <3>3, <3>4, ReachLess
    <3> QED
      BY <3>4, <3>5
  <2> QED
    BY <2>1, <2>2
<1>6. b = u
  BY <1>4, <1>5, IterationEnds
<1>7. v \in Succs(g, b) /\ v \notin LoopBlocks(g, j) /\ v \in g.blocks /\ {v} \in SUBSET g.blocks
  BY <1>4, <1>6, LoopLeft
<1>8. around \cap LoopBlocks(g, j) = {}
  <2> SUFFICES ASSUME NEW k \in around, k \in LoopBlocks(g, j) PROVE FALSE
    OBVIOUS
  <2>1. k # j /\ k \in g.blocks /\ IsLoopHeader(g, k) /\ b \in LoopBlocks(g, k)
    BY <1>3
  <2>2. PICK m, w, y : IsLoop(g, k, m, w, y)
    BY <2>1, LoopHasBounds
  <2> QED
    BY <1>0, <1>4, <1>6, <2>1, <2>2, LoopLeftOutside
<1>9. b \in ReachAvoid(g, {j}, around)
  <2>1. b \in LoopBlocks(g, j)
    BY <1>3
  <2> HIDE DEF around
  <2> QED
    BY <1>0, <1>4, <1>8, <2>1, LoopFilled
<1>10. b \in ReachAvoid(g, {v}, around)
  <2>1. j \in ReachAvoid(g, {v}, {b} \cup around)
    BY <1>1, <1>7
  <2> HIDE DEF around
  <2>2. j \in ReachAvoid(g, {v}, around)
    BY <1>7, <2>1, ReachLess
  <2> QED
    BY <1>7, <1>9, <2>2, ReachOn
<1>11. b \notin around /\ v \notin around /\ b \in ReachAvoid(g, Succs(g, b), around)
  <2> HIDE DEF around
  <2>1. b \notin around
    BY <1>7, <1>10, ReachAvoidIsClosed
  <2>2. v \notin around
    BY <1>7, <1>10, ReachNothing
  <2>3. {v} \subseteq Succs(g, b)
    BY <1>7
  <2> QED
    BY <1>0, <1>10, <2>1, <2>2, <2>3, ReachMore
<1>12. PICK z \in OnCycle(g, b, around) :
           /\ IsLoopHeader(g, z) /\ z \in g.blocks \ around
           /\ OnCycle(g, b, around) \subseteq LoopBlocks(g, z)
  <2> HIDE DEF around
  <2> QED
    BY <1>0, <1>11, CycleIsInLoop
<1>13. b \in OnCycle(g, b, around) /\ v \in OnCycle(g, b, around)
  <2> HIDE DEF around
  <2>1. b \in ReachAvoid(g, {b}, around)
    BY <1>0, <1>11, ReachItself
  <2>2. v \in ReachAvoid(g, {b}, around)
    BY <1>0, <1>7, <1>11, <2>1, ReachNext
  <2> QED
    BY <1>0, <1>7, <1>10, <2>1, <2>2 DEF OnCycle
<1>14. z = j
  <2>1. z \in E
    BY <1>12, <1>13, EnclosingAre
  <2> QED
    BY <1>12, <2>1
<1> QED
  BY <1>7, <1>12, <1>13, <1>14

(* They meet in a block that b decides about.                               *)
MeetsBelow(g, b, p, j) ==
    /\ IsBranch(g, b, p) /\ j \in g.blocks /\ j \in Decides(g, b) /\ j # b /\ j # p
    /\ j \notin EnclosingHeaders(g, b)
    /\ \A s \in Succs(g, b) : j \in ReachAvoid(g, {s}, {b} \cup EnclosingHeaders(g, b))
    /\ \A c \in g.blocks \ {b, j} :
          j \in ReachAvoid(g, Succs(g, b), {b, c} \cup EnclosingHeaders(g, b))

LEMMA MeetIsBelow ==
    ASSUME NEW g, IsGraph(g), Structured(g), NEW b, NEW p, IsBranch(g, b, p),
           NEW j \in g.blocks, j # p, MeetIn(g, b, j)
    PROVE  MeetsBelow(g, b, p, j)
<1> DEFINE E == EnclosingHeaders(g, b)
<1>1. j # b /\ j \notin E
  BY MeetNotAround
<1>2. E \ {j} = E
  BY <1>1
<1>3. /\ \A s \in Succs(g, b) : j \in ReachAvoid(g, {s}, {b} \cup E)
      /\ \A c \in g.blocks \ {b, j} : j \in ReachAvoid(g, Succs(g, b), {b, c} \cup E)
  BY <1>2 DEF MeetIn
<1>4. p \in g.blocks \ {b, j} /\ Succs(g, b) \in SUBSET g.blocks
  BY DEF IsBranch, IsJoin, IsGraph
<1>5. Decides(g, b) = ReachAvoid(g, Succs(g, b), {p} \cup E)
  BY DecidesIs
<1> HIDE DEF E
<1>6. j \in Decides(g, b)
  <2>1. {p} \cup E \subseteq {b, p} \cup E
    OBVIOUS
  <2>2. j \in ReachAvoid(g, Succs(g, b), {b, p} \cup E)
    BY <1>3, <1>4
  <2> QED
    BY <1>4, <1>5, <2>1, <2>2, ReachLess
<1> QED
  BY <1>1, <1>3, <1>6 DEF MeetsBelow, E

(* Not in a loop that b is not in: its header, or the block that enters it, *)
(* would be on both ways.                                                   *)
LEMMA LoopsOfMeet ==
    ASSUME NEW g, IsGraph(g), Structured(g), NEW b, NEW p, NEW j, MeetsBelow(g, b, p, j),
           NEW z \in g.blocks, IsLoopHeader(g, z), j \in LoopBlocks(g, z)
    PROVE  b \in LoopBlocks(g, z)
<1> SUFFICES ASSUME b \notin LoopBlocks(g, z) PROVE FALSE
  OBVIOUS
<1> DEFINE E == EnclosingHeaders(g, b)
<1>0. /\ AllReached(g) /\ MayReturn(g) /\ IsBranch(g, b, p) /\ b \in g.blocks /\ j \in g.blocks /\ j # b /\ j # p
      /\ p \in g.blocks /\ p # b /\ PostDominates(g, p, b)
      /\ Succs(g, b) \in SUBSET g.blocks
      /\ \A s \in Succs(g, b) : j \in ReachAvoid(g, {s}, {b} \cup E)
      /\ \A c \in g.blocks \ {b, j} : j \in ReachAvoid(g, Succs(g, b), {b, c} \cup E)
  BY StructuredIsReached DEF MeetsBelow, IsBranch, IsJoin, IsGraph
<1>1. PICK l, u, v : IsLoop(g, z, l, u, v)
  BY LoopHasBounds
<1>2. Succs(g, b) \cap LoopBlocks(g, z) \subseteq {z}
  BY <1>0, <1>1, LoopEntered
<1>3. PICK q : Preds(g, z) \ LoopBlocks(g, z) = {q}
  BY LoopHasOneEntry
<1>4. q \in g.blocks /\ q \notin LoopBlocks(g, z) /\ z \in LoopBlocks(g, z)
  BY <1>1, <1>3, LoopIs DEF Preds
<1>5. \A w \in g.blocks : z \in Succs(g, w) => w = q \/ w \in LoopBlocks(g, z)
  BY <1>3 DEF Preds
<1> HIDE DEF E
<1>6. CASE j # z
  <2>1. z \in g.blocks \ {b, j} /\ z \in {b, z} \cup E
    BY <1>4, <1>6
  <2>2. ReachAvoid(g, Succs(g, b), {b, z} \cup E) \cap LoopBlocks(g, z) = {}
    BY <1>0, <1>1, <1>2, <2>1, LoopNotEntered
  <2> QED
    BY <1>0, <2>1, <2>2
<1>7. CASE j = z /\ q # b
  <2> DEFINE A == {b, q} \cup E
  <2>1. j \in ReachAvoid(g, Succs(g, b), A)
    BY <1>0, <1>4, <1>7
  <2>2. j \notin Succs(g, b)
    BY <1>0, <1>5, <1>7
  <2>3. q \in A
    OBVIOUS
  <2> HIDE DEF A
  <2>4. PICK w \in ReachAvoid(g, Succs(g, b), A \cup {j}) : j \in Succs(g, w)
    BY <1>0, <2>1, <2>2, ReachFirst
  <2>5. w \in g.blocks /\ w # q
    BY <1>0, <2>3, <2>4, ReachAvoidIsClosed
  <2>6. w \in LoopBlocks(g, z)
    BY <1>5, <1>7, <2>4, <2>5
  <2>7. z \in A \cup {j}
    BY <1>7
  <2>8. ReachAvoid(g, Succs(g, b), A \cup {j}) \cap LoopBlocks(g, z) = {}
    BY <1>0, <1>1, <1>2, <2>7, LoopNotEntered
  <2> QED
    BY <2>4, <2>6, <2>8
<1>8. CASE j = z /\ q = b
  <2>1. \E s \in Succs(g, b) : s # j
    <3> SUFFICES ASSUME \A s \in Succs(g, b) : s = j PROVE FALSE
      OBVIOUS
    <3>1. j \in Succs(g, b)
      BY <1>3, <1>8 DEF Preds
    <3>2. IsTrap(g, {b, j}, j)
      BY <1>0, <3>1 DEF IsTrap, Exits, Succs
    <3>3. PostDominates(g, j, b)
      BY <3>2, TrapIsDoomed DEF Doomed
    <3>4. PostDominates(g, j, p)
      BY <1>0, <3>3 DEF IsBranch, IsJoin
    <3>5. PostDominates(g, p, j)
      BY <1>0, <3>1, PostDominatesSuccs
    <3> QED
      BY <1>0, <3>4, <3>5, PostDominatesOneWay
  <2>2. PICK s \in Succs(g, b) : s # j
    BY <2>1
  <2> DEFINE A == {b} \cup E
  <2>3. j \in ReachAvoid(g, {s}, A) /\ {s} \in SUBSET g.blocks /\ b \in A
    BY <1>0
  <2> HIDE DEF A
  <2>4. PICK w \in ReachAvoid(g, {s}, A \cup {j}) : j \in Succs(g, w)
    BY <1>0, <2>2, <2>3, ReachFirst
  <2>5. w \in g.blocks /\ w # b
    BY <2>3, <2>4, ReachAvoidIsClosed
  <2>6. w \in LoopBlocks(g, z)
    BY <1>5, <1>8, <2>4, <2>5
  <2>7. z \in A \cup {j} /\ {s} \cap LoopBlocks(g, z) \subseteq {z}
    BY <1>2, <1>8
  <2>8. ReachAvoid(g, {s}, A \cup {j}) \cap LoopBlocks(g, z) = {}
    BY <1>1, <2>3, <2>7, LoopNotEntered
  <2> QED
    BY <2>4, <2>6, <2>8
<1> QED
  BY <1>6, <1>7, <1>8

(* Where what b decides about ends.                                         *)
Limits(g, b, p) == {p} \cup EnclosingHeaders(g, b)

(* From x, which b decides about or which is b, the meeting block can be    *)
(* reached before the join, and avoided.                                    *)
IsOpen(g, b, p, j, x) ==
    /\ x \in {b} \cup Decides(g, b)
    /\ j \in ReachAvoid(g, Succs(g, x), Limits(g, b, p))
    /\ ~PostDominates(g, j, x)

LEMMA OpenBlocks ==
    ASSUME NEW g, IsGraph(g), Structured(g), NEW b, NEW p, NEW j, MeetsBelow(g, b, p, j)
    PROVE  /\ IsOpen(g, b, p, j, b)
           /\ \A x \in {b} \cup Decides(g, b) :
                 /\ x \in g.blocks /\ {x} \in SUBSET g.blocks /\ Succs(g, x) \in SUBSET g.blocks
                 /\ x # b => x \notin Limits(g, b, p)
                 /\ ReachAvoid(g, Succs(g, x), Limits(g, b, p)) \subseteq Decides(g, b)
<1> DEFINE E == EnclosingHeaders(g, b)
           A == Limits(g, b, p)
<1>0. /\ MayReturn(g) /\ IsBranch(g, b, p) /\ b \in g.blocks /\ p \in g.blocks
      /\ j \in g.blocks /\ j \in Decides(g, b) /\ j # b /\ j # p
      /\ Succs(g, b) \in SUBSET g.blocks /\ {b} \in SUBSET g.blocks
  BY StructuredIsReached DEF MeetsBelow, IsBranch, IsJoin, IsGraph
<1>1. /\ Decides(g, b) = ReachAvoid(g, Succs(g, b), A)
      /\ \A x \in Decides(g, b) : x \in g.blocks /\ x \notin A /\ x \in ReachAvoid(g, {b}, {p})
  BY <1>0, DecidesIs DEF Limits
<1> HIDE DEF E, A
<1>2. ~PostDominates(g, j, b)
  <2> SUFFICES ASSUME PostDominates(g, j, b) PROVE FALSE
    OBVIOUS
  <2>1. PostDominates(g, j, p)
    BY <1>0 DEF IsBranch, IsJoin
  <2>2. PostDominates(g, p, j)
    <3>1. p \in {p} /\ \A s \in {b} : PostDominates(g, p, s)
      BY <1>0 DEF IsBranch, IsJoin
    <3> QED
      BY <1>0, <1>1, <3>1, PostDominatesOn
  <2> QED
    BY <1>0, <2>1, <2>2, PostDominatesOneWay
<1>3. IsOpen(g, b, p, j, b)
  BY <1>0, <1>1, <1>2 DEF IsOpen, A, E
<1>4. ASSUME NEW x \in {b} \cup Decides(g, b)
      PROVE  /\ x \in g.blocks /\ {x} \in SUBSET g.blocks /\ Succs(g, x) \in SUBSET g.blocks
             /\ x # b => x \notin A
             /\ ReachAvoid(g, Succs(g, x), A) \subseteq Decides(g, b)
  <2>1. x \in g.blocks /\ {x} \in SUBSET g.blocks /\ Succs(g, x) \in SUBSET g.blocks
    BY <1>0, <1>1 DEF IsGraph
  <2>2. CASE x = b
    BY <1>1, <2>1, <2>2
  <2>3. CASE x \in Decides(g, b)
    <3>1. x \in g.blocks \ A
      BY <1>1, <2>3
    <3>2. ReachAvoid(g, Succs(g, x), A) \subseteq ReachAvoid(g, {x}, A)
      BY <3>1, ReachSuccs
    <3>3. ReachAvoid(g, {x}, A) \subseteq ReachAvoid(g, Succs(g, b), A)
      BY <1>0, <1>1, <2>3, ReachOn
    <3> QED
      BY <1>1, <2>1, <3>1, <3>2, <3>3
  <2> QED
    BY <1>4, <2>2, <2>3
<1> QED
  BY <1>3, <1>4 DEF A, E

(* What such a block leads to, before the join.                             *)
LEMMA OpenNext ==
    ASSUME NEW g, IsGraph(g), Structured(g), NEW b, NEW p, NEW j, MeetsBelow(g, b, p, j),
           NEW x, IsOpen(g, b, p, j, x),
           NEW y \in ReachAvoid(g, Succs(g, x), Limits(g, b, p)),
           j \in ReachAvoid(g, {y}, Limits(g, b, p)), ~PostDominates(g, j, y)
    PROVE  /\ IsOpen(g, b, p, j, y) /\ y \in g.blocks \ Limits(g, b, p)
           /\ ReachAvoid(g, Succs(g, y), Limits(g, b, p)) \subseteq ReachAvoid(g, {y}, Limits(g, b, p))
           /\ ReachAvoid(g, {y}, Limits(g, b, p)) \subseteq ReachAvoid(g, Succs(g, x), Limits(g, b, p))
<1> DEFINE A == Limits(g, b, p)
<1>1. x \in {b} \cup Decides(g, b)
  BY DEF IsOpen
<1>2. Succs(g, x) \in SUBSET g.blocks /\ y \in Decides(g, b)
  BY <1>1, OpenBlocks
<1>3. y \in g.blocks \ A /\ {y} \in SUBSET g.blocks
  BY <1>2, ReachAvoidIsClosed
<1>4. /\ ReachAvoid(g, Succs(g, y), A) \subseteq ReachAvoid(g, {y}, A)
      /\ ReachAvoid(g, {y}, A) \subseteq ReachAvoid(g, Succs(g, x), A)
  <2>1. ReachAvoid(g, Succs(g, y), A) \subseteq ReachAvoid(g, {y}, A)
    BY <1>3, ReachSuccs
  <2>2. ReachAvoid(g, {y}, A) \subseteq ReachAvoid(g, Succs(g, x), A)
    BY <1>2, ReachOn
  <2> QED
    BY <2>1, <2>2
<1>5. j \in ReachAvoid(g, Succs(g, y), A)
  <2>1. j # y /\ j \in g.blocks /\ Succs(g, y) \in SUBSET g.blocks
    BY <1>3, PostDominatesItself DEF MeetsBelow, IsGraph
  <2>2. j \in ReachAvoid(g, Succs(g, y), A \cup {y})
    BY <1>3, <2>1, ReachLast
  <2> QED
    BY <2>1, <2>2, ReachLess
<1> QED
  BY <1>2, <1>3, <1>4, <1>5 DEF IsOpen

(* A loop that b is not in is left for such a block, if it holds one.       *)
LEMMA LoopLeftOpen ==
    ASSUME NEW g, IsGraph(g), Structured(g), NEW b, NEW p, NEW j, MeetsBelow(g, b, p, j),
           NEW x, IsOpen(g, b, p, j, x),
           NEW z \in g.blocks, IsLoopHeader(g, z), x \in LoopBlocks(g, z), b \notin LoopBlocks(g, z)
    PROVE  \E v \in ReachAvoid(g, Succs(g, x), Limits(g, b, p)) :
              /\ v \notin LoopBlocks(g, z)
              /\ j \in ReachAvoid(g, {v}, Limits(g, b, p)) /\ ~PostDominates(g, j, v)
<1> DEFINE A == Limits(g, b, p)
<1>1. PICK l, u, v : IsLoop(g, z, l, u, v)
  BY LoopHasBounds
<1>2. v \notin LoopBlocks(g, z) /\ v \in g.blocks
      /\ \A a \in LoopBlocks(g, z) : \A y \in Succs(g, a) \ LoopBlocks(g, z) : y = v
  BY <1>1, LoopLeft
<1>3. /\ AllReached(g) /\ x \in Decides(g, b) /\ x # b /\ x \in g.blocks \ A /\ {x} \in SUBSET g.blocks
      /\ Succs(g, x) \in SUBSET g.blocks /\ j \in g.blocks
  BY OpenBlocks, StructuredIsReached DEF IsOpen, MeetsBelow
<1>4. j \notin LoopBlocks(g, z)
  BY LoopsOfMeet
<1>5. j \in ReachAvoid(g, {x}, A)
  <2>1. j \in ReachAvoid(g, Succs(g, x), A)
    BY DEF IsOpen
  <2> QED
    BY <1>3, <2>1, ReachSuccs
<1>6. ReachAvoid(g, {x}, A \cup {v}) \subseteq LoopBlocks(g, z)
  <2>1. {x} \ (A \cup {v}) \subseteq LoopBlocks(g, z)
    OBVIOUS
  <2>2. \A a \in LoopBlocks(g, z) : a \in g.blocks \ (A \cup {v})
            => Succs(g, a) \ (A \cup {v}) \subseteq LoopBlocks(g, z)
    BY <1>2
  <2> QED
    BY <1>3, <2>1, <2>2, ReachAvoidIsLeast
<1>7. v \in ReachAvoid(g, {x}, A) /\ j \in ReachAvoid(g, {v}, A)
  BY <1>3, <1>4, <1>5, <1>6, ReachPast
<1>8. v \in ReachAvoid(g, Succs(g, x), A)
  <2>1. v \in ReachAvoid(g, Succs(g, x), A \cup {x})
    BY <1>2, <1>3, <1>7, ReachLast
  <2> QED
    BY <1>3, <2>1, ReachLess
<1>9. ~PostDominates(g, j, v)
  <2>1. PostDominates(g, v, x)
    BY <1>1, <1>3, LoopPostDominated
  <2>2. ~PostDominates(g, j, x)
    BY DEF IsOpen
  <2> QED
    BY <1>2, <1>3, <2>1, <2>2, PostDominatesTransitively
<1> QED
  BY <1>2, <1>7, <1>8, <1>9

(* One of them is last: from there it is decided whether j is met.          *)
LEMMA LastOpen ==
    ASSUME NEW g, IsGraph(g), Structured(g), NEW b, NEW p, NEW j, MeetsBelow(g, b, p, j)
    PROVE  \E x : /\ IsOpen(g, b, p, j, x)
                  /\ \A y \in Succs(g, x) \ Limits(g, b, p) :
                        j \in ReachAvoid(g, {y}, Limits(g, b, p)) => PostDominates(g, j, y)
                  /\ \A z \in g.blocks : IsLoopHeader(g, z) /\ x \in LoopBlocks(g, z)
                                            => b \in LoopBlocks(g, z)
<1> DEFINE A == Limits(g, b, p)
           Q == {x \in g.blocks : IsOpen(g, b, p, j, x)}
           M(x) == Q \cap ({x} \cup ReachAvoid(g, Succs(g, x), A))
           R == {e \in Q \X Q : Cardinality(M(e[1])) <= Cardinality(M(e[2]))}
<1>0. \A x \in Q : /\ IsOpen(g, b, p, j, x) /\ x \in {b} \cup Decides(g, b)
                   /\ x \in g.blocks /\ {x} \in SUBSET g.blocks /\ Succs(g, x) \in SUBSET g.blocks
                   /\ x # b => x \notin A
  BY OpenBlocks DEF IsOpen
<1>1. b \in Q
  BY OpenBlocks
<1>2. IsFiniteSet(Q) /\ \A x \in Q : IsFiniteSet(M(x)) /\ Cardinality(M(x)) \in Nat
  <2>1. IsFiniteSet(Q)
    BY FS_Subset DEF IsGraph
  <2>2. \A x \in Q : M(x) \subseteq Q
    OBVIOUS
  <2> HIDE DEF Q, M
  <2> QED
    BY <2>1, <2>2, FS_Subset, FS_CardinalityType
<1>3. \E x \in Q : \A y \in Q : <<x, y>> \in R
  <2>0. \A x, y \in Q : <<x, y>> \in R <=> Cardinality(M(x)) <= Cardinality(M(y))
    OBVIOUS
  <2> HIDE DEF R, M, Q
  <2>1. ASSUME NEW x \in Q, NEW y \in Q PROVE <<x, y>> \in R \/ <<y, x>> \in R
    <3>1. Cardinality(M(x)) \in Nat /\ Cardinality(M(y)) \in Nat
      BY <1>2
    <3>2. Cardinality(M(x)) <= Cardinality(M(y)) \/ Cardinality(M(y)) <= Cardinality(M(x))
      BY <3>1
    <3> QED
      BY <2>0, <3>2
  <2>2. \A x, y, z \in Q : <<x, y>> \in R /\ <<y, z>> \in R => <<x, z>> \in R
    BY <1>2, <2>0
  <2> QED
    BY <1>1, <1>2, <2>1, <2>2, ChainHasFirst
<1>4. PICK x \in Q : \A y \in Q : Cardinality(M(x)) <= Cardinality(M(y))
  BY <1>3
<1>5. IsOpen(g, b, p, j, x)
  OBVIOUS
<1> DEFINE S == ReachAvoid(g, Succs(g, x), A)
<1>6. \A y \in S : j \in ReachAvoid(g, {y}, A) /\ ~PostDominates(g, j, y) =>
          /\ IsOpen(g, b, p, j, y) /\ y \in g.blocks \ A
          /\ ReachAvoid(g, Succs(g, y), A) \subseteq ReachAvoid(g, {y}, A)
          /\ ReachAvoid(g, {y}, A) \subseteq S
  <2> SUFFICES ASSUME NEW y \in ReachAvoid(g, Succs(g, x), A),
                      j \in ReachAvoid(g, {y}, A), ~PostDominates(g, j, y)
               PROVE  /\ IsOpen(g, b, p, j, y) /\ y \in g.blocks \ A
                      /\ ReachAvoid(g, Succs(g, y), A) \subseteq ReachAvoid(g, {y}, A)
                      /\ ReachAvoid(g, {y}, A) \subseteq ReachAvoid(g, Succs(g, x), A)
    OBVIOUS
  <2> HIDE DEF Q, M, R
  <2> QED
    BY <1>5, OpenNext
(* Nothing after x is open and never comes back to x.                       *)
<1>7. ASSUME NEW y \in S, j \in ReachAvoid(g, {y}, A), ~PostDominates(g, j, y),
             y # x, x \notin ReachAvoid(g, Succs(g, y), A)
      PROVE  FALSE
  <2>1. /\ IsOpen(g, b, p, j, y) /\ y \in g.blocks \ A
        /\ ReachAvoid(g, Succs(g, y), A) \subseteq ReachAvoid(g, {y}, A)
        /\ ReachAvoid(g, {y}, A) \subseteq S
    BY <1>7, <1>6
  <2>2. y \in Q
    BY <2>1
  <2>3. M(y) \subseteq M(x) /\ x \in M(x) /\ x \notin M(y)
    <3> HIDE DEF Q, S
    <3> QED
      BY <1>7, <2>1, <2>2 DEF S
  <2>4. Cardinality(M(y)) < Cardinality(M(x))
    <3> HIDE DEF M, Q
    <3>1. M(y) # M(x)
      BY <2>3
    <3> QED
      BY <1>2, <2>2, <2>3, <3>1, FS_Subset
  <2>5. Cardinality(M(x)) <= Cardinality(M(y))
    BY <1>4, <2>2
  <2> HIDE DEF M, Q
  <2> QED
    BY <1>2, <2>2, <2>4, <2>5
<1> HIDE DEF Q, M, R
<1>8. x \notin S
  <2> SUFFICES ASSUME x \in S PROVE FALSE
    OBVIOUS
  <2>1. PICK z \in OnCycle(g, x, A) :
               /\ IsLoopHeader(g, z) /\ z \in g.blocks \ A
               /\ OnCycle(g, x, A) \subseteq LoopBlocks(g, z)
    BY <1>0, CycleIsInLoop
  <2>2. x \in g.blocks \ A
    BY <1>0, ReachAvoidIsClosed
  <2>3. x \in LoopBlocks(g, z)
    <3>1. x \in OnCycle(g, x, A)
      BY <2>2, ReachItself DEF OnCycle
    <3> QED
      BY <2>1, <3>1
  <2>4. b \notin LoopBlocks(g, z)
    BY <2>1, EnclosingAre DEF Limits
  <2>5. PICK v \in S : /\ v \notin LoopBlocks(g, z)
                       /\ j \in ReachAvoid(g, {v}, A) /\ ~PostDominates(g, j, v)
    BY <1>5, <2>1, <2>3, <2>4, LoopLeftOpen
  <2>6. x \notin ReachAvoid(g, Succs(g, v), A)
    <3> SUFFICES ASSUME x \in ReachAvoid(g, Succs(g, v), A) PROVE FALSE
      OBVIOUS
    <3>1. v \in g.blocks \ A /\ ReachAvoid(g, Succs(g, v), A) \subseteq ReachAvoid(g, {v}, A)
      BY <1>6, <2>5
    <3>2. v \in ReachAvoid(g, {x}, A)
      BY <2>2, <2>5, ReachSuccs
    <3>3. v \in OnCycle(g, x, A)
      BY <3>1, <3>2 DEF OnCycle
    <3> QED
      BY <2>1, <2>5, <3>3
  <2> QED
    BY <1>7, <2>3, <2>5, <2>6
<1>9. ASSUME NEW y \in Succs(g, x) \ A, j \in ReachAvoid(g, {y}, A) PROVE PostDominates(g, j, y)
  <2> SUFFICES ASSUME ~PostDominates(g, j, y) PROVE FALSE
    OBVIOUS
  <2>1. y \in S
    BY <1>0, <1>9, ReachAvoidIsClosed
  <2>2. ReachAvoid(g, Succs(g, y), A) \subseteq S
    BY <1>9, <1>6, <2>1
  <2> QED
    BY <1>7, <1>8, <1>9, <2>1, <2>2
<1>10. ASSUME NEW z \in g.blocks, IsLoopHeader(g, z), x \in LoopBlocks(g, z), b \notin LoopBlocks(g, z)
      PROVE  FALSE
  <2>1. PICK v \in S : /\ v \notin LoopBlocks(g, z)
                       /\ j \in ReachAvoid(g, {v}, A) /\ ~PostDominates(g, j, v)
    BY <1>5, <1>10, LoopLeftOpen
  <2>2. ReachAvoid(g, Succs(g, v), A) \subseteq S
    BY <1>6, <2>1
  <2> QED
    BY <1>7, <1>8, <1>10, <2>1, <2>2
<1> QED
  BY <1>5, <1>9, <1>10

(* The block b itself, unless there is none: any other would be on both     *)
(* ways.                                                                    *)
LEMMA LastOpenIsBranch ==
    ASSUME NEW g, IsGraph(g), Structured(g), NEW b, NEW p, NEW j, MeetsBelow(g, b, p, j),
           NEW x, IsOpen(g, b, p, j, x),
           \A y \in Succs(g, x) \ Limits(g, b, p) :
              j \in ReachAvoid(g, {y}, Limits(g, b, p)) => PostDominates(g, j, y),
           \A z \in g.blocks : IsLoopHeader(g, z) /\ x \in LoopBlocks(g, z) => b \in LoopBlocks(g, z)
    PROVE  /\ x = b
           /\ \E y \in Succs(g, b) : ~PostDominates(g, j, y)
<1> DEFINE A == Limits(g, b, p)
           q == ImmPostDom(g, x)
<1>0. /\ AllReached(g) /\ MayReturn(g) /\ IsBranch(g, b, p) /\ b \in g.blocks
      /\ {b} \in SUBSET g.blocks /\ Succs(g, b) \in SUBSET g.blocks
      /\ p \in g.blocks /\ PostDominates(g, p, b) /\ j \in g.blocks /\ j # b
      /\ x \in {b} \cup Decides(g, b) /\ x \in g.blocks /\ Succs(g, x) \in SUBSET g.blocks
      /\ \A c \in g.blocks \ {b, j} :
            j \in ReachAvoid(g, Succs(g, b), {b, c} \cup EnclosingHeaders(g, b))
  BY StructuredIsReached, OpenBlocks DEF MeetsBelow, IsBranch, IsJoin, IsOpen
<1>1. j \in ReachAvoid(g, Succs(g, x), A) /\ ~PostDominates(g, j, x)
  BY DEF IsOpen
<1>2. x # j
  BY <1>0, <1>1, PostDominatesItself
<1>3. PICK y \in Succs(g, x) \ A : j \in ReachAvoid(g, {y}, A)
  <2>1. \A S \in SUBSET g.blocks : \A B : \A z \in ReachAvoid(g, S, B) :
           \E s \in S \ B : z \in ReachAvoid(g, {s}, B)
    BY ZenonT(30), ReachOne
  <2> HIDE DEF A
  <2> QED
    BY <1>0, <1>1, <2>1, Zenon
<1>4. PostDominates(g, j, y) /\ y \in g.blocks /\ {y} \in SUBSET g.blocks
  BY <1>0, <1>3
<1>5. \E w \in Succs(g, x) : ~PostDominates(g, j, w)
  <2> SUFFICES ASSUME \A w \in Succs(g, x) : PostDominates(g, j, w) PROVE FALSE
    OBVIOUS
  <2>1. IsTrap(g, Doomed(g, j), j)
    BY DoomedIsTrap
  <2>2. Succs(g, x) \subseteq Doomed(g, j) /\ x \notin Exits(g)
    BY <1>0, <1>3 DEF Doomed, Exits, Succs
  <2>3. IsTrap(g, Doomed(g, j) \cup {x}, j)
    BY <1>0, <2>1, <2>2 DEF IsTrap
  <2>4. PostDominates(g, j, x)
    BY <2>3, TrapIsDoomed DEF Doomed
  <2> QED
    BY <1>1, <2>4
<1>6. ASSUME x # b PROVE FALSE
  <2>1. x \in Decides(g, b)
    BY <1>0, <1>6
  <2>2. PostDominates(g, p, x) /\ p # x /\ Dominates(g, b, x)
    <3>1. p \in {p} /\ \A s \in {b} : PostDominates(g, p, s)
      BY <1>0
    <3>2. x \in ReachAvoid(g, {b}, {p}) /\ x # p /\ Dominates(g, b, x)
      BY <1>0, <2>1, DecidesIs
    <3> QED
      BY <1>0, <3>1, <3>2, PostDominatesOn
  <2>3. IsBranch(g, x, q)
    <3>1. PICK w \in Succs(g, x) : ~PostDominates(g, j, w)
      BY <1>5
    <3>2. Len(g.succ[x]) = 2
      BY <1>0, <1>3, <1>4, <3>1, TwoWays
    <3>3. IsJoin(g, x, q)
      BY <1>0, <2>2, JoinIs
    <3> QED
      BY <1>0, <3>2, <3>3 DEF IsBranch
  <2>4. EnclosingHeaders(g, x) \subseteq A
    BY EnclosingAre DEF Limits
  <2>5. j \in ReachAvoid(g, {y}, EnclosingHeaders(g, x))
    <3> HIDE DEF A
    <3> QED
      BY <1>3, <1>4, <2>4, ReachLess
  <2>6. q # j /\ q \in g.blocks /\ PostDominates(g, q, x)
    BY <1>1, <2>3 DEF IsBranch, IsJoin
  <2> HIDE DEF q, A
  <2>7. j \in ReachAvoid(g, {y}, EnclosingHeaders(g, x) \cup {q})
    <3> SUFFICES ASSUME q \in ReachAvoid(g, {y}, EnclosingHeaders(g, x) \cup {j}) PROVE FALSE
      BY <1>4, <2>5, <2>6, ReachEither
    <3>1. j \in EnclosingHeaders(g, x) \cup {j} /\ \A s \in {y} : PostDominates(g, j, s)
      BY <1>4
    <3>2. PostDominates(g, j, q)
      BY <1>4, <3>1, PostDominatesOn
    <3> QED
      BY <1>0, <1>1, <2>6, <3>2, PostDominatesTransitively
  <2>8. Dominates(g, x, j)
    <3>1. j \in ReachAvoid(g, Succs(g, x), EnclosingHeaders(g, x) \cup {q})
      <4>1. {y} \subseteq Succs(g, x)
        BY <1>3
      <4> QED
        BY <1>0, <2>7, <4>1, ReachMore
    <3>2. EnclosingHeaders(g, x) \cup {q} = {q} \cup EnclosingHeaders(g, x)
      OBVIOUS
    <3>3. Decides(g, x) = ReachAvoid(g, Succs(g, x), {q} \cup EnclosingHeaders(g, x))
      BY <2>3, DecidesIs
    <3>4. j \in Decides(g, x)
      BY <3>1, <3>2, <3>3
    <3> QED
      BY <2>3, <3>4, DecidesIs
  <2>9. j \in ReachAvoid(g, {b}, {x})
    <3>1. j \in ReachAvoid(g, Succs(g, b), {b, x} \cup EnclosingHeaders(g, b))
      BY <1>0, <1>2, <1>6
    <3>2. {x} \subseteq {b, x} \cup EnclosingHeaders(g, b)
      OBVIOUS
    <3>3. j \in ReachAvoid(g, Succs(g, b), {x})
      BY <1>0, <3>1, <3>2, ReachLess
    <3> QED
      BY <1>0, <1>6, <3>3, ReachSuccs
  <2>10. Dominates(g, x, b)
    BY <1>0, <2>8, <2>9, DominatesBack
  <2> QED
    BY <1>0, <1>6, <2>2, <2>10, DominatesOneWay
<1> QED
  BY <1>5, <1>6

(* The two ways from a branch meet in its immediate post-dominator.         *)
LEMMA MeetIsJoin ==
    ASSUME NEW g, IsGraph(g), Structured(g), NEW b, NEW p, IsBranch(g, b, p),
           NEW j \in g.blocks, MeetIn(g, b, j)
    PROVE  j = p
<1> SUFFICES ASSUME j # p PROVE FALSE
  OBVIOUS
<1> DEFINE E == EnclosingHeaders(g, b)
           A == Limits(g, b, p)
<1>1. MeetsBelow(g, b, p, j)
  BY MeetIsBelow
<1>2. /\ AllReached(g) /\ MayReturn(g) /\ b \in g.blocks /\ {b} \in SUBSET g.blocks
      /\ Succs(g, b) \in SUBSET g.blocks /\ p \in g.blocks /\ PostDominates(g, p, b)
      /\ j \in g.blocks /\ {j} \in SUBSET g.blocks /\ j \in Decides(g, b) /\ j \notin E
      /\ \A s \in Succs(g, b) : j \in ReachAvoid(g, {s}, {b} \cup E)
      /\ A = {p} \cup E
      /\ Decides(g, b) = ReachAvoid(g, Succs(g, b), A)
  BY <1>1, StructuredIsReached, DecidesIs DEF MeetsBelow, IsBranch, IsJoin, IsGraph, Limits
<1>3. PICK x : /\ IsOpen(g, b, p, j, x)
               /\ \A y \in Succs(g, x) \ A :
                     j \in ReachAvoid(g, {y}, A) => PostDominates(g, j, y)
               /\ \A z \in g.blocks : IsLoopHeader(g, z) /\ x \in LoopBlocks(g, z)
                                         => b \in LoopBlocks(g, z)
  BY <1>1, LastOpen
<1>4. x = b /\ \E y \in Succs(g, b) : ~PostDominates(g, j, y)
  BY <1>1, <1>3, LastOpenIsBranch
<1>5. PICK y \in Succs(g, b) : ~PostDominates(g, j, y)
  BY <1>4
<1>6. y \in g.blocks /\ {y} \in SUBSET g.blocks /\ j \in ReachAvoid(g, {y}, {b} \cup E)
  BY <1>2, <1>5
<1> HIDE DEF E, A
(* That way leads to j through the join only.                               *)
<1>7. j \notin ReachAvoid(g, {y}, A)
  <2>1. CASE y \in A
    BY <1>6, <2>1, ReachNothing
  <2>2. CASE y \notin A
    BY <1>3, <1>4, <1>5, <2>2
  <2> QED
    BY <2>1, <2>2
<1>8. j \in ReachAvoid(g, {p}, {b} \cup E)
  <2>1. A \subseteq ({b} \cup E) \cup {p}
    BY <1>2
  <2>2. j \notin ReachAvoid(g, {y}, ({b} \cup E) \cup {p})
    BY <1>6, <1>7, <2>1, ReachLess
  <2> QED
    BY <1>6, <2>2, ReachPast
<1>9. p \notin E /\ {p} \in SUBSET g.blocks /\ j \in ReachAvoid(g, {p}, E)
  <2>1. {p} \in SUBSET g.blocks
    BY <1>2
  <2>2. p \notin E
    BY <1>8, <2>1, ReachNothing
  <2> QED
    BY <1>8, <2>1, <2>2, ReachLess
(* And back from j to the join, before another iteration.                   *)
<1>10. p \in ReachAvoid(g, {j}, E)
  <2> SUFFICES ASSUME p \notin ReachAvoid(g, {j}, E) PROVE FALSE
    OBVIOUS
  <2> DEFINE W == ReachAvoid(g, {j}, E)
  <2>1. W \in SUBSET g.blocks /\ j \in W /\ \A w \in W : Succs(g, w) \ E \subseteq W
    BY <1>2, ReachAvoidIsClosed, ReachItself
  <2>2. \A w \in W : w \in ReachAvoid(g, {j}, A)
    <3>1. E \cup {p} = A
      BY <1>2
    <3>2. \A w \in W : w \in ReachAvoid(g, {j}, E \cup {p})
      BY <1>2, ReachPast
    <3> QED
      BY <3>1, <3>2
  <2>3. \A w \in W : w \in Decides(g, b)
    <3>1. j \in ReachAvoid(g, Succs(g, b), A)
      BY <1>2
    <3>2. ReachAvoid(g, {j}, A) \subseteq ReachAvoid(g, Succs(g, b), A)
      BY <1>2, <3>1, ReachOn
    <3> QED
      BY <1>2, <2>2, <3>2
  <2>4. \A w \in W : w # p /\ PostDominates(g, p, w)
    <3>1. p \in {p} /\ \A s \in {b} : PostDominates(g, p, s)
      BY <1>2
    <3>2. \A w \in Decides(g, b) : w # p /\ w \in ReachAvoid(g, {b}, {p})
      BY DecidesIs
    <3> QED
      BY <1>2, <2>3, <3>1, <3>2, PostDominatesOn
  <2>5. W \cap Exits(g) = {}
    <3>1. IsTrap(g, Doomed(g, p), p)
      BY DoomedIsTrap
    <3>2. W \subseteq Doomed(g, p) \ {p}
      BY <2>1, <2>4 DEF Doomed
    <3> QED
      BY <3>1, <3>2 DEF IsTrap
  <2> HIDE DEF W
  <2>6. PICK w \in W, h \in E : h \in Succs(g, w)
    <3> SUFFICES ASSUME \A w \in W : \A h \in E : h \notin Succs(g, w) PROVE FALSE
      OBVIOUS
    <3>1. \A w \in W : Succs(g, w) \subseteq W
      BY <2>1
    <3> QED
      BY <1>2, <2>1, <2>5, <3>1, NoClosedTrap
  <2>7. h \in g.blocks /\ IsLoopHeader(g, h) /\ b \in LoopBlocks(g, h) /\ h \in EnclosingHeaders(g, b)
    BY <2>6, EnclosingAre DEF E
  <2>8. PICK l, u, v : IsLoop(g, h, l, u, v)
    BY <2>7, LoopHasBounds
  <2>9. w = l /\ b = u
    <3>1. h # p /\ w \in {b} \cup Decides(g, b)
      BY <1>9, <2>3, <2>6
    <3> QED
      BY <2>6, <2>7, <2>8, <3>1, IterationEnds
  <2>10. j \in LoopBlocks(g, h)
    <3>1. {h} \subseteq E
      BY <2>6
    <3>2. l \in ReachAvoid(g, {j}, {h})
      BY <1>2, <2>6, <2>9, <3>1, ReachLess DEF W
    <3> QED
      BY <1>2, <2>8, <3>2, LoopIs
  <2>11. v \in Succs(g, b) /\ v \notin LoopBlocks(g, h) /\ {v} \in SUBSET g.blocks
    BY <2>8, <2>9, LoopLeft
  <2>12. j \in ReachAvoid(g, {v}, {b} \cup E)
    BY <1>2, <2>11
  <2>13. ReachAvoid(g, {v}, {b} \cup E) \cap LoopBlocks(g, h) = {}
    <3>1. {v} \cap LoopBlocks(g, h) \subseteq {h} /\ h \in {b} \cup E
      BY <2>6, <2>11
    <3> QED
      BY <2>8, <2>11, <3>1, LoopNotEntered
  <2> QED
    BY <2>10, <2>12, <2>13
(* So a loop that b is not in holds j.                                      *)
<1>11. j \in ReachAvoid(g, Succs(g, j), E)
  <2>1. Succs(g, j) \in SUBSET g.blocks
    BY <1>2 DEF IsGraph
  <2>2. p \in ReachAvoid(g, Succs(g, j), E \cup {j})
    BY <1>2, <1>10, ReachLast
  <2>3. p \in ReachAvoid(g, Succs(g, j), E)
    BY <2>1, <2>2, ReachLess
  <2> QED
    BY <1>9, <2>1, <2>3, ReachOn
<1>12. PICK z \in OnCycle(g, j, E) :
           /\ IsLoopHeader(g, z) /\ z \in g.blocks \ E
           /\ OnCycle(g, j, E) \subseteq LoopBlocks(g, z)
  BY <1>2, <1>11, CycleIsInLoop
<1>13. j \in LoopBlocks(g, z)
  <2>1. j \in OnCycle(g, j, E)
    BY <1>2, ReachItself DEF OnCycle
  <2> QED
    BY <1>12, <2>1
<1>14. b \in LoopBlocks(g, z)
  BY <1>1, <1>12, <1>13, LoopsOfMeet
<1> QED
  BY <1>12, <1>14, EnclosingAre DEF E

----------------------------------------------------------------------------
(* Kernels. *)

LEMMA InfluencedInKernel ==
    ASSUME NEW k, NEW tree, NEW i
    PROVE  Influenced(k, tree, i) \subseteq k.insts
BY DEF Influenced, Users, JoinPhis, Phis

(* One ring of dependents after the other.                                  *)
NextRing(k, tree, R) == (UNION {Influenced(k, tree, i) : i \in R.last}) \ R.all

AreRings(W, k, tree, seeds) ==
    /\ W \in [0..Cardinality(k.insts) -> [all : SUBSET k.insts, last : SUBSET k.insts]]
    /\ W[0] = [all |-> seeds, last |-> seeds]
    /\ \A m \in 1..Cardinality(k.insts) :
          W[m] = [all  |-> W[m - 1].all \cup NextRing(k, tree, W[m - 1]),
                  last |-> NextRing(k, tree, W[m - 1])]
    /\ Dependents(k, tree, seeds) = W[Cardinality(k.insts)].all

LEMMA DependentsInRings ==
    ASSUME NEW k, IsFiniteSet(k.insts), NEW tree, NEW seeds \in SUBSET k.insts
    PROVE  \E W : AreRings(W, k, tree, seeds)
<1> DEFINE n == Cardinality(k.insts)
           V == [all : SUBSET k.insts, last : SUBSET k.insts]
           first == [all |-> seeds, last |-> seeds]
           After(R) == [all |-> R.all \cup NextRing(k, tree, R), last |-> NextRing(k, tree, R)]
           h == [x \in Nat \X V |-> After(x[2])]
           Ring[m \in 0..n] ==
               IF m = 0 THEN [all |-> seeds, last |-> seeds]
               ELSE LET R    == Ring[m - 1]
                        next == (UNION {Influenced(k, tree, i) : i \in R.last}) \ R.all
                    IN  [all |-> R.all \cup next, last |-> next]
<1>1. n \in Nat
  BY FS_CardinalityType
<1>2. Dependents(k, tree, seeds) = Ring[n].all
  BY DEF Dependents
<1>3. first \in V /\ \A R \in V : After(R) \in V
  <2>1. \A R \in V : NextRing(k, tree, R) \in SUBSET k.insts /\ R.all \in SUBSET k.insts
    BY InfluencedInKernel DEF NextRing
  <2> QED
    BY <2>1
<1>4. h \in [Nat \X V -> V]
  <2> HIDE DEF V, After
  <2> QED
    BY <1>3
<1>5. PICK W \in [0..n -> V] : IsRecursive(W, n, first, h)
  <2> HIDE DEF n, V, h, first
  <2> QED
    BY <1>1, <1>3, <1>4, RecursiveExists
<1> HIDE DEF n
<1>6. \A i \in 0..n : W[i] = IF i = 0 THEN first ELSE After(W[i - 1])
  <2> SUFFICES ASSUME NEW i \in 0..n PROVE W[i] = IF i = 0 THEN first ELSE After(W[i - 1])
    OBVIOUS
  <2> HIDE DEF V, After, first
  <2>1. W[i] = IF i = 0 THEN first ELSE h[<<i, W[i - 1]>>]
    <3> HIDE DEF h
    <3> QED
      BY <1>5 DEF IsRecursive
  <2>2. CASE i = 0
    BY <2>1, <2>2
  <2>3. CASE i # 0
    <3>1. i \in Nat /\ i - 1 \in 0..n /\ W[i - 1] \in V
      BY <1>1, <1>5, <2>3
    <3>2. h[<<i, W[i - 1]>>] = After(W[i - 1])
      BY <3>1
    <3> HIDE DEF h
    <3> QED
      BY <2>1, <2>3, <3>2
  <2> QED
    BY <2>2, <2>3
<1>7. W = [m \in 0..n |->
               IF m = 0 THEN [all |-> seeds, last |-> seeds]
               ELSE LET R    == W[m - 1]
                        next == (UNION {Influenced(k, tree, i) : i \in R.last}) \ R.all
                    IN  [all |-> R.all \cup next, last |-> next]]
  <2>1. W = [i \in 0..n |-> W[i]]
    BY <1>5
  <2> QED
    BY <1>6, <2>1, Zenon DEF NextRing
<1>8. Ring = [m \in 0..n |->
               IF m = 0 THEN [all |-> seeds, last |-> seeds]
               ELSE LET R    == Ring[m - 1]
                        next == (UNION {Influenced(k, tree, i) : i \in R.last}) \ R.all
                    IN  [all |-> R.all \cup next, last |-> next]]
  BY <1>7
<1> HIDE DEF Ring, h
<1>9. Ring[0] = first /\ \A i \in 1..n : Ring[i] = After(Ring[i - 1])
  <2>1. Ring[0] = first
    BY <1>1, <1>8
  <2>2. ASSUME NEW i \in 1..n PROVE Ring[i] = After(Ring[i - 1])
    <3>1. i \in 0..n /\ i # 0
      BY <1>1
    <3> QED
      BY <1>8, <3>1, Zenon DEF NextRing
  <2> QED
    BY <2>1, <2>2
<1> DEFINE T == {m \in Nat : m \in 0..n => Ring[m] \in V}
<1>10. \A m \in Nat : m \in T
  <2>1. 0 \in T
    BY <1>3, <1>9
  <2>2. ASSUME NEW m \in Nat, m \in T PROVE m + 1 \in T
    <3> SUFFICES ASSUME m + 1 \in 0..n PROVE Ring[m + 1] \in V
      OBVIOUS
    <3> HIDE DEF V, After
    <3>1. Ring[m + 1] = After(Ring[(m + 1) - 1]) /\ Ring[m] \in V
      BY <1>1, <1>9, <2>2
    <3> QED
      BY <1>3, <3>1
  <2> HIDE DEF T
  <2> QED
    BY <2>1, <2>2, Induction
<1>11. Ring \in [0..n -> V]
  <2>1. \A m \in 0..n : m \in Nat /\ m \in T
    BY <1>1, <1>10
  <2> HIDE DEF V
  <2>2. \A m \in 0..n : Ring[m] \in V
    BY <2>1
  <2>3. Ring = [m \in 0..n |-> Ring[m]]
    BY <1>8
  <2> QED
    BY <2>2, <2>3
<1>12. AreRings(Ring, k, tree, seeds)
  BY <1>2, <1>9, <1>11, Zenon DEF AreRings, n
<1> QED
  BY <1>12

(* What has been followed lies within what is known.                        *)
LEMMA RingsAreFollowed ==
    ASSUME NEW k, IsFiniteSet(k.insts), NEW tree, NEW seeds \in SUBSET k.insts,
           NEW W, AreRings(W, k, tree, seeds)
    PROVE  \A m \in 0..Cardinality(k.insts) :
               /\ W[m].last \subseteq W[m].all
               /\ \A i \in W[m].all \ W[m].last : Influenced(k, tree, i) \subseteq W[m].all
<1> DEFINE n == Cardinality(k.insts)
           Followed(R) == /\ R.last \subseteq R.all
                          /\ \A i \in R.all \ R.last : Influenced(k, tree, i) \subseteq R.all
           T == {m \in Nat : m \in 0..n => Followed(W[m])}
<1>1. n \in Nat
  BY FS_CardinalityType
<1>2. W[0] = [all |-> seeds, last |-> seeds]
  BY DEF AreRings
<1>3. \A m \in 1..n : W[m] = [all  |-> W[m - 1].all \cup NextRing(k, tree, W[m - 1]),
                              last |-> NextRing(k, tree, W[m - 1])]
  BY DEF AreRings
<1> HIDE DEF n
<1>4. 0 \in T
  BY <1>2
<1>5. ASSUME NEW m \in Nat, m \in T PROVE m + 1 \in T
  <2> SUFFICES ASSUME m + 1 \in 0..n PROVE Followed(W[m + 1])
    OBVIOUS
  <2>1. Followed(W[m])
    BY <1>1, <1>5
  <2>2. /\ W[m + 1].all = W[m].all \cup NextRing(k, tree, W[m])
        /\ W[m + 1].last = NextRing(k, tree, W[m])
    <3> DEFINE X == W[m].all \cup NextRing(k, tree, W[m])
               Y == NextRing(k, tree, W[m])
    <3>1. m + 1 \in 1..n /\ (m + 1) - 1 = m
      BY <1>1
    <3>2. W[m + 1] = [all |-> X, last |-> Y]
      BY <1>3, <3>1
    <3> HIDE DEF X, Y
    <3>3. W[m + 1].all = X /\ W[m + 1].last = Y
      BY <3>2
    <3> QED
      BY <3>3 DEF X, Y
  <2>3. ASSUME NEW i \in W[m + 1].all \ W[m + 1].last
        PROVE  Influenced(k, tree, i) \subseteq W[m + 1].all
    <3>1. i \in W[m].all
      BY <2>2
    <3>2. CASE i \in W[m].last
      BY <2>2, <3>2 DEF NextRing
    <3>3. CASE i \notin W[m].last
      BY <2>1, <2>2, <3>1, <3>3
    <3> QED
      BY <3>2, <3>3
  <2> QED
    BY <2>2, <2>3
<1> HIDE DEF T
<1>6. \A m \in Nat : m \in T
  BY <1>4, <1>5, Induction
<1> QED
  BY <1>1, <1>6 DEF T, n

(* The least set that holds the seeds and all that depends on a member.     *)
LEMMA DependentsIsLeast ==
    ASSUME NEW k, IsFiniteSet(k.insts), NEW tree, NEW seeds \in SUBSET k.insts
    PROVE  /\ Dependents(k, tree, seeds) \subseteq k.insts
           /\ seeds \subseteq Dependents(k, tree, seeds)
           /\ Closed(k, tree, Dependents(k, tree, seeds))
           /\ \A S : seeds \subseteq S /\ Closed(k, tree, S)
                        => Dependents(k, tree, seeds) \subseteq S
<1>1. PICK W : AreRings(W, k, tree, seeds)
  BY DependentsInRings
<1> DEFINE n == Cardinality(k.insts)
           U == k.insts
           More(X) == X \cup UNION {Influenced(k, tree, i) : i \in X}
           h == [X \in SUBSET U |-> More(X)]
           A == [m \in 0..n |-> W[m].all]
<1>2. n \in Nat
  BY FS_CardinalityType
<1>3. \A m \in 0..n : W[m] \in [all : SUBSET U, last : SUBSET U]
  BY <1>1 DEF AreRings
<1>4. A \in [0..n -> SUBSET U] /\ A[0] = seeds /\ A[n] = Dependents(k, tree, seeds)
  BY <1>1, <1>2, <1>3 DEF AreRings
<1>5. \A X \in SUBSET U : More(X) \in SUBSET U
  BY InfluencedInKernel
<1>6. ASSUME NEW m \in 1..n PROVE A[m] = h[A[m - 1]]
  <2>1. m \in 0..n /\ m - 1 \in 0..n
    BY <1>2
  <2>2. W[m].all = W[m - 1].all \cup NextRing(k, tree, W[m - 1])
    <3> DEFINE X == W[m - 1].all \cup NextRing(k, tree, W[m - 1])
               Y == NextRing(k, tree, W[m - 1])
    <3>1. W[m] = [all |-> X, last |-> Y]
      BY <1>1 DEF AreRings
    <3> HIDE DEF X, Y
    <3>2. W[m].all = X
      BY <3>1
    <3> QED
      BY <3>2 DEF X
  <2>3. /\ W[m - 1].last \subseteq W[m - 1].all
        /\ \A i \in W[m - 1].all \ W[m - 1].last : Influenced(k, tree, i) \subseteq W[m - 1].all
    BY <1>1, <2>1, RingsAreFollowed
  <2>4. W[m - 1].all \cup NextRing(k, tree, W[m - 1]) = More(W[m - 1].all)
    BY <2>3 DEF NextRing
  <2> QED
    BY <1>3, <2>1, <2>2, <2>4
<1> HIDE DEF A
<1>7. IsRounds(A, n, U, h)
  <2>1. h \in [SUBSET U -> SUBSET U] /\ h[{}] = {} /\ \A X \in SUBSET U : X \subseteq h[X]
    BY <1>5
  <2> HIDE DEF h
  <2> QED
    BY <1>2, <1>4, <1>6, <2>1 DEF IsRounds
<1>8. A[n] \subseteq U /\ seeds \subseteq A[n] /\ Closed(k, tree, A[n])
  <2>1. h[A[n]] = A[n] /\ A[0] \subseteq A[n]
    <3> HIDE DEF h
    <3> QED
      BY <1>7, RoundsEnd, RoundsKeep
  <2>2. A[n] \in SUBSET U
    BY <1>2, <1>4
  <2>3. More(A[n]) = A[n]
    BY <2>1, <2>2
  <2>4. ASSUME NEW i \in A[n] PROVE Influenced(k, tree, i) \subseteq A[n]
    <3>1. Influenced(k, tree, i) \subseteq More(A[n])
      BY <2>4
    <3> QED
      BY <2>3, <3>1
  <2> QED
    BY <1>4, <2>1, <2>2, <2>4 DEF Closed
<1>9. ASSUME NEW S, seeds \subseteq S, Closed(k, tree, S) PROVE A[n] \subseteq S
  <2>1. \A X \in SUBSET U : X \subseteq S => h[X] \subseteq S
    BY <1>9 DEF Closed
  <2>2. A[0] \subseteq S
    BY <1>4, <1>9
  <2> HIDE DEF h, U, n
  <2> QED
    BY <1>7, <2>1, <2>2, RoundsAreNeeded
<1> QED
  BY <1>4, <1>8, <1>9

----------------------------------------------------------------------------
(* Joins that become known. *)

(* A branch whose join is known leads to the phis there; nothing else       *)
(* changes when more joins are known, and no phi is in no block.            *)
LEMMA MoreJoinsInfluenceMore ==
    ASSUME NEW k, NoBlock \notin k.blocks, k.parent \in [k.insts -> k.blocks], NEW tree,
           NEW F, NEW G, F \subseteq G, NEW i \in k.insts
    PROVE  Influenced(k, KnownJoins(k, tree, F), i) \subseteq Influenced(k, KnownJoins(k, tree, G), i)
<1> DEFINE b == k.parent[i]
<1>1. b \in k.blocks
  OBVIOUS
<1>2. KnownJoins(k, tree, F)[b] = NoBlock \/ KnownJoins(k, tree, F)[b] = KnownJoins(k, tree, G)[b]
  BY <1>1 DEF KnownJoins
<1>3. Phis(k, NoBlock) = {}
  BY DEF Phis
<1> QED
  BY <1>2, <1>3, Zenon DEF Influenced, JoinPhis

LEMMA MoreJoinsMoreDependents ==
    ASSUME NEW k, IsFiniteSet(k.insts), NoBlock \notin k.blocks,
           k.parent \in [k.insts -> k.blocks], NEW tree, NEW seeds \in SUBSET k.insts,
           NEW F, NEW G, F \subseteq G
    PROVE  Dependents(k, KnownJoins(k, tree, F), seeds)
               \subseteq Dependents(k, KnownJoins(k, tree, G), seeds)
<1> DEFINE S == Dependents(k, KnownJoins(k, tree, G), seeds)
<1>1. S \subseteq k.insts /\ seeds \subseteq S /\ Closed(k, KnownJoins(k, tree, G), S)
  BY DependentsIsLeast
<1> HIDE DEF S
<1>2. Closed(k, KnownJoins(k, tree, F), S)
  BY <1>1, MoreJoinsInfluenceMore DEF Closed
<1> QED
  BY <1>1, <1>2, DependentsIsLeast DEF S

(* What a branch that was found, or any other instruction, leads to is      *)
(* found with the join.                                                     *)
LEMMA FoundLeadsOn ==
    ASSUME NEW k, IsFiniteSet(k.insts), k.parent \in [k.insts -> k.blocks], NEW tree,
           NEW seeds \in SUBSET k.insts, NEW F,
           NEW i \in Dependents(k, KnownJoins(k, tree, F), seeds),
           k.kind[i] = "br" => i \in F
    PROVE  Influenced(k, tree, i) \subseteq Dependents(k, KnownJoins(k, tree, F), seeds)
<1> DEFINE J == KnownJoins(k, tree, F)
<1>1. i \in k.insts /\ Influenced(k, J, i) \subseteq Dependents(k, J, seeds)
  BY DependentsIsLeast DEF Closed
<1>2. k.kind[i] = "br" => J[k.parent[i]] = tree[k.parent[i]]
  BY <1>1 DEF KnownJoins
<1> HIDE DEF J
<1>3. Influenced(k, tree, i) = Influenced(k, J, i)
  BY <1>2, Zenon DEF Influenced, JoinPhis
<1> QED
  BY <1>1, <1>3 DEF J

----------------------------------------------------------------------------
(* Regions of branches. *)

(* Where a branch may end an iteration of a loop around it, other than by   *)
(* going on to its join, it leaves a loop in the middle.                    *)
LEMMA OnlyMidLoopExitsEndIterations ==
    ASSUME NEW k, IsGraph(k), Structured(k), NEW b, NEW p, IsBranch(k, b, p),
           NEW x \in {b} \cup Decides(k, b),
           NEW h \in EnclosingHeaders(k, b), h \in Succs(k, x), h # p, h # b
    PROVE  LeavesLoopInTheMiddle(k, b)
<1>0. /\ AllReached(k) /\ b \in k.blocks /\ NoBlock \notin k.blocks
      /\ h \in k.blocks /\ IsLoopHeader(k, h) /\ b \in LoopBlocks(k, h)
  BY StructuredIsReached, EnclosingAre DEF IsBranch, IsGraph
<1>1. PICK l, u, v : IsLoop(k, h, l, u, v)
  BY <1>0, LoopHasBounds
<1>2. b = u
  BY <1>1, IterationEnds
<1> DEFINE m == LoopFor(k, b)
<1>3. m \in EnclosingHeaders(k, b) /\ LoopBlocks(k, m) \subseteq LoopBlocks(k, h)
  <2>1. h \in EnclosingHeaders(k, b)
    OBVIOUS
  <2> QED
    BY <1>0, <2>1, LoopForIsInnermost
<1>4. m # b
  <2> SUFFICES ASSUME m = b PROVE FALSE
    OBVIOUS
  <2>1. b \in k.blocks /\ IsLoopHeader(k, b) /\ b \in LoopBlocks(k, b)
    BY <1>3, EnclosingAre
  <2>2. PICK n, w, y : IsLoop(k, b, n, w, y)
    BY <2>1, LoopHasBounds
  <2>3. u \notin LoopBlocks(k, b)
    BY <1>0, <1>1, <2>2, LoopLeftOutside
  <2> QED
    BY <1>2, <2>1, <2>3
<1>5. v \in Succs(k, b) /\ v \notin LoopBlocks(k, m)
  BY <1>1, <1>2, <1>3, LoopLeft
<1>6. m # NoBlock
  BY <1>0, <1>3, EnclosingAre
<1> HIDE DEF m
<1> QED
  BY <1>4, <1>5, <1>6 DEF LeavesLoopInTheMiddle, m

(* Up to its join a branch is entered from above only, unless it leaves a   *)
(* loop in the middle.                                                      *)
LEMMA BranchDominates ==
    ASSUME NEW k, IsGraph(k), Structured(k), NEW b, NEW p, IsBranch(k, b, p),
           ~LeavesLoopInTheMiddle(k, b),
           NEW x \in ReachAvoid(k, {b}, {p})
    PROVE  Dominates(k, b, x)
<1> DEFINE D == Decides(k, b)
           E == EnclosingHeaders(k, b)
           T == {b} \cup D
<1>1. /\ D = ReachAvoid(k, Succs(k, b), {p} \cup E)
      /\ \A y \in D : y \in k.blocks /\ Dominates(k, b, y)
      /\ Dominates(k, b, b)
  BY DecidesIs
<1>2. b \in k.blocks /\ {b} \in SUBSET k.blocks /\ Succs(k, b) \in SUBSET k.blocks
  BY DEF IsBranch, IsGraph
<1>3. /\ Succs(k, b) \ ({p} \cup E) \subseteq D
      /\ \A y \in D : Succs(k, y) \ ({p} \cup E) \subseteq D
  <2> HIDE DEF D, E
  <2> QED
    BY <1>1, <1>2, ReachAvoidIsClosed
<1>4. \A y \in T : \A h \in E : h \in Succs(k, y) => h = p \/ h = b
  BY OnlyMidLoopExitsEndIterations
<1>5. \A y \in T : y \in k.blocks \ {p} => Succs(k, y) \ {p} \subseteq T
  <2> HIDE DEF D, E
  <2> QED
    BY <1>3, <1>4
<1>6. {b} \ {p} \subseteq T
  OBVIOUS
<1> HIDE DEF T
<1>7. ReachAvoid(k, {b}, {p}) \subseteq T
  BY <1>2, <1>5, <1>6, ReachAvoidIsLeast
<1> QED
  BY <1>1, <1>7 DEF T

(* The region of the branch at the end of b reaches up to e.                *)
RegionEnd(k, b) ==
    IF LoopFor(k, b) = b /\ LoopFor(k, ImmPostDom(k, b)) = b
    THEN LoopExitBlock(k, b)
    ELSE ImmPostDom(k, b)

HasRegion(k, b) ==
    b \in k.blocks /\ ImmPostDom(k, b) # NoBlock /\ ~LeavesLoopInTheMiddle(k, b)

(* Where it does not reach up to the join it is the rest of a loop.         *)
LEMMA RegionIsOfBranchOrLoop ==
    ASSUME NEW k, IsGraph(k), Structured(k), NEW b, HasRegion(k, b)
    PROVE  /\ IsJoin(k, b, ImmPostDom(k, b))
           /\ \/ RegionEnd(k, b) = ImmPostDom(k, b)
              \/ \E l, u, v : /\ IsLoop(k, b, l, u, v) /\ RegionEnd(k, b) = v
                              /\ ImmPostDom(k, b) \in LoopBlocks(k, b)
                              /\ ReachAvoid(k, {b}, {v}) \subseteq LoopBlocks(k, b)
<1> DEFINE p == ImmPostDom(k, b)
<1>0. AllReached(k) /\ MayReturn(k) /\ b \in k.blocks
  BY StructuredIsReached DEF HasRegion
<1>1. IsJoin(k, b, p) /\ p \in k.blocks
  BY <1>0, JoinIs DEF HasRegion, IsJoin
<1>2. ASSUME LoopFor(k, b) = b, LoopFor(k, p) = b
      PROVE  \E l, u, v : /\ IsLoop(k, b, l, u, v) /\ RegionEnd(k, b) = v
                          /\ p \in LoopBlocks(k, b)
                          /\ ReachAvoid(k, {b}, {v}) \subseteq LoopBlocks(k, b)
  <2>1. b # NoBlock
    BY <1>0 DEF IsGraph
  <2>2. IsLoopHeader(k, b) /\ p \in LoopBlocks(k, b)
    BY <1>0, <1>1, <1>2, <2>1, LoopForIsInnermost, EnclosingAre
  <2>3. PICK l, u, v : IsLoop(k, b, l, u, v)
    BY <1>0, <2>2, LoopHasBounds
  <2>4. RegionEnd(k, b) = v
    BY <1>2, <2>3, LoopLeft DEF RegionEnd
  <2>5. ReachAvoid(k, {b}, {v}) \subseteq LoopBlocks(k, b)
    <3>1. {b} \in SUBSET k.blocks /\ b \in LoopBlocks(k, b)
      BY <2>3, LoopIs
    <3>2. {b} \ {v} \subseteq LoopBlocks(k, b)
      BY <3>1
    <3>3. \A x \in LoopBlocks(k, b) : x \in k.blocks \ {v} => Succs(k, x) \ {v} \subseteq LoopBlocks(k, b)
      BY <2>3, LoopLeft
    <3> QED
      BY <3>1, <3>2, <3>3, ReachAvoidIsLeast
  <2> QED
    BY <2>2, <2>3, <2>4, <2>5
<1>3. ASSUME ~(LoopFor(k, b) = b /\ LoopFor(k, p) = b) PROVE RegionEnd(k, b) = p
  BY <1>3 DEF RegionEnd
<1> QED
  BY <1>1, <1>2, <1>3

(* It is entered through b only and left through e only.                    *)
LEMMA RegionIsClosed ==
    ASSUME NEW k, IsGraph(k), Structured(k), NEW b, HasRegion(k, b)
    PROVE  /\ b \in k.blocks /\ RegionEnd(k, b) \in k.blocks \ {b}
           /\ \A x \in ReachAvoid(k, {b}, {RegionEnd(k, b)}) :
                 /\ x \in k.blocks /\ Dominates(k, b, x)
                 /\ PostDominates(k, RegionEnd(k, b), x)
<1> DEFINE p == ImmPostDom(k, b)
           e == RegionEnd(k, b)
<1>0. AllReached(k) /\ MayReturn(k) /\ b \in k.blocks /\ {b} \in SUBSET k.blocks
  BY StructuredIsReached DEF HasRegion
<1>1. IsJoin(k, b, p)
  BY RegionIsOfBranchOrLoop
<1>2. p \in k.blocks \ {b} /\ PostDominates(k, p, b)
  BY <1>1 DEF IsJoin
<1>3. CASE e = p
  <2> SUFFICES ASSUME NEW x \in ReachAvoid(k, {b}, {p})
               PROVE  x \in k.blocks /\ Dominates(k, b, x) /\ PostDominates(k, p, x)
    BY <1>0, <1>2, <1>3
  <2>1. x \in k.blocks /\ PostDominates(k, p, x)
    <3>1. p \in {p} /\ \A s \in {b} : PostDominates(k, p, s)
      BY <1>2
    <3> HIDE DEF p
    <3> QED
      BY <1>0, <3>1, PostDominatesOn
  <2>2. CASE Len(k.succ[b]) = 2
    <3>1. IsBranch(k, b, p)
      BY <1>0, <1>1, <2>2 DEF IsBranch
    <3> HIDE DEF p
    <3> QED
      BY <2>1, <3>1, BranchDominates DEF HasRegion
  <2>3. CASE Len(k.succ[b]) # 2
    <3>1. \A c \in Succs(k, b) : c = p
      <4> SUFFICES ASSUME NEW c \in Succs(k, b) PROVE c = p
        OBVIOUS
      <4>1. \A y \in Succs(k, b) : y = c
        BY <1>0, <2>3, TwoWays
      <4>2. c \in k.blocks /\ PostDominates(k, p, c)
        BY <1>0, <1>2, PostDominatesSuccs DEF IsGraph
      <4>3. c # b
        <5> SUFFICES ASSUME c = b PROVE FALSE
          OBVIOUS
        <5>1. {b} \cap Exits(k) = {} /\ \A y \in {b} : Succs(k, y) \subseteq {b}
          BY <4>1 DEF Exits, Succs
        <5> QED
          BY <1>0, <5>1, NoClosedTrap
      <4>4. PostDominates(k, c, b)
        <5>1. IsTrap(k, {b, c}, c)
          BY <1>0, <4>1, <4>2 DEF IsTrap, Exits, Succs
        <5> QED
          BY <5>1, TrapIsDoomed DEF Doomed
      <4>5. PostDominates(k, c, p)
        BY <1>1, <4>2, <4>3, <4>4 DEF IsJoin
      <4> QED
        BY <1>0, <1>2, <4>2, <4>5, PostDominatesOneWay
    <3>2. ReachAvoid(k, {b}, {p}) \subseteq {b}
      <4>1. {b} \ {p} \subseteq {b} /\ \A y \in {b} : y \in k.blocks \ {p} => Succs(k, y) \ {p} \subseteq {b}
        BY <3>1
      <4> HIDE DEF p
      <4> QED
        BY <1>0, <4>1, ReachAvoidIsLeast
    <3> QED
      BY <2>1, <3>2, DominatesItself
  <2> QED
    BY <2>2, <2>3
<1>4. ASSUME NEW l, NEW u, NEW v, IsLoop(k, b, l, u, v), e = v,
             ReachAvoid(k, {b}, {v}) \subseteq LoopBlocks(k, b)
      PROVE  /\ e \in k.blocks \ {b}
             /\ \A x \in ReachAvoid(k, {b}, {e}) :
                   x \in k.blocks /\ Dominates(k, b, x) /\ PostDominates(k, e, x)
  <2>1. v \in k.blocks \ LoopBlocks(k, b)
    BY <1>4, LoopLeft
  <2>2. b \in LoopBlocks(k, b) /\ LoopBlocks(k, b) \in SUBSET k.blocks
        /\ \A x \in LoopBlocks(k, b) : Dominates(k, b, x)
    BY <1>4, LoopIs
  <2>3. \A x \in LoopBlocks(k, b) : PostDominates(k, v, x)
    BY <1>0, <1>4, LoopPostDominated
  <2> HIDE DEF e
  <2> QED
    BY <1>4, <2>1, <2>2, <2>3
<1> QED
  BY <1>0, <1>3, <1>4, RegionIsOfBranchOrLoop

(* What the region of the branch at the end of b holds besides its header   *)
(* and its exiting block.                                                   *)
RegionInside(k, b) == ReachAvoid(k, {b}, {RegionEnd(k, b)}) \ {b}

(* A region that begins in another, and reaches a block of it, is in it.    *)
LEMMA RegionWithinRegion ==
    ASSUME NEW k, IsGraph(k), Structured(k),
           NEW b, HasRegion(k, b), NEW d, HasRegion(k, d), b # d, Dominates(k, b, d),
           NEW c \in RegionInside(k, b) \cap RegionInside(k, d)
    PROVE  RegionInside(k, d) \subseteq RegionInside(k, b)
<1> DEFINE e == RegionEnd(k, b)
           f == RegionEnd(k, d)
           R == ReachAvoid(k, {b}, {e})
           Q == ReachAvoid(k, {d}, {f})
<1>0. /\ AllReached(k) /\ MayReturn(k)
      /\ k.entry \in k.blocks /\ {k.entry} \in SUBSET k.blocks
      /\ b \in k.blocks /\ d \in k.blocks /\ {b} \in SUBSET k.blocks /\ {d} \in SUBSET k.blocks
  BY StructuredIsReached, EntryIsBlock DEF HasRegion
<1>1. /\ e \in k.blocks \ {b}
      /\ \A x \in R : x \in k.blocks /\ Dominates(k, b, x) /\ PostDominates(k, e, x)
  BY RegionIsClosed
<1>2. /\ f \in k.blocks \ {d}
      /\ \A x \in Q : x \in k.blocks /\ Dominates(k, d, x) /\ PostDominates(k, f, x)
  BY RegionIsClosed
<1>3. c \in R /\ c \in Q
  BY DEF RegionInside
<1>4. ~Dominates(k, d, b)
  BY <1>0, DominatesOneWay
<1> HIDE DEF e, f
<1>5. d \in R
  <2>1. c \notin ReachAvoid(k, {b}, {d})
    <3> SUFFICES ASSUME c \in ReachAvoid(k, {b}, {d}) PROVE FALSE
      OBVIOUS
    <3>1. Dominates(k, d, b)
      BY <1>0, <1>2, <1>3, DominatesBack
    <3> QED
      BY <1>4, <3>1
  <2>2. c \notin ReachAvoid(k, {b}, {e} \cup {d})
    <3>1. {d} \subseteq {e} \cup {d}
      OBVIOUS
    <3> QED
      BY <1>0, <2>1, <3>1, ReachLess
  <2> QED
    BY <1>0, <1>3, <2>2, ReachPast
<1>6. PostDominates(k, e, d) /\ d # e
  BY <1>0, <1>1, <1>5, ReachAvoidIsClosed
<1>7. b \notin Q
  BY <1>2, <1>4
(* The outer region does not end within the inner one.                      *)
<1>8. e \notin Q
  <2> SUFFICES ASSUME e \in Q PROVE FALSE
    OBVIOUS
  <2>1. PostDominates(k, f, e) /\ e # f
    BY <1>0, <1>2, ReachAvoidIsClosed
  <2>2. ASSUME PostDominates(k, e, f) PROVE FALSE
    BY <1>0, <1>1, <1>2, <2>1, <2>2, PostDominatesOneWay
  <2>3. IsJoin(k, d, ImmPostDom(k, d)) /\ IsJoin(k, b, ImmPostDom(k, b))
    BY RegionIsOfBranchOrLoop
  <2>4. CASE f = ImmPostDom(k, d)
    BY <1>1, <1>6, <2>2, <2>3, <2>4 DEF IsJoin
  <2>5. ASSUME NEW l, NEW u, NEW v, IsLoop(k, d, l, u, v), f = v, Q \subseteq LoopBlocks(k, d)
        PROVE  FALSE
    <3>1. e \in LoopBlocks(k, d) /\ LoopBlocks(k, d) \in SUBSET k.blocks
      BY <2>5, LoopIs
    <3>2. b \notin LoopBlocks(k, d)
      BY <1>4, <2>5, LoopIs
    <3>3. CASE e = ImmPostDom(k, b)
      <4> DEFINE T == (Doomed(k, e) \ LoopBlocks(k, d)) \cup {d}
      <4>1. IsTrap(k, Doomed(k, e), e)
        BY DoomedIsTrap
      <4>2. \A x \in k.blocks : \A y \in Succs(k, x) \cap LoopBlocks(k, d) :
               x \notin LoopBlocks(k, d) => y = d
        BY <2>5, LoopEntered
      <4>3. IsTrap(k, T, d)
        <5>1. T \subseteq k.blocks
          BY <1>0 DEF Doomed
        <5>2. ASSUME NEW x \in T \ {d} PROVE x \notin Exits(k) /\ Succs(k, x) \subseteq T
          <6>1. x \in Doomed(k, e) \ {e} /\ x \notin LoopBlocks(k, d) /\ x \in k.blocks
            BY <3>1, <5>1, <5>2
          <6>2. x \notin Exits(k) /\ Succs(k, x) \subseteq Doomed(k, e)
            BY <4>1, <6>1 DEF IsTrap
          <6> QED
            BY <4>2, <6>1, <6>2
        <5> HIDE DEF T
        <5> QED
          BY <5>1, <5>2 DEF IsTrap
      <4>4. b \in T
        BY <1>0, <2>3, <3>2, <3>3 DEF Doomed, IsJoin
      <4> HIDE DEF T
      <4>5. PostDominates(k, d, b)
        BY <4>3, <4>4, TrapIsDoomed DEF Doomed
      <4>6. PostDominates(k, d, e)
        BY <1>0, <2>3, <3>3, <4>5 DEF IsJoin
      <4> QED
        BY <1>0, <1>1, <1>6, <4>6, PostDominatesOneWay
    <3>4. ASSUME NEW l1, NEW u1, NEW v1, IsLoop(k, b, l1, u1, v1), e = v1,
                 R \subseteq LoopBlocks(k, b)
          PROVE  FALSE
      <4>1. d \in LoopBlocks(k, b)
        BY <1>5, <3>4
      <4>2. LoopBlocks(k, d) \subseteq LoopBlocks(k, b)
        BY <1>0, <2>5, <3>4, <4>1, LoopInside
      <4>3. e \notin LoopBlocks(k, b)
        BY <3>4, LoopLeft
      <4> QED
        BY <3>1, <4>2, <4>3
    <3>5. \/ e = ImmPostDom(k, b)
          \/ \E l1, u1, v1 : IsLoop(k, b, l1, u1, v1) /\ e = v1 /\ R \subseteq LoopBlocks(k, b)
      BY RegionIsOfBranchOrLoop DEF e
    <3> HIDE DEF R, Q
    <3> QED
      BY <3>3, <3>4, <3>5
  <2>6. \/ f = ImmPostDom(k, d)
        \/ \E l, u, v : IsLoop(k, d, l, u, v) /\ f = v /\ Q \subseteq LoopBlocks(k, d)
    BY RegionIsOfBranchOrLoop DEF f
  <2> HIDE DEF R, Q
  <2> QED
    BY <2>4, <2>5, <2>6
<1>9. Q \subseteq R
  <2>1. \A y \in R : Succs(k, y) \ {e} \subseteq R
    BY <1>0, ReachAvoidIsClosed
  <2>2. d \in Q /\ \A y \in Q : Succs(k, y) \ {f} \subseteq Q
    BY <1>0, <1>2, ReachAvoidIsClosed, ReachItself
  <2> DEFINE T == R \cap Q
  <2> HIDE DEF R, Q
  <2>3. {d} \ {f} \subseteq T /\ \A y \in T : y \in k.blocks \ {f} => Succs(k, y) \ {f} \subseteq T
    BY <1>5, <1>8, <2>1, <2>2
  <2> HIDE DEF T
  <2>4. Q \subseteq T
    BY <1>0, <2>3, ReachAvoidIsLeast DEF Q
  <2> QED
    BY <2>4 DEF T
<1> QED
  BY <1>7, <1>9 DEF RegionInside, e, f

(* Two regions are nested or apart.                                         *)
LEMMA RegionsAreNestedOrApart ==
    ASSUME NEW k, IsGraph(k), Structured(k), NEW b, HasRegion(k, b), NEW d, HasRegion(k, d)
    PROVE  \/ RegionInside(k, b) \cap RegionInside(k, d) = {}
           \/ RegionInside(k, b) \subseteq RegionInside(k, d)
           \/ RegionInside(k, d) \subseteq RegionInside(k, b)
<1> SUFFICES ASSUME NEW c \in RegionInside(k, b) \cap RegionInside(k, d), b # d
             PROVE  \/ RegionInside(k, b) \subseteq RegionInside(k, d)
                    \/ RegionInside(k, d) \subseteq RegionInside(k, b)
  OBVIOUS
<1>0. AllReached(k) /\ b \in k.blocks /\ d \in k.blocks
  BY StructuredIsReached DEF HasRegion
<1>1. c \in k.blocks /\ Dominates(k, b, c) /\ Dominates(k, d, c)
  BY RegionIsClosed DEF RegionInside
<1>2. c \in ReachAvoid(k, {b}, {d}) \/ c \in ReachAvoid(k, {d}, {b})
  BY <1>0, <1>1, LastOfTwo
<1>3. Dominates(k, d, b) \/ Dominates(k, b, d)
  BY <1>0, <1>1, <1>2, DominatesBack
<1>4. CASE Dominates(k, b, d)
  BY <1>4, RegionWithinRegion
<1>5. CASE Dominates(k, d, b)
  BY <1>5, RegionWithinRegion
<1> QED
  BY <1>3, <1>4, <1>5
=============================================================================
