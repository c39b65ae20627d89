------------------------ MODULE BranchExtractionProofs ------------------------
(****************************************************************************)
(* Branch extraction leaves the kernel in SSA form, the list of divergent   *)
(* instructions true of it, and what it computes as it was, for every       *)
(* kernel: what splitting a block, isolating a region and giving the exit   *)
(* block its phis do to the order of the instructions on all paths, to what *)
(* depends on what, and to where control and values go behind an old block. *)
(****************************************************************************)
EXTENDS BranchExtraction, KernelProofs

LEMMA FiniteHasMax ==
    ASSUME NEW S, IsFiniteSet(S), S \subseteq Nat, S # {}
    PROVE  MaxOf(S) \in S /\ \A y \in S : y <= MaxOf(S)
<1>1. S \subseteq Int
  OBVIOUS
<1>2. \E x \in S : \A y \in S : y <= x
  BY <1>1, LargestNumber
<1> QED
  BY <1>2 DEF MaxOf

(* A new block is new.                                                      *)
LEMMA NewBlockIsNew ==
    ASSUME NEW k, IsGraph(k), k.blocks \subseteq Nat
    PROVE  /\ NewBlock(k) \in Nat \ k.blocks /\ NewBlock(k) # NoBlock
           /\ \A b \in k.blocks : b < NewBlock(k)
<1>1. MaxOf(k.blocks) \in k.blocks /\ \A y \in k.blocks : y <= MaxOf(k.blocks)
  BY FiniteHasMax DEF IsGraph
<1> QED
  BY <1>1 DEF NewBlock, NoBlock

----------------------------------------------------------------------------
(* Graphs that were changed. *)

(* Block n is put behind block b.                                           *)
IsSplit(f, g, b, n) ==
    /\ b \in g.blocks /\ n \notin g.blocks /\ n # NoBlock
    /\ f.blocks = g.blocks \cup {n} /\ f.entry = g.entry
    /\ f.succ = [c \in g.blocks \cup {n} |->
                    CASE c = b -> <<n>> [] c = n -> g.succ[b] [] OTHER -> g.succ[c]]

(* The edges from the blocks B to block e are led through block n.          *)
IsDiverted(f, g, B, e, n) ==
    /\ e \in g.blocks /\ n \notin g.blocks /\ n # NoBlock
    /\ f.blocks = g.blocks \cup {n} /\ f.entry = g.entry
    /\ f.succ = [c \in g.blocks \cup {n} |->
                    IF c = n THEN <<e>>
                    ELSE [x \in DOMAIN g.succ[c] |->
                            IF c \in B /\ g.succ[c][x] = e THEN n ELSE g.succ[c][x]]]

LEMMA SplitIs ==
    ASSUME NEW g, IsGraph(g), g.succ \in [g.blocks -> Seq(g.blocks)],
           NEW f, NEW b, NEW n, IsSplit(f, g, b, n)
    PROVE  /\ IsGraph(f) /\ f.succ \in [f.blocks -> Seq(f.blocks)]
           /\ Succs(f, b) = {n} /\ Succs(f, n) = Succs(g, b)
           /\ \A c \in g.blocks \ {b} : Succs(f, c) = Succs(g, c)
           /\ Preds(f, n) = {b}
           /\ \A c \in g.blocks : Preds(f, c) = {IF q = b THEN n ELSE q : q \in Preds(g, c)}
           /\ Len(f.succ[b]) = 1 /\ Len(f.succ[n]) = Len(g.succ[b])
           /\ \A c \in g.blocks \ {b} : Len(f.succ[c]) = Len(g.succ[c])
<1>0. /\ b \in g.blocks /\ n \notin g.blocks
      /\ f.blocks = g.blocks \cup {n} /\ f.entry = g.entry
      /\ f.succ = [c \in f.blocks |-> f.succ[c]]
  BY DEF IsSplit
<1>1. /\ f.succ[b] = <<n>> /\ f.succ[n] = g.succ[b]
      /\ \A c \in g.blocks \ {b} : f.succ[c] = g.succ[c]
  BY DEF IsSplit
<1>2. /\ Succs(f, b) = {n} /\ Succs(f, n) = Succs(g, b)
      /\ \A c \in g.blocks \ {b} : Succs(f, c) = Succs(g, c)
  <2>1. Succs(f, b) = {n}
    BY <1>1 DEF Succs
  <2>2. \A x, y \in f.blocks : f.succ[x] = g.succ[y] => Succs(f, x) = Succs(g, y)
    BY DEF Succs
  <2> QED
    BY <1>0, <1>1, <2>1, <2>2
<1>3. \A c \in g.blocks : Succs(g, c) \subseteq g.blocks
  BY DEF IsGraph
<1>9. n # NoBlock
  BY DEF IsSplit
<1>4. IsGraph(f)
  <2>1. IsFiniteSet(f.blocks)
    <3>1. IsFiniteSet(g.blocks)
      BY DEF IsGraph
    <3>2. IsFiniteSet(g.blocks \cup {n})
      BY <3>1, FS_AddElement
    <3> QED
      BY <1>0, <3>2
  <2>2. \A c \in f.blocks : Succs(f, c) \subseteq f.blocks
    BY <1>0, <1>2, <1>3
  <2> QED
    BY <1>0, <2>1, <2>2, <1>9 DEF IsGraph
<1>5. f.succ \in [f.blocks -> Seq(f.blocks)]
  <2>1. \A c \in f.blocks : f.succ[c] \in Seq(f.blocks)
    <3>1. \A s \in Seq(g.blocks) : s \in Seq(f.blocks)
      BY <1>0
    <3>2. <<n>> \in Seq(f.blocks)
      BY <1>0
    <3>3. \A c \in g.blocks : g.succ[c] \in Seq(g.blocks)
      OBVIOUS
    <3>4. \A c \in f.blocks : c \in g.blocks \ {b} \/ c = b \/ c = n
      BY <1>0
    <3>5. \A c \in g.blocks \ {b} : f.succ[c] \in Seq(f.blocks)
      BY <1>1, <3>1, <3>3
    <3>6. f.succ[b] \in Seq(f.blocks) /\ f.succ[n] \in Seq(f.blocks)
      BY <1>0, <1>1, <3>1, <3>2, <3>3
    <3> QED
      BY <3>4, <3>5, <3>6
  <2>2. f.succ = [c \in f.blocks |-> f.succ[c]]
    BY <1>0
  <2> QED
    BY <2>1, <2>2
<1>6. Preds(f, n) = {b}
  BY <1>0, <1>2, <1>3 DEF Preds
<1>7. ASSUME NEW c \in g.blocks
      PROVE  Preds(f, c) = {IF q = b THEN n ELSE q : q \in Preds(g, c)}
  <2>1. \A p \in f.blocks : c \in Succs(f, p) <=> (p = n /\ c \in Succs(g, b)) \/ (p \in g.blocks \ {b} /\ c \in Succs(g, p))
    BY <1>0, <1>2
  <2> QED
    BY <1>0, <2>1 DEF Preds
<1> QED
  BY <1>1, <1>2, <1>4, <1>5, <1>6, <1>7

LEMMA DivertedIs ==
    ASSUME NEW g, IsGraph(g), g.succ \in [g.blocks -> Seq(g.blocks)],
           NEW f, NEW B, NEW e, NEW n, IsDiverted(f, g, B, e, n)
    PROVE  /\ IsGraph(f) /\ f.succ \in [f.blocks -> Seq(f.blocks)]
           /\ Succs(f, n) = {e}
           /\ \A c \in g.blocks : Succs(f, c) = IF c \in B /\ e \in Succs(g, c)
                                                THEN (Succs(g, c) \ {e}) \cup {n} ELSE Succs(g, c)
           /\ Preds(f, n) = Preds(g, e) \cap B
           /\ Preds(f, e) = (Preds(g, e) \ B) \cup {n}
           /\ \A c \in g.blocks : c # e => Preds(f, c) = Preds(g, c)
           /\ Len(f.succ[n]) = 1
           /\ \A c \in g.blocks : Len(f.succ[c]) = Len(g.succ[c])
<1>10. /\ e \in g.blocks /\ n \notin g.blocks /\ n # NoBlock
       /\ f.blocks = g.blocks \cup {n} /\ f.entry = g.entry
       /\ f.succ = [c \in f.blocks |-> f.succ[c]]
  BY DEF IsDiverted
<1>1. /\ f.succ[n] = <<e>>
      /\ \A c \in g.blocks : f.succ[c] = [x \in DOMAIN g.succ[c] |->
                                 IF c \in B /\ g.succ[c][x] = e THEN n ELSE g.succ[c][x]]
  BY DEF IsDiverted
<1>0. \A c \in g.blocks : Succs(g, c) \subseteq g.blocks
  BY DEF IsGraph
<1>2. Succs(f, n) = {e}
  BY <1>1 DEF Succs
<1>3. ASSUME NEW c \in g.blocks
      PROVE  Succs(f, c) = IF c \in B /\ e \in Succs(g, c)
                           THEN (Succs(g, c) \ {e}) \cup {n} ELSE Succs(g, c)
  <2> DEFINE s == g.succ[c]
             h == [x \in DOMAIN s |-> IF c \in B /\ s[x] = e THEN n ELSE s[x]]
  <2>1. Succs(f, c) = {h[x] : x \in DOMAIN s} /\ Succs(g, c) = {s[x] : x \in DOMAIN s}
    <3>1. f.succ[c] = h /\ DOMAIN h = DOMAIN s
      BY <1>1
    <3> HIDE DEF h
    <3> QED
      BY <3>1 DEF Succs
  <2>2. \A x \in DOMAIN s : h[x] = IF c \in B /\ s[x] = e THEN n ELSE s[x]
    OBVIOUS
  <2> HIDE DEF h, s
  <2>3. CASE c \in B /\ e \in Succs(g, c)
    <3>1. PICK x \in DOMAIN s : s[x] = e
      BY <2>1, <2>3
    <3>2. n \in Succs(f, c) /\ e \notin Succs(f, c)
      BY <1>10, <2>1, <2>2, <2>3, <3>1
    <3>3. \A y : y # n /\ y # e => (y \in Succs(f, c) <=> y \in Succs(g, c))
      BY <2>1, <2>2, <2>3
    <3>4. n \notin Succs(g, c)
      BY <1>0, <1>10
    <3>5. \A y : y \in Succs(f, c) <=> y \in (Succs(g, c) \ {e}) \cup {n}
      BY <3>2, <3>3, <3>4
    <3> QED
      BY <2>3, <3>5
  <2>4. CASE ~(c \in B /\ e \in Succs(g, c))
    BY <2>1, <2>2, <2>4
  <2> QED
    BY <2>3, <2>4
<1>4. IsGraph(f)
  <2>1. IsFiniteSet(f.blocks)
    <3>1. IsFiniteSet(g.blocks)
      BY DEF IsGraph
    <3>2. IsFiniteSet(g.blocks \cup {n})
      BY <3>1, FS_AddElement
    <3> QED
      BY <1>10, <3>2
  <2>2. \A c \in f.blocks : Succs(f, c) \subseteq f.blocks
    BY SMTT(20), <1>0, <1>2, <1>3, <1>10
  <2> QED
    BY <1>10, <2>1, <2>2 DEF IsGraph
<1>5. ASSUME NEW c \in g.blocks PROVE f.succ[c] \in Seq(f.blocks) /\ Len(f.succ[c]) = Len(g.succ[c])
  <2>1. g.succ[c] \in Seq(g.blocks)
    OBVIOUS
  <2>4. n \in f.blocks /\ g.blocks \subseteq f.blocks
    BY <1>10
  <2>2. DOMAIN g.succ[c] = 1..Len(g.succ[c]) /\ Len(g.succ[c]) \in Nat
        /\ \A x \in DOMAIN g.succ[c] : g.succ[c][x] \in g.blocks
    BY <2>1
  <2>3. f.succ[c] = [x \in 1..Len(g.succ[c]) |->
                       IF c \in B /\ g.succ[c][x] = e THEN n ELSE g.succ[c][x]]
    BY <1>1, <2>2
  <2>5. \A m \in Nat : \A h \in [1..m -> f.blocks] : h \in Seq(f.blocks) /\ Len(h) = m
    OBVIOUS
  <2>6. f.succ[c] \in [1..Len(g.succ[c]) -> f.blocks]
    BY <2>2, <2>3, <2>4
  <2> QED
    BY <2>2, <2>5, <2>6
<1>6. f.succ \in [f.blocks -> Seq(f.blocks)] /\ Len(f.succ[n]) = 1
  <2>1. f.succ[n] \in Seq(f.blocks) /\ Len(f.succ[n]) = 1
    BY <1>1, <1>10
  <2>2. \A c \in f.blocks : f.succ[c] \in Seq(f.blocks)
    BY <1>5, <1>10, <2>1
  <2>3. f.succ = [c \in f.blocks |-> f.succ[c]]
    BY <1>10
  <2> QED
    BY <2>1, <2>2, <2>3
<1>7. Preds(f, n) = Preds(g, e) \cap B
  BY <1>0, <1>2, <1>3, <1>10 DEF Preds
<1>8. Preds(f, e) = (Preds(g, e) \ B) \cup {n}
  BY <1>0, <1>2, <1>3, <1>10 DEF Preds
<1>9. ASSUME NEW c \in g.blocks, c # e PROVE Preds(f, c) = Preds(g, c)
  <2>1. \A p \in g.blocks : c \in Succs(f, p) <=> c \in Succs(g, p)
    BY <1>3, <1>9, <1>10
  <2>2. c \notin Succs(f, n)
    BY <1>2, <1>9
  <2> QED
    BY <1>10, <2>1, <2>2 DEF Preds
<1> QED
  BY <1>2, <1>3, <1>4, <1>5, <1>6, <1>7, <1>8, <1>9

(* The blocks before any other block are those they were. *)
LEMMA DivertedPreds ==
    ASSUME NEW g, IsGraph(g), g.succ \in [g.blocks -> Seq(g.blocks)],
           NEW f, NEW B, NEW e, NEW n, IsDiverted(f, g, B, e, n),
           NEW c \in g.blocks, c # e
    PROVE  Preds(f, c) = Preds(g, c)
BY DivertedIs

(* What dominated a block still does; the second half of a split block      *)
(* dominates what the block did.                                            *)
LEMMA SplitDominates ==
    ASSUME NEW g, IsGraph(g), g.succ \in [g.blocks -> Seq(g.blocks)],
           NEW f, NEW b, NEW n, IsSplit(f, g, b, n)
    PROVE  /\ \A a \in g.blocks : \A c \in g.blocks : Dominates(g, a, c) => Dominates(f, a, c)
           /\ \A a \in g.blocks : Dominates(g, a, b) => Dominates(f, a, n)
           /\ \A c \in g.blocks \ {b} : Dominates(g, b, c) => Dominates(f, n, c)
<1>0. /\ b \in g.blocks /\ n \notin g.blocks /\ f.blocks = g.blocks \cup {n}
      /\ f.entry = g.entry /\ f.entry \in g.blocks /\ {f.entry} \in SUBSET f.blocks
      /\ {g.entry} \in SUBSET g.blocks
  BY DEF IsSplit, IsGraph
<1>1. /\ IsGraph(f)
      /\ Succs(f, b) = {n} /\ Succs(f, n) = Succs(g, b)
      /\ \A c \in g.blocks \ {b} : Succs(f, c) = Succs(g, c)
  BY SplitIs
<1>9. IsGraph(f) /\ {f.entry} \in SUBSET f.blocks /\ {g.entry} \in SUBSET g.blocks
  BY <1>0, <1>1
<1>2. ASSUME NEW a \in g.blocks
      PROVE  /\ \A c \in g.blocks : Dominates(g, a, c) => Dominates(f, a, c)
             /\ Dominates(g, a, b) => Dominates(f, a, n)
  <2> DEFINE R == ReachAvoid(g, {g.entry}, {a})
  <2>1. /\ R \subseteq g.blocks \ {a} /\ {g.entry} \ {a} \subseteq R
        /\ \A c \in R : Succs(g, c) \ {a} \subseteq R
    BY <1>9, ReachAvoidIsClosed
  <2> HIDE DEF R
  <2> DEFINE T == R \cup {x \in {n} : b \in R}
  <2>2. \A c \in T : c \in f.blocks \ {a} => Succs(f, c) \ {a} \subseteq T
    BY <1>0, <1>1, <2>1
  <2>3. {f.entry} \ {a} \subseteq T
    BY <1>0, <2>1
  <2> HIDE DEF T
  <2>4. ReachAvoid(f, {f.entry}, {a}) \subseteq T
    BY <1>9, <2>2, <2>3, ReachAvoidIsLeast
  <2> QED
    BY <1>0, <2>1, <2>4 DEF T, R, Dominates
<1>3. ASSUME NEW c \in g.blocks \ {b}, Dominates(g, b, c) PROVE Dominates(f, n, c)
  <2> DEFINE R == ReachAvoid(g, {g.entry}, {b})
  <2>1. /\ R \subseteq g.blocks \ {b} /\ {g.entry} \ {b} \subseteq R
        /\ \A x \in R : Succs(g, x) \ {b} \subseteq R
    BY <1>9, ReachAvoidIsClosed
  <2>0. c \notin R
    BY <1>3 DEF Dominates
  <2> HIDE DEF R
  <2> DEFINE T == R \cup {b}
  <2>2. \A x \in T : x \in f.blocks \ {n} => Succs(f, x) \ {n} \subseteq T
    BY <1>0, <1>1, <2>1
  <2>3. {f.entry} \ {n} \subseteq T
    BY <1>0, <2>1
  <2> HIDE DEF T
  <2>4. ReachAvoid(f, {f.entry}, {n}) \subseteq T
    BY <1>9, <2>2, <2>3, ReachAvoidIsLeast
  <2> QED
    BY <1>0, <1>3, <2>0, <2>4 DEF T, Dominates
<1> QED
  BY <1>2, <1>3

LEMMA DivertedDominates ==
    ASSUME NEW g, IsGraph(g), g.succ \in [g.blocks -> Seq(g.blocks)],
           NEW f, NEW B, NEW e, NEW n, IsDiverted(f, g, B, e, n)
    PROVE  \A a \in g.blocks : \A c \in g.blocks : Dominates(g, a, c) => Dominates(f, a, c)
<1>0. /\ e \in g.blocks /\ n \notin g.blocks /\ f.blocks = g.blocks \cup {n}
      /\ f.entry = g.entry /\ f.entry \in g.blocks /\ {f.entry} \in SUBSET f.blocks
      /\ {g.entry} \in SUBSET g.blocks
  BY DEF IsDiverted, IsGraph
<1>1. /\ IsGraph(f) /\ Succs(f, n) = {e}
      /\ \A c \in g.blocks : Succs(f, c) = IF c \in B /\ e \in Succs(g, c)
                                           THEN (Succs(g, c) \ {e}) \cup {n} ELSE Succs(g, c)
  BY DivertedIs
<1>9. IsGraph(f) /\ {f.entry} \in SUBSET f.blocks /\ {g.entry} \in SUBSET g.blocks
  BY <1>0, <1>1
<1>2. ASSUME NEW a \in g.blocks
      PROVE  \A c \in g.blocks : Dominates(g, a, c) => Dominates(f, a, c)
  <2> DEFINE R == ReachAvoid(g, {g.entry}, {a})
  <2>1. /\ R \subseteq g.blocks \ {a} /\ {g.entry} \ {a} \subseteq R
        /\ \A c \in R : Succs(g, c) \ {a} \subseteq R
    BY <1>9, ReachAvoidIsClosed
  <2> HIDE DEF R
  <2> DEFINE T == R \cup {x \in {n} : e \in R \cup {a}}
  <2>2. ASSUME NEW c \in T, c \in f.blocks \ {a}, NEW d \in Succs(f, c) \ {a} PROVE d \in T
    <3>1. CASE c = n
      BY <1>0, <1>1, <2>1, <2>2, <3>1
    <3>2. CASE c \in R
      <4>1. c \in g.blocks /\ Succs(g, c) \subseteq R \cup {a}
        BY <2>1, <3>2
      <4>2. d \in Succs(g, c) \/ (d = n /\ e \in Succs(g, c))
        BY <1>1, <2>2, <4>1
      <4> QED
        BY <2>2, <4>1, <4>2
    <3> QED
      BY <2>2, <3>1, <3>2
  <2>3. {f.entry} \ {a} \subseteq T
    BY <1>0, <2>1
  <2> HIDE DEF T
  <2>4. ReachAvoid(f, {f.entry}, {a}) \subseteq T
    BY <1>9, <2>2, <2>3, ReachAvoidIsLeast
  <2> QED
    BY <1>0, <2>1, <2>4 DEF T, R, Dominates
<1> QED
  BY <1>2

(* And returns can still be reached.                                        *)
LEMMA SplitReturns ==
    ASSUME NEW g, IsGraph(g), g.succ \in [g.blocks -> Seq(g.blocks)], MayReturn(g),
           NEW f, NEW b, NEW n, IsSplit(f, g, b, n)
    PROVE  MayReturn(f)
<1>0. /\ b \in g.blocks /\ n \notin g.blocks /\ f.blocks = g.blocks \cup {n}
      /\ f.succ[b] = <<n>> /\ f.succ[n] = g.succ[b]
      /\ \A c \in g.blocks \ {b} : f.succ[c] = g.succ[c]
  BY DEF IsSplit
<1>1. /\ IsGraph(f)
      /\ Succs(f, b) = {n} /\ Succs(f, n) = Succs(g, b)
      /\ \A c \in g.blocks \ {b} : Succs(f, c) = Succs(g, c)
  BY SplitIs
<1>2. ASSUME NEW c \in g.blocks PROVE Exits(f) \cap ReachAvoid(f, {c}, {}) # {}
  <2> DEFINE R == ReachAvoid(f, {c}, {})
             T == {x \in g.blocks : x \in R}
  <2>0. {c} \in SUBSET f.blocks /\ {c} \in SUBSET g.blocks
    BY <1>0
  <2>1. c \in R /\ \A x \in R : Succs(f, x) \subseteq R
    BY <1>1, <2>0, ReachAvoidIsClosed
  <2> HIDE DEF R
  <2>2. \A x \in T : x \in g.blocks => Succs(g, x) \subseteq T
    <3>1. \A x \in g.blocks : Succs(g, x) \subseteq g.blocks
      BY DEF IsGraph
    <3> QED
      BY <1>0, <1>1, <2>1, <3>1
  <2> HIDE DEF T
  <2>3. ReachAvoid(g, {c}, {}) \subseteq T
    <3>1. {c} \ {} \subseteq T
      BY <2>1 DEF T
    <3>2. \A x \in T : x \in g.blocks \ {} => Succs(g, x) \ {} \subseteq T
      BY <2>2
    <3> QED
      BY <2>0, <3>1, <3>2, ReachAvoidIsLeast
  <2>4. PICK x \in Exits(g) : x \in T
    BY <2>3 DEF MayReturn
  <2>5. x \in g.blocks /\ x \in R /\ g.succ[x] = <<>>
    BY <2>4 DEF T, Exits
  <2>6. x = b => n \in R
    BY <1>1, <2>1, <2>5
  <2>7. (x = b /\ n \in Exits(f)) \/ x \in Exits(f)
    BY <1>0, <2>5 DEF Exits
  <2> QED
    BY <2>5, <2>6, <2>7 DEF R
<1>3. Exits(f) \cap ReachAvoid(f, {n}, {}) # {}
  <2>1. PICK x \in Exits(f) : x \in ReachAvoid(f, {b}, {})
    BY <1>0, <1>2
  <2>2. b \in f.blocks /\ b \notin {} /\ b \notin Exits(f)
    <3>1. <<n>> # <<>>
      OBVIOUS
    <3> QED
      BY <1>0, <3>1 DEF Exits
  <2>3. x \in ReachAvoid(f, {b}, {}) \ {b}
    BY <2>1, <2>2
  <2>4. x \in ReachAvoid(f, Succs(f, b), {} \cup {b})
    BY <1>1, <2>2, <2>3, ReachLast
  <2>5. {} \subseteq {} \cup {b} /\ {n} \in SUBSET f.blocks
    BY <1>0
  <2>6. x \in ReachAvoid(f, {n}, {})
    BY <1>1, <2>4, <2>5, ReachLess
  <2> QED
    BY <2>1, <2>6
<1> QED
  BY <1>0, <1>2, <1>3 DEF MayReturn

LEMMA DivertedReturns ==
    ASSUME NEW g, IsGraph(g), g.succ \in [g.blocks -> Seq(g.blocks)], MayReturn(g),
           NEW f, NEW B, NEW e, NEW n, IsDiverted(f, g, B, e, n)
    PROVE  MayReturn(f)
<1>0. /\ e \in g.blocks /\ n \notin g.blocks /\ f.blocks = g.blocks \cup {n}
  BY DEF IsDiverted
<1>1. /\ IsGraph(f) /\ Succs(f, n) = {e}
      /\ \A c \in g.blocks : Succs(f, c) = IF c \in B /\ e \in Succs(g, c)
                                           THEN (Succs(g, c) \ {e}) \cup {n} ELSE Succs(g, c)
      /\ \A c \in g.blocks : Len(f.succ[c]) = Len(g.succ[c])
      /\ f.succ \in [f.blocks -> Seq(f.blocks)]
  BY DivertedIs
<1>2. ASSUME NEW c \in g.blocks PROVE Exits(f) \cap ReachAvoid(f, {c}, {}) # {}
  <2> DEFINE R == ReachAvoid(f, {c}, {})
             T == {x \in g.blocks : x \in R}
  <2>0. {c} \in SUBSET f.blocks /\ {c} \in SUBSET g.blocks
    BY <1>0
  <2>1. c \in R /\ \A x \in R : Succs(f, x) \subseteq R
    BY <1>1, <2>0, ReachAvoidIsClosed
  <2> HIDE DEF R
  <2>2. ASSUME NEW x \in T, NEW y \in Succs(g, x) PROVE y \in T
    <3>1. y \in g.blocks /\ x \in g.blocks /\ x \in R
      BY <2>2 DEF IsGraph
    <3>2. y \in Succs(f, x) \/ (y = e /\ n \in Succs(f, x))
      BY <1>1, <2>2, <3>1
    <3>3. n \in R => e \in R
      BY <1>1, <2>1
    <3> QED
      BY <2>1, <3>1, <3>2, <3>3
  <2> HIDE DEF T
  <2>3. ReachAvoid(g, {c}, {}) \subseteq T
    <3>1. {c} \ {} \subseteq T
      BY <2>1 DEF T
    <3>2. \A x \in T : x \in g.blocks \ {} => Succs(g, x) \ {} \subseteq T
      BY <2>2
    <3> QED
      BY <2>0, <3>1, <3>2, ReachAvoidIsLeast
  <2>4. PICK x \in Exits(g) : x \in T
    BY <2>3 DEF MayReturn
  <2>5. x \in g.blocks /\ x \in R /\ g.succ[x] = <<>>
    BY <2>4 DEF T, Exits
  <2>6. f.succ[x] \in Seq(f.blocks) /\ Len(f.succ[x]) = 0
    BY <1>0, <1>1, <2>5
  <2>7. f.succ[x] = <<>>
    BY <2>6
  <2>8. x \in Exits(f)
    BY <1>0, <2>5, <2>7 DEF Exits
  <2> QED
    BY <2>5, <2>8 DEF R
<1>3. Exits(f) \cap ReachAvoid(f, {n}, {}) # {}
  <2>1. PICK x \in Exits(f) : x \in ReachAvoid(f, {e}, {})
    BY <1>0, <1>2
  <2>2. n \in f.blocks \ {} /\ e \in f.blocks \ {} /\ {n} \in SUBSET f.blocks
    BY <1>0
  <2>3. n \in ReachAvoid(f, {n}, {})
    BY <1>1, <2>2, ReachItself
  <2>4. e \in ReachAvoid(f, {n}, {})
    BY <1>1, <2>2, <2>3, ReachNext
  <2>5. x \in ReachAvoid(f, {n}, {})
    BY <1>1, <2>1, <2>2, <2>4, ReachOn
  <2> QED
    BY <2>1, <2>5
<1> QED
  BY <1>0, <1>2, <1>3 DEF MayReturn

----------------------------------------------------------------------------
(* Kernels that were changed. *)

Shape(k) ==
    /\ IsGraph(k) /\ MayReturn(k)
    /\ k.blocks \subseteq Nat
    /\ k.succ \in [k.blocks -> Seq(k.blocks)]
    /\ IsFiniteSet(k.insts)
    /\ \A i \in k.insts : i \in Nat \ {Const} /\ i % Gap = 0
    /\ k.parent \in [k.insts -> k.blocks]
    /\ k.kind \in [k.insts -> {"phi", "inst", "br"}]

(* The blocks D with n for b. *)
RenamedBlocks(D, b, n) == {IF q = b THEN n ELSE q : q \in D}

(* The values `old' with n for b. *)
IsRenamed(ops, old, b, n) ==
    /\ DOMAIN ops = RenamedBlocks(DOMAIN old, b, n)
    /\ \A p \in DOMAIN ops : \E q \in DOMAIN old :
          ops[p] = old[q] /\ ((p = n /\ q = b) \/ (p = q /\ q # b))

(* A phi that is told of n in place of b has the values it had.             *)
LEMMA RenamedIs ==
    ASSUME NEW k, NEW b, NEW n, NEW i \in k.insts, k.kind[i] = "phi",
           n \notin DOMAIN k.ops[i], NEW B, b \in DOMAIN k.ops[i] => k.parent[i] \in B,
           NEW ops, ops = RenamedIncoming(k, B, b, n)[i]
    PROVE  IsRenamed(ops, k.ops[i], b, n)
<1> DEFINE D == DOMAIN k.ops[i]
           N == {IF q = b THEN n ELSE q : q \in D}
<1>0. N = RenamedBlocks(D, b, n)
  BY DEF RenamedBlocks
<1>1. CASE k.parent[i] \in B
  <2>1. ops = [p \in N |-> k.ops[i][IF p = n /\ b \in D THEN b ELSE p]]
    BY <1>1 DEF RenamedIncoming
  <2>2. ASSUME NEW p \in N
        PROVE  \E q \in D : ops[p] = k.ops[i][q] /\ ((p = n /\ q = b) \/ (p = q /\ q # b))
    <3>1. PICK q \in D : p = IF q = b THEN n ELSE q
      OBVIOUS
    <3>2. ops[p] = k.ops[i][IF p = n /\ b \in D THEN b ELSE p]
      BY <2>1
    <3> HIDE DEF N
    <3>3. CASE q = b
      BY <3>1, <3>2, <3>3
    <3>4. CASE q # b
      <4>1. p = q /\ p # n
        BY <3>1, <3>4
      <4> QED
        BY <3>2, <3>4, <4>1
    <3> QED
      BY <3>3, <3>4
  <2>3. DOMAIN ops = N
    BY <2>1
  <2> QED
    BY <1>0, <2>2, <2>3 DEF IsRenamed
<1>2. CASE k.parent[i] \notin B
  <2>1. ops = k.ops[i] /\ b \notin D
    BY <1>2 DEF RenamedIncoming
  <2>2. N = D
    BY <2>1
  <2> QED
    BY <1>0, <2>1, <2>2 DEF IsRenamed
<1> QED
  BY <1>1, <1>2

(* What SplitBlock changes of the instructions.                             *)
LEMMA SplitBlockIs ==
    ASSUME NEW k, Shape(k), SSA(k), NEW b \in k.blocks, NEW moved \in SUBSET NonPhis(k, b),
           NEW n, n = NewBlock(k), NEW f, f = SplitBlock(k, b, moved, n)
    PROVE  /\ IsSplit(f, k, b, n)
           /\ f.insts = k.insts /\ f.kind = k.kind
           /\ f.parent = [i \in k.insts |-> IF i \in moved THEN n ELSE k.parent[i]]
           /\ \A i \in k.insts : k.kind[i] # "phi" => f.ops[i] = k.ops[i]
           /\ \A i \in k.insts : k.kind[i] = "phi" => IsRenamed(f.ops[i], k.ops[i], b, n)
           /\ \A i \in k.insts : Operands(f, i) \subseteq Operands(k, i)
<1>1. n \in Nat \ k.blocks /\ n # NoBlock
  BY NewBlockIsNew DEF Shape
<1>2. /\ f.insts = k.insts /\ f.kind = k.kind
      /\ f.parent = [i \in k.insts |-> IF i \in moved THEN n ELSE k.parent[i]]
      /\ f.ops = RenamedIncoming(k, Succs(k, b), b, n)
  BY DEF SplitBlock
<1>3. IsSplit(f, k, b, n)
  BY <1>1 DEF SplitBlock, IsSplit
<1>4. \A i \in k.insts : k.kind[i] # "phi" => f.ops[i] = k.ops[i]
  BY <1>2 DEF RenamedIncoming
<1>5. ASSUME NEW i \in k.insts, k.kind[i] = "phi"
      PROVE  IsRenamed(f.ops[i], k.ops[i], b, n)
  <2>1. DOMAIN k.ops[i] = Preds(k, k.parent[i])
    BY <1>5 DEF SSA
  <2>2. n \notin DOMAIN k.ops[i]
    BY <1>1, <2>1 DEF Preds
  <2>3. b \in DOMAIN k.ops[i] => k.parent[i] \in Succs(k, b)
    BY <2>1 DEF Preds
  <2>4. f.ops[i] = RenamedIncoming(k, Succs(k, b), b, n)[i]
    BY <1>2
  <2> DEFINE S == Succs(k, b)
  <2>5. /\ i \in k.insts /\ k.kind[i] = "phi" /\ n \notin DOMAIN k.ops[i]
        /\ b \in DOMAIN k.ops[i] => k.parent[i] \in S
        /\ f.ops[i] = RenamedIncoming(k, S, b, n)[i]
    BY <1>5, <2>2, <2>3, <2>4
  <2> HIDE DEF S
  <2> QED
    BY ONLY <2>5, RenamedIs
<1>6. ASSUME NEW i \in k.insts PROVE Operands(f, i) \subseteq Operands(k, i)
  BY <1>4, <1>5 DEF Operands, IsRenamed
<1> QED
  BY <1>2, <1>3, <1>4, <1>5, <1>6

(* The moved instructions are the last ones. *)
IsTail(k, b, moved) ==
    /\ moved \subseteq NonPhis(k, b) /\ BranchOf(k, b) \subseteq moved
    /\ \A o \in moved : \A u \in Insts(k, b) : Before(k, o, u) => u \in moved

LEMMA SplitKeepsSSA ==
    ASSUME NEW k, Shape(k), SSA(k), NEW b \in k.blocks, NEW moved, IsTail(k, b, moved),
           NEW n, n = NewBlock(k), NEW f, f = SplitBlock(k, b, moved, n)
    PROVE  Shape(f) /\ SSA(f)
<1> USE DEF RenamedBlocks, IsRenamed
<1>1. moved \in SUBSET NonPhis(k, b)
  BY DEF IsTail
<1>3. /\ IsSplit(f, k, b, n)
      /\ f.insts = k.insts /\ f.kind = k.kind
      /\ f.parent = [i \in k.insts |-> IF i \in moved THEN n ELSE k.parent[i]]
      /\ \A i \in k.insts : k.kind[i] # "phi" => f.ops[i] = k.ops[i]
      /\ \A i \in k.insts : k.kind[i] = "phi" => IsRenamed(f.ops[i], k.ops[i], b, n)
      /\ \A i \in k.insts : Operands(f, i) \subseteq Operands(k, i)
  BY <1>1, SplitBlockIs
<1>2. IsSplit(f, k, b, n)
  BY <1>3
<1>4. /\ IsGraph(k) /\ MayReturn(k) /\ k.succ \in [k.blocks -> Seq(k.blocks)]
      /\ k.parent \in [k.insts -> k.blocks] /\ k.blocks \subseteq Nat
  BY DEF Shape
<1>5. n \in Nat \ k.blocks /\ n # NoBlock
  BY <1>4, NewBlockIsNew
<1>6. /\ IsGraph(f) /\ f.succ \in [f.blocks -> Seq(f.blocks)]
      /\ Preds(f, n) = {b}
      /\ \A c \in k.blocks : Preds(f, c) = {IF q = b THEN n ELSE q : q \in Preds(k, c)}
      /\ Len(f.succ[b]) = 1 /\ Len(f.succ[n]) = Len(k.succ[b])
      /\ \A c \in k.blocks \ {b} : Len(f.succ[c]) = Len(k.succ[c])
  BY SMTT(30), <1>2, <1>4, SplitIs
<1>7. MayReturn(f)
  BY <1>2, <1>4, SplitReturns
<1>8. /\ \A a \in k.blocks : \A c \in k.blocks : Dominates(k, a, c) => Dominates(f, a, c)
      /\ \A a \in k.blocks : Dominates(k, a, b) => Dominates(f, a, n)
      /\ \A c \in k.blocks \ {b} : Dominates(k, b, c) => Dominates(f, n, c)
  BY <1>2, <1>4, SplitDominates
<1>9. /\ \A i \in moved : i \in k.insts /\ k.parent[i] = b /\ k.kind[i] # "phi" /\ f.parent[i] = n
      /\ \A i \in k.insts \ moved : f.parent[i] = k.parent[i]
      /\ \A i \in k.insts : k.parent[i] \in k.blocks
  BY <1>1, <1>3, <1>4 DEF NonPhis, Insts, Phis
<1>10. f.blocks = k.blocks \cup {n}
  BY <1>2 DEF IsSplit
<1>11. Shape(f)
  <2>1. f.parent \in [f.insts -> f.blocks]
    BY <1>3, <1>4, <1>10
  <2> QED
    BY <1>3, <1>5, <1>6, <1>7, <1>10, <2>1 DEF Shape
<1>12. ASSUME NEW i \in k.insts, k.kind[i] = "phi" PROVE DOMAIN f.ops[i] = Preds(f, f.parent[i])
  <2>1. f.parent[i] = k.parent[i] /\ k.parent[i] \in k.blocks
    BY <1>9, <1>12
  <2>2. DOMAIN k.ops[i] = Preds(k, k.parent[i])
    BY <1>12 DEF SSA
  <2> QED
    BY ZenonT(60), <1>3, <1>6, <1>12, <2>1, <2>2
<1>13. ASSUME NEW u \in k.insts, NEW o \in Operands(f, u) PROVE o \in k.insts /\ Available(f, o, u)
  <2>1. o \in Operands(k, u)
    BY <1>3
  <2>2. o \in k.insts /\ Available(k, o, u)
    BY <2>1 DEF SSA
  <2> DEFINE a == k.parent[o]
             c == k.parent[u]
  <2>3. a \in k.blocks /\ c \in k.blocks
    BY <1>9, <2>2
  <2>4. CASE k.kind[u] = "phi"
    <3> SUFFICES ASSUME NEW p \in DOMAIN f.ops[u], f.ops[u][p] = o
                 PROVE  Dominates(f, f.parent[o], p)
      BY <1>3, <2>2, <2>4 DEF Available
    <3>1. PICK q \in DOMAIN k.ops[u] :
             f.ops[u][p] = k.ops[u][q] /\ ((p = n /\ q = b) \/ (p = q /\ q # b))
      BY <1>3, <2>4
    <3>2. Dominates(k, a, q)
      BY <2>2, <2>4, <3>1 DEF Available
    <3>3. q \in k.blocks
      BY <2>4 DEF SSA, Preds
    <3>4. CASE o \notin moved
      BY <1>8, <1>9, <2>2, <2>3, <3>1, <3>2, <3>3, <3>4
    <3>5. CASE o \in moved /\ p = n
      BY <1>6, <1>9, <3>5, DominatesItself
    <3>6. CASE o \in moved /\ p # n
      BY <1>8, <1>9, <3>1, <3>2, <3>3, <3>6
    <3> QED
      BY <3>4, <3>5, <3>6
  <2>5. CASE k.kind[u] # "phi"
    <3>1. /\ a = c => Before(k, o, u)
          /\ a # c => Dominates(k, a, c)
      BY <2>2, <2>5 DEF Available
    <3>2. Before(k, o, u) => Before(f, o, u)
      BY <1>3 DEF Before, Rank
    <3>3. Dominates(k, a, a)
      BY <1>4, DominatesItself
    <3>4. CASE f.parent[o] = f.parent[u]
      <4>1. a = c
        BY <1>5, <1>9, <2>2, <2>3, <3>4
      <4> QED
        BY <1>3, <2>2, <2>5, <3>1, <3>2, <3>4, <4>1 DEF Available
    <3>5. CASE f.parent[o] # f.parent[u]
      <4>1. Dominates(f, f.parent[o], f.parent[u])
        <5>1. CASE o \notin moved /\ u \notin moved
          BY <1>8, <1>9, <2>2, <2>3, <3>1, <3>5, <5>1
        <5>2. CASE o \notin moved /\ u \in moved
          BY <1>8, <1>9, <2>2, <2>3, <3>1, <3>3, <5>2
        <5>3. CASE o \in moved /\ u \notin moved
          <6>1. c # b
            <7> SUFFICES ASSUME c = b PROVE FALSE
              OBVIOUS
            <7>1. u \in Insts(k, b) /\ Before(k, o, u)
              BY <1>9, <3>1, <5>3 DEF Insts
            <7> QED
              BY <5>3, <7>1 DEF IsTail
          <6> QED
            BY <1>8, <1>9, <2>3, <3>1, <5>3, <6>1
        <5>4. CASE o \in moved /\ u \in moved
          BY <1>9, <3>5, <5>4
        <5> QED
          BY <5>1, <5>2, <5>3, <5>4
      <4> QED
        BY <1>3, <2>2, <2>5, <3>5, <4>1 DEF Available
    <3> QED
      BY <3>4, <3>5
  <2> QED
    BY <2>2, <2>4, <2>5
<1>14. ASSUME NEW c \in f.blocks
       PROVE  Cardinality({i \in Insts(f, c) : f.kind[i] = "br"})
                 = (IF Len(f.succ[c]) = 2 THEN 1 ELSE 0)
  <2> DEFINE Br(g, d) == {i \in Insts(g, d) : g.kind[i] = "br"}
  <2>0. \A d \in k.blocks : Cardinality(Br(k, d)) = (IF Len(k.succ[d]) = 2 THEN 1 ELSE 0)
    BY DEF SSA
  <2>1. CASE c = n
    <3>1. Br(f, n) = Br(k, b)
      <4>1. \A i \in Br(k, b) : i \in moved
        BY DEF IsTail, BranchOf
      <4>2. \A i \in k.insts : f.parent[i] = n => i \in moved
        BY <1>5, <1>9
      <4> QED
        BY <1>3, <1>9, <4>1, <4>2 DEF Insts
    <3> HIDE DEF Br
    <3>2. Cardinality(Br(f, c)) = (IF Len(f.succ[c]) = 2 THEN 1 ELSE 0)
      BY <1>6, <2>0, <2>1, <3>1
    <3> QED
      BY <3>2 DEF Br
  <2>2. CASE c = b
    <3>1. Br(f, b) = {}
      <4>1. \A i \in Br(k, b) : i \in moved
        BY DEF IsTail, BranchOf
      <4> QED
        BY <1>3, <1>5, <1>9, <4>1 DEF Insts
    <3> HIDE DEF Br
    <3>2. Cardinality(Br(f, c)) = 0
      BY <2>2, <3>1, FS_EmptySet
    <3>3. Len(f.succ[c]) = 1
      BY <1>6, <2>2, Zenon
    <3> QED
      BY <3>2, <3>3 DEF Br
  <2>3. CASE c \in k.blocks \ {b}
    <3>1. Br(f, c) = Br(k, c)
      BY <1>3, <1>5, <1>9, <2>3 DEF Insts
    <3> HIDE DEF Br
    <3>2. Cardinality(Br(f, c)) = (IF Len(f.succ[c]) = 2 THEN 1 ELSE 0)
      BY <1>6, <2>0, <2>3, <3>1
    <3> QED
      BY <3>2 DEF Br
  <2> QED
    BY <1>10, <2>1, <2>2, <2>3
<1>15. SSA(f)
  BY <1>3, <1>12, <1>13, <1>14 DEF SSA
<1> QED
  BY <1>11, <1>15

(* The two phis made of one are new, and no two of them are the same.       *)
LEMMA NewPhisAreNew ==
    ASSUME NEW k, Shape(k), NEW i \in k.insts
    PROVE  /\ NewPhi(k, i) \in Nat \ {Const} /\ ExitPhi(k, i) \in Nat \ {Const}
           /\ NewPhi(k, i) % Gap = 0 /\ ExitPhi(k, i) % Gap = 0
           /\ NewPhi(k, i) \notin k.insts /\ ExitPhi(k, i) \notin k.insts
           /\ \A j \in k.insts : /\ NewPhi(k, i) = NewPhi(k, j) => i = j
                                 /\ ExitPhi(k, i) = ExitPhi(k, j) => i = j
                                 /\ NewPhi(k, i) # ExitPhi(k, j)
<1> DEFINE m == MaxOf(k.insts)
           d == m \div 200
<1>1. \A j \in k.insts : j \in Nat \ {0} /\ j % 200 = 0
  BY DEF Shape, Gap, Const
<1>2. m \in k.insts /\ \A y \in k.insts : y <= m
  <2>1. k.insts \subseteq Nat /\ k.insts # {} /\ IsFiniteSet(k.insts)
    BY <1>1 DEF Shape
  <2> QED
    BY <2>1, FiniteHasMax
<1>3. \A j \in k.insts : /\ NewPhi(k, j) = 200 * d + 2 * j
                         /\ ExitPhi(k, j) = 200 * d + 2 * j + 200
  BY DEF NewPhi, ExitPhi, Gap
<1>4. m \in Nat
  BY <1>1, <1>2
<1> HIDE DEF m
<1>5. d \in Nat /\ m < 200 * d + 200
  BY <1>4
<1> HIDE DEF d
<1>6. \A j \in k.insts : j >= 200 /\ j \in Nat
  BY <1>1
<1>7. \A j \in k.insts : NewPhi(k, j) \in Nat /\ ExitPhi(k, j) \in Nat /\ NewPhi(k, j) > m /\ ExitPhi(k, j) > m
  BY <1>3, <1>4, <1>5, <1>6
<1>8. NewPhi(k, i) \notin k.insts /\ ExitPhi(k, i) \notin k.insts
  BY <1>2, <1>4, <1>6, <1>7
<1>9. NewPhi(k, i) % 200 = 0 /\ ExitPhi(k, i) % 200 = 0
  <2>1. i \in Nat /\ i % 200 = 0
    BY <1>1
  <2>2. (200 * d + 2 * i) % 200 = 0 /\ (200 * d + 2 * i + 200) % 200 = 0
    BY <2>1, <1>5
  <2> QED
    BY <1>3, <2>2
<1>10. ASSUME NEW j \in k.insts
       PROVE  /\ NewPhi(k, i) = NewPhi(k, j) => i = j
              /\ ExitPhi(k, i) = ExitPhi(k, j) => i = j
              /\ NewPhi(k, i) # ExitPhi(k, j)
  <2>1. i \in Nat /\ j \in Nat /\ i % 200 = 0 /\ j % 200 = 0
    BY <1>1
  <2>2. 200 * d + 2 * i # 200 * d + 2 * j + 200
    BY <2>1, <1>5
  <2>3. 200 * d + 2 * i = 200 * d + 2 * j => i = j
    BY <2>1, <1>5
  <2>4. 200 * d + 2 * i + 200 = 200 * d + 2 * j + 200 => i = j
    BY <2>1, <1>5
  <2> QED
    BY <1>3, <2>2, <2>3, <2>4
<1>11. NewPhi(k, i) # 0 /\ ExitPhi(k, i) # 0
  BY <1>4, <1>7
<1> QED
  BY <1>7, <1>8, <1>9, <1>10, <1>11 DEF Gap, Const

(* What isolateRegion changes of the instructions. *)
IsIsolated(f, k, B, e, n) ==
    LET old   == Phis(k, e)
        Replaced(o) == IF o \in old THEN ExitPhi(k, o) ELSE o
    IN  /\ IsDiverted(f, k, B, e, n)
        /\ f.insts = (k.insts \ old) \cup {NewPhi(k, i) : i \in old} \cup {ExitPhi(k, i) : i \in old}
        /\ \A j \in k.insts \ old :
              /\ f.parent[j] = k.parent[j] /\ f.kind[j] = k.kind[j]
              /\ f.ops[j] = [x \in DOMAIN k.ops[j] |-> Replaced(k.ops[j][x])]
        /\ \A i \in old :
              /\ f.parent[NewPhi(k, i)] = n /\ f.kind[NewPhi(k, i)] = "phi"
              /\ f.ops[NewPhi(k, i)] = [b \in DOMAIN k.ops[i] \cap B |-> Replaced(k.ops[i][b])]
              /\ f.parent[ExitPhi(k, i)] = e /\ f.kind[ExitPhi(k, i)] = "phi"
              /\ f.ops[ExitPhi(k, i)] =
                    [b \in (DOMAIN k.ops[i] \ B) \cup {n} |->
                        IF b = n THEN NewPhi(k, i) ELSE Replaced(k.ops[i][b])]

LEMMA IsolatedIs ==
    ASSUME NEW k, Shape(k), NEW r, r.exiting \in k.blocks,
           NEW n, n = NewBlock(k), NEW f, f = Isolated(k, r, n)
    PROVE  /\ IsIsolated(f, k, r.blocks, r.exiting, n)
           /\ f.parent \in [f.insts -> f.blocks] /\ f.kind \in [f.insts -> {"phi", "inst", "br"}]
<1> DEFINE e     == r.exiting
           B     == r.blocks
           old   == Phis(k, e)
           new   == {NewPhi(k, i) : i \in old}
           exits == {ExitPhi(k, i) : i \in old}
           kept  == k.insts \ old
           Source(j) == CHOOSE i \in old : j \in {NewPhi(k, i), ExitPhi(k, i)}
           Replaced(o) == IF o \in old THEN ExitPhi(k, o) ELSE o
           Ops(j) ==
               CASE j \in new ->
                      [b \in DOMAIN k.ops[Source(j)] \cap B |-> Replaced(k.ops[Source(j)][b])]
                 [] j \in exits ->
                      [b \in (DOMAIN k.ops[Source(j)] \ B) \cup {n} |->
                          IF b = n THEN NewPhi(k, Source(j)) ELSE Replaced(k.ops[Source(j)][b])]
                 [] OTHER -> [x \in DOMAIN k.ops[j] |-> Replaced(k.ops[j][x])]
<1>0. old \subseteq k.insts
  BY DEF Phis
<1>1. \A i \in old : /\ NewPhi(k, i) \notin k.insts /\ ExitPhi(k, i) \notin k.insts
                     /\ \A j \in old : /\ NewPhi(k, i) = NewPhi(k, j) => i = j
                                       /\ ExitPhi(k, i) = ExitPhi(k, j) => i = j
                                       /\ NewPhi(k, i) # ExitPhi(k, j)
  BY <1>0, NewPhisAreNew
<1>2. n \in Nat \ k.blocks /\ n # NoBlock
  BY NewBlockIsNew DEF Shape
<1>3. /\ f.blocks = k.blocks \cup {n} /\ f.entry = k.entry
      /\ f.succ = [b \in k.blocks \cup {n} |->
                       IF b = n THEN <<e>>
                       ELSE [x \in DOMAIN k.succ[b] |->
                               IF b \in B /\ k.succ[b][x] = e THEN n ELSE k.succ[b][x]]]
  BY SMTT(20) DEF Isolated
<1>4. /\ f.insts = kept \cup new \cup exits
      /\ f.parent = [j \in kept \cup new \cup exits |->
                         CASE j \in new -> n [] j \in exits -> e [] OTHER -> k.parent[j]]
      /\ f.kind = [j \in kept \cup new \cup exits |-> IF j \in kept THEN k.kind[j] ELSE "phi"]
      /\ f.ops = [j \in kept \cup new \cup exits |-> Ops(j)]
  BY SMTT(60) DEF Isolated, ReplacementPhi
<1>5. IsDiverted(f, k, B, e, n)
  BY <1>2, <1>3 DEF IsDiverted
<1>6. \A i \in old : /\ NewPhi(k, i) \in new /\ NewPhi(k, i) \notin exits /\ NewPhi(k, i) \notin kept
                     /\ ExitPhi(k, i) \in exits /\ ExitPhi(k, i) \notin new /\ ExitPhi(k, i) \notin kept
  BY <1>1
<1>7. \A j \in kept : j \notin new /\ j \notin exits
  BY <1>1
<1>8. \A i \in old : Source(NewPhi(k, i)) = i /\ Source(ExitPhi(k, i)) = i
  <2> SUFFICES ASSUME NEW i \in old PROVE Source(NewPhi(k, i)) = i /\ Source(ExitPhi(k, i)) = i
    OBVIOUS
  <2>1. \A x \in old : NewPhi(k, i) \in {NewPhi(k, x), ExitPhi(k, x)} <=> x = i
    BY <1>1
  <2>2. \A x \in old : ExitPhi(k, i) \in {NewPhi(k, x), ExitPhi(k, x)} <=> x = i
    BY <1>1
  <2> HIDE DEF old
  <2> QED
    BY <2>1, <2>2
<1>9. ASSUME NEW j \in kept
      PROVE  /\ f.parent[j] = k.parent[j] /\ f.kind[j] = k.kind[j]
             /\ f.ops[j] = [x \in DOMAIN k.ops[j] |-> Replaced(k.ops[j][x])]
  <2> HIDE DEF old, new, exits, kept, Replaced, Source
  <2> QED
    BY <1>4, <1>7, <1>9
<1>10. ASSUME NEW i \in old
       PROVE  /\ f.parent[NewPhi(k, i)] = n /\ f.kind[NewPhi(k, i)] = "phi"
              /\ f.ops[NewPhi(k, i)] = [b \in DOMAIN k.ops[i] \cap B |-> Replaced(k.ops[i][b])]
              /\ f.parent[ExitPhi(k, i)] = e /\ f.kind[ExitPhi(k, i)] = "phi"
              /\ f.ops[ExitPhi(k, i)] =
                    [b \in (DOMAIN k.ops[i] \ B) \cup {n} |->
                        IF b = n THEN NewPhi(k, i) ELSE Replaced(k.ops[i][b])]
  <2> HIDE DEF old, new, exits, kept, Replaced, Source
  <2>1. f.parent[NewPhi(k, i)] = n /\ f.kind[NewPhi(k, i)] = "phi"
        /\ f.parent[ExitPhi(k, i)] = e /\ f.kind[ExitPhi(k, i)] = "phi"
    BY <1>4, <1>6
  <2>2. f.ops[NewPhi(k, i)] = [b \in DOMAIN k.ops[i] \cap B |-> Replaced(k.ops[i][b])]
    BY <1>4, <1>6, <1>8
  <2>3. f.ops[ExitPhi(k, i)] = [b \in (DOMAIN k.ops[i] \ B) \cup {n} |->
                                   IF b = n THEN NewPhi(k, i) ELSE Replaced(k.ops[i][b])]
    BY <1>4, <1>6, <1>8
  <2> QED
    BY <2>1, <2>2, <2>3
<1>11. /\ f.parent \in [f.insts -> f.blocks] /\ f.kind \in [f.insts -> {"phi", "inst", "br"}]
  <2>1. \A j \in kept : k.parent[j] \in k.blocks /\ k.kind[j] \in {"phi", "inst", "br"}
    BY DEF Shape
  <2> HIDE DEF old, new, exits, kept
  <2> QED
    BY <1>3, <1>4, <2>1
<1> QED
  BY <1>4, <1>5, <1>9, <1>10, <1>11 DEF IsIsolated

(* Isolating a region keeps a kernel in SSA form.                           *)
LEMMA IsolatedKeepsSSA ==
    ASSUME NEW k, Shape(k), SSA(k), NEW r, r.exiting \in k.blocks,
           NEW n, n = NewBlock(k), NEW f, f = Isolated(k, r, n)
    PROVE  Shape(f) /\ SSA(f)
<1> DEFINE e     == r.exiting
           B     == r.blocks
           old   == Phis(k, e)
           kept  == k.insts \ old
           new   == {NewPhi(k, i) : i \in old}
           exits == {ExitPhi(k, i) : i \in old}
           Replaced(o) == IF o \in old THEN ExitPhi(k, o) ELSE o
<1>1. IsIsolated(f, k, B, e, n) /\ f.parent \in [f.insts -> f.blocks] /\ f.kind \in [f.insts -> {"phi", "inst", "br"}]
  BY IsolatedIs
<1>2. /\ IsDiverted(f, k, B, e, n)
      /\ f.insts = kept \cup new \cup exits
      /\ \A j \in kept : /\ f.parent[j] = k.parent[j] /\ f.kind[j] = k.kind[j]
                         /\ f.ops[j] = [x \in DOMAIN k.ops[j] |-> Replaced(k.ops[j][x])]
      /\ \A i \in old :
            /\ f.parent[NewPhi(k, i)] = n /\ f.kind[NewPhi(k, i)] = "phi"
            /\ f.ops[NewPhi(k, i)] = [b \in DOMAIN k.ops[i] \cap B |-> Replaced(k.ops[i][b])]
            /\ f.parent[ExitPhi(k, i)] = e /\ f.kind[ExitPhi(k, i)] = "phi"
            /\ f.ops[ExitPhi(k, i)] =
                  [b \in (DOMAIN k.ops[i] \ B) \cup {n} |->
                      IF b = n THEN NewPhi(k, i) ELSE Replaced(k.ops[i][b])]
  BY <1>1 DEF IsIsolated
<1> HIDE DEF e, B, old, kept, new, exits, Replaced
<1>3. IsDiverted(f, k, B, e, n)
  BY <1>2
<1>4. /\ IsGraph(k) /\ MayReturn(k) /\ k.succ \in [k.blocks -> Seq(k.blocks)]
      /\ k.parent \in [k.insts -> k.blocks] /\ k.blocks \subseteq Nat /\ IsFiniteSet(k.insts)
      /\ e \in k.blocks
  BY DEF Shape, e
<1>5. n \in Nat \ k.blocks /\ n # NoBlock
  BY <1>4, NewBlockIsNew
<1>24. /\ \A u \in f.insts : u \in kept \/ (\E j \in old : u = NewPhi(k, j)) \/ (\E j \in old : u = ExitPhi(k, j))
       /\ \A j \in old : NewPhi(k, j) \in f.insts /\ ExitPhi(k, j) \in f.insts
       /\ kept \subseteq f.insts
  BY <1>2 DEF new, exits
<1>25. ASSUME NEW u \in kept
       PROVE  /\ u \in k.insts /\ u \notin old
              /\ DOMAIN f.ops[u] = DOMAIN k.ops[u]
              /\ \A b \in DOMAIN k.ops[u] : f.ops[u][b] = Replaced(k.ops[u][b])
  <2>1. f.ops[u] = [x \in DOMAIN k.ops[u] |-> Replaced(k.ops[u][x])]
    BY <1>2
  <2> QED
    BY <2>1 DEF kept
<1>26. ASSUME NEW j \in old
       PROVE  /\ DOMAIN f.ops[NewPhi(k, j)] = DOMAIN k.ops[j] \cap B
              /\ \A b \in DOMAIN k.ops[j] \cap B : f.ops[NewPhi(k, j)][b] = Replaced(k.ops[j][b])
  <2>1. f.ops[NewPhi(k, j)] = [b \in DOMAIN k.ops[j] \cap B |-> Replaced(k.ops[j][b])]
    BY <1>2
  <2> QED
    BY <2>1
<1>27. ASSUME NEW j \in old
       PROVE  /\ DOMAIN f.ops[ExitPhi(k, j)] = (DOMAIN k.ops[j] \ B) \cup {n}
              /\ f.ops[ExitPhi(k, j)][n] = NewPhi(k, j)
              /\ \A b \in DOMAIN k.ops[j] \ B : b # n => f.ops[ExitPhi(k, j)][b] = Replaced(k.ops[j][b])
  <2>1. f.ops[ExitPhi(k, j)] = [b \in (DOMAIN k.ops[j] \ B) \cup {n} |->
                      IF b = n THEN NewPhi(k, j) ELSE Replaced(k.ops[j][b])]
    BY <1>2
  <2> QED
    BY <2>1
<1>28. \A u \in old : /\ f.parent[NewPhi(k, u)] = n /\ f.kind[NewPhi(k, u)] = "phi"
                      /\ f.parent[ExitPhi(k, u)] = e /\ f.kind[ExitPhi(k, u)] = "phi"
  BY <1>2
<1>29. \A j \in kept : f.parent[j] = k.parent[j] /\ f.kind[j] = k.kind[j]
  BY <1>2
<1>6. /\ IsGraph(f) /\ f.succ \in [f.blocks -> Seq(f.blocks)]
      /\ Preds(f, n) = Preds(k, e) \cap B
      /\ Preds(f, e) = (Preds(k, e) \ B) \cup {n}
      /\ \A c \in k.blocks : c # e => Preds(f, c) = Preds(k, c)
      /\ Len(f.succ[n]) = 1
      /\ \A c \in k.blocks : Len(f.succ[c]) = Len(k.succ[c])
  <2>1. /\ IsGraph(f) /\ f.succ \in [f.blocks -> Seq(f.blocks)]
        /\ Len(f.succ[n]) = 1
        /\ \A c \in k.blocks : Len(f.succ[c]) = Len(k.succ[c])
    BY SMTT(30), <1>3, <1>4, DivertedIs
  <2>2. Preds(f, n) = Preds(k, e) \cap B
    BY <1>3, <1>4, DivertedIs
  <2>3. Preds(f, e) = (Preds(k, e) \ B) \cup {n}
    BY <1>3, <1>4, DivertedIs
  <2>4. ASSUME NEW c \in k.blocks, c # e PROVE Preds(f, c) = Preds(k, c)
    <3>1. /\ IsGraph(k) /\ k.succ \in [k.blocks -> Seq(k.blocks)] /\ c \in k.blocks /\ c # e
          /\ IsDiverted(f, k, B, e, n)
      BY <1>3, <1>4, <2>4
    <3> QED
      BY ONLY <3>1, DivertedPreds
  <2> QED
    BY <2>1, <2>2, <2>3, <2>4
<1>7. MayReturn(f)
  BY <1>3, <1>4, DivertedReturns
<1>8. \A a \in k.blocks : \A c \in k.blocks : Dominates(k, a, c) => Dominates(f, a, c)
  BY <1>3, <1>4, DivertedDominates
<1>9. f.blocks = k.blocks \cup {n}
  BY <1>3 DEF IsDiverted
<1>10. /\ old \subseteq k.insts
       /\ \A i \in old : k.kind[i] = "phi" /\ k.parent[i] = e
       /\ \A i \in k.insts : k.parent[i] \in k.blocks
  BY <1>4 DEF Phis, old
<1>11. \A i \in old : /\ NewPhi(k, i) \in Nat \ {Const} /\ ExitPhi(k, i) \in Nat \ {Const}
                      /\ NewPhi(k, i) % Gap = 0 /\ ExitPhi(k, i) % Gap = 0
                      /\ NewPhi(k, i) \notin k.insts /\ ExitPhi(k, i) \notin k.insts
  BY <1>10, NewPhisAreNew
<1>12. \A i \in k.insts : i \in Nat \ {Const} /\ i % Gap = 0
  BY DEF Shape
<1>13. Shape(f)
  <2>1. IsFiniteSet(f.insts)
    <3>1. IsFiniteSet(old) /\ IsFiniteSet(kept)
      BY <1>4, <1>10, FS_Subset DEF kept
    <3>2. IsFiniteSet(new)
      <4> DEFINE h == [i \in old |-> NewPhi(k, i)]
      <4>1. h \in Surjection(old, new)
        BY DEF Surjection, new
      <4> HIDE DEF h
      <4> QED
        BY <3>1, <4>1, FS_Surjection
    <3>3. IsFiniteSet(exits)
      <4> DEFINE h == [i \in old |-> ExitPhi(k, i)]
      <4>1. h \in Surjection(old, exits)
        BY DEF Surjection, exits
      <4> HIDE DEF h
      <4> QED
        BY <3>1, <4>1, FS_Surjection
    <3>4. IsFiniteSet(kept \cup new)
      BY <3>1, <3>2, FS_Union
    <3>5. IsFiniteSet(kept \cup new \cup exits)
      BY <3>3, <3>4, FS_Union
    <3> QED
      BY <1>2, <3>5
  <2>2. \A i \in f.insts : i \in Nat \ {Const} /\ i % Gap = 0
    BY <1>11, <1>12, <1>24 DEF kept
  <2>3. f.blocks \subseteq Nat
    BY <1>4, <1>5, <1>9
  <2> QED
    BY <1>1, <1>6, <1>7, <2>1, <2>2, <2>3 DEF Shape
<1>14. \A o \in k.insts : /\ Replaced(o) \in f.insts /\ f.parent[Replaced(o)] = k.parent[o]
                          /\ f.kind[Replaced(o)] = k.kind[o]
                          /\ k.kind[o] # "phi" => Replaced(o) = o
  BY <1>10, <1>24, <1>28, <1>29 DEF kept, Replaced
<1>15. Replaced(Const) = Const
  BY <1>10, <1>12 DEF Replaced
<1>16. \A i \in k.insts : k.kind[i] = "phi" => DOMAIN k.ops[i] = Preds(k, k.parent[i])
  BY DEF SSA
<1>17. \A i \in k.insts : \A o \in Operands(k, i) : o \in k.insts /\ Available(k, o, i)
  BY DEF SSA
<1>18. ASSUME NEW i \in f.insts, f.kind[i] = "phi" PROVE DOMAIN f.ops[i] = Preds(f, f.parent[i])
  <2>1. CASE i \in kept
    <3>1. i \in k.insts /\ k.kind[i] = "phi" /\ i \notin old
      BY <1>18, <1>25, <1>29, <2>1
    <3>2. k.parent[i] # e
      BY <3>1 DEF Phis, old
    <3> QED
      BY <1>6, <1>10, <1>16, <1>25, <1>29, <2>1, <3>1, <3>2
  <2>2. ASSUME NEW j \in old, i = NewPhi(k, j) PROVE DOMAIN f.ops[i] = Preds(f, f.parent[i])
    <3>1. DOMAIN k.ops[j] = Preds(k, e)
      BY <1>10, <1>16
    <3> QED
      BY <1>6, <1>26, <1>28, <2>2, <3>1
  <2>3. ASSUME NEW j \in old, i = ExitPhi(k, j) PROVE DOMAIN f.ops[i] = Preds(f, f.parent[i])
    <3>1. DOMAIN k.ops[j] = Preds(k, e)
      BY <1>10, <1>16
    <3> QED
      BY <1>6, <1>27, <1>28, <2>3, <3>1
  <2> QED
    BY <1>24, <2>1, <2>2, <2>3
<1>19. ASSUME NEW u \in k.insts, k.kind[u] = "phi", NEW b \in DOMAIN k.ops[u],
              Replaced(k.ops[u][b]) # Const
       PROVE  /\ Replaced(k.ops[u][b]) \in f.insts
              /\ Dominates(f, f.parent[Replaced(k.ops[u][b])], b)
  <2> DEFINE o == k.ops[u][b]
  <2>1. o \in Operands(k, u)
    BY <1>15, <1>19 DEF Operands
  <2>2. o \in k.insts /\ Available(k, o, u)
    BY <1>17, <2>1
  <2>3. Dominates(k, k.parent[o], b)
    BY <1>19, <2>2 DEF Available
  <2>4. b \in k.blocks
    BY <1>16, <1>19 DEF Preds
  <2> QED
    BY <1>8, <1>10, <1>14, <2>2, <2>3, <2>4
<1>20. ASSUME NEW u \in f.insts, f.kind[u] = "phi", NEW b \in DOMAIN f.ops[u], f.ops[u][b] # Const
       PROVE  f.ops[u][b] \in f.insts /\ Dominates(f, f.parent[f.ops[u][b]], b)
  <2>1. CASE u \in kept
    <3>1. u \in k.insts /\ k.kind[u] = "phi" /\ b \in DOMAIN k.ops[u] /\ f.ops[u][b] = Replaced(k.ops[u][b])
      BY <1>20, <1>25, <1>29, <2>1
    <3> QED
      BY <1>19, <1>20, <3>1
  <2>2. ASSUME NEW j \in old, u = NewPhi(k, j)
        PROVE  f.ops[u][b] \in f.insts /\ Dominates(f, f.parent[f.ops[u][b]], b)
    <3>1. b \in DOMAIN k.ops[j] /\ f.ops[u][b] = Replaced(k.ops[j][b])
      BY <1>20, <1>26, <2>2
    <3> QED
      BY <1>10, <1>19, <1>20, <3>1
  <2>3. ASSUME NEW j \in old, u = ExitPhi(k, j)
        PROVE  f.ops[u][b] \in f.insts /\ Dominates(f, f.parent[f.ops[u][b]], b)
    <3>1. b \in (DOMAIN k.ops[j] \ B) \cup {n}
          /\ f.ops[u][b] = IF b = n THEN NewPhi(k, j) ELSE Replaced(k.ops[j][b])
      BY <1>20, <1>27, <2>3
    <3>2. CASE b = n
      <4>1. f.ops[u][b] \in f.insts /\ f.parent[f.ops[u][b]] = n
        BY <1>24, <1>28, <2>3, <3>1, <3>2
      <4>2. n \in f.blocks
        BY <1>9
      <4>3. Dominates(f, n, n)
        BY <1>6, <4>2, DominatesItself
      <4> QED
        BY <3>2, <4>1, <4>3
    <3>3. CASE b # n
      BY <1>10, <1>19, <1>20, <3>1, <3>3
    <3> QED
      BY <3>2, <3>3
  <2> QED
    BY <1>24, <2>1, <2>2, <2>3
<1>21. ASSUME NEW u \in f.insts, NEW x \in Operands(f, u) PROVE x \in f.insts /\ Available(f, x, u)
  <2>0. x # Const /\ \E y \in DOMAIN f.ops[u] : x = f.ops[u][y]
    BY <1>21 DEF Operands
  <2>1. CASE f.kind[u] = "phi"
    BY <1>20, <2>0, <2>1 DEF Available
  <2>2. CASE f.kind[u] # "phi"
    <3>1. u \in kept /\ u \in k.insts /\ k.kind[u] = f.kind[u] /\ f.parent[u] = k.parent[u]
      BY <1>24, <1>25, <1>28, <1>29, <2>2
    <3>2. PICK y \in DOMAIN k.ops[u] : x = Replaced(k.ops[u][y])
      BY <1>25, <2>0, <3>1
    <3> DEFINE o == k.ops[u][y]
    <3>3. o \in Operands(k, u)
      BY <1>15, <2>0, <3>2 DEF Operands
    <3>4. o \in k.insts /\ Available(k, o, u)
      BY <1>17, <3>1, <3>3
    <3>5. /\ k.parent[o] = k.parent[u] => Before(k, o, u)
          /\ k.parent[o] # k.parent[u] => Dominates(k, k.parent[o], k.parent[u])
      BY <2>2, <3>1, <3>4 DEF Available
    <3> HIDE DEF o
    <3>6. x \in f.insts /\ f.parent[x] = k.parent[o] /\ f.kind[x] = k.kind[o]
          /\ (k.kind[o] # "phi" => x = o)
      BY <1>14, <3>2, <3>4 DEF o
    <3>7. Before(k, o, u) => Before(f, x, u)
      BY <3>1, <3>6 DEF Before, Rank
    <3> QED
      BY <1>8, <1>10, <2>2, <3>1, <3>4, <3>5, <3>6, <3>7 DEF Available
  <2> QED
    BY <2>1, <2>2
<1>22. ASSUME NEW c \in f.blocks
       PROVE  Cardinality({i \in Insts(f, c) : f.kind[i] = "br"})
                 = (IF Len(f.succ[c]) = 2 THEN 1 ELSE 0)
  <2> DEFINE Br(g, d) == {i \in Insts(g, d) : g.kind[i] = "br"}
  <2>0. \A d \in k.blocks : Cardinality(Br(k, d)) = (IF Len(k.succ[d]) = 2 THEN 1 ELSE 0)
    BY DEF SSA
  <2>4. \A i \in f.insts : f.kind[i] = "br" => i \in kept
    BY <1>24, <1>28
  <2>1. CASE c = n
    <3>1. Br(f, n) = {}
      BY <1>5, <1>10, <1>25, <1>29, <2>4 DEF Insts
    <3> HIDE DEF Br
    <3>2. Cardinality(Br(f, c)) = 0
      BY <2>1, <3>1, FS_EmptySet
    <3>3. Len(f.succ[c]) = 1
      BY <1>6, <2>1, Zenon
    <3> QED
      BY <3>2, <3>3 DEF Br
  <2>2. CASE c \in k.blocks
    <3>1. Br(f, c) = Br(k, c)
      <4>1. \A i \in k.insts : k.kind[i] = "br" => i \in kept
        BY <1>10 DEF kept
      <4> QED
        BY <1>24, <1>25, <1>29, <2>4, <4>1 DEF Insts
    <3> HIDE DEF Br
    <3>2. Cardinality(Br(f, c)) = (IF Len(f.succ[c]) = 2 THEN 1 ELSE 0)
      BY <1>6, <2>0, <2>2, <3>1
    <3> QED
      BY <3>2 DEF Br
  <2> QED
    BY <1>9, <2>1, <2>2
<1>23. SSA(f)
  BY <1>18, <1>21, <1>22 DEF SSA
<1> QED
  BY <1>13, <1>23

----------------------------------------------------------------------------
(* What the pass splits blocks at. *)

LEMMA BranchIsTail ==
    ASSUME NEW k, Shape(k), NEW b
    PROVE  IsTail(k, b, BranchOf(k, b))
<1>1. BranchOf(k, b) \in SUBSET NonPhis(k, b)
  BY DEF BranchOf, NonPhis, Insts, Phis
<1>2. ASSUME NEW o \in BranchOf(k, b), NEW u \in Insts(k, b), Before(k, o, u) PROVE FALSE
  <2>1. k.kind[o] = "br" /\ k.kind[u] \in {"phi", "inst", "br"}
    BY DEF BranchOf, Insts, Shape
  <2> QED
    BY <1>2, <2>1 DEF Before, Rank
<1> QED
  BY <1>1, <1>2 DEF IsTail

LEMMA NonPhisAreTail ==
    ASSUME NEW k, Shape(k), NEW b
    PROVE  IsTail(k, b, NonPhis(k, b))
<1>1. BranchOf(k, b) \subseteq NonPhis(k, b)
  BY DEF BranchOf, NonPhis, Insts, Phis
<1>2. ASSUME NEW o \in NonPhis(k, b), NEW u \in Insts(k, b), Before(k, o, u) PROVE u \in NonPhis(k, b)
  <2>1. k.kind[o] \in {"inst", "br"}
    BY DEF NonPhis, Insts, Phis, Shape
  <2>2. k.kind[u] # "phi"
    BY <1>2, <2>1 DEF Before, Rank
  <2> QED
    BY <2>2 DEF NonPhis, Phis
<1> QED
  BY <1>1, <1>2 DEF IsTail

LEMMA PostDomTreeIs ==
    ASSUME NEW g, IsGraph(g), MayReturn(g)
    PROVE  PostDomTree(g) \in [g.blocks -> g.blocks \cup {NoBlock}]
<1>1. \A b \in g.blocks : ImmPostDom(g, b) \in g.blocks \cup {NoBlock}
  BY ImmPostDomIsNearest
<1> QED
  BY <1>1 DEF PostDomTree

LEMMA ExitBlockIs ==
    ASSUME NEW g, NEW L
    PROVE  ExitBlock(g, L) \in g.blocks \cup {NoBlock}
<1> DEFINE edges == {e \in L \X (g.blocks \ L) : e[2] \in Succs(g, e[1])}
<1>1. CASE Cardinality(edges) = 1
  <2>1. edges # {}
    <3>1. Cardinality({}) = 0
      BY FS_EmptySet
    <3> QED
      BY <1>1, <3>1
  <2>2. (CHOOSE e \in edges : TRUE) \in edges
    BY <2>1
  <2>3. (CHOOSE e \in edges : TRUE)[2] \in g.blocks
    BY <2>2
  <2> QED
    BY <1>1, <2>3 DEF ExitBlock
<1>2. CASE Cardinality(edges) # 1
  BY <1>2 DEF ExitBlock
<1> QED
  BY <1>1, <1>2

LEMMA SplitBlocks ==
    ASSUME NEW k, NEW b, NEW moved, NEW n
    PROVE  SplitBlock(k, b, moved, n).blocks = k.blocks \cup {n}
BY DEF SplitBlock

(* Regions of blocks of a kernel; the exiting block may be NULL.            *)
RegionsOf(k) ==
    [header : k.blocks, exiting : k.blocks \cup {NoBlock}, blocks : SUBSET (k.blocks \cup {NoBlock})]

LEMMA RegionIs ==
    ASSUME NEW k, IsGraph(k), NEW header \in k.blocks, NEW exiting \in k.blocks \cup {NoBlock}
    PROVE  Region(k, header, exiting) \in RegionsOf(k)
<1>1. ReachAvoid(k, {header}, {exiting}) \subseteq k.blocks
  BY ReachAvoidIsClosed
<1>2. ListBlocks(k, header, exiting) \subseteq k.blocks \cup {NoBlock}
  BY <1>1 DEF ListBlocks
<1> QED
  BY <1>2 DEF Region, RegionsOf

(* A function over 1..m is a sequence, whatever is done to its elements.    *)
LEMMA SequenceOf ==
    ASSUME NEW m \in Nat, NEW S, NEW s \in [1..m -> S]
    PROVE  s \in Seq(S) /\ Len(s) = m /\ DOMAIN s = 1..m
  OBVIOUS

----------------------------------------------------------------------------
(* The inductive invariant: the kernel is one the passes can work on, the   *)
(* regions are made of its blocks, the tree is that of its blocks whenever  *)
(* it is used, and the region in hand has an exiting block.                 *)
ExtractionInv ==
    /\ Shape(kernel) /\ SSA(kernel)
    /\ regions \in Seq(RegionsOf(kernel))
    /\ cur \in Nat \ {0}
    /\ pc = "extract" => pdt \in [kernel.blocks -> kernel.blocks \cup {NoBlock}]
    /\ pc = "isolate" => cur \in DOMAIN regions /\ regions[cur].exiting \in kernel.blocks

LEMMA InitExtraction == Init => ExtractionInv
<1> SUFFICES ASSUME Init PROVE ExtractionInv
  OBVIOUS
<1>1. kernel \in Kernels /\ pdt = PostDomTree(kernel) /\ pc = "extract" /\ cur = 1
  BY DEF Init
<1>2. Shape(kernel) /\ SSA(kernel) /\ TidsIn(kernel, Direction) \in SUBSET kernel.insts
  BY <1>1, KernelsAssumption DEF Shape
<1>3. pdt \in [kernel.blocks -> kernel.blocks \cup {NoBlock}]
  BY <1>1, <1>2, PostDomTreeIs DEF Shape
<1>4. PICK order \in BranchOrders(kernel, pdt, TidsIn(kernel, Direction)) :
         regions = [n \in DOMAIN order |-> BranchRegion(kernel, pdt, LoopForest(kernel), order[n])]
  BY DEF Init
<1> DEFINE D    == Dependents(kernel, pdt, TidsIn(kernel, Direction))
           brs  == {i \in D : kernel.kind[i] = "br"}
           m    == Cardinality(brs)
<1>5. D \subseteq kernel.insts
  BY <1>2, DependentsIsLeast DEF Shape
<1>6. order \in [1..m -> brs]
  BY <1>4 DEF BranchOrders
<1>7. m \in Nat
  <2>1. IsFiniteSet(brs)
    BY <1>2, <1>5, FS_Subset DEF Shape
  <2> QED
    BY <2>1, FS_CardinalityType
<1>8. ASSUME NEW i \in kernel.insts
      PROVE  BranchRegion(kernel, pdt, LoopForest(kernel), i) \in RegionsOf(kernel)
  <2>1. kernel.parent[i] \in kernel.blocks /\ IsGraph(kernel)
    BY <1>2 DEF Shape
  <2>2. pdt[kernel.parent[i]] \in kernel.blocks \cup {NoBlock}
    BY <1>3, <2>1
  <2>3. LoopExitBlock(kernel, kernel.parent[i]) \in kernel.blocks \cup {NoBlock}
    BY ExitBlockIs DEF LoopExitBlock
  <2> QED
    BY <2>1, <2>2, <2>3, RegionIs DEF BranchRegion
<1> HIDE DEF m
<1>9. regions \in [1..m -> RegionsOf(kernel)]
  <2>1. \A x \in 1..m : order[x] \in kernel.insts
    BY <1>5, <1>6
  <2>2. DOMAIN order = 1..m
    BY <1>6
  <2> QED
    BY <1>4, <1>8, <2>1, <2>2
<1>10. regions \in Seq(RegionsOf(kernel))
  BY <1>7, <1>9, SequenceOf
<1> QED
  BY <1>1, <1>2, <1>3, <1>10 DEF ExtractionInv

LEMMA ExtractKeepsInv == ExtractionInv /\ ExtractBranches => ExtractionInv'
<1> SUFFICES ASSUME ExtractionInv, ExtractBranches PROVE ExtractionInv'
  OBVIOUS
<1> DEFINE header     == regions[cur].header
           exiting    == ExitingOf(header)
           split      == ~IsHeader(header)
           newHeader  == IF split THEN NewBlock(kernel) ELSE header
           k1         == IF split THEN SplitBlock(kernel, header, BranchOf(kernel, header), newHeader)
                         ELSE kernel
           newExiting == NewBlock(k1)
           k2         == SplitBlock(k1, exiting, NonPhis(k1, exiting), newExiting)
<1>1. /\ pc = "extract" /\ cur <= Len(regions) /\ exiting # NoBlock
      /\ kernel' = k2
      /\ regions' = [HeadersMoved(regions, exiting, newExiting) EXCEPT
                        ![cur] = Region(k2, newHeader, exiting)]
      /\ pc' = "isolate" /\ cur' = cur
  BY DEF ExtractBranches
<1>2. /\ Shape(kernel) /\ SSA(kernel) /\ regions \in Seq(RegionsOf(kernel)) /\ cur \in Nat \ {0}
      /\ pdt \in [kernel.blocks -> kernel.blocks \cup {NoBlock}]
  BY <1>1 DEF ExtractionInv
<1>3. cur \in DOMAIN regions
  BY <1>1, <1>2
<1>4. header \in kernel.blocks
  <2>1. regions[cur] \in RegionsOf(kernel)
    BY <1>2, <1>3
  <2> QED
    BY <2>1 DEF RegionsOf
<1>5. exiting \in kernel.blocks
  <2>1. ExitBlock(kernel, loops[header]) \in kernel.blocks \cup {NoBlock}
    BY ExitBlockIs
  <2> QED
    BY <1>1, <1>2, <1>4, <2>1 DEF ExitingOf
<1> HIDE DEF header, exiting
<1>6. Shape(k1) /\ SSA(k1) /\ kernel.blocks \subseteq k1.blocks /\ newHeader \in k1.blocks
  <2>1. CASE split
    <3>1. IsTail(kernel, header, BranchOf(kernel, header))
      BY <1>2, BranchIsTail
    <3>2. newHeader = NewBlock(kernel) /\ k1 = SplitBlock(kernel, header, BranchOf(kernel, header), newHeader)
      BY <2>1
    <3>3. Shape(k1) /\ SSA(k1)
      BY <1>2, <1>4, <3>1, <3>2, SplitKeepsSSA
    <3>4. k1.blocks = kernel.blocks \cup {newHeader}
      BY <3>2, SplitBlocks
    <3> QED
      BY <3>3, <3>4
  <2>2. CASE ~split
    BY <1>2, <1>4, <2>2
  <2> QED
    BY <2>1, <2>2
<1> HIDE DEF k1, newHeader, split
<1>7. Shape(k2) /\ SSA(k2) /\ k2.blocks = k1.blocks \cup {newExiting}
  <2>1. IsTail(k1, exiting, NonPhis(k1, exiting))
    BY <1>6, NonPhisAreTail
  <2>2. exiting \in k1.blocks
    BY <1>5, <1>6
  <2>3. Shape(k2) /\ SSA(k2)
    BY <1>6, <2>1, <2>2, SplitKeepsSSA
  <2> QED
    BY <2>3, SplitBlocks
<1>8. exiting \in k2.blocks /\ newExiting \in k2.blocks /\ kernel.blocks \subseteq k2.blocks /\ newHeader \in k2.blocks
  BY <1>5, <1>6, <1>7
<1> HIDE DEF k2, newExiting
<1> DEFINE h == HeadersMoved(regions, exiting, newExiting)
           r == Region(k2, newHeader, exiting)
<1>9. r \in RegionsOf(k2) /\ r.exiting = exiting
  <2>1. r \in RegionsOf(k2)
    BY <1>7, <1>8, RegionIs DEF Shape
  <2> QED
    BY <2>1 DEF Region
<1>10. h \in [1..Len(regions) -> RegionsOf(k2)]
  <2>1. DOMAIN regions = 1..Len(regions) /\ \A x \in DOMAIN regions : regions[x] \in RegionsOf(kernel)
    BY <1>2
  <2>2. \A x \in DOMAIN regions : regions[x] \in RegionsOf(k2)
    BY <1>8, <2>1 DEF RegionsOf
  <2>3. \A x \in DOMAIN regions : [regions[x] EXCEPT !.header = newExiting] \in RegionsOf(k2)
    BY <1>8, <2>2 DEF RegionsOf
  <2>4. h = [x \in 1..Len(regions) |->
                IF regions[x].header = exiting THEN [regions[x] EXCEPT !.header = newExiting] ELSE regions[x]]
    BY <2>1 DEF HeadersMoved
  <2> QED
    BY <2>1, <2>2, <2>3, <2>4
<1>11. regions' \in [1..Len(regions) -> RegionsOf(k2)] /\ regions'[cur] = r
  <2>1. regions' = [h EXCEPT ![cur] = r] /\ cur \in 1..Len(regions)
    BY <1>1, <1>2, <1>3
  <2> HIDE DEF h, r
  <2> QED
    BY <1>9, <1>10, <2>1
<1>12. regions' \in Seq(RegionsOf(kernel')) /\ cur' \in DOMAIN regions'
  <2>1. Len(regions) \in Nat /\ kernel' = k2
    BY <1>1, <1>2
  <2>2. regions' \in Seq(RegionsOf(k2)) /\ DOMAIN regions' = 1..Len(regions)
    BY <1>11, <2>1, SequenceOf
  <2> QED
    BY <1>1, <1>2, <1>3, <2>1, <2>2
<1> QED
  BY <1>1, <1>2, <1>7, <1>8, <1>9, <1>11, <1>12 DEF ExtractionInv

LEMMA FinishKeepsInv ==
    ASSUME ExtractionInv, NEW k, Shape(k), SSA(k), kernel.blocks \subseteq k.blocks,
           NEW header \in k.blocks, NEW exiting \in k.blocks,
           pc = "isolate", FinishIteration(k, header, exiting)
    PROVE  ExtractionInv'
<1> DEFINE r == Region(k, header, exiting)
<1>1. /\ kernel' = k /\ regions' = [regions EXCEPT ![cur] = r]
      /\ pdt' = PostDomTree(k) /\ pc' = "extract" /\ cur' = cur + 1
  BY DEF FinishIteration
<1>2. cur \in Nat \ {0} /\ regions \in Seq(RegionsOf(kernel))
  BY DEF ExtractionInv
<1>3. r \in RegionsOf(k)
  BY RegionIs DEF Shape
<1>4. pdt' \in [k.blocks -> k.blocks \cup {NoBlock}]
  BY <1>1, PostDomTreeIs DEF Shape
<1>5. \A s \in RegionsOf(kernel) : s \in RegionsOf(k)
  BY DEF RegionsOf
<1>6. regions' \in [1..Len(regions) -> RegionsOf(k)]
  <2> HIDE DEF r
  <2>1. regions \in [1..Len(regions) -> RegionsOf(kernel)]
    BY <1>2
  <2>2. regions \in [1..Len(regions) -> RegionsOf(k)]
    BY <1>5, <2>1
  <2> QED
    BY <1>1, <1>3, <2>2
<1>7. Len(regions) \in Nat
  BY <1>2
<1>8. regions' \in Seq(RegionsOf(k))
  BY <1>6, <1>7, SequenceOf
<1> QED
  BY <1>1, <1>2, <1>4, <1>8 DEF ExtractionInv

LEMMA IsolateKeepsInv == ExtractionInv /\ (BailOut \/ IsolateRegion) => ExtractionInv'
<1> SUFFICES ASSUME ExtractionInv, BailOut \/ IsolateRegion PROVE ExtractionInv'
  OBVIOUS
<1>1. /\ Shape(kernel) /\ SSA(kernel) /\ pc = "isolate"
      /\ regions[cur].header \in kernel.blocks /\ regions[cur].exiting \in kernel.blocks
  <2>1. pc = "isolate"
    BY DEF BailOut, IsolateRegion
  <2>2. cur \in DOMAIN regions /\ regions[cur].exiting \in kernel.blocks /\ regions \in Seq(RegionsOf(kernel))
    BY <2>1 DEF ExtractionInv
  <2>3. regions[cur] \in RegionsOf(kernel)
    BY <2>2
  <2> QED
    BY <2>1, <2>2, <2>3 DEF ExtractionInv, RegionsOf
<1>2. CASE BailOut
  <2>1. FinishIteration(kernel, regions[cur].header, regions[cur].exiting)
    BY <1>2 DEF BailOut
  <2> QED
    BY <1>1, <2>1, FinishKeepsInv
<1>3. CASE IsolateRegion
  <2> DEFINE n == NewBlock(kernel)
             f == Isolated(kernel, regions[cur], n)
  <2>1. FinishIteration(f, regions[cur].header, n)
    BY <1>3 DEF IsolateRegion
  <2>2. Shape(f) /\ SSA(f)
    BY <1>1, IsolatedKeepsSSA
  <2>3. f.blocks = kernel.blocks \cup {n}
    BY DEF Isolated
  <2> HIDE DEF f, n
  <2>4. kernel.blocks \subseteq f.blocks /\ regions[cur].header \in f.blocks /\ n \in f.blocks
    BY <1>1, <2>3
  <2> QED
    BY <1>1, <2>1, <2>2, <2>4, FinishKeepsInv
<1> QED
  BY <1>2, <1>3

LEMMA FillKeepsInv == ExtractionInv /\ FillRegions => ExtractionInv'
<1> SUFFICES ASSUME ExtractionInv, FillRegions PROVE ExtractionInv'
  OBVIOUS
<1>1. /\ kernel' = kernel /\ pc' = "done" /\ cur' = cur
      /\ regions' = [n \in DOMAIN regions |->
                        Region(kernel, regions[n].header, regions[n].exiting)]
  BY DEF FillRegions
<1>2. Shape(kernel) /\ SSA(kernel) /\ cur \in Nat \ {0} /\ regions \in Seq(RegionsOf(kernel))
  BY DEF ExtractionInv
<1>3. ASSUME NEW n \in DOMAIN regions
      PROVE  Region(kernel, regions[n].header, regions[n].exiting) \in RegionsOf(kernel)
  <2>1. regions[n] \in RegionsOf(kernel)
    BY <1>2
  <2>2. regions[n].header \in kernel.blocks /\ regions[n].exiting \in kernel.blocks \cup {NoBlock}
    BY <2>1 DEF RegionsOf
  <2> QED
    BY <1>2, <2>2, RegionIs DEF Shape
<1>4. DOMAIN regions = 1..Len(regions) /\ Len(regions) \in Nat
  BY <1>2
<1>5. regions' \in [1..Len(regions) -> RegionsOf(kernel)]
  BY <1>1, <1>3, <1>4
<1>6. regions' \in Seq(RegionsOf(kernel))
  BY <1>4, <1>5, SequenceOf
<1> QED
  BY <1>1, <1>2, <1>6 DEF ExtractionInv

LEMMA NextKeepsExtraction == ExtractionInv /\ [Next]_vars => ExtractionInv'
<1> SUFFICES ASSUME ExtractionInv, [Next]_vars PROVE ExtractionInv'
  OBVIOUS
<1>1. CASE DereferenceNull
  BY <1>1 DEF DereferenceNull, ExtractionInv
<1>2. CASE ExtractBranches
  BY <1>2, ExtractKeepsInv
<1>3. CASE BailOut \/ IsolateRegion
  BY <1>3, IsolateKeepsInv
<1>4. CASE FillRegions
  BY <1>4, FillKeepsInv
<1>5. CASE Terminated \/ UNCHANGED vars
  BY <1>5 DEF Terminated, vars, ExtractionInv
<1> QED
  BY <1>1, <1>2, <1>3, <1>4, <1>5 DEF Next

(* The kernel is in SSA form at every step of branch extraction, whatever   *)
(* the order of the regions (splitBlock, isolateRegion, createNewPhi in     *)
(* BranchExtraction.cpp), and so is the kernel it leaves behind.            *)
THEOREM ExtractionStaysSSA == Spec => [](SSA(kernel) /\ StaysSSA)
<1>1. ExtractionInv => SSA(kernel) /\ StaysSSA
  BY DEF ExtractionInv, StaysSSA
<1> QED
  BY <1>1, InitExtraction, NextKeepsExtraction, PTL DEF Spec
----------------------------------------------------------------------------
(* Divergence. What post-dominated a block still does when blocks are split *)
(* or edges led through a new one, so branches join where they did: in the  *)
(* same block, or in the new one just before it.                            *)

LEMMA PostDominatesBefore ==
    ASSUME NEW g, IsGraph(g), NEW p, NEW b \in g.blocks \ Exits(g),
           \A c \in Succs(g, b) : PostDominates(g, p, c)
    PROVE  PostDominates(g, p, b)
<1>1. IsTrap(g, Doomed(g, p), p)
  BY DoomedIsTrap
<1>2. Succs(g, b) \subseteq Doomed(g, p)
  BY DEF Doomed, IsGraph
<1>3. IsTrap(g, Doomed(g, p) \cup {b}, p)
  BY <1>1, <1>2 DEF IsTrap
<1> QED
  BY <1>3, TrapIsDoomed DEF Doomed

(* The parent in the post-dominator tree is the only nearest one.           *)
LEMMA NearestIsImmPostDom ==
    ASSUME NEW g, IsGraph(g), MayReturn(g), NEW b \in g.blocks
    PROVE  /\ \A p \in g.blocks \ {b} :
                 /\ PostDominates(g, p, b)
                 /\ \A q \in g.blocks \ {b} : PostDominates(g, q, b) => PostDominates(g, q, p)
                 => ImmPostDom(g, b) = p
           /\ (\A q \in g.blocks \ {b} : ~PostDominates(g, q, b)) => ImmPostDom(g, b) = NoBlock
<1> DEFINE j == ImmPostDom(g, b)
<1>1. \/ /\ j = NoBlock
         /\ \A q \in g.blocks \ {b} : ~PostDominates(g, q, b)
      \/ /\ j \in g.blocks \ {b}
         /\ PostDominates(g, j, b)
         /\ \A q \in g.blocks \ {b} : PostDominates(g, q, b) => PostDominates(g, q, j)
  BY ImmPostDomIsNearest
<1> HIDE DEF j
<1>2. ASSUME NEW p \in g.blocks \ {b}, PostDominates(g, p, b),
             \A q \in g.blocks \ {b} : PostDominates(g, q, b) => PostDominates(g, q, p)
      PROVE  j = p
  <2>1. j \in g.blocks /\ PostDominates(g, j, p) /\ PostDominates(g, p, j)
    BY <1>1, <1>2
  <2> QED
    BY <2>1, PostDominatesOneWay
<1> QED
  BY <1>1, <1>2 DEF j

LEMMA SplitPostDominates ==
    ASSUME NEW g, IsGraph(g), g.succ \in [g.blocks -> Seq(g.blocks)],
           NEW f, NEW b, NEW n, IsSplit(f, g, b, n)
    PROVE  /\ \A q, p \in g.blocks : PostDominates(f, q, p) <=> PostDominates(g, q, p)
           /\ PostDominates(f, n, b)
<1>0. /\ b \in g.blocks /\ n \notin g.blocks /\ f.blocks = g.blocks \cup {n}
      /\ f.succ[b] = <<n>> /\ f.succ[n] = g.succ[b]
      /\ \A c \in g.blocks \ {b} : f.succ[c] = g.succ[c]
  BY DEF IsSplit
<1>1. /\ IsGraph(f)
      /\ Succs(f, b) = {n} /\ Succs(f, n) = Succs(g, b)
      /\ \A c \in g.blocks \ {b} : Succs(f, c) = Succs(g, c)
  BY SplitIs
<1>2. /\ b \notin Exits(f) /\ (n \in Exits(f) <=> b \in Exits(g))
      /\ \A c \in g.blocks \ {b} : c \in Exits(f) <=> c \in Exits(g)
  <2>1. <<n>> # <<>>
    OBVIOUS
  <2> QED
    BY <1>0, <2>1 DEF Exits
<1>3. ASSUME NEW q \in g.blocks, NEW p \in g.blocks, PostDominates(g, q, p)
      PROVE  PostDominates(f, q, p)
  <2> DEFINE D == Doomed(g, q)
             T == D \cup {c \in {n} : b \in D \ {q}}
  <2>1. IsTrap(g, D, q) /\ p \in D
    BY <1>3, DoomedIsTrap DEF Doomed
  <2>2. ASSUME NEW c \in T \ {q} PROVE c \notin Exits(f) /\ Succs(f, c) \subseteq T
    <3> HIDE DEF D
    <3>1. CASE c \in D \ {b}
      BY <1>0, <1>1, <1>2, <2>1, <2>2, <3>1 DEF IsTrap
    <3>2. CASE c = b
      BY <1>0, <1>1, <1>2, <2>1, <2>2, <3>2 DEF IsTrap
    <3>3. CASE c = n
      <4>1. b \in D \ {q}
        BY <1>0, <2>1, <2>2, <3>3 DEF IsTrap
      <4> QED
        BY <1>1, <1>2, <2>1, <3>3, <4>1 DEF IsTrap
    <3> QED
      BY <2>2, <3>1, <3>2, <3>3
  <2>3. T \subseteq f.blocks
    BY <1>0 DEF Doomed
  <2>4. p \in T
    BY <2>1
  <2> HIDE DEF T
  <2>5. T \subseteq Doomed(f, q)
    BY <1>1, <2>2, <2>3, TrapIsDoomed DEF IsTrap
  <2> QED
    BY <2>4, <2>5 DEF Doomed
<1>4. ASSUME NEW q \in g.blocks, NEW p \in g.blocks, PostDominates(f, q, p)
      PROVE  PostDominates(g, q, p)
  <2> DEFINE D == Doomed(f, q)
             T == D \cap g.blocks
  <2>1. IsTrap(f, D, q) /\ p \in D
    BY <1>0, <1>1, <1>4, DoomedIsTrap DEF Doomed
  <2> HIDE DEF D
  <2>2. ASSUME NEW c \in T \ {q} PROVE c \notin Exits(g) /\ Succs(g, c) \subseteq T
    <3>0. Succs(g, c) \subseteq g.blocks
      BY DEF IsGraph
    <3>1. CASE c # b
      BY <1>0, <1>1, <1>2, <2>1, <3>0, <3>1 DEF IsTrap
    <3>2. CASE c = b
      <4>1. n \in D \ {q}
        BY <1>0, <1>1, <2>1, <3>2 DEF IsTrap
      <4> QED
        BY <1>1, <1>2, <2>1, <3>0, <3>2, <4>1 DEF IsTrap
    <3> QED
      BY <3>1, <3>2
  <2>3. T \subseteq Doomed(g, q) /\ p \in T
    <3>1. p \in T /\ T \subseteq g.blocks
      BY <2>1
    <3> HIDE DEF T
    <3> QED
      BY <2>2, <3>1, TrapIsDoomed DEF IsTrap
  <2> QED
    BY <2>3 DEF Doomed
<1>5. PostDominates(f, n, b)
  <2>1. PostDominates(f, n, n)
    BY <1>0, <1>1, PostDominatesItself
  <2> QED
    BY <1>0, <1>1, <1>2, <2>1, PostDominatesBefore
<1> QED
  BY <1>3, <1>4, <1>5

LEMMA SplitJoins ==
    ASSUME NEW g, IsGraph(g), g.succ \in [g.blocks -> Seq(g.blocks)], MayReturn(g),
           NEW f, NEW b, NEW n, IsSplit(f, g, b, n)
    PROVE  /\ \A p \in g.blocks \ {b} : ImmPostDom(f, p) = ImmPostDom(g, p)
           /\ ImmPostDom(f, n) = ImmPostDom(g, b)
<1>0. b \in g.blocks /\ n \notin g.blocks /\ f.blocks = g.blocks \cup {n}
  BY DEF IsSplit
<1>1. IsGraph(f) /\ MayReturn(f) /\ Succs(f, b) = {n}
  BY SplitIs, SplitReturns
<1>2. /\ \A q, p \in g.blocks : PostDominates(f, q, p) <=> PostDominates(g, q, p)
      /\ PostDominates(f, n, b)
  BY SplitPostDominates
<1>3. ASSUME NEW p \in g.blocks \ {b} PROVE ImmPostDom(f, p) = ImmPostDom(g, p)
  <2> DEFINE c == ImmPostDom(g, p)
  <2>1. \/ /\ c = NoBlock
           /\ \A q \in g.blocks \ {p} : ~PostDominates(g, q, p)
        \/ /\ c \in g.blocks \ {p}
           /\ PostDominates(g, c, p)
           /\ \A q \in g.blocks \ {p} : PostDominates(g, q, p) => PostDominates(g, q, c)
    BY ImmPostDomIsNearest
  <2> HIDE DEF c
  <2>2. PostDominates(f, n, p) => PostDominates(f, b, p)
    <3> SUFFICES ASSUME PostDominates(f, n, p) PROVE PostDominates(f, b, p)
      OBVIOUS
    <3> DEFINE T == Doomed(f, n) \ {n}
    <3>1. IsTrap(f, Doomed(f, n), n)
      BY <1>1, DoomedIsTrap
    <3>2. \A d \in f.blocks : n \in Succs(f, d) => d = b
      <4>1. Preds(f, n) = {b}
        BY SplitIs
      <4> QED
        BY <4>1 DEF Preds
    <3>3. IsTrap(f, T, b)
      BY <3>1, <3>2 DEF IsTrap
    <3>4. p \in T
      BY <1>0 DEF Doomed
    <3> HIDE DEF T
    <3> QED
      BY <1>1, <3>3, <3>4, TrapIsDoomed DEF Doomed
  <2>3. CASE c = NoBlock
    <3>0. NoBlock \notin g.blocks
      BY DEF IsGraph
    <3>1. \A q \in f.blocks \ {p} : ~PostDominates(f, q, p)
      BY <1>0, <1>2, <1>3, <2>1, <2>2, <2>3, <3>0
    <3>2. ImmPostDom(f, p) = NoBlock
      BY <1>0, <1>1, <3>1, NearestIsImmPostDom
    <3> QED
      BY <2>3, <3>2 DEF c
  <2>4. CASE c # NoBlock
    <3>1. c \in f.blocks \ {p} /\ PostDominates(f, c, p)
      BY <1>0, <1>2, <2>1, <2>4
    <3>2. ASSUME NEW q \in f.blocks \ {p}, PostDominates(f, q, p) PROVE PostDominates(f, q, c)
      <4>1. CASE q \in g.blocks
        BY <1>2, <2>1, <2>4, <3>2, <4>1
      <4>2. CASE q = n
        <5>1. PostDominates(f, b, c)
          BY <1>0, <1>2, <1>3, <2>1, <2>2, <2>4, <3>2, <4>2
        <5> QED
          BY <1>0, <1>1, <1>2, <3>1, <4>2, <5>1, PostDominatesTransitively
      <4> QED
        BY <1>0, <4>1, <4>2
    <3>3. ImmPostDom(f, p) = c
      BY <1>0, <1>1, <3>1, <3>2, NearestIsImmPostDom
    <3> QED
      BY <3>3 DEF c
  <2> QED
    BY <2>3, <2>4
<1>4. ImmPostDom(f, n) = ImmPostDom(g, b)
  <2> DEFINE c == ImmPostDom(g, b)
  <2>1. \/ /\ c = NoBlock
           /\ \A q \in g.blocks \ {b} : ~PostDominates(g, q, b)
        \/ /\ c \in g.blocks \ {b}
           /\ PostDominates(g, c, b)
           /\ \A q \in g.blocks \ {b} : PostDominates(g, q, b) => PostDominates(g, q, c)
    BY <1>0, ImmPostDomIsNearest
  <2> HIDE DEF c
  <2>2. ASSUME NEW q \in f.blocks \ {n}, PostDominates(f, q, n)
        PROVE  q \in g.blocks \ {b} /\ PostDominates(g, q, b)
    <3>1. q # b
      BY <1>0, <1>1, <1>2, <2>2, PostDominatesOneWay
    <3>2. PostDominates(f, q, b)
      BY <1>0, <1>1, <1>2, <2>2, PostDominatesTransitively
    <3> QED
      BY <1>0, <1>2, <3>1, <3>2
  <2>3. CASE c = NoBlock
    <3>0. NoBlock \notin g.blocks
      BY DEF IsGraph
    <3>1. \A q \in f.blocks \ {n} : ~PostDominates(f, q, n)
      BY <2>1, <2>2, <2>3, <3>0
    <3>2. ImmPostDom(f, n) = NoBlock
      BY <1>0, <1>1, <3>1, NearestIsImmPostDom
    <3> QED
      BY <2>3, <3>2 DEF c
  <2>4. CASE c # NoBlock
    <3>1. c \in f.blocks \ {n, b} /\ c \in g.blocks /\ PostDominates(f, c, b)
      BY <1>0, <1>2, <2>1, <2>4
    <3>2. PostDominates(f, c, n)
      BY <1>0, <1>1, <3>1, PostDominatesSuccs
    <3>3. ASSUME NEW q \in f.blocks \ {n}, PostDominates(f, q, n) PROVE PostDominates(f, q, c)
      BY <1>2, <2>1, <2>2, <2>4, <3>1, <3>3
    <3>4. ImmPostDom(f, n) = c
      BY <1>0, <1>1, <3>1, <3>2, <3>3, NearestIsImmPostDom
    <3> QED
      BY <3>4 DEF c
  <2> QED
    BY <2>3, <2>4
<1> QED
  BY <1>3, <1>4

LEMMA DivertedJoins ==
    ASSUME NEW g, IsGraph(g), g.succ \in [g.blocks -> Seq(g.blocks)], MayReturn(g),
           NEW f, NEW B, NEW e, NEW n, IsDiverted(f, g, B, e, n), NEW p \in g.blocks
    PROVE  \/ ImmPostDom(f, p) = ImmPostDom(g, p)
           \/ ImmPostDom(f, p) = n /\ ImmPostDom(g, p) = e
<1>0. e \in g.blocks /\ n \notin g.blocks /\ f.blocks = g.blocks \cup {n}
  BY DEF IsDiverted
<1>g. /\ IsGraph(f) /\ Succs(f, n) = {e}
      /\ \A c \in g.blocks : Succs(f, c) = IF c \in B /\ e \in Succs(g, c)
                                           THEN (Succs(g, c) \ {e}) \cup {n} ELSE Succs(g, c)
      /\ \A c \in g.blocks : Len(f.succ[c]) = Len(g.succ[c])
      /\ f.succ \in [f.blocks -> Seq(f.blocks)]
  BY DivertedIs
<1>1. /\ IsGraph(f) /\ MayReturn(f) /\ Succs(f, n) = {e}
      /\ \A c \in g.blocks : Succs(f, c) = IF c \in B /\ e \in Succs(g, c)
                                           THEN (Succs(g, c) \ {e}) \cup {n} ELSE Succs(g, c)
  BY <1>g, DivertedReturns
<1>2. n \notin Exits(f) /\ \A c \in g.blocks : c \in Exits(f) <=> c \in Exits(g)
  <2>0. /\ f.succ \in [f.blocks -> Seq(f.blocks)]
        /\ \A c \in g.blocks : Len(f.succ[c]) = Len(g.succ[c])
    BY <1>g
  <2>1. \A c \in g.blocks : Len(f.succ[c]) = Len(g.succ[c]) /\ f.succ[c] \in Seq(f.blocks) /\ g.succ[c] \in Seq(g.blocks)
    BY <1>0, <2>0
  <2>2. \A S : \A s \in Seq(S) : s = <<>> <=> Len(s) = 0
    OBVIOUS
  <2>3. \A c \in g.blocks : f.succ[c] = <<>> <=> g.succ[c] = <<>>
    BY <2>1, <2>2
  <2>4. f.succ[n] # <<>>
    <3>1. f.succ[n] = <<e>> /\ <<e>> # <<>>
      BY DEF IsDiverted
    <3> QED
      BY <3>1
  <2> QED
    BY <1>0, <2>3, <2>4 DEF Exits
<1>3. ASSUME NEW q \in g.blocks, NEW x \in g.blocks, PostDominates(g, q, x)
      PROVE  PostDominates(f, q, x)
  <2> DEFINE D == Doomed(g, q)
             T == D \cup {c \in {n} : e \in D}
  <2>1. IsTrap(g, D, q) /\ x \in D
    BY <1>3, DoomedIsTrap DEF Doomed
  <2>2. ASSUME NEW c \in T \ {q} PROVE c \notin Exits(f) /\ Succs(f, c) \subseteq T
    <3> HIDE DEF D
    <3>1. CASE c \in D
      <4>1. c \in g.blocks /\ c \notin Exits(g) /\ Succs(g, c) \subseteq D
        BY <2>1, <2>2, <3>1 DEF IsTrap
      <4> QED
        BY <1>1, <1>2, <4>1
    <3>2. CASE c = n
      BY <1>0, <1>1, <1>2, <2>1, <2>2, <3>2 DEF IsTrap
    <3> QED
      BY <2>2, <3>1, <3>2
  <2>3. T \subseteq f.blocks
    BY <1>0 DEF Doomed
  <2>4. x \in T
    BY <2>1
  <2> HIDE DEF T
  <2>5. T \subseteq Doomed(f, q)
    BY <1>1, <2>2, <2>3, TrapIsDoomed DEF IsTrap
  <2> QED
    BY <2>4, <2>5 DEF Doomed
<1>4. ASSUME NEW q \in g.blocks, NEW x \in g.blocks, PostDominates(f, q, x)
      PROVE  PostDominates(g, q, x)
  <2> DEFINE D == Doomed(f, q)
             T == D \cap g.blocks
  <2>1. IsTrap(f, D, q) /\ x \in D
    BY <1>0, <1>1, <1>4, DoomedIsTrap DEF Doomed
  <2> HIDE DEF D
  <2>2. ASSUME NEW c \in T \ {q} PROVE c \notin Exits(g) /\ Succs(g, c) \subseteq T
    <3>1. Succs(g, c) \subseteq g.blocks
      BY DEF IsGraph
    <3>2. c \notin Exits(f) /\ Succs(f, c) \subseteq D
      BY <2>1, <2>2 DEF IsTrap
    <3>3. n \in D => e \in D
      BY <1>0, <1>1, <2>1 DEF IsTrap
    <3> QED
      BY <1>1, <1>2, <3>1, <3>2, <3>3
  <2>3. T \subseteq Doomed(g, q) /\ x \in T
    <3>1. x \in T /\ T \subseteq g.blocks
      BY <2>1
    <3> HIDE DEF T
    <3> QED
      BY <2>2, <3>1, TrapIsDoomed DEF IsTrap
  <2> QED
    BY <2>3 DEF Doomed
<1>5. \A q \in g.blocks : PostDominates(f, q, e) => PostDominates(f, q, n)
  BY <1>0, <1>1, <1>2, PostDominatesBefore
<1>6. PostDominates(f, e, n)
  BY <1>0, <1>1, <1>5, PostDominatesItself
<1>7. ~PostDominates(f, n, e)
  BY <1>0, <1>1, <1>6, PostDominatesOneWay
<1>8. PostDominates(f, n, p) => p # e /\ PostDominates(f, e, p)
  BY <1>0, <1>1, <1>6, <1>7, PostDominatesTransitively
<1> DEFINE c == ImmPostDom(g, p)
<1>9. \/ /\ c = NoBlock
         /\ \A q \in g.blocks \ {p} : ~PostDominates(g, q, p)
      \/ /\ c \in g.blocks \ {p}
         /\ PostDominates(g, c, p)
         /\ \A q \in g.blocks \ {p} : PostDominates(g, q, p) => PostDominates(g, q, c)
  BY ImmPostDomIsNearest
<1>10. NoBlock \notin g.blocks
  BY DEF IsGraph
<1> HIDE DEF c
<1>11. CASE c = NoBlock
  <2>1. \A q \in f.blocks \ {p} : ~PostDominates(f, q, p)
    BY <1>0, <1>4, <1>8, <1>9, <1>10, <1>11
  <2>2. ImmPostDom(f, p) = NoBlock
    BY <1>0, <1>1, <2>1, NearestIsImmPostDom
  <2> QED
    BY <1>11, <2>2 DEF c
<1>12. CASE c # NoBlock /\ ~PostDominates(f, n, p)
  <2>1. c \in f.blocks \ {p} /\ PostDominates(f, c, p)
    BY <1>0, <1>3, <1>9, <1>12
  <2>2. \A q \in f.blocks \ {p} : PostDominates(f, q, p) => PostDominates(f, q, c)
    BY <1>0, <1>3, <1>4, <1>9, <1>12
  <2>3. ImmPostDom(f, p) = c
    BY <1>0, <1>1, <2>1, <2>2, NearestIsImmPostDom
  <2> QED
    BY <2>3 DEF c
<1>13. CASE c # NoBlock /\ PostDominates(f, n, p) /\ c = e
  <2>1. n \in f.blocks \ {p}
    BY <1>0
  <2>2. ASSUME NEW q \in f.blocks \ {p}, PostDominates(f, q, p) PROVE PostDominates(f, q, n)
    <3>1. CASE q = n
      BY <1>0, <1>1, <3>1, PostDominatesItself
    <3>2. CASE q \in g.blocks
      BY <1>3, <1>4, <1>5, <1>9, <1>13, <2>2, <3>2
    <3> QED
      BY <1>0, <3>1, <3>2
  <2>3. ImmPostDom(f, p) = n
    BY <1>0, <1>1, <1>13, <2>1, <2>2, NearestIsImmPostDom
  <2> QED
    BY <1>13, <2>3 DEF c
<1>14. CASE c # NoBlock /\ PostDominates(f, n, p) /\ c # e
  <2>1. c \in f.blocks \ {p} /\ c \in g.blocks /\ PostDominates(f, c, p)
    BY <1>0, <1>3, <1>9, <1>14
  <2>2. PostDominates(f, n, c)
    <3> SUFFICES ASSUME ~PostDominates(f, n, c) PROVE FALSE
      OBVIOUS
    <3>1. PostDominates(f, c, n)
      BY <1>0, <1>1, <1>14, <2>1, PostDominatorsAreChain
    <3>2. PostDominates(f, c, e)
      BY <1>0, <1>1, <2>1, <3>1, PostDominatesSuccs
    <3>3. PostDominates(f, e, c)
      BY <1>0, <1>3, <1>4, <1>8, <1>9, <1>14
    <3> QED
      BY <1>0, <1>1, <1>14, <2>1, <3>2, <3>3, PostDominatesOneWay
  <2>3. \A q \in f.blocks \ {p} : PostDominates(f, q, p) => PostDominates(f, q, c)
    BY <1>0, <1>3, <1>4, <1>9, <1>14, <2>2
  <2>4. ImmPostDom(f, p) = c
    BY <1>0, <1>1, <2>1, <2>3, NearestIsImmPostDom
  <2> QED
    BY <2>4 DEF c
<1> QED
  BY <1>11, <1>12, <1>13, <1>14

LEMMA PostDomTreeAt ==
    ASSUME NEW g, IsGraph(g), MayReturn(g), NEW b \in g.blocks
    PROVE  PostDomTree(g)[b] = ImmPostDom(g, b) /\ PostDomTree(g)[b] \in g.blocks \cup {NoBlock}
BY ImmPostDomIsNearest DEF PostDomTree

(* Splitting a block changes nothing in what influences what.               *)
LEMMA SplitKeepsInfluence ==
    ASSUME NEW k, Shape(k), SSA(k), NEW b \in k.blocks, NEW moved, IsTail(k, b, moved),
           NEW n, n = NewBlock(k), NEW f, f = SplitBlock(k, b, moved, n), NEW i \in k.insts
    PROVE  Influenced(f, PostDomTree(f), i) = Influenced(k, PostDomTree(k), i)
<1>0. moved \in SUBSET NonPhis(k, b) /\ BranchOf(k, b) \subseteq moved
  BY DEF IsTail
<1>1. /\ IsSplit(f, k, b, n)
      /\ f.insts = k.insts /\ f.kind = k.kind
      /\ f.parent = [j \in k.insts |-> IF j \in moved THEN n ELSE k.parent[j]]
      /\ \A j \in k.insts : k.kind[j] # "phi" => f.ops[j] = k.ops[j]
      /\ \A j \in k.insts : k.kind[j] = "phi" => IsRenamed(f.ops[j], k.ops[j], b, n)
      /\ \A j \in k.insts : Operands(f, j) \subseteq Operands(k, j)
  BY <1>0, SplitBlockIs
<1>2. /\ IsGraph(k) /\ MayReturn(k) /\ k.succ \in [k.blocks -> Seq(k.blocks)]
      /\ IsFiniteSet(k.insts) /\ k.parent \in [k.insts -> k.blocks]
  BY DEF Shape
<1>3. n \notin k.blocks /\ n # NoBlock /\ f.blocks = k.blocks \cup {n}
  BY <1>1 DEF IsSplit
<1>4. IsGraph(f) /\ MayReturn(f)
  BY <1>1, <1>2, SplitIs, SplitReturns
<1>5. ASSUME NEW j \in k.insts PROVE Operands(f, j) = Operands(k, j)
  <2>1. CASE k.kind[j] # "phi"
    BY <1>1, <2>1 DEF Operands
  <2>2. CASE k.kind[j] = "phi"
    <3>1. IsRenamed(f.ops[j], k.ops[j], b, n)
      BY <1>1, <2>2
    <3>2. n \notin DOMAIN k.ops[j]
      BY <1>3, <2>2 DEF SSA, Preds
    <3>3. ASSUME NEW q \in DOMAIN k.ops[j] PROVE \E p \in DOMAIN f.ops[j] : f.ops[j][p] = k.ops[j][q]
      <4> DEFINE p == IF q = b THEN n ELSE q
      <4>1. p \in DOMAIN f.ops[j]
        BY <3>1 DEF IsRenamed, RenamedBlocks
      <4>2. PICK r \in DOMAIN k.ops[j] :
               f.ops[j][p] = k.ops[j][r] /\ ((p = n /\ r = b) \/ (p = r /\ r # b))
        BY <3>1, <4>1 DEF IsRenamed
      <4>3. r = q
        BY <3>2, <4>2
      <4> QED
        BY <4>1, <4>2, <4>3
    <3>4. Operands(k, j) \subseteq Operands(f, j)
      BY <3>3 DEF Operands
    <3> QED
      BY <1>1, <3>4
  <2> QED
    BY <2>1, <2>2
<1>6. Users(f, i) = Users(k, i)
  BY <1>1, <1>5 DEF Users
<1>7. \A c : Phis(f, c) = Phis(k, c)
  <2>1. \A j \in moved : j \in k.insts /\ k.kind[j] # "phi"
    BY <1>0 DEF NonPhis, Insts, Phis
  <2> QED
    BY <1>1, <2>1 DEF Phis
<1>8. ASSUME k.kind[i] = "br"
      PROVE  PostDomTree(f)[f.parent[i]] = PostDomTree(k)[k.parent[i]]
  <2>1. /\ \A p \in k.blocks \ {b} : ImmPostDom(f, p) = ImmPostDom(k, p)
        /\ ImmPostDom(f, n) = ImmPostDom(k, b)
    <3>1. /\ IsGraph(k) /\ k.succ \in [k.blocks -> Seq(k.blocks)] /\ MayReturn(k)
          /\ IsSplit(f, k, b, n)
      BY <1>1, <1>2
    <3> QED
      BY ONLY <3>1, SplitJoins
  <2>2. CASE k.parent[i] = b
    <3>1. i \in moved
      BY <1>0, <1>8, <2>2 DEF BranchOf, Insts
    <3>2. f.parent[i] = n
      BY <1>1, <3>1
    <3> QED
      BY <1>2, <1>3, <1>4, <2>1, <2>2, <3>2, PostDomTreeAt
  <2>3. CASE k.parent[i] # b
    <3>1. i \notin moved
      BY <1>0, <2>3 DEF NonPhis, Insts
    <3>2. f.parent[i] = k.parent[i] /\ k.parent[i] \in k.blocks \ {b}
      BY <1>1, <1>2, <2>3, <3>1
    <3> QED
      BY <1>2, <1>3, <1>4, <2>1, <3>2, PostDomTreeAt
  <2> QED
    BY <2>2, <2>3
<1>9. JoinPhis(f, PostDomTree(f), i) = JoinPhis(k, PostDomTree(k), i)
  BY <1>1, <1>7, <1>8 DEF JoinPhis
<1> QED
  BY <1>6, <1>9 DEF Influenced

(* What is listed: all that depends on the ids, and beyond that only phis   *)
(* of blocks that were made. D is listed for kernel k, and the blocks O     *)
(* were there from the first.                                               *)
IsListed(k, tids, D, O) ==
    LET pd == PostDomTree(k)
    IN  /\ tids \subseteq {i \in k.insts : k.kind[i] = "inst"}
        /\ O \subseteq k.blocks
        /\ tids \subseteq D /\ D \subseteq k.insts /\ Closed(k, pd, D)
        /\ \A S \in SUBSET k.insts : tids \subseteq S /\ Closed(k, pd, S) =>
              \A i \in D \ S : k.kind[i] = "phi" /\ k.parent[i] \notin O

LEMMA ListedAtFirst ==
    ASSUME NEW k, IsFiniteSet(k.insts), NEW tids \in SUBSET {i \in k.insts : k.kind[i] = "inst"}
    PROVE  IsListed(k, tids, Dependents(k, PostDomTree(k), tids), k.blocks)
<1> DEFINE pd == PostDomTree(k)
           D  == Dependents(k, pd, tids)
<1>1. tids \in SUBSET k.insts
  OBVIOUS
<1> HIDE DEF pd
<1>2. /\ D \subseteq k.insts /\ tids \subseteq D /\ Closed(k, pd, D)
      /\ \A S : tids \subseteq S /\ Closed(k, pd, S) => D \subseteq S
  BY <1>1, DependentsIsLeast
<1> HIDE DEF D
<1>3. \A S \in SUBSET k.insts : tids \subseteq S /\ Closed(k, pd, S) => D \ S = {}
  BY <1>2
<1>4. IsListed(k, tids, D, k.blocks)
  BY <1>1, <1>2, <1>3 DEF IsListed, pd
<1> QED
  BY <1>4 DEF D, pd

LEMMA SplitKeepsListed ==
    ASSUME NEW k, Shape(k), SSA(k), NEW b \in k.blocks, NEW moved, IsTail(k, b, moved),
           NEW n, n = NewBlock(k), NEW f, f = SplitBlock(k, b, moved, n),
           NEW tids, NEW D, NEW O, IsListed(k, tids, D, O)
    PROVE  IsListed(f, tids, D, O)
<1>0. moved \in SUBSET NonPhis(k, b)
  BY DEF IsTail
<1>1. /\ f.insts = k.insts /\ f.kind = k.kind
      /\ f.parent = [j \in k.insts |-> IF j \in moved THEN n ELSE k.parent[j]]
  BY <1>0, SplitBlockIs
<1>2. f.blocks = k.blocks \cup {n}
  BY SplitBlocks
<1>3. \A i \in k.insts : Influenced(f, PostDomTree(f), i) = Influenced(k, PostDomTree(k), i)
  BY SplitKeepsInfluence
<1>4. \A S \in SUBSET k.insts : Closed(f, PostDomTree(f), S) <=> Closed(k, PostDomTree(k), S)
  BY <1>3 DEF Closed
<1>5. \A i \in k.insts : k.kind[i] = "phi" => f.parent[i] = k.parent[i]
  BY <1>0, <1>1 DEF NonPhis, Insts, Phis
<1> DEFINE pdf == PostDomTree(f)
           pdk == PostDomTree(k)
<1>6. \A S \in SUBSET k.insts : Closed(f, pdf, S) <=> Closed(k, pdk, S)
  BY <1>4
<1>7. /\ tids \subseteq {i \in k.insts : k.kind[i] = "inst"}
      /\ O \subseteq k.blocks
      /\ tids \subseteq D /\ D \subseteq k.insts /\ Closed(k, pdk, D)
      /\ \A S \in SUBSET k.insts : tids \subseteq S /\ Closed(k, pdk, S) =>
              \A i \in D \ S : k.kind[i] = "phi" /\ k.parent[i] \notin O
  BY DEF IsListed
<1> HIDE DEF pdf, pdk
<1>8. /\ tids \subseteq {i \in f.insts : f.kind[i] = "inst"}
      /\ O \subseteq f.blocks
      /\ tids \subseteq D /\ D \subseteq f.insts /\ Closed(f, pdf, D)
  BY <1>1, <1>2, <1>6, <1>7
<1>9. ASSUME NEW S \in SUBSET f.insts, tids \subseteq S, Closed(f, pdf, S), NEW i \in D \ S
      PROVE  f.kind[i] = "phi" /\ f.parent[i] \notin O
  BY <1>1, <1>5, <1>6, <1>7, <1>9
<1> QED
  BY <1>8, <1>9 DEF IsListed, pdf

(* Instruction u of the isolated kernel is i, or one of the phis made of i. *)
MadeOf(k, P, u, i) ==
    \/ u = i /\ i \in k.insts \ P
    \/ i \in P /\ u \in {NewPhi(k, i), ExitPhi(k, i)}

(* What the operand i is replaced by. *)
ReplacedBy(k, P, i) == IF i \in P THEN ExitPhi(k, i) ELSE i

LEMMA IsolatedOperands ==
    ASSUME NEW k, Shape(k), SSA(k), NEW r, r.exiting \in k.blocks,
           NEW n, n = NewBlock(k), NEW f, f = Isolated(k, r, n),
           NEW P, P = Phis(k, r.exiting)
    PROVE  /\ \A u \in f.insts : \E i \in k.insts : MadeOf(k, P, u, i)
           /\ \A i, j \in k.insts : \A u : MadeOf(k, P, u, i) /\ MadeOf(k, P, u, j) => i = j
           /\ \A i \in k.insts : MadeOf(k, P, ReplacedBy(k, P, i), i)
           /\ \A i \in k.insts : \A u : MadeOf(k, P, u, i) => u \in f.insts
           /\ \A u \in f.insts : \A i, j \in k.insts : \A v \in Operands(f, u) :
                 MadeOf(k, P, u, i) /\ MadeOf(k, P, v, j) => i = j \/ j \in Operands(k, i)
           /\ \A i \in k.insts : \A j \in Operands(k, i) :
                 \E u : MadeOf(k, P, u, i) /\ ReplacedBy(k, P, j) \in Operands(f, u)
           /\ \A i \in P : NewPhi(k, i) \in Operands(f, ExitPhi(k, i))
<1> DEFINE e == r.exiting
           B == r.blocks
           R(o) == ReplacedBy(k, P, o)
<1>0. /\ IsIsolated(f, k, B, e, n) /\ P \subseteq k.insts
      /\ \A i \in P : k.kind[i] = "phi" /\ k.parent[i] = e
  BY IsolatedIs DEF Phis
<1>1. /\ f.insts = (k.insts \ P) \cup {NewPhi(k, i) : i \in P} \cup {ExitPhi(k, i) : i \in P}
      /\ \A j \in k.insts \ P :
            /\ DOMAIN f.ops[j] = DOMAIN k.ops[j]
            /\ \A x \in DOMAIN k.ops[j] : f.ops[j][x] = R(k.ops[j][x])
      /\ \A i \in P :
            /\ DOMAIN f.ops[NewPhi(k, i)] = DOMAIN k.ops[i] \cap B
            /\ \A x \in DOMAIN k.ops[i] \cap B : f.ops[NewPhi(k, i)][x] = R(k.ops[i][x])
            /\ DOMAIN f.ops[ExitPhi(k, i)] = (DOMAIN k.ops[i] \ B) \cup {n}
            /\ f.ops[ExitPhi(k, i)][n] = NewPhi(k, i)
            /\ \A x \in (DOMAIN k.ops[i] \ B) \ {n} : f.ops[ExitPhi(k, i)][x] = R(k.ops[i][x])
  <2> DEFINE old == Phis(k, e)
             Q(o) == IF o \in old THEN ExitPhi(k, o) ELSE o
  <2>1. /\ f.insts = (k.insts \ old) \cup {NewPhi(k, i) : i \in old} \cup {ExitPhi(k, i) : i \in old}
        /\ \A j \in k.insts \ old : f.ops[j] = [x \in DOMAIN k.ops[j] |-> Q(k.ops[j][x])]
        /\ \A i \in old :
              /\ f.ops[NewPhi(k, i)] = [b \in DOMAIN k.ops[i] \cap B |-> Q(k.ops[i][b])]
              /\ f.ops[ExitPhi(k, i)] =
                    [b \in (DOMAIN k.ops[i] \ B) \cup {n} |->
                        IF b = n THEN NewPhi(k, i) ELSE Q(k.ops[i][b])]
    <3> HIDE DEF e, B
    <3> QED
      BY <1>0 DEF IsIsolated
  <2>2. P = old /\ \A o : Q(o) = R(o)
    BY DEF ReplacedBy
  <2> HIDE DEF old, Q, R, B, e
  <2>3. f.insts = (k.insts \ P) \cup {NewPhi(k, i) : i \in P} \cup {ExitPhi(k, i) : i \in P}
    BY <2>1, <2>2
  <2>4. ASSUME NEW j \in k.insts \ P
        PROVE  /\ DOMAIN f.ops[j] = DOMAIN k.ops[j]
               /\ \A x \in DOMAIN k.ops[j] : f.ops[j][x] = R(k.ops[j][x])
    <3>1. f.ops[j] = [x \in DOMAIN k.ops[j] |-> Q(k.ops[j][x])]
      BY <2>1, <2>2
    <3> QED
      BY <2>2, <3>1
  <2>5. ASSUME NEW i \in P
        PROVE  /\ DOMAIN f.ops[NewPhi(k, i)] = DOMAIN k.ops[i] \cap B
               /\ \A x \in DOMAIN k.ops[i] \cap B : f.ops[NewPhi(k, i)][x] = R(k.ops[i][x])
    <3>1. f.ops[NewPhi(k, i)] = [b \in DOMAIN k.ops[i] \cap B |-> Q(k.ops[i][b])]
      BY <2>1, <2>2
    <3> QED
      BY <2>2, <3>1
  <2>6. ASSUME NEW i \in P
        PROVE  /\ DOMAIN f.ops[ExitPhi(k, i)] = (DOMAIN k.ops[i] \ B) \cup {n}
               /\ f.ops[ExitPhi(k, i)][n] = NewPhi(k, i)
               /\ \A x \in (DOMAIN k.ops[i] \ B) \ {n} : f.ops[ExitPhi(k, i)][x] = R(k.ops[i][x])
    <3>1. f.ops[ExitPhi(k, i)] =
             [b \in (DOMAIN k.ops[i] \ B) \cup {n} |->
                 IF b = n THEN NewPhi(k, i) ELSE Q(k.ops[i][b])]
      BY <2>1, <2>2
    <3> QED
      BY <2>2, <3>1
  <2> QED
    BY <2>3, <2>4, <2>5, <2>6
<1>2. \A i \in P : /\ NewPhi(k, i) \notin k.insts /\ ExitPhi(k, i) \notin k.insts
                   /\ NewPhi(k, i) # Const /\ ExitPhi(k, i) # Const
                   /\ \A j \in P : /\ NewPhi(k, i) = NewPhi(k, j) => i = j
                                   /\ ExitPhi(k, i) = ExitPhi(k, j) => i = j
                                   /\ NewPhi(k, i) # ExitPhi(k, j)
  BY <1>0, NewPhisAreNew
<1>3. \A i \in k.insts : i # Const
  BY DEF Shape
<1>4. \A i \in k.insts : \A o \in Operands(k, i) : o \in k.insts
  BY DEF SSA
<1>5. \A i \in k.insts : n \notin DOMAIN k.ops[i] \/ k.kind[i] # "phi"
  <2>1. n \notin k.blocks
    BY NewBlockIsNew DEF Shape
  <2> QED
    BY <2>1 DEF SSA, Preds
<1> HIDE DEF e, B
<1>6. \A u \in f.insts : \E i \in k.insts : MadeOf(k, P, u, i)
  BY <1>0, <1>1 DEF MadeOf
<1>7. ASSUME NEW i \in k.insts, NEW j \in k.insts, NEW u, MadeOf(k, P, u, i), MadeOf(k, P, u, j)
      PROVE  i = j
  BY <1>2, <1>7 DEF MadeOf
<1>8. \A i \in k.insts : MadeOf(k, P, R(i), i)
  BY DEF MadeOf, ReplacedBy
<1>9. \A i \in k.insts : \A u : MadeOf(k, P, u, i) => u \in f.insts
  BY <1>1 DEF MadeOf
<1>10. \A i \in k.insts : R(i) # Const
  BY <1>2, <1>3 DEF ReplacedBy
<1>11. R(Const) = Const
  BY <1>0, <1>3 DEF ReplacedBy
<1>12. ASSUME NEW i \in k.insts, NEW x \in DOMAIN k.ops[i], NEW j \in k.insts,
              R(k.ops[i][x]) # Const, MadeOf(k, P, R(k.ops[i][x]), j)
       PROVE  j \in Operands(k, i)
  <2> DEFINE o == k.ops[i][x]
  <2>1. o # Const
    BY <1>11, <1>12
  <2>2. o \in Operands(k, i)
    BY <2>1 DEF Operands
  <2> HIDE DEF o
  <2>3. o \in k.insts /\ MadeOf(k, P, R(o), o)
    BY <1>4, <1>8, <2>2
  <2>4. MadeOf(k, P, R(o), j)
    BY <1>12 DEF o
  <2>5. j = o
    BY <1>7, <2>3, <2>4
  <2> QED
    BY <2>2, <2>5
<1> HIDE DEF R
<1>13. ASSUME NEW u \in f.insts, NEW i \in k.insts, NEW j \in k.insts, NEW v \in Operands(f, u),
              MadeOf(k, P, u, i), MadeOf(k, P, v, j)
       PROVE  i = j \/ j \in Operands(k, i)
  <2>1. PICK x \in DOMAIN f.ops[u] : v = f.ops[u][x] /\ v # Const
    BY DEF Operands
  <2>2. CASE u = i /\ i \in k.insts \ P
    <3>1. x \in DOMAIN k.ops[i] /\ v = R(k.ops[i][x])
      BY <1>1, <2>1, <2>2
    <3> QED
      BY <1>12, <1>13, <2>1, <3>1
  <2>3. CASE i \in P /\ u = NewPhi(k, i)
    <3>1. x \in DOMAIN k.ops[i] /\ v = R(k.ops[i][x])
      BY <1>1, <2>1, <2>3
    <3> QED
      BY <1>12, <1>13, <2>1, <3>1
  <2>4. CASE i \in P /\ u = ExitPhi(k, i)
    <3>1. CASE x = n
      <4>1. v = NewPhi(k, i)
        BY <1>1, <2>1, <2>4, <3>1
      <4>2. MadeOf(k, P, v, i)
        BY <2>4, <4>1 DEF MadeOf
      <4> QED
        BY <1>7, <1>13, <4>2
    <3>2. CASE x # n
      <4>1. x \in DOMAIN k.ops[i] /\ v = R(k.ops[i][x])
        BY <1>1, <2>1, <2>4, <3>2
      <4> QED
        BY <1>12, <1>13, <2>1, <4>1
    <3> QED
      BY <3>1, <3>2
  <2> QED
    BY <1>13, <2>2, <2>3, <2>4 DEF MadeOf
<1>14. ASSUME NEW i \in k.insts, NEW j \in Operands(k, i)
       PROVE  \E u : MadeOf(k, P, u, i) /\ R(j) \in Operands(f, u)
  <2>1. PICK x \in DOMAIN k.ops[i] : j = k.ops[i][x]
    BY DEF Operands
  <2>2. R(j) # Const
    BY <1>4, <1>10
  <2>3. CASE i \notin P
    <3>1. x \in DOMAIN f.ops[i] /\ f.ops[i][x] = R(j)
      BY <1>1, <2>1, <2>3
    <3>2. MadeOf(k, P, i, i) /\ R(j) \in Operands(f, i)
      BY <2>2, <2>3, <3>1 DEF MadeOf, Operands
    <3> QED
      BY <3>2
  <2>4. CASE i \in P /\ x \in B
    <3>1. x \in DOMAIN f.ops[NewPhi(k, i)] /\ f.ops[NewPhi(k, i)][x] = R(j)
      BY <1>1, <2>1, <2>4
    <3>2. MadeOf(k, P, NewPhi(k, i), i) /\ R(j) \in Operands(f, NewPhi(k, i))
      BY <2>2, <2>4, <3>1 DEF MadeOf, Operands
    <3> QED
      BY <3>2
  <2>5. CASE i \in P /\ x \notin B
    <3>0. x # n
      BY <1>0, <1>5, <2>1, <2>5
    <3>1. x \in DOMAIN f.ops[ExitPhi(k, i)] /\ f.ops[ExitPhi(k, i)][x] = R(j)
      BY <1>1, <2>1, <2>5, <3>0
    <3>2. MadeOf(k, P, ExitPhi(k, i), i) /\ R(j) \in Operands(f, ExitPhi(k, i))
      BY <2>2, <2>5, <3>1 DEF MadeOf, Operands
    <3> QED
      BY <3>2
  <2> QED
    BY <2>3, <2>4, <2>5
<1>15. ASSUME NEW i \in P PROVE NewPhi(k, i) \in Operands(f, ExitPhi(k, i))
  <2>1. n \in DOMAIN f.ops[ExitPhi(k, i)] /\ f.ops[ExitPhi(k, i)][n] = NewPhi(k, i)
    BY <1>1
  <2> QED
    BY <1>2, <2>1 DEF Operands
<1> QED
  BY <1>6, <1>7, <1>8, <1>9, <1>13, <1>14, <1>15 DEF R

(* And the phis in which a branch joins.                                    *)
LEMMA IsolatedJoins ==
    ASSUME NEW k, Shape(k), SSA(k), NEW r, r.exiting \in k.blocks,
           NEW n, n = NewBlock(k), NEW f, f = Isolated(k, r, n),
           NEW P, P = Phis(k, r.exiting), NEW i \in k.insts, k.kind[i] = "br"
    PROVE  /\ \A j \in k.insts : \A u \in JoinPhis(f, PostDomTree(f), i) :
                 MadeOf(k, P, u, j) => j \in JoinPhis(k, PostDomTree(k), i)
           /\ \A j \in JoinPhis(k, PostDomTree(k), i) :
                 \E u \in JoinPhis(f, PostDomTree(f), i) : MadeOf(k, P, u, j)
<1> DEFINE e == r.exiting
           B == r.blocks
           p == k.parent[i]
           c == PostDomTree(k)[p]
           d == PostDomTree(f)[p]
<1>0. /\ IsIsolated(f, k, B, e, n) /\ P \subseteq k.insts /\ i \notin P
      /\ \A j \in P : k.kind[j] = "phi" /\ k.parent[j] = e
  BY IsolatedIs DEF Phis
<1>1. /\ f.insts = (k.insts \ P) \cup {NewPhi(k, j) : j \in P} \cup {ExitPhi(k, j) : j \in P}
      /\ \A j \in k.insts \ P : f.parent[j] = k.parent[j] /\ f.kind[j] = k.kind[j]
      /\ \A j \in P : /\ f.parent[NewPhi(k, j)] = n /\ f.kind[NewPhi(k, j)] = "phi"
                      /\ f.parent[ExitPhi(k, j)] = e /\ f.kind[ExitPhi(k, j)] = "phi"
      /\ IsDiverted(f, k, B, e, n)
  <2> HIDE DEF e, B
  <2> QED
    BY <1>0 DEF IsIsolated, e
<1>2. /\ IsGraph(k) /\ MayReturn(k) /\ k.succ \in [k.blocks -> Seq(k.blocks)]
      /\ k.parent \in [k.insts -> k.blocks]
  BY DEF Shape
<1>3. n \notin k.blocks /\ n # NoBlock /\ f.blocks = k.blocks \cup {n} /\ e # n /\ e \in k.blocks
  BY <1>1 DEF IsDiverted
<1>4. IsGraph(f) /\ MayReturn(f)
  BY <1>1, <1>2, DivertedIs, DivertedReturns
<1> HIDE DEF e, B
<1>5. p \in k.blocks /\ p \in f.blocks
  BY <1>2, <1>3
<1>6. d = c \/ (c = e /\ d = n)
  <2>1. ImmPostDom(f, p) = ImmPostDom(k, p) \/ (ImmPostDom(f, p) = n /\ ImmPostDom(k, p) = e)
    BY SMTT(30), <1>1, <1>2, <1>5, DivertedJoins
  <2> QED
    BY <1>2, <1>4, <1>5, <2>1, PostDomTreeAt
<1>7. c \in k.blocks \cup {NoBlock}
  BY <1>2, <1>5, PostDomTreeAt
<1>8. c # n
  BY <1>3, <1>7
<1>9. f.parent[i] = p /\ f.kind[i] = "br"
  BY <1>0, <1>1
<1>10. /\ JoinPhis(f, PostDomTree(f), i) = Phis(f, d)
       /\ JoinPhis(k, PostDomTree(k), i) = Phis(k, c)
  BY <1>9 DEF JoinPhis
<1> HIDE DEF p, c, d
<1>11. ASSUME NEW j \in k.insts, NEW u \in Phis(f, d), MadeOf(k, P, u, j) PROVE j \in Phis(k, c)
  <2>0. f.parent[u] = d /\ f.kind[u] = "phi"
    BY DEF Phis
  <2>1. CASE u = j /\ j \notin P
    <3>1. k.parent[j] = d /\ k.kind[j] = "phi"
      BY <1>1, <2>0, <2>1
    <3>2. d = c
      BY <1>2, <1>3, <1>6, <3>1
    <3> QED
      BY <3>1, <3>2 DEF Phis
  <2>2. CASE j \in P /\ u \in {NewPhi(k, j), ExitPhi(k, j)}
    <3>1. d \in {n, e}
      BY <1>1, <2>0, <2>2
    <3>2. c = e
      BY <1>6, <1>8, <3>1
    <3> QED
      BY <1>0, <2>2, <3>2 DEF Phis
  <2> QED
    BY <1>11, <2>1, <2>2 DEF MadeOf
<1>12. ASSUME NEW j \in Phis(k, c) PROVE \E u \in Phis(f, d) : MadeOf(k, P, u, j)
  <2>0. j \in k.insts /\ k.parent[j] = c /\ k.kind[j] = "phi"
    BY DEF Phis
  <2>1. CASE c # e
    <3>1. j \notin P /\ d = c
      BY <1>0, <1>6, <2>0, <2>1
    <3>2. j \in Phis(f, d) /\ MadeOf(k, P, j, j)
      BY <1>1, <2>0, <3>1 DEF Phis, MadeOf
    <3> QED
      BY <3>2
  <2>2. CASE c = e
    <3>1. j \in P
      BY <2>2 DEF e
    <3>2. CASE d = n
      <4>1. NewPhi(k, j) \in Phis(f, d) /\ MadeOf(k, P, NewPhi(k, j), j)
        BY <1>1, <3>1, <3>2 DEF Phis, MadeOf
      <4> QED
        BY <4>1
    <3>3. CASE d = e
      <4>1. ExitPhi(k, j) \in Phis(f, d) /\ MadeOf(k, P, ExitPhi(k, j), j)
        BY <1>1, <3>1, <3>3 DEF Phis, MadeOf
      <4> QED
        BY <4>1
    <3> QED
      BY <1>6, <2>2, <3>2, <3>3
  <2> QED
    BY <2>1, <2>2
<1> QED
  BY <1>10, <1>11, <1>12
(* So an influence in the isolated kernel is one in the kernel, and the     *)
(* other way round, up to what the instructions are made of.                *)
LEMMA IsolatedInfluence ==
    ASSUME NEW k, Shape(k), SSA(k), NEW r, r.exiting \in k.blocks,
           NEW n, n = NewBlock(k), NEW f, f = Isolated(k, r, n),
           NEW P, P = Phis(k, r.exiting)
    PROVE  /\ \A i, j \in k.insts : \A u \in f.insts :
                 \A v \in Influenced(f, PostDomTree(f), u) :
                    MadeOf(k, P, u, i) /\ MadeOf(k, P, v, j)
                       => i = j \/ j \in Influenced(k, PostDomTree(k), i)
           /\ \A i \in k.insts : \A j \in k.insts \cap Influenced(k, PostDomTree(k), i) :
                 \E u \in Influenced(f, PostDomTree(f), ReplacedBy(k, P, i)) : MadeOf(k, P, u, j)
<1> DEFINE pdf == PostDomTree(f)
           pdk == PostDomTree(k)
<1>1. /\ \A i \in k.insts : \A u : MadeOf(k, P, u, i) => u \in f.insts
      /\ \A u \in f.insts : \A i, j \in k.insts : \A v \in Operands(f, u) :
            MadeOf(k, P, u, i) /\ MadeOf(k, P, v, j) => i = j \/ j \in Operands(k, i)
      /\ \A i \in k.insts : \A j \in Operands(k, i) :
            \E u : MadeOf(k, P, u, i) /\ ReplacedBy(k, P, j) \in Operands(f, u)
  BY IsolatedOperands
<1>2. \A i \in k.insts : k.kind[i] = "br" =>
         /\ \A j \in k.insts : \A u \in JoinPhis(f, pdf, i) :
               MadeOf(k, P, u, j) => j \in JoinPhis(k, pdk, i)
         /\ \A j \in JoinPhis(k, pdk, i) : \E u \in JoinPhis(f, pdf, i) : MadeOf(k, P, u, j)
  BY IsolatedJoins
<1>3. /\ \A j \in k.insts \ P : f.kind[j] = k.kind[j]
      /\ \A j \in P : f.kind[NewPhi(k, j)] = "phi" /\ f.kind[ExitPhi(k, j)] = "phi"
      /\ \A j \in P : k.kind[j] = "phi"
  <2>1. IsIsolated(f, k, r.blocks, r.exiting, n)
    BY IsolatedIs
  <2> QED
    BY <2>1 DEF IsIsolated, Phis
<1> HIDE DEF pdf, pdk
<1>4. ASSUME NEW i \in k.insts, NEW j \in k.insts, NEW u \in f.insts,
             NEW v \in Influenced(f, pdf, u), MadeOf(k, P, u, i), MadeOf(k, P, v, j)
      PROVE  i = j \/ j \in Influenced(k, pdk, i)
  <2>1. CASE v \in Users(f, u)
    <3>1. v \in f.insts /\ u \in Operands(f, v)
      BY <2>1 DEF Users
    <3>2. j = i \/ i \in Operands(k, j)
      BY <1>1, <1>4, <3>1
    <3> QED
      BY <3>2 DEF Influenced, Users
  <2>2. CASE v \in JoinPhis(f, pdf, u)
    <3>1. f.kind[u] = "br"
      BY <2>2 DEF JoinPhis
    <3>2. u = i /\ i \notin P
      BY <1>3, <1>4, <3>1 DEF MadeOf
    <3>3. k.kind[i] = "br"
      BY <1>3, <3>1, <3>2
    <3>4. j \in JoinPhis(k, pdk, i)
      BY <1>2, <1>4, <2>2, <3>2, <3>3
    <3> QED
      BY <3>4 DEF Influenced
  <2> QED
    BY <2>1, <2>2 DEF Influenced
<1>5. ASSUME NEW i \in k.insts, NEW j \in k.insts \cap Influenced(k, pdk, i)
      PROVE  \E u \in Influenced(f, pdf, ReplacedBy(k, P, i)) : MadeOf(k, P, u, j)
  <2>1. CASE j \in Users(k, i)
    <3>1. i \in Operands(k, j)
      BY <2>1 DEF Users
    <3>2. PICK u : MadeOf(k, P, u, j) /\ ReplacedBy(k, P, i) \in Operands(f, u)
      BY <1>1, <3>1
    <3>3. u \in f.insts
      BY <1>1, <3>2
    <3>4. u \in Influenced(f, pdf, ReplacedBy(k, P, i))
      BY <3>2, <3>3 DEF Influenced, Users
    <3> QED
      BY <3>2, <3>4
  <2>2. CASE j \in JoinPhis(k, pdk, i)
    <3>1. k.kind[i] = "br"
      BY <2>2 DEF JoinPhis
    <3>2. ReplacedBy(k, P, i) = i
      BY <1>3, <3>1 DEF ReplacedBy
    <3>3. PICK u \in JoinPhis(f, pdf, i) : MadeOf(k, P, u, j)
      BY <1>2, <2>2, <3>1
    <3>4. u \in Influenced(f, pdf, ReplacedBy(k, P, i))
      BY <3>2, <3>3 DEF Influenced
    <3> QED
      BY <3>3, <3>4
  <2> QED
    BY <2>1, <2>2 DEF Influenced
<1> QED
  BY <1>4, <1>5 DEF pdf, pdk

(* And the list stays one of the same kind when the divergent phis of the   *)
(* exiting block are replaced by all that is made of them.                  *)
LEMMA IsolatedKeepsListed ==
    ASSUME NEW k, Shape(k), SSA(k), NEW r, r.exiting \in k.blocks,
           NEW n, n = NewBlock(k), NEW f, f = Isolated(k, r, n),
           NEW tids, NEW D, NEW O, IsListed(k, tids, D, O),
           NEW P, P = Phis(k, r.exiting),
           NEW L, L = (D \ (P \cap D)) \cup UNION {{NewPhi(k, i), ExitPhi(k, i)} : i \in P \cap D}
    PROVE  IsListed(f, tids, L, O)
<1> DEFINE pdf == PostDomTree(f)
           pdk == PostDomTree(k)
           R(i) == ReplacedBy(k, P, i)
<1>1. /\ \A u \in f.insts : \E i \in k.insts : MadeOf(k, P, u, i)
      /\ \A i, j \in k.insts : \A u : MadeOf(k, P, u, i) /\ MadeOf(k, P, u, j) => i = j
      /\ \A i \in k.insts : MadeOf(k, P, R(i), i)
      /\ \A i \in k.insts : \A u : MadeOf(k, P, u, i) => u \in f.insts
      /\ \A i \in P : NewPhi(k, i) \in Operands(f, ExitPhi(k, i))
  BY SMTT(30), IsolatedOperands
<1>2. /\ \A i, j \in k.insts : \A u \in f.insts : \A v \in Influenced(f, pdf, u) :
            MadeOf(k, P, u, i) /\ MadeOf(k, P, v, j) => i = j \/ j \in Influenced(k, pdk, i)
      /\ \A i \in k.insts : \A j \in k.insts \cap Influenced(k, pdk, i) :
            \E u \in Influenced(f, pdf, R(i)) : MadeOf(k, P, u, j)
  BY IsolatedInfluence
<1>3. /\ tids \subseteq {i \in k.insts : k.kind[i] = "inst"}
      /\ O \subseteq k.blocks
      /\ tids \subseteq D /\ D \subseteq k.insts /\ Closed(k, pdk, D)
      /\ \A S \in SUBSET k.insts : tids \subseteq S /\ Closed(k, pdk, S) =>
              \A i \in D \ S : k.kind[i] = "phi" /\ k.parent[i] \notin O
  BY DEF IsListed
<1>4. /\ \A j \in k.insts \ P : f.kind[j] = k.kind[j] /\ f.parent[j] = k.parent[j]
      /\ \A j \in P : /\ f.kind[NewPhi(k, j)] = "phi" /\ f.parent[NewPhi(k, j)] = n
                      /\ f.kind[ExitPhi(k, j)] = "phi" /\ f.parent[ExitPhi(k, j)] = k.parent[j]
                      /\ k.kind[j] = "phi"
      /\ P \subseteq k.insts
      /\ f.blocks = k.blocks \cup {n} /\ n \notin k.blocks
  <2>1. IsIsolated(f, k, r.blocks, r.exiting, n)
    BY IsolatedIs
  <2>2. IsDiverted(f, k, r.blocks, r.exiting, n)
    BY <2>1 DEF IsIsolated
  <2>3. f.blocks = k.blocks \cup {n} /\ n \notin k.blocks
    BY <2>2 DEF IsDiverted
  <2>4. P \subseteq k.insts /\ \A j \in P : k.kind[j] = "phi" /\ k.parent[j] = r.exiting
    BY DEF Phis
  <2>5. /\ \A j \in k.insts \ P : f.kind[j] = k.kind[j] /\ f.parent[j] = k.parent[j]
        /\ \A j \in P : /\ f.kind[NewPhi(k, j)] = "phi" /\ f.parent[NewPhi(k, j)] = n
                        /\ f.kind[ExitPhi(k, j)] = "phi" /\ f.parent[ExitPhi(k, j)] = r.exiting
    BY <2>1 DEF IsIsolated
  <2> QED
    BY <2>3, <2>4, <2>5
<1>5. \A i \in P : /\ NewPhi(k, i) \notin k.insts /\ ExitPhi(k, i) \notin k.insts
  BY <1>4, NewPhisAreNew
<1> HIDE DEF pdf, pdk, R
<1>6. ASSUME NEW u, NEW i \in k.insts, MadeOf(k, P, u, i) PROVE u \in L <=> i \in D
  <2>1. CASE u = i /\ i \notin P
    <3>1. \A j \in P : u # NewPhi(k, j) /\ u # ExitPhi(k, j)
      BY <1>5, <2>1
    <3> QED
      BY <2>1, <3>1
  <2>2. CASE i \in P /\ u \in {NewPhi(k, i), ExitPhi(k, i)}
    <3>1. u \notin D
      BY <1>3, <1>5, <2>2
    <3>2. \A j \in P : u \in {NewPhi(k, j), ExitPhi(k, j)} => j = i
      BY <1>1, <1>4, <1>6 DEF MadeOf
    <3>3. u \in L <=> \E j \in P \cap D : u \in {NewPhi(k, j), ExitPhi(k, j)}
      BY <3>1
    <3> QED
      BY <2>2, <3>2, <3>3
  <2> QED
    BY <1>6, <2>1, <2>2 DEF MadeOf
<1>7. L \subseteq f.insts
  <2>1. \A i \in D \ P : i \in f.insts
    BY <1>1, <1>3 DEF MadeOf
  <2>2. \A i \in P : NewPhi(k, i) \in f.insts /\ ExitPhi(k, i) \in f.insts
    BY <1>1, <1>4 DEF MadeOf
  <2> QED
    BY <2>1, <2>2
<1>8. /\ tids \subseteq {i \in f.insts : f.kind[i] = "inst"}
      /\ O \subseteq f.blocks /\ tids \subseteq L
  <2>1. ASSUME NEW t \in tids PROVE t \in f.insts /\ f.kind[t] = "inst" /\ t \in L
    <3>1. t \in k.insts \ P /\ k.kind[t] = "inst" /\ t \in D
      BY <1>3, <1>4
    <3>2. MadeOf(k, P, t, t)
      BY <3>1 DEF MadeOf
    <3> QED
      BY <1>1, <1>4, <3>1, <3>2
  <2> QED
    BY <1>3, <1>4, <2>1
<1>9. Closed(f, pdf, L)
  <2> SUFFICES ASSUME NEW u \in L, NEW v \in Influenced(f, pdf, u) PROVE v \in L
    BY DEF Closed
  <2>1. u \in f.insts /\ v \in f.insts
    BY <1>7 DEF Influenced, Users, JoinPhis, Phis
  <2>2. PICK i \in k.insts : MadeOf(k, P, u, i)
    BY <1>1, <2>1
  <2>3. PICK j \in k.insts : MadeOf(k, P, v, j)
    BY <1>1, <2>1
  <2>4. i \in D
    BY <1>6, <2>2
  <2>5. i = j \/ j \in Influenced(k, pdk, i)
    BY <1>2, <2>1, <2>2, <2>3
  <2>6. j \in D
    BY <1>3, <2>4, <2>5 DEF Closed
  <2> QED
    BY <1>6, <2>3, <2>6
<1>10. ASSUME NEW T \in SUBSET f.insts, tids \subseteq T, Closed(f, pdf, T), NEW v \in L \ T
       PROVE  f.kind[v] = "phi" /\ f.parent[v] \notin O
  <2> DEFINE S == {i \in k.insts : R(i) \in T}
  <2>1. ASSUME NEW i \in S, NEW j \in k.insts \cap Influenced(k, pdk, i) PROVE R(j) \in T
    <3>1. PICK u \in Influenced(f, pdf, R(i)) : MadeOf(k, P, u, j)
      BY <1>2, <2>1
    <3>2. u \in T
      BY <1>10, <2>1, <3>1 DEF Closed
    <3>3. CASE u = R(j)
      BY <3>2, <3>3
    <3>4. CASE u # R(j)
      <4>1. j \in P /\ u = NewPhi(k, j) /\ R(j) = ExitPhi(k, j)
        BY <3>1, <3>4 DEF MadeOf, R, ReplacedBy
      <4>2. R(j) \in f.insts /\ u \in Operands(f, R(j))
        BY <1>1, <4>1
      <4>3. R(j) \in Influenced(f, pdf, u)
        BY <4>2 DEF Influenced, Users
      <4> QED
        BY <1>10, <3>2, <4>3 DEF Closed
    <3> QED
      BY <3>3, <3>4
  <2>2. \A i \in k.insts : Influenced(k, pdk, i) \subseteq k.insts
    BY DEF Influenced, Users, JoinPhis, Phis
  <2>3. Closed(k, pdk, S)
    BY <2>1, <2>2 DEF Closed
  <2>4. tids \subseteq S
    <3>1. \A t \in tids : t \in k.insts /\ t \notin P /\ t \in T
      BY <1>3, <1>4, <1>10
    <3> QED
      BY <3>1 DEF R, ReplacedBy
  <2>5. \A i \in D \ S : k.kind[i] = "phi" /\ k.parent[i] \notin O
    BY <1>3, <2>3, <2>4
  <2>6. PICK i \in k.insts : MadeOf(k, P, v, i)
    BY <1>1, <1>7
  <2>7. i \in D
    BY <1>6, <2>6
  <2>8. CASE v = i /\ i \notin P
    <3>1. i \notin S
      BY <1>10, <2>8 DEF R, ReplacedBy
    <3> QED
      BY <1>4, <2>5, <2>7, <2>8, <3>1
  <2>9. CASE i \in P /\ v = NewPhi(k, i)
    BY <1>3, <1>4, <2>9
  <2>10. CASE i \in P /\ v = ExitPhi(k, i)
    <3>1. i \notin S
      BY <1>10, <2>10 DEF R, ReplacedBy
    <3> QED
      BY <1>4, <2>5, <2>7, <2>10, <3>1
  <2> QED
    BY <2>6, <2>8, <2>9, <2>10 DEF MadeOf

<1> QED
  BY <1>7, <1>8, <1>9, <1>10 DEF IsListed, pdf

(* The list of divergent instructions, and the tree that tells what they    *)
(* are.                                                                     *)
ListedInv ==
    /\ ExtractionInv
    /\ IsListed(kernel, TidsIn(kernel, Direction), divInsts, original.blocks)
    /\ pc \in {"extract", "done"} => pdt = PostDomTree(kernel)

LEMMA InitListed == Init => ListedInv
<1> SUFFICES ASSUME Init PROVE ListedInv
  OBVIOUS
<1>1. /\ kernel \in Kernels /\ original = kernel /\ pdt = PostDomTree(kernel) /\ pc = "extract"
      /\ divInsts = Dependents(kernel, pdt, TidsIn(kernel, Direction))
  BY DEF Init
<1>2. /\ IsFiniteSet(kernel.insts)
      /\ TidsIn(kernel, Direction) \in SUBSET {i \in kernel.insts : kernel.kind[i] = "inst"}
  BY <1>1, KernelsAssumption
<1>3. IsListed(kernel, TidsIn(kernel, Direction), divInsts, kernel.blocks)
  BY <1>1, <1>2, ListedAtFirst
<1> QED
  BY <1>1, <1>3, InitExtraction DEF ListedInv

LEMMA TidsAreKept ==
    ASSUME NEW k
    PROVE  /\ \A b, moved, n : TidsIn(SplitBlock(k, b, moved, n), Direction) = TidsIn(k, Direction)
           /\ \A r, n : TidsIn(Isolated(k, r, n), Direction) = TidsIn(k, Direction)
BY DEF TidsIn, SplitBlock, Isolated

LEMMA ExtractKeepsListed == ListedInv /\ ExtractBranches => ListedInv'
<1> SUFFICES ASSUME ListedInv, ExtractBranches PROVE ListedInv'
  OBVIOUS
<1> DEFINE header     == regions[cur].header
           exiting    == ExitingOf(header)
           split      == ~IsHeader(header)
           newHeader  == IF split THEN NewBlock(kernel) ELSE header
           k1         == IF split THEN SplitBlock(kernel, header, BranchOf(kernel, header), newHeader)
                         ELSE kernel
           newExiting == NewBlock(k1)
           k2         == SplitBlock(k1, exiting, NonPhis(k1, exiting), newExiting)
           tids       == TidsIn(kernel, Direction)
           O          == original.blocks
<1>1. /\ pc = "extract" /\ cur <= Len(regions) /\ exiting # NoBlock
      /\ kernel' = k2 /\ pc' = "isolate" /\ divInsts' = divInsts /\ original' = original
  BY DEF ExtractBranches
<1>2. /\ Shape(kernel) /\ SSA(kernel) /\ regions \in Seq(RegionsOf(kernel)) /\ cur \in Nat \ {0}
      /\ pdt \in [kernel.blocks -> kernel.blocks \cup {NoBlock}]
      /\ IsListed(kernel, tids, divInsts, O)
  BY <1>1 DEF ListedInv, ExtractionInv
<1>3. header \in kernel.blocks
  <2>1. regions[cur] \in RegionsOf(kernel)
    BY <1>1, <1>2
  <2> QED
    BY <2>1 DEF RegionsOf
<1>4. exiting \in kernel.blocks
  <2>1. ExitBlock(kernel, loops[header]) \in kernel.blocks \cup {NoBlock}
    BY ExitBlockIs
  <2> QED
    BY <1>1, <1>2, <1>3, <2>1 DEF ExitingOf
<1> HIDE DEF header, exiting, tids, O
<1>5. Shape(k1) /\ SSA(k1) /\ kernel.blocks \subseteq k1.blocks /\ IsListed(k1, tids, divInsts, O)
  <2>1. CASE split
    <3>1. IsTail(kernel, header, BranchOf(kernel, header))
      BY <1>2, BranchIsTail
    <3>2. newHeader = NewBlock(kernel) /\ k1 = SplitBlock(kernel, header, BranchOf(kernel, header), newHeader)
      BY <2>1
    <3>3. Shape(k1) /\ SSA(k1)
      BY <1>2, <1>3, <3>1, <3>2, SplitKeepsSSA
    <3>4. k1.blocks = kernel.blocks \cup {newHeader}
      BY <3>2, SplitBlocks
    <3>5. IsListed(k1, tids, divInsts, O)
      BY <1>2, <1>3, <3>1, <3>2, SplitKeepsListed
    <3> QED
      BY <3>3, <3>4, <3>5
  <2>2. CASE ~split
    BY <1>2, <2>2
  <2> QED
    BY <2>1, <2>2
<1>6. TidsIn(k2, Direction) = tids
  <2>1. TidsIn(k2, Direction) = TidsIn(k1, Direction)
    BY TidsAreKept
  <2>2. TidsIn(k1, Direction) = TidsIn(kernel, Direction)
    BY TidsAreKept
  <2> QED
    BY <2>1, <2>2 DEF tids
<1> HIDE DEF k1, newHeader, split
<1>7. IsListed(k2, tids, divInsts, O)
  <2>1. IsTail(k1, exiting, NonPhis(k1, exiting))
    BY <1>5, NonPhisAreTail
  <2>2. exiting \in k1.blocks
    BY <1>4, <1>5
  <2> QED
    BY <1>5, <2>1, <2>2, SplitKeepsListed
<1>8. ExtractionInv'
  BY ExtractKeepsInv DEF ListedInv
<1> HIDE DEF k2
<1>9. IsListed(kernel, TidsIn(kernel, Direction), divInsts, original.blocks)'
  BY <1>1, <1>6, <1>7 DEF O
<1> QED
  BY <1>1, <1>8, <1>9 DEF ListedInv

LEMMA IsolateKeepsListed == ListedInv /\ (BailOut \/ IsolateRegion) => ListedInv'
<1> SUFFICES ASSUME ListedInv, BailOut \/ IsolateRegion PROVE ListedInv'
  OBVIOUS
<1>1. ExtractionInv'
  BY IsolateKeepsInv DEF ListedInv
<1>2. IsListed(kernel, TidsIn(kernel, Direction), divInsts, original.blocks)
  BY DEF ListedInv
<1>3. CASE BailOut
  <2>1. kernel' = kernel /\ divInsts' = divInsts /\ original' = original /\ pdt' = PostDomTree(kernel)
    BY <1>3 DEF BailOut, FinishIteration
  <2> QED
    BY <1>1, <1>2, <2>1 DEF ListedInv
<1>4. CASE IsolateRegion
  <2> DEFINE r    == regions[cur]
             n    == NewBlock(kernel)
             f    == Isolated(kernel, r, n)
             P    == Phis(kernel, r.exiting)
             L    == (divInsts \ (P \cap divInsts))
                        \cup UNION {{NewPhi(kernel, i), ExitPhi(kernel, i)} : i \in P \cap divInsts}
             tids == TidsIn(kernel, Direction)
             O    == original.blocks
  <2>1. /\ pc = "isolate" /\ kernel' = f /\ divInsts' = L /\ original' = original
        /\ pdt' = PostDomTree(f)
    BY <1>4 DEF IsolateRegion, FinishIteration, ListedPhisReplaced
  <2>2. Shape(kernel) /\ SSA(kernel) /\ r.exiting \in kernel.blocks
    BY <2>1 DEF ListedInv, ExtractionInv
  <2>3. TidsIn(f, Direction) = tids
    BY TidsAreKept
  <2>4. IsListed(kernel, tids, divInsts, O)
    BY <1>2
  <2> HIDE DEF r, tids, O
  <2>5. IsListed(f, tids, L, O)
    BY <2>2, <2>4, IsolatedKeepsListed
  <2> HIDE DEF f, L
  <2>6. IsListed(kernel, TidsIn(kernel, Direction), divInsts, original.blocks)'
    BY <2>1, <2>3, <2>5 DEF O
  <2> QED
    BY <1>1, <2>1, <2>6 DEF ListedInv
<1> QED
  BY <1>3, <1>4

LEMMA NextKeepsListed == ListedInv /\ [Next]_vars => ListedInv'
<1> SUFFICES ASSUME ListedInv, [Next]_vars PROVE ListedInv'
  OBVIOUS
<1>1. ExtractionInv'
  BY NextKeepsExtraction DEF ListedInv
<1>2. CASE ExtractBranches
  BY <1>2, ExtractKeepsListed
<1>3. CASE BailOut \/ IsolateRegion
  BY <1>3, IsolateKeepsListed
<1>4. CASE DereferenceNull \/ FillRegions
  <2>1. kernel' = kernel /\ divInsts' = divInsts /\ original' = original /\ pdt' = pdt /\ pc = "extract"
    BY <1>4 DEF DereferenceNull, FillRegions
  <2> QED
    BY <1>1, <2>1 DEF ListedInv
<1>5. CASE Terminated \/ UNCHANGED vars
  BY <1>1, <1>5 DEF Terminated, vars, ListedInv
<1> QED
  BY <1>2, <1>3, <1>4, <1>5 DEF Next

(* The divergent instructions are listed at the end of branch extraction as *)
(* a new analysis of the result would find them, however many regions were  *)
(* isolated, and nothing that was erased is; what is listed beyond that is  *)
(* a phi of a block that was made (isolateRegion, splitBlock).              *)
THEOREM DivergenceIsKept == Spec => []DivergenceKept
<1>1. ListedInv => DivergenceKept
  <2> SUFFICES ASSUME ListedInv, pc = "done" PROVE DivergenceKept
    BY DEF DivergenceKept
  <2> DEFINE pd   == PostDomTree(kernel)
             tids == TidsIn(kernel, Direction)
             D    == Dependents(kernel, pd, tids)
  <2>1. pdt = pd /\ IsFiniteSet(kernel.insts)
    BY DEF ListedInv, ExtractionInv, Shape
  <2>2. /\ tids \subseteq {i \in kernel.insts : kernel.kind[i] = "inst"}
        /\ tids \subseteq divInsts /\ divInsts \subseteq kernel.insts /\ Closed(kernel, pd, divInsts)
        /\ \A S \in SUBSET kernel.insts : tids \subseteq S /\ Closed(kernel, pd, S) =>
              \A i \in divInsts \ S : kernel.kind[i] = "phi" /\ kernel.parent[i] \notin original.blocks
    BY DEF ListedInv, IsListed
  <2> HIDE DEF pd, tids
  <2>3. /\ D \subseteq kernel.insts /\ tids \subseteq D /\ Closed(kernel, pd, D)
        /\ \A S : tids \subseteq S /\ Closed(kernel, pd, S) => D \subseteq S
    <3>1. tids \in SUBSET kernel.insts
      BY <2>2
    <3> QED
      BY <2>1, <3>1, DependentsIsLeast
  <2> HIDE DEF D
  <2>4. D \subseteq divInsts /\ \A i \in divInsts \ D :
           kernel.kind[i] = "phi" /\ kernel.parent[i] \notin original.blocks
    BY <2>2, <2>3
  <2> QED
    BY <2>1, <2>2, <2>4 DEF DivergenceKept, D, tids
<1> QED
  BY <1>1, InitListed, NextKeepsListed, PTL DEF Spec

----------------------------------------------------------------------------
(* That the kernel computes the same. Behind an old block p the new blocks  *)
(* form a tree whose leaves are the blocks p led to: T are the new blocks   *)
(* of kernel k, which came from kernel g, and up gives the block before.    *)

IsTree(k, g, p, T, up) ==
    /\ T \in SUBSET (k.blocks \ g.blocks)
    /\ up \in [T \cup Succs(g, p) -> T \cup {p}]
    /\ \A y \in T \cup {p} : \A x \in Succs(k, y) : x \in T \cup Succs(g, p) /\ up[x] = y
    /\ \A x \in T \cup Succs(g, p) : x \in Succs(k, up[x])
    /\ \A S \in SUBSET T : S # {} => \E x \in S : up[x] \notin S

(* All of a tree are blocks of the kernel.                                  *)
LEMMA TreeBlocks ==
    ASSUME NEW k, IsGraph(k), NEW g, NEW p \in k.blocks, NEW T, NEW up, IsTree(k, g, p, T, up)
    PROVE  T \cup {p} \cup Succs(g, p) \subseteq k.blocks
<1>1. ASSUME NEW x \in T \cup Succs(g, p) PROVE x \in k.blocks
  <2>1. up[x] \in k.blocks /\ x \in Succs(k, up[x])
    BY DEF IsTree
  <2> QED
    BY <2>1 DEF IsGraph
<1> QED
  BY <1>1

(* Sets that hold, with a block, what is above it in the tree, and what is  *)
(* above block y.                                                           *)
IsUpwards(T, up, A) == A \in SUBSET T /\ \A z \in A : up[z] \in T => up[z] \in A

Above(T, up, y) == {x \in T : \A A \in SUBSET T : y \in A /\ IsUpwards(T, up, A) => x \in A}

(* A block is above itself, and what is above it is the least such set.     *)
LEMMA AboveIs ==
    ASSUME NEW T, NEW up, NEW y \in T
    PROVE  /\ y \in Above(T, up, y) /\ IsUpwards(T, up, Above(T, up, y))
           /\ \A A : y \in A /\ IsUpwards(T, up, A) => Above(T, up, y) \subseteq A
           /\ \A z \in Above(T, up, y) : Above(T, up, z) \subseteq Above(T, up, y)
<1>1. y \in Above(T, up, y)
  BY DEF Above
<1>2. IsUpwards(T, up, Above(T, up, y))
  <2>1. ASSUME NEW z \in Above(T, up, y), up[z] \in T PROVE up[z] \in Above(T, up, y)
    <3> SUFFICES ASSUME NEW A \in SUBSET T, y \in A, IsUpwards(T, up, A) PROVE up[z] \in A
      BY <2>1 DEF Above
    <3>1. z \in A
      BY DEF Above
    <3> QED
      BY <2>1, <3>1 DEF IsUpwards
  <2> QED
    BY <2>1 DEF IsUpwards, Above
<1>3. \A A : y \in A /\ IsUpwards(T, up, A) => Above(T, up, y) \subseteq A
  BY DEF Above, IsUpwards
<1>4. ASSUME NEW z \in Above(T, up, y) PROVE Above(T, up, z) \subseteq Above(T, up, y)
  <2> SUFFICES ASSUME NEW x \in Above(T, up, z), NEW A \in SUBSET T, y \in A, IsUpwards(T, up, A)
               PROVE  x \in A
    BY DEF Above
  <2>1. z \in A
    BY DEF Above
  <2> QED
    BY <2>1 DEF Above
<1> QED
  BY <1>1, <1>2, <1>3, <1>4

(* Nothing is above itself.                                                 *)
LEMMA AboveIsLess ==
    ASSUME NEW T, NEW up, \A S \in SUBSET T : S # {} => \E x \in S : up[x] \notin S,
           NEW y \in T, up[y] \in T
    PROVE  /\ Above(T, up, up[y]) \subseteq Above(T, up, y)
           /\ y \notin Above(T, up, up[y])
<1> DEFINE U == Above(T, up, up[y])
<1>1. IsUpwards(T, up, U) /\ up[y] \in U
  BY AboveIs
<1>2. U \subseteq Above(T, up, y)
  <2>1. y \in Above(T, up, y) /\ IsUpwards(T, up, Above(T, up, y))
    BY AboveIs
  <2>2. up[y] \in Above(T, up, y)
    BY <2>1 DEF IsUpwards
  <2> QED
    BY <2>2, AboveIs
<1>3. ASSUME y \in U PROVE FALSE
  <2> DEFINE S == {x \in U : y \in Above(T, up, x)}
  <2>1. S \in SUBSET T /\ y \in S
    BY <1>3, AboveIs DEF Above
  <2>2. PICK x \in S : up[x] \notin S
    BY <2>1
  <2>3. x \in T /\ x \in U /\ y \in Above(T, up, x)
    BY <2>2 DEF Above
  <2>4. CASE x = y
    BY <1>1, <1>3, <2>2, <2>4
  <2>5. CASE x # y
    <3> DEFINE A == IF up[x] \in T THEN {x} \cup Above(T, up, up[x]) ELSE {x}
    <3>1. up[x] \in T => /\ IsUpwards(T, up, Above(T, up, up[x])) /\ up[x] \in Above(T, up, up[x])
      BY AboveIs
    <3>2. IsUpwards(T, up, A) /\ x \in A
      BY <2>3, <3>1 DEF IsUpwards
    <3> HIDE DEF A
    <3>3. Above(T, up, x) \subseteq A
      BY <2>3, <3>2, AboveIs
    <3>4. up[x] \in T /\ y \in Above(T, up, up[x])
      BY <2>3, <2>5, <3>3 DEF A
    <3>5. up[x] \in U
      BY <1>1, <2>3, <3>4 DEF IsUpwards
    <3> QED
      BY <2>2, <3>4, <3>5
  <2> QED
    BY <2>4, <2>5
<1> QED
  BY <1>2, <1>3

(* What splitting a block and diverting edges have in common: a new block n *)
(* on the edges from the blocks Y to the blocks X.                          *)
IsInserted(f, k, Y, X, n) ==
    /\ n \notin k.blocks /\ f.blocks = k.blocks \cup {n}
    /\ Y \subseteq k.blocks /\ X \subseteq k.blocks
    /\ \A y \in Y : X \subseteq Succs(k, y) /\ Succs(f, y) = (Succs(k, y) \ X) \cup {n}
    /\ Succs(f, n) = X
    /\ \A y \in k.blocks \ Y : Succs(f, y) = Succs(k, y)
    /\ X = {} => \E y \in k.blocks : Y = {y} /\ Succs(k, y) = {}

(* Splitting block b inserts the new one between it and all it led to.      *)
LEMMA SplitInserts ==
    ASSUME NEW k, IsGraph(k), k.succ \in [k.blocks -> Seq(k.blocks)],
           NEW f, NEW b, NEW n, IsSplit(f, k, b, n)
    PROVE  IsInserted(f, k, {b}, Succs(k, b), n)
<1>1. /\ b \in k.blocks /\ n \notin k.blocks /\ f.blocks = k.blocks \cup {n}
  BY DEF IsSplit
<1>2. Succs(f, b) = {n} /\ Succs(f, n) = Succs(k, b) /\ \A c \in k.blocks \ {b} : Succs(f, c) = Succs(k, c)
  BY SplitIs
<1>3. Succs(k, b) \subseteq k.blocks
  BY <1>1 DEF IsGraph
<1> QED
  BY <1>1, <1>2, <1>3 DEF IsInserted

(* Diverting the edges to block e inserts the new one before it.            *)
LEMMA DivertedInserts ==
    ASSUME NEW k, IsGraph(k), k.succ \in [k.blocks -> Seq(k.blocks)],
           NEW f, NEW B, NEW e, NEW n, IsDiverted(f, k, B, e, n)
    PROVE  IsInserted(f, k, Preds(k, e) \cap B, {e}, n)
<1>1. e \in k.blocks /\ n \notin k.blocks /\ f.blocks = k.blocks \cup {n}
  BY DEF IsDiverted
<1>2. /\ Succs(f, n) = {e}
      /\ \A c \in k.blocks : Succs(f, c) = IF c \in B /\ e \in Succs(k, c)
                                           THEN (Succs(k, c) \ {e}) \cup {n} ELSE Succs(k, c)
  BY DivertedIs
<1>3. \A c \in k.blocks : c \in Preds(k, e) \cap B <=> c \in B /\ e \in Succs(k, c)
  BY DEF Preds
<1>4. Preds(k, e) \cap B \subseteq k.blocks
  BY DEF Preds
<1> QED
  BY <1>1, <1>2, <1>3, <1>4 DEF IsInserted

(* The new block n comes behind y and before the blocks X.                  *)
UpWith(up, X, y, n) == [x \in DOMAIN up \cup {n} |-> IF x = n THEN y ELSE IF x \in X THEN n ELSE up[x]]

(* A tree the new block is not in, for none of the blocks Y is.             *)
LEMMA TreeIsKept ==
    ASSUME NEW k, IsGraph(k), NEW g, g.blocks \subseteq k.blocks, NEW p \in g.blocks,
           NEW f, NEW Y, NEW X, NEW n, IsInserted(f, k, Y, X, n),
           NEW T, NEW up, IsTree(k, g, p, T, up), Y \cap (T \cup {p}) = {}
    PROVE  IsTree(f, g, p, T, up)
<1>1. T \cup {p} \subseteq k.blocks \ Y /\ k.blocks \subseteq f.blocks
  BY DEF IsTree, IsInserted
<1>2. \A y \in T \cup {p} : Succs(f, y) = Succs(k, y)
  BY <1>1 DEF IsInserted
<1>3. \A x \in T \cup Succs(g, p) : up[x] \in T \cup {p}
  BY DEF IsTree
<1> QED
  BY <1>1, <1>2, <1>3 DEF IsTree

(* A tree the new block is in, between y and what it comes before.          *)
LEMMA TreeGrows ==
    ASSUME NEW k, IsGraph(k), NEW g, g.blocks \subseteq k.blocks, NEW p \in g.blocks,
           NEW f, NEW Y, NEW X, NEW n, IsInserted(f, k, Y, X, n),
           NEW T, NEW up, IsTree(k, g, p, T, up), NEW y \in Y, y \in T \cup {p}
    PROVE  /\ IsTree(f, g, p, T \cup {n}, UpWith(up, X, y, n))
           /\ Y \cap (T \cup {p}) = {y} /\ n \notin T \cup {p}
           /\ X \subseteq T \cup Succs(g, p) /\ n \notin T \cup Succs(g, p)
           /\ \A x \in X : up[x] = y
<1> DEFINE D == T \cup Succs(g, p)
           v == UpWith(up, X, y, n)
<1>1. /\ n \notin k.blocks /\ f.blocks = k.blocks \cup {n}
      /\ \A z \in Y : X \subseteq Succs(k, z) /\ Succs(f, z) = (Succs(k, z) \ X) \cup {n}
      /\ Succs(f, n) = X
      /\ \A z \in k.blocks \ Y : Succs(f, z) = Succs(k, z)
      /\ X = {} => \E z \in k.blocks : Y = {z} /\ Succs(k, z) = {}
  BY DEF IsInserted
<1>2. /\ T \in SUBSET (k.blocks \ g.blocks) /\ p \notin T /\ p \in k.blocks
      /\ up \in [D -> T \cup {p}]
      /\ \A z \in T \cup {p} : \A x \in Succs(k, z) : x \in D /\ up[x] = z
      /\ \A x \in D : x \in Succs(k, up[x])
      /\ \A S \in SUBSET T : S # {} => \E x \in S : up[x] \notin S
  BY DEF IsTree
<1>3. D \subseteq k.blocks
  <2> SUFFICES ASSUME NEW x \in D PROVE x \in k.blocks
    OBVIOUS
  <2>1. up[x] \in k.blocks /\ x \in Succs(k, up[x])
    BY <1>2
  <2> QED
    BY <2>1 DEF IsGraph
<1>4. X \subseteq D /\ \A x \in X : up[x] = y
  BY <1>1, <1>2
<1>5. Y \cap (T \cup {p}) = {y}
  <2> SUFFICES ASSUME NEW z \in Y, z \in T \cup {p} PROVE z = y
    OBVIOUS
  <2>1. CASE X = {}
    BY <1>1, <2>1
  <2>2. CASE X # {}
    BY <1>1, <1>2, <2>2
  <2> QED
    BY <2>1, <2>2
<1>6. /\ DOMAIN v = D \cup {n} /\ v[n] = y
      /\ \A x \in X : v[x] = n
      /\ \A x \in D \ X : v[x] = up[x]
  BY <1>1, <1>2, <1>3, <1>4 DEF UpWith
<1>7. v \in [(T \cup {n}) \cup Succs(g, p) -> (T \cup {n}) \cup {p}]
  <2>1. v = [x \in D \cup {n} |-> v[x]]
    BY <1>6 DEF UpWith
  <2>2. D \cup {n} = (T \cup {n}) \cup Succs(g, p)
    OBVIOUS
  <2> HIDE DEF v
  <2>3. \A x \in D \cup {n} : v[x] \in (T \cup {n}) \cup {p}
    BY <1>2, <1>4, <1>6
  <2> HIDE DEF D
  <2> QED
    BY <2>1, <2>2, <2>3
<1> HIDE DEF v
<1>8. \A z \in T \cup {p} : Succs(f, z) = IF z = y THEN (Succs(k, y) \ X) \cup {n} ELSE Succs(k, z)
  BY <1>1, <1>2, <1>5
<1>9. ASSUME NEW z \in T \cup {n} \cup {p}, NEW x \in Succs(f, z)
      PROVE  x \in (T \cup {n}) \cup Succs(g, p) /\ v[x] = z
  <2>1. CASE z = n
    BY <1>1, <1>4, <1>6, <2>1
  <2>2. CASE z = y
    <3>1. x = n \/ x \in Succs(k, y) \ X
      BY <1>8, <2>2
    <3> QED
      BY <1>2, <1>6, <2>2, <3>1
  <2>3. CASE z # n /\ z # y
    <3>1. x \in Succs(k, z) /\ z \in T \cup {p}
      BY <1>8, <2>3
    <3>2. x \in D /\ up[x] = z
      BY <1>2, <3>1
    <3>3. x \notin X
      BY <1>4, <2>3, <3>2
    <3> QED
      BY <1>6, <3>2, <3>3
  <2> QED
    BY <2>1, <2>2, <2>3
<1>10. ASSUME NEW x \in (T \cup {n}) \cup Succs(g, p) PROVE x \in Succs(f, v[x])
  <2>1. CASE x = n
    BY <1>6, <1>8, <2>1
  <2>2. CASE x \in X
    BY <1>1, <1>6, <2>2
  <2>3. CASE x \notin X /\ x # n
    <3>1. x \in D \ X /\ x \in Succs(k, up[x]) /\ up[x] \in T \cup {p}
      BY <1>2, <2>3
    <3> QED
      BY <1>6, <1>8, <3>1
  <2> QED
    BY <2>1, <2>2, <2>3
<1>11. ASSUME NEW S \in SUBSET (T \cup {n}), S # {} PROVE \E x \in S : v[x] \notin S
  <2>1. n \notin D /\ n # y /\ n \notin T
    BY <1>1, <1>2, <1>3
  <2>2. CASE S \ {n} = {}
    <3>1. S = {n}
      BY <1>11, <2>2
    <3> QED
      BY <1>6, <2>1, <3>1
  <2>3. CASE S \ {n} # {}
    <3>1. S \ {n} \in SUBSET T
      OBVIOUS
    <3>2. PICK x \in S \ {n} : up[x] \notin S \ {n}
      BY <1>2, <2>3, <3>1
    <3>3. x \in D /\ up[x] # n
      BY <1>1, <1>2, <3>2
    <3>4. CASE x \notin X
      BY <1>6, <3>2, <3>3, <3>4
    <3>5. CASE x \in X /\ n \notin S
      BY <1>6, <3>2, <3>5
    <3>6. CASE x \in X /\ n \in S
      BY <1>4, <1>6, <2>1, <3>2, <3>6
    <3> QED
      BY <3>4, <3>5, <3>6
  <2> QED
    BY <2>2, <2>3
<1>12. (T \cup {n}) \in SUBSET (f.blocks \ g.blocks)
  BY <1>1, <1>2
<1>13. IsTree(f, g, p, T \cup {n}, v)
  BY <1>7, <1>9, <1>10, <1>11, <1>12 DEF IsTree
<1> QED
  BY <1>1, <1>2, <1>3, <1>4, <1>5, <1>13 DEF v

(* A tree grows when one of its blocks is split.                            *)
LEMMA TreeSplits ==
    ASSUME NEW k, IsGraph(k), NEW g, g.blocks \subseteq k.blocks, NEW p \in g.blocks,
           NEW f, NEW b, NEW n, IsInserted(f, k, {b}, Succs(k, b), n),
           NEW T, NEW up, IsTree(k, g, p, T, up), b \in T \cup {p}
    PROVE  IsTree(f, g, p, T \cup {n}, UpWith(up, Succs(k, b), b, n))
<1> DEFINE Y == {b}
           X == Succs(k, b)
<1>1. b \in Y /\ IsInserted(f, k, Y, X, n)
  OBVIOUS
<1> HIDE DEF Y, X
<1>2. IsTree(f, g, p, T \cup {n}, UpWith(up, X, b, n))
  BY <1>1, TreeGrows
<1> QED
  BY <1>2 DEF X

(* What is above a block of a tree that grew is what was above it, and more *)
(* only by the new block.                                                   *)
LEMMA AboveGrows ==
    ASSUME NEW T, NEW D, NEW p, NEW up \in [D -> T \cup {p}], T \subseteq D, NEW n, n \notin D,
           NEW X \in SUBSET D, NEW y \in T \cup {p}, \A x \in X : up[x] = y
    PROVE  /\ \A z \in T : Above(T, up, z) \subseteq Above(T \cup {n}, UpWith(up, X, y, n), z)
           /\ y \in T => Above(T, up, y) \subseteq Above(T \cup {n}, UpWith(up, X, y, n), n)
<1> DEFINE W == T \cup {n}
           v == UpWith(up, X, y, n)
<1>1. /\ v[n] = y /\ \A x \in X : v[x] = n
      /\ \A x \in D \ X : v[x] = up[x]
  BY DEF UpWith
<1> HIDE DEF v
<1>2. ASSUME NEW A, IsUpwards(W, v, A) PROVE IsUpwards(T, up, A \cap T)
  <2> SUFFICES ASSUME NEW z \in A \cap T, up[z] \in T PROVE up[z] \in A
    BY DEF IsUpwards
  <2>1. CASE z \notin X
    BY <1>1, <1>2, <2>1 DEF IsUpwards
  <2>2. CASE z \in X
    <3>1. v[z] = n /\ up[z] = y /\ n \in W /\ y \in W
      BY <1>1, <2>2
    <3>2. n \in A
      BY <1>2, <3>1 DEF IsUpwards
    <3> QED
      BY <1>1, <1>2, <3>1, <3>2 DEF IsUpwards
  <2> QED
    BY <2>1, <2>2
<1>3. ASSUME NEW z \in T, NEW x \in Above(T, up, z) PROVE x \in Above(W, v, z)
  <2>1. x \in T
    BY DEF Above
  <2> SUFFICES ASSUME NEW A \in SUBSET W, z \in A, IsUpwards(W, v, A) PROVE x \in A
    BY <2>1 DEF Above
  <2>2. z \in A \cap T /\ A \cap T \in SUBSET T /\ IsUpwards(T, up, A \cap T)
    BY <1>2
  <2> QED
    BY <2>2 DEF Above
<1>4. ASSUME y \in T PROVE Above(T, up, y) \subseteq Above(W, v, n)
  <2>1. n \in W /\ y \in W
    BY <1>4
  <2>2. IsUpwards(W, v, Above(W, v, n)) /\ n \in Above(W, v, n)
    BY <2>1, AboveIs
  <2>3. y \in Above(W, v, n)
    BY <1>1, <2>1, <2>2 DEF IsUpwards
  <2>4. Above(W, v, y) \subseteq Above(W, v, n)
    BY <2>1, <2>3, AboveIs
  <2> QED
    BY <1>3, <1>4, <2>4
<1> QED
  BY <1>3, <1>4 DEF v

(* The branch of the old block p is at the end of block q, as it was; and   *)
(* the blocks behind it lead, each side, where that side led: to gives the  *)
(* old block a new one leads to, where there is but one.                    *)
IsSides(k, g, p, T, q, to) ==
    /\ q \in T \cup {p}
    /\ \A i \in BranchOf(g, p) : k.parent[i] = q
    /\ Len(k.succ[q]) = Len(g.succ[p])
    /\ DOMAIN to = T \cup Succs(g, p)
    /\ \A x \in DOMAIN g.succ[p] : to[k.succ[q][x]] = g.succ[p][x]
    /\ \A b \in Succs(g, p) : to[b] = b
    /\ \A y \in T : to[y] # NoBlock => Succs(k, y) # {} /\ \A x \in Succs(k, y) : to[x] = to[y]

(* The new block n leads to t.                                              *)
ToWith(to, n, t) == [x \in DOMAIN to \cup {n} |-> IF x = n THEN t ELSE to[x]]

(* The sides of a branch when the blocks behind it lead where they led.     *)
LEMMA SidesAreKept ==
    ASSUME NEW k, NEW f, NEW g, NEW p, NEW T, NEW q, NEW to, IsSides(k, g, p, T, q, to),
           \A z \in T \cup {p} : f.succ[z] = k.succ[z],
           \A i \in BranchOf(g, p) : f.parent[i] = k.parent[i]
    PROVE  IsSides(f, g, p, T, q, to)
<1>1. \A z \in T : Succs(f, z) = Succs(k, z)
  BY DEF Succs
<1>2. q \in T \cup {p} /\ f.succ[q] = k.succ[q]
  BY DEF IsSides
<1> QED
  BY <1>1, <1>2 DEF IsSides

(* Block y of the tree is split, the branch with it if it has it.           *)
LEMMA SplitSides ==
    ASSUME NEW k, NEW f, NEW g, NEW p, NEW T, NEW n, n \notin T \cup {p}, n \notin T \cup Succs(g, p),
           NEW y \in T \cup {p}, \A z \in T \cup {p} : Succs(k, z) \subseteq T \cup Succs(g, p),
           f.succ[y] = <<n>>, f.succ[n] = k.succ[y],
           \A z \in (T \cup {p}) \ {y} : f.succ[z] = k.succ[z],
           NEW q, NEW to, IsSides(k, g, p, T, q, to),
           DOMAIN k.succ[q] = DOMAIN g.succ[p],
           \A i \in BranchOf(g, p) : f.parent[i] = IF k.parent[i] = y THEN n ELSE k.parent[i]
    PROVE  IsSides(f, g, p, T \cup {n}, IF q = y THEN n ELSE q,
                   ToWith(to, n, IF y \in T THEN to[y] ELSE NoBlock))
<1> DEFINE t == IF y \in T THEN to[y] ELSE NoBlock
           w == ToWith(to, n, t)
           r == IF q = y THEN n ELSE q
<1>1. /\ q \in T \cup {p} /\ DOMAIN to = T \cup Succs(g, p)
      /\ \A i \in BranchOf(g, p) : k.parent[i] = q
      /\ Len(k.succ[q]) = Len(g.succ[p])
      /\ \A x \in DOMAIN g.succ[p] : to[k.succ[q][x]] = g.succ[p][x]
      /\ \A b \in Succs(g, p) : to[b] = b
      /\ \A z \in T : to[z] # NoBlock => Succs(k, z) # {} /\ \A x \in Succs(k, z) : to[x] = to[z]
  BY DEF IsSides
<1>2. w[n] = t /\ DOMAIN w = T \cup Succs(g, p) \cup {n} /\ \A x \in T \cup Succs(g, p) : w[x] = to[x]
  BY <1>1 DEF ToWith
<1>3. f.succ[r] = k.succ[q]
  BY <1>1
<1>4. /\ Succs(f, y) = {n} /\ Succs(f, n) = Succs(k, y)
      /\ \A z \in (T \cup {p}) \ {y} : Succs(f, z) = Succs(k, z)
  BY DEF Succs
<1> HIDE DEF w
<1>5. \A x \in DOMAIN g.succ[p] : w[f.succ[r][x]] = g.succ[p][x]
  <2> SUFFICES ASSUME NEW x \in DOMAIN g.succ[p] PROVE w[k.succ[q][x]] = g.succ[p][x]
    BY <1>3
  <2>1. k.succ[q][x] \in Succs(k, q)
    BY <1>1 DEF Succs
  <2>2. k.succ[q][x] \in T \cup Succs(g, p)
    BY <1>1, <2>1
  <2> QED
    BY <1>1, <1>2, <2>2
<1>6. \A b \in Succs(g, p) : w[b] = b
  BY <1>1, <1>2
<1>7. ASSUME NEW z \in T \cup {n}, w[z] # NoBlock
      PROVE  Succs(f, z) # {} /\ \A x \in Succs(f, z) : w[x] = w[z]
  <2>1. CASE z = n
    <3>1. y \in T /\ to[y] # NoBlock /\ w[z] = to[y]
      BY <1>2, <1>7, <2>1
    <3>2. Succs(k, y) # {} /\ \A x \in Succs(k, y) : to[x] = to[y] /\ x \in T \cup Succs(g, p)
      BY <1>1, <3>1
    <3> QED
      BY <1>2, <1>4, <2>1, <3>1, <3>2
  <2>2. CASE z = y /\ z # n
    <3>1. y \in T /\ w[y] = to[y] /\ w[n] = to[y]
      BY <1>2, <2>2
    <3> QED
      BY <1>4, <2>2, <3>1
  <2>3. CASE z # y /\ z # n
    <3>1. z \in T /\ w[z] = to[z] /\ Succs(f, z) = Succs(k, z)
      BY <1>2, <1>4, <2>3
    <3>2. Succs(k, z) # {} /\ \A x \in Succs(k, z) : to[x] = to[z] /\ x \in T \cup Succs(g, p)
      BY <1>1, <1>7, <3>1
    <3> QED
      BY <1>2, <3>1, <3>2
  <2> QED
    BY <2>1, <2>2, <2>3
<1>8. \A i \in BranchOf(g, p) : f.parent[i] = r
  BY <1>1
<1>9. r \in (T \cup {n}) \cup {p} /\ DOMAIN w = (T \cup {n}) \cup Succs(g, p)
  BY <1>1, <1>2
<1>10. Len(f.succ[r]) = Len(g.succ[p])
  BY <1>1, <1>3
<1> HIDE DEF r
<1>11. IsSides(f, g, p, T \cup {n}, r, w)
  BY <1>5, <1>6, <1>7, <1>8, <1>9, <1>10 DEF IsSides
<1> QED
  BY <1>11 DEF r, w

(* The edges from block y of the tree to block e are diverted.              *)
(* What is to be known of the kernels for that.                             *)
IsTurn(f, k, g, p, T, n, y, e, q, to) ==
    /\ n \notin T \cup {p} /\ n \notin T \cup Succs(g, p) /\ y \in T \cup {p}
    /\ \A z \in T \cup {p} : Succs(k, z) \subseteq T \cup Succs(g, p)
    /\ e \in Succs(k, y) /\ Succs(f, n) = {e}
    /\ f.succ[y] = [x \in DOMAIN k.succ[y] |-> IF k.succ[y][x] = e THEN n ELSE k.succ[y][x]]
    /\ \A z \in (T \cup {p}) \ {y} : f.succ[z] = k.succ[z]
    /\ Len(f.succ[y]) = Len(k.succ[y])
    /\ IsSides(k, g, p, T, q, to) /\ DOMAIN k.succ[q] = DOMAIN g.succ[p]
    /\ \A i \in BranchOf(g, p) : f.parent[i] = k.parent[i]

LEMMA DivertedSides ==
    ASSUME NEW f, NEW k, NEW g, NEW p, NEW T, NEW n, NEW y, NEW e, NEW q, NEW to,
           IsTurn(f, k, g, p, T, n, y, e, q, to)
    PROVE  IsSides(f, g, p, T \cup {n}, q, ToWith(to, n, to[e]))
<1>0. /\ n \notin T \cup {p} /\ n \notin T \cup Succs(g, p) /\ y \in T \cup {p}
      /\ \A z \in T \cup {p} : Succs(k, z) \subseteq T \cup Succs(g, p)
      /\ e \in Succs(k, y) /\ Succs(f, n) = {e}
      /\ f.succ[y] = [x \in DOMAIN k.succ[y] |-> IF k.succ[y][x] = e THEN n ELSE k.succ[y][x]]
      /\ \A z \in (T \cup {p}) \ {y} : f.succ[z] = k.succ[z]
      /\ Len(f.succ[y]) = Len(k.succ[y])
      /\ IsSides(k, g, p, T, q, to) /\ DOMAIN k.succ[q] = DOMAIN g.succ[p]
      /\ \A i \in BranchOf(g, p) : f.parent[i] = k.parent[i]
  BY DEF IsTurn
<1> USE <1>0
<1> DEFINE w == ToWith(to, n, to[e])
<1>1. /\ q \in T \cup {p} /\ DOMAIN to = T \cup Succs(g, p)
      /\ \A i \in BranchOf(g, p) : k.parent[i] = q
      /\ Len(k.succ[q]) = Len(g.succ[p])
      /\ \A x \in DOMAIN g.succ[p] : to[k.succ[q][x]] = g.succ[p][x]
      /\ \A b \in Succs(g, p) : to[b] = b
      /\ \A z \in T : to[z] # NoBlock => Succs(k, z) # {} /\ \A x \in Succs(k, z) : to[x] = to[z]
  BY DEF IsSides
<1>2. w[n] = to[e] /\ DOMAIN w = T \cup Succs(g, p) \cup {n} /\ \A x \in T \cup Succs(g, p) : w[x] = to[x]
  BY <1>1 DEF ToWith
<1>3. /\ Succs(f, y) = (Succs(k, y) \ {e}) \cup {n}
      /\ \A z \in (T \cup {p}) \ {y} : Succs(f, z) = Succs(k, z)
  BY DEF Succs
<1> HIDE DEF w
<1>4. \A x \in DOMAIN g.succ[p] : w[f.succ[q][x]] = g.succ[p][x]
  <2> SUFFICES ASSUME NEW x \in DOMAIN g.succ[p] PROVE w[f.succ[q][x]] = g.succ[p][x]
    OBVIOUS
  <2>1. k.succ[q][x] \in Succs(k, q) /\ Succs(k, q) \subseteq T \cup Succs(g, p)
    BY <1>1 DEF Succs
  <2>2. w[k.succ[q][x]] = g.succ[p][x]
    BY <1>1, <1>2, <2>1
  <2>3. CASE q = y /\ k.succ[q][x] = e
    <3>1. f.succ[q][x] = n
      BY <2>3
    <3> QED
      BY <1>1, <1>2, <2>3, <3>1
  <2>4. CASE ~(q = y /\ k.succ[q][x] = e)
    <3>1. f.succ[q][x] = k.succ[q][x]
      BY <1>1, <2>4
    <3> QED
      BY <2>2, <3>1
  <2> QED
    BY <2>3, <2>4
<1>5. \A b \in Succs(g, p) : w[b] = b
  BY <1>1, <1>2
<1>6. ASSUME NEW z \in T \cup {n}, w[z] # NoBlock
      PROVE  Succs(f, z) # {} /\ \A x \in Succs(f, z) : w[x] = w[z]
  <2>1. CASE z = n
    BY <1>2, <2>1
  <2>2. CASE z = y /\ z # n
    <3>1. y \in T /\ w[y] = to[y] /\ to[e] = to[y]
      BY <1>1, <1>2, <1>6, <2>2
    <3>2. \A x \in Succs(k, y) : to[x] = to[y] /\ x \in T \cup Succs(g, p)
      BY <1>1, <1>2, <1>6, <2>2
    <3> QED
      BY <1>2, <1>3, <2>2, <3>1, <3>2
  <2>3. CASE z # y /\ z # n
    <3>1. z \in T /\ w[z] = to[z] /\ Succs(f, z) = Succs(k, z)
      BY <1>2, <1>3, <2>3
    <3>2. Succs(k, z) # {} /\ \A x \in Succs(k, z) : to[x] = to[z] /\ x \in T \cup Succs(g, p)
      BY <1>1, <1>6, <3>1
    <3> QED
      BY <1>2, <3>1, <3>2
  <2> QED
    BY <2>1, <2>2, <2>3
<1>7. Len(f.succ[q]) = Len(g.succ[p])
  BY <1>1
<1>8. IsSides(f, g, p, T \cup {n}, q, w)
  <2>1. q \in (T \cup {n}) \cup {p} /\ DOMAIN w = (T \cup {n}) \cup Succs(g, p)
    BY <1>1, <1>2
  <2>2. \A i \in BranchOf(g, p) : f.parent[i] = q
    BY <1>1
  <2> QED
    BY <1>4, <1>5, <1>6, <1>7, <2>1, <2>2 DEF IsSides
<1> QED
  BY <1>8 DEF w

(* The value val[v] a phi has when control comes from p is that of its      *)
(* operand for the block before, which is a phi of a new block above it or  *)
(* no phi of a new block on this way.                                       *)
IsOnWay(k, T, v) == v \in k.insts /\ k.kind[v] = "phi" /\ k.parent[v] \in T

Through(k, T, val, w) == IF IsOnWay(k, T, w) THEN val[w] ELSE w

IsValues(k, g, p, T, up, val) ==
    \A v \in k.insts : k.kind[v] = "phi" /\ k.parent[v] \in T \cup Succs(g, p) =>
        LET y == up[k.parent[v]]
            w == k.ops[v][y]
        IN  /\ val[v] = Through(k, T, val, w)
            /\ IsOnWay(k, T, w) => y \in T /\ k.parent[w] \in Above(T, up, y)

(* Splitting a block changes the value of no phi.                           *)
LEMMA SplitValues ==
    ASSUME NEW k, Shape(k), SSA(k), NEW b \in k.blocks, NEW moved, moved \in SUBSET NonPhis(k, b),
           NEW n, n = NewBlock(k), NEW f, f = SplitBlock(k, b, moved, n),
           NEW g, g.blocks \subseteq k.blocks, NEW p \in g.blocks,
           NEW T, NEW up, IsTree(k, g, p, T, up), NEW val, IsValues(k, g, p, T, up, val)
    PROVE  /\ b \notin T \cup {p} => IsValues(f, g, p, T, up, val)
           /\ b \in T \cup {p} =>
                 IsValues(f, g, p, T \cup {n}, UpWith(up, Succs(k, b), b, n), val)
<1> DEFINE X == Succs(k, b)
           R == IF b \in T \cup {p} THEN T \cup {n} ELSE T
           w == IF b \in T \cup {p} THEN UpWith(up, X, b, n) ELSE up
<1>1. /\ IsSplit(f, k, b, n)
      /\ f.insts = k.insts /\ f.kind = k.kind
      /\ f.parent = [i \in k.insts |-> IF i \in moved THEN n ELSE k.parent[i]]
      /\ \A i \in k.insts : k.kind[i] = "phi" => IsRenamed(f.ops[i], k.ops[i], b, n)
  BY SplitBlockIs
<1>2. /\ IsGraph(k) /\ k.succ \in [k.blocks -> Seq(k.blocks)] /\ k.parent \in [k.insts -> k.blocks]
      /\ n \notin k.blocks
  BY <1>1 DEF Shape, IsSplit
<1>3. /\ up \in [T \cup Succs(g, p) -> T \cup {p}] /\ T \subseteq k.blocks \ g.blocks
      /\ \A z \in T \cup {p} : \A x \in Succs(k, z) : x \in T \cup Succs(g, p) /\ up[x] = z
      /\ \A x \in T \cup Succs(g, p) : x \in Succs(k, up[x])
  BY DEF IsTree
<1>4. T \cup Succs(g, p) \subseteq k.blocks
  <2> SUFFICES ASSUME NEW x \in T \cup Succs(g, p) PROVE x \in k.blocks
    OBVIOUS
  <2>1. up[x] \in k.blocks /\ x \in Succs(k, up[x])
    BY <1>3
  <2> QED
    BY <1>2, <2>1 DEF IsGraph
<1>5. ASSUME b \in T \cup {p} PROVE /\ X \subseteq T \cup Succs(g, p) /\ \A x \in X : up[x] = b
  BY <1>3, <1>5
<1>6. \A x \in T \cup Succs(g, p) : w[x] = IF up[x] = b THEN n ELSE up[x]
  <2> SUFFICES ASSUME NEW x \in T \cup Succs(g, p) PROVE w[x] = IF up[x] = b THEN n ELSE up[x]
    OBVIOUS
  <2>1. x # n /\ up[x] \in T \cup {p} /\ x \in Succs(k, up[x]) /\ x \in DOMAIN up
    BY <1>2, <1>3, <1>4
  <2>2. CASE b \notin T \cup {p}
    BY <2>1, <2>2
  <2>3. CASE b \in T \cup {p}
    <3>1. x \in X <=> up[x] = b
      BY <1>5, <2>1, <2>3
    <3>2. w[x] = IF x \in X THEN n ELSE up[x]
      BY <2>1, <2>3 DEF UpWith
    <3> QED
      BY <3>1, <3>2
  <2> QED
    BY <2>2, <2>3
<1>7. \A v \in k.insts : k.kind[v] = "phi" => f.parent[v] = k.parent[v] /\ k.parent[v] # n
  BY <1>1, <1>2 DEF NonPhis, Phis, Insts
<1>8. \A v : IsOnWay(f, R, v) <=> IsOnWay(k, T, v)
  BY <1>1, <1>7 DEF IsOnWay
<1>9. ASSUME NEW x \in T PROVE Above(T, up, x) \subseteq Above(R, w, x)
  <2>1. CASE b \notin T \cup {p}
    BY <2>1
  <2>2. CASE b \in T \cup {p}
    <3>1. n \notin T \cup Succs(g, p) /\ T \subseteq T \cup Succs(g, p)
      BY <1>2, <1>4
    <3>2. R = T \cup {n} /\ w = UpWith(up, X, b, n)
      BY <2>2
    <3>3. X \in SUBSET (T \cup Succs(g, p)) /\ \A z \in X : up[z] = b
      BY <1>5, <2>2
    <3>4. up \in [T \cup Succs(g, p) -> T \cup {p}]
      BY <1>3
    <3> HIDE DEF X, R, w
    <3> QED
      BY <2>2, <3>1, <3>2, <3>3, <3>4, AboveGrows
  <2> QED
    BY <2>1, <2>2
<1>10. ASSUME b \in T PROVE Above(T, up, b) \subseteq Above(R, w, n) /\ n \in R
  <2>1. n \notin T \cup Succs(g, p) /\ T \subseteq T \cup Succs(g, p)
    BY <1>2, <1>4
  <2>2. R = T \cup {n} /\ w = UpWith(up, X, b, n) /\ b \in T \cup {p}
    BY <1>10
  <2>3. X \in SUBSET (T \cup Succs(g, p)) /\ \A z \in X : up[z] = b
    BY <1>5, <2>2
  <2>4. up \in [T \cup Succs(g, p) -> T \cup {p}]
    BY <1>3
  <2> HIDE DEF X, R, w
  <2> QED
    BY <1>10, <2>1, <2>2, <2>3, <2>4, AboveGrows
<1> HIDE DEF R, w
<1>11. ASSUME NEW v \in k.insts, k.kind[v] = "phi", k.parent[v] \in T \cup Succs(g, p)
       PROVE  LET y == w[k.parent[v]]
                  o == f.ops[v][y]
              IN  /\ val[v] = Through(f, R, val, o)
                  /\ IsOnWay(f, R, o) => y \in R /\ f.parent[o] \in Above(R, w, y)
  <2> DEFINE x == k.parent[v]
             y == up[x]
             o == k.ops[v][y]
  <2>1. /\ val[v] = Through(k, T, val, o)
        /\ IsOnWay(k, T, o) => y \in T /\ k.parent[o] \in Above(T, up, y)
    BY <1>11 DEF IsValues
  <2>2. y \in Preds(k, x) /\ x \in Succs(k, y)
    BY <1>3, <1>11 DEF Preds
  <2>3. DOMAIN k.ops[v] = Preds(k, x)
    BY <1>11 DEF SSA
  <2>4. w[x] = IF y = b THEN n ELSE y
    BY <1>6, <1>11
  <2>5. y \in k.blocks
    BY <2>2 DEF Preds
  <2>6. f.ops[v][w[x]] = o
    <3>1. IsRenamed(f.ops[v], k.ops[v], b, n)
      BY <1>1, <1>11
    <3>2. w[x] \in DOMAIN f.ops[v]
      <4>1. w[x] \in RenamedBlocks(DOMAIN k.ops[v], b, n)
        BY <2>2, <2>3, <2>4 DEF RenamedBlocks
      <4> QED
        BY <3>1, <4>1 DEF IsRenamed
    <3>3. PICK z \in DOMAIN k.ops[v] :
             f.ops[v][w[x]] = k.ops[v][z] /\ ((w[x] = n /\ z = b) \/ (w[x] = z /\ z # b))
      BY <3>1, <3>2 DEF IsRenamed
    <3>4. z # n /\ y # n
      BY <1>2, <2>3, <2>5 DEF Preds
    <3>5. z = y
      BY <2>4, <3>3, <3>4
    <3> QED
      BY <3>3, <3>5
  <2>7. Through(f, R, val, o) = Through(k, T, val, o)
    BY <1>8 DEF Through
  <2>8. ASSUME IsOnWay(f, R, o) PROVE w[x] \in R /\ f.parent[o] \in Above(R, w, w[x])
    <3>1. IsOnWay(k, T, o) /\ f.parent[o] = k.parent[o]
      BY <1>7, <1>8, <2>8 DEF IsOnWay
    <3>2. y \in T /\ k.parent[o] \in Above(T, up, y) /\ y \in R
      BY <2>1, <3>1 DEF R
    <3> QED
      BY <1>9, <1>10, <2>4, <3>1, <3>2
  <2> HIDE DEF y, o
  <2> QED
    BY <2>1, <2>6, <2>7, <2>8
<1>12. IsValues(f, g, p, R, w, val)
  <2> SUFFICES ASSUME NEW v \in f.insts, f.kind[v] = "phi", f.parent[v] \in R \cup Succs(g, p)
               PROVE  LET y == w[f.parent[v]]
                          o == f.ops[v][y]
                      IN  /\ val[v] = Through(f, R, val, o)
                          /\ IsOnWay(f, R, o) => y \in R /\ f.parent[o] \in Above(R, w, y)
    BY DEF IsValues
  <2>1. v \in k.insts /\ k.kind[v] = "phi" /\ f.parent[v] = k.parent[v] /\ k.parent[v] # n
    BY <1>1, <1>7
  <2>2. k.parent[v] \in T \cup Succs(g, p)
    BY <2>1 DEF R
  <2> QED
    BY <1>11, <2>1, <2>2
<1> QED
  BY <1>12 DEF R, w

(* What a phi stands for when its block was isolated.                       *)
ValuesMade(f, k, P, val) ==
    [u \in f.insts |-> ReplacedBy(k, P, val[CHOOSE i \in k.insts : MadeOf(k, P, u, i)])]

(* It is what replaces what the phi stood for that the new one was made of. *)
LEMMA ValuesMadeAre ==
    ASSUME NEW k, Shape(k), SSA(k), NEW r, r.exiting \in k.blocks,
           NEW n, n = NewBlock(k), NEW f, f = Isolated(k, r, n),
           NEW P, P = Phis(k, r.exiting), NEW val
    PROVE  \A i \in k.insts : \A u : MadeOf(k, P, u, i) =>
               u \in f.insts /\ ValuesMade(f, k, P, val)[u] = ReplacedBy(k, P, val[i])
<1>1. /\ \A u \in f.insts : \E i \in k.insts : MadeOf(k, P, u, i)
      /\ \A i, j \in k.insts : \A u : MadeOf(k, P, u, i) /\ MadeOf(k, P, u, j) => i = j
      /\ \A i \in k.insts : MadeOf(k, P, ReplacedBy(k, P, i), i)
      /\ \A i \in k.insts : \A u : MadeOf(k, P, u, i) => u \in f.insts
  BY SMTT(30), IsolatedOperands
<1> SUFFICES ASSUME NEW i \in k.insts, NEW u, MadeOf(k, P, u, i)
             PROVE  u \in f.insts /\ ValuesMade(f, k, P, val)[u] = ReplacedBy(k, P, val[i])
  OBVIOUS
<1>2. (CHOOSE j \in k.insts : MadeOf(k, P, u, j)) = i
  BY <1>1
<1>3. u \in f.insts
  BY <1>1
<1>4. ValuesMade(f, k, P, val)[u] = ReplacedBy(k, P, val[CHOOSE j \in k.insts : MadeOf(k, P, u, j)])
  BY <1>3 DEF ValuesMade
<1> QED
  BY <1>2, <1>3, <1>4

(* Kernel f is k with region r isolated; P are the phis that were divided.  *)
IsMade(f, k, r, n, P) ==
    /\ Shape(k) /\ SSA(k) /\ r.exiting \in k.blocks
    /\ n = NewBlock(k) /\ f = Isolated(k, r, n) /\ P = Phis(k, r.exiting)

(* S and T have the same of the blocks B.                                   *)
AgreeOn(B, S, T) == \A b \in B : b \in S <=> b \in T

(* A value is on the way as what replaces it is, and what it stands for is  *)
(* replaced likewise.                                                       *)
LEMMA ThroughMade ==
    ASSUME NEW k, NEW r, NEW n, NEW f, NEW P, IsMade(f, k, r, n, P), NEW val,
           NEW T, NEW S, AgreeOn(k.blocks, S, T)
    PROVE  \A o \in k.insts \cup {Const} :
              /\ Through(f, S, ValuesMade(f, k, P, val), ReplacedBy(k, P, o))
                    = ReplacedBy(k, P, Through(k, T, val, o))
              /\ IsOnWay(f, S, ReplacedBy(k, P, o)) =>
                    IsOnWay(k, T, o) /\ f.parent[ReplacedBy(k, P, o)] = k.parent[o]
<1>0. Shape(k) /\ SSA(k) /\ r.exiting \in k.blocks /\ n = NewBlock(k) /\ f = Isolated(k, r, n)
      /\ P = Phis(k, r.exiting)
  BY DEF IsMade
<1> SUFFICES ASSUME NEW o \in k.insts \cup {Const}
             PROVE  /\ Through(f, S, ValuesMade(f, k, P, val), ReplacedBy(k, P, o))
                          = ReplacedBy(k, P, Through(k, T, val, o))
                    /\ IsOnWay(f, S, ReplacedBy(k, P, o)) =>
                          IsOnWay(k, T, o) /\ f.parent[ReplacedBy(k, P, o)] = k.parent[o]
  OBVIOUS
<1> DEFINE w == ReplacedBy(k, P, o)
           e == r.exiting
<1>1. /\ n \notin k.blocks
      /\ f.insts = (k.insts \ P) \cup {NewPhi(k, i) : i \in P} \cup {ExitPhi(k, i) : i \in P}
      /\ \A j \in k.insts \ P : f.parent[j] = k.parent[j] /\ f.kind[j] = k.kind[j]
      /\ \A i \in P : f.parent[ExitPhi(k, i)] = e /\ f.kind[ExitPhi(k, i)] = "phi"
  <2>1. IsIsolated(f, k, r.blocks, r.exiting, n)
    BY <1>0, IsolatedIs
  <2> HIDE DEF w
  <2> QED
    BY <1>0, <2>1 DEF IsIsolated, IsDiverted
<1>2. \A i \in P : i \in k.insts /\ k.parent[i] = e /\ k.kind[i] = "phi"
  BY <1>0 DEF Phis
<1>3. \A i \in k.insts : k.parent[i] \in k.blocks /\ i # Const
  BY <1>0 DEF Shape
<1>4. CASE o = Const
  <2>1. o \notin k.insts
    BY <1>3, <1>4
  <2>2. o \notin f.insts
    <3>1. \A i \in k.insts : NewPhi(k, i) # Const /\ ExitPhi(k, i) # Const
      BY <1>0, NewPhisAreNew
    <3> QED
      BY <1>1, <1>2, <1>4, <2>1, <3>1
  <2>3. w = o
    BY <1>2, <2>1 DEF ReplacedBy
  <2>4. ~IsOnWay(f, S, w) /\ ~IsOnWay(k, T, o)
    BY <2>1, <2>2, <2>3 DEF IsOnWay
  <2> QED
    BY <2>3, <2>4 DEF Through
<1>5. CASE o \in k.insts
  <2>1. MadeOf(k, P, w, o)
    BY <1>0, <1>5, IsolatedOperands
  <2>2. w \in f.insts /\ ValuesMade(f, k, P, val)[w] = ReplacedBy(k, P, val[o])
    BY <1>5, <2>1, <1>0, ValuesMadeAre
  <2>3. f.parent[w] = k.parent[o] /\ f.kind[w] = k.kind[o]
    BY <1>1, <1>2, <1>5 DEF ReplacedBy
  <2>4. IsOnWay(f, S, w) <=> IsOnWay(k, T, o)
    BY <1>1, <1>3, <1>5, <2>2, <2>3 DEF IsOnWay, AgreeOn
  <2> HIDE DEF w
  <2>5. Through(f, S, ValuesMade(f, k, P, val), w) = ReplacedBy(k, P, Through(k, T, val, o))
    <3>1. CASE IsOnWay(k, T, o)
      BY <2>2, <2>4, <3>1 DEF Through
    <3>2. CASE ~IsOnWay(k, T, o)
      BY <2>4, <3>2 DEF Through, w
    <3> QED
      BY <3>1, <3>2
  <2> QED
    BY <2>3, <2>4, <2>5 DEF w
<1> QED
  BY <1>4, <1>5

(* The operands are what replaces those they were.                          *)
LEMMA IsolatedOps ==
    ASSUME NEW f, NEW k, NEW B, NEW e, NEW n, IsIsolated(f, k, B, e, n), NEW P, P = Phis(k, e)
    PROVE  /\ \A j \in k.insts \ P : \A y \in DOMAIN k.ops[j] :
                 f.ops[j][y] = ReplacedBy(k, P, k.ops[j][y])
           /\ \A i \in P : \A y \in DOMAIN k.ops[i] \cap B :
                 f.ops[NewPhi(k, i)][y] = ReplacedBy(k, P, k.ops[i][y])
           /\ \A i \in P : f.ops[ExitPhi(k, i)][n] = NewPhi(k, i)
           /\ \A i \in P : \A y \in DOMAIN k.ops[i] \ B :
                 y # n => f.ops[ExitPhi(k, i)][y] = ReplacedBy(k, P, k.ops[i][y])
<1>1. ASSUME NEW j \in k.insts \ P, NEW y \in DOMAIN k.ops[j]
      PROVE  f.ops[j][y] = ReplacedBy(k, P, k.ops[j][y])
  <2>1. f.ops[j] = [x \in DOMAIN k.ops[j] |-> IF k.ops[j][x] \in P THEN ExitPhi(k, k.ops[j][x]) ELSE k.ops[j][x]]
    BY DEF IsIsolated
  <2> QED
    BY <2>1 DEF ReplacedBy
<1>2. ASSUME NEW i \in Phis(k, e)
      PROVE  /\ f.ops[NewPhi(k, i)] =
                   [b \in DOMAIN k.ops[i] \cap B |->
                      IF k.ops[i][b] \in Phis(k, e) THEN ExitPhi(k, k.ops[i][b]) ELSE k.ops[i][b]]
             /\ f.ops[ExitPhi(k, i)] =
                   [b \in (DOMAIN k.ops[i] \ B) \cup {n} |->
                      IF b = n THEN NewPhi(k, i)
                      ELSE IF k.ops[i][b] \in Phis(k, e) THEN ExitPhi(k, k.ops[i][b]) ELSE k.ops[i][b]]
  BY Zenon DEF IsIsolated
<1>3. ASSUME NEW i \in P
      PROVE  /\ \A y \in DOMAIN k.ops[i] \cap B : f.ops[NewPhi(k, i)][y] = ReplacedBy(k, P, k.ops[i][y])
             /\ f.ops[ExitPhi(k, i)][n] = NewPhi(k, i)
             /\ \A y \in DOMAIN k.ops[i] \ B :
                   y # n => f.ops[ExitPhi(k, i)][y] = ReplacedBy(k, P, k.ops[i][y])
  <2>1. /\ \A y \in DOMAIN k.ops[i] \cap B : f.ops[NewPhi(k, i)][y] =
              IF k.ops[i][y] \in Phis(k, e) THEN ExitPhi(k, k.ops[i][y]) ELSE k.ops[i][y]
        /\ f.ops[ExitPhi(k, i)][n] = NewPhi(k, i)
        /\ \A y \in DOMAIN k.ops[i] \ B : y # n => f.ops[ExitPhi(k, i)][y] =
              IF k.ops[i][y] \in Phis(k, e) THEN ExitPhi(k, k.ops[i][y]) ELSE k.ops[i][y]
    <3>1. i \in Phis(k, e)
      OBVIOUS
    <3> QED
      BY ONLY ZenonT(60), <1>2, <3>1
  <2> QED
    BY <2>1 DEF ReplacedBy
<1> QED
  BY <1>1, <1>3

(* Isolating a region: the phi of the exiting block that takes the values   *)
(* from the region is looked through, as the new block it is in is.         *)
LEMMA IsolatedValues ==
    ASSUME NEW k, Shape(k), SSA(k), NEW r, r.exiting \in k.blocks,
           NEW n, n = NewBlock(k), NEW f, f = Isolated(k, r, n),
           NEW P, P = Phis(k, r.exiting),
           NEW g, g.blocks \subseteq k.blocks, NEW p \in g.blocks,
           NEW T, NEW up, IsTree(k, g, p, T, up), NEW val, IsValues(k, g, p, T, up, val),
           NEW Y, Y = Preds(k, r.exiting) \cap r.blocks,
           NEW S, NEW v,
           \/ Y \cap (T \cup {p}) = {} /\ S = T /\ v = up
           \/ \E y \in Y \cap (T \cup {p}) : S = T \cup {n} /\ v = UpWith(up, {r.exiting}, y, n)
    PROVE  IsValues(f, g, p, S, v, ValuesMade(f, k, P, val))
<1> DEFINE e == r.exiting
           B == r.blocks
           D == T \cup Succs(g, p)
           R(o) == ReplacedBy(k, P, o)
           made == ValuesMade(f, k, P, val)
<1>1. IsIsolated(f, k, B, e, n)
  BY IsolatedIs
<1>2. /\ n \notin k.blocks
      /\ f.insts = (k.insts \ P) \cup {NewPhi(k, i) : i \in P} \cup {ExitPhi(k, i) : i \in P}
      /\ \A j \in k.insts \ P : f.parent[j] = k.parent[j] /\ f.kind[j] = k.kind[j]
      /\ \A i \in P : /\ f.parent[NewPhi(k, i)] = n /\ f.parent[ExitPhi(k, i)] = e
                      /\ f.kind[NewPhi(k, i)] = "phi" /\ f.kind[ExitPhi(k, i)] = "phi"
  BY <1>1 DEF IsIsolated, IsDiverted
<1>3. /\ \A j \in k.insts \ P : \A y \in DOMAIN k.ops[j] : f.ops[j][y] = R(k.ops[j][y])
      /\ \A i \in P : \A y \in DOMAIN k.ops[i] \cap B : f.ops[NewPhi(k, i)][y] = R(k.ops[i][y])
      /\ \A i \in P : f.ops[ExitPhi(k, i)][n] = NewPhi(k, i)
      /\ \A i \in P : \A y \in DOMAIN k.ops[i] \ B : y # n => f.ops[ExitPhi(k, i)][y] = R(k.ops[i][y])
  BY <1>1, IsolatedOps
<1>4. \A i \in P : i \in k.insts /\ k.parent[i] = e /\ k.kind[i] = "phi"
  BY DEF Phis
<1>5. IsGraph(k) /\ \A i \in k.insts : k.parent[i] \in k.blocks /\ i # Const
  BY DEF Shape
<1>6. /\ up \in [D -> T \cup {p}] /\ T \subseteq k.blocks \ g.blocks
      /\ \A z \in T \cup {p} : \A x \in Succs(k, z) : x \in D /\ up[x] = z
      /\ \A x \in D : x \in Succs(k, up[x])
  BY DEF IsTree
<1>7. D \subseteq k.blocks /\ n \notin D
  <2>1. ASSUME NEW x \in D PROVE x \in k.blocks
    <3>1. up[x] \in k.blocks /\ x \in Succs(k, up[x])
      BY <1>6
    <3> QED
      BY <1>5, <3>1 DEF IsGraph
  <2> QED
    BY <1>2, <2>1
<1>8. \A y : y \in Y <=> y \in k.blocks /\ e \in Succs(k, y) /\ y \in B
  BY DEF Preds
<1>9. /\ S = T \/ S = T \cup {n}
      /\ \A x \in D : v[x] = IF x = e /\ up[e] \in B THEN n ELSE up[x]
      /\ \A z \in T : Above(T, up, z) \subseteq Above(S, v, z)
      /\ n \in S <=> e \in D /\ up[e] \in B
      /\ n \in S => v[n] = up[e] /\ n \in Above(S, v, n)
  <2>1. ASSUME NEW x \in D, x = e, up[e] \in B PROVE up[e] \in Y \cap (T \cup {p})
    <3>1. up[e] \in T \cup {p} /\ e \in Succs(k, up[e])
      BY <1>6, <2>1
    <3> QED
      BY <1>6, <1>8, <2>1, <3>1
  <2>2. n \notin T
    BY <1>7
  <2>3. CASE Y \cap (T \cup {p}) = {} /\ S = T /\ v = up
    BY <2>1, <2>2, <2>3
  <2>4. ASSUME NEW y \in Y \cap (T \cup {p}), S = T \cup {n}, v = UpWith(up, {e}, y, n)
        PROVE  /\ \A x \in D : v[x] = IF x = e /\ up[e] \in B THEN n ELSE up[x]
               /\ \A z \in T : Above(T, up, z) \subseteq Above(S, v, z)
               /\ e \in D /\ up[e] \in B
               /\ v[n] = up[e] /\ n \in Above(S, v, n)
    <3>1. e \in D /\ up[e] = y /\ y \in B
      BY <1>6, <1>8
    <3>2. v[n] = y /\ \A x \in D : v[x] = IF x = e THEN n ELSE up[x]
      BY <1>6, <1>7, <2>4 DEF UpWith
    <3>3. \A z \in T : Above(T, up, z) \subseteq Above(T \cup {n}, UpWith(up, {e}, y, n), z)
      <4>1. /\ T \subseteq D /\ {e} \in SUBSET D /\ y \in T \cup {p} /\ n \notin D
            /\ up \in [D -> T \cup {p}] /\ \A x \in {e} : up[x] = y
        BY <1>6, <1>7, <3>1
      <4> HIDE DEF D, e
      <4> QED
        BY ONLY <4>1, AboveGrows
    <3>4. n \in Above(S, v, n)
      BY <2>4, AboveIs
    <3> QED
      BY <2>4, <3>1, <3>2, <3>3, <3>4
  <2> HIDE DEF D
  <2> QED
    BY <2>2, <2>3, <2>4
<1>10. \A o \in k.insts \cup {Const} :
          /\ Through(f, S, made, R(o)) = R(Through(k, T, val, o))
          /\ IsOnWay(f, S, R(o)) => IsOnWay(k, T, o) /\ f.parent[R(o)] = k.parent[o]
  <2>1. AgreeOn(k.blocks, S, T)
    BY <1>2, <1>9 DEF AgreeOn
  <2>2. IsMade(f, k, r, n, P)
    BY DEF IsMade
  <2>3. \A o \in k.insts \cup {Const} :
           /\ Through(f, S, ValuesMade(f, k, P, val), ReplacedBy(k, P, o))
                 = ReplacedBy(k, P, Through(k, T, val, o))
           /\ IsOnWay(f, S, ReplacedBy(k, P, o)) =>
                 IsOnWay(k, T, o) /\ f.parent[ReplacedBy(k, P, o)] = k.parent[o]
    BY ONLY <2>1, <2>2, ThroughMade
  <2> QED
    BY <2>3
<1>11. \A i \in k.insts : \A u : MadeOf(k, P, u, i) => u \in f.insts /\ made[u] = R(val[i])
  <2>1. Shape(k) /\ SSA(k) /\ r.exiting \in k.blocks /\ n = NewBlock(k) /\ f = Isolated(k, r, n)
        /\ P = Phis(k, r.exiting)
    OBVIOUS
  <2>2. \A i \in k.insts : \A u : MadeOf(k, P, u, i) =>
            u \in f.insts /\ ValuesMade(f, k, P, val)[u] = ReplacedBy(k, P, val[i])
    BY ONLY <2>1, ValuesMadeAre
  <2> QED
    BY <2>2
<1> HIDE DEF made
<1>12. ASSUME NEW i \in k.insts, k.kind[i] = "phi", k.parent[i] \in D
       PROVE  LET y == up[k.parent[i]]
                  o == k.ops[i][y]
              IN  /\ y \in DOMAIN k.ops[i] /\ y # n
                  /\ R(val[i]) = Through(f, S, made, R(o))
                  /\ IsOnWay(f, S, R(o)) => y \in S /\ f.parent[R(o)] \in Above(S, v, y)
  <2> DEFINE x == k.parent[i]
             y == up[x]
             o == k.ops[i][y]
  <2>1. /\ val[i] = Through(k, T, val, o)
        /\ IsOnWay(k, T, o) => y \in T /\ k.parent[o] \in Above(T, up, y)
    BY <1>12 DEF IsValues
  <2>2. y \in T \cup {p} /\ x \in Succs(k, y)
    BY <1>6, <1>12
  <2>3. y \in k.blocks /\ y # n /\ y \in DOMAIN k.ops[i]
    <3>1. y \in k.blocks
      BY <1>6, <2>2
    <3>2. DOMAIN k.ops[i] = Preds(k, x)
      BY <1>12 DEF SSA
    <3> QED
      BY <1>2, <2>2, <3>1, <3>2 DEF Preds
  <2>4. o \in k.insts \cup {Const}
    <3>1. o \in Operands(k, i) \cup {Const}
      BY <2>3 DEF Operands
    <3> QED
      BY <1>12, <3>1 DEF SSA
  <2> HIDE DEF y, o
  <2>5. R(val[i]) = Through(f, S, made, R(o))
    BY <1>10, <2>1, <2>4
  <2>6. ASSUME IsOnWay(f, S, R(o)) PROVE y \in S /\ f.parent[R(o)] \in Above(S, v, y)
    BY <1>9, <1>10, <2>1, <2>4, <2>6
  <2> QED
    BY <2>3, <2>5, <2>6 DEF y, o
<1>13. ASSUME NEW u \in f.insts, f.kind[u] = "phi", f.parent[u] \in S \cup Succs(g, p)
       PROVE  LET y == v[f.parent[u]]
                  o == f.ops[u][y]
              IN  /\ made[u] = Through(f, S, made, o)
                  /\ IsOnWay(f, S, o) => y \in S /\ f.parent[o] \in Above(S, v, y)
  <2>1. CASE u \in k.insts \ P
    <3>1. f.parent[u] = k.parent[u] /\ k.kind[u] = "phi" /\ k.parent[u] # e
      BY <1>2, <1>13, <2>1 DEF Phis
    <3>2. k.parent[u] \in D /\ v[k.parent[u]] = up[k.parent[u]]
      BY <1>2, <1>5, <1>9, <1>13, <2>1, <3>1
    <3>3. made[u] = R(val[u])
      BY <1>11, <2>1 DEF MadeOf
    <3> DEFINE y == up[k.parent[u]]
    <3>4. /\ y \in DOMAIN k.ops[u]
          /\ R(val[u]) = Through(f, S, made, R(k.ops[u][y]))
          /\ IsOnWay(f, S, R(k.ops[u][y])) => y \in S /\ f.parent[R(k.ops[u][y])] \in Above(S, v, y)
      BY <1>12, <2>1, <3>1, <3>2
    <3>5. f.ops[u][y] = R(k.ops[u][y])
      BY <1>3, <2>1, <3>4
    <3> QED
      BY <3>1, <3>2, <3>3, <3>4, <3>5
  <2>2. ASSUME NEW i \in P, u = ExitPhi(k, i)
        PROVE  LET y == v[f.parent[u]]
                   o == f.ops[u][y]
               IN  /\ made[u] = Through(f, S, made, o)
                   /\ IsOnWay(f, S, o) => y \in S /\ f.parent[o] \in Above(S, v, y)
    <3>1. f.parent[u] = e /\ e \in D /\ k.parent[i] = e /\ k.kind[i] = "phi" /\ i \in k.insts
      BY <1>2, <1>4, <1>9, <1>13, <2>2
    <3>2. made[u] = R(val[i]) /\ made[NewPhi(k, i)] = R(val[i]) /\ NewPhi(k, i) \in f.insts
      BY <1>11, <2>2, <3>1 DEF MadeOf
    <3>3. CASE up[e] \in B
      <4>1. v[e] = n /\ f.ops[u][n] = NewPhi(k, i) /\ n \in S /\ n \in Above(S, v, n)
        BY <1>3, <1>9, <2>2, <3>1, <3>3
      <4>2. f.parent[NewPhi(k, i)] = n /\ f.kind[NewPhi(k, i)] = "phi"
        BY <1>2
      <4>3. Through(f, S, made, NewPhi(k, i)) = made[NewPhi(k, i)]
        BY <3>2, <4>1, <4>2 DEF Through, IsOnWay
      <4> QED
        BY <3>1, <3>2, <4>1, <4>2, <4>3
    <3>4. CASE up[e] \notin B
      <4> DEFINE y == up[e]
      <4>1. v[e] = y
        BY <1>9, <3>1, <3>4
      <4>2. /\ y \in DOMAIN k.ops[i] /\ y # n
            /\ R(val[i]) = Through(f, S, made, R(k.ops[i][y]))
            /\ IsOnWay(f, S, R(k.ops[i][y])) => y \in S /\ f.parent[R(k.ops[i][y])] \in Above(S, v, y)
        BY <1>12, <3>1
      <4>3. f.ops[u][y] = R(k.ops[i][y])
        BY <1>3, <2>2, <3>4, <4>2
      <4> QED
        BY <3>1, <3>2, <4>1, <4>2, <4>3
    <3> QED
      BY <3>3, <3>4
  <2>3. ASSUME NEW i \in P, u = NewPhi(k, i)
        PROVE  LET y == v[f.parent[u]]
                   o == f.ops[u][y]
               IN  /\ made[u] = Through(f, S, made, o)
                   /\ IsOnWay(f, S, o) => y \in S /\ f.parent[o] \in Above(S, v, y)
    <3>1. f.parent[u] = n /\ k.parent[i] = e /\ k.kind[i] = "phi" /\ i \in k.insts
      BY <1>2, <1>4, <2>3
    <3>2. n \in S /\ e \in D /\ up[e] \in B /\ v[n] = up[e]
      BY <1>7, <1>9, <1>13, <3>1
    <3>3. made[u] = R(val[i])
      BY <1>11, <2>3, <3>1 DEF MadeOf
    <3> DEFINE y == up[e]
    <3>4. /\ y \in DOMAIN k.ops[i]
          /\ R(val[i]) = Through(f, S, made, R(k.ops[i][y]))
          /\ IsOnWay(f, S, R(k.ops[i][y])) => y \in S /\ f.parent[R(k.ops[i][y])] \in Above(S, v, y)
      BY <1>12, <3>1, <3>2
    <3>5. f.ops[u][y] = R(k.ops[i][y])
      BY <1>3, <2>3, <3>2, <3>4
    <3> QED
      BY <3>1, <3>2, <3>3, <3>4, <3>5
  <2>4. \/ u \in k.insts \ P
        \/ \E i \in P : u = ExitPhi(k, i)
        \/ \E i \in P : u = NewPhi(k, i)
    BY <1>2, <1>13
  <2> QED
    BY <2>1, <2>2, <2>3, <2>4
<1>14. IsValues(f, g, p, S, v, made)
  BY <1>13 DEF IsValues
<1> QED
  BY <1>14 DEF made

(* C gives for each value of g the one of k that stands for it.             *)
IsCopy(k, g, C) ==
    /\ C[Const] = Const
    /\ \A i, j \in g.insts : C[i] = C[j] => i = j
    /\ \A i \in g.insts : g.kind[i] # "phi" =>
          /\ C[i] = i /\ i \in k.insts /\ k.kind[i] = g.kind[i]
          /\ \A x \in DOMAIN g.ops[i] : x \in DOMAIN k.ops[i] /\ k.ops[i][x] = C[g.ops[i][x]]
    /\ \A i \in g.insts : g.kind[i] = "phi" => C[i] \in Phis(k, g.parent[i])
    /\ \A b \in g.blocks : \A j \in Phis(k, b) : \E i \in Phis(g, b) : C[i] = j

(* Behind the old block p, kernel k does what g does.                       *)
Follows(k, g, C, p) ==
    \E T, up, q, to, val :
        /\ IsTree(k, g, p, T, up)
        /\ IsSides(k, g, p, T, q, to)
        /\ IsValues(k, g, p, T, up, val)
        /\ \A i \in g.insts : g.kind[i] = "phi" /\ g.parent[i] \in Succs(g, p)
                                 => val[C[i]] = C[g.ops[i][p]]

(* At first there are no new blocks.                                        *)
LEMMA FollowsItself ==
    ASSUME NEW g, Shape(g), SSA(g)
    PROVE  \E C : IsCopy(g, g, C) /\ \A p \in g.blocks : Follows(g, g, C, p)
<1> DEFINE C == [i \in g.insts \cup {Const} |-> i]
<1>1. \A i \in g.insts : \A x \in DOMAIN g.ops[i] : g.ops[i][x] \in g.insts \cup {Const}
  BY DEF SSA, Operands
<1>2. IsCopy(g, g, C)
  <2>1. \A i \in g.insts \cup {Const} : C[i] = i
    OBVIOUS
  <2> HIDE DEF C
  <2> QED
    BY <1>1, <2>1 DEF IsCopy, Phis
<1>3. ASSUME NEW p \in g.blocks PROVE Follows(g, g, C, p)
  <2> DEFINE up  == [x \in Succs(g, p) |-> p]
             to  == [x \in Succs(g, p) |-> x]
             val == [i \in g.insts |-> g.ops[i][p]]
  <2>1. IsTree(g, g, p, {}, up)
    BY DEF IsTree
  <2>2. IsSides(g, g, p, {}, p, to)
    <3>1. \A x \in DOMAIN g.succ[p] : g.succ[p][x] \in Succs(g, p)
      BY DEF Succs
    <3>2. \A i \in BranchOf(g, p) : g.parent[i] = p
      BY DEF BranchOf, Insts
    <3> QED
      BY <3>1, <3>2 DEF IsSides
  <2>3. IsValues(g, g, p, {}, up, val)
    BY DEF IsValues, Through, IsOnWay
  <2>4. \A i \in g.insts : g.kind[i] = "phi" /\ g.parent[i] \in Succs(g, p)
                              => val[C[i]] = C[g.ops[i][p]]
    <3> SUFFICES ASSUME NEW i \in g.insts, g.kind[i] = "phi", g.parent[i] \in Succs(g, p)
                 PROVE  val[C[i]] = C[g.ops[i][p]]
      OBVIOUS
    <3>1. p \in DOMAIN g.ops[i]
      BY DEF SSA, Preds
    <3>2. g.ops[i][p] \in g.insts \cup {Const}
      BY <1>1, <3>1
    <3> QED
      BY <3>2
  <2> HIDE DEF up, to, val, C
  <2> QED
    BY <2>1, <2>2, <2>3, <2>4 DEF Follows
<1> HIDE DEF C
<1> QED
  BY <1>2, <1>3

(* Splitting a block changes no value.                                      *)
LEMMA SplitKeepsCopy ==
    ASSUME NEW k, Shape(k), SSA(k), NEW b \in k.blocks, NEW moved \in SUBSET NonPhis(k, b),
           NEW n, n = NewBlock(k), NEW f, f = SplitBlock(k, b, moved, n),
           NEW g, g.blocks \subseteq k.blocks, g.parent \in [g.insts -> g.blocks],
           NEW C, IsCopy(k, g, C)
    PROVE  IsCopy(f, g, C)
<1>1. /\ f.insts = k.insts /\ f.kind = k.kind
      /\ f.parent = [i \in k.insts |-> IF i \in moved THEN n ELSE k.parent[i]]
      /\ \A i \in k.insts : k.kind[i] # "phi" => f.ops[i] = k.ops[i]
  BY SplitBlockIs
<1>2. n \notin k.blocks
  BY NewBlockIsNew DEF Shape
<1>3. \A c \in g.blocks : Phis(f, c) = Phis(k, c)
  <2>1. \A i \in moved : i \in k.insts /\ k.kind[i] # "phi"
    BY DEF NonPhis, Phis, Insts
  <2>2. \A i \in k.insts : k.kind[i] = "phi" => f.parent[i] = k.parent[i]
    BY <1>1, <2>1
  <2> QED
    BY <1>1, <2>2 DEF Phis
<1> QED
  BY <1>1, <1>3 DEF IsCopy

(* Splitting a block leaves what is done behind an old one as it is.        *)
LEMMA SplitFollows ==
    ASSUME NEW k, Shape(k), SSA(k), NEW b \in k.blocks, NEW moved, IsTail(k, b, moved),
           NEW n, n = NewBlock(k), NEW f, f = SplitBlock(k, b, moved, n),
           NEW g, Shape(g), g.blocks \subseteq k.blocks, NEW p \in g.blocks,
           NEW C, IsCopy(k, g, C), Follows(k, g, C, p)
    PROVE  Follows(f, g, C, p)
<1>0. PICK T, up, q, to, val :
        /\ IsTree(k, g, p, T, up)
        /\ IsSides(k, g, p, T, q, to)
        /\ IsValues(k, g, p, T, up, val)
        /\ \A i \in g.insts : g.kind[i] = "phi" /\ g.parent[i] \in Succs(g, p)
                                 => val[C[i]] = C[g.ops[i][p]]
  BY DEF Follows
<1>1. /\ moved \in SUBSET NonPhis(k, b) /\ BranchOf(k, b) \subseteq moved
  BY DEF IsTail
<1>2. /\ IsSplit(f, k, b, n)
      /\ f.parent = [i \in k.insts |-> IF i \in moved THEN n ELSE k.parent[i]]
  BY <1>1, SplitBlockIs
<1>3. /\ IsGraph(k) /\ k.succ \in [k.blocks -> Seq(k.blocks)] /\ g.succ \in [g.blocks -> Seq(g.blocks)]
      /\ n \notin k.blocks
  BY <1>2 DEF Shape, IsSplit
<1>4. IsInserted(f, k, {b}, Succs(k, b), n)
  BY <1>2, <1>3, SplitInserts
<1>5. /\ T \subseteq k.blocks /\ p \in k.blocks
      /\ \A z \in T \cup {p} : Succs(k, z) \subseteq T \cup Succs(g, p)
  BY <1>0 DEF IsTree
<1>6. \A i \in BranchOf(g, p) : i \in k.insts /\ k.kind[i] = "br" /\ k.parent[i] = q
  BY <1>0 DEF IsCopy, IsSides, BranchOf, Insts
<1>7. \A i \in k.insts : k.kind[i] = "br" => f.parent[i] = IF k.parent[i] = b THEN n ELSE k.parent[i]
  <2> SUFFICES ASSUME NEW i \in k.insts, k.kind[i] = "br"
               PROVE  f.parent[i] = IF k.parent[i] = b THEN n ELSE k.parent[i]
    OBVIOUS
  <2>1. k.parent[i] = b <=> i \in moved
    BY <1>1 DEF BranchOf, NonPhis, Insts
  <2> QED
    BY <1>2, <2>1
<1>8. /\ f.succ[b] = <<n>> /\ f.succ[n] = k.succ[b]
      /\ \A z \in k.blocks \ {b} : f.succ[z] = k.succ[z]
  BY <1>3, <1>2 DEF IsSplit
<1>9. CASE b \notin T \cup {p}
  <2>1. IsTree(f, g, p, T, up)
    <3>1. /\ IsGraph(k) /\ g.blocks \subseteq k.blocks /\ p \in g.blocks
          /\ IsInserted(f, k, {b}, Succs(k, b), n) /\ IsTree(k, g, p, T, up)
          /\ {b} \cap (T \cup {p}) = {}
      BY <1>0, <1>3, <1>4, <1>9
    <3> QED
      BY ONLY <3>1, TreeIsKept
  <2>2. IsSides(f, g, p, T, q, to)
    <3>1. \A z \in T \cup {p} : f.succ[z] = k.succ[z]
      BY <1>5, <1>8, <1>9
    <3>2. \A i \in BranchOf(g, p) : f.parent[i] = k.parent[i]
      BY <1>0, <1>6, <1>7, <1>9 DEF IsSides
    <3> QED
      BY <1>0, <3>1, <3>2, SidesAreKept
  <2>3. IsValues(f, g, p, T, up, val)
    BY <1>0, <1>1, <1>9, SplitValues
  <2> QED
    BY <1>0, <2>1, <2>2, <2>3 DEF Follows
<1>10. CASE b \in T \cup {p}
  <2> DEFINE S == T \cup {n}
             v == UpWith(up, Succs(k, b), b, n)
             s == IF q = b THEN n ELSE q
             w == ToWith(to, n, IF b \in T THEN to[b] ELSE NoBlock)
  <2>1. /\ IsTree(f, g, p, S, v) /\ n \notin T \cup {p} /\ n \notin T \cup Succs(g, p)
    <3>1. IsTree(f, g, p, T \cup {n}, UpWith(up, Succs(k, b), b, n))
      BY <1>0, <1>3, <1>4, <1>10, TreeSplits
    <3>2. T \cup {p} \cup Succs(g, p) \subseteq k.blocks
      BY <1>0, <1>3, <1>5, TreeBlocks
    <3> QED
      BY <1>3, <3>1, <3>2
  <2>2. IsSides(f, g, p, S, s, w)
    <3>1. \A z \in (T \cup {p}) \ {b} : f.succ[z] = k.succ[z]
      BY <1>5, <1>8
    <3>2. \A i \in BranchOf(g, p) : f.parent[i] = IF k.parent[i] = b THEN n ELSE k.parent[i]
      BY <1>6, <1>7
    <3>3. DOMAIN k.succ[q] = DOMAIN g.succ[p]
      <4>1. q \in k.blocks /\ Len(k.succ[q]) = Len(g.succ[p])
        BY <1>0, <1>5 DEF IsSides
      <4> QED
        BY <1>3, <4>1
    <3> QED
      BY <1>0, <1>5, <1>8, <1>10, <2>1, <3>1, <3>2, <3>3, SplitSides
  <2>3. IsValues(f, g, p, S, v, val)
    BY <1>0, <1>1, <1>10, SplitValues
  <2> HIDE DEF S, v, s, w
  <2> QED
    BY <1>0, <2>1, <2>2, <2>3 DEF Follows
<1> QED
  BY <1>9, <1>10

(* What stands for a value when a block was isolated.                       *)
CopyMade(k, g, P, C) == [i \in g.insts \cup {Const} |-> ReplacedBy(k, P, C[i])]

(* A phi that was divided is stood for by the one that kept its place.      *)
LEMMA IsolatedKeepsCopy ==
    ASSUME NEW k, Shape(k), SSA(k), NEW r, r.exiting \in k.blocks,
           NEW n, n = NewBlock(k), NEW f, f = Isolated(k, r, n),
           NEW P, P = Phis(k, r.exiting),
           NEW g, SSA(g), g.blocks \subseteq k.blocks, g.parent \in [g.insts -> g.blocks],
           NEW C, IsCopy(k, g, C)
    PROVE  IsCopy(f, g, CopyMade(k, g, P, C))
<1> DEFINE e == r.exiting
           R(o) == ReplacedBy(k, P, o)
           c == CopyMade(k, g, P, C)
<1>1. IsIsolated(f, k, r.blocks, e, n)
  BY IsolatedIs
<1>2. /\ n \notin k.blocks
      /\ f.insts = (k.insts \ P) \cup {NewPhi(k, i) : i \in P} \cup {ExitPhi(k, i) : i \in P}
      /\ \A j \in k.insts \ P : f.parent[j] = k.parent[j] /\ f.kind[j] = k.kind[j]
      /\ \A i \in P : /\ f.parent[NewPhi(k, i)] = n /\ f.parent[ExitPhi(k, i)] = e
                      /\ f.kind[ExitPhi(k, i)] = "phi"
  BY <1>1 DEF IsIsolated, IsDiverted
<1>3. /\ \A j \in k.insts \ P : DOMAIN f.ops[j] = DOMAIN k.ops[j]
      /\ \A j \in k.insts \ P : \A y \in DOMAIN k.ops[j] : f.ops[j][y] = R(k.ops[j][y])
  <2>1. \A j \in k.insts \ P : DOMAIN f.ops[j] = DOMAIN k.ops[j]
    BY <1>1 DEF IsIsolated
  <2>2. \A j \in k.insts \ P : \A y \in DOMAIN k.ops[j] : f.ops[j][y] = ReplacedBy(k, P, k.ops[j][y])
    BY <1>1, IsolatedOps
  <2> QED
    BY <2>1, <2>2
<1>4. \A i : i \in P <=> i \in k.insts /\ k.parent[i] = e /\ k.kind[i] = "phi"
  BY DEF Phis
<1>5. Const \notin k.insts
  BY DEF Shape
<1>6. \A i \in g.insts : C[i] \in k.insts
  BY DEF IsCopy, Phis
<1>7. \A i \in g.insts : \A x \in DOMAIN g.ops[i] : g.ops[i][x] \in g.insts \cup {Const}
  BY DEF SSA, Operands
<1>8. \A i \in g.insts \cup {Const} : c[i] = R(C[i])
  BY DEF CopyMade
<1> HIDE DEF c
<1>9. c[Const] = Const
  BY <1>4, <1>5, <1>8 DEF IsCopy, ReplacedBy
<1>10. \A i, j \in g.insts : c[i] = c[j] => i = j
  <2>1. /\ \A i, j \in k.insts : \A u : MadeOf(k, P, u, i) /\ MadeOf(k, P, u, j) => i = j
        /\ \A i \in k.insts : MadeOf(k, P, ReplacedBy(k, P, i), i)
    BY SMTT(30), IsolatedOperands
  <2> SUFFICES ASSUME NEW i \in g.insts, NEW j \in g.insts, c[i] = c[j] PROVE i = j
    OBVIOUS
  <2>2. MadeOf(k, P, c[i], C[i]) /\ MadeOf(k, P, c[j], C[j])
    BY <1>6, <1>8, <2>1
  <2>3. C[i] = C[j]
    BY <1>6, <2>1, <2>2
  <2> QED
    BY <2>3 DEF IsCopy
<1>11. ASSUME NEW i \in g.insts, g.kind[i] # "phi"
       PROVE  /\ c[i] = i /\ i \in f.insts /\ f.kind[i] = g.kind[i]
              /\ \A x \in DOMAIN g.ops[i] : x \in DOMAIN f.ops[i] /\ f.ops[i][x] = c[g.ops[i][x]]
  <2>1. /\ C[i] = i /\ i \in k.insts /\ k.kind[i] = g.kind[i]
        /\ \A x \in DOMAIN g.ops[i] : x \in DOMAIN k.ops[i] /\ k.ops[i][x] = C[g.ops[i][x]]
    BY <1>11 DEF IsCopy
  <2>2. i \in k.insts \ P
    BY <1>4, <1>11, <2>1
  <2>3. c[i] = i
    BY <1>8, <2>1, <2>2 DEF ReplacedBy
  <2>4. ASSUME NEW x \in DOMAIN g.ops[i] PROVE x \in DOMAIN f.ops[i] /\ f.ops[i][x] = c[g.ops[i][x]]
    <3>1. x \in DOMAIN k.ops[i] /\ k.ops[i][x] = C[g.ops[i][x]]
      BY <2>1
    <3>2. c[g.ops[i][x]] = R(C[g.ops[i][x]])
      BY <1>7, <1>8
    <3>3. DOMAIN f.ops[i] = DOMAIN k.ops[i] /\ f.ops[i][x] = R(k.ops[i][x])
      BY <1>3, <2>2, <3>1
    <3> QED
      BY <3>1, <3>2, <3>3
  <2> QED
    BY <1>2, <2>1, <2>2, <2>3, <2>4
<1>12. ASSUME NEW i \in g.insts, g.kind[i] = "phi" PROVE c[i] \in Phis(f, g.parent[i])
  <2>1. C[i] \in k.insts /\ k.kind[C[i]] = "phi" /\ k.parent[C[i]] = g.parent[i]
    BY <1>12 DEF IsCopy, Phis
  <2>2. CASE C[i] \in P
    BY <1>2, <1>4, <1>8, <2>1, <2>2 DEF Phis, ReplacedBy
  <2>3. CASE C[i] \notin P
    BY <1>2, <1>8, <2>1, <2>3 DEF Phis, ReplacedBy
  <2> QED
    BY <2>2, <2>3
<1>13. ASSUME NEW b \in g.blocks, NEW j \in Phis(f, b) PROVE \E i \in Phis(g, b) : c[i] = j
  <2>1. j \in f.insts /\ f.kind[j] = "phi" /\ f.parent[j] = b /\ b # n
    BY <1>2 DEF Phis
  <2>2. CASE j \in k.insts \ P
    <3>1. j \in Phis(k, b)
      BY <1>2, <2>1, <2>2 DEF Phis
    <3>2. PICK i \in Phis(g, b) : C[i] = j
      BY <3>1 DEF IsCopy
    <3>3. c[i] = j
      BY <1>8, <2>2, <3>2 DEF ReplacedBy, Phis
    <3> QED
      BY <3>3
  <2>3. ASSUME NEW m \in P, j = ExitPhi(k, m) PROVE \E i \in Phis(g, b) : c[i] = j
    <3>1. m \in Phis(k, b)
      BY <1>2, <1>4, <2>1, <2>3 DEF Phis
    <3>2. PICK i \in Phis(g, b) : C[i] = m
      BY <3>1 DEF IsCopy
    <3>3. c[i] = j
      BY <1>8, <2>3, <3>2 DEF ReplacedBy, Phis
    <3> QED
      BY <3>3
  <2> QED
    BY <1>2, <2>1, <2>2, <2>3
<1>14. IsCopy(f, g, c)
  BY <1>9, <1>10, <1>11, <1>12, <1>13 DEF IsCopy
<1> QED
  BY <1>14 DEF c

(* Block y of the tree is one of those the new block is inserted behind.    *)
IsGrowth(f, k, g, p, Y, X, n, T, up, y) ==
    /\ IsGraph(k) /\ g.blocks \subseteq k.blocks /\ p \in g.blocks
    /\ IsInserted(f, k, Y, X, n) /\ IsTree(k, g, p, T, up)
    /\ y \in Y /\ y \in T \cup {p}

(* The same with its hypotheses in one.                                     *)
LEMMA TreeGrowsAt ==
    ASSUME NEW f, NEW k, NEW g, NEW p, NEW Y, NEW X, NEW n, NEW T, NEW up, NEW y,
           IsGrowth(f, k, g, p, Y, X, n, T, up, y)
    PROVE  IsTree(f, g, p, T \cup {n}, UpWith(up, X, y, n))
<1>1. /\ IsGraph(k) /\ g.blocks \subseteq k.blocks /\ p \in g.blocks
      /\ IsInserted(f, k, Y, X, n) /\ IsTree(k, g, p, T, up)
      /\ y \in Y /\ y \in T \cup {p}
  BY DEF IsGrowth
<1> QED
  BY ONLY <1>1, TreeGrows

(* Isolating a region leaves what is done behind an old block as it is.     *)
LEMMA IsolatedFollows ==
    ASSUME NEW k, Shape(k), SSA(k), NEW r, r.exiting \in k.blocks,
           NEW n, n = NewBlock(k), NEW f, f = Isolated(k, r, n),
           NEW P, P = Phis(k, r.exiting),
           NEW g, Shape(g), SSA(g), g.blocks \subseteq k.blocks, NEW p \in g.blocks,
           NEW C, IsCopy(k, g, C), Follows(k, g, C, p)
    PROVE  Follows(f, g, CopyMade(k, g, P, C), p)
<1> DEFINE e == r.exiting
           B == r.blocks
           X == {e}
<1>0. PICK T, up, q, to, val :
        /\ IsTree(k, g, p, T, up)
        /\ IsSides(k, g, p, T, q, to)
        /\ IsValues(k, g, p, T, up, val)
        /\ \A i \in g.insts : g.kind[i] = "phi" /\ g.parent[i] \in Succs(g, p)
                                 => val[C[i]] = C[g.ops[i][p]]
  BY DEF Follows
<1>1. IsIsolated(f, k, B, e, n)
  BY IsolatedIs
<1> HIDE DEF e, B
<1>2. IsDiverted(f, k, B, e, n) /\ \A j \in k.insts \ P : f.parent[j] = k.parent[j]
  BY <1>1 DEF IsIsolated, e
<1>3. /\ IsGraph(k) /\ k.succ \in [k.blocks -> Seq(k.blocks)] /\ g.succ \in [g.blocks -> Seq(g.blocks)]
      /\ p \in k.blocks
  BY DEF Shape
<1> DEFINE Y == Preds(k, e) \cap B
<1>4. IsInserted(f, k, Y, X, n)
  BY <1>2, <1>3, DivertedInserts
<1> HIDE DEF X, Y
<1>5. T \cup {p} \cup Succs(g, p) \subseteq k.blocks
  BY <1>0, <1>3, TreeBlocks
<1>6. n \notin k.blocks /\ X = {e} /\ Y = Preds(k, e) \cap B
  BY <1>2 DEF IsDiverted, X, Y
<1>7. Succs(f, n) = {e} /\ \A z \in k.blocks : Len(f.succ[z]) = Len(k.succ[z])
  <2>1. Succs(f, n) = {e}
    BY SMTT(30), <1>2, <1>3, DivertedIs
  <2>2. ASSUME NEW c \in k.blocks PROVE Len(f.succ[c]) = Len(k.succ[c])
    <3>1. IsGraph(k) /\ k.succ \in [k.blocks -> Seq(k.blocks)] /\ IsDiverted(f, k, B, e, n) /\ c \in k.blocks
      BY <1>2, <1>3
    <3> QED
      BY ONLY <3>1, DivertedIs
  <2> QED
    BY <2>1, <2>2
<1>8. \A z \in k.blocks : f.succ[z] =
         [x \in DOMAIN k.succ[z] |-> IF z \in B /\ k.succ[z][x] = e THEN n ELSE k.succ[z][x]]
  BY <1>2 DEF IsDiverted
<1>9. \A z : z \in Y <=> z \in k.blocks /\ e \in Succs(k, z) /\ z \in B
  BY DEF Preds, Y
<1>10. \A z \in k.blocks \ Y : f.succ[z] = k.succ[z]
  <2> SUFFICES ASSUME NEW z \in k.blocks \ Y PROVE f.succ[z] = k.succ[z]
    OBVIOUS
  <2>1. ASSUME NEW x \in DOMAIN k.succ[z] PROVE ~(z \in B /\ k.succ[z][x] = e)
    BY <1>9 DEF Succs
  <2>2. f.succ[z] = [x \in DOMAIN k.succ[z] |-> k.succ[z][x]]
    BY <1>8, <2>1
  <2> QED
    BY <1>3, <2>2
<1>11. \A i \in BranchOf(g, p) : f.parent[i] = k.parent[i]
  BY <1>2 DEF IsCopy, BranchOf, Insts, Phis
<1>12. PICK S, v : \/ Y \cap (T \cup {p}) = {} /\ S = T /\ v = up
                  \/ \E y \in Y \cap (T \cup {p}) : S = T \cup {n} /\ v = UpWith(up, X, y, n)
  OBVIOUS
<1>13. IsTree(f, g, p, S, v)
  <2>1. CASE Y \cap (T \cup {p}) = {} /\ S = T /\ v = up
    BY <1>0, <1>3, <1>4, <2>1, TreeIsKept
  <2>2. ASSUME NEW y, y \in Y, y \in T \cup {p}, S = T \cup {n}, v = UpWith(up, X, y, n)
        PROVE  IsTree(f, g, p, S, v)
    <3>1. IsGrowth(f, k, g, p, Y, X, n, T, up, y)
      BY <1>0, <1>3, <1>4, <2>2 DEF IsGrowth
    <3>2. IsTree(f, g, p, T \cup {n}, UpWith(up, X, y, n))
      BY ONLY <3>1, TreeGrowsAt
    <3> QED
      BY <2>2, <3>2
  <2> QED
    BY <1>12, <2>1, <2>2
<1>14. \E s, w : IsSides(f, g, p, S, s, w)
  <2>1. CASE Y \cap (T \cup {p}) = {} /\ S = T /\ v = up
    <3>1. \A z \in T \cup {p} : f.succ[z] = k.succ[z]
      BY <1>5, <1>10, <2>1
    <3>2. IsSides(f, g, p, T, q, to)
      BY <1>0, <1>11, <3>1, SidesAreKept
    <3> QED
      BY <2>1, <3>2
  <2>2. ASSUME NEW y, y \in Y, y \in T \cup {p}, S = T \cup {n}, v = UpWith(up, X, y, n)
        PROVE  \E s, w : IsSides(f, g, p, S, s, w)
    <3>1. \A z \in T \cup {p} : Succs(k, z) \subseteq T \cup Succs(g, p)
      BY <1>0 DEF IsTree
    <3>2. Y \cap (T \cup {p}) = {y}
      <4>1. \A z \in Y \cap (T \cup {p}) : up[e] = z
        BY <1>0, <1>9 DEF IsTree
      <4> QED
        BY <2>2, <4>1
    <3>3. \A z \in (T \cup {p}) \ {y} : f.succ[z] = k.succ[z]
      BY <1>5, <1>10, <3>2
    <3>4. e \in Succs(k, y) /\ y \in k.blocks /\ y \in B
      BY <1>9, <2>2
    <3>5. f.succ[y] = [x \in DOMAIN k.succ[y] |-> IF k.succ[y][x] = e THEN n ELSE k.succ[y][x]]
      BY <1>8, <3>4
    <3>6. DOMAIN k.succ[q] = DOMAIN g.succ[p]
      <4>1. q \in k.blocks /\ Len(k.succ[q]) = Len(g.succ[p])
        BY <1>0, <1>5 DEF IsSides
      <4> QED
        BY <1>3, <4>1
    <3>7. n \notin T \cup {p} /\ n \notin T \cup Succs(g, p) /\ Len(f.succ[y]) = Len(k.succ[y])
      BY <1>5, <1>6, <1>7, <3>4
    <3>8. IsSides(f, g, p, T \cup {n}, q, ToWith(to, n, to[e]))
      <4>1. IsTurn(f, k, g, p, T, n, y, e, q, to)
        BY <1>0, <1>7, <1>11, <2>2, <3>1, <3>3, <3>4, <3>5, <3>6, <3>7 DEF IsTurn
      <4> QED
        BY ONLY <4>1, DivertedSides
    <3> QED
      BY <2>2, <3>8
  <2> QED
    BY <1>12, <2>1, <2>2
<1> DEFINE made == ValuesMade(f, k, P, val)
           c == CopyMade(k, g, P, C)
<1>15. IsValues(f, g, p, S, v, made)
  <2>1. /\ Shape(k) /\ SSA(k) /\ r.exiting \in k.blocks /\ n = NewBlock(k) /\ f = Isolated(k, r, n)
        /\ P = Phis(k, r.exiting) /\ g.blocks \subseteq k.blocks /\ p \in g.blocks
        /\ IsTree(k, g, p, T, up) /\ IsValues(k, g, p, T, up, val)
        /\ Y = Preds(k, r.exiting) \cap r.blocks
        /\ \/ Y \cap (T \cup {p}) = {} /\ S = T /\ v = up
           \/ \E y \in Y \cap (T \cup {p}) : S = T \cup {n} /\ v = UpWith(up, {r.exiting}, y, n)
    BY <1>0, <1>6, <1>12 DEF e, B
  <2> QED
    BY ONLY <2>1, IsolatedValues
<1>16. ASSUME NEW i \in g.insts, g.kind[i] = "phi", g.parent[i] \in Succs(g, p)
       PROVE  made[c[i]] = c[g.ops[i][p]]
  <2>1. C[i] \in k.insts
    BY <1>16 DEF IsCopy, Phis
  <2>2. g.ops[i][p] \in g.insts \cup {Const}
    <3>1. p \in DOMAIN g.ops[i]
      BY <1>16 DEF SSA, Preds
    <3> QED
      BY <3>1 DEF SSA, Operands
  <2>3. c[i] = ReplacedBy(k, P, C[i]) /\ c[g.ops[i][p]] = ReplacedBy(k, P, C[g.ops[i][p]])
    BY <2>2 DEF CopyMade
  <2>4. MadeOf(k, P, ReplacedBy(k, P, C[i]), C[i])
    BY <2>1, IsolatedOperands
  <2>5. made[ReplacedBy(k, P, C[i])] = ReplacedBy(k, P, val[C[i]])
    BY <2>1, <2>4, ValuesMadeAre
  <2>6. val[C[i]] = C[g.ops[i][p]]
    BY <1>0, <1>16
  <2> QED
    BY <2>3, <2>5, <2>6
<1> HIDE DEF made, c
<1>17. Follows(f, g, c, p)
  BY <1>13, <1>14, <1>15, <1>16 DEF Follows
<1> QED
  BY <1>17 DEF c

(* Kernel k does what the kernel g did that it was made of.                 *)
DoesTheSame(k, g) ==
    /\ Shape(g) /\ SSA(g) /\ g.blocks \subseteq k.blocks
    /\ \E C : IsCopy(k, g, C) /\ \A p \in g.blocks : Follows(k, g, C, p)

(* Both, behind all old blocks: for a split,                                *)
LEMMA SplitDoesTheSame ==
    ASSUME NEW k, Shape(k), SSA(k), NEW b \in k.blocks, NEW moved, IsTail(k, b, moved),
           NEW n, n = NewBlock(k), NEW f, f = SplitBlock(k, b, moved, n),
           NEW g, DoesTheSame(k, g)
    PROVE  DoesTheSame(f, g)
<1>1. /\ Shape(g) /\ SSA(g) /\ g.blocks \subseteq k.blocks /\ g.parent \in [g.insts -> g.blocks]
      /\ moved \in SUBSET NonPhis(k, b)
  BY DEF DoesTheSame, Shape, IsTail
<1>2. PICK C : IsCopy(k, g, C) /\ \A p \in g.blocks : Follows(k, g, C, p)
  BY DEF DoesTheSame
<1>3. f.blocks = k.blocks \cup {n}
  BY SplitBlocks
<1>4. IsCopy(f, g, C)
  BY <1>1, <1>2, SplitKeepsCopy
<1>5. ASSUME NEW p \in g.blocks PROVE Follows(f, g, C, p)
  BY <1>1, <1>2, SplitFollows
<1> QED
  BY <1>1, <1>3, <1>4, <1>5 DEF DoesTheSame

(* and for a region that was isolated.                                      *)
LEMMA IsolatedDoesTheSame ==
    ASSUME NEW k, Shape(k), SSA(k), NEW r, r.exiting \in k.blocks,
           NEW n, n = NewBlock(k), NEW f, f = Isolated(k, r, n),
           NEW g, DoesTheSame(k, g)
    PROVE  DoesTheSame(f, g)
<1> DEFINE P == Phis(k, r.exiting)
<1>1. Shape(g) /\ SSA(g) /\ g.blocks \subseteq k.blocks /\ g.parent \in [g.insts -> g.blocks]
  BY DEF DoesTheSame, Shape
<1>2. PICK C : IsCopy(k, g, C) /\ \A p \in g.blocks : Follows(k, g, C, p)
  BY DEF DoesTheSame
<1>3. f.blocks = k.blocks \cup {n}
  BY DEF Isolated
<1>4. P = Phis(k, r.exiting)
  OBVIOUS
<1> HIDE DEF P
<1>5. IsCopy(f, g, CopyMade(k, g, P, C))
  BY <1>1, <1>2, <1>4, IsolatedKeepsCopy
<1>6. ASSUME NEW p \in g.blocks PROVE Follows(f, g, CopyMade(k, g, P, C), p)
  BY <1>1, <1>2, <1>4, IsolatedFollows
<1> QED
  BY <1>1, <1>3, <1>5, <1>6 DEF DoesTheSame

(* The inductive invariant: the kernel can be worked on, and does what it   *)
(* did when it came.                                                        *)
SameInv == ExtractionInv /\ DoesTheSame(kernel, original)

LEMMA InitSame == Init => SameInv
<1> SUFFICES ASSUME Init PROVE SameInv
  OBVIOUS
<1>1. kernel \in Kernels /\ original = kernel
  BY DEF Init
<1>2. ExtractionInv
  BY InitExtraction
<1>3. Shape(kernel) /\ SSA(kernel)
  BY <1>2 DEF ExtractionInv
<1>4. \E C : IsCopy(kernel, kernel, C) /\ \A p \in kernel.blocks : Follows(kernel, kernel, C, p)
  BY <1>3, FollowsItself
<1> QED
  BY <1>1, <1>2, <1>3, <1>4 DEF SameInv, DoesTheSame

LEMMA ExtractKeepsSame == SameInv /\ ExtractBranches => SameInv'
<1> SUFFICES ASSUME SameInv, ExtractBranches PROVE SameInv'
  OBVIOUS
<1> DEFINE header     == regions[cur].header
           exiting    == ExitingOf(header)
           split      == ~IsHeader(header)
           newHeader  == IF split THEN NewBlock(kernel) ELSE header
           k1         == IF split THEN SplitBlock(kernel, header, BranchOf(kernel, header), newHeader)
                         ELSE kernel
           newExiting == NewBlock(k1)
           k2         == SplitBlock(k1, exiting, NonPhis(k1, exiting), newExiting)
           g          == original
<1>1. /\ pc = "extract" /\ cur <= Len(regions) /\ exiting # NoBlock
      /\ kernel' = k2 /\ original' = original
  BY DEF ExtractBranches
<1>2. /\ Shape(kernel) /\ SSA(kernel) /\ regions \in Seq(RegionsOf(kernel)) /\ cur \in Nat \ {0}
      /\ pdt \in [kernel.blocks -> kernel.blocks \cup {NoBlock}]
      /\ DoesTheSame(kernel, g)
  BY <1>1 DEF SameInv, ExtractionInv
<1>3. header \in kernel.blocks
  <2>1. regions[cur] \in RegionsOf(kernel)
    BY <1>1, <1>2
  <2> QED
    BY <2>1 DEF RegionsOf
<1>4. exiting \in kernel.blocks
  <2>1. ExitBlock(kernel, loops[header]) \in kernel.blocks \cup {NoBlock}
    BY ExitBlockIs
  <2> QED
    BY <1>1, <1>2, <1>3, <2>1 DEF ExitingOf
<1> HIDE DEF header, exiting, g
<1>5. Shape(k1) /\ SSA(k1) /\ kernel.blocks \subseteq k1.blocks /\ DoesTheSame(k1, g)
  <2>1. CASE split
    <3>1. IsTail(kernel, header, BranchOf(kernel, header))
      BY <1>2, BranchIsTail
    <3>2. newHeader = NewBlock(kernel) /\ k1 = SplitBlock(kernel, header, BranchOf(kernel, header), newHeader)
      BY <2>1
    <3>3. Shape(k1) /\ SSA(k1)
      BY <1>2, <1>3, <3>1, <3>2, SplitKeepsSSA
    <3>4. k1.blocks = kernel.blocks \cup {newHeader}
      BY <3>2, SplitBlocks
    <3>5. DoesTheSame(k1, g)
      BY <1>2, <1>3, <3>1, <3>2, SplitDoesTheSame
    <3> QED
      BY <3>3, <3>4, <3>5
  <2>2. CASE ~split
    BY <1>2, <2>2
  <2> QED
    BY <2>1, <2>2
<1> HIDE DEF k1, newHeader, split
<1>6. DoesTheSame(k2, g)
  <2>1. IsTail(k1, exiting, NonPhis(k1, exiting))
    BY <1>5, NonPhisAreTail
  <2>2. exiting \in k1.blocks
    BY <1>4, <1>5
  <2> QED
    BY <1>5, <2>1, <2>2, SplitDoesTheSame
<1>7. ExtractionInv'
  BY ExtractKeepsInv DEF SameInv
<1> HIDE DEF k2
<1> QED
  BY <1>1, <1>6, <1>7 DEF SameInv, g

LEMMA NextKeepsSame == SameInv /\ [Next]_vars => SameInv'
<1> SUFFICES ASSUME SameInv, [Next]_vars PROVE SameInv'
  OBVIOUS
<1>1. ExtractionInv'
  BY NextKeepsExtraction DEF SameInv
<1>2. CASE ExtractBranches
  BY <1>2, ExtractKeepsSame
<1>3. CASE IsolateRegion
  <2> DEFINE r == regions[cur]
             n == NewBlock(kernel)
             f == Isolated(kernel, r, n)
  <2>1. pc = "isolate" /\ kernel' = f /\ original' = original
    BY <1>3 DEF IsolateRegion, FinishIteration
  <2>2. Shape(kernel) /\ SSA(kernel) /\ r.exiting \in kernel.blocks /\ DoesTheSame(kernel, original)
    BY <2>1 DEF SameInv, ExtractionInv
  <2> HIDE DEF r
  <2>3. DoesTheSame(f, original)
    BY <2>2, IsolatedDoesTheSame
  <2> QED
    BY <1>1, <2>1, <2>3 DEF SameInv
<1>4. CASE DereferenceNull \/ BailOut \/ FillRegions \/ Terminated \/ UNCHANGED vars
  <2>1. kernel' = kernel /\ original' = original
    BY <1>4 DEF DereferenceNull, BailOut, FinishIteration, FillRegions, Terminated, vars
  <2> QED
    BY <1>1, <2>1 DEF SameInv
<1> QED
  BY <1>2, <1>3, <1>4 DEF Next

(* The new blocks behind an old one are those of its tree.                  *)
LEMMA TreeIsReached ==
    ASSUME NEW k, IsGraph(k), NEW g, IsGraph(g), g.blocks \subseteq k.blocks, NEW p \in g.blocks,
           NEW T, NEW up, IsTree(k, g, p, T, up)
    PROVE  ReachAvoid(k, Succs(k, p), g.blocks) = T
<1> DEFINE R == ReachAvoid(k, Succs(k, p), g.blocks)
<1>1. /\ T \in SUBSET (k.blocks \ g.blocks) /\ Succs(g, p) \subseteq g.blocks
      /\ up \in [T \cup Succs(g, p) -> T \cup {p}]
      /\ \A y \in T \cup {p} : \A x \in Succs(k, y) : x \in T \cup Succs(g, p) /\ up[x] = y
      /\ \A x \in T \cup Succs(g, p) : x \in Succs(k, up[x])
      /\ \A S \in SUBSET T : S # {} => \E x \in S : up[x] \notin S
  BY DEF IsTree, IsGraph
<1>2. Succs(k, p) \in SUBSET k.blocks
  BY DEF IsGraph
<1>3. R \subseteq T
  <2>1. \A y \in T \cup {p} : Succs(k, y) \ g.blocks \subseteq T
    BY <1>1
  <2>2. Succs(k, p) \ g.blocks \subseteq T /\ \A y \in T : y \in k.blocks \ g.blocks => Succs(k, y) \ g.blocks \subseteq T
    BY <2>1
  <2> QED
    BY <1>2, <2>2, ReachAvoidIsLeast
<1>4. Succs(k, p) \ g.blocks \subseteq R /\ \A y \in R : Succs(k, y) \ g.blocks \subseteq R
  BY <1>2, ReachAvoidIsClosed
<1> HIDE DEF R
<1>5. ASSUME NEW x \in T, x \notin R PROVE FALSE
  <2>1. T \ R # {} /\ T \ R \in SUBSET T
    BY <1>5
  <2>2. PICK z \in T \ R : up[z] \notin T \ R
    BY <1>1, <2>1
  <2>3. up[z] \in R \cup {p} /\ z \in Succs(k, up[z]) /\ z \notin g.blocks
    BY <1>1, <2>2
  <2> QED
    BY <1>4, <2>2, <2>3
<1> QED
  BY <1>3, <1>5 DEF R

(* Of the blocks of a tree those are reached from x that x is above.        *)
LEMMA AboveReaches ==
    ASSUME NEW k, IsGraph(k), NEW g, IsGraph(g), g.blocks \subseteq k.blocks, NEW p \in g.blocks,
           NEW T, NEW up, IsTree(k, g, p, T, up), NEW x \in T
    PROVE  /\ ReachAvoid(k, {x}, g.blocks) \subseteq T
           /\ \A y \in T : y \in ReachAvoid(k, {x}, g.blocks) <=> x \in Above(T, up, y)
<1> DEFINE R(z) == ReachAvoid(k, {z}, g.blocks)
           Z == {y \in T : x \in Above(T, up, y)}
<1>1. /\ T \in SUBSET (k.blocks \ g.blocks) /\ Succs(g, p) \subseteq g.blocks
      /\ up \in [T \cup Succs(g, p) -> T \cup {p}]
      /\ \A y \in T \cup {p} : \A w \in Succs(k, y) : w \in T \cup Succs(g, p) /\ up[w] = y
      /\ \A w \in T \cup Succs(g, p) : w \in Succs(k, up[w])
  BY DEF IsTree, IsGraph
<1>2. R(x) \subseteq Z
  <2>1. {x} \ g.blocks \subseteq Z
    BY AboveIs
  <2>2. ASSUME NEW y \in Z, NEW w \in Succs(k, y) \ g.blocks PROVE w \in Z
    <3>1. w \in T /\ up[w] = y /\ y \in T
      BY <1>1, <2>2
    <3>2. Above(T, up, y) \subseteq Above(T, up, w)
      <4>1. w \in Above(T, up, w) /\ IsUpwards(T, up, Above(T, up, w))
        BY <3>1, AboveIs
      <4>2. y \in Above(T, up, w)
        BY <3>1, <4>1 DEF IsUpwards
      <4> QED
        BY <3>1, <4>2, AboveIs
    <3> QED
      BY <3>1, <3>2
  <2>3. {x} \in SUBSET k.blocks /\ \A y \in Z : y \in k.blocks \ g.blocks => Succs(k, y) \ g.blocks \subseteq Z
    BY <1>1, <2>2
  <2> HIDE DEF Z
  <2> QED
    BY <2>1, <2>3, ReachAvoidIsLeast
<1>3. ASSUME NEW y \in T, x \in Above(T, up, y) PROVE y \in R(x)
  <2> DEFINE A == {z \in T : y \in R(z)}
  <2>1. \A z \in T : /\ R(z) \subseteq k.blocks \ g.blocks /\ z \in R(z)
                     /\ \A w \in R(z) : Succs(k, w) \ g.blocks \subseteq R(z)
    <3> SUFFICES ASSUME NEW z \in T
                 PROVE  /\ R(z) \subseteq k.blocks \ g.blocks /\ z \in R(z)
                        /\ \A w \in R(z) : Succs(k, w) \ g.blocks \subseteq R(z)
      OBVIOUS
    <3>1. {z} \in SUBSET k.blocks /\ z \notin g.blocks
      BY <1>1
    <3>2. /\ R(z) \subseteq k.blocks \ g.blocks /\ {z} \ g.blocks \subseteq R(z)
          /\ \A w \in R(z) : Succs(k, w) \ g.blocks \subseteq R(z)
      BY <3>1, ReachAvoidIsClosed
    <3> QED
      BY <3>1, <3>2
  <2>2. ASSUME NEW z \in T, up[z] \in T PROVE R(z) \subseteq R(up[z])
    <3>1. z \in Succs(k, up[z]) /\ z \notin g.blocks
      BY <1>1
    <3>2. z \in R(up[z])
      BY <2>1, <2>2, <3>1
    <3> DEFINE S == R(up[z])
    <3>3. {z} \in SUBSET k.blocks /\ {z} \ g.blocks \subseteq S
      BY <1>1, <3>2
    <3>4. \A w \in S : w \in k.blocks \ g.blocks => Succs(k, w) \ g.blocks \subseteq S
      BY <2>1, <2>2
    <3> HIDE DEF S
    <3>5. R(z) \subseteq S
      BY <3>3, <3>4, ReachAvoidIsLeast
    <3> QED
      BY <3>5 DEF S
  <2> HIDE DEF R
  <2>3. y \in A /\ IsUpwards(T, up, A)
    BY <2>1, <2>2 DEF IsUpwards
  <2> HIDE DEF A
  <2>4. Above(T, up, y) \subseteq A
    BY <2>3, AboveIs
  <2> QED
    BY <1>3, <2>4 DEF A
<1> QED
  BY <1>2, <1>3

(* What lies between two old blocks, and before what, by the tree.          *)
LEMMA BetweenIs ==
    ASSUME IsGraph(kernel), IsGraph(original), original.blocks \subseteq kernel.blocks,
           NEW p \in original.blocks, NEW T, NEW up, IsTree(kernel, original, p, T, up),
           NEW b \in Succs(original, p)
    PROVE  /\ Between(p, b) = IF up[b] \in T THEN Above(T, up, up[b]) ELSE {}
           /\ \A x \in Between(p, b) \cup {b} : up[x] \in Between(p, b) \cup {p} /\ PredOn(p, b, x) = up[x]
<1> DEFINE B == Between(p, b)
<1>1. /\ T \in SUBSET (kernel.blocks \ original.blocks)
      /\ up \in [T \cup Succs(original, p) -> T \cup {p}]
      /\ \A y \in T \cup {p} : \A w \in Succs(kernel, y) : w \in T \cup Succs(original, p) /\ up[w] = y
      /\ \A w \in T \cup Succs(original, p) : w \in Succs(kernel, up[w])
  BY DEF IsTree
<1>2. ReachAvoid(kernel, Succs(kernel, p), original.blocks) = T
  BY TreeIsReached
<1>3. \A x \in T : /\ ReachAvoid(kernel, {x}, original.blocks) \subseteq T
                   /\ \A y \in T : y \in ReachAvoid(kernel, {x}, original.blocks) <=> x \in Above(T, up, y)
  BY AboveReaches
<1>4. \A y \in T \cup {p} : b \in Succs(kernel, y) <=> y = up[b]
  BY <1>1
<1>5. B = {x \in T : \E y \in ReachAvoid(kernel, {x}, original.blocks) : b \in Succs(kernel, y)}
  BY <1>2 DEF Between
<1>6. \A x \in T : x \in B <=> up[b] \in T /\ x \in Above(T, up, up[b])
  <2> SUFFICES ASSUME NEW x \in T PROVE x \in B <=> up[b] \in T /\ x \in Above(T, up, up[b])
    OBVIOUS
  <2>1. x \in B <=> \E y \in ReachAvoid(kernel, {x}, original.blocks) : y = up[b]
    BY <1>3, <1>4, <1>5
  <2> QED
    BY <1>3, <2>1
<1>7. B \subseteq T
  BY <1>5
<1> HIDE DEF B
<1>8. B = IF up[b] \in T THEN Above(T, up, up[b]) ELSE {}
  <2>1. Above(T, up, up[b]) \subseteq T
    BY DEF Above
  <2> QED
    BY <1>6, <1>7, <2>1
<1>9. ASSUME NEW x \in B \cup {b} PROVE up[x] \in B \cup {p} /\ PredOn(p, b, x) = up[x]
  <2>1. up[x] \in T \cup {p} /\ x \in Succs(kernel, up[x])
    BY <1>1, <1>7
  <2>2. up[x] \in B \cup {p}
    <3>1. CASE up[b] \in T
      <4>1. up[b] \in Above(T, up, up[b]) /\ IsUpwards(T, up, Above(T, up, up[b]))
        BY <3>1, AboveIs
      <4> QED
        BY <1>8, <2>1, <3>1, <4>1 DEF IsUpwards
    <3>2. CASE up[b] \notin T
      BY <1>8, <2>1, <3>2
    <3> QED
      BY <3>1, <3>2
  <2>3. \A y \in {p} \cup B : x \in Succs(kernel, y) => y = up[x]
    BY <1>1, <1>7
  <2> QED
    BY <2>1, <2>2, <2>3 DEF PredOn, B
<1> QED
  BY <1>8, <1>9 DEF B

(* An old block leads where it led.                                         *)
LEMMA LeadsIs ==
    ASSUME Shape(kernel), Shape(original), original.blocks \subseteq kernel.blocks,
           NEW p \in original.blocks, NEW T, NEW up, IsTree(kernel, original, p, T, up),
           NEW q, NEW to, IsSides(kernel, original, p, T, q, to)
    PROVE  LeadsAsBefore(p)
<1> DEFINE O == original.blocks
           D == T \cup Succs(original, p)
<1>0. /\ IsGraph(kernel) /\ MayReturn(kernel) /\ IsGraph(original)
      /\ kernel.succ \in [kernel.blocks -> Seq(kernel.blocks)]
      /\ original.succ \in [O -> Seq(O)]
  BY DEF Shape
<1>1. /\ T \in SUBSET (kernel.blocks \ O) /\ Succs(original, p) \subseteq O
      /\ up \in [D -> T \cup {p}]
      /\ \A y \in T \cup {p} : \A x \in Succs(kernel, y) : x \in D /\ up[x] = y
      /\ \A x \in D : x \in Succs(kernel, up[x])
  BY <1>0 DEF IsTree, IsGraph
<1>2. NextOld({p}) = Succs(original, p)
  <2>1. NextOld({p}) = O \cap (Succs(kernel, p) \cup UNION {Succs(kernel, y) : y \in T})
    <3>1. UNION {Succs(kernel, x) : x \in {p}} = Succs(kernel, p)
      OBVIOUS
    <3>2. ReachAvoid(kernel, Succs(kernel, p), O) = T
      BY <1>0, TreeIsReached
    <3> QED
      BY <3>1, <3>2 DEF NextOld
  <2>2. \A x : x \in NextOld({p}) <=> x \in O /\ \E y \in T \cup {p} : x \in Succs(kernel, y)
    BY <2>1
  <2> QED
    BY ZenonT(60), <1>1, <2>2
<1>3. /\ q \in T \cup {p} /\ DOMAIN to = D
      /\ \A i \in BranchOf(original, p) : kernel.parent[i] = q
      /\ Len(kernel.succ[q]) = Len(original.succ[p])
      /\ \A x \in DOMAIN original.succ[p] : to[kernel.succ[q][x]] = original.succ[p][x]
      /\ \A b \in Succs(original, p) : to[b] = b
      /\ \A y \in T : to[y] # NoBlock => Succs(kernel, y) # {} /\ \A x \in Succs(kernel, y) : to[x] = to[y]
  BY DEF IsSides
<1>4. ASSUME NEW x \in T, NEW t \in O, to[x] = t PROVE NextOld({x}) = {t}
  <2> DEFINE next == Succs(kernel, x)
             R == ReachAvoid(kernel, next, O)
             Z == {z \in T : to[z] = t}
  <2>1. next \in SUBSET kernel.blocks
    BY <1>0, <1>1 DEF IsGraph
  <2>2. t # NoBlock
    BY <1>0 DEF IsGraph
  <2>3. ASSUME NEW z \in Z
        PROVE  Succs(kernel, z) # {} /\ \A w \in Succs(kernel, z) : (w \in O => w = t) /\ (w \notin O => w \in Z)
    <3>1. z \in T /\ to[z] # NoBlock
      BY <2>2
    <3>2. Succs(kernel, z) # {} /\ \A w \in Succs(kernel, z) : to[w] = t /\ w \in D
      BY <1>1, <1>3, <3>1
    <3> QED
      BY <1>1, <1>3, <3>2
  <2>4. x \in Z
    BY <1>4
  <2>5. R \subseteq Z
    <3>1. next \ O \subseteq Z /\ \A z \in Z : z \in kernel.blocks \ O => Succs(kernel, z) \ O \subseteq Z
      BY <2>3, <2>4
    <3> HIDE DEF next, Z
    <3> QED
      BY <1>0, <2>1, <3>1, ReachAvoidIsLeast
  <2>6. next \ O \subseteq R /\ \A y \in R : Succs(kernel, y) \ O \subseteq R
    <3> HIDE DEF next
    <3> QED
      BY <1>0, <2>1, ReachAvoidIsClosed
  <2>7. NextOld({x}) = O \cap (next \cup UNION {Succs(kernel, y) : y \in R})
    <3>1. UNION {Succs(kernel, z) : z \in {x}} = next
      OBVIOUS
    <3> HIDE DEF next
    <3> QED
      BY <3>1 DEF NextOld
  <2> HIDE DEF R, Z
  <2>8. \A y : y \in NextOld({x}) <=> y \in O /\ \E z \in R \cup {x} : y \in Succs(kernel, z)
    BY <2>7
  <2>9. NextOld({x}) \subseteq {t}
    BY <2>3, <2>4, <2>5, <2>8
  <2>10. ASSUME t \notin NextOld({x}) PROVE FALSE
    <3> DEFINE W == R \cup {x}
    <3>1. \A z \in W : Succs(kernel, z) # {} /\ Succs(kernel, z) \cap O = {}
      BY <2>3, <2>4, <2>5, <2>8, <2>9, <2>10
    <3>2. \A z \in W : Succs(kernel, z) \subseteq W
      BY <2>6, <3>1
    <3>3. W \in SUBSET kernel.blocks
      BY <1>1, <2>4, <2>5 DEF Z
    <3>4. W \cap Exits(kernel) = {}
      <4>1. \A z \in W : kernel.succ[z] # <<>>
        BY <3>1 DEF Succs
      <4> QED
        BY <4>1 DEF Exits
    <3>5. x \in W
      OBVIOUS
    <3> HIDE DEF W
    <3>6. W = {}
      BY <1>0, <3>2, <3>3, <3>4, NoClosedTrap
    <3> QED
      BY <3>5, <3>6
  <2> QED
    BY <2>9, <2>10
<1>5. ASSUME NEW i \in BranchOf(original, p)
      PROVE  LET s == kernel.succ[kernel.parent[i]]
             IN  \A n \in DOMAIN s :
                    original.succ[p][n] = (IF s[n] \in O THEN s[n] ELSE CHOOSE b \in NextOld({s[n]}) : TRUE)
  <2> DEFINE s == kernel.succ[q]
  <2>1. DOMAIN s = DOMAIN original.succ[p]
    <3>1. q \in kernel.blocks
      BY <1>1, <1>3
    <3> QED
      BY <1>0, <1>3, <3>1
  <2>2. ASSUME NEW n \in DOMAIN s
        PROVE  original.succ[p][n] = (IF s[n] \in O THEN s[n] ELSE CHOOSE b \in NextOld({s[n]}) : TRUE)
    <3>1. s[n] \in Succs(kernel, q) /\ original.succ[p][n] \in Succs(original, p)
      BY <2>1 DEF Succs
    <3>2. s[n] \in D /\ to[s[n]] = original.succ[p][n] /\ original.succ[p][n] \in O
      BY <1>1, <1>3, <2>1, <3>1
    <3> HIDE DEF s
    <3>3. CASE s[n] \in O
      BY <1>1, <1>3, <3>2, <3>3
    <3>4. CASE s[n] \notin O
      <4>1. s[n] \in T
        BY <1>1, <3>2, <3>4
      <4>2. NextOld({s[n]}) = {original.succ[p][n]}
        BY <1>4, <3>2, <4>1
      <4>3. (CHOOSE b \in NextOld({s[n]}) : TRUE) = original.succ[p][n]
        BY <4>2
      <4> QED
        BY <3>4, <4>3
    <3> QED
      BY <3>3, <3>4
  <2>3. kernel.parent[i] = q
    BY <1>3
  <2> QED
    BY <2>2, <2>3
<1> QED
  BY <1>2, <1>5 DEF LeadsAsBefore

(* How the value of a phi is looked up: what a value on the way stands for  *)
(* next, and the lookups one after the other.                               *)
NextValue(p, b, v) ==
    IF v \in kernel.insts /\ kernel.kind[v] = "phi" /\ kernel.parent[v] \in Between(p, b)
    THEN kernel.ops[v][PredOn(p, b, kernel.parent[v])] ELSE v

AreLookups(W, p, b, j) ==
    /\ W[0] = kernel.ops[j][PredOn(p, b, b)]
    /\ \A n \in 1..Cardinality(Between(p, b)) : W[n] = NextValue(p, b, W[n - 1])
    /\ ValueFrom(p, b, j) = W[Cardinality(Between(p, b))]

(* The value is what the last lookup yields.                                *)
LEMMA ValueInSteps ==
    ASSUME NEW p, NEW b, NEW j, IsFiniteSet(Between(p, b)), NEW U,
           kernel.ops[j][PredOn(p, b, b)] \in U, \A v \in U : NextValue(p, b, v) \in U
    PROVE  \E W : AreLookups(W, p, b, j)
<1> DEFINE N == Cardinality(Between(p, b))
           first == kernel.ops[j][PredOn(p, b, b)]
           After(v) == NextValue(p, b, v)
           h == [x \in Nat \X U |-> After(x[2])]
           V[n \in 0..N] ==
               IF n = 0 THEN kernel.ops[j][PredOn(p, b, b)]
               ELSE LET v == V[n - 1]
                    IN  IF v \in kernel.insts /\ kernel.kind[v] = "phi" /\ kernel.parent[v] \in Between(p, b)
                        THEN kernel.ops[v][PredOn(p, b, kernel.parent[v])] ELSE v
<1>1. N \in Nat
  BY FS_CardinalityType
<1>2. ValueFrom(p, b, j) = V[N]
  BY DEF ValueFrom
<1>3. first \in U /\ \A v \in U : After(v) \in U
  OBVIOUS
<1>4. h \in [Nat \X U -> U]
  <2> HIDE DEF After
  <2> QED
    BY <1>3
<1>5. PICK W \in [0..N -> U] : IsRecursive(W, N, first, h)
  <2> HIDE DEF N, h, first
  <2> QED
    BY <1>1, <1>3, <1>4, RecursiveExists
<1> HIDE DEF N
<1>6. \A i \in 0..N : W[i] = IF i = 0 THEN first ELSE After(W[i - 1])
  <2> SUFFICES ASSUME NEW i \in 0..N PROVE W[i] = IF i = 0 THEN first ELSE After(W[i - 1])
    OBVIOUS
  <2> HIDE DEF After, first
  <2>1. W[i] = IF i = 0 THEN first ELSE h[<<i, W[i - 1]>>]
    <3> HIDE DEF h
    <3> QED
      BY <1>5 DEF IsRecursive
  <2>2. CASE i = 0
    BY <2>1, <2>2
  <2>3. CASE i # 0
    <3>1. i \in Nat /\ i - 1 \in 0..N /\ W[i - 1] \in U
      BY <1>1, <1>5, <2>3
    <3>2. h[<<i, W[i - 1]>>] = After(W[i - 1])
      BY <3>1
    <3> HIDE DEF h
    <3> QED
      BY <2>1, <2>3, <3>2
  <2> QED
    BY <2>2, <2>3
<1>7. W = [n \in 0..N |->
               IF n = 0 THEN kernel.ops[j][PredOn(p, b, b)]
               ELSE LET v == W[n - 1]
                    IN  IF v \in kernel.insts /\ kernel.kind[v] = "phi" /\ kernel.parent[v] \in Between(p, b)
                        THEN kernel.ops[v][PredOn(p, b, kernel.parent[v])] ELSE v]
  <2>1. W = [i \in 0..N |-> W[i]]
    BY <1>5
  <2> QED
    BY <1>6, <2>1, Zenon DEF NextValue
<1>8. V = [n \in 0..N |->
               IF n = 0 THEN kernel.ops[j][PredOn(p, b, b)]
               ELSE LET v == V[n - 1]
                    IN  IF v \in kernel.insts /\ kernel.kind[v] = "phi" /\ kernel.parent[v] \in Between(p, b)
                        THEN kernel.ops[v][PredOn(p, b, kernel.parent[v])] ELSE v]
  BY <1>7
<1> HIDE DEF V, h
<1>9. V[0] = first
  BY <1>1, <1>8
<1>10. ASSUME NEW i \in 1..N PROVE V[i] = After(V[i - 1])
  <2>1. i \in 0..N /\ i # 0
    BY <1>1
  <2> QED
    BY <1>8, <2>1, Zenon DEF NextValue
<1>11. AreLookups(V, p, b, j)
  BY <1>2, <1>9, <1>10, Zenon DEF AreLookups, N
<1> QED
  BY <1>11

(* The value a phi takes when control comes from p is that of the tree:     *)
(* every lookup leads further up, so the last one is past the new blocks.   *)
LEMMA ValueIs ==
    ASSUME Shape(kernel), SSA(kernel), IsGraph(original), original.blocks \subseteq kernel.blocks,
           NEW p \in original.blocks, NEW T, NEW up, IsTree(kernel, original, p, T, up),
           NEW val, IsValues(kernel, original, p, T, up, val),
           NEW b \in Succs(original, p), NEW j \in Phis(kernel, b)
    PROVE  ValueFrom(p, b, j) = val[j]
<1> DEFINE B == Between(p, b)
           N == Cardinality(B)
           U == kernel.insts \cup {Const}
           D == T \cup Succs(original, p)
           Goes(v) == IsOnWay(kernel, T, v)
           Left(x) == Cardinality(Above(T, up, x))
<1>0. IsGraph(kernel) /\ IsFiniteSet(kernel.blocks)
  BY DEF Shape, IsGraph
<1>1. /\ T \in SUBSET (kernel.blocks \ original.blocks)
      /\ up \in [D -> T \cup {p}]
      /\ \A x \in D : x \in Succs(kernel, up[x])
      /\ \A S \in SUBSET T : S # {} => \E x \in S : up[x] \notin S
  BY DEF IsTree
<1>2. /\ B = IF up[b] \in T THEN Above(T, up, up[b]) ELSE {}
      /\ \A x \in B \cup {b} : up[x] \in B \cup {p} /\ PredOn(p, b, x) = up[x]
  BY <1>0, BetweenIs
<1>3. \A x : Above(T, up, x) \subseteq T
  BY DEF Above
<1>4. IsFiniteSet(T) /\ \A x : IsFiniteSet(Above(T, up, x)) /\ Left(x) \in Nat
  <2>1. IsFiniteSet(T)
    BY <1>0, <1>1, FS_Subset
  <2>2. \A x : IsFiniteSet(Above(T, up, x))
    BY <1>3, <2>1, FS_Subset
  <2> QED
    BY <2>1, <2>2, FS_CardinalityType
<1>5. B \subseteq T /\ IsFiniteSet(B) /\ N \in Nat
  <2>1. B \subseteq T
    BY <1>2, <1>3
  <2>2. IsFiniteSet(B)
    BY <1>4, <2>1, FS_Subset
  <2> QED
    BY <2>1, <2>2, FS_CardinalityType
<1> HIDE DEF B, N
<1>6. ASSUME NEW v \in kernel.insts, kernel.kind[v] = "phi", kernel.parent[v] \in D
      PROVE  LET y == up[kernel.parent[v]]
                 w == kernel.ops[v][y]
             IN  /\ w \in U
                 /\ val[v] = Through(kernel, T, val, w)
                 /\ Goes(w) => y \in T /\ kernel.parent[w] \in Above(T, up, y)
  <2> DEFINE y == up[kernel.parent[v]]
             w == kernel.ops[v][y]
  <2>1. y \in DOMAIN kernel.ops[v]
    <3>1. kernel.parent[v] \in Succs(kernel, y) /\ y \in kernel.blocks
      BY <1>1, <1>6
    <3>2. DOMAIN kernel.ops[v] = Preds(kernel, kernel.parent[v])
      BY <1>6 DEF SSA
    <3> QED
      BY <3>1, <3>2 DEF Preds
  <2>2. w \in U
    BY <2>1 DEF SSA, Operands
  <2> QED
    BY <1>6, <2>2 DEF IsValues
<1>7. j \in kernel.insts /\ kernel.kind[j] = "phi" /\ kernel.parent[j] = b /\ b \in D
  BY DEF Phis
<1>8. \A v : v \in kernel.insts /\ kernel.kind[v] = "phi" /\ kernel.parent[v] \in B <=> Goes(v) /\ kernel.parent[v] \in B
  BY <1>5 DEF IsOnWay
<1>9. ASSUME NEW v, Goes(v), kernel.parent[v] \in B
      PROVE  LET w == NextValue(p, b, v)
             IN  /\ w \in U
                 /\ val[v] = Through(kernel, T, val, w)
                 /\ Goes(w) => kernel.parent[w] \in B /\ Left(kernel.parent[w]) < Left(kernel.parent[v])
  <2> DEFINE x == kernel.parent[v]
             y == up[x]
             w == kernel.ops[v][y]
  <2>1. NextValue(p, b, v) = w
    <3>1. NextValue(p, b, v) = kernel.ops[v][PredOn(p, b, x)]
      BY <1>8, <1>9 DEF NextValue, B
    <3>2. PredOn(p, b, x) = y
      BY <1>2, <1>9
    <3> QED
      BY <3>1, <3>2
  <2>2. /\ w \in U
        /\ val[v] = Through(kernel, T, val, w)
        /\ Goes(w) => y \in T /\ kernel.parent[w] \in Above(T, up, y)
    BY <1>6, <1>9 DEF IsOnWay
  <2>3. ASSUME Goes(w) PROVE kernel.parent[w] \in B /\ Left(kernel.parent[w]) < Left(x)
    <3> DEFINE z == kernel.parent[w]
    <3>1. y \in T /\ z \in Above(T, up, y) /\ x \in T /\ x \in B
      BY <1>5, <1>9, <2>2, <2>3
    <3>2. up[b] \in T /\ B = Above(T, up, up[b])
      BY <1>2, <3>1
    <3> HIDE DEF y, x, z, w
    <3>3. Above(T, up, x) \subseteq B
      BY <3>1, <3>2, AboveIs
    <3>4. Above(T, up, z) \subseteq Above(T, up, y)
      BY <3>1, AboveIs
    <3>5. Above(T, up, y) \subseteq Above(T, up, x) /\ x \notin Above(T, up, y) /\ x \in Above(T, up, x)
      <4>1. up[x] \in T
        BY <3>1 DEF y
      <4>2. Above(T, up, up[x]) \subseteq Above(T, up, x) /\ x \notin Above(T, up, up[x])
        BY <1>1, <3>1, <4>1, AboveIsLess
      <4>3. x \in Above(T, up, x)
        BY <3>1, AboveIs
      <4> QED
        BY <4>2, <4>3 DEF y
    <3>6. z \in B
      BY <3>1, <3>3, <3>5
    <3>7. Left(z) < Left(x)
      <4> DEFINE Z == Above(T, up, z)
                 X == Above(T, up, x)
      <4>1. IsFiniteSet(X) /\ Z \in SUBSET X /\ X # Z
        BY <1>4, <3>4, <3>5
      <4>2. Cardinality(X) \in Nat /\ Cardinality(Z) \in Nat
        BY <1>4
      <4> HIDE DEF X, Z
      <4>3. Cardinality(Z) <= Cardinality(X) /\ (Cardinality(X) = Cardinality(Z) => X = Z)
        BY <4>1, FS_Subset
      <4>4. Cardinality(Z) < Cardinality(X)
        BY <4>1, <4>2, <4>3
      <4> QED
        BY <4>4 DEF X, Z
    <3> QED
      BY <3>6, <3>7 DEF z
  <2> HIDE DEF w
  <2> QED
    BY <2>1, <2>2, <2>3
<1>10. ASSUME NEW v \in U PROVE NextValue(p, b, v) \in U
  <2>1. CASE Goes(v) /\ kernel.parent[v] \in B
    BY <1>9, <2>1
  <2>2. CASE ~(Goes(v) /\ kernel.parent[v] \in B)
    <3>1. NextValue(p, b, v) = v
      BY <1>8, <2>2 DEF NextValue, B
    <3> QED
      BY <3>1
  <2> QED
    BY <2>1, <2>2
<1> DEFINE first == kernel.ops[j][up[b]]
<1>11. /\ kernel.ops[j][PredOn(p, b, b)] = first /\ first \in U
       /\ val[j] = Through(kernel, T, val, first)
       /\ Goes(first) => up[b] \in T /\ kernel.parent[first] \in Above(T, up, up[b])
  <2>1. PredOn(p, b, b) = up[b]
    BY <1>2
  <2> QED
    BY <1>6, <1>7, <2>1
<1> HIDE DEF U, first, Goes, Left
<1>12. PICK W : AreLookups(W, p, b, j)
  BY <1>5, <1>10, <1>11, ValueInSteps DEF B
<1>13. W[0] = first /\ (\A n \in 1..N : W[n] = NextValue(p, b, W[n - 1])) /\ ValueFrom(p, b, j) = W[N]
  BY <1>11, <1>12 DEF AreLookups, N, B
<1> DEFINE Holds(n) == /\ val[j] = Through(kernel, T, val, W[n])
                       /\ Goes(W[n]) => kernel.parent[W[n]] \in B /\ Left(kernel.parent[W[n]]) + n <= N
           S == {n \in Nat : n \in 0..N => Holds(n)}
<1>14. 0 \in S
  <2>1. ASSUME Goes(first) PROVE kernel.parent[first] \in B /\ Left(kernel.parent[first]) <= N
    <3> DEFINE x == kernel.parent[first]
    <3>1. up[b] \in T /\ x \in Above(T, up, up[b]) /\ B = Above(T, up, up[b])
      BY <1>2, <1>11, <2>1
    <3> HIDE DEF x
    <3>2. Above(T, up, x) \in SUBSET B
      BY <3>1, AboveIs
    <3>3. Cardinality(Above(T, up, x)) <= Cardinality(B)
      BY <1>5, <3>2, FS_Subset
    <3> QED
      BY <3>1, <3>3 DEF x, Left, N
  <2>2. \A x : Left(x) \in Nat
    BY <1>4 DEF Left
  <2> QED
    BY <1>5, <1>11, <1>13, <2>1, <2>2
<1>15. ASSUME NEW n \in Nat, n \in S PROVE n + 1 \in S
  <2> SUFFICES ASSUME n + 1 \in 0..N PROVE Holds(n + 1)
    OBVIOUS
  <2> DEFINE v == W[n]
             w == W[n + 1]
  <2>1. n \in 0..N /\ n + 1 \in 1..N /\ (n + 1) - 1 = n
    BY <1>5
  <2>2. w = NextValue(p, b, v)
    BY <1>13, <2>1
  <2>3. /\ val[j] = Through(kernel, T, val, v)
        /\ Goes(v) => kernel.parent[v] \in B /\ Left(kernel.parent[v]) + n <= N
    BY <1>15, <2>1
  <2> HIDE DEF v, w
  <2>4. CASE Goes(v)
    <3>1. /\ val[v] = Through(kernel, T, val, w)
          /\ Goes(w) => kernel.parent[w] \in B /\ Left(kernel.parent[w]) < Left(kernel.parent[v])
      BY <1>9, <2>2, <2>3, <2>4
    <3>2. val[j] = val[v]
      BY <2>3, <2>4 DEF Through, Goes
    <3>3. Left(kernel.parent[w]) \in Nat /\ Left(kernel.parent[v]) \in Nat
      BY <1>4 DEF Left
    <3>4. Goes(w) => Left(kernel.parent[w]) + (n + 1) <= N
      BY <1>5, <2>3, <2>4, <3>1, <3>3
    <3> QED
      BY <3>1, <3>2, <3>4 DEF w
  <2>5. CASE ~Goes(v)
    <3>1. w = v
      BY <1>8, <2>2, <2>5 DEF NextValue, B
    <3> QED
      BY <2>3, <2>5, <3>1 DEF w
  <2> QED
    BY <2>4, <2>5
<1>16. Holds(N)
  <2> HIDE DEF S
  <2>1. \A n \in Nat : n \in S
    BY <1>14, <1>15, Induction
  <2> QED
    BY <1>5, <2>1 DEF S
<1>17. ~Goes(W[N])
  <2> DEFINE x == kernel.parent[W[N]]
  <2> SUFFICES ASSUME Goes(W[N]) PROVE FALSE
    OBVIOUS
  <2>1. x \in B /\ Left(x) + N <= N /\ Left(x) \in Nat
    BY <1>4, <1>16 DEF Left
  <2>2. Left(x) = 0
    BY <1>5, <2>1
  <2>3. x \in Above(T, up, x) /\ IsFiniteSet(Above(T, up, x))
    BY <1>4, <1>5, <2>1, AboveIs
  <2>4. Above(T, up, x) = {}
    BY <2>2, <2>3, FS_EmptySet DEF Left
  <2> QED
    BY <2>3, <2>4
<1>18. val[j] = W[N]
  BY <1>16, <1>17 DEF Through, Goes
<1> QED
  BY <1>13, <1>18

(* What stands for a value means the same.                                  *)
LEMMA CopyMeans ==
    ASSUME NEW k, Shape(k), NEW g, Shape(g), NEW C, IsCopy(k, g, C), NEW v \in g.insts \cup {Const}
    PROVE  Meaning(k, C[v]) = Meaning(g, v)
<1>1. Const \notin k.insts /\ Const \notin g.insts
  BY DEF Shape
<1>2. CASE v = Const
  BY <1>1, <1>2 DEF IsCopy, Meaning
<1>3. CASE v \in g.insts /\ g.kind[v] = "phi"
  <2>1. C[v] \in k.insts /\ k.kind[C[v]] = "phi" /\ k.parent[C[v]] = g.parent[v]
    BY <1>3 DEF IsCopy, Phis
  <2> QED
    BY <1>3, <2>1 DEF Meaning
<1>4. CASE v \in g.insts /\ g.kind[v] # "phi"
  <2>1. C[v] = v /\ k.kind[v] # "phi"
    BY <1>4 DEF IsCopy
  <2> QED
    BY <1>4, <2>1 DEF Meaning
<1> QED
  BY <1>2, <1>3, <1>4

(* An old block has as many phis as it had.                                 *)
LEMMA CopyCounts ==
    ASSUME NEW k, NEW g, Shape(g), NEW C, IsCopy(k, g, C), NEW b \in g.blocks
    PROVE  Cardinality(Phis(k, b)) = Cardinality(Phis(g, b))
<1> DEFINE S == Phis(g, b)
           T == Phis(k, b)
           h == [i \in S |-> C[i]]
<1>1. IsFiniteSet(S)
  <2>1. S \in SUBSET g.insts /\ IsFiniteSet(g.insts)
    BY DEF Phis, Shape
  <2> QED
    BY <2>1, FS_Subset
<1>2. \A i \in S : C[i] \in T
  BY DEF IsCopy, Phis
<1>3. \A i, j \in S : C[i] = C[j] => i = j
  BY DEF IsCopy, Phis
<1>4. \A j \in T : \E i \in S : C[i] = j
  BY DEF IsCopy
<1> HIDE DEF S, T
<1>5. h \in Bijection(S, T)
  BY <1>2, <1>3, <1>4 DEF Bijection, Injection, Surjection, IsInjective
<1>6. ExistsBijection(S, T)
  BY <1>5 DEF ExistsBijection
<1>7. Cardinality(T) = Cardinality(S)
  BY <1>1, <1>6, FS_Bijection
<1> QED
  BY <1>7 DEF S, T

(* At the end of branch extraction the kernel computes what it did, however *)
(* many regions were given blocks of their own: every old block leads where *)
(* it led, on each side of its branch; every phi takes from each old block  *)
(* the value it took, through the phis that were made on the way; and the   *)
(* other instructions have their operands (extractBranches, isolateRegion). *)
THEOREM ExtractionComputesTheSame == Spec => []ComputesTheSame
<1>1. SameInv => ComputesTheSame
  <2> SUFFICES ASSUME SameInv PROVE ComputesTheSame
    OBVIOUS
  <2> DEFINE O == original.blocks
  <2>1. /\ Shape(kernel) /\ SSA(kernel) /\ Shape(original) /\ SSA(original) /\ O \subseteq kernel.blocks
        /\ IsGraph(original)
    BY DEF SameInv, ExtractionInv, DoesTheSame, Shape
  <2>2. PICK C : IsCopy(kernel, original, C) /\ \A p \in O : Follows(kernel, original, C, p)
    BY DEF SameInv, DoesTheSame
  <2>3. ASSUME NEW p \in O PROVE LeadsAsBefore(p)
    <3>1. PICK T, up, q, to, val : IsTree(kernel, original, p, T, up) /\ IsSides(kernel, original, p, T, q, to)
      BY <2>2 DEF Follows
    <3> QED
      BY <2>1, <3>1, LeadsIs
  <2>4. ASSUME NEW b \in O PROVE Cardinality(Phis(kernel, b)) = Cardinality(Phis(original, b))
    BY <2>1, <2>2, CopyCounts
  <2>5. \A v \in original.insts \cup {Const} : Meaning(kernel, C[v]) = Meaning(original, v)
    BY <2>1, <2>2, CopyMeans
  <2>6. \A i \in original.insts : \A x \in DOMAIN original.ops[i] : original.ops[i][x] \in original.insts \cup {Const}
    BY <2>1 DEF SSA, Operands
  <2>7. ASSUME NEW b \in O, NEW j \in Phis(kernel, b)
        PROVE  \E i \in Phis(original, b) : \A p \in Preds(original, b) :
                  Meaning(kernel, ValueFrom(p, b, j)) = Meaning(original, original.ops[i][p])
    <3>1. PICK i \in Phis(original, b) : C[i] = j
      BY <2>2 DEF IsCopy
    <3>2. i \in original.insts /\ original.kind[i] = "phi" /\ original.parent[i] = b
      BY DEF Phis
    <3>3. ASSUME NEW p \in Preds(original, b)
          PROVE  Meaning(kernel, ValueFrom(p, b, j)) = Meaning(original, original.ops[i][p])
      <4>1. p \in O /\ b \in Succs(original, p) /\ p \in DOMAIN original.ops[i]
        BY <2>1, <3>2 DEF Preds, SSA
      <4>2. PICK T, up, q, to, val :
               /\ IsTree(kernel, original, p, T, up)
               /\ IsValues(kernel, original, p, T, up, val)
               /\ \A m \in original.insts : original.kind[m] = "phi" /\ original.parent[m] \in Succs(original, p)
                                               => val[C[m]] = C[original.ops[m][p]]
        BY <2>2, <4>1 DEF Follows
      <4>3. ValueFrom(p, b, j) = val[j]
        BY <2>1, <4>1, <4>2, ValueIs
      <4>4. val[j] = C[original.ops[i][p]]
        BY <3>1, <3>2, <4>1, <4>2
      <4> QED
        BY <2>5, <2>6, <3>2, <4>1, <4>3, <4>4
    <3> QED
      BY <3>3
  <2>8. ASSUME NEW i \in original.insts, original.kind[i] # "phi", NEW x \in DOMAIN original.ops[i]
        PROVE  Meaning(kernel, kernel.ops[i][x]) = Meaning(original, original.ops[i][x])
    <3>1. kernel.ops[i][x] = C[original.ops[i][x]]
      BY <2>2, <2>8 DEF IsCopy
    <3> QED
      BY <2>5, <2>6, <3>1
  <2> QED
    BY <2>3, <2>4, <2>7, <2>8 DEF ComputesTheSame
<1> QED
  BY <1>1, InitSame, NextKeepsSame, PTL DEF Spec
=============================================================================
