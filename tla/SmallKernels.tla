----------------------------- MODULE SmallKernels -----------------------------
(****************************************************************************)
(* Small kernels to run the passes on: the structured graphs of a few       *)
(* blocks, with the instructions in them that the passes tell apart.        *)
(****************************************************************************)
EXTENDS Kernel

(* The structured graphs of n blocks, up to the numbering of the blocks:    *)
(* forward edges go up, and the last block returns. The two edges of a      *)
(* branch are in one order only; merging, which tells them apart, is run    *)
(* for either side.                                                         *)
Graphs(n) ==
    {g \in {[blocks |-> 1..n, entry |-> 1, succ |-> [b \in 1..n |-> IF b = n THEN <<>> ELSE f[b]]] :
            f \in [1..(n - 1) -> {<<b>> : b \in 2..n} \cup
                                 {p \in (2..n) \X (2..n) : p[1] < p[2]}]} :
        /\ \A b \in g.blocks : \A c \in Succs(g, b) : b < c \/ Dominates(g, c, b)
        /\ Structured(g)}

Joins(g) == {b \in g.blocks : Cardinality(Preds(g, b)) > 1}

Splits(g) == {b \in g.blocks : Len(g.succ[b]) = 2}

(* The instructions of a generated kernel: the ids of two directions and a  *)
(* value that is the same for all threads, in the entry; a phi in each      *)
(* join; a branch where the graph has one; in some blocks a computation,    *)
(* which reaches the phis of the blocks that follow; and at the end,        *)
(* perhaps, a store of all that is known there.                             *)
T0 == Gap
T1 == 2 * Gap
Uniform == 3 * Gap
PhiOf(b) == (10 + b) * Gap
Body(b) == (20 + b) * Gap
Br(b) == (30 + b) * Gap
Store == 40 * Gap

(* What each branch may test: an id, the uniform value, or the phi of a     *)
(* join that dominates it.                                                  *)
Conditions(g) ==
    {c \in [Splits(g) -> {T0, Uniform} \cup {PhiOf(b) : b \in Joins(g)}] :
        \A b \in Splits(g) : \A j \in Joins(g) : c[b] = PhiOf(j) => Dominates(g, j, b)}

(* bodies: the blocks with a computation, which reads id (and the block's   *)
(* own phi, if it has one); stores: whether there is a store.               *)
KernelOf(g, cond, bodies, id, stores) ==
    LET phis  == {PhiOf(b) : b \in Joins(g)}
        brs   == {Br(b) : b \in Splits(g)}
        comps == {Body(b) : b \in bodies}
        insts == {T0, T1, Uniform} \cup comps \cup phis \cup brs \cup
                 (IF stores THEN {Store} ELSE {})
        last  == CHOOSE b \in g.blocks : g.succ[b] = <<>>
        block == [i \in insts |-> CASE i < 10 * Gap -> g.entry
                                    [] i = Store    -> last
                                    [] OTHER        -> (i \div Gap) % 10]
        known == {i \in phis \cup comps : Dominates(g, block[i], last)}
        Ops(i) == CASE i < 10 * Gap -> <<>>
                    [] i \in brs    -> <<cond[block[i]]>>
                    [] i \in phis   -> [p \in Preds(g, block[i]) |->
                                           IF p \in bodies THEN Body(p) ELSE Const]
                    [] i \in comps  -> IF PhiOf(block[i]) \in phis
                                       THEN <<id, PhiOf(block[i])>> ELSE <<id>>
                    [] i = Store    -> [x \in known |-> x]
    IN  [blocks |-> g.blocks, entry |-> g.entry, succ |-> g.succ,
         insts  |-> insts, parent |-> block,
         kind   |-> [i \in insts |-> IF i \in phis THEN "phi" ELSE IF i \in brs THEN "br" ELSE "inst"],
         ops    |-> [i \in insts |-> Ops(i)],
         tids   |-> [dir \in 0..2 |-> CASE dir = 0 -> {T0} [] dir = 1 -> {T1} [] dir = 2 -> {}]]

(* Choices of a graph and of what its branches test. *)
GraphsAndTests(n) == UNION {{<<g, c>> : c \in [Splits(g) -> {T0, Uniform}]} : g \in Graphs(n)}

(* A computation reads an id, the uniform value and the phis and other      *)
(* computations that dominate it.                                           *)
Reading(k, bodies) ==
    LET values == {p \in k.insts : k.kind[p] = "phi" \/ \E b \in bodies : p = Body(b)}
        Read(i) == {T0, Uniform} \cup {p \in values \ {i} : Dominates(k, k.parent[p], k.parent[i])}
    IN  [k EXCEPT !.ops = [i \in k.insts |->
            IF \E b \in bodies : i = Body(b) THEN [x \in Read(i) |-> x] ELSE k.ops[i]]]

(* With a counter in each loop, a second phi of its header that the last    *)
(* block of the loop adds to: it is the same for all threads in each        *)
(* iteration. What the loop computes reads it, and what is outside of the   *)
(* loop reads what the loop computes through phis only.                     *)
Counter(h) == (50 + h) * Gap
Step(h) == (60 + h) * Gap

Counting(k) ==
    LET headers  == {h \in k.blocks : IsLoopHeader(k, h)}
        counters == {Counter(h) : h \in headers}
        steps    == {Step(h) : h \in headers}
        insts    == k.insts \cup counters \cup steps
        Header(i) == (i \div Gap) % 10
        Parent(i) == CASE i \in counters -> Header(i)
                       [] i \in steps    -> CHOOSE b \in Latches(k, Header(i)) : TRUE
                       [] OTHER          -> k.parent[i]
        Around(b) == {h \in headers : b \in LoopBlocks(k, h)}
        Read(i) == {o \in {k.ops[i][x] : x \in DOMAIN k.ops[i]} : Around(Parent(o)) \subseteq Around(Parent(i))}
                      \cup (IF i = Store THEN {} ELSE {Counter(h) : h \in Around(Parent(i))})
        Ops(i) == CASE i \in counters -> [p \in Preds(k, Header(i)) |->
                                             IF Header(i) \in Around(p) THEN Step(Header(i)) ELSE Const]
                    [] i \in steps    -> <<Counter(Header(i))>>
                    [] i \in k.insts /\ k.kind[i] = "inst" /\ i \notin k.tids[0] \cup k.tids[1] ->
                          [o \in Read(i) |-> o]
                    [] OTHER          -> k.ops[i]
    IN  [k EXCEPT !.insts  = insts,
                  !.parent = [i \in insts |-> Parent(i)],
                  !.kind   = [i \in insts |-> CASE i \in counters -> "phi" [] i \in steps -> "inst" [] OTHER -> k.kind[i]],
                  !.ops    = [i \in insts |-> Ops(i)]]

(* Without the loops that the analysis and branch extraction mishandle.     *)
Plain(k, dir) ==
    \A b \in DivergentBlocks(k, dir) : ~LeavesLoopInTheMiddle(k, b) /\ ~MeetsInLoopHeader(k, b)
=============================================================================
