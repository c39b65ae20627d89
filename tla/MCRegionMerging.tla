--------------------------- MODULE MCRegionMerging ---------------------------
(****************************************************************************)
(* Small instances for RegionMerging, see MCThreadCoarsening.               *)
(****************************************************************************)
EXTENDS RegionMerging, SmallKernels

CONSTANTS NBlocks, BodyBlocks

(* As clang -O0 makes them but for && and ||: a join of two blocks ends     *)
(* each statement, and a block of its own leads to each loop.               *)
Stated(k) ==
    /\ \A b \in k.blocks : Cardinality(Preds(k, b)) <= 2
    /\ \A b \in k.blocks : Len(k.succ[b]) = 2 /\ ~IsLoopHeader(k, b) =>
          \A c \in Succs(k, b) : ~IsLoopHeader(k, c)

(* The store takes only what nothing else reads, so no phi goes unused:     *)
(* mem2reg makes none that does.                                            *)
StoringTheRest(k) ==
    LET rest == {o \in Operands(k, Store) : Users(k, o) = {Store}}
    IN  [k EXCEPT !.ops[Store] = [x \in rest |-> x]]

UsedPhis(k) == \A i \in k.insts : k.kind[i] = "phi" => Users(k, i) # {}

(* With and without the rest only, and with counters in the loops.          *)
MCKernels ==
    LET all   == {Reading(KernelOf(x[1], x[2], BodyBlocks, T0, TRUE), BodyBlocks) :
                     x \in {y \in GraphsAndTests(NBlocks) : Stated(y[1])}}
        plain == {k \in all \cup {StoringTheRest(k) : k \in all} : UsedPhis(k) /\ Plain(k, Direction)}
    IN  plain \cup {Counting(k) : k \in {j \in plain : \E h \in j.blocks : IsLoopHeader(j, h)}}
=============================================================================
