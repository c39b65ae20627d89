-------------------------- MODULE MCThreadVectorizing --------------------------
(****************************************************************************)
(* Small instances for ThreadVectorizing: every structured graph of NBlocks *)
(* blocks; each branch tests an id or a uniform value, and some branch an   *)
(* id; computations in the blocks BodyBlocks; and, for each such kernel,    *)
(* one with a store of what is known at its end, and one with a store of an *)
(* id there.                                                                *)
(****************************************************************************)
EXTENDS ThreadVectorizing, SmallKernels

CONSTANTS NBlocks, BodyBlocks

WithStore(x) == Reading(KernelOf(x[1], x[2], BodyBlocks, T0, TRUE), BodyBlocks)

StoringId(k) == [k EXCEPT !.ops[Store] = <<T0, Uniform>>]

MCKernels ==
    LET K == {k \in {WithStore(x) :
                     x \in {y \in GraphsAndTests(NBlocks) : \E b \in Splits(y[1]) : y[2][b] = T0}} :
                 Plain(k, Direction)}
    IN  K \cup {StoringId(k) : k \in K}

MCScattered == {Store}
=============================================================================
