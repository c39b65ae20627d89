-------------------------- MODULE MCThreadCoarsening --------------------------
(****************************************************************************)
(* Small instances for ThreadCoarsening: every structured graph of NBlocks  *)
(* blocks; each branch tests an id, one of them perhaps the uniform value;  *)
(* computations in the blocks BodyBlocks, which read an id and the phis     *)
(* that are known there.                                                    *)
(****************************************************************************)
EXTENDS ThreadCoarsening, SmallKernels

CONSTANTS NBlocks, BodyBlocks,
          Stores,     \* whether what is known at the end is stored there
          SecondCall  \* whether the last of the computations is a second call
                      \* of get_global_id instead

Tested(n) ==
    {x \in GraphsAndTests(n) : Cardinality({b \in DOMAIN x[2] : x[2][b] = Uniform}) <= 1}

KernelsWith(T, bodies) ==
    {k \in {Reading(KernelOf(x[1], x[2], bodies, T0, Stores), bodies) : x \in T} : Plain(k, Direction)}

LateId(k) ==
    LET b == CHOOSE b \in BodyBlocks : \A a \in BodyBlocks : a <= b
    IN  [k EXCEPT !.tids[0] = @ \cup {Body(b)}, !.ops[Body(b)] = <<>>]

(* With computations in all of BodyBlocks or in none (without them more     *)
(* values are the same for all threads), and with counters in the loops.    *)
MCKernels ==
    LET T == Tested(NBlocks)
        P == KernelsWith(T, BodyBlocks)
    IN  IF SecondCall THEN {LateId(k) : k \in P}
        ELSE P \cup KernelsWith(T, {}) \cup
             {Counting(k) : k \in {j \in P : \E h \in j.blocks : IsLoopHeader(j, h)}}
=============================================================================
