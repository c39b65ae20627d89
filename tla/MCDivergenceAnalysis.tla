------------------------- MODULE MCDivergenceAnalysis -------------------------
(****************************************************************************)
(* Small instances for DivergenceAnalysis: every structured graph of        *)
(* NBlocks blocks with every choice of what its branches test, and one      *)
(* computation on the second id.                                            *)
(****************************************************************************)
EXTENDS DivergenceAnalysis, SmallKernels

CONSTANTS NBlocks,    \* blocks of each graph
          TidBlocks   \* the blocks whose computation may read the second id

Choices ==
    UNION {{<<g, c, t>> : c \in Conditions(g), t \in TidBlocks} : g \in Graphs(NBlocks)}

MCOptions ==
    {[pass |-> "sdda", coarsening |-> 0, vectorizing |-> 0],
     [pass |-> "sdda", coarsening |-> 1, vectorizing |-> 0],
     [pass |-> "sdda", coarsening |-> 1, vectorizing |-> 1],
     [pass |-> "mdda", coarsening |-> 0, vectorizing |-> 0]}

OneDirection == {o \in MCOptions : o.pass = "sdda" /\ o.vectorizing = 0}

(* A kernel with two returns, which the analyses can be run on as well: its *)
(* branch has no post-dominator.                                            *)
TwoReturns ==
    KernelOf([blocks |-> 1..3, entry |-> 1, succ |-> <<<<2, 3>>, <<>>, <<>>>>],
             [b \in {1} |-> T0], {2}, T1, FALSE)

MCKernels == {KernelOf(x[1], x[2], {x[3]}, T1, FALSE) : x \in Choices} \cup {TwoReturns}
=============================================================================
