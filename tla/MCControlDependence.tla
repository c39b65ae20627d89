------------------------- MODULE MCControlDependence --------------------------
(****************************************************************************)
(* Small instances for ControlDependence: every structured graph of NBlocks *)
(* blocks, and the smallest function with two returns.                      *)
(****************************************************************************)
EXTENDS ControlDependence, SmallKernels

CONSTANT NBlocks

TwoReturns == [blocks |-> 1..3, entry |-> 1, succ |-> <<<<2, 3>>, <<>>, <<>>>>]

MCFunctions == Graphs(NBlocks) \cup {TwoReturns}
=============================================================================
