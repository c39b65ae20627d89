--------------------------------- MODULE Cfg ---------------------------------
(****************************************************************************)
(* Control-flow graphs of a kernel and the facts about them that every pass *)
(* of the repository asks LLVM for: dominance, post-dominance, natural      *)
(* loops, and the blocks of a single-entry region.                          *)
(*                                                                          *)
(* A graph g is a record with at least                                      *)
(*   g.blocks   the basic blocks, positive integers                         *)
(*   g.entry    the entry block                                             *)
(*   g.succ     for each block the sequence of its successors (empty for a  *)
(*              return, one for an unconditional branch, two for a          *)
(*              conditional one)                                            *)
(* so a kernel (module Kernel) is a graph too.                              *)
(****************************************************************************)
EXTENDS Integers, Sequences, FiniteSets

(* The NULL BasicBlock: PostDominatorTree hands it out for the virtual root *)
(* that joins several returns.                                              *)
NoBlock == 0

Succs(g, b) == {g.succ[b][i] : i \in DOMAIN g.succ[b]}

(* What LLVM's verifier admits as the body of a function.                   *)
IsGraph(g) ==
    /\ IsFiniteSet(g.blocks)
    /\ NoBlock \notin g.blocks
    /\ g.entry \in g.blocks
    /\ \A b \in g.blocks : Succs(g, b) \subseteq g.blocks

Preds(g, b) == {p \in g.blocks : b \in Succs(g, p)}

Exits(g) == {b \in g.blocks : g.succ[b] = <<>>}

(* The blocks reachable from the set S along paths that avoid the set A.    *)
ReachAvoid(g, S, A) ==
    LET n == Cardinality(g.blocks)
        Within[i \in 0..n] ==
            IF i = 0 THEN S \ A
            ELSE UNION {({b} \cup Succs(g, b)) \ A : b \in Within[i - 1]}
    IN  Within[n]

(* From every block a return can be reached: the blocks that have a node in *)
(* a PostDominatorTree.                                                     *)
MayReturn(g) == \A b \in g.blocks : Exits(g) \cap ReachAvoid(g, {b}, {}) # {}

----------------------------------------------------------------------------
(* Dominators and post-dominators. *)

Dominates(g, a, b) == b \notin ReachAvoid(g, {g.entry}, {a})

PostDominates(g, a, b) == Exits(g) \cap ReachAvoid(g, {b}, {a}) = {}

(* Utils.cpp findImmediatePostDom: the parent of b in the post-dominator    *)
(* tree, NoBlock when that parent is the virtual root.                      *)
ImmPostDom(g, b) ==
    LET P == {p \in g.blocks \ {b} : PostDominates(g, p, b)}
    IN  IF P = {} THEN NoBlock
        ELSE CHOOSE p \in P : \A q \in P : PostDominates(g, q, p)

(* The PostDominatorTree a pass is handed: the parent of every block, as of *)
(* the moment the tree was built.                                           *)
PostDomTree(g) == [b \in g.blocks |-> ImmPostDom(g, b)]

----------------------------------------------------------------------------
(* Natural loops, identified by their header as LoopInfo does. *)

Latches(g, h) == {b \in Preds(g, h) : Dominates(g, h, b)}

IsLoopHeader(g, b) == Latches(g, b) # {}

LoopBlocks(g, h) ==
    {h} \cup {b \in g.blocks : /\ Dominates(g, h, b)
                               /\ ReachAvoid(g, {b}, {h}) \cap Latches(g, h) # {}}

(* The header of the innermost loop around b, NoBlock outside all loops.    *)
LoopFor(g, b) ==
    LET H == {h \in g.blocks : IsLoopHeader(g, h) /\ b \in LoopBlocks(g, h)}
    IN  IF H = {} THEN NoBlock
        ELSE CHOOSE h \in H : \A o \in H : LoopBlocks(g, h) \subseteq LoopBlocks(g, o)

(* The LoopInfo a pass is handed: the innermost loop of every block. *)
LoopForest(g) == [b \in g.blocks \cup {NoBlock} |-> LoopFor(g, b)]

(* Loop::getExitBlock of the loop with blocks L: the target of the only     *)
(* edge that leaves it, NULL when several edges do.                         *)
ExitBlock(g, L) ==
    LET edges == {e \in L \X (g.blocks \ L) : e[2] \in Succs(g, e[1])}
    IN  IF Cardinality(edges) = 1 THEN (CHOOSE e \in edges : TRUE)[2] ELSE NoBlock

LoopExitBlock(g, h) == ExitBlock(g, LoopBlocks(g, h))

(* Loop::getLoopPredecessor: the only block outside the loop that enters    *)
(* its header.                                                              *)
LoopPredecessor(g, h) ==
    LET P == Preds(g, h) \ LoopBlocks(g, h)
    IN  IF Cardinality(P) = 1 THEN CHOOSE p \in P : TRUE ELSE NoBlock

----------------------------------------------------------------------------
(* Regions: a header, an exiting block, and what a traversal from the       *)
(* header that does not go past the exiting block meets. The order of the   *)
(* traversal is RegionBounds' business; what it collects is this set.       *)

(* A fault: the traversal goes on past the exiting block.                   *)
ListReachable(g, header, exiting) ==
    IF header = exiting THEN {header} ELSE ReachAvoid(g, {header}, {})

ListBlocks(g, header, exiting) ==
    IF header = exiting THEN {header}
    ELSE ReachAvoid(g, {header}, {exiting}) \cup {exiting}

(* BasicBlock::getSinglePredecessor *)
SinglePredecessor(g, b) ==
    IF Cardinality(Preds(g, b)) = 1 THEN CHOOSE p \in Preds(g, b) : TRUE ELSE NoBlock

(* DivergentRegion.cpp getPredecessor: the single predecessor of the header *)
(* or, when there is none, the block that enters its loop.                  *)
RegionPredecessor(g, header) ==
    IF SinglePredecessor(g, header) # NoBlock THEN SinglePredecessor(g, header)
    ELSE IF LoopFor(g, header) = NoBlock THEN NoBlock
    ELSE LoopPredecessor(g, LoopFor(g, header))

----------------------------------------------------------------------------
(* What -structurize-cfg followed by -simplifycfg hands to the passes (see  *)
(* the pictures in StructurizeCFG.h): no switch, one return, no dead block, *)
(* every loop entered at its header only, with one back edge and one edge   *)
(* out of it, and everything between a two-way branch and its immediate     *)
(* post-dominator entered through that branch. Besides, every loop is       *)
(* entered from a single block, which DivergentRegion.cpp getPredecessor    *)
(* asserts of the loops it meets and -simplifycfg alone would not promise.  *)

EnclosingHeaders(g, b) ==
    {h \in g.blocks : IsLoopHeader(g, h) /\ b \in LoopBlocks(g, h)}

(* The blocks a branch decides about: those met before its join, within the *)
(* current iteration of the loops around it.                                *)
Decides(g, b) ==
    ReachAvoid(g, Succs(g, b), {ImmPostDom(g, b)} \cup EnclosingHeaders(g, b))

(* The two ways from the branch at the end of b meet in j, before either    *)
(* begins another iteration of a loop around b: both sides lead to j, and   *)
(* no single block other than j separates it from both of them.             *)
MeetIn(g, b, j) ==
    LET around == EnclosingHeaders(g, b) \ {j}
    IN  /\ Len(g.succ[b]) = 2
        /\ \A s \in Succs(g, b) : j \in ReachAvoid(g, {s}, {b} \cup around)
        /\ \A c \in g.blocks \ {b, j} : j \in ReachAvoid(g, Succs(g, b), {b, c} \cup around)

WithoutBackEdges(g) ==
    [g EXCEPT !.succ = [b \in g.blocks |->
        [x \in {y \in DOMAIN g.succ[b] : ~Dominates(g, g.succ[b][y], b)} |-> g.succ[b][x]]]]

Structured(g) ==
    /\ g.succ \in [g.blocks -> Seq(g.blocks)]
    /\ \A b \in g.blocks : Len(g.succ[b]) <= 2
    /\ Preds(g, g.entry) = {}
    /\ Cardinality(Exits(g)) = 1
    /\ ReachAvoid(g, {g.entry}, {}) = g.blocks
    /\ MayReturn(g)
    /\ \A b \in g.blocks :
          LET f == WithoutBackEdges(g)
          IN  b \notin ReachAvoid(f, Succs(f, b), {})
    /\ \A h \in {b \in g.blocks : IsLoopHeader(g, b)} :
          /\ Cardinality(Latches(g, h)) = 1
          /\ LoopExitBlock(g, h) # NoBlock
          /\ LoopPredecessor(g, h) # NoBlock
    /\ \A b \in g.blocks : Len(g.succ[b]) = 2 =>
          \A c \in Decides(g, b) : Dominates(g, b, c)
=============================================================================
