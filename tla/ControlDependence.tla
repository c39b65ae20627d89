--------------------------- MODULE ControlDependence ---------------------------
(****************************************************************************)
(* lib/Passes/ControlDependenceAnalysis.cpp: which blocks decide whether    *)
(* another one runs, after Ferrante et al. For each edge out of a branch    *)
(* the post-dominator tree tells the blocks that depend on it; the graph of *)
(* these dependences is then closed in place, block by block, and reversed. *)
(*                                                                          *)
(* The maps are ordered by the addresses of the blocks and so is the        *)
(* worklist: the closure takes the blocks in any order.                     *)
(****************************************************************************)
EXTENDS Cfg

CONSTANT Functions  \* the graphs of the functions the pass may be run on

(* Functions as LLVM's verifier admits them, their blocks numbered in the   *)
(* order of the function. A block from which no return can be reached has   *)
(* no node in the PostDominatorTree, and the pass asks for every block's.   *)
ASSUME FunctionsAssumption ==
    \A f \in Functions :
        /\ IsGraph(f)
        /\ f.blocks = 1..Cardinality(f.blocks)
        /\ f.succ \in [f.blocks -> Seq(f.blocks)]
        /\ MayReturn(f)

VARIABLES
    function,       \* the graph
    s,              \* the edges to a block that does not post-dominate
    ls,             \* for each, the nearest common post-dominator
    forwardGraph,   \* the blocks each block controls
    backwardGraph,  \* the blocks each block depends on
    pc,
    toClose,        \* blocks whose entries are still to be closed
    block,          \* the one whose entry is being closed
    worklist,       \* of its traversal
    result          \* what the traversal met

vars == <<function, s, ls, forwardGraph, backwardGraph, pc, toClose, block, worklist, result>>

Init ==
    /\ function \in Functions
    /\ s = <<>> /\ ls = <<>>
    /\ forwardGraph = [b \in {} |-> {}]
    /\ backwardGraph = [b \in {} |-> {}]
    /\ pc = "findS"
    /\ toClose = {} /\ block = NoBlock /\ worklist = {} /\ result = {}

----------------------------------------------------------------------------
(* findS: two loops, over the blocks and over the successors of each.       *)

EdgesOf(b) ==
    LET UpTo[i \in 0..Len(function.succ[b])] ==
            IF i = 0 THEN <<>>
            ELSE IF PostDominates(function, function.succ[b][i], b) THEN UpTo[i - 1]
            ELSE Append(UpTo[i - 1], <<b, function.succ[b][i]>>)
    IN  UpTo[Len(function.succ[b])]

Edges ==
    LET UpTo[b \in 0..Cardinality(function.blocks)] ==
            IF b = 0 THEN <<>> ELSE UpTo[b - 1] \o EdgesOf(b)
    IN  UpTo[Cardinality(function.blocks)]

FindS ==
    /\ pc = "findS"
    /\ s' = Edges
    /\ pc' = "findLs"
    /\ UNCHANGED <<function, ls, forwardGraph, backwardGraph, toClose, block, worklist, result>>

(* PostDominatorTree::findNearestCommonDominator *)
NearestCommon(a, b) ==
    LET P == {p \in function.blocks : PostDominates(function, p, a) /\ PostDominates(function, p, b)}
    IN  IF P = {} THEN NoBlock ELSE CHOOSE p \in P : \A q \in P : PostDominates(function, q, p)

FindLs ==
    /\ pc = "findLs"
    /\ \A i \in DOMAIN s : NearestCommon(s[i][1], s[i][2]) # NoBlock
    /\ ls' = [i \in DOMAIN s |-> NearestCommon(s[i][1], s[i][2])]
    /\ pc' = "buildGraph"
    /\ UNCHANGED <<function, s, forwardGraph, backwardGraph, toClose, block, worklist, result>>

(* "Ill-formatted function": only the virtual root is common.               *)
Abort ==
    /\ pc = "findLs"
    /\ \E i \in DOMAIN s : NearestCommon(s[i][1], s[i][2]) = NoBlock
    /\ pc' = "aborted"
    /\ UNCHANGED <<function, s, ls, forwardGraph, backwardGraph, toClose, block, worklist, result>>

----------------------------------------------------------------------------
(* buildGraph and fillGraph. *)

(* A fault: the last block of the walk is taken along.                      *)
BetweenInclusive(b, end) ==
    {c \in function.blocks : PostDominates(function, c, b) /\ PostDominates(function, end, c)}

(* The walk up the tree from b that ends before block `end', or goes on to  *)
(* the virtual root when that is none.                                      *)
Between(b, end) ==
    {c \in function.blocks \ {end} :
        PostDominates(function, c, b) /\ (end = NoBlock \/ PostDominates(function, end, c))}

(* A fault: a loop is not thought of. *)
ChildrenOfForwardEdge(a, b, l) ==
    IF l = ImmPostDom(function, a) THEN Between(b, l) ELSE {}

Children(a, b, l) ==
    (IF l = ImmPostDom(function, a) THEN Between(b, l) ELSE {})
    \cup (IF l = a THEN Between(b, ImmPostDom(function, a)) ELSE {})

(* std::map::insert leaves an entry that is there as it is: of two edges    *)
(* out of one block the first counts.                                       *)
FirstEdge(a) == CHOOSE i \in DOMAIN s : s[i][1] = a /\ \A j \in 1..(i - 1) : s[j][1] # a

Direct(a) ==
    IF \E i \in DOMAIN s : s[i][1] = a
    THEN LET i == FirstEdge(a) IN Children(a, s[i][2], ls[i])
    ELSE {}

BuildGraph ==
    /\ pc = "buildGraph"
    /\ forwardGraph' = [a \in function.blocks |-> Direct(a)]
    /\ toClose' = function.blocks
    /\ pc' = "transitiveClosure"
    /\ UNCHANGED <<function, s, ls, backwardGraph, block, worklist, result>>

----------------------------------------------------------------------------
(* transitiveClosure. *)

StartTraversal(b) ==
    /\ pc = "transitiveClosure"
    /\ block = NoBlock
    /\ b \in toClose
    /\ block' = b
    /\ worklist' = forwardGraph[b]
    /\ result' = {}
    /\ toClose' = toClose \ {b}
    /\ UNCHANGED <<function, s, ls, forwardGraph, backwardGraph, pc>>

(* Faults: children already met are queued again; only those are followed   *)
(* that still have to be closed themselves.                                 *)
AllChildren(current) == forwardGraph[current]

NewChildrenToClose(current) ==
    IF current \in toClose THEN forwardGraph[current] \ (result \cup {current}) ELSE {}

NewChildren(current) == forwardGraph[current] \ (result \cup {current})

Traverse(current) ==
    /\ current \in worklist
    /\ worklist' = (worklist \ {current}) \cup NewChildren(current)
    /\ result' = result \cup {current}
    /\ UNCHANGED <<function, s, ls, forwardGraph, backwardGraph, pc, toClose, block>>

EndTraversal ==
    /\ block # NoBlock
    /\ worklist = {}
    /\ forwardGraph' = [forwardGraph EXCEPT ![block] = result]
    /\ block' = NoBlock
    /\ result' = {}
    /\ UNCHANGED <<function, s, ls, backwardGraph, pc, toClose, worklist>>

Backward(b) == {a \in function.blocks \ {b} : b \in forwardGraph[a]}

BuildBackwardGraph ==
    /\ pc = "transitiveClosure"
    /\ block = NoBlock /\ toClose = {}
    /\ backwardGraph' = [b \in function.blocks |-> Backward(b)]
    /\ pc' = "done"
    /\ UNCHANGED <<function, s, ls, forwardGraph, toClose, block, worklist, result>>

Terminated == pc \in {"done", "aborted"} /\ UNCHANGED vars

Next ==
    \/ FindS
    \/ FindLs
    \/ Abort
    \/ BuildGraph
    \/ \E b \in toClose : StartTraversal(b)
    \/ \E current \in worklist : Traverse(current)
    \/ EndTraversal
    \/ BuildBackwardGraph
    \/ Terminated

Spec == Init /\ [][Next]_vars /\ WF_vars(Next)

----------------------------------------------------------------------------
(* The queries. *)

dependsOn(first, second) == second \in backwardGraph[first]

controls(first, second) == second \in forwardGraph[first]

----------------------------------------------------------------------------
(* Ferrante's definition: b depends on a when it is sure to run once one of *)
(* the ways out of a was taken, and not sure before.                        *)

ControlDependent(b, a) ==
    /\ \E c \in Succs(function, a) : PostDominates(function, b, c)
    /\ b = a \/ ~PostDominates(function, b, a)

(* The blocks that can be reached from a along the relation D.              *)
Chain(D(_), a) ==
    LET Reached[n \in 0..Cardinality(function.blocks)] ==
            IF n = 0 THEN D(a)
            ELSE LET R == Reached[n - 1] IN R \cup UNION {D(c) : c \in R}
    IN  Reached[Cardinality(function.blocks)]

Controlled(a) == {b \in function.blocks : ControlDependent(b, a)}

OneEdge == \A i, j \in DOMAIN s : i # j => s[i][1] # s[j][1]

----------------------------------------------------------------------------
(* Properties. *)

(* What the walks over the tree put into the entries, followed further.     *)
IsClosed(S) == \A c \in S : Direct(c) \subseteq S

(* Closing the entries in place, each on top of the closed and the open     *)
(* entries of others, gives what the transitive closure is: for each block  *)
(* the least set that holds what it controls directly, and with a block     *)
(* what that one controls directly, whatever the order of the blocks and of *)
(* each traversal.                                                          *)
ClosedInAnyOrder ==
    pc = "done" => \A a \in function.blocks :
        /\ Direct(a) \subseteq forwardGraph[a]
        /\ IsClosed(forwardGraph[a])
        /\ \A S \in SUBSET forwardGraph[a] :
              Direct(a) \subseteq S /\ IsClosed(S) => S = forwardGraph[a]

(* No block is said to control, or another to depend on it, that does not,  *)
(* through whatever chain of branches.                                      *)
NothingInvented ==
    pc = "done" => \A a, b \in function.blocks :
        controls(a, b) \/ dependsOn(b, a) => b \in Chain(Controlled, a)

(* Where no branch has both edges in s (an if with an else has: Ferrante et *)
(* al. count both), nothing is missing either, but for a block that         *)
(* branches to itself, since it post-dominates itself in the tree.          *)
NothingMissed ==
    (pc = "done" /\ OneEdge) => \A a \in function.blocks : \A b \in Chain(Controlled, a) :
        /\ controls(a, b) \/ (a = b /\ a \in Succs(function, a))
        /\ dependsOn(b, a) \/ a = b

(* The abstract specification each traversal implements: what it met and    *)
(* has queued spreads along the entries as they are, closed ones among      *)
(* them, and becomes the entry of its block once it is complete.            *)
Spread ==
    INSTANCE Spreading WITH
        stage <- IF pc = "aborted" THEN "failed"
                 ELSE IF block # NoBlock THEN "spreading" ELSE "idle",
        edges <- forwardGraph,
        seeds <- IF block = NoBlock THEN {} ELSE forwardGraph[block],
        known <- worklist \cup result

EntriesSpread == Spread!Spec
=============================================================================
