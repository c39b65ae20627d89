--------------------------- MODULE FeatureExtraction ---------------------------
(****************************************************************************)
(* lib/Passes/FeatureExtraction.cpp and LoopFeatureExtraction.cpp, with     *)
(* FeatureCollector.cpp, ILPComputation.cpp and MLPComputation.cpp: the     *)
(* numbers about a kernel that a model of its performance is trained on.    *)
(* opencl-instcount visits every block; opencl-loop-instcount, those that   *)
(* lie in loops.                                                            *)
(*                                                                          *)
(* A kernel has in addition                                                 *)
(*   k.loads      the loads among its instructions                          *)
(*   k.valueName  the names of its instructions and blocks, as numbers in   *)
(*   k.blockName  the order of the strings; 0 is the empty name             *)
(* An average is kept as the sequence of what it is taken over. Counters of *)
(* opcodes, constants, calls, address spaces and the edges of each block    *)
(* differ from the one of instructions only in what they look for, and are  *)
(* left out.                                                                *)
(****************************************************************************)
EXTENDS Kernel, FiniteSetsExt, TLC

CONSTANTS Kernels,
          Extractors,  \* of "opencl-instcount" and "opencl-loop-instcount"
          Directions,  \* what -coarsening-direction may be
          MaxWalked    \* a bound: a walk this long is taken not to end

ASSUME ExtractorsAssumption ==
    Extractors \subseteq {"opencl-instcount", "opencl-loop-instcount"}

(* A function begins with its entry block; all its blocks are reached; its  *)
(* values are in SSA form.                                                  *)
ASSUME KernelsAssumption ==
    \A k \in Kernels :
        /\ IsGraph(k) /\ ReachAvoid(k, {k.entry}, {}) = k.blocks
        /\ k.blocks \subseteq Nat
        /\ \A b \in k.blocks : k.entry <= b
        /\ IsFiniteSet(k.insts) /\ k.insts \subseteq Nat \ {Const}
        /\ k.parent \in [k.insts -> k.blocks]
        /\ k.kind \in [k.insts -> {"phi", "inst", "br"}]
        /\ SSA(k)
        /\ AllTids(k) \subseteq k.insts
        /\ Directions \subseteq DOMAIN k.tids
        /\ k.loads \subseteq {i \in k.insts : k.kind[i] = "inst"}

VARIABLES
    kernel,
    extractor,
    loopInfo,  \* the loops it was handed
    sdda,      \* the divergent instructions SingleDimDivAnalysis found
    mdda,      \* those MultiDimDivAnalysis found, and the regions
    pc,
    block,     \* the block being visited
    intervals, \* for getMLP: the load-use pairs of the block still to measure
    walk,      \* the one being measured, and getRegionBlocks' stack and result
    distances, \* those measured
    collector  \* the features

vars == <<kernel, extractor, loopInfo, sdda, mdda, pc, block, intervals, walk, distances, collector>>

input == <<kernel, extractor, loopInfo, sdda, mdda>>

None == [load |-> 0, user |-> 0, from |-> NoBlock, stack |-> <<>>, walked |-> <<>>]

Empty ==
    [insts |-> 0, blocks |-> 0, loads |-> 0, edges |-> 0, criticalEdges |-> 0,
     condBranches |-> 0, uncondBranches |-> 0,
     divRegions |-> 0, divInsts |-> 0, divRegionInsts |-> 0, uniformLoads |-> 0,
     blockInsts |-> <<>>, blockILP |-> <<>>, blockMLP |-> <<>>,
     avgLiveRange |-> <<>>, aliveOutBlocks |-> <<>>,
     blockPhis |-> [n \in {} |-> <<>>], phiArgs |-> [n \in {} |-> 0], phiArgSums |-> <<>>]

Init ==
    /\ kernel \in Kernels
    /\ extractor \in Extractors
    /\ loopInfo = LoopForest(kernel)
    /\ LET pdt == PostDomTree(kernel)
           ids == AllTids(kernel)
           all == Dependents(kernel, pdt, ids)
       IN  /\ \E d \in Directions : sdda = Dependents(kernel, pdt, TidsIn(kernel, d))
           /\ mdda = [insts   |-> all,
                      regions |-> {BranchRegion(kernel, pdt, loopInfo, i) :
                                      i \in {j \in all : kernel.kind[j] = "br"}}]
    /\ pc = "function"
    /\ block = kernel.entry
    /\ intervals = {}
    /\ walk = None
    /\ distances = <<>>
    /\ collector = Empty

----------------------------------------------------------------------------

IsInLoop(b) == loopInfo[b] # NoBlock

(* The members of a set of numbers in their order.                          *)
Sorted(N) == [n \in 1..Cardinality(N) |-> CHOOSE x \in N : Quantify(N, LAMBDA y : y <= x) = n]

(* The blocks the extractor looks at. *)
VisitedBlocks ==
    {b \in kernel.blocks : extractor = "opencl-loop-instcount" => IsInLoop(b)}

(* BasicBlock::size: the branch that ends a block counts, conditional or    *)
(* not.                                                                     *)
Size(k, b) == Cardinality(Insts(k, b)) + (IF Len(k.succ[b]) = 2 THEN 0 ELSE 1)

(* i stands before j in their block: a phi too, before another one that it  *)
(* is evaluated together with.                                              *)
Precedes(k, i, j) ==
    Before(k, i, j) \/ (k.kind[i] = "phi" /\ k.kind[j] = "phi" /\ i < j)

Position(k, i) == Quantify(Insts(k, k.parent[i]), LAMBDA j : Precedes(k, j, i))

Edges(k, blocks) == {e \in blocks \X k.blocks : e[2] \in Succs(k, e[1])}

(* llvm::isCriticalEdge *)
IsCriticalEdge(k, e) == Len(k.succ[e[1]]) > 1 /\ Cardinality(Preds(k, e[2])) > 1

(* With their forms for loops, by which a region lies in a loop if its      *)
(* header does.                                                             *)
countBranches(c) ==
    [c EXCEPT
      !.condBranches   = Quantify(VisitedBlocks, LAMBDA b : Len(kernel.succ[b]) = 2),
      !.uncondBranches = Quantify(VisitedBlocks, LAMBDA b : Len(kernel.succ[b]) = 1)]

countEdges(c) ==
    [c EXCEPT
      !.edges         = Cardinality(Edges(kernel, VisitedBlocks)),
      !.criticalEdges = Quantify(Edges(kernel, VisitedBlocks), LAMBDA e : IsCriticalEdge(kernel, e))]

countDivInsts(c) ==
    LET regions == {r \in mdda.regions : r.header \in VisitedBlocks}
        Seen(i) == kernel.parent[i] \in VisitedBlocks
    IN  [c EXCEPT
          !.divRegions     = Cardinality(regions),
          !.divRegionInsts = MapThenSumSet(
              LAMBDA r : MapThenSumSet(LAMBDA b : Size(kernel, b), r.blocks), regions),
          !.divInsts       = Quantify(mdda.insts, Seen),
          !.uniformLoads   = Quantify(kernel.loads \ sdda, Seen)]

(* visitFunction *)
VisitFunction ==
    /\ pc = "function"
    /\ collector' = countDivInsts(countEdges(countBranches(collector)))
    /\ pc' = "block"
    /\ UNCHANGED <<input, block, intervals, walk, distances>>

----------------------------------------------------------------------------
(* getILP: an instruction is one deeper than its operands in the block. The *)
(* depths are computed in the order of the block, and a missing one is 0.   *)

(* A fault: the depth of the operand seen last, in place of the deepest.    *)
DepthAfterLast(k, b) ==
    LET D[i \in Insts(k, b)] ==
            LET ops == {o \in Operands(k, i) \cap Insts(k, b) : Precedes(k, o, i)}
            IN  1 + (IF ops = {} THEN 0 ELSE D[Max(ops)])
    IN  Max({0} \cup {D[i] : i \in Insts(k, b)})

Depth(k, b) ==
    LET D[i \in Insts(k, b)] ==
            1 + Max({0} \cup {D[o] : o \in {p \in Operands(k, i) \cap Insts(k, b) : Precedes(k, p, i)}})
    IN  Max({D[i] : i \in Insts(k, b)} \cup (IF Len(k.succ[b]) = 2 THEN {} ELSE {1}))

----------------------------------------------------------------------------
(* getMLP. Each use of a load in its block gives a distance: the number of  *)
(* loads on the way from the one to the other. The use of a phi is at the   *)
(* end of the first incoming block that brings the load (in a list of       *)
(* incoming blocks that may be in any order).                               *)

Intervals(k, b) ==
    UNION {{[load |-> l, user |-> u, at |-> p] : p \in {q \in DOMAIN k.ops[u] : k.ops[u][q] = l}} :
              l \in k.loads \cap Insts(k, b), u \in Insts(k, b)}

(* The block of the user, or the first of the incoming blocks of a phi that *)
(* bring the load.                                                          *)
Froms(k, x) ==
    IF k.kind[x.user] # "phi" THEN {k.parent[x.user]}
    ELSE {p \in DOMAIN k.ops[x.user] : k.ops[x.user][p] = x.load}

Heads(k, b) == {i \in Insts(k, b) : Position(k, i) = 0}

(* countLoadsBounded: what stands first is passed over, be it the load that *)
(* is measured or the first instruction of a block on the way.              *)
LoadsIn(k, b, x) ==
    LET last == k.kind[x.user] = "phi"
    IN  {i \in k.loads \cap Insts(k, b) :
            IF b = k.parent[x.load]
            THEN Before(k, x.load, i) /\ (last \/ Before(k, i, x.user))
            ELSE i \notin Heads(k, b)}

(* countLoads *)
Distance(k, x, walked) ==
    LET D[n \in 0..Len(walked)] ==
            IF n = 0 THEN 0 ELSE D[n - 1] + Cardinality(LoadsIn(k, walked[n], x))
    IN  D[Len(walked)]

(* visitBasicBlock, up to the computation of the distances. *)
VisitBlock ==
    /\ pc = "block"
    /\ block \in VisitedBlocks
    /\ collector' = [collector EXCEPT
                      !.blocks = @ + 1,
                      !.blockILP = Append(@, [insts |-> Size(kernel, block),
                                              depth |-> Depth(kernel, block)])]
    /\ intervals' = Intervals(kernel, block)
    /\ distances' = <<>>
    /\ pc' = "mlp"
    /\ UNCHANGED <<input, block, walk>>

(* computeDistance, up to getRegionBlocks. *)
StartWalk(x) ==
    /\ pc = "mlp"
    /\ x \in intervals
    /\ \A y \in intervals : ~Before(kernel, y.load, x.load)
    /\ \E b \in Froms(kernel, x) :
          walk' = [load |-> x.load, user |-> x.user, from |-> b, stack |-> <<b>>, walked |-> <<>>]
    /\ intervals' = intervals \ {x}
    /\ pc' = "walk"
    /\ UNCHANGED <<input, block, distances, collector>>

(* A fault: the walk goes on past the block of the load.                    *)
PushedPastLoad(k, b, def) == Sorted(Preds(k, b))

(* The predecessors getRegionBlocks pushes, on a stack whose top is its     *)
(* head: any order, the sum is the same.                                    *)
Pushed(k, b, def) ==
    IF b = def THEN <<>> ELSE Sorted(Preds(k, b))

(* One iteration of getRegionBlocks. *)
WalkBack ==
    /\ pc = "walk"
    /\ walk.stack # <<>>
    /\ Len(walk.walked) < MaxWalked
    /\ LET top == Head(walk.stack)
       IN  walk' = [walk EXCEPT
                      !.walked = Append(@, top),
                      !.stack  = Pushed(kernel, top, kernel.parent[walk.load]) \o Tail(@)]
    /\ UNCHANGED <<input, pc, block, intervals, distances, collector>>

(* The walk has no end. *)
Hang ==
    /\ pc = "walk"
    /\ walk.stack # <<>>
    /\ Len(walk.walked) = MaxWalked
    /\ pc' = "hung"
    /\ UNCHANGED <<input, block, intervals, walk, distances, collector>>

EndWalk ==
    /\ pc = "walk"
    /\ walk.stack = <<>>
    /\ distances' = Append(distances, Distance(kernel, walk, walk.walked))
    /\ walk' = None
    /\ pc' = "mlp"
    /\ UNCHANGED <<input, block, intervals, collector>>

----------------------------------------------------------------------------
(* livenessAnalysis, over the values that have names (a store and a branch  *)
(* define none).                                                            *)

Named(k, b) == {i \in Insts(k, b) : k.kind[i] # "br" /\ k.valueName[i] # 0}

(* A fault: the phis of the block itself are taken for users within it.     *)
IsUsedInOtherBlocks(k, i) ==
    /\ Users(k, i) # {}
    /\ k.kind[i] = "phi" \/ \E u \in Users(k, i) : k.parent[u] # k.parent[i]

(* Utils.cpp isUsedOutsideOfDefiningBlock *)
IsUsedOutside(k, i) ==
    /\ Users(k, i) # {}
    /\ \/ k.kind[i] = "phi"
       \/ \E u \in Users(k, i) : k.parent[u] # k.parent[i] \/ k.kind[u] = "phi"

(* computeLiveRange and findLastUser. *)
LiveRange(k, i) ==
    IF Users(k, i) = {} THEN Size(k, k.parent[i])
    ELSE Max({Position(k, u) : u \in Users(k, i)}) - Position(k, i)

LiveRanges(k, b) ==
    LET local == {i \in Named(k, b) : ~IsUsedOutside(k, i)}
    IN  [i \in local |-> LiveRange(k, i)]

(* countPhis: by name, so that the unnamed overwrite one another.           *)
PhisCounted(c, k, b) ==
    LET phis  == Sorted(Phis(k, b))
        names == [n \in DOMAIN phis |-> k.valueName[phis[n]]]
        Args(name) == Cardinality(DOMAIN k.ops[phis[Max({n \in DOMAIN names : names[n] = name})]])
    IN  [c EXCEPT
          !.phiArgs   = [name \in {names[n] : n \in DOMAIN names} |-> Args(name)] @@ c.phiArgs,
          !.blockPhis = (k.blockName[b] :> names) @@ c.blockPhis]

(* The rest of visitBasicBlock, and the visits of the instructions.         *)
FinishedBlock(c, k, b) ==
    [PhisCounted(c, k, b) EXCEPT
       !.blockMLP       = Append(@, distances),
       !.blockInsts     = Append(@, Size(k, b)),
       !.avgLiveRange   = Append(@, LiveRanges(k, b)),
       !.aliveOutBlocks = Append(@, Quantify(Named(k, b), LAMBDA i : IsUsedOutside(k, i))),
       !.insts          = @ + Size(k, b),
       !.loads          = @ + Cardinality(k.loads \cap Insts(k, b))]

NextBlock ==
    IF block = Max(kernel.blocks) THEN pc' = "dump" /\ UNCHANGED block
    ELSE pc' = "block" /\ block' = Min({b \in kernel.blocks : b > block})

FinishBlock ==
    /\ pc = "mlp"
    /\ intervals = {}
    /\ collector' = FinishedBlock(collector, kernel, block)
    /\ NextBlock
    /\ UNCHANGED <<input, intervals, walk, distances>>

(* LoopFeatureExtraction passes over the other blocks and, one by one, over *)
(* their instructions.                                                      *)
PassOverBlock ==
    /\ pc = "block"
    /\ block \notin VisitedBlocks
    /\ NextBlock
    /\ UNCHANGED <<input, intervals, walk, distances, collector>>

(* A fault: blocks without a phi have no entry.                             *)
PhiArgSumsOfPhis(c) ==
    LET names == Sorted({n \in DOMAIN c.blockPhis : c.blockPhis[n] # <<>>})
    IN  [n \in DOMAIN names |->
            MapThenSumSet(LAMBDA m : c.phiArgs[c.blockPhis[names[n]][m]], DOMAIN c.blockPhis[names[n]])]

(* The output lists the blocks' phis in the order of the blocks' names.     *)
PhiArgSums(c) ==
    LET names == Sorted(DOMAIN c.blockPhis)
    IN  [n \in DOMAIN names |->
            MapThenSumSet(LAMBDA m : c.phiArgs[c.blockPhis[names[n]][m]], DOMAIN c.blockPhis[names[n]])]

Dump ==
    /\ pc = "dump"
    /\ collector' = [collector EXCEPT !.phiArgSums = PhiArgSums(collector)]
    /\ pc' = "dumped"
    /\ UNCHANGED <<input, block, intervals, walk, distances>>

Terminated == pc \in {"dumped", "hung"} /\ UNCHANGED vars

Next ==
    \/ VisitFunction
    \/ VisitBlock
    \/ \E x \in intervals : StartWalk(x)
    \/ WalkBack
    \/ Hang
    \/ EndWalk
    \/ FinishBlock
    \/ PassOverBlock
    \/ Dump
    \/ Terminated

Spec == Init /\ [][Next]_vars /\ WF_vars(Next)

----------------------------------------------------------------------------
(* Properties. *)

(* The n-th of the blocks visited, which the n-th entries of most lists are *)
(* about.                                                                   *)
Listed == Sorted(VisitedBlocks)

(* The instructions of a set, each of which names the one before.           *)
IsChain(k, C) ==
    \A i, j \in C :
        \/ i = j \/ Precedes(k, j, i)
        \/ Precedes(k, i, j) /\ (i \in Operands(k, j) \/ \E m \in C : Precedes(k, i, m) /\ Precedes(k, m, j))

(* The depth getILP divides by is the length of the longest chain of        *)
(* instructions in the order of the block, each of which names the one      *)
(* before among its operands. A phi does not wait for what stands behind    *)
(* it; but one that takes the previous value of a phi that stands before it *)
(* counts as deeper, though neither waits for the other.                    *)
DepthIsLongestChain ==
    pc = "dumped" => \A n \in DOMAIN Listed :
        LET chains == {C \in SUBSET Insts(kernel, Listed[n]) : IsChain(kernel, C)}
        IN  collector.blockILP[n].depth = Max({Cardinality(C) : C \in chains} \cup {1})

(* v is still needed when its block b ends: some path leads from there to a *)
(* use before b is executed again.                                          *)
LiveOut(k, v) ==
    LET b     == k.parent[v]
        after == ReachAvoid(k, Succs(k, b), {b})
    IN  \E u \in Users(k, v) :
           IF k.kind[u] = "phi" THEN \E p \in {b} \cup after : p \in DOMAIN k.ops[u] /\ k.ops[u][p] = v
           ELSE k.parent[u] \in after

(* The features tell from the list of uses what a data-flow analysis would: *)
(* of the named values, those alive out of their block are counted, and     *)
(* nothing else but phis that are used; and the live range of each of the   *)
(* others, if it is used, is the number of places between two instructions  *)
(* of the block where it is alive.                                          *)
CountsWhatIsLive ==
    pc = "dumped" => \A n \in DOMAIN Listed :
        LET b      == Listed[n]
            named  == Named(kernel, b)
            out    == {v \in named : LiveOut(kernel, v)}
            phis   == {v \in Phis(kernel, b) \cap named : Users(kernel, v) # {}}
            ranges == collector.avgLiveRange[n]
            Alive(p, v) == Position(kernel, v) <= p /\ \E u \in Users(kernel, v) : Position(kernel, u) > p
        IN  /\ collector.aliveOutBlocks[n] = Cardinality(out \cup phis)
            /\ DOMAIN ranges = named \ (out \cup phis)
            /\ \A v \in DOMAIN ranges : Users(kernel, v) # {} =>
                  ranges[v] = Quantify(0..Size(kernel, b), LAMBDA p : Alive(p, v))

(* The blocks on some way from the block of a load to the end of block p.   *)
Way(k, d, p) ==
    IF p = d THEN {d}
    ELSE {d} \cup {b \in ReachAvoid(k, Succs(k, d), {d}) : p \in ReachAvoid(k, {b}, {d})}

JoinOn(k, way, d) == \E b \in way \ {d} : Cardinality(Preds(k, b) \cap way) > 1

LoopOn(k, way, d) == \E b \in way \ {d} : b \in ReachAvoid(k, Succs(k, b) \cap way, {d})

(* The walk back from a use collects the blocks on the ways from the load,  *)
(* and no other; the distance misses no load on them but those at the head  *)
(* of a block, and counts one twice only where two ways meet.               *)
MeasuresTheWay ==
    (pc = "walk" /\ walk.stack = <<>>) =>
        LET d    == kernel.parent[walk.load]
            way  == Way(kernel, d, walk.from)
            seen == UNION {LoadsIn(kernel, b, walk) : b \in way}
            dist == Distance(kernel, walk, walk.walked)
        IN  /\ {walk.walked[n] : n \in DOMAIN walk.walked} = way
            /\ dist >= Cardinality(seen)
            /\ dist # Cardinality(seen) => JoinOn(kernel, way, d)

(* The FIXME over getRegionBlocks ("this might not work with loops") says   *)
(* no more than is needed: the features are dumped unless a walk meets a    *)
(* loop between a load and the end of a block from which a phi takes it; a  *)
(* loop around the two does no harm.                                        *)
LoopOnTheWay ==
    LET d == kernel.parent[walk.load]
    IN  LoopOn(kernel, Way(kernel, d, walk.from), d)

DumpsUnlessInnerLoop == <>(pc = "dumped" \/ (pc = "hung" /\ LoopOnTheWay))

(* Where blocks have names of their own, each has an entry in phiArgs, the  *)
(* number of operands of its phis, at the place of its name among the names *)
(* (and so at the block's place in the other lists if names are sorted like *)
(* the blocks).                                                             *)
PhiArgsByName ==
    (pc = "dumped" /\ \A b \in kernel.blocks : kernel.blockName[b] # 0) =>
        /\ Len(collector.phiArgSums) = Cardinality(VisitedBlocks)
        /\ \A b \in VisitedBlocks :
              collector.phiArgSums[Quantify(VisitedBlocks, LAMBDA c : kernel.blockName[c] <= kernel.blockName[b])]
                 = MapThenSumSet(LAMBDA i : Cardinality(DOMAIN kernel.ops[i]), Phis(kernel, b))

(* Two analyses, of one direction and of all, speak of the loads: each load *)
(* visited is counted as uniform or is among the divergent instructions,    *)
(* perhaps both.                                                            *)
LoadsAreAccountedFor ==
    pc = "dumped" =>
        collector.loads <= collector.uniformLoads
            + Quantify(kernel.loads \cap mdda.insts, LAMBDA i : kernel.parent[i] \in VisitedBlocks)
=============================================================================
