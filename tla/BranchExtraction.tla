--------------------------- MODULE BranchExtraction ---------------------------
(****************************************************************************)
(* lib/Passes/BranchExtraction.cpp ("be"): puts every divergent region into *)
(* a shape in which it can be replicated as one unit. Region by region, in  *)
(* the order in which the analysis found them, it splits the branch off its *)
(* block, splits the exiting block after its phis, gives the region an      *)
(* exiting block of its own when others enter the old one, and computes the *)
(* values alive after the region. The bounds of other regions, the list of  *)
(* divergent instructions, the loops and the dominators are brought up to   *)
(* date on the way; what is not, is not.                                    *)
(*                                                                          *)
(* The order of the regions is that of addresses (see DivergenceAnalysis);  *)
(* the state starts from every one there can be.                            *)
(****************************************************************************)
EXTENDS Kernel

CONSTANTS Kernels,   \* the kernels the pass may be run on
          Direction  \* whose divergence is analysed (SingleDimDivAnalysis)

(* What LLVM's verifier admits, with returns that can be reached, in the    *)
(* numbering of module Kernel.                                              *)
ASSUME KernelsAssumption ==
    \A k \in Kernels :
        /\ IsGraph(k) /\ MayReturn(k)
        /\ k.blocks \subseteq Nat
        /\ k.succ \in [k.blocks -> Seq(k.blocks)]
        /\ IsFiniteSet(k.insts)
        /\ \A i \in k.insts : i \in Nat \ {Const} /\ i % Gap = 0
        /\ k.parent \in [k.insts -> k.blocks]
        /\ k.kind \in [k.insts -> {"phi", "inst", "br"}]
        /\ TidsIn(k, Direction) \subseteq {i \in k.insts : k.kind[i] = "inst"}
        /\ SSA(k)

VARIABLES
    original, \* the function as it came (for the properties only)
    kernel,   \* the function, changed as the pass goes
    loops,    \* LoopInfo: the blocks of each loop, by its header
    pdt,      \* PostDominatorTree, as last computed
    divInsts, \* SingleDimDivAnalysis::getDivInsts, as a set
    regions,  \* SingleDimDivAnalysis::getDivRegions
    alive,    \* the alive values of each of them
    pc,       \* where runOnFunction is
    cur       \* the region its loop is at

vars == <<original, kernel, loops, pdt, divInsts, regions, alive, pc, cur>>

Elements(s) == {s[i] : i \in DOMAIN s}

Init ==
    /\ original \in Kernels
    /\ kernel = original
    /\ loops = [h \in {b \in kernel.blocks : IsLoopHeader(kernel, b)} |-> LoopBlocks(kernel, h)]
    /\ pdt = PostDomTree(kernel)
    /\ divInsts = Dependents(kernel, pdt, TidsIn(kernel, Direction))
    /\ \E order \in BranchOrders(kernel, pdt, TidsIn(kernel, Direction)) :
          /\ regions = [n \in DOMAIN order |-> BranchRegion(kernel, pdt, LoopForest(kernel), order[n])]
          /\ alive = [n \in DOMAIN order |-> {}]
    /\ pc = "extract"
    /\ cur = 1

----------------------------------------------------------------------------
(* The loops, as LoopInfo has them: a block that was never added to a loop  *)
(* is in none, wherever it stands.                                          *)

IsHeader(b) == b \in DOMAIN loops

InnermostLoop(b) ==
    LET H == {h \in DOMAIN loops : b \in loops[h]}
    IN  IF H = {} THEN NoBlock ELSE CHOOSE h \in H : \A o \in H : loops[h] \subseteq loops[o]

(* SplitBlock adds the new block to the loops of the old one. *)
LoopsWithSplit(ls, b, n) == [h \in DOMAIN ls |-> IF b \in ls[h] THEN ls[h] \cup {n} ELSE ls[h]]

----------------------------------------------------------------------------
(* Changes of a kernel. *)

MaxOf(S) == CHOOSE x \in S : \A y \in S : y <= x

NewBlock(k) == MaxOf(k.blocks) + 1

(* A fault: phis are left with the block their value came from before.      *)
KeptIncoming(k, B, b, n) == k.ops

(* Phis of the blocks B take from block n what they took from block b.      *)
RenamedIncoming(k, B, b, n) ==
    [i \in k.insts |->
        IF k.kind[i] = "phi" /\ k.parent[i] \in B
        THEN [p \in {IF q = b THEN n ELSE q : q \in DOMAIN k.ops[i]} |->
                 k.ops[i][IF p = n /\ b \in DOMAIN k.ops[i] THEN b ELSE p]]
        ELSE k.ops[i]]

(* SplitBlock: the instructions in `moved', the last ones of block b, go to *)
(* the new block n, which b branches to and which takes b's place for the   *)
(* blocks that follow.                                                      *)
SplitBlock(k, b, moved, n) ==
    [k EXCEPT !.blocks = @ \cup {n},
              !.succ   = [c \in k.blocks \cup {n} |->
                             CASE c = b -> <<n>> [] c = n -> k.succ[b] [] OTHER -> k.succ[c]],
              !.parent = [i \in k.insts |-> IF i \in moved THEN n ELSE k.parent[i]],
              !.ops    = RenamedIncoming(k, Succs(k, b), b, n)]

BranchOf(k, b) == {i \in Insts(k, b) : k.kind[i] = "br"}

NonPhis(k, b) == Insts(k, b) \ Phis(k, b)

----------------------------------------------------------------------------
(* The first half of an iteration: setExiting, fillRegion, extractBranches  *)
(* and fillRegion.                                                          *)

(* The exiting block extractBranches settles on.                            *)
ExitingOf(header) ==
    LET join == pdt[header]
    IN  IF IsHeader(header) /\ InnermostLoop(join) = header
        THEN ExitBlock(kernel, loops[header])
        ELSE join

(* The regions whose branch moved with the second half of a split block.    *)
HeadersKept(rs, b, n) == rs \* a fault

HeadersMoved(rs, b, n) ==
    [m \in DOMAIN rs |-> IF rs[m].header = b THEN [rs[m] EXCEPT !.header = n] ELSE rs[m]]

(* The loop that ends at its header's divergent branch has no single exit   *)
(* block: Loop::getExitBlock returns NULL, and its first instruction is     *)
(* asked for.                                                               *)
DereferenceNull ==
    /\ pc = "extract"
    /\ cur <= Len(regions)
    /\ ExitingOf(regions[cur].header) = NoBlock
    /\ pc' = "crashed"
    /\ UNCHANGED <<original, kernel, loops, pdt, divInsts, regions, alive, cur>>

ExtractBranches ==
    /\ pc = "extract"
    /\ cur <= Len(regions)
    /\ ExitingOf(regions[cur].header) # NoBlock
    /\ LET header     == regions[cur].header
           exiting    == ExitingOf(header)
           split      == ~IsHeader(header)
           newHeader  == IF split THEN NewBlock(kernel) ELSE header
           k1         == IF split THEN SplitBlock(kernel, header, BranchOf(kernel, header), newHeader)
                         ELSE kernel
           l1         == IF split THEN LoopsWithSplit(loops, header, newHeader) ELSE loops
           newExiting == NewBlock(k1)
           k2         == SplitBlock(k1, exiting, NonPhis(k1, exiting), newExiting)
       IN  /\ kernel' = k2
           /\ loops' = LoopsWithSplit(l1, exiting, newExiting)
           /\ regions' = [HeadersMoved(regions, exiting, newExiting) EXCEPT
                             ![cur] = Region(k2, newHeader, exiting)]
    /\ pc' = "isolate"
    /\ UNCHANGED <<original, pdt, divInsts, alive, cur>>

----------------------------------------------------------------------------
(* The second half: isolateRegion, fillRegion, findAliveValues and the      *)
(* recalculation of the trees.                                              *)

(* The phis isolateRegion makes of the phi i of the exiting block, and the  *)
(* kernel it makes: the edges from the region to the exiting block lead to  *)
(* the new block n; each phi is divided into one there, for the values that *)
(* come from the region, and one in its old place, for the others and the   *)
(* first; the phi itself is replaced by the latter.                         *)
NewPhi(k, i) == Gap * (MaxOf(k.insts) \div Gap) + 2 * i

ExitPhi(k, i) == NewPhi(k, i) + Gap

ReplacementPhi(k, i) == ExitPhi(k, i)

Isolated(k, r, n) ==
    LET old   == Phis(k, r.exiting)
        new   == {NewPhi(k, i) : i \in old}
        exits == {ExitPhi(k, i) : i \in old}
        kept  == k.insts \ old
        Source(j) == CHOOSE i \in old : j \in {NewPhi(k, i), ExitPhi(k, i)}
        Replaced(o) == IF o \in old THEN ReplacementPhi(k, o) ELSE o
        Ops(j) ==
            CASE j \in new ->
                   [b \in DOMAIN k.ops[Source(j)] \cap r.blocks |-> Replaced(k.ops[Source(j)][b])]
              [] j \in exits ->
                   [b \in (DOMAIN k.ops[Source(j)] \ r.blocks) \cup {n} |->
                       IF b = n THEN NewPhi(k, Source(j)) ELSE Replaced(k.ops[Source(j)][b])]
              [] OTHER -> [x \in DOMAIN k.ops[j] |-> Replaced(k.ops[j][x])]
        To(b, c) == IF b \in r.blocks /\ c = r.exiting THEN n ELSE c
    IN  [k EXCEPT
            !.blocks = @ \cup {n},
            !.succ   = [b \in k.blocks \cup {n} |->
                           IF b = n THEN <<r.exiting>>
                           ELSE [x \in DOMAIN k.succ[b] |-> To(b, k.succ[b][x])]],
            !.insts  = kept \cup new \cup exits,
            !.parent = [j \in kept \cup new \cup exits |->
                           CASE j \in new -> n [] j \in exits -> r.exiting [] OTHER -> k.parent[j]],
            !.kind   = [j \in kept \cup new \cup exits |->
                           IF j \in kept THEN k.kind[j] ELSE "phi"],
            !.ops    = [j \in kept \cup new \cup exits |-> Ops(j)]]

(* Divergent phis are replaced by the two made of them. The fault: the      *)
(* erased ones stay listed. *)
ListedPhisKept(k, old) == divInsts \cup UNION {{NewPhi(k, i), ExitPhi(k, i)} : i \in old}

ListedPhisReplaced(k, old) ==
    (divInsts \ old) \cup UNION {{NewPhi(k, i), ExitPhi(k, i)} : i \in old}

(* A fault: the exiting block is always taken for one of the region's own.  *)
NeverNeedsExiting(r) == FALSE

(* The dominator tree is kept up to date by SplitBlock, so this is asked of *)
(* the kernel as it is.                                                     *)
NeedsExiting(r) == ~Dominates(kernel, r.header, r.exiting)

(* A fault: the alive values of the region as it was before it got its      *)
(* exiting block.                                                           *)
FinishWithEarlierBlocks(k, header, exiting) ==
    /\ kernel' = k
    /\ regions' = [regions EXCEPT ![cur] = Region(k, header, exiting)]
    /\ alive' = [alive EXCEPT ![cur] = AliveValues(k, regions[cur])]
    /\ pdt' = PostDomTree(k)
    /\ pc' = "extract"
    /\ cur' = cur + 1

(* A region as it is filled at the end of the iteration, its alive values,  *)
(* the trees, and on to the next region.                                    *)
FinishIteration(k, header, exiting) ==
    LET r == Region(k, header, exiting)
    IN  /\ kernel' = k
        /\ regions' = [regions EXCEPT ![cur] = r]
        /\ alive' = [alive EXCEPT ![cur] = AliveValues(k, r)]
        /\ pdt' = PostDomTree(k)
        /\ pc' = "extract"
        /\ cur' = cur + 1

BailOut ==
    /\ pc = "isolate"
    /\ ~NeedsExiting(regions[cur])
    /\ FinishIteration(kernel, regions[cur].header, regions[cur].exiting)
    /\ UNCHANGED <<original, loops, divInsts>>

IsolateRegion ==
    /\ pc = "isolate"
    /\ NeedsExiting(regions[cur])
    /\ LET r   == regions[cur]
           n   == NewBlock(kernel)
           old == Phis(kernel, r.exiting) \cap divInsts
       IN  /\ FinishIteration(Isolated(kernel, r, n), r.header, n)
           /\ divInsts' = ListedPhisReplaced(kernel, old)
    /\ UNCHANGED <<original, loops>>

(* The loop over the regions that ends the pass.                            *)
FillRegions ==
    /\ pc = "extract"
    /\ cur > Len(regions)
    /\ regions' = [n \in DOMAIN regions |->
                      Region(kernel, regions[n].header, regions[n].exiting)]
    /\ pc' = "done"
    /\ UNCHANGED <<original, kernel, loops, pdt, divInsts, alive, cur>>

Returned == pc \in {"done", "crashed"}

Terminated == Returned /\ UNCHANGED vars

Next ==
    \/ DereferenceNull
    \/ ExtractBranches
    \/ BailOut
    \/ IsolateRegion
    \/ FillRegions
    \/ Terminated

Spec == Init /\ [][Next]_vars /\ WF_vars(Next)

----------------------------------------------------------------------------
(* Properties. *)

AllRegions == Elements(regions)

(* The result is in SSA form: the phis of the blocks that were split, and   *)
(* those divided between two blocks, have a value for each edge into their  *)
(* block, and every value dominates its uses.                               *)
StaysSSA == pc = "done" => SSA(kernel)

(* What ThreadCoarsening asserts of the regions it is given (replicateRegion,*)
(* getExit, getPredecessor) and what replicating them as one unit requires: *)
(* they are entered through the header and left through the exiting block   *)
(* only, one edge leads out, and one block leads in.                        *)
RegionsAreReplicable ==
    pc = "done" => \A r \in AllRegions :
        /\ \A b \in r.blocks : Dominates(kernel, r.header, b) /\ PostDominates(kernel, r.exiting, b)
        /\ Len(kernel.succ[r.exiting]) = 1
        /\ RegionPredecessor(kernel, r.header) # NoBlock

(* DivergenceAnalysis.cpp findOutermostInsts and findOutermostRegions: what *)
(* the coarsening passes replicate.                                         *)
OutermostInsts ==
    {i \in divInsts \ AllTids(kernel) : IsOutermostInst(kernel, i, AllRegions)}

OutermostRegions == {r \in AllRegions : IsOutermostRegion(r, AllRegions)}

(* Every divergent instruction but the ids is replicated exactly once: by   *)
(* itself, when it is in no region, or else as part of one outermost        *)
(* region. A branch never is by itself.                                     *)
ReplicatedOnce ==
    pc = "done" =>
        /\ \A i \in divInsts \ AllTids(kernel) :
              Cardinality({r \in OutermostRegions : Contains(r, kernel.parent[i])})
                 = (IF i \in OutermostInsts THEN 0 ELSE 1)
        /\ \A i \in OutermostInsts : kernel.kind[i] # "br"

(* The divergent instructions are still listed, with the phis that were     *)
(* made and without those that were erased. A phi of a block that was made  *)
(* may be listed without need: isolateRegion lists both phis it makes of a  *)
(* divergent one, though the values that come from the region may be the    *)
(* same for all threads.                                                    *)
DivergenceKept ==
    pc = "done" =>
        LET D == Dependents(kernel, pdt, TidsIn(kernel, Direction))
        IN  /\ D \subseteq divInsts /\ divInsts \subseteq kernel.insts
            /\ \A i \in divInsts \ D :
                  kernel.kind[i] = "phi" /\ kernel.parent[i] \notin original.blocks

(* When every region is visited after the regions within it, the alive      *)
(* values are those of the result.                                          *)
InnerFirst ==
    \A n, m \in DOMAIN regions : n < m => ~(regions[m].blocks \subseteq regions[n].blocks)

AliveIsCurrent ==
    (pc = "done" /\ InnerFirst) =>
        \A n \in DOMAIN regions : alive[n] = AliveValues(kernel, regions[n])

----------------------------------------------------------------------------
(* The kernel computes what it did. Blocks keep their numbers, so the new   *)
(* ones lie between old ones, and the phi or phis of an old block can be    *)
(* compared with those it had.                                              *)

(* The new blocks on the way from the old block p to the old block b, and   *)
(* the block before x on that way.                                          *)
Between(p, b) ==
    {x \in ReachAvoid(kernel, Succs(kernel, p), original.blocks) :
        b \in UNION {Succs(kernel, y) : y \in ReachAvoid(kernel, {x}, original.blocks)}}

PredOn(p, b, x) == CHOOSE y \in {p} \cup Between(p, b) : x \in Succs(kernel, y)

(* The old blocks that come next when control leaves the blocks B.          *)
NextOld(B) ==
    LET next == UNION {Succs(kernel, x) : x \in B}
    IN  original.blocks \cap
            (next \cup UNION {Succs(kernel, y) : y \in ReachAvoid(kernel, next, original.blocks)})

(* The old block p still leads where it led, and its branch, wherever it is *)
(* now, to the same block on each side.                                     *)
LeadsAsBefore(p) ==
    /\ NextOld({p}) = Succs(original, p)
    /\ \A i \in BranchOf(original, p) :
          LET s == kernel.succ[kernel.parent[i]]
          IN  \A n \in DOMAIN s :
                 original.succ[p][n] = (IF s[n] \in original.blocks THEN s[n]
                                        ELSE CHOOSE b \in NextOld({s[n]}) : TRUE)

(* The value that phi j of block b takes when control comes from p. *)
ValueFrom(p, b, j) ==
    LET V[n \in 0..Cardinality(Between(p, b))] ==
            IF n = 0 THEN kernel.ops[j][PredOn(p, b, b)]
            ELSE LET v == V[n - 1]
                 IN  IF v \in kernel.insts /\ kernel.kind[v] = "phi" /\ kernel.parent[v] \in Between(p, b)
                     THEN kernel.ops[v][PredOn(p, b, kernel.parent[v])] ELSE v
    IN  V[Cardinality(Between(p, b))]

(* Values by what they stand for: a phi by its block. *)
Meaning(k, v) ==
    IF v \in k.insts /\ k.kind[v] = "phi" THEN [inst |-> Const, phiOf |-> k.parent[v]]
    ELSE [inst |-> v, phiOf |-> NoBlock]

(* The old blocks follow one another as they did, each phi takes the values *)
(* it took from each of them, and the other instructions their operands.    *)
ComputesTheSame ==
    pc = "done" =>
        /\ \A b \in original.blocks : LeadsAsBefore(b)
        /\ \A b \in original.blocks :
              /\ Cardinality(Phis(kernel, b)) = Cardinality(Phis(original, b))
              /\ \A j \in Phis(kernel, b) : \E i \in Phis(original, b) : \A p \in Preds(original, b) :
                     Meaning(kernel, ValueFrom(p, b, j)) = Meaning(original, original.ops[i][p])
        /\ \A i \in {j \in original.insts : original.kind[j] # "phi"} :
              \A x \in DOMAIN original.ops[i] :
                  Meaning(kernel, kernel.ops[i][x]) = Meaning(original, original.ops[i][x])
=============================================================================
