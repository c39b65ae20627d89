-------------------------- MODULE DivergenceAnalysis -------------------------
(****************************************************************************)
(* lib/Passes/DivergenceAnalysis.cpp: which instructions of a kernel depend *)
(* on the thread id, and which regions of its control-flow graph different  *)
(* threads may traverse differently. SingleDimDivAnalysis ("sdda") starts   *)
(* from the ids of one direction, MultiDimDivAnalysis ("mdda") from all.    *)
(*                                                                          *)
(* The worklist is a std::set of pointers and its first element is taken:   *)
(* the order is that of addresses, so the model takes any element. What is  *)
(* decided by pointer order may differ from run to run of the compiler; the *)
(* result may not.                                                          *)
(****************************************************************************)
EXTENDS Kernel

CONSTANTS Kernels,  \* the kernels the pass may be run on
          Options   \* the ways it may be invoked: which of the two passes, and
                    \* the directions on the command line, 0 when absent

ASSUME OptionsAssumption ==
    \A o \in Options : o.pass \in {"sdda", "mdda"}

ASSUME KernelsAssumption ==
    \A k \in Kernels :
        /\ IsGraph(k)
        /\ IsFiniteSet(k.insts)
        /\ k.parent \in [k.insts -> k.blocks]
        /\ AllTids(k) \subseteq k.insts
        /\ \A o \in Options : {TidsIn(k, o.coarsening), TidsIn(k, o.vectorizing)}
                                \subseteq SUBSET k.insts

VARIABLES
    kernel,      \* the function the pass runs on
    options,     \* how it was invoked
    pdt,         \* the post-dominator tree it was handed
    loopInfo,    \* the loops it was handed
    pc,          \* where runOnFunction is
    worklist,    \* instructions to visit
    divInsts,    \* the divergent instructions found, in the order they were
    divBranches, \* the branches among them
    regions      \* one region for each branch

vars == <<kernel, options, pdt, loopInfo, pc, worklist, divInsts, divBranches, regions>>

input == <<kernel, options, pdt, loopInfo>>

Elements(s) == {s[i] : i \in DOMAIN s}

Divergent == Elements(divInsts)

(* What was visited and what is queued. *)
Known == Divergent \cup worklist

----------------------------------------------------------------------------

Init ==
    /\ kernel \in Kernels
    /\ options \in Options
    /\ pdt = PostDomTree(kernel)
    /\ loopInfo = LoopForest(kernel)
    /\ pc = "init"
    /\ worklist = {}
    /\ divInsts = <<>>
    /\ divBranches = <<>>
    /\ regions = <<>>

(* The direction SingleDimDivAnalysis::getTids ends up with. *)
Direction ==
    IF options.vectorizing # 0 THEN options.vectorizing ELSE options.coarsening

BothDirections == options.coarsening # 0 /\ options.vectorizing # 0

(* The virtual getTids. *)
Tids == IF options.pass = "sdda" THEN TidsIn(kernel, Direction) ELSE AllTids(kernel)

(* A fault: the ids of every direction, whichever was asked for.            *)
GetAllTids ==
    /\ pc = "init"
    /\ options.pass = "sdda" => ~BothDirections
    /\ worklist' = AllTids(kernel)
    /\ pc' = "analyse"
    /\ UNCHANGED <<input, divInsts, divBranches, regions>>

(* init() and the first lines of performAnalysis. *)
GetTids ==
    /\ pc = "init"
    /\ options.pass = "sdda" => ~BothDirections
    /\ worklist' = Tids
    /\ pc' = "analyse"
    /\ UNCHANGED <<input, divInsts, divBranches, regions>>

(* The assertion of SingleDimDivAnalysis::getTids. *)
RejectDirections ==
    /\ pc = "init"
    /\ options.pass = "sdda" /\ BothDirections
    /\ pc' = "aborted"
    /\ UNCHANGED <<input, worklist, divInsts, divBranches, regions>>

(* A branch whose block has no immediate post-dominator: findImmediatePostDom *)
(* returns NULL and the phis of that block are read nevertheless.           *)
NoJoin(i) == kernel.kind[i] = "br" /\ pdt[kernel.parent[i]] = NoBlock

(* Faults a run must notice: queueing what was visited already, forgetting  *)
(* to take the instruction off the worklist, ignoring the joins of branches. *)
VisitAgain(i) ==
    /\ pc = "analyse"
    /\ i \in worklist
    /\ Len(divInsts) <= Cardinality(kernel.insts)
    /\ ~NoJoin(i)
    /\ divInsts' = Append(divInsts, i)
    /\ worklist' = (worklist \ {i}) \cup Influenced(kernel, pdt, i)
    /\ UNCHANGED <<input, pc, divBranches, regions>>

VisitWithoutErase(i) ==
    /\ pc = "analyse"
    /\ i \in worklist
    /\ ~NoJoin(i)
    /\ divInsts' = IF i \in Divergent THEN divInsts ELSE Append(divInsts, i)
    /\ worklist' = worklist \cup Influenced(kernel, pdt, i)
    /\ UNCHANGED <<input, pc, divBranches, regions>>

VisitUsersOnly(i) ==
    /\ pc = "analyse"
    /\ i \in worklist
    /\ ~NoJoin(i)
    /\ divInsts' = Append(divInsts, i)
    /\ worklist' = (worklist \ {i}) \cup (Users(kernel, i) \ Elements(divInsts'))
    /\ UNCHANGED <<input, pc, divBranches, regions>>

(* One iteration of performAnalysis' loop. *)
Visit(i) ==
    /\ pc = "analyse"
    /\ i \in worklist
    /\ ~NoJoin(i)
    /\ divInsts' = Append(divInsts, i)
    /\ worklist' = (worklist \ {i}) \cup (Influenced(kernel, pdt, i) \ Elements(divInsts'))
    /\ UNCHANGED <<input, pc, divBranches, regions>>

DereferenceNull(i) ==
    /\ pc = "analyse"
    /\ i \in worklist
    /\ NoJoin(i)
    /\ pc' = "crashed"
    /\ UNCHANGED <<input, worklist, divInsts, divBranches, regions>>

BranchesAmong(insts) ==
    LET UpTo[n \in 0..Len(insts)] ==
            IF n = 0 THEN <<>>
            ELSE IF kernel.kind[insts[n]] = "br" THEN Append(UpTo[n - 1], insts[n])
            ELSE UpTo[n - 1]
    IN  UpTo[Len(insts)]

FindBranches ==
    /\ pc = "analyse"
    /\ worklist = {}
    /\ divBranches' = BranchesAmong(divInsts)
    /\ pc' = "branches"
    /\ UNCHANGED <<input, worklist, divInsts, regions>>

RegionOf(branch) == BranchRegion(kernel, pdt, loopInfo, branch)

FindRegions ==
    /\ pc = "branches"
    /\ regions' = [n \in DOMAIN divBranches |-> RegionOf(divBranches[n])]
    /\ pc' = "done"
    /\ UNCHANGED <<input, worklist, divInsts, divBranches>>

Returned == pc \in {"done", "aborted", "crashed"}

Terminated == Returned /\ UNCHANGED vars

Next ==
    \/ GetTids
    \/ RejectDirections
    \/ \E i \in worklist : Visit(i) \/ DereferenceNull(i)
    \/ FindBranches
    \/ FindRegions
    \/ Terminated

Spec == Init /\ [][Next]_vars /\ WF_vars(Next)

----------------------------------------------------------------------------
(* Properties. *)

(* The worklist and the list hold instructions of the kernel the pass was   *)
(* run on (branches and regions are computed from the list).                *)
TypeOK ==
    /\ options \in Options
    /\ pc \in {"init", "analyse", "branches", "done", "aborted", "crashed"}
    /\ worklist \subseteq kernel.insts
    /\ divInsts \in Seq(kernel.insts)

(* A visited instruction is never queued again, so each is listed once: a   *)
(* second listing would give a branch two regions and replicate it twice.   *)
NoDuplicates ==
    /\ Cardinality(Divergent) = Len(divInsts)
    /\ worklist \cap Divergent = {}

(* Whatever order the worklist was emptied in, the divergent instructions   *)
(* are the least set that holds the thread ids and whatever depends on a    *)
(* member, through data or through the join of a divergent branch: nothing  *)
(* is missed, and no smaller set would do.                                  *)
DivergentIsLeast ==
    pc \in {"branches", "done"} =>
        /\ Tids \subseteq Divergent
        /\ Closed(kernel, pdt, Divergent)
        /\ \A S \in SUBSET Divergent :
               Tids \subseteq S /\ Closed(kernel, pdt, S) => S = Divergent

(* What module BranchExtraction starts from: the same set, computed, and    *)
(* an order of the branches that depends on pointers but always has a       *)
(* branch after those it depends on.                                        *)
HandedOver ==
    pc \in {"branches", "done"} =>
        /\ Divergent = Dependents(kernel, pdt, Tids)
        /\ divBranches # <<>> => divBranches \in BranchOrders(kernel, pdt, Tids)

(* The analysis looks for phis in the immediate post-dominator of a branch  *)
(* only. In a structured kernel that is enough: every phi that merges the   *)
(* two sides of a divergent branch is divergent.                            *)
MergesAreDivergent ==
    pc = "done" =>
        \A i \in Elements(divBranches) : \A j \in kernel.blocks :
            Phis(kernel, j) \subseteq Divergent \/ ~MeetIn(kernel, kernel.parent[i], j)

(* The branch of a region leaves a loop in the middle.                      *)
MidLoopExit(n) == LeavesLoopInTheMiddle(kernel, kernel.parent[divBranches[n]])

(* Elsewhere the blocks listed for a region are entered through its header  *)
(* only and left through its exiting block only, as replicating them as one *)
(* unit requires.                                                           *)
RegionsAreClosed ==
    pc = "done" =>
        \A n \in DOMAIN regions :
            \/ \A b \in regions[n].blocks \ {regions[n].exiting} :
                   /\ Dominates(kernel, regions[n].header, b)
                   /\ PostDominates(kernel, regions[n].exiting, b)
            \/ MidLoopExit(n)

(* Elsewhere two regions are nested or apart: never does each of them have  *)
(* internal blocks the other lacks while they share some.                   *)
Internal(r) == r.blocks \ {r.header, r.exiting}

RegionsNest ==
    pc = "done" =>
        \A m, n \in DOMAIN regions :
            \/ Internal(regions[m]) \cap Internal(regions[n]) = {}
            \/ Internal(regions[m]) \subseteq Internal(regions[n])
            \/ Internal(regions[n]) \subseteq Internal(regions[m])
            \/ MidLoopExit(m) \/ MidLoopExit(n)

(* The abstract specification this one implements: the divergent            *)
(* instructions spread from the ids along what depends on them, none is     *)
(* taken up for another reason, and the list is used once it is complete.   *)
Spread ==
    INSTANCE Spreading WITH
        stage <- CASE pc = "analyse"               -> "spreading"
                   [] pc \in {"aborted", "crashed"} -> "failed"
                   [] OTHER                        -> "idle",
        edges <- [i \in kernel.insts |-> Influenced(kernel, pdt, i)],
        seeds <- Tids,
        known <- Known

DivergenceSpreads == Spread!Spec
=============================================================================
