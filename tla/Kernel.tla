------------------------------- MODULE Kernel --------------------------------
(****************************************************************************)
(* OpenCL kernels in SSA form, as the passes see them: a control-flow graph *)
(* (module Cfg) and the instructions that use one another's results. What   *)
(* an instruction computes is abstracted; kept are the facts the passes     *)
(* decide on. A kernel k is a graph with, in addition,                      *)
(*   k.insts    its instructions, positive integers; those of a kernel no   *)
(*              pass has changed are multiples of Gap, which leaves room for  *)
(*              the instructions a pass inserts after each                    *)
(*   k.parent   the block of each                                           *)
(*   k.kind     "phi", "inst", or "br" (a conditional branch, which ends    *)
(*              its block; an unconditional one uses no instruction)        *)
(*   k.ops      the operands of each: a function from operand positions to  *)
(*              instructions or Const. The positions of a phi are its       *)
(*              incoming blocks.                                            *)
(*   k.tids     for each direction the calls of get_global_id and           *)
(*              get_local_id in that direction                              *)
(****************************************************************************)
EXTENDS Cfg

Gap == 200

(* An operand that is not an instruction: a constant or an argument.        *)
Const == 0

Operands(k, i) == {k.ops[i][x] : x \in DOMAIN k.ops[i]} \ {Const}

(* DivergenceAnalysis.cpp findUsesOf *)
Users(k, i) == {u \in k.insts : i \in Operands(k, u)}

Phis(k, b) == {i \in k.insts : k.kind[i] = "phi" /\ k.parent[i] = b}

Insts(k, b) == {i \in k.insts : k.parent[i] = b}

(* NDRange::getTids(int) and NDRange::getTids(); a fault: directions are    *)
(* counted from one.                                                        *)
TidsIn(k, dir) == k.tids[dir]

TidsBeyondFirst(k) == UNION {k.tids[dir] : dir \in DOMAIN k.tids \ {0}}

AllTids(k) == UNION {k.tids[dir] : dir \in DOMAIN k.tids}

----------------------------------------------------------------------------
(* How divergence spreads. *)

(* A fault: the phis of the blocks the branch leads to.                     *)
SuccessorPhis(k, pdt, i) ==
    IF k.kind[i] = "br" THEN UNION {Phis(k, b) : b \in Succs(k, k.parent[i])} ELSE {}

(* A fault: the block the branch joins in, in place of its phis.            *)
JoinItself(k, pdt, i) ==
    IF k.kind[i] = "br" THEN {pdt[k.parent[i]]} ELSE {}

(* The phis that join what a divergent branch separates: those of the       *)
(* immediate post-dominator of its block.                                   *)
JoinPhis(k, pdt, i) ==
    IF k.kind[i] = "br" THEN Phis(k, pdt[k.parent[i]]) ELSE {}

Influenced(k, pdt, i) == Users(k, i) \cup JoinPhis(k, pdt, i)

(* S is closed when everything that depends on a member is a member.        *)
Closed(k, pdt, S) == \A i \in S : Influenced(k, pdt, i) \subseteq S

(* The least closed set around the seeds, one ring of dependents after the  *)
(* other.                                                                   *)
Dependents(k, pdt, seeds) ==
    LET n == Cardinality(k.insts)
        Ring[m \in 0..n] ==
            IF m = 0 THEN [all |-> seeds, last |-> seeds]
            ELSE LET R    == Ring[m - 1]
                     next == (UNION {Influenced(k, pdt, i) : i \in R.last}) \ R.all
                 IN  [all |-> R.all \cup next, last |-> next]
    IN  Ring[n].all

(* The joins that are known when some of the branches are found.            *)
KnownJoins(k, pdt, found) ==
    [b \in k.blocks |-> IF \E i \in found : k.parent[i] = b THEN pdt[b] ELSE NoBlock]

(* The orders in which the worklist can come upon the divergent branches: a *)
(* branch may be found once it depends on the seeds through the joins of    *)
(* those found before.                                                      *)
BranchOrders(k, pdt, seeds) ==
    LET brs == {i \in Dependents(k, pdt, seeds) : k.kind[i] = "br"}
    IN  {o \in [1..Cardinality(brs) -> brs] :
            \A n \in DOMAIN o :
                LET found == {o[m] : m \in 1..(n - 1)}
                IN  o[n] \in Dependents(k, KnownJoins(k, pdt, found), seeds) \ found}

----------------------------------------------------------------------------
(* Membership in the region between a header and an exiting block. A region *)
(* is a record with its bounds and the blocks its last fillRegion listed.   *)

Region(k, header, exiting) ==
    [header |-> header, exiting |-> exiting, blocks |-> ListBlocks(k, header, exiting)]

(* The bounds DivergenceAnalysis::findRegions gives to the region of a      *)
(* branch: up to its join or, when the branch is a loop header's and they   *)
(* join in the loop, up to the loop's exit.                                 *)
BranchRegion(k, pdt, loopInfo, branch) ==
    LET header  == k.parent[branch]
        join    == pdt[header]
        exiting == IF loopInfo[header] = header /\ loopInfo[join] = header
                   THEN LoopExitBlock(k, header)
                   ELSE join
    IN  Region(k, header, exiting)

Contains(r, b) == b \in r.blocks

ContainsInternally(r, b) == b \in r.blocks \ {r.header, r.exiting}

(* DivergenceAnalysis.cpp isOutermost, for an instruction and for a region. *)
IsOutermostInst(k, i, rs) == \A r \in rs : ~Contains(r, k.parent[i])

IsOutermostRegion(r, rs) == \A o \in rs : ~ContainsInternally(o, r.header)

(* DivergentRegion::findAliveValues: what is defined in the region and used *)
(* outside of it.                                                           *)
AliveValues(k, r) ==
    {i \in k.insts : Contains(r, k.parent[i]) /\
                     \E u \in Users(k, i) : ~Contains(r, k.parent[u])}

----------------------------------------------------------------------------
(* Kinds of divergent branches. *)

DivergentBlocks(k, dir) ==
    {k.parent[i] : i \in {j \in Dependents(k, PostDomTree(k), TidsIn(k, dir)) : k.kind[j] = "br"}}

(* A branch that leaves a loop from another block than its header, as the   *)
(* latch of a do-while loop does.                                           *)
LeavesLoopInTheMiddle(k, b) ==
    /\ LoopFor(k, b) \notin {NoBlock, b}
    /\ \E c \in Succs(k, b) : c \notin LoopBlocks(k, LoopFor(k, b))

(* A branch whose sides meet in the header of a loop, as the exit of a loop *)
(* does that another loop follows directly.                                 *)
MeetsInLoopHeader(k, b) == IsLoopHeader(k, ImmPostDom(k, b))

----------------------------------------------------------------------------
(* SSA form, which LLVM's verifier demands of every pass's result. Within a *)
(* block phis come first, the branch last, and the others in the order of   *)
(* their numbers.                                                           *)

Rank(k, i) == CASE k.kind[i] = "phi"  -> 0
                [] k.kind[i] = "inst" -> 1
                [] k.kind[i] = "br"   -> 2

Before(k, i, j) ==
    \/ Rank(k, i) < Rank(k, j)
    \/ k.kind[i] = "inst" /\ k.kind[j] = "inst" /\ i < j

(* The definition o is available at its user u.                             *)
Available(k, o, u) ==
    IF k.kind[u] = "phi"
    THEN \A b \in DOMAIN k.ops[u] : k.ops[u][b] = o => Dominates(k, k.parent[o], b)
    ELSE IF k.parent[o] = k.parent[u] THEN Before(k, o, u)
    ELSE Dominates(k, k.parent[o], k.parent[u])

SSA(k) ==
    /\ \A i \in k.insts : k.kind[i] = "phi" => DOMAIN k.ops[i] = Preds(k, k.parent[i])
    /\ \A i \in k.insts : \A o \in Operands(k, i) : o \in k.insts /\ Available(k, o, i)
    /\ \A b \in k.blocks :
          Cardinality({i \in Insts(k, b) : k.kind[i] = "br"})
             = (IF Len(k.succ[b]) = 2 THEN 1 ELSE 0)
=============================================================================
