---------------------------- MODULE RegionMerging ----------------------------
(****************************************************************************)
(* The options merge-true and merge-false of "tc" (RegionCoarsening.cpp,    *)
(* replicateRegionMerging): the threads go through one side of a divergent  *)
(* branch together when they all take it. A new block before the region     *)
(* tests the condition of all threads at once. One of its sides is what the *)
(* region was, with the other side of its branch removed and with its       *)
(* instructions replicated in place; the other side holds a clone of the    *)
(* whole region for each thread, one after the other. Both end at the       *)
(* exiting block, whose phis are made to join them.                         *)
(*                                                                          *)
(* The regions within the merged side are handled in turn, so the regions   *)
(* that are being merged form a stack.                                      *)
(****************************************************************************)
EXTENDS ThreadCoarsening, Execution

CONSTANT MergedFirst  \* whether the phis of an exiting block may list the
                      \* merged side first: a subset of BOOLEAN

ASSUME MergedFirstAssumption == MergedFirst \subseteq BOOLEAN

VARIABLE merging  \* the calls of replicateRegionMerging under way

rmVars == <<allVars, merging>>

----------------------------------------------------------------------------
(* The instructions and blocks merging adds.                                *)

TopBranch(i) == i + 12
Reduction(i) == i + 13
TopBlock(b) == b + 50

(* The number of the clone made first: the later ones count on from there,  *)
(* and those of a region within this one from after them.                   *)
FirstClone(r) ==
    Factor * (1 + Cardinality({o \in AllRegions : ContainsInternally(o, r.header)}))

----------------------------------------------------------------------------
(* The sides of a region. *)

(* The successor index of the side to merge, and that of the other.         *)
MergedSide == IF divRegionOption = "merge-true" THEN 1 ELSE 2
OtherSide == 3 - MergedSide

Side(k, r, n) == ListBlocks(k, k.succ[r.header][n], r.exiting)

(* DivergentRegion::areSubregionsDisjoint *)
SubregionsDisjoint(k, r) == Side(k, r, 1) \cap Side(k, r, 2) = {r.exiting}

(* getSubregionExiting: the first predecessor of the exiting block that is  *)
(* on that side, NULL when the side is empty.                               *)
SubregionExitings(k, r, n) ==
    LET P == Preds(k, r.exiting) \cap Side(k, r, n) IN IF P = {} THEN {NoBlock} ELSE P

AliveOf(r) == alive[CHOOSE n \in DOMAIN regions : regions[n] = r]

(* getSubregionAlive *)
FromMerged(k, a, x) == IF k.kind[a] = "phi" THEN k.ops[a][x] ELSE a

HeaderBranch(k, r) == CHOOSE i \in BranchOf(k, r.header) : TRUE

Condition(k, r) == k.ops[HeaderBranch(k, r)][1]

----------------------------------------------------------------------------
(* createTopBranch, createCascadingFirstRegion and removeRedundantBlocks.   *)

(* insertBooleanReduction, a chain of Ands: one instruction here.           *)
Reduced(k, r) ==
    LET c == Condition(k, r)
        j == Reduction(HeaderBranch(k, r))
    IN  [WithClones(k, j :> c, j :> k.parent[c], j :> <<c>> \o cMap[c]) EXCEPT !.kind[j] = "inst"]

(* A fault: the new block tests the condition of the first thread.          *)
WithUnreducedTop(k, r) ==
    LET b   == HeaderBranch(k, r)
        top == TopBlock(r.header)
        k1  == [k EXCEPT !.blocks = @ \cup {top}, !.succ = @ @@ (top :> k.succ[r.header])]
    IN  WithClones([k1 EXCEPT !.succ[Predecessor(k, extracted, r.header)][1] = top],
                   TopBranch(b) :> b, TopBranch(b) :> top, TopBranch(b) :> k.ops[b])

WithTop(k, r) ==
    LET b   == HeaderBranch(k, r)
        top == TopBlock(r.header)
        k1  == [Reduced(k, r) EXCEPT !.blocks = @ \cup {top}, !.succ = @ @@ (top :> k.succ[r.header])]
    IN  WithClones([k1 EXCEPT !.succ[Predecessor(k, extracted, r.header)][1] = top],
                   TopBranch(b) :> b, TopBranch(b) :> top, TopBranch(b) :> <<Reduction(b)>>)

(* The clone of the region: nothing is mapped, so it is the first thread's. *)
WithFirstRegion(k, r) ==
    LET d == FirstClone(r)
        Outside(o) == o
    IN  [ClonedRegion(k, r, d, Outside) EXCEPT
            !.succ[TopBlock(r.header)][OtherSide] = CloneBlock(r.header, d),
            !.succ[CloneBlock(r.exiting, d)] = <<r.exiting>>]

Redundant(k, r) == Side(k, r, OtherSide) \ {r.exiting}

(* What used a removed block leads to the exiting block, what used one of   *)
(* its instructions has an undefined operand. Phis keep the block.          *)
WithoutBlocks(k, B, exiting) ==
    LET kept == {i \in k.insts : k.parent[i] \notin B}
    IN  [k EXCEPT
            !.blocks = @ \ B,
            !.succ   = [b \in k.blocks \ B |->
                           [n \in DOMAIN k.succ[b] |->
                               IF k.succ[b][n] \in B THEN exiting ELSE k.succ[b][n]]],
            !.insts  = kept,
            !.parent = [i \in kept |-> k.parent[i]],
            !.kind   = [i \in kept |-> k.kind[i]],
            !.ops    = [i \in kept |-> [x \in DOMAIN k.ops[i] |->
                           IF k.ops[i][x] \in k.insts \ kept THEN Const ELSE k.ops[i][x]]]]

----------------------------------------------------------------------------
(* DivergenceAnalysis::getDivRegions and getDivInsts of a region: the       *)
(* outermost ones within it. (The branch index is ignored: the other side   *)
(* is gone by then.)                                                        *)

InnerRegions(r) ==
    LET inner == {o \in AllRegions : ContainsInternally(r, o.header) /\ ContainsInternally(r, o.exiting)}
    IN  {o \in inner : IsOutermostRegion(o, inner)}

InnerInsts(k, r) ==
    {i \in (divInsts \cap k.insts) \ AllTids(k) :
        ContainsInternally(r, k.parent[i]) /\ IsOutermostInst(k, i, InnerRegions(r))}

----------------------------------------------------------------------------
(* replicateRegionMerging, up to the replication of the merged side.        *)

(* That the sides are disjoint is asserted first; then the region of a loop *)
(* header is replicated in full.                                            *)
Merges(r) ==
    /\ divRegionOption \in {"merge-true", "merge-false"}
    /\ SubregionsDisjoint(kernel, r) => ~IsLoopHeader(extracted, r.header)

(* The assertions up to there: the sides are disjoint, there is a merged    *)
(* side for the alive phis to have a value from, one block leads to the     *)
(* region, and the condition was replicated.                                *)
CanBeMerged(r, x) ==
    /\ Bounded(extracted, r)
    /\ SubregionsDisjoint(kernel, r)
    /\ \A a \in AliveOf(r) : a \in kernel.insts /\ (kernel.kind[a] = "phi" => x \in DOMAIN kernel.ops[a])
    /\ Predecessor(kernel, extracted, r.header) # NoBlock
    /\ Condition(kernel, r) \in DOMAIN cMap

(* Those of the instructions I that were or are to be removed.              *)
Removed(I, gone) == {i \in I : i \in kernel.insts => kernel.parent[i] \in gone}

(* The divergent instructions and the regions are looked through for those  *)
(* within the region: among them are the ones just removed and those that   *)
(* were removed with earlier regions, which is undefined behaviour. A       *)
(* region that was removed passes for one within and is entered, and the    *)
(* program ends there; an instruction may pass for one elsewhere.           *)
EnterRemoved(r, x) ==
    /\ CanBeMerged(r, x)
    /\ LET gone == Redundant(kernel, r)
       IN  Removed(divInsts, gone) # {} \/ \E o \in InnerRegions(r) : o.header \in gone
    /\ pc' = "crashed"
    /\ UNCHANGED <<original, kernel, loops, pdt, divInsts, regions, alive, cur, tcVars, merging>>

MergeSide(r, x) ==
    /\ CanBeMerged(r, x)
    /\ LET gone == Redundant(kernel, r)
           k1 == WithoutBlocks(WithFirstRegion(WithTop(kernel, r), r), gone, r.exiting)
       IN  /\ \A o \in InnerRegions(r) : o.header \notin gone
           /\ kernel' = k1
           /\ insts' = InnerInsts(k1, r)
    /\ todo' = SelectSeq(regions, LAMBDA o : o \in InnerRegions(r))
    /\ merging' = <<[region |-> r, exiting |-> x, rest |-> Tail(todo),
                     values |-> [a \in AliveOf(r) |-> FromMerged(kernel, a, x)]]>> \o merging
    /\ UNCHANGED <<original, loops, pdt, divInsts, regions, alive, cur, pc, divRegionOption,
                   extracted, cMap, phMap, phReplacementMap>>

----------------------------------------------------------------------------
(* The rest of it, once the merged side is replicated. *)

FirstRegion(r) ==
    LET d == FirstClone(r)
    IN  [header |-> CloneBlock(r.header, d), exiting |-> CloneBlock(r.exiting, d),
         blocks |-> {CloneBlock(b, d) : b \in r.blocks}]

(* The clones of the first region, one after the other.                     *)
Cascaded(k, r) ==
    LET first == FirstRegion(r)
        R[c \in 0..(Factor - 1)] ==
            IF c = 0 THEN k
            ELSE LET Outside(o) == Coarsened(o, c)
                 IN  [ClonedRegion(R[c - 1], first, c, Outside) EXCEPT
                         !.succ[CloneBlock(first.exiting, c - 1)] = <<CloneBlock(first.header, c)>>,
                         !.succ[CloneBlock(first.exiting, c)]     = <<r.exiting>>]
    IN  R[Factor - 1]

(* updateExitPhiNodes. The incoming values of a phi are in an order. Its    *)
(* entry for the merged side is kept and another removed, the only other    *)
(* one as a rule. Its placeholders have all entries still, but it is the    *)
(* second of theirs that is removed, since that of the phi is its first     *)
(* now. So it is the same one when the merged side was listed first.        *)
(* (When it was the third, an assertion fails; this is left out.)           *)
(* A fault: the exiting block is entered from the first clone as before.    *)
ExitingOfFirst(r) == CloneBlock(r.exiting, FirstClone(r))

LastExiting(r) == CloneBlock(r.exiting, FirstClone(r) + Factor - 1)

WithoutEntry(ops, b) == [p \in DOMAIN ops \ {b} |-> ops[p]]

PlaceholderIn(m, phs, i) ==
    {a \in DOMAIN m.values \cap DOMAIN phs : \E c \in Copies : i = Placeholder(a, c)}

(* The entries that may be removed: those for other blocks.                 *)
OthersThan(m) ==
    LET Blocks == UNION {DOMAIN kernel.ops[a] : a \in DOMAIN m.values}
    IN  {f \in [DOMAIN m.values -> Blocks] :
            \A a \in DOMAIN m.values : f[a] \in DOMAIN kernel.ops[a] \ {m.exiting}}

WithExitPhis(k, m, phs, other, first) ==
    LET d    == FirstClone(m.region)
        last == LastExiting(m.region)
        OfPlaceholder(i, a, c) ==
            IF first[a]
            THEN m.exiting :> cMap[m.values[a]][c] @@ WithoutEntry(k.ops[i], other[a])
            ELSE other[a] :> cMap[m.values[a]][c] @@ WithoutEntry(k.ops[i], m.exiting)
        Ops(i) ==
            CASE i \in DOMAIN m.values -> last :> Clone(i, d) @@ WithoutEntry(k.ops[i], other[i])
              [] PlaceholderIn(m, phs, i) # {} ->
                   LET a == CHOOSE a \in PlaceholderIn(m, phs, i) : TRUE
                       c == i - Placeholder(a, 0)
                   IN  last :> Clone(a, d + c) @@ OfPlaceholder(i, a, c)
              [] OTHER -> k.ops[i]
    IN  [k EXCEPT !.ops = [i \in k.insts |-> Ops(i)]]

(* The assertions there: the value alive after the merged side is one that  *)
(* was cloned with the region, its phi is found, and its copies are known   *)
(* when they are asked for. (No two phis of a block join the same value     *)
(* here; the code would take one for the other.)                            *)
CanBeJoined(m, phs) ==
    \A a \in DOMAIN m.values :
        /\ m.values[a] \in kernel.insts
        /\ Contains(m.region, kernel.parent[m.values[a]])
        /\ kernel.kind[a] = "phi"
        /\ a \in DOMAIN phs \/ DOMAIN phs = {}
        /\ a \in DOMAIN phs => m.values[a] \in DOMAIN cMap

JoinMerged(m, other, first) ==
    /\ LET r  == m.region
           N  == NewPlaceholders(DemandedBy(kernel, FirstRegion(r)), phMap)
           k1 == WithExitPhis(Cascaded(WithPlaceholders(kernel, N), r), m, phMap', other, first)
       IN  /\ phMap' = phMap @@ PlaceholdersOf(N)
           /\ CanBeJoined(m, phMap')
           /\ kernel' = WithoutBlocks(k1, {r.header}, r.exiting)
    /\ phReplacementMap' = phReplacementMap @@
           [p \in {Placeholder(a, c) : a \in DOMAIN m.values \cap DOMAIN phMap', c \in Copies} |-> p]
    /\ todo' = m.rest
    /\ merging' = Tail(merging)
    /\ UNCHANGED <<original, loops, pdt, divInsts, regions, alive, cur, pc, divRegionOption,
                   extracted, insts, cMap>>

AbortJoin(m) ==
    /\ LET N == NewPlaceholders(DemandedBy(kernel, FirstRegion(m.region)), phMap)
       IN  ~CanBeJoined(m, phMap @@ PlaceholdersOf(N))
    /\ pc' = "aborted"
    /\ UNCHANGED <<original, kernel, loops, pdt, divInsts, regions, alive, cur, tcVars, merging>>

AbortMerge(r, x) ==
    /\ ~CanBeMerged(r, x)
    /\ pc' = "aborted"
    /\ UNCHANGED <<original, kernel, loops, pdt, divInsts, regions, alive, cur, tcVars, merging>>

----------------------------------------------------------------------------

RMInit == TCInit /\ merging = <<>>

(* What module ThreadCoarsening has of the pass. *)
Common ==
    /\ \/ Extraction
       \/ ScaleNDRange
       \/ \E i \in insts : ReplicateInst(i)
       \/ todo # <<>> /\ ~Merges(Head(todo)) /\ (ReplicateRegion \/ MergeRegion \/ Abort)
       \/ merging = <<>> /\ ReplacePlaceholders
       \/ TCTerminated
    /\ UNCHANGED merging

MergeNext ==
    /\ pc = "coarsen" /\ insts = {} /\ todo # <<>>
    /\ Merges(Head(todo))
    /\ \E x \in SubregionExitings(kernel, Head(todo), MergedSide) :
          MergeSide(Head(todo), x) \/ EnterRemoved(Head(todo), x) \/ AbortMerge(Head(todo), x)

JoinNext ==
    /\ pc = "coarsen" /\ insts = {} /\ todo = <<>> /\ merging # <<>>
    /\ \/ \E first \in [DOMAIN Head(merging).values -> MergedFirst] :
             \E other \in OthersThan(Head(merging)) : JoinMerged(Head(merging), other, first)
       \/ AbortJoin(Head(merging))

RMNext == Common \/ MergeNext \/ JoinNext

RMSpec == RMInit /\ [][RMNext]_rmVars

----------------------------------------------------------------------------
(* What the threads do. *)

Threads == 0..(Factor - 1)

(* The instruction of the extracted function that j comes from.             *)
Origin(j) == Gap * (j \div Gap)

(* What the branches decide: for each branch, and each of the threads.      *)
Decisions ==
    LET brs == {i \in extracted.insts : extracted.kind[i] = "br"}
    IN  {D \in [brs -> [Threads -> BOOLEAN]] :
            \A i \in brs \ divInsts : \A c \in Threads : D[i][c] = D[i][0]}

(* Compared is what the threads work out, beside their ids.                 *)
Work(trees) ==
    {t \in trees : t.op \notin AllTids(extracted) /\ t.op \in extracted.insts /\ extracted.kind[t.op] = "inst"}

(* What thread c of the extracted function executes. *)
DoneBy(c, D) ==
    LET Named(i, of) == IF i \in TidsIn(extracted, Direction) THEN Tree(IdCopy(i, c), <<>>) ELSE Tree(i, of)
        Goes(b) == LET i == CHOOSE i \in BranchOf(extracted, b) : TRUE IN IF D[i][c] THEN 1 ELSE 2
    IN  Work(Executed(extracted, Named, Goes))

(* What the result executes. A branch on a thread's id decides what it did  *)
(* for that thread, one on the ids of several what it did for all.          *)
DoneByResult(D) ==
    LET ids == {IdCopy(t, c) : t \in TidsIn(extracted, Direction), c \in Threads}
        Named(i, of) == IF i \in ids THEN Tree(i, <<>>) ELSE Tree(Origin(i), of)
        Tested(o) == IF o \in ids THEN {o} ELSE Operands(kernel, o) \cap ids
        Of(o) == {c \in Threads : \E t \in TidsIn(extracted, Direction) : IdCopy(t, c) \in Tested(o)}
        Goes(b) ==
            LET j == CHOOSE j \in BranchOf(kernel, b) : TRUE
                C == Of(kernel.ops[j][1])
            IN  IF \A c \in IF C = {} THEN {0} ELSE C : D[Origin(j)][c] THEN 1 ELSE 2
    IN  Work(Executed(kernel, Named, Goes))

----------------------------------------------------------------------------
(* Properties. *)

(* The result does what the threads did that it stands for: whichever way   *)
(* the branches go for each of them, it executes exactly the instructions   *)
(* they executed, from the same values.                                     *)
ThreadsDoTheSame ==
    (pc = "coarsened" /\ divRegionOption # "merge" /\ Missing = {}) =>
        \A D \in Decisions : DoneByResult(D) = UNION {DoneBy(c, D) : c \in Threads}
=============================================================================
