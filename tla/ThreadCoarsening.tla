--------------------------- MODULE ThreadCoarsening ---------------------------
(****************************************************************************)
(* lib/Passes/ThreadCoarsening.cpp ("tc"), with Coarsening.cpp and the full *)
(* replication of RegionCoarsening.cpp: each thread of the result does the  *)
(* work of Factor threads. The pass runs on what BranchExtraction leaves;   *)
(* so does this module, whose behaviours start with that pass.              *)
(*                                                                          *)
(* A divergent instruction outside of all regions gets one copy per further *)
(* thread, and an outermost region is cloned as a whole. A copy reads the   *)
(* copies of its operands. When they do not exist yet, it reads placeholders *)
(* instead, clones of the operand that are to be replaced at the end.       *)
(*                                                                          *)
(* Instructions are replicated in the order of their addresses: the model   *)
(* takes any order. Regions are taken in the order of the analysis.         *)
(****************************************************************************)
EXTENDS RegionCloning

CONSTANTS Factor,           \* -coarsening-factor
          DivRegionOptions  \* what -div-region-mgt may be

(* The numbering of the new instructions leaves room for three copies.      *)
ASSUME FactorAssumption == Factor \in 1..4

(* What merge-true and merge-false do is in module RegionMerging.           *)
ASSUME DivRegionOptionsAssumption ==
    DivRegionOptions \subseteq {"classic", "merge", "merge-true", "merge-false"}

VARIABLES
    divRegionOption,  \* -div-region-mgt
    extracted,        \* the function as BranchExtraction left it
    insts,            \* outermost instructions still to replicate
    todo,             \* outermost regions still to replicate
    cMap,             \* the copies of an instruction
    phMap,            \* its placeholders
    phReplacementMap  \* what replaces a placeholder

tcVars == <<divRegionOption, extracted, insts, todo, cMap, phMap, phReplacementMap>>

allVars == <<vars, tcVars>>

(* The further threads a thread stands for. *)
Copies == 1..(Factor - 1)

----------------------------------------------------------------------------
(* The instructions and blocks the pass adds, by where they come from.      *)

Copy(i, c) == i + c
Placeholder(i, c) == i + 4 + c
Base(t) == t + 8
IdCopy(t, c) == Base(t) + c

----------------------------------------------------------------------------

TCInit ==
    /\ Init
    /\ divRegionOption \in DivRegionOptions
    /\ extracted = original
    /\ insts = {}
    /\ todo = <<>>
    /\ cMap = [i \in {} |-> <<>>]
    /\ phMap = [i \in {} |-> <<>>]
    /\ phReplacementMap = [p \in {} |-> Const]

Extraction ==
    /\ DereferenceNull \/ ExtractBranches \/ BailOut \/ IsolateRegion \/ FillRegions
    /\ UNCHANGED tcVars

(* scaleNDRange, of which module NDRangeScaling has the arithmetic: every   *)
(* user of an id but the scaling itself gets the base computed after it.    *)
(* Then the outermost lists are asked for.                                  *)
ScaleNDRange ==
    /\ pc = "done"
    /\ LET ids   == TidsIn(kernel, Direction)
           added == UNION {{Base(t)} \cup {IdCopy(t, c) : c \in Copies} : t \in ids}
           Id(j) == CHOOSE t \in ids : j \in {Base(t)} \cup {IdCopy(t, c) : c \in Copies}
           used  == [i \in kernel.insts |->
                       [x \in DOMAIN kernel.ops[i] |->
                          IF kernel.ops[i][x] \in ids THEN Base(kernel.ops[i][x]) ELSE kernel.ops[i][x]]]
       IN  /\ kernel' = WithClones([kernel EXCEPT !.ops = used],
                                   [j \in added |-> Id(j)],
                                   [j \in added |-> kernel.parent[Id(j)]],
                                   [j \in added |-> IF j = Base(Id(j)) THEN <<Id(j)>> ELSE <<Base(Id(j))>>])
           /\ cMap' = [j \in ids \cup {Base(t) : t \in ids} |->
                          IF j \in ids THEN <<>> ELSE [c \in Copies |-> IdCopy(Id(j), c)]]
    /\ extracted' = kernel
    /\ insts' = OutermostInsts
    /\ todo' = SelectSeq(regions, LAMBDA r : r \in OutermostRegions)
    /\ pc' = "coarsen"
    /\ UNCHANGED <<original, loops, pdt, divInsts, regions, alive, cur, divRegionOption, phMap, phReplacementMap>>

----------------------------------------------------------------------------
(* getCoarsenedInstruction and applyCoarseningMap. *)

(* A fault: an operand that has no copies yet is kept.                      *)
CoarsenedIfCopied(o, c) == IF o \in DOMAIN cMap THEN cMap[o][c] ELSE o

Coarsened(o, c) ==
    CASE o \in DOMAIN cMap            -> cMap[o][c]
      [] o \in divInsts \ DOMAIN cMap -> Placeholder(o, c)
      [] OTHER                        -> o

(* The operands among D that have no copies yet get placeholders, if they   *)
(* have none: clones that stand right after them.                           *)
NewPlaceholders(D, phs) ==
    IF Copies = {} THEN {} ELSE (D \cap divInsts) \ (DOMAIN cMap \cup DOMAIN phs)

WithPlaceholders(k, N) ==
    LET source == [p \in {Placeholder(o, c) : o \in N, c \in Copies} |->
                      CHOOSE o \in N : \E c \in Copies : p = Placeholder(o, c)]
    IN  WithClones(k, source, [p \in DOMAIN source |-> k.parent[source[p]]],
                              [p \in DOMAIN source |-> k.ops[source[p]]])

PlaceholdersOf(N) == [o \in N |-> [c \in Copies |-> Placeholder(o, c)]]

(* A fault: the placeholders are forgotten.                                 *)
NoReplacements(copies, phs) == [p \in {} |-> Const]

(* updatePlaceholderMap, for instructions with the given copies.            *)
Replacements(copies, phs) ==
    LET N == DOMAIN copies \cap DOMAIN phs
    IN  [p \in {Placeholder(o, c) : o \in N, c \in Copies} |->
            LET o == CHOOSE o \in N : \E c \in Copies : p = Placeholder(o, c)
            IN  copies[o][p - Placeholder(o, 0)]]

----------------------------------------------------------------------------

Copied(k, i) ==
    LET source == [j \in {Copy(i, c) : c \in Copies} |-> i]
    IN  WithClones(k, source, [j \in DOMAIN source |-> k.parent[i]],
            [j \in DOMAIN source |-> [x \in DOMAIN k.ops[i] |-> Coarsened(k.ops[i][x], j - i)]])

(* replicateInst *)
ReplicateInst(i) ==
    /\ pc = "coarsen"
    /\ i \in insts
    /\ LET N      == NewPlaceholders(Operands(kernel, i), phMap)
           copies == i :> [c \in Copies |-> Copy(i, c)]
       IN  /\ kernel' = Copied(WithPlaceholders(kernel, N), i)
           /\ cMap' = cMap @@ copies
           /\ phMap' = phMap @@ PlaceholdersOf(N)
           /\ phReplacementMap' = phReplacementMap @@ Replacements(copies, phMap')
    /\ insts' = insts \ {i}
    /\ UNCHANGED <<original, loops, pdt, divInsts, regions, alive, cur, pc, divRegionOption,
                   extracted, todo>>

----------------------------------------------------------------------------
(* replicateRegion *)

(* The assertions on the way: those of module RegionCloning and, in         *)
(* updateAliveMap, that the alive values are cloned with the region.        *)
CanBeReplicated(r) ==
    /\ Bounded(extracted, r)
    /\ divRegionOption # "merge" =>
          /\ CanBeConnected(kernel, extracted, r)
          /\ \A n \in DOMAIN regions : regions[n] = r =>
                \A a \in alive[n] : a \in kernel.insts /\ Contains(r, kernel.parent[a])

(* replicateRegionImpl: all clones of a region, one after the other.        *)
Replicated(k, r) ==
    LET pred   == Predecessor(k, extracted, r.header)
        bottom == k.succ[r.exiting][1]
        R[c \in 0..(Factor - 1)] ==
            IF c = 0 THEN k
            ELSE LET Outside(o) == Coarsened(o, c)
                 IN  Connected(ClonedRegion(R[c - 1], r, c, Outside), r, c, pred,
                               TopInsertionPoint(r, c), bottom)
    IN  R[Factor - 1]

(* replicateRegionClassic: besides, the placeholders of the alive values    *)
(* get their replacements, those that exist by now.                         *)
ReplicateRegion ==
    /\ pc = "coarsen" /\ insts = {} /\ todo # <<>>
    /\ divRegionOption # "merge"
    /\ CanBeReplicated(Head(todo))
    /\ LET r == Head(todo)
           N == NewPlaceholders(DemandedBy(kernel, r), phMap)
           n == CHOOSE n \in DOMAIN regions : regions[n] = r
           aliveMap == [a \in alive[n] |-> [c \in Copies |-> Clone(a, c)]]
       IN  /\ kernel' = Replicated(WithPlaceholders(kernel, N), r)
           /\ phMap' = phMap @@ PlaceholdersOf(N)
           /\ phReplacementMap' = phReplacementMap @@ Replacements(aliveMap, phMap')
    /\ todo' = Tail(todo)
    /\ UNCHANGED <<original, loops, pdt, divInsts, regions, alive, cur, pc, divRegionOption,
                   extracted, insts, cMap>>

(* replicateRegionFullMerging has an empty body. *)
MergeRegion ==
    /\ pc = "coarsen" /\ insts = {} /\ todo # <<>>
    /\ divRegionOption = "merge"
    /\ CanBeReplicated(Head(todo))
    /\ todo' = Tail(todo)
    /\ UNCHANGED <<vars, divRegionOption, extracted, insts, cMap, phMap, phReplacementMap>>

Abort ==
    /\ pc = "coarsen" /\ insts = {} /\ todo # <<>>
    /\ ~CanBeReplicated(Head(todo))
    /\ pc' = "aborted"
    /\ UNCHANGED <<original, kernel, loops, pdt, divInsts, regions, alive, cur, tcVars>>

(* replacePlaceholders. Placeholders without a replacement stay in use; no  *)
(* placeholder is erased.                                                   *)
ReplacePlaceholders ==
    /\ pc = "coarsen" /\ insts = {} /\ todo = <<>>
    /\ kernel' = [kernel EXCEPT !.ops =
           [i \in kernel.insts |-> [x \in DOMAIN kernel.ops[i] |->
               IF kernel.ops[i][x] \in DOMAIN phReplacementMap
               THEN phReplacementMap[kernel.ops[i][x]] ELSE kernel.ops[i][x]]]]
    /\ pc' = "coarsened"
    /\ UNCHANGED <<original, loops, pdt, divInsts, regions, alive, cur, tcVars>>

TCTerminated == pc \in {"coarsened", "aborted", "crashed"} /\ UNCHANGED allVars

TCNext ==
    \/ Extraction
    \/ ScaleNDRange
    \/ \E i \in insts : ReplicateInst(i)
    \/ ReplicateRegion
    \/ MergeRegion
    \/ Abort
    \/ ReplacePlaceholders
    \/ TCTerminated

TCSpec == TCInit /\ [][TCNext]_allVars

----------------------------------------------------------------------------
(* What the result should be. *)

(* The copy of instruction i for thread c, and those of the instructions    *)
(* that may stand for it: an id is computed in several places, and so is, in  *)
(* a region, a value that is the same for all threads.                      *)
CopyFor(i, c) ==
    IF c = 0 THEN i ELSE IF InRegion(extracted.parent[i]) THEN Clone(i, c) ELSE Copy(i, c)

(* The loops that a divergent branch leaves: what they compute may be the    *)
(* same for all threads in each iteration, but threads that leave after     *)
(* different numbers of iterations leave with different values.             *)
LeavesLoop(k, b, h) == b \in LoopBlocks(k, h) /\ ~(Succs(k, b) \subseteq LoopBlocks(k, h))

DivergentlyLeft(k, h) ==
    IsLoopHeader(k, h) /\ \E i \in divInsts \cap k.insts : k.kind[i] = "br" /\ LeavesLoop(k, k.parent[i], h)

LeftByThread(k) == {h \in k.blocks : DivergentlyLeft(k, h)}

(* The values each thread has its own of, by its divergence or the number   *)
(* of iterations.                                                           *)
OwnValues(k) ==
    LET B == UNION {LoopBlocks(k, h) : h \in LeftByThread(k)}
    IN  {i \in k.insts : i \in divInsts \/ k.parent[i] \in B}

(* own: the OwnValues of the extracted function.                            *)
StandFor(own, o, c) ==
    CASE o = Const -> {Const}
      [] o \in TidsIn(extracted, Direction) ->
             LET id == IF c = 0 THEN Base(o) ELSE IdCopy(o, c)
             IN  {id} \cup {Clone(id, d) : d \in Copies}
      [] o \in own \ TidsIn(extracted, Direction) -> {CopyFor(o, c)}
      [] OTHER -> {o, Clone(o, c)}

(* The block that control comes from when it comes from p to a copy in the  *)
(* block of i: the region's clone of p, the clone of the region before this *)
(* one, or the last clone of the region that ended at p.                    *)
IncomingFor(i, p, c) ==
    LET b == extracted.parent[i]
        Last == IF \E r \in OutermostRegions : r.exiting = p THEN CloneBlock(p, Factor - 1) ELSE p
    IN  IF ~InRegion(b) THEN Last
        ELSE IF Contains(RegionAround(b), p) THEN CloneBlock(p, c)
        ELSE IF c = 0 THEN Last ELSE CloneBlock(RegionAround(b).exiting, c - 1)

Position(i, x, c) == IF extracted.kind[i] = "phi" THEN IncomingFor(i, x, c) ELSE x

----------------------------------------------------------------------------
(* Properties. *)

(* Whatever the order of replication was, the result is in SSA form: no     *)
(* copy is used where it is not defined, and every phi has a value for each *)
(* edge into its block, from the clones' edges too.                         *)
ResultIsSSA == pc = "coarsened" => SSA(kernel)

(* An assertion of replacePlaceholders, commented out: "Missing replacement *)
(* value". Each placeholder was replaced.                                   *)
Missing == {p \in UNION {{phMap[i][c] : c \in Copies} : i \in DOMAIN phMap} : p \notin DOMAIN phReplacementMap}

ReadsItsOwn(own, i, c) ==
    \A x \in DOMAIN extracted.ops[i] :
        kernel.ops[CopyFor(i, c)][Position(i, x, c)] \in StandFor(own, extracted.ops[i][x], c)

(* What a divergently left loop computes is used outside of it through      *)
(* phis that its edges lead to, as -lcssa leaves it. The analysis takes     *)
(* such a phi for divergent, but not the value itself.                      *)
LoopClosed(k) ==
    \A h \in LeftByThread(k) :
        LET B == LoopBlocks(k, h)
        IN  \A u \in k.insts : \A x \in DOMAIN k.ops[u] :
                k.ops[u][x] \in k.insts \ divInsts /\ k.parent[k.ops[u][x]] \in B =>
                    IF k.kind[u] = "phi" THEN x \in B ELSE k.parent[u] \in B

(* A copy for thread c reads, in place of each operand, what stands for it  *)
(* in thread c: never another thread's value, a placeholder or a value that *)
(* was not copied. What a loop computes is another value in each thread     *)
(* when the threads leave it one by one. (With "merge" regions are not      *)
(* replicated.)                                                             *)
EachCopyReadsItsOwn ==
    (pc = "coarsened" /\ divRegionOption # "merge" /\ Missing = {} /\ LoopClosed(original)) =>
        LET own == OwnValues(extracted)
        IN  \A i \in own \ AllTids(extracted) : \A c \in Copies :
                CopyFor(i, c) \in kernel.insts /\ ReadsItsOwn(own, i, c)

(* With full replication the threads go through a region one after the      *)
(* other, each through its own clone, and nothing else runs between.        *)
RegionsInSequence ==
    (pc = "coarsened" /\ divRegionOption = "classic") => \A r \in OutermostRegions :
        /\ \A c \in Copies :
              /\ kernel.succ[CloneBlock(r.exiting, c - 1)] = <<CloneBlock(r.header, c)>>
              /\ RegionPredecessor(kernel, CloneBlock(r.header, c)) = CloneBlock(r.exiting, c - 1)
              /\ PostDominates(kernel, CloneBlock(r.exiting, c), r.header)
        /\ \A c \in 0..(Factor - 1) : \A b \in r.blocks \ {r.exiting} :
              /\ Dominates(kernel, CloneBlock(r.header, c), CloneBlock(b, c))
              /\ PostDominates(kernel, CloneBlock(r.exiting, c), CloneBlock(b, c))

(* There, a replacement is missing only when a region uses a value that an  *)
(* earlier region computed, and no instruction outside of the regions uses  *)
(* it: the placeholder is then made after the clones of that region, which  *)
(* were to replace it.                                                      *)
MissingOnlyAcrossRegions ==
    (pc = "coarsened" /\ divRegionOption # "merge") => \A i \in DOMAIN phMap : (\E c \in Copies : phMap[i][c] \in Missing) =>
        /\ InRegion(extracted.parent[i])
        /\ ~\E u \in Users(extracted, i) : u \in divInsts /\ ~InRegion(extracted.parent[u])
        /\ \E n, m \in DOMAIN regions :
              /\ n < m
              /\ {regions[n], regions[m]} \subseteq OutermostRegions
              /\ Contains(regions[n], extracted.parent[i])
              /\ \E u \in Users(extracted, i) : Contains(regions[m], extracted.parent[u])

(* The comment over scaleIds: origTid = ... + subid * st. The copy for      *)
(* thread c of an instruction that reads an id reads the c-th one.          *)
CopiesReadTheirIds ==
    pc = "coarsened" =>
        \A i \in divInsts \ AllTids(extracted) : \A c \in Copies : \A x \in DOMAIN extracted.ops[i] :
            extracted.ops[i][x] \in TidsIn(extracted, Direction) =>
                kernel.ops[CopyFor(i, c)][Position(i, x, c)] \in StandFor(divInsts, extracted.ops[i][x], c)
=============================================================================
