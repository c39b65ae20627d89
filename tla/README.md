# Verification of thrud

thrud is a set of LLVM passes that change the granularity of OpenCL kernels: *thread
coarsening* lets one thread do the work of several, *thread vectorizing* lets it do that work
with vector instructions. A kernel that is coarsened must compute, for all the threads of the
original launch, what it computed before. The passes decide what to replicate (the divergence
analysis), bring the divergent regions of the control-flow graph into a shape in which they can
be replicated (branch extraction), rewrite the thread ids (ND-range scaling), and replicate.

This directory holds TLA+ modules translated from that code, TLC configurations that check them
on every small kernel, and proofs, for every kernel, function and launch, of what matters most about
the analyses, the ids and the extracted kernel that the rest depends on.

## The system

Passes run in one thread, one after the other, on one function:
`-mem2reg -instnamer` and `-structurize-cfg -simplifycfg` (tests/vectorization/run_all.sh:33)
prepare the kernel; then `-be` and `-tc` or `-tv`, which require the analyses. What is hard here
is not concurrency. It is

* **the order of pointers**: worklists and lists of instructions are `std::set`s of pointers, so
  the order in which instructions, branches and regions are treated is that of addresses and may
  differ from run to run of the compiler. The result must not be wrong in any of the orders;
* **stale state**: regions, alive values, loop information and the list of divergent
  instructions are computed once, while the passes go on changing the graph they describe;
* **forward references**: an instruction may be replicated before its operands are, and reads
  placeholders that must all be replaced later, each by the copy of the same thread;
* **the shapes of graphs**: nested loops, branches in loops, loops that follow one another.

| component | state it keeps | operations | who uses it | module |
|---|---|---|---|---|
| NDRange (`ndr`) | calls of `get_global_id` etc. by direction | find calls, list ids and sizes, tell what a call is | all | `NDRange` (`Kernel` has the resulting lists of ids) |
| Divergence analysis (`sdda`, `mdda`) | divergent instructions, branches, regions, outermost lists | worklist, branches, regions, outermost lists | `be`, `tc`, `tv` | `DivergenceAnalysis`, outermost lists in `BranchExtraction` |
| Regions (DivergentRegion, RegionBounds) | bounds, blocks, alive values | list blocks, alive values, clone, containment | `sdda`, `be`, `tc`, `tv` | `Cfg`, `Kernel`, `RegionCloning` |
| Branch extraction (`be`) | the function, the regions' bounds, LoopInfo, trees | split, isolate, refill | runs before `tc`, `tv` | `BranchExtraction` |
| Thread coarsening (`tc`) | coarsening map, placeholder map, replacements | scale, replicate instruction, replicate region, replace placeholders | last pass | `ThreadCoarsening`, `NDRangeScaling` |
| Merging of regions (in `tc`) | as above, the calls under way | merge the true, the false or both branches | `-div-region-mgt` | `RegionMerging`; the empty full merging in `ThreadCoarsening` |
| Thread vectorizing (`tv`) | vector map, placeholders, phis without operands, what is to be removed | vectorize, replicate, widen, replicate region, fix phis, remove | last pass | `ThreadVectorizing`, `RegionCloning` |
| Control dependence (`cda`) | forward and backward graph | build, closure, queries | required by the divergence analysis, which never queries it | `ControlDependence` |
| Subscript analysis, Warp, NDRangeSpace | offsets of a warp | transactions, bank conflicts, consecutive accesses | `tv`, symbolic execution | `SubscriptAnalysis` |
| Symbolic execution | eight lists of numbers | visit loads and stores, dump | tools | `SymbolicExecution` |
| Feature extraction, ILP, MLP, instruction graphs | counters, lists per block | count, depths, distances of loads, liveness, dump | tools | `FeatureExtraction` |
| StructurizeCFG, utilities, scripts | | | | not modelled (see below) |

What makes each component correct:

* *divergence analysis*: the list is exactly the set of instructions that depend on a thread id,
  through data or through control, whatever the order; each is listed once; every region is
  single-entry single-exit;
* *branch extraction*: the kernel computes what it did; SSA form is kept; every region can be
  replicated as one unit; every divergent instruction is replicated exactly once afterwards;
* *ND-range scaling*: the copies of the new threads are exactly the old threads;
* *thread coarsening*: each copy reads the values of its own thread; nothing is left over;
  regions are executed one thread after the other;
* *thread vectorizing*: each lane reads the values of its own thread; what was scalar goes, and
  nothing that all threads share goes with it;
* *control dependence*: a block depends on another exactly when that one's branch decides
  whether it runs, however the graph is closed;
* *merging of regions*: whichever way the branches go for each thread, the result executes what
  the threads executed;
* *subscript analysis*: the transactions are the cache lines that the threads of a warp touch;
  no conflict is missed; "consecutive" is said only of accesses that are;
* *symbolic execution*: each access has its number in the list for its kind;
* *feature extraction*: a number is what its name says, computed another way, and there is one.

## Modules

    Spreading: abstract; DivergenceAnalysis and ControlDependence implement it
    Cfg <- Kernel <- DivergenceAnalysis
                  <- BranchExtraction <- RegionCloning <- ThreadCoarsening <- RegionMerging
                                                       <- ThreadVectorizing
                  <- Execution (used by RegionMerging)
                  <- FeatureExtraction
        <- ControlDependence
    NDRange <- NDRangeScaling
    SubscriptAnalysis <- SymbolicExecution
    SmallKernels, MC*: instances
    Closures <- KernelProofs (on Cfg and Kernel) <- ControlDependenceProofs
                                                 <- DivergenceAnalysisProofs
                                                 <- BranchExtractionProofs
                                                 <- FeatureExtractionProofs
             <- NDRangeScalingProofs
             <- SymbolicExecutionProofs

* **Spreading**: the abstract specification of the worklist algorithms: from seeds a set grows by
  what its members lead to, is handed over when that is complete and not before, and each
  spreading ends. DivergenceAnalysis instantiates it with the dependences of the kernel
  (`known` is what is listed or queued), ControlDependence with the graph that is being closed,
  whose entries change from one spreading to the next.
* **Cfg**: control-flow graphs as records, dominators, post-dominators, natural loops, the blocks
  of a region. Almost all of it stands for LLVM's analyses (external in the map). They are
  defined from reachability along paths that avoid a set; reachability is a recursive function
  over `Nat`. `Structured` is what structurize-cfg and simplifycfg leave: two successors at most,
  one return, every loop entered at its header, with one latch, one way in and one way out, and
  everything a branch decides about entered through it. `MeetIn` says at which blocks the two
  ways from a branch meet before either begins another iteration of a loop around it; beyond
  that, the values a phi merges are of different iterations.
* **Kernel**: a graph with instructions in SSA form. What an instruction computes is abstracted;
  kept are kind (phi, branch, other), block and operands. Also: users, the joins of branches, the
  least closed set of dependents, regions and alive values, `SSA` (LLVM's verifier).
* **DivergenceAnalysis**: `GetTids`, `Visit` (one iteration of the worklist, any element of it,
  since its order is that of addresses), `FindBranches`, `FindRegions`; the assertion on the two
  direction options; the NULL dereference for a branch without post-dominator.
* **BranchExtraction**: one iteration of the loop over the regions is the two actions
  `ExtractBranches` (split header and exiting block, move the headers of other regions) and
  `IsolateRegion` or `BailOut` (an exiting block of its own, phis divided, alive values, trees
  recalculated). `loops` is LoopInfo as the pass has it, which misses the blocks made by
  isolateRegion. The initial states are what DivergenceAnalysis ends in
  (`HandedOver` is checked there), with every order of regions.
* **NDRange**: the discovery of the work-item calls, function by function, and the queries.
* **NDRangeScaling**: from the discovery on, the instructions `tc` emits around each size and id,
  or `tv` around each id (the lanes), in order, and their evaluation for every thread of the new
  launch with the machine's arithmetic.
* **RegionCloning**: what coarsening and vectorizing do alike with the regions: the clones of
  blocks and instructions, their connection in a chain, the phis behind the exit. A clone is
  numbered by what it is made of; the original's `Gap` leaves the room.
* **ThreadCoarsening**: extends RegionCloning, so each behaviour is the whole pipeline `be` then
  `tc`. `ReplicateInst` takes any outermost instruction; `ReplicateRegion` the next outermost
  region; `ReplacePlaceholders` ends.
* **RegionMerging**: the pipeline `be` then `tc` with `-div-region-mgt`. `MergeSide` is
  replicateRegionMerging up to the replication of the merged side (new top block, clone of the
  region, redundant blocks removed), after which the instructions and regions within are
  replicated by the actions of ThreadCoarsening; the region of a loop header is replicated in full
  once its sides were found disjoint; `JoinMerged` is the rest (the chain of clones,
  the exit phis). Since the regions within are merged in turn, the calls under way form a stack,
  `merging`. `AbortMerge` and `AbortJoin` are the assertions; `EnterRemoved` is where erased
  instructions or regions are followed.
* **Execution**: what a kernel computes on the way its branches decide, as trees, so that two
  kernels with different blocks can be compared.
* **ThreadVectorizing**: the pipeline `be` then `tv`. `WidenTids`, then `VectorizeInst` or
  `VectorizePhi` for any outermost instruction, `ReplicateRegion` for the next region (or `Abort`,
  the assertion it runs into when a vector value is alive in the region), `FixPhiNodes`,
  `RemoveVectorPlaceholders`, `RemoveScalarInsts`.
* **ControlDependence**: `FindS`, `FindLs`, `BuildGraph` with the walks up the
  post-dominator tree, and the closure of the
  graph in place, entry by entry and element by element, in any order.
* **SubscriptAnalysis**: the evaluation of a subscript in the machine's numbers for a thread, a
  warp's threads, and the three questions asked of their offsets, as the code computes them;
  beside them, what the questions mean. A subscript is the sequence of its nodes, arguments before
  what they are arguments of (the code recurs over the expression and keeps the processed ones in
  a map, which is the function `processed`).
* **SymbolicExecution**: one action for each way a load or store is treated, and the assertion in
  the computation of bank conflicts.
* **FeatureExtraction**: both extractors: `VisitFunction`, then for each block `VisitBlock`, the
  walks back from the uses of its loads (`StartWalk`, `WalkBack`, `EndWalk`, or `Hang`) and
  `FinishBlock`, or `PassOverBlock`; `Dump`. Averages are kept as what they are taken over. The
  stack of the walk has its top first; `Sorted` lists sets of blocks, phis and names, and
  what `Distance` adds up along a walk and `Depth` along a block are recursive functions, so that
  all but the sums over phis can be proved about.

* **Closures**: induction over the naturals and recursive functions for the proofs; no part of
  the code.

Definitions marked "A fault" are wrong variants of the one they stand before. No specification
uses them; they show that each property notices the error it is there for.

## Runs

| run | instance | what it shows |
|---|---|---|
| DivergenceAnalysis | all structured 4-block graphs, all conditions, both passes, all option combinations | no duplicates, least closed set, refinement of Spreading with its liveness |
| DivergentJoins | all structured 5-block graphs | merges are divergent, regions are closed and nest, the hand-over to BranchExtraction |
| NDRangeScaling | coarsening and vectorizing, factor and stride 1..4, groups 1..4, 1..12 threads, ten calls, ids modulo 64, constants of the pass modulo 16 | every read gives what it gave the original thread, every original thread is exactly one copy, SSA order |
| ThreadCoarsening | plain 5-block kernels with a store at the end, at most one test of the uniform value, computations in two inner blocks or in none, counters in the loops, factor 2, `classic` and `merge` | extraction keeps the kernel, coarsening gives each copy its own thread's values |
| MergedRegions | plain 5-block kernels as a front end makes them, with values that pass between regions and counters in the loops, factor 3, `classic`, `merge` and `merge-true` | the result does what the threads did, clones in sequence, leftover placeholders only where predicted |
| ThreadVectorizing | plain 5-block kernels with a divergent branch, storing a value or an id, width 2 | each lane reads its own, scalars give way, the pass aborts for region values only |
| ControlDependence | all structured 5-block graphs and one with two returns | the closure does not depend on the order, invents nothing, misses nothing (of branches with one edge in `S`), refinement of Spreading with its liveness |
| SymbolicExecution | strides, matrices, tiles, unknown terms in sequences of up to four accesses on six launches, elements of several sizes | each access in its list, transactions are cache lines (of bases that no instruction computes), no conflict of words is missed, consecutive as tried |
| Features | structured 5-block kernels with one or two loads in a block, values and phis' earlier values around loops, three ways of naming, both extractors | depth, liveness, distances, phis and loads against definitions of their own; the extraction ends unless a loop is on the way |
| LateId | violation | an id read inside a divergent region is the first thread's in every clone |
| RegionValuesLost | violation | a vectorized phi reads undef where a region's values should be |
| MergeFalse | violation | merge-false sends threads through the side they do not take |

**Bounds.** Five blocks are the smallest graphs with a loop around an if, an if-then-else
followed by another branch, two nested loops, and an if whose join is a loop header; all 189
structured graphs of that size are taken, up to the numbering of blocks and the order of a
branch's two edges (`Graphs`), while-loops whose latch has one successor among them. Only merging
tells the edges of a branch apart, and is run for either side. Conditions are assigned in every way
in DivergenceAnalysis and DivergentJoins; ThreadCoarsening has one uniform test at most, Features
the same test everywhere. Four blocks
bound the runs in which both analyses and all worklist orders are explored, since the orders
multiply. Factor 2 is the first with a copy, factor 3 the first in which a clone follows a clone.
Every instruction set holds a phi in each join, computations in several blocks, an id of each of
two directions and a uniform value; ThreadCoarsening also takes the kernels without computations,
where more values are uniform, and those with counters (`Counting`): a second phi in the header of
each loop, which the last block of the loop adds to, the same for all threads in each iteration and
read by what the loop computes. NDRangeScaling's groups of 12 are divisible by every factor
and hold one block of factor * stride ids up to 3 * 4, several of smaller ones and, for other
sizes, none that tile. `Launches` are those whose `get_global_size` is a word. The pass multiplies
factor and stride as `unsigned int` before it makes a constant of them (NDRangeScaling.cpp:40);
4 * 4 wraps in the run, and the properties of the result are stated of the launches where it
does not (`NoWrap`).

`EachCopyReadsItsOwn` asks that a copy for thread c reads c's own version of what is divergent and
of whatever a loop computes that a divergent branch leaves (`OwnValues`), since threads that leave
such a loop after different numbers of iterations leave with different values. It is stated of
kernels where what is listed as uniform in such a loop is used outside of it only by phis that its
edges lead to (`LoopClosed`, what `-lcssa` would make of them). In others the code shares the first
thread's value: the divergence analysis looks for the joins of branches, and a value that is
used after the loop without a phi joins nowhere (DivergenceAnalysis.cpp:75; no script of the
repository runs `-lcssa`). The kernels of MergedRegions with counters are closed in this way too.

ThreadVectorizing's width of 2 is the first with two lanes; a kernel without divergent branches
takes the same actions on instructions as one with them, so the run leaves those out. Its
properties of the result are stated under `RegionsOnlyStore`: when a region gives values to what
follows or is a loop, `removeOldRegion` loses them, which RegionValuesLost shows.
ControlDependence needs five blocks for a branch inside a loop inside another's side.
SymbolicExecution has the code's own sizes (32 threads a warp, 32 banks of 4 bytes, lines of 128
bytes, 64 threads tried), numbers of 15 bits, and launches whose groups are larger than a warp,
as large and smaller, in one to three directions. Accesses are to elements of a pointer's type, of an
aggregate, or based on what an instruction computes; through a GEP or not.

The number of transactions is exact for full warps and bases that are not computed by an
instruction; otherwise it may be more, since an offset that is not known counts as WARP_SIZE. That an
access is consecutive is asked where the base's type gives the width of an element, which it does
not for an aggregate (32 bytes are assumed).

MergedRegions takes the kernels of which `Stated` in MCRegionMerging speaks: each join has two
predecessors and each loop a block that leads to it, as clang makes them without `&&` and `||`;
no phi is without a use. `MergedFirst = {TRUE}` says that the phis of an exiting block list the
merged side first. When they list it second, updateExitPhiNodes takes the wrong entry from the
placeholders (RegionCoarsening.cpp:303); the constant is there to see it. `ThreadsDoTheSame`
leaves out results in which a placeholder was left over (`Missing`), and says nothing of kernels
for which an assertion fails or an erased instruction is followed. `Execution` asks each branch
once and lets a loop's second round leave it: two iterations of a loop are told apart by nothing
the passes do.

Features calls a walk endless when it has visited 12 blocks (`MaxWalked`); the longest that ends on
five blocks is shorter.

**Plain kernels.** Two shapes of divergent loops are excluded from ThreadCoarsening,
MergedRegions and ThreadVectorizing, because the passes mishandle them: loops left from another block than the header
(`LeavesLoopInTheMiddle`: the region of a do-while loop's latch holds the loop's header,
DivergentRegion.cpp:77), and branches whose sides meet
in the header of a following loop (`MeetsInLoopHeader`: extraction moves the header of that
loop's region past the loop's own phis, BranchExtraction.cpp:124). Properties of
DivergenceAnalysis are checked and proved of these kernels too, those about regions for every
region whose own branch does not leave a loop in the middle (`MidLoopExit`).

**Fairness.** `WF_vars(Next)` of DivergenceAnalysis, ControlDependence and FeatureExtraction, for
the liveness part of `DivergenceSpreads` and `EntriesSpread` (`Ends` in Spreading) and for
`DumpsUnlessInnerLoop`: each is a sequential loop that runs until it returns. No scheduler and no
other process is involved. All other properties are safety properties, and extraction,
coarsening and vectorizing advance a counter or shrink a list in every step.

## Proofs

The library's induction theorems take operators as parameters, which the provers cannot
instantiate. `Closures` states what is needed of *sets* instead: a set of numbers with zero and
the successor of each member holds all (`Induction`, from the least element of a set); a function
defined by recursion over `0..n` exists and is unique (`RecursiveExists`, `RecursiveIsUnique`); and
when a set grows in rounds within a finite one, the last round adds nothing (`RoundsEnd`), and
nothing is in it that a closed set could do without (`RoundsAreNeeded`).

`KernelProofs`, for every graph of finitely many blocks: `ReachAvoid` is reachability (closed under
successors, and least); post-dominance is transitive, and antisymmetric when each block can reach
a return; the post-dominators of a block are a chain, so that the CHOOSE in `ImmPostDom` has one
answer, the nearest. They rest on what a post-dominator p leaves behind: the blocks it
post-dominates are a set that can be left through p only (`IsTrap`).
The rest of it is about natural loops and the joins of branches. Dominance is a
tree order; a loop is left by one edge (`LoopLeft`) and entered by one (`LoopEntered`), its exit
post-dominates all of it (`LoopPostDominated`), two loops are nested or apart (`LoopsNest`) and each
block in a loop has an innermost one (`LoopForIsInnermost`), which makes the CHOOSE in `LoopFor` have one
answer; of structured graphs, every cycle lies in a loop whose header it goes through (`CycleIsInLoop`, from
`Structured`'s demand that forward edges make no cycle). `MeetIsJoin`: the two ways from a branch b
meet in its immediate post-dominator p and nowhere else. Suppose they met in another block j, before
another iteration begins. Call a block that b decides about *open* when it leads to j and may yet
avoid it. There is a last open block (`LastOpen`), since forward edges make no cycle, and it is b
itself (`LastOpenIsBranch`): any other would be a branch that dominates j, and b's two ways do not
meet behind one block. So b's other way comes to j through p only; and since j leads back to p
before another iteration, j is on a cycle, in a loop that holds b too (`LoopsOfMeet`), whose header
the cycle avoids.
And for every kernel: `Dependents` is the least closed set around its seeds, and grows
with the joins that are known. For structured ones, the region of a branch is entered at its
header and left at its end only (`RegionIsClosed`): where it ends at the join, the branch dominates
what it decides about, and only a branch that leaves a loop in the middle ends an iteration before
it joins (`OnlyMidLoopExitsEndIterations`); where it ends at the exit of a loop, it is the loop.
`RegionsAreNestedOrApart` follows: of two headers that both dominate a block one dominates the
other (`LastOfTwo`), and the outer region cannot end within the inner (`RegionWithinRegion`).

`DivergenceAnalysisProofs`, for every kernel whose ids are instructions of it:

* `TypeCorrect`, `EachListedOnce`, and `ResultIsLeastClosedSet`: the result is the least set that
  holds the ids and is closed under dependence, in every order. None is inductive alone. The
  invariant `IInv` says, with *known* for listed or queued: ids are known once the analysis runs;
  whatever depends on a listed instruction is known (`VisitedIsClosed`); every closed set that
  holds the ids holds what is known (`KnownIsNeeded`); listed and queued are disjoint and nothing
  is listed twice. When the worklist is empty, known is listed, and the first two give closure,
  the third leastness. `NextKeepsIInv` has one step for each action.
* `HandsOver`: what branch extraction starts from is what the analysis ends in, computed:
  the list is `Dependents`, and its branches are in one of the `BranchOrders`. This takes a second
  invariant, `OrderInv`: each instruction listed or queued depends on the ids through the joins of
  branches listed before it.
* `NoMergeIsMissed`, `RegionsHaveOneWayInAndOut`, `RegionsAreNested`: when the kernel is structured,
  MergesAreDivergent, RegionsAreClosed and RegionsNest hold, for every number of blocks and every
  nesting of loops and branches. The invariant `RegionInv` adds that a listed branch was found to
  have a join and that each listed branch has the region between its bounds; the rest are the
  facts on graphs above.
* `SpreadsSafely`: under the same invariant every step of the analysis is a step of Spreading or
  leaves its variables alone: one visit adds what the visited instruction leads to, and the list
  is handed over with an empty worklist, when it is complete.

`ControlDependenceProofs`, for every set of functions that LLVM's verifier
admits, numbered from one, from each of whose blocks a return can be reached:

* `EntriesAreLeastClosed`: each entry of the forward graph ends up as the least set that holds what
  the walks put there and is closed under them, in every order. The invariant `IInv` has to hold
  of entries that are closed, open and being closed alike, since a traversal reads all three: an
  entry holds its direct children (`HoldsDirect`) and lies in every closed set that does
  (`NoMoreThanNeeded`), the closed ones are closed (`DoneIsClosed`), and what a traversal has met
  leads to what it knows (`Met`), through entries that only grow.
* `EntriesInventNothing` and `EntriesMissNothing`: a block is in an entry only when it depends on the
  entry's block through a chain of Ferrante's dependences, and every such block is when no branch
  has two edges in `S`. `TablesInv` says what `S`, `Ls` and the graphs are; the loops of `findS`
  collect exactly the edges to blocks that do not post-dominate (`EdgesCollects`); a walk from
  such an edge meets the blocks on the chain of post-dominators below the nearest common one,
  which are those that Ferrante's definition names (`ChildrenAreControlled`,
  `ControlledAreChildren`); and the chain of dependences is again a least closed set.
* `TraversalsSpread`: each traversal implements the safety part of Spreading.

`BranchExtractionProofs`, for every kernel in SSA form from each of whose blocks a return can be
reached, of any shape, and every order of the regions. The two steps that change the kernel are
stated of graphs first: `IsSplit` (a block behind another) and `IsDiverted` (the edges from a set of
blocks to one block led through a new one).

* `ExtractionStaysSSA`: StaysSSA, and SSA form at every step between. `ExtractionInv` says that the
  kernel is in SSA form and has the shape LLVM's verifier asks for, that the regions are made of
  its blocks, and that the region in hand has an exiting block in it. What dominated still does
  (`SplitDominates`, `DivertedDominates`: dominance is avoidance of a block on all paths, and a path
  of the new graph without the new block is one of the old), so a definition reaches its uses,
  those moved behind the split (`SplitKeepsSSA`) and those of the phis that were divided
  (`IsolatedKeepsSSA`, with the numbers of the new phis apart from all others, `NewPhisAreNew`).
* `DivergenceIsKept`: DivergenceKept. That the list is what a new analysis would find is not
  inductive, and not true: isolateRegion lists both phis it makes of a divergent one. `IsListed`
  keeps what is true of the list in hand: it holds the ids and is closed under dependence, and
  whatever a closed set with the ids can do without is a phi of a block that was made. Blocks
  join where they did or in the new block before (`SplitJoins`, `DivertedJoins`), so splitting changes
  no influence (`SplitKeepsInfluence`) and isolating changes them only up to what each phi was made
  of (`MadeOf`, `IsolatedInfluence`): a closed set of either kernel gives one of the other.
* `ExtractionComputesTheSame`: ComputesTheSame. Only the end is compared with the original, so the
  invariant `SameInv` has to say what the blocks made on the way are for. `DoesTheSame` says: a copy
  gives what stands for each old value (`IsCopy`; a divided phi is stood for by the one that kept
  its place); behind each old block the new ones form a tree (`IsTree`) whose leaves are the blocks
  it led to, where the branch at the end leads each side to its leaf (`IsSides`); and the values
  of each phi are looked up strictly further up that tree (`IsValues`). Both steps insert one
  block into such trees (`IsInserted`, `TreeGrows`, `SplitValues`, `IsolatedValues`). At the end
  the property is read off the tree (`LeadsIs`, `ValueIs`): the lookups of `ValueFrom` come past the
  new blocks since there are fewer above at every step (`AboveIsLess`).

`NDRangeScalingProofs`, first about the comment's formula `OrigTid`, for every factor, stride and
size: `NoThreadTwice`, `NoThreadLost`, `CopiesStayInRange`, `GroupsAgree`. They rest on lemmas on
quotient and remainder and on writing an id as (row, column) with `stride` columns, of which
`factor` consecutive rows belong to one thread. Then about the emitted code, for every kernel,
launch, factor and stride, and for words and unsigned ints of every width:

* `Invariant`: `IInv` holds. Its four parts: the code is what the kernel has and what the passes have
  added for the calls in `scaled`, in an order that defines operands first (`CodeInv`); `scaled`
  holds calls of the launch's direction (`ScaledInv`); the lists of calls are right for the
  functions looked for (`CallsInv`); the map has the copies of the calls scaled (`MapInv`). Each
  edit of the code is a lemma: what an insertion or a replacement of uses
  leaves in place.
* `OperandsAreDefined`: DefinedBeforeUse, from `CodeInv`.
* `CopiesReadWhatTheyDid`: ReadsWhatItDid. Operands first make the evaluation in one pass give each
  instruction its equation (`ValuesAre`); the equations of the instructions of one call give
  `OrigTid`, computed modulo `Word`, which the launch keeps from wrapping; and the arithmetic
  above says that this is the id of the thread.
* `CopiesAreTheThreads`: EachThreadOnce, from the same values and `NoThreadTwice` to `GroupsAgree`.

`FeatureExtractionProofs`, for every kernel in SSA form all of whose blocks are reached (it need not
be structured, so loops with several entries are included), and for both extractors:

* `WalksMeasureTheWay`: MeasuresTheWay. `WalkInv` says that what is walked or on the stack lies on
  a way from the load to the use, and that with each walked block but the load's its predecessors
  are walked or on the stack. When the stack is empty, what was walked holds the use's block and
  is closed under predecessors but those of the load's block, and the ways are the least such
  set (`WayIs`; going back one cannot miss the load's block, which dominates, `BackToDominator`).
  Where no two ways meet, the stack never holds two blocks and none is walked twice (`Straight`), so that
  the sum is exact (`DistanceCounts`).
* `CollectorIsInvariant`: the lists hold the features of the visited blocks that are behind the
  traversal, in their order. On it rest the other three, each with a fact on kernels alone:
* `LoadsAreCounted`: LoadsAreAccountedFor, since what depends on the ids of one direction depends on
  those of all (`InputIsInvariant`).
* `LiveValuesAreCounted`: CountsWhatIsLive. A block that another dominates is reached from the
  end of that one without passing it again (`DominatedIsAfter`), so that in SSA form a user elsewhere
  is reason enough to be live out (`UsedOutsideIsLive`).
* `DepthsAreLongestChains`: DepthIsLongestChain. The recursion of `Depth` is over operands, not
  numbers; that it has an answer (`DepthsExist`) is shown by iterating it as often as the block has
  instructions. That the answer is the longest chain goes along the block (`AlongTheBlock`): a chain
  to an operand goes on to the user (`ChainGrows`), and a chain without its last instruction ends in
  an operand of that (`ChainIsCut`). Chains go along the block as the code lists it, phis first
  (`Precedes`), so one that takes an earlier phi of its block round the loop waits for it.

`SymbolicExecutionProofs`, for every sequence of accesses, subscript, launch and element size, and
words of every width that cache lines and banks divide:

* `TransactionsAreCounted`, `ConflictsAreCounted`, `ConsecutiveIsAnswered`: TransactionsAreLines,
  ConflictsAreSeen and ConsecutiveAsTried. Node by node, from the arguments to the subscript, the
  wrapped number that the code computes stands for the integer that a thread computes, as long as
  none is negative or reaches half the word (`EvaluatedAsMeant`, by induction over the places of the
  nodes); the 32 points of a warp are the threads there are, repeated when the group is smaller
  (`ThreadStands`, `ThreadsFillWarp`), so the offsets are the addresses (`AddressesAreOffsets`), and
  their lines, or the words in the worst bank, are counted alike. All this is of a base that no
  instruction computes; of another the code counts a line for each thread (`Known`). The invariant `Answered` says
  that the lists hold the answers to the accesses visited, each at its place among those it is for
  (`AlwaysAnswered`, `AnsweredInTurn`).

Assumptions on the constants: `KernelsAssumption` and `FunctionsAssumption` ask for what LLVM's
verifier does (in FeatureExtraction also that blocks, of which none is dead, are numbered from the entry
on), and the latter and that of BranchExtraction for returns that can be reached, as structurize-cfg
leaves them, the latter also for the numbering of blocks and instructions that module Kernel uses and
for ids that are calls; that of SymbolicExecution says what an access and a subscript are,
`SpacesAssumption` that a launch has threads, `WordAssumption` that a number wraps at a multiple of
the sizes of a line and of a row of banks;
`CallsAssumption` says which functions a call can be of; `LaunchesAssumption` that sizes are words,
that factor and stride are positive unsigned ints, and that the host can launch `local / factor`
threads; `WidthsAssumption` and `OptionsAssumption` the ranges of widths and options. TLC evaluates
these and those no proof uses (`FactorAssumption`, `DivRegionOptionsAssumption`,
`MergedFirstAssumption`, `WidthAssumption`, `ExtractorsAssumption`) on the runs.

Model-checked only:

* the liveness half of the refinements and `DumpsUnlessInnerLoop` (liveness under fairness is out
  of the prover's reach);
* of extraction, `RegionsAreReplicable`, `ReplicatedOnce` and `AliveIsCurrent`, which hold of plain
  kernels only and need, beyond `ExtractionInv`, how the regions lie in one another while headers
  and exiting blocks move;
* coarsening, merging, vectorizing: their properties relate whole kernels, copies and maps that the
  actions rebuild, and hold of plain kernels only;
* `PhiArgsByName`, which adds up the operands of sets of phis: what a sum over a set is for every
  set, the library leaves to induction.

## What the runs found

Three disagreements between the code and what it says, each with a run that shows it: see
"findings" in PROJECT.json. In short: LateId (RegionCoarsening.cpp:71), RegionValuesLost
(RegionVectorizing.cpp:199), MergeFalse (RegionCoarsening.cpp:359).

Others met on the way have no run of their own. They are hazards in PROJECT.json, with the guard
by which the properties leave them out or the action that is the failing step:

* the region of a divergent do-while latch contains the loop's header (DivergentRegion.cpp:77);
* a phi erased by isolateRegion stays among the alive values of an outer region that was visited
  before (BranchExtraction.cpp:227);
* after a region in a loop got its own exiting block, the loop has no exit block for LoopInfo, and
  NULL is dereferenced (`DereferenceNull`, BranchExtraction.cpp:82, 110);
* a placeholder made after the copies it stands for is never replaced
  (`MissingOnlyAcrossRegions` says where, Coarsening.cpp:153);
* merging follows instructions and regions it has erased (`EnterRemoved`, RegionCoarsening.cpp:160)
  and takes the wrong entry from placeholders (`MergedFirst`, :303);
* of a divergent phi that is divided both parts are listed as divergent, though the part for the
  values from the region may be the same for all threads: it is replicated without need
  (BranchExtraction.cpp:194; `DivergenceKept` allows for it);
* an edge is dropped when both sides of a branch control something (`OneEdge`,
  ControlDependenceAnalysis.cpp:98);
* a call whose direction is not a constant is found by nobody (NDRange.cpp:276), and vectorizing
  scales no sizes (NDRangeScaling.cpp:117);
* banks are counted in bytes (`ConflictsAreSeen` speaks of words, SubscriptAnalysis.cpp:171),
  negative offsets are one line (`NeverNegative`, :540), an address that cannot be computed ends
  the pass in local memory (:161), and isConsecutive asks for its type before it looks whether there
  is one (:76);
* a base that an instruction computes, as that of a private array, is never known, so its
  accesses count as one transaction for each thread (:469, :230), and the elements of an
  aggregate are taken to be 32 wide (:559);
* a value that differs between threads only by the number of iterations after which they leave
  its loop is shared among them when it is used after the loop without a phi (`LoopClosed`,
  DivergenceAnalysis.cpp:75);
* the walk between a load and its use does not end where a loop lies between them (`Hang`,
  MLPComputation.cpp:78), the first instruction of a block on the way is not counted (:37), and
  phis without names overwrite one another (FeatureCollector.cpp:245).

`-div-region-mgt=merge` selects an empty function (RegionCoarsening.cpp:118), so the further threads
skip every divergent region; `MergeRegion` does nothing, and of such results only SSA form is checked.

## Not modelled, and why

* The order in which RegionBounds::listBlocks lists blocks: no property depends on it. What it
  collects is modelled.
* StructurizeCFG is a copy of LLVM's pass; its result is an assumption.
* The counters of feature extraction that differ from those modelled in what they look for only
  (opcodes, constants, calls, address spaces, edges of a block).
* In vectorizing, types and the kinds of vector instructions; the extraction of a lane stands
  where its vector does. In subscripts, casts and divisions by zero.
* In merging, what leads to an assertion in the code's own terms only: exit phis of more than two
  entries, and two phis of a block that join the same value.
* Printing, option parsing, dump methods, headers and benchmark kernels; helpers that nothing
  calls (much of Utils.cpp). Of the 22036 lines of the repository's sources 13047 are
  tools/scripts/opencl_spir.h, declarations of the OpenCL library taken from elsewhere, and 725
  StructurizeCFG.cpp; the map covers over two fifths of what is left.

## Plan

The system's own code is modelled but for what the section above names. Left, in this order:

1. proofs: of plain kernels, that regions stay nested or apart while they are extracted, and from
   that `RegionsAreReplicable` and `ReplicatedOnce`; each copy reads its own values in coarsening
   (`EachCopyReadsItsOwn`), outside of regions first;
2. kernels with `&&` and `||` for MergedRegions, whose exit phis have three entries;
3. values of regions and loop regions in vectorizing, once the code keeps them.
