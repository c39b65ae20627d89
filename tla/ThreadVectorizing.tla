--------------------------- MODULE ThreadVectorizing ---------------------------
(****************************************************************************)
(* lib/Passes/ThreadVectorizing.cpp ("tv"), with RegionVectorizing.cpp and  *)
(* widenTids of NDRangeScaling.cpp: each thread of the result does the work *)
(* of Width threads, one in each lane of its vectors. Like coarsening, the  *)
(* pass runs on what BranchExtraction leaves.                               *)
(*                                                                          *)
(* An outermost divergent instruction gets a vector version, whether by a   *)
(* vector instruction or by Width scalar ones: lane for lane it reads the   *)
(* vector versions of the operands. A uniform operand is widened, one whose *)
(* vector version is yet to come is widened too, as a placeholder. Phis get *)
(* their operands at the end. A region is cloned for each lane and removed. *)
(****************************************************************************)
EXTENDS RegionCloning

CONSTANTS Width,     \* -vectorizing-width
          Scattered  \* stores whose addresses are not consecutive: scalar ones
                     \* are made for each lane, and no vector value comes of it

ASSUME WidthAssumption == Width \in 1..3

VARIABLES
    extracted,   \* the function as BranchExtraction left it
    insts,       \* outermost instructions still to vectorize
    todo,        \* outermost regions still to replicate
    vectorMap,   \* the vector version of a value
    phMap,       \* its placeholder
    vectorPhis,  \* phis whose vector versions have no operands yet
    toRemove     \* toRemoveInsts

tvVars == <<extracted, insts, todo, vectorMap, phMap, vectorPhis, toRemove>>

allVars == <<vars, tvVars>>

Lanes == 1..Width

(* What a value that was erased leaves in its uses. *)
Undef == -1

----------------------------------------------------------------------------
(* The instructions the pass adds, by where they come from. Lane(v, c)      *)
(* stands for every extraction of lane c from vector v; a widened value,    *)
(* two instructions in the code, is one here.                               *)

Vector(i) == i + 1
Widened(i) == i + 5
Placeholder(i) == i + 9
Packed(i) == i + 70
Lane(v, c) == v + c

NewInst(kind, parent, ops) == [kind |-> kind, parent |-> parent, ops |-> ops]

(* new: the instructions to add to kernel k.                                *)
WithInsts(k, new) ==
    [k EXCEPT !.insts  = @ \cup DOMAIN new,
              !.kind   = [j \in DOMAIN new |-> new[j].kind] @@ @,
              !.parent = [j \in DOMAIN new |-> new[j].parent] @@ @,
              !.ops    = [j \in DOMAIN new |-> new[j].ops] @@ @]

(* eraseFromParent of the instructions E, whose uses then read value v.     *)
Without(k, E, v) ==
    LET kept == k.insts \ E
    IN  [k EXCEPT !.insts  = kept,
                  !.kind   = [j \in kept |-> k.kind[j]],
                  !.parent = [j \in kept |-> k.parent[j]],
                  !.ops    = [j \in kept |-> [x \in DOMAIN k.ops[j] |->
                                 IF k.ops[j][x] \in E THEN v ELSE k.ops[j][x]]]]

----------------------------------------------------------------------------

TVInit ==
    /\ Init
    /\ extracted = original
    /\ insts = {} /\ todo = <<>>
    /\ vectorMap = [i \in {} |-> Const]
    /\ phMap = [i \in {} |-> Const]
    /\ vectorPhis = {} /\ toRemove = {}

Extraction ==
    /\ DereferenceNull \/ ExtractBranches \/ BailOut \/ IsolateRegion \/ FillRegions
    /\ UNCHANGED tvVars

rest == <<original, loops, pdt, divInsts, regions, alive, cur>>

(* widenTids: after each id, which keeps its uses, Width times its value,   *)
(* widened, plus the number of each lane. Then the outermost lists are      *)
(* asked for.                                                               *)
WidenTids ==
    /\ pc = "done"
    /\ LET ids == TidsIn(kernel, Direction)
       IN  /\ kernel' = WithInsts(kernel, [v \in {Vector(t) : t \in ids} |->
                            LET t == CHOOSE t \in ids : v = Vector(t)
                            IN  NewInst("inst", kernel.parent[t], <<t>>)])
           /\ vectorMap' = [t \in ids |-> Vector(t)]
    /\ extracted' = kernel
    /\ insts' = OutermostInsts
    /\ todo' = SelectSeq(regions, LAMBDA r : r \in OutermostRegions)
    /\ pc' = "vectorize"
    /\ UNCHANGED <<rest, phMap, vectorPhis, toRemove>>

----------------------------------------------------------------------------
(* getVectorValue. A constant is widened without an instruction, which the  *)
(* builder folds.                                                           *)

ToWiden(O) == {o \in O : o \notin DOMAIN vectorMap \cup divInsts}

ToHold(O) == (O \cap divInsts) \ (DOMAIN vectorMap \cup DOMAIN phMap)

VectorMapWith(O) == vectorMap @@ [o \in ToWiden(O) |-> Widened(o)]

(* A fault: placeholders are not remembered. *)
PhMapWithout(O) == phMap

PhMapWith(O) == phMap @@ [o \in ToHold(O) |-> Placeholder(o)]

VectorValue(o) ==
    CASE o \in {Const, Undef} -> o
      [] o \in divInsts \ DOMAIN vectorMap -> Placeholder(o)
      [] o \in DOMAIN vectorMap -> vectorMap[o]
      [] OTHER -> Widened(o)

(* A fault: it is widened where one of its users is, not where it is.       *)
WidenedForOneUser(k, O) ==
    LET new == {Widened(o) : o \in ToWiden(O)} \cup {Placeholder(o) : o \in ToHold(O)}
        Of(v) == CHOOSE o \in ToWiden(O) \cup ToHold(O) : v \in {Widened(o), Placeholder(o)}
    IN  WithInsts(k, [v \in new |->
            NewInst("inst", k.parent[CHOOSE u \in Users(k, Of(v)) : TRUE], <<Of(v)>>)])

(* The widened values stand right after what they widen. *)
WithVectorValues(k, O) ==
    LET new == {Widened(o) : o \in ToWiden(O)} \cup {Placeholder(o) : o \in ToHold(O)}
        Of(v) == CHOOSE o \in ToWiden(O) \cup ToHold(O) : v \in {Widened(o), Placeholder(o)}
    IN  WithInsts(k, [v \in new |-> NewInst("inst", k.parent[Of(v)], <<Of(v)>>)])

----------------------------------------------------------------------------
(* One iteration of vectorizeFunction's first loop. *)

VectorVersion(i) ==
    NewInst("inst", kernel.parent[i],
            [x \in DOMAIN kernel.ops[i] |-> VectorValue(kernel.ops[i][x])])

(* A fault: the phi gets its operands at once. *)
VectorizePhiAtOnce(i) ==
    /\ pc = "vectorize"
    /\ i \in insts /\ kernel.kind[i] = "phi"
    /\ LET O == Operands(kernel, i)
       IN  /\ kernel' = WithInsts(WithVectorValues(kernel, O), [v \in {Vector(i)} |->
                            [VectorVersion(i) EXCEPT !.kind = "phi"]])
           /\ phMap' = PhMapWith(O)
           /\ vectorMap' = VectorMapWith(O) @@ (i :> Vector(i))
    /\ toRemove' = toRemove \cup {i}
    /\ insts' = insts \ {i}
    /\ UNCHANGED <<rest, pc, extracted, todo, vectorPhis>>

VectorizePhi(i) ==
    /\ pc = "vectorize"
    /\ i \in insts /\ kernel.kind[i] = "phi"
    /\ kernel' = WithInsts(kernel, [v \in {Vector(i)} |->
                     NewInst("phi", kernel.parent[i], [b \in {} |-> Const])])
    /\ vectorPhis' = vectorPhis \cup {i}
    /\ vectorMap' = vectorMap @@ (i :> Vector(i))
    /\ toRemove' = toRemove \cup {i}
    /\ insts' = insts \ {i}
    /\ UNCHANGED <<rest, pc, extracted, todo, phMap>>

VectorizeInst(i) ==
    /\ pc = "vectorize"
    /\ i \in insts /\ kernel.kind[i] = "inst"
    /\ LET O == Operands(kernel, i)
       IN  /\ kernel' = WithInsts(WithVectorValues(kernel, O), [v \in {Vector(i)} |-> VectorVersion(i)])
           /\ phMap' = PhMapWith(O)
           /\ vectorMap' = IF i \in Scattered THEN VectorMapWith(O)
                           ELSE VectorMapWith(O) @@ (i :> Vector(i))
    /\ toRemove' = IF i \in Scattered THEN toRemove ELSE toRemove \cup {i}
    /\ insts' = insts \ {i}
    /\ UNCHANGED <<rest, pc, extracted, todo, vectorPhis>>

----------------------------------------------------------------------------
(* replicateRegion, with -div-region-mgt=classic (the functions for the     *)
(* other options are empty).                                                *)

VectorValues == {vectorMap[o] : o \in DOMAIN vectorMap} \cup {phMap[o] : o \in DOMAIN phMap}

(* The assertions on the way. The alive values are computed anew; when a    *)
(* widened value is among them, createAliveVectors asks for a vector of     *)
(* vectors, which LLVM asserts against.                                     *)
CanBeVectorized(r) ==
    /\ Bounded(extracted, r)
    /\ CanBeConnected(kernel, extracted, r)
    /\ AliveValues(kernel, r) \cap VectorValues = {}

(* BasicBlock::removePredecessor: the phis of block b lose their value for  *)
(* block p; one that is left with another block's value only gives way to   *)
(* it. (The phis of one block do not take values from each other here.)     *)
RemovePredecessor(k, b, p) ==
    LET phis  == {i \in Phis(k, b) : p \in DOMAIN k.ops[i]}
        Other(i) == CHOOSE q \in DOMAIN k.ops[i] : q # p
        E     == {i \in phis : Cardinality(DOMAIN k.ops[i]) = 2 /\ Other(i) # b}
        Value(o) == IF o \notin E THEN o ELSE IF k.ops[o][Other(o)] = o THEN Undef ELSE k.ops[o][Other(o)]
    IN  Without([k EXCEPT !.ops = [i \in k.insts |->
                    [x \in DOMAIN k.ops[i] \ (IF i \in phis THEN {p} ELSE {}) |-> Value(k.ops[i][x])]]],
                E, Undef)

(* removeOldRegion, for a region with the exiting block wired to block b.   *)
WithoutRegion(k, r, b) ==
    LET k1   == RemovePredecessor(k, b, r.exiting)
        k2   == Without(k1, {i \in k1.insts : Contains(r, k1.parent[i])}, Undef)
        kept == k.blocks \ r.blocks
    IN  [k2 EXCEPT !.blocks = kept, !.succ = [c \in kept |-> k.succ[c]]]

(* The clones, each with its lanes of what it demands from outside; behind  *)
(* the last one the alive values are put together again.                    *)
ReplicateRegion ==
    /\ pc = "vectorize" /\ insts = {} /\ todo # <<>>
    /\ CanBeVectorized(Head(todo))
    /\ LET r == Head(todo)
           O == DemandedBy(kernel, r) \cap kernel.insts
           A == AliveValues(kernel, r)
           pred   == Predecessor(kernel, extracted, r.header)
           bottom == kernel.succ[r.exiting][1]
           WithLanes(k, c) ==
               WithInsts(k, [j \in {Lane(VectorValue(o), c) : o \in O} |->
                   LET v == CHOOSE v \in {VectorValue(o) : o \in O} : j = Lane(v, c)
                   IN  NewInst("inst", k.parent[v], <<v>>)])
           R[c \in 0..Width] ==
               IF c = 0 THEN WithVectorValues(kernel, O)
               ELSE LET Outside(o) == IF o \in O THEN Lane(VectorValue(o), c) ELSE o
                    IN  Connected(ClonedRegion(WithLanes(R[c - 1], c), r, c, Outside), r, c, pred,
                                  TopInsertionPoint(r, c), bottom)
           packed == WithInsts(R[Width], [v \in {Packed(a) : a \in A} |->
                         NewInst("inst", CloneBlock(r.exiting, Width),
                                 [c \in Lanes |-> Clone(v - Packed(0), c)])])
           first  == CloneBlock(r.header, 1)
       IN  /\ kernel' = WithoutRegion([packed EXCEPT !.succ[pred][1] = first], r, first)
           /\ vectorMap' = [a \in A |-> Packed(a)] @@ VectorMapWith(O)
           /\ phMap' = PhMapWith(O)
    /\ todo' = Tail(todo)
    /\ UNCHANGED <<rest, pc, extracted, insts, vectorPhis, toRemove>>

Abort ==
    /\ pc = "vectorize" /\ insts = {} /\ todo # <<>>
    /\ ~CanBeVectorized(Head(todo))
    /\ pc' = "aborted"
    /\ UNCHANGED <<rest, kernel, tvVars>>

----------------------------------------------------------------------------
(* The end of the pass. *)

FixPhiNodes ==
    /\ pc = "vectorize" /\ insts = {} /\ todo = <<>>
    /\ LET O == (UNION {Operands(kernel, i) : i \in vectorPhis}) \cap kernel.insts
       IN  /\ kernel' = WithInsts(WithVectorValues(kernel, O),
                            [v \in {Vector(i) : i \in vectorPhis} |->
                               [VectorVersion(v - Vector(0)) EXCEPT !.kind = "phi"]])
           /\ vectorMap' = VectorMapWith(O)
           /\ phMap' = PhMapWith(O)
    /\ pc' = "fixed"
    /\ UNCHANGED <<rest, extracted, insts, todo, vectorPhis, toRemove>>

RemoveVectorPlaceholders ==
    /\ pc = "fixed"
    /\ LET held == DOMAIN phMap \cap DOMAIN vectorMap
           New(p) == IF \E o \in held : phMap[o] = p
                     THEN vectorMap[CHOOSE o \in held : phMap[o] = p] ELSE p
       IN  kernel' = [kernel EXCEPT !.ops = [i \in kernel.insts |->
                         [x \in DOMAIN kernel.ops[i] |-> New(kernel.ops[i][x])]]]
    /\ pc' = "replaced"
    /\ UNCHANGED <<rest, tvVars>>

(* A fault: only what is listed is removed. *)
ListedOnly(k, S) == S

(* The sweep over the users of what is to be removed. *)
WithUsers(k, S) ==
    LET Sweep[n \in 0..Cardinality(k.insts)] ==
            IF n = 0 THEN S
            ELSE LET T == Sweep[n - 1] IN T \cup UNION {Users(k, i) : i \in T}
    IN  Sweep[Cardinality(k.insts)]

RemoveScalarInsts ==
    /\ pc = "replaced"
    /\ kernel' = Without(kernel, WithUsers(kernel, toRemove), Const)
    /\ pc' = "vectorized"
    /\ UNCHANGED <<rest, tvVars>>

TVTerminated == pc \in {"vectorized", "aborted", "crashed"} /\ UNCHANGED allVars

TVNext ==
    \/ Extraction
    \/ WidenTids
    \/ \E i \in insts : VectorizePhi(i) \/ VectorizeInst(i)
    \/ ReplicateRegion
    \/ Abort
    \/ FixPhiNodes
    \/ RemoveVectorPlaceholders
    \/ RemoveScalarInsts
    \/ TVTerminated

TVSpec == TVInit /\ [][TVNext]_allVars

----------------------------------------------------------------------------
(* What the result should be. *)

Outermost == {i \in divInsts \ AllTids(extracted) : ~InRegion(extracted.parent[i])}

(* No region gives a value to what follows, and none is a loop: what        *)
(* removeOldRegion forgets of them then is of no consequence.               *)
RegionsOnlyStore ==
    \A r \in OutermostRegions :
        AliveValues(extracted, r) = {} /\ ~IsLoopHeader(extracted, r.header)

(* The vector version of a value. *)
VectorFor(o) ==
    CASE o = Const -> Const
      [] o \in divInsts -> Vector(o)
      [] o \in extracted.insts \ divInsts -> Widened(o)

(* The block that control comes from when it came from p. *)
Incoming(p) == IF \E r \in OutermostRegions : r.exiting = p THEN CloneBlock(p, Width) ELSE p

(* What the clone for lane c of instruction i of region r reads for o.      *)
LaneFor(r, o, c) ==
    CASE o = Const -> Const
      [] o \in extracted.insts /\ Contains(r, extracted.parent[o]) -> Clone(o, c)
      [] o \in extracted.insts /\ ~Contains(r, extracted.parent[o]) -> Lane(VectorFor(o), c)

----------------------------------------------------------------------------
(* Properties. *)

(* The result is in SSA form whatever the order was: the widened values, the *)
(* lanes and the phis' operands are where they are needed, and no           *)
(* instruction that was removed is in use.                                  *)
ResultIsSSA == (pc = "vectorized" /\ RegionsOnlyStore) => SSA(kernel)

(* The vector version of an instruction reads the vector versions of its    *)
(* operands, never a placeholder or another instruction's, and the clone    *)
(* for a lane reads that lane of what it takes from outside of its region.  *)
LanesReadTheirOwn ==
    (pc = "vectorized" /\ RegionsOnlyStore) =>
        /\ \A i \in Outermost :
              /\ Vector(i) \in kernel.insts
              /\ \A x \in DOMAIN extracted.ops[i] :
                    kernel.ops[Vector(i)][IF extracted.kind[i] = "phi" THEN Incoming(x) ELSE x]
                       = VectorFor(extracted.ops[i][x])
        /\ \A r \in OutermostRegions : \A i \in extracted.insts : \A c \in Lanes :
              Contains(r, extracted.parent[i]) =>
                 /\ Clone(i, c) \in kernel.insts
                 /\ {kernel.ops[Clone(i, c)][x] : x \in DOMAIN kernel.ops[Clone(i, c)]}
                       = {LaneFor(r, extracted.ops[i][x], c) : x \in DOMAIN extracted.ops[i]}

(* No scalar instruction stays beside its vector version, which would do a  *)
(* store a second time, for one thread and with the new launch's id: the    *)
(* sweep over users reaches all but scattered stores that depend on ids or  *)
(* on regions alone. And it takes nothing that all threads share.           *)
ScalarsGiveWay ==
    pc = "vectorized" =>
        /\ \A i \in Outermost \cap kernel.insts :
              i \in Scattered /\ Operands(extracted, i) \cap Outermost = {}
        /\ \A i \in extracted.insts \ divInsts :
              ~InRegion(extracted.parent[i]) => i \in kernel.insts

(* The pass aborts only when an instruction outside of the regions, other   *)
(* than a phi, takes a value from within one.                               *)
AbortsForRegionValuesOnly ==
    pc = "aborted" => \E r \in OutermostRegions : \E a \in AliveValues(extracted, r) :
        \E u \in Users(extracted, a) :
            ~InRegion(extracted.parent[u]) /\ extracted.kind[u] # "phi"

(* The comment in removeOldRegion: "since this block is unreachable, and    *)
(* all values contained within it must dominate their uses, that all uses   *)
(* will eventually be removed (they are themselves dead)." So nothing that  *)
(* is left reads what they were replaced by.                                *)
NothingIsUndefined ==
    pc = "vectorized" => \A i \in kernel.insts : \A x \in DOMAIN kernel.ops[i] :
        kernel.ops[i][x] # Undef
=============================================================================
