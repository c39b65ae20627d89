----------------------------- MODULE RegionCloning -----------------------------
(****************************************************************************)
(* What both transformations do with an outermost region that extraction    *)
(* left: DivergentRegion::clone, getExit, getPredecessor and the loops over *)
(* the clones (RegionCoarsening.cpp and RegionVectorizing.cpp,              *)
(* replicateRegionImpl), which put them one after the other.                *)
(****************************************************************************)
EXTENDS BranchExtraction, TLC

(* The instructions and blocks of the c-th clone.                           *)
Clone(i, c) == i + 20 * c
CloneBlock(b, c) == b + 100 * c

(* source: for each new instruction the one it is a clone of.               *)
WithClones(k, source, parent, ops) ==
    [k EXCEPT !.insts  = @ \cup DOMAIN source,
              !.kind   = @ @@ [j \in DOMAIN source |-> k.kind[source[j]]],
              !.parent = @ @@ parent,
              !.ops    = @ @@ ops]

----------------------------------------------------------------------------
(* What the passes assert. *)

(* replicateRegion: header and exiting block bound the region, as the trees *)
(* of the function the pass was given have it.                              *)
Bounded(given, r) ==
    /\ Dominates(given, r.header, r.exiting)
    /\ PostDominates(given, r.exiting, r.header)

(* getPredecessor; the loops are those of the function the pass was given.  *)
Predecessor(k, given, header) ==
    IF SinglePredecessor(k, header) # NoBlock THEN SinglePredecessor(k, header)
    ELSE IF LoopFor(given, header) = NoBlock THEN NoBlock
    ELSE LET h == LoopFor(given, header)
             P == Preds(k, h) \ LoopBlocks(given, h)
         IN  IF Cardinality(P) = 1 THEN CHOOSE p \in P : TRUE ELSE NoBlock

(* getExit and getPredecessor: one edge leads out of the region, one block  *)
(* leads into it (or a loop can be asked: that there is one is not asserted *)
(* but it is dereferenced).                                                 *)
CanBeConnected(k, given, r) ==
    /\ Len(k.succ[r.exiting]) = 1
    /\ Predecessor(k, given, r.header) # NoBlock

----------------------------------------------------------------------------

(* The outermost region an instruction of the extracted function is in.     *)
InRegion(b) == \E r \in OutermostRegions : Contains(r, b)

RegionAround(b) == CHOOSE r \in OutermostRegions : Contains(r, b)

(* What the c-th clone demands from outside of the region. *)
DemandedBy(k, r) ==
    UNION {Operands(k, i) : i \in {j \in k.insts : Contains(r, k.parent[j])}}
       \ {i \in k.insts : Contains(r, k.parent[i])}

(* DivergentRegion::clone, then the pass's own map: what is in the region is *)
(* read from the clone, for the rest Outside says what is read.             *)
ClonedRegion(k, r, c, Outside(_)) ==
    LET inside == {i \in k.insts : Contains(r, k.parent[i])}
        source == [j \in {Clone(i, c) : i \in inside} |-> CHOOSE i \in inside : j = Clone(i, c)]
        ToBlock(b) == IF Contains(r, b) THEN CloneBlock(b, c) ELSE b
        Of(i, p) ==
            LET o == k.ops[i][p] IN IF o \in inside THEN Clone(o, c) ELSE Outside(o)
        Ops(i) ==
            IF k.kind[i] = "phi"
            THEN [p \in {ToBlock(q) : q \in DOMAIN k.ops[i]} |->
                     Of(i, CHOOSE q \in DOMAIN k.ops[i] : ToBlock(q) = p)]
            ELSE [p \in DOMAIN k.ops[i] |-> Of(i, p)]
        new == {CloneBlock(b, c) : b \in r.blocks}
        Old(b) == CHOOSE a \in r.blocks : b = CloneBlock(a, c)
    IN  WithClones([k EXCEPT !.blocks = @ \cup new,
                             !.succ = @ @@ [b \in new |-> [n \in DOMAIN k.succ[Old(b)] |->
                                                              ToBlock(k.succ[Old(b)][n])]]],
                   source, [j \in DOMAIN source |-> CloneBlock(k.parent[source[j]], c)],
                   [j \in DOMAIN source |-> Ops(source[j])])

(* A fault: the phis after the region are not told that it grew.            *)
ConnectedButPhis(k, r, c, pred, top, bottom) ==
    LET exit == CloneBlock(r.exiting, c)
        k1   == [k EXCEPT !.succ[top] = <<CloneBlock(r.header, c)>>, !.succ[exit] = <<bottom>>]
    IN  [k1 EXCEPT !.ops = RenamedIncoming(k1, {CloneBlock(r.header, c)}, pred, top)]

(* The clone goes between the blocks top and bottom. *)
Connected(k, r, c, pred, top, bottom) ==
    LET exit == CloneBlock(r.exiting, c)
        k1   == [k EXCEPT !.succ[top] = <<CloneBlock(r.header, c)>>, !.succ[exit] = <<bottom>>]
        k2   == [k1 EXCEPT !.ops = RenamedIncoming(k1, {CloneBlock(r.header, c)}, pred, top)]
    IN  [k2 EXCEPT !.ops = RenamedIncoming(k2, {bottom}, top, exit)]

(* A fault: every clone is put right after the region itself.               *)
FirstTop(r, c) == r.exiting

TopInsertionPoint(r, c) == IF c = 1 THEN r.exiting ELSE CloneBlock(r.exiting, c - 1)
=============================================================================
