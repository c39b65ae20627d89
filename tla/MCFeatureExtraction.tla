-------------------------- MODULE MCFeatureExtraction --------------------------
(****************************************************************************)
(* Small kernels to extract features from: structured graphs, some of whose *)
(* blocks hold two loads and a computation, with values that loops carry.   *)
(****************************************************************************)
EXTENDS FeatureExtraction, SmallKernels

CONSTANTS NBlocks, BodyBlocks

(* The body of a block: a load, perhaps another one that depends on it, and *)
(* a computation of both; a second use of the first load.                   *)
Other(b) == Body(b) + 1
Sum(b) == Body(b) + 2
Again(b) == Body(b) + 3

(* In the header of a loop a second phi: the first one's value in the       *)
(* iteration before.                                                        *)
Delayed(b) == PhiOf(b) + 1

HasDelayed(k, b) == \E p \in Preds(k, b) : Dominates(k, b, p)

DelayedOps(k, b) == [p \in Preds(k, b) |-> IF Dominates(k, b, p) THEN PhiOf(b) ELSE Const]

(* A phi takes the first load of its own block along the back edge of the   *)
(* loop, that of the predecessor along the others.                          *)
PhiOps(k, bodies, b) ==
    [p \in Preds(k, b) |->
        IF b \in bodies /\ Dominates(k, b, p) THEN Body(b)
        ELSE IF p \in bodies THEN Body(p) ELSE Const]

WithLoads(k, bodies, others) ==
    LET phis  == {Delayed(b) : b \in {c \in k.blocks : HasDelayed(k, c)}}
        added == phis \cup UNION {{Other(b), Sum(b), Again(b)} : b \in bodies}
        insts == k.insts \cup added
        Ops(i) ==
            LET b == (i \div Gap) % 10
            IN  CASE i \in phis                      -> DelayedOps(k, b)
                  [] \E c \in bodies : i = Other(c) -> IF b \in others THEN <<Body(b)>> ELSE <<T0>>
                  [] \E c \in bodies : i = Sum(c)   -> <<Body(b), Other(b)>>
                  [] \E c \in bodies : i = Again(c) -> <<Body(b)>>
                  [] k.kind[i] = "phi"              -> PhiOps(k, bodies, k.parent[i])
                  [] OTHER                          -> k.ops[i]
    IN  [k EXCEPT !.insts  = insts,
                  !.parent = [i \in insts |-> IF i \in added THEN (i \div Gap) % 10 ELSE k.parent[i]],
                  !.kind   = [i \in insts |-> IF i \in phis THEN "phi" ELSE IF i \in added THEN "inst" ELSE k.kind[i]],
                  !.ops    = [i \in insts |-> Ops(i)]]

(* Names as -instnamer leaves them; in the other order; none.               *)
InstNamed(k) ==
    [values |-> [i \in k.insts |-> IF i = Store \/ k.kind[i] = "br" THEN 0 ELSE i],
     blocks |-> [b \in k.blocks |-> b]]

Reversed(k) == [InstNamed(k) EXCEPT !.blocks = [b \in k.blocks |-> NBlocks + 1 - b]]

Unnamed(k) == [values |-> [i \in k.insts |-> 0], blocks |-> [b \in k.blocks |-> 0]]

Namings(k, bodies) ==
    IF Cardinality(bodies) = 1 THEN {InstNamed(k), Unnamed(k)} ELSE {Reversed(k)}

Features(k, bodies, naming) ==
    [blocks |-> k.blocks, entry |-> k.entry, succ |-> k.succ, insts |-> k.insts,
     parent |-> k.parent, kind |-> k.kind, ops |-> k.ops, tids |-> k.tids,
     loads  |-> UNION {{Body(b), Other(b)} : b \in bodies},
     valueName |-> naming.values, blockName |-> naming.blocks]

Bodies == (SUBSET BodyBlocks) \ {{}}

(* All branches test an id, or none does.                                   *)
SameTests == {x \in GraphsAndTests(NBlocks) : Cardinality({x[2][b] : b \in DOMAIN x[2]}) <= 1}

(* What the first load of a block reads: the second id, in some kernels.    *)
Read(bodies) == IF Cardinality(bodies) = 1 THEN T1 ELSE Uniform

MCKernels ==
    UNION {UNION {LET k == WithLoads(KernelOf(x[1], x[2], bodies, Read(bodies), TRUE), bodies, bodies \ {2})
                  IN  {Features(k, bodies, naming) : naming \in Namings(k, bodies)} :
                     bodies \in Bodies} : x \in SameTests}
=============================================================================
