------------------------------ MODULE Spreading ------------------------------
(****************************************************************************)
(* What the worklist algorithms of the analyses promise, whatever they walk *)
(* along and in whatever order: from some seeds a set grows by what its     *)
(* members lead to and by nothing else; it is handed over when all that     *)
(* they lead to is in it, and not before; and it comes to that. What was    *)
(* found may then be written back, as all that one element leads to.        *)
(*                                                                          *)
(* DivergenceAnalysis spreads once, ControlDependence once for each block.  *)
(****************************************************************************)

VARIABLES
    stage,  \* "idle", "spreading", or "failed"
    edges,  \* what each element leads to
    seeds,  \* where this spreading starts
    known   \* what it has found

vars == <<stage, edges, seeds, known>>

Complete == \A e \in known : edges[e] \subseteq known

Init == stage = "idle" /\ known = {}

(* Between two spreadings the edges may be drawn anew.                      *)
Prepare == stage = "idle" /\ stage' = "idle" /\ known' = known

Begin ==
    /\ stage = "idle" /\ stage' = "spreading"
    /\ known' = seeds'
    /\ edges' = edges

Spread(e) ==
    /\ stage = "spreading"
    /\ known' = known \cup edges[e]
    /\ UNCHANGED <<stage, edges, seeds>>

HandOver ==
    /\ stage = "spreading" /\ stage' = "idle"
    /\ Complete
    /\ \/ known' = known /\ edges' = edges
       \/ known' = {} /\ \E e \in DOMAIN edges : edges' = [edges EXCEPT ![e] = known]

Fail == stage' = "failed" /\ UNCHANGED <<edges, seeds, known>>

Next ==
    \/ Prepare
    \/ Begin
    \/ \E e \in known : Spread(e)
    \/ HandOver
    \/ Fail

(* What may happen, and that each spreading comes to an end.                *)
Safe == Init /\ [][Next]_vars

Ends == (stage = "spreading") ~> (stage # "spreading")

Spec == Safe /\ Ends
=============================================================================
