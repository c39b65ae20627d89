------------------------------ MODULE Execution ------------------------------
(****************************************************************************)
(* What a kernel computes: the instructions it executes on the way that its *)
(* branches decide, each as the tree of what it was computed from. The phis *)
(* on the way are resolved, so two kernels that do the same along different *)
(* blocks execute the same trees.                                           *)
(*                                                                          *)
(* A branch is asked once which way it goes; when a loop brings control     *)
(* back to it, it goes the other way. So every loop is left after one round *)
(* at most.                                                                 *)
(****************************************************************************)
EXTENDS Kernel

Tree(op, of) == [op |-> op, of |-> of]

Constant == Tree(Const, <<>>)

(* What no execution of a kernel in SSA form computes with.                 *)
Undefined == Tree(-1, <<>>)

(* The computations of block b.                                             *)
Computations(k, b) == {i \in Insts(k, b) : k.kind[i] = "inst"}

(* Named(i, of) is what instruction i computes from its operands' trees,    *)
(* Goes(b) the successor block b goes to when its branch is first asked.    *)
(* A step computes the next instruction of the block control is at, or goes *)
(* on to the next block and its phis.                                       *)
Executed(k, Named(_, _), Goes(_)) ==
    LET Value(env, o) == CASE o = Const        -> Constant
                           [] o \in DOMAIN env -> env[o]
                           [] OTHER            -> Undefined
        With(env, i, tree) == [j \in DOMAIN env \cup {i} |-> IF j = i THEN tree ELSE env[j]]
        WithPhis(env, b, from) ==
            [j \in DOMAIN env \cup Phis(k, b) |->
                IF j \notin Phis(k, b) THEN env[j]
                ELSE IF from \in DOMAIN k.ops[j] THEN Value(env, k.ops[j][from]) ELSE Undefined]
        Enter(s, b) ==
            [s EXCEPT !.at = b, !.left = Computations(k, b), !.env = WithPhis(s.env, b, s.at)]
        Compute(s, i) ==
            LET tree == Named(i, [x \in DOMAIN k.ops[i] |-> Value(s.env, k.ops[i][x])])
            IN  [s EXCEPT !.left = @ \ {i}, !.env = With(s.env, i, tree), !.trees = @ \cup {tree}]
        Branch(s) ==
            LET n == Goes(s.at)
            IN  Enter([s EXCEPT !.asked = @ \cup {s.at}], k.succ[s.at][IF s.at \in s.asked THEN 3 - n ELSE n])
        Step(s) ==
            IF s.left # {} THEN Compute(s, CHOOSE i \in s.left : \A j \in s.left : i <= j)
            ELSE CASE Len(k.succ[s.at]) = 2 -> Branch(s)
                   [] Len(k.succ[s.at]) = 1 -> Enter(s, k.succ[s.at][1])
                   [] OTHER                 -> s
        Start == [at |-> k.entry, left |-> Computations(k, k.entry), env |-> [i \in {} |-> Constant],
                  asked |-> {}, trees |-> {}]
        After[n \in 0..(2 * (Cardinality(k.blocks) + Cardinality(k.insts)))] ==
            IF n = 0 THEN Start ELSE LET s == After[n - 1] IN Step(s)
    IN  After[2 * (Cardinality(k.blocks) + Cardinality(k.insts))].trees
=============================================================================
