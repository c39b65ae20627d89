------------------------ MODULE ControlDependenceProofs ------------------------
(****************************************************************************)
(* What ControlDependence promises for every graph, every order in which    *)
(* the entries are closed and every order of each traversal: the result is  *)
(* the least closure, and each traversal implements module Spreading. And   *)
(* what it promises with the definition of Ferrante et al.: the edges that  *)
(* findS collects, the walks over the post-dominator tree and the closure   *)
(* of what they met leave nothing in the graphs that does not depend on the *)
(* entry's block, and, where no branch has two edges in s, miss nothing     *)
(* that does.                                                               *)
(****************************************************************************)
EXTENDS ControlDependence, KernelProofs

(* The inductive invariant. An entry holds what its block controls directly *)
(* and nothing that is not in every closed set that does (an entry may be   *)
(* open or closed: both are true of either); those that were closed are     *)
(* closed; what a traversal has met leads to what it knows.                 *)
Traversing == block # NoBlock

KnownNow == worklist \cup result

Built == pc \in {"transitiveClosure", "done"}

TypeInv ==
    /\ function \in Functions
    /\ pc \in {"findS", "findLs", "buildGraph", "transitiveClosure", "done", "aborted"}
    /\ Built => DOMAIN forwardGraph = function.blocks
    /\ block \in function.blocks \cup {NoBlock}
    /\ toClose \subseteq function.blocks
    /\ Traversing => pc = "transitiveClosure"
    /\ ~Traversing => KnownNow = {}
    /\ pc = "done" => toClose = {}

HoldsDirect == Built => \A a \in function.blocks : Direct(a) \subseteq forwardGraph[a]

NoMoreThanNeeded ==
    Built => \A a \in function.blocks : \A S \in SUBSET function.blocks :
        Direct(a) \subseteq S /\ IsClosed(S) => forwardGraph[a] \subseteq S

WithinFunction == Built => \A a \in function.blocks : forwardGraph[a] \subseteq function.blocks

DoneIsClosed ==
    Built => \A a \in function.blocks \ (toClose \cup {block}) : IsClosed(forwardGraph[a])

Met ==
    Traversing =>
        /\ KnownNow \subseteq function.blocks
        /\ Direct(block) \subseteq KnownNow
        /\ \A c \in result : forwardGraph[c] \subseteq KnownNow
        /\ \A S \in SUBSET function.blocks :
              Direct(block) \subseteq S /\ IsClosed(S) => KnownNow \subseteq S

IInv ==
    /\ TypeInv
    /\ HoldsDirect
    /\ NoMoreThanNeeded
    /\ WithinFunction
    /\ DoneIsClosed
    /\ Met

----------------------------------------------------------------------------

(* The walks over the tree stay in the function.                            *)
LEMMA DirectInFunction == ASSUME NEW a PROVE Direct(a) \subseteq function.blocks
BY DEF Direct, Children, Between

(* No block is called NoBlock.                                              *)
LEMMA NoBlockIsNone == TypeInv => NoBlock \notin function.blocks
BY FunctionsAssumption DEF TypeInv, IsGraph

(* What depends on the graph and its edges only.                            *)
LEMMA SameDirect ==
    ASSUME UNCHANGED <<function, s, ls>>
    PROVE  /\ \A a : Direct(a)' = Direct(a)
           /\ \A S : IsClosed(S)' = IsClosed(S)
<1>1. \A a : Direct(a)' = Direct(a)
  BY DEF Direct, Children, Between, FirstEdge
<1>2. QED
  BY <1>1 DEF IsClosed

----------------------------------------------------------------------------
(* The invariant holds initially and every step keeps it. *)

LEMMA InitIInv == Init => IInv
<1> SUFFICES ASSUME Init PROVE IInv
  OBVIOUS
<1> USE DEF Init
<1>1. ~Built /\ ~Traversing /\ KnownNow = {}
  BY DEF Built, Traversing, KnownNow
<1>2. QED
  BY <1>1 DEF IInv, TypeInv, HoldsDirect, NoMoreThanNeeded, WithinFunction, DoneIsClosed, Met

(* Before the graph is built there is nothing to keep.                      *)
LEMMA EarlyStepKeepsIInv ==
    ASSUME IInv,
           UNCHANGED <<function, toClose, block, worklist, result>>,
           pc \in {"findS", "findLs"},
           pc' \in {"findLs", "buildGraph", "aborted"}
    PROVE  IInv'
<1>1. ~Built /\ ~Built'
  BY DEF Built
<1>2. ~Traversing /\ ~Traversing' /\ KnownNow = {} /\ KnownNow' = {}
  BY DEF IInv, TypeInv, Traversing, KnownNow
<1>3. TypeInv'
  BY <1>1, <1>2 DEF IInv, TypeInv
<1>4. QED
  BY <1>1, <1>2, <1>3 DEF IInv, HoldsDirect, NoMoreThanNeeded, WithinFunction, DoneIsClosed, Met

(* Every entry begins as what its block controls directly.                  *)
LEMMA BuildGraphKeepsIInv == IInv /\ BuildGraph => IInv'
<1> SUFFICES ASSUME IInv, BuildGraph PROVE IInv'
  OBVIOUS
<1> USE DEF BuildGraph
<1>1. \A a : Direct(a)' = Direct(a)
  BY SameDirect
<1>2. ~Traversing /\ ~Traversing' /\ KnownNow = {} /\ KnownNow' = {}
  BY DEF IInv, TypeInv, Traversing, KnownNow
<1>3. \A a \in function.blocks : forwardGraph'[a] = Direct(a)
  OBVIOUS
<1>4. TypeInv'
  BY <1>2 DEF IInv, TypeInv, Built
<1>5. HoldsDirect' /\ NoMoreThanNeeded' /\ WithinFunction'
  BY <1>1, <1>3, DirectInFunction DEF HoldsDirect, NoMoreThanNeeded, WithinFunction
<1>6. DoneIsClosed' /\ Met'
  BY <1>2 DEF DoneIsClosed, Met
<1>7. QED
  BY <1>4, <1>5, <1>6 DEF IInv

(* A traversal begins with the entry as it is.                              *)
LEMMA StartTraversalKeepsIInv ==
    ASSUME NEW b \in toClose, IInv, StartTraversal(b)
    PROVE  IInv'
<1> USE DEF StartTraversal
<1>1. /\ \A a : Direct(a)' = Direct(a)
      /\ \A S : IsClosed(S)' = IsClosed(S)
  BY SameDirect
<1>2. b \in function.blocks /\ b # NoBlock /\ Built /\ Built'
  BY NoBlockIsNone DEF IInv, TypeInv, Built
<1>3. KnownNow' = forwardGraph[b] /\ Traversing'
  BY <1>2 DEF KnownNow, Traversing
<1>4. TypeInv'
  BY <1>2, <1>3 DEF IInv, TypeInv
<1>5. HoldsDirect' /\ NoMoreThanNeeded' /\ WithinFunction'
  BY <1>1, <1>2 DEF IInv, HoldsDirect, NoMoreThanNeeded, WithinFunction
<1>6. DoneIsClosed'
  <2> SUFFICES ASSUME NEW a \in function.blocks, a \notin toClose', a # block'
               PROVE  IsClosed(forwardGraph[a])
    BY <1>1 DEF DoneIsClosed
  <2>1. a \notin toClose \cup {block}
    BY NoBlockIsNone DEF IInv
  <2>2. QED
    BY <2>1, <1>2 DEF IInv, DoneIsClosed
<1>7. Met'
  BY <1>1, <1>2, <1>3 DEF IInv, HoldsDirect, NoMoreThanNeeded, WithinFunction, Met
<1>8. QED
  BY <1>4, <1>5, <1>6, <1>7 DEF IInv

(* Following one block adds its entry, whether that is closed or open, and  *)
(* what the entry holds is needed because the block is.                     *)
LEMMA TraverseKeepsIInv ==
    ASSUME NEW c \in worklist, IInv, Traverse(c)
    PROVE  IInv'
<1> USE DEF Traverse
<1>1. /\ \A a : Direct(a)' = Direct(a)
      /\ \A S : IsClosed(S)' = IsClosed(S)
  BY SameDirect
<1>2. c \in KnownNow /\ Traversing /\ Traversing'
  BY DEF IInv, TypeInv, KnownNow, Traversing
<1>3. KnownNow' = KnownNow \cup forwardGraph[c]
  BY DEF KnownNow, NewChildren
<1>4. Built /\ Built' /\ c \in function.blocks /\ block \in function.blocks
  BY <1>2 DEF IInv, TypeInv, Built, Met, Traversing
<1>5. TypeInv'
  BY <1>2 DEF IInv, TypeInv, Built, Traversing
<1>6. HoldsDirect' /\ NoMoreThanNeeded' /\ WithinFunction' /\ DoneIsClosed'
  BY <1>1, <1>4 DEF IInv, HoldsDirect, NoMoreThanNeeded, WithinFunction, DoneIsClosed
<1>7. Met'
  <2>1. KnownNow' \subseteq function.blocks /\ Direct(block)' \subseteq KnownNow'
    BY <1>1, <1>2, <1>3, <1>4 DEF IInv, Met, WithinFunction
  <2>2. \A d \in result' : forwardGraph'[d] \subseteq KnownNow'
    BY <1>2, <1>3 DEF IInv, Met
  <2>3. ASSUME NEW S \in SUBSET function.blocks, Direct(block) \subseteq S, IsClosed(S)
        PROVE  KnownNow' \subseteq S
    <3>1. KnownNow \subseteq S
      BY <2>3, <1>2 DEF IInv, Met
    <3>2. Direct(c) \subseteq S
      BY <3>1, <2>3, <1>2 DEF IsClosed
    <3>3. forwardGraph[c] \subseteq S
      BY <3>2, <2>3, <1>4 DEF IInv, NoMoreThanNeeded
    <3>4. QED
      BY <3>1, <3>3, <1>3
  <2>4. QED
    BY <2>1, <2>2, <2>3, <1>1 DEF Met
<1>8. QED
  BY <1>5, <1>6, <1>7 DEF IInv

(* What a traversal met when it ends is closed, and becomes the entry.      *)
LEMMA EndTraversalKeepsIInv == IInv /\ EndTraversal => IInv'
<1> SUFFICES ASSUME IInv, EndTraversal PROVE IInv'
  OBVIOUS
<1> USE DEF EndTraversal
<1>1. /\ \A a : Direct(a)' = Direct(a)
      /\ \A S : IsClosed(S)' = IsClosed(S)
  BY SameDirect
<1>2. Traversing /\ ~Traversing' /\ KnownNow = result /\ KnownNow' = {}
  BY DEF Traversing, KnownNow
<1>3. Built /\ Built' /\ block \in function.blocks /\ DOMAIN forwardGraph = function.blocks
  BY <1>2 DEF IInv, TypeInv, Built, Traversing
<1>4. \A a \in function.blocks : forwardGraph'[a] = IF a = block THEN result ELSE forwardGraph[a]
  BY <1>3
<1>5. IsClosed(result)
  <2> SUFFICES ASSUME NEW c \in result PROVE Direct(c) \subseteq result
    BY DEF IsClosed
  <2>1. c \in function.blocks /\ forwardGraph[c] \subseteq result
    BY <1>2 DEF IInv, Met
  <2>2. QED
    BY <2>1, <1>3 DEF IInv, HoldsDirect
<1>6. TypeInv'
  BY <1>2, <1>3 DEF IInv, TypeInv
<1>7. HoldsDirect' /\ NoMoreThanNeeded' /\ WithinFunction'
  BY <1>1, <1>2, <1>3, <1>4 DEF IInv, HoldsDirect, NoMoreThanNeeded, WithinFunction, Met
<1>8. DoneIsClosed'
  <2> SUFFICES ASSUME NEW a \in function.blocks, a \notin toClose
               PROVE  IsClosed(forwardGraph'[a])
    BY <1>1 DEF DoneIsClosed
  <2>1. CASE a = block
    BY <2>1, <1>4, <1>5
  <2>2. CASE a # block
    BY <2>2, <1>3, <1>4 DEF IInv, DoneIsClosed
  <2>3. QED
    BY <2>1, <2>2
<1>9. Met'
  BY <1>2 DEF Met
<1>10. QED
  BY <1>6, <1>7, <1>8, <1>9 DEF IInv

(* The last step leaves the entries as they are.                            *)
LEMMA BuildBackwardGraphKeepsIInv == IInv /\ BuildBackwardGraph => IInv'
<1> SUFFICES ASSUME IInv, BuildBackwardGraph PROVE IInv'
  OBVIOUS
<1> USE DEF BuildBackwardGraph
<1>1. /\ \A a : Direct(a)' = Direct(a)
      /\ \A S : IsClosed(S)' = IsClosed(S)
  BY SameDirect
<1>2. Built /\ Built' /\ ~Traversing /\ ~Traversing' /\ KnownNow' = KnownNow
  BY DEF Built, Traversing, KnownNow
<1>3. TypeInv'
  BY <1>2 DEF IInv, TypeInv
<1>4. HoldsDirect' /\ NoMoreThanNeeded' /\ WithinFunction' /\ DoneIsClosed' /\ Met'
  BY <1>1, <1>2 DEF IInv, HoldsDirect, NoMoreThanNeeded, WithinFunction, DoneIsClosed, Met
<1>5. QED
  BY <1>3, <1>4 DEF IInv

LEMMA StutterKeepsIInv == IInv /\ UNCHANGED vars => IInv'
<1> SUFFICES ASSUME IInv, UNCHANGED vars PROVE IInv'
  OBVIOUS
<1> USE DEF vars
<1>1. /\ \A a : Direct(a)' = Direct(a)
      /\ \A S : IsClosed(S)' = IsClosed(S)
  BY SameDirect
<1>2. Built' = Built /\ Traversing' = Traversing /\ KnownNow' = KnownNow
  BY DEF Built, Traversing, KnownNow
<1>3. QED
  BY <1>1, <1>2 DEF IInv, TypeInv, HoldsDirect, NoMoreThanNeeded, WithinFunction, DoneIsClosed, Met

LEMMA NextKeepsIInv == IInv /\ [Next]_vars => IInv'
<1> SUFFICES ASSUME IInv, [Next]_vars PROVE IInv'
  OBVIOUS
<1>1. CASE FindS
  BY <1>1, EarlyStepKeepsIInv DEF FindS
<1>2. CASE FindLs
  BY <1>2, EarlyStepKeepsIInv DEF FindLs
<1>3. CASE Abort
  BY <1>3, EarlyStepKeepsIInv DEF Abort
<1>4. CASE BuildGraph
  BY <1>4, BuildGraphKeepsIInv
<1>5. ASSUME NEW b \in toClose, StartTraversal(b) PROVE IInv'
  BY <1>5, StartTraversalKeepsIInv
<1>6. ASSUME NEW c \in worklist, Traverse(c) PROVE IInv'
  BY <1>6, TraverseKeepsIInv
<1>7. CASE EndTraversal
  BY <1>7, EndTraversalKeepsIInv
<1>8. CASE BuildBackwardGraph
  BY <1>8, BuildBackwardGraphKeepsIInv
<1>9. CASE UNCHANGED vars
  BY <1>9, StutterKeepsIInv
<1>10. QED
  BY <1>1, <1>2, <1>3, <1>4, <1>5, <1>6, <1>7, <1>8, <1>9 DEF Next, Terminated

LEMMA Invariance == Spec => []IInv
BY InitIInv, NextKeepsIInv, PTL DEF Spec

----------------------------------------------------------------------------
(* What the invariant says. *)

(* Closing the entries in place is safe for every graph, every order of the *)
(* blocks and every order of each traversal: each entry ends as the least   *)
(* set that holds what its block controls directly and is closed.           *)
THEOREM EntriesAreLeastClosed == Spec => []ClosedInAnyOrder
<1>1. IInv => ClosedInAnyOrder
  <2> SUFFICES ASSUME IInv, pc = "done", NEW a \in function.blocks
               PROVE  /\ Direct(a) \subseteq forwardGraph[a]
                      /\ IsClosed(forwardGraph[a])
                      /\ \A S \in SUBSET forwardGraph[a] :
                            Direct(a) \subseteq S /\ IsClosed(S) => S = forwardGraph[a]
    BY DEF ClosedInAnyOrder
  <2>1. Built /\ ~Traversing /\ toClose = {}
    BY DEF Built, IInv, TypeInv
  <2>2. a # block
    BY <2>1, NoBlockIsNone DEF IInv, Traversing
  <2>3. Direct(a) \subseteq forwardGraph[a] /\ IsClosed(forwardGraph[a])
    BY <2>1, <2>2 DEF IInv, HoldsDirect, DoneIsClosed
  <2>4. \A S \in SUBSET forwardGraph[a] :
           Direct(a) \subseteq S /\ IsClosed(S) => S = forwardGraph[a]
    BY <2>1 DEF IInv, NoMoreThanNeeded, WithinFunction
  <2>5. QED
    BY <2>3, <2>4
<1>2. QED
  BY <1>1, Invariance, PTL

----------------------------------------------------------------------------
(* Each traversal implements the abstract specification of module Spreading *)
(* (but for its liveness, which the run checks).                            *)

LEMMA InitSpreads == Init => Spread!Init
BY DEF Init, Spread!Init

(* What happens between two traversals may draw the entries anew.           *)
LEMMA IdleStepPrepares ==
    ASSUME UNCHANGED <<block, worklist, result>>, block = NoBlock,
           pc # "aborted", pc' # "aborted"
    PROVE  Spread!Next
<1>1. Spread!Prepare
  BY DEF Spread!Prepare
<1>2. QED
  BY <1>1 DEF Spread!Next

LEMMA StartTraversalBegins ==
    ASSUME NEW b \in toClose, IInv, StartTraversal(b)
    PROVE  Spread!Next
<1>1. b # NoBlock
  BY NoBlockIsNone DEF IInv, TypeInv
<1>2. Spread!Begin
  BY <1>1 DEF StartTraversal, Spread!Begin
<1>3. QED
  BY <1>2 DEF Spread!Next

LEMMA TraverseSpreads ==
    ASSUME NEW c \in worklist, IInv, Traverse(c)
    PROVE  Spread!Next
<1>1. block # NoBlock /\ pc # "aborted"
  BY DEF IInv, TypeInv, KnownNow, Traversing
<1>2. (worklist \cup result)' = (worklist \cup result) \cup forwardGraph[c]
  BY DEF Traverse, NewChildren
<1>3. Spread!Spread(c)
  BY <1>1, <1>2 DEF Traverse, Spread!Spread
<1>4. QED
  BY <1>3 DEF Spread!Next

LEMMA EndTraversalHandsOver ==
    ASSUME IInv, EndTraversal
    PROVE  Spread!Next
<1> USE DEF EndTraversal
<1>1. pc # "aborted" /\ block \in DOMAIN forwardGraph /\ worklist \cup result = result
  BY DEF IInv, TypeInv, Traversing, Built
<1>2. Spread!Complete
  BY <1>1 DEF IInv, Met, Traversing, KnownNow, Spread!Complete
<1>3. Spread!HandOver
  BY <1>1, <1>2 DEF Spread!HandOver
<1>4. QED
  BY <1>3 DEF Spread!Next

LEMMA NextSpreads == IInv /\ [Next]_vars => [Spread!Next]_(Spread!vars)
<1> SUFFICES ASSUME IInv, [Next]_vars PROVE Spread!Next \/ UNCHANGED Spread!vars
  OBVIOUS
<1>1. ~Traversing => block = NoBlock
  BY DEF Traversing
<1>2. pc # "transitiveClosure" => block = NoBlock
  BY DEF IInv, TypeInv, Traversing
<1>3. CASE FindS
  BY <1>3, <1>2, IdleStepPrepares DEF FindS
<1>4. CASE FindLs
  BY <1>4, <1>2, IdleStepPrepares DEF FindLs
<1>5. CASE Abort
  BY <1>5, <1>2 DEF Abort, Spread!Next, Spread!Fail
<1>6. CASE BuildGraph
  BY <1>6, <1>2, IdleStepPrepares DEF BuildGraph
<1>7. ASSUME NEW b \in toClose, StartTraversal(b) PROVE Spread!Next
  BY <1>7, StartTraversalBegins
<1>8. ASSUME NEW c \in worklist, Traverse(c) PROVE Spread!Next
  BY <1>8, TraverseSpreads
<1>9. CASE EndTraversal
  BY <1>9, EndTraversalHandsOver
<1>10. CASE BuildBackwardGraph
  BY <1>10, IdleStepPrepares DEF BuildBackwardGraph
<1>11. CASE UNCHANGED vars
  BY <1>11 DEF vars, Spread!vars
<1>12. QED
  BY <1>3, <1>4, <1>5, <1>6, <1>7, <1>8, <1>9, <1>10, <1>11 DEF Next, Terminated

(* For every graph and every order: a traversal starts from the entry of    *)
(* its block, meets what entries lead to and nothing else, and replaces the *)
(* entry only when everything it leads to was met.                          *)
THEOREM TraversalsSpread == Spec => Spread!Safe
BY InitSpreads, NextSpreads, Invariance, PTL DEF Spec, Spread!Safe

----------------------------------------------------------------------------
(* The definition of Ferrante et al. *)

(* The edges of a sequence of them. *)
EdgesIn(q) == {q[i] : i \in DOMAIN q}

(* Appending an edge, or another sequence, adds to them.                    *)
LEMMA AppendAdds ==
    ASSUME NEW V, NEW q \in Seq(V), NEW e \in V
    PROVE  Append(q, e) \in Seq(V) /\ EdgesIn(Append(q, e)) = EdgesIn(q) \cup {e}
<1>1. Append(q, e) \in Seq(V) /\ DOMAIN q = 1..Len(q) /\ Len(q) \in Nat
  OBVIOUS
<1>2. DOMAIN Append(q, e) = 1..(Len(q) + 1)
  OBVIOUS
<1>3. \A i \in 1..Len(q) : Append(q, e)[i] = q[i]
  OBVIOUS
<1>4. Append(q, e)[Len(q) + 1] = e
  OBVIOUS
<1> DEFINE p == Append(q, e)
<1> HIDE DEF p
<1>5. \A i \in DOMAIN p : p[i] \in EdgesIn(q) \cup {e}
  BY <1>1, <1>2, <1>3, <1>4 DEF EdgesIn, p
<1>6. e \in EdgesIn(p)
  BY <1>1, <1>2, <1>4 DEF EdgesIn, p
<1>7. ASSUME NEW i \in DOMAIN q PROVE q[i] \in EdgesIn(p)
  <2>1. i \in DOMAIN p /\ p[i] = q[i]
    BY <1>1, <1>2, <1>3 DEF p
  <2> QED
    BY <2>1 DEF EdgesIn
<1>8. EdgesIn(p) = EdgesIn(q) \cup {e}
  BY <1>5, <1>6, <1>7 DEF EdgesIn
<1> QED
  BY <1>1, <1>8 DEF p

LEMMA JoinAdds ==
    ASSUME NEW V, NEW q \in Seq(V), NEW r \in Seq(V)
    PROVE  q \o r \in Seq(V) /\ EdgesIn(q \o r) = EdgesIn(q) \cup EdgesIn(r)
<1>1. /\ q \o r \in Seq(V) /\ DOMAIN q = 1..Len(q) /\ Len(q) \in Nat
      /\ DOMAIN r = 1..Len(r) /\ Len(r) \in Nat
  OBVIOUS
<1>2. DOMAIN (q \o r) = 1..(Len(q) + Len(r))
  OBVIOUS
<1>3. \A i \in 1..Len(q) : (q \o r)[i] = q[i]
  OBVIOUS
<1>4. \A i \in 1..Len(r) : (q \o r)[Len(q) + i] = r[i]
  OBVIOUS
<1> DEFINE p == q \o r
<1> HIDE DEF p
<1>5. ASSUME NEW i \in DOMAIN p PROVE p[i] \in EdgesIn(q) \cup EdgesIn(r)
  <2>1. i \in 1..(Len(q) + Len(r))
    BY <1>2 DEF p
  <2>2. CASE i \in 1..Len(q)
    BY <1>1, <1>3, <2>2 DEF EdgesIn, p
  <2>3. CASE i \notin 1..Len(q)
    <3>1. i - Len(q) \in 1..Len(r) /\ i = Len(q) + (i - Len(q))
      BY <1>1, <2>1, <2>3
    <3>2. p[i] = r[i - Len(q)]
      BY <1>4, <3>1 DEF p
    <3> QED
      BY <1>1, <3>1, <3>2 DEF EdgesIn
  <2> QED
    BY <2>2, <2>3
<1>6. ASSUME NEW i \in DOMAIN q PROVE q[i] \in EdgesIn(p)
  <2>1. i \in DOMAIN p /\ p[i] = q[i]
    BY <1>1, <1>2, <1>3 DEF p
  <2> QED
    BY <2>1 DEF EdgesIn
<1>7. ASSUME NEW i \in DOMAIN r PROVE r[i] \in EdgesIn(p)
  <2>1. Len(q) + i \in DOMAIN p /\ p[Len(q) + i] = r[i]
    BY <1>1, <1>2, <1>4 DEF p
  <2> QED
    BY <2>1 DEF EdgesIn
<1>8. EdgesIn(p) = EdgesIn(q) \cup EdgesIn(r)
  BY <1>5, <1>6, <1>7 DEF EdgesIn
<1> QED
  BY <1>1, <1>8 DEF p

(* The edges out of b to a block that does not post-dominate it.            *)
ForkEdges(b) ==
    {e \in function.blocks \X function.blocks :
        e[1] = b /\ e[2] \in Succs(function, b) /\ ~PostDominates(function, e[2], b)}

(* The inner loop of findS collects them.                                   *)
LEMMA EdgesOfCollects ==
    ASSUME function \in Functions, NEW b \in function.blocks
    PROVE  /\ EdgesOf(b) \in Seq(function.blocks \X function.blocks)
           /\ EdgesIn(EdgesOf(b)) = ForkEdges(b)
<1> DEFINE q == function.succ[b]
           n == Len(q)
           V == Seq(function.blocks \X function.blocks)
           Skip(i) == PostDominates(function, q[i], b)
           Longer(i, x) == IF Skip(i) THEN x ELSE Append(x, <<b, q[i]>>)
           h == [x \in Nat \X V |-> IF x[1] \in 1..n THEN Longer(x[1], x[2]) ELSE x[2]]
           UpTo[i \in 0..n] ==
               IF i = 0 THEN <<>>
               ELSE IF PostDominates(function, function.succ[b][i], b) THEN UpTo[i - 1]
               ELSE Append(UpTo[i - 1], <<b, function.succ[b][i]>>)
<1>1. q \in Seq(function.blocks) /\ n \in Nat /\ \A i \in 1..n : q[i] \in function.blocks
  BY FunctionsAssumption
<1>2. EdgesOf(b) = UpTo[n]
  BY DEF EdgesOf
<1>3. \A i \in 1..n, x \in V : Longer(i, x) \in V
  <2> HIDE DEF q, n, Skip
  <2>1. \A i \in 1..n : <<b, q[i]>> \in function.blocks \X function.blocks
    BY <1>1
  <2> QED
    BY <2>1, AppendAdds
<1>4. h \in [Nat \X V -> V] /\ <<>> \in V
  <2> HIDE DEF V, Longer, n
  <2>1. h \in [Nat \X V -> V]
    BY <1>3
  <2>2. <<>> \in V
    BY DEF V
  <2> QED
    BY <2>1, <2>2
<1>5. PICK W \in [0..n -> V] : IsRecursive(W, n, <<>>, h)
  <2> HIDE DEF n, V, h
  <2> QED
    BY <1>1, <1>4, RecursiveExists
<1>6. \A i \in 0..n : W[i] = IF i = 0 THEN <<>> ELSE Longer(i, W[i - 1])
  <2> SUFFICES ASSUME NEW i \in 0..n PROVE W[i] = IF i = 0 THEN <<>> ELSE Longer(i, W[i - 1])
    OBVIOUS
  <2>1. W[i] = IF i = 0 THEN <<>> ELSE h[<<i, W[i - 1]>>]
    <3> HIDE DEF n, V, h, Longer
    <3> QED
      BY <1>5 DEF IsRecursive
  <2>2. CASE i = 0
    BY <2>1, <2>2
  <2>3. CASE i # 0
    <3> HIDE DEF n, V, Longer
    <3>1. i \in Nat /\ i \in 1..n /\ i - 1 \in 0..n /\ W[i - 1] \in V
      BY <1>1, <1>5, <2>3
    <3>2. h[<<i, W[i - 1]>>] = Longer(i, W[i - 1])
      BY <3>1
    <3> HIDE DEF h
    <3> QED
      BY <2>1, <2>3, <3>2
  <2> QED
    BY <2>2, <2>3
<1>7. W = [i \in 0..n |->
               IF i = 0 THEN <<>>
               ELSE IF PostDominates(function, function.succ[b][i], b) THEN W[i - 1]
               ELSE Append(W[i - 1], <<b, function.succ[b][i]>>)]
  <2>1. W = [i \in 0..n |-> W[i]]
    BY <1>5
  <2> QED
    BY <1>6, <2>1
<1>8. UpTo = [i \in 0..n |->
               IF i = 0 THEN <<>>
               ELSE IF PostDominates(function, function.succ[b][i], b) THEN UpTo[i - 1]
               ELSE Append(UpTo[i - 1], <<b, function.succ[b][i]>>)]
  BY <1>7
<1> HIDE DEF UpTo
<1>9. UpTo[0] = <<>> /\ \A i \in 1..n : UpTo[i] = Longer(i, UpTo[i - 1])
  <2>1. UpTo[0] = <<>>
    BY <1>1, <1>8
  <2>2. ASSUME NEW i \in 1..n PROVE UpTo[i] = Longer(i, UpTo[i - 1])
    <3>1. i \in 0..n /\ i # 0
      BY <1>1
    <3> QED
      BY <1>8, <3>1, Zenon
  <2> QED
    BY <2>1, <2>2
<1> DEFINE Found(i) == {<<b, q[j]>> : j \in {k \in 1..i : ~Skip(k)}}
           T == {m \in Nat : m \in 0..n => UpTo[m] \in V /\ EdgesIn(UpTo[m]) = Found(m)}
<1> HIDE DEF n, q, h, Skip
<1>10. \A m \in Nat : m \in T
  <2>1. 0 \in T
    <3>1. EdgesIn(UpTo[0]) = {}
      BY <1>9 DEF EdgesIn
    <3>2. Found(0) = {}
      OBVIOUS
    <3>3. UpTo[0] \in V
      BY <1>4, <1>9
    <3> HIDE DEF V, Found
    <3> QED
      BY <3>1, <3>2, <3>3
  <2>2. ASSUME NEW m \in Nat, m \in T PROVE m + 1 \in T
    <3> SUFFICES ASSUME m + 1 \in 0..n
                 PROVE  UpTo[m + 1] \in V /\ EdgesIn(UpTo[m + 1]) = Found(m + 1)
      OBVIOUS
    <3>1. UpTo[m] \in V /\ EdgesIn(UpTo[m]) = Found(m)
      <4>1. m \in 0..n
        BY <1>1
      <4> HIDE DEF V, Found
      <4> QED
        BY <2>2, <4>1
    <3>2. m + 1 \in 1..n /\ UpTo[m + 1] = Longer(m + 1, UpTo[m])
      <4>1. m + 1 \in 1..n /\ (m + 1) - 1 = m
        BY <1>1
      <4> QED
        BY <1>9, <4>1
    <3>3. CASE Skip(m + 1)
      <4>1. Found(m + 1) = Found(m)
        BY <3>3
      <4> QED
        BY <3>1, <3>2, <3>3, <4>1
    <3>4. CASE ~Skip(m + 1)
      <4>1. Found(m + 1) = Found(m) \cup {<<b, q[m + 1]>>}
        BY <3>4
      <4>2. <<b, q[m + 1]>> \in function.blocks \X function.blocks
        BY <1>1, <3>2
      <4>3. UpTo[m + 1] = Append(UpTo[m], <<b, q[m + 1]>>)
        BY <3>2, <3>4
      <4> HIDE DEF Found
      <4>4. /\ Append(UpTo[m], <<b, q[m + 1]>>) \in V
            /\ EdgesIn(Append(UpTo[m], <<b, q[m + 1]>>)) = EdgesIn(UpTo[m]) \cup {<<b, q[m + 1]>>}
        BY <3>1, <4>2, AppendAdds
      <4> HIDE DEF V
      <4> QED
        BY <3>1, <4>1, <4>3, <4>4
    <3> QED
      BY <3>3, <3>4
  <2> HIDE DEF T
  <2> QED
    BY <2>1, <2>2, Induction
<1>11. UpTo[n] \in V /\ EdgesIn(UpTo[n]) = Found(n)
  <2>1. n \in T /\ n \in 0..n
    BY <1>1, <1>10
  <2> QED
    BY <2>1
<1>12. Found(n) = ForkEdges(b)
  <2>1. Succs(function, b) = {q[j] : j \in 1..n}
    BY <1>1 DEF Succs, q, n
  <2> QED
    BY <1>1, <2>1 DEF ForkEdges, Skip
<1> QED
  BY <1>2, <1>11, <1>12

(* And the outer loop those of every block.                                 *)
AllForkEdges == {e \in function.blocks \X function.blocks : e \in ForkEdges(e[1])}

LEMMA EdgesCollects ==
    ASSUME function \in Functions
    PROVE  /\ Edges \in Seq(function.blocks \X function.blocks)
           /\ EdgesIn(Edges) = AllForkEdges
<1> DEFINE n == Cardinality(function.blocks)
           V == Seq(function.blocks \X function.blocks)
           h == [x \in Nat \X V |-> IF x[1] \in 1..n THEN x[2] \o EdgesOf(x[1]) ELSE x[2]]
           UpTo[b \in 0..n] == IF b = 0 THEN <<>> ELSE UpTo[b - 1] \o EdgesOf(b)
<1>1. n \in Nat /\ function.blocks = 1..n
  BY FunctionsAssumption, FS_CardinalityType DEF IsGraph
<1>2. Edges = UpTo[n]
  BY DEF Edges
<1>3. \A b \in 1..n : EdgesOf(b) \in V /\ EdgesIn(EdgesOf(b)) = ForkEdges(b)
  BY <1>1, EdgesOfCollects
<1>4. h \in [Nat \X V -> V] /\ <<>> \in V
  <2> HIDE DEF n
  <2>1. \A b \in 1..n, x \in V : x \o EdgesOf(b) \in V
    BY <1>3, JoinAdds
  <2>2. <<>> \in V
    OBVIOUS
  <2> HIDE DEF V
  <2>3. h \in [Nat \X V -> V]
    BY <2>1
  <2> QED
    BY <2>2, <2>3
<1>5. PICK W \in [0..n -> V] : IsRecursive(W, n, <<>>, h)
  <2> HIDE DEF n, V, h
  <2> QED
    BY <1>1, <1>4, RecursiveExists
<1>6. \A i \in 0..n : W[i] = IF i = 0 THEN <<>> ELSE W[i - 1] \o EdgesOf(i)
  <2> SUFFICES ASSUME NEW i \in 0..n PROVE W[i] = IF i = 0 THEN <<>> ELSE W[i - 1] \o EdgesOf(i)
    OBVIOUS
  <2>1. W[i] = IF i = 0 THEN <<>> ELSE h[<<i, W[i - 1]>>]
    <3> HIDE DEF n, V, h
    <3> QED
      BY <1>5 DEF IsRecursive
  <2>2. CASE i = 0
    BY <2>1, <2>2
  <2>3. CASE i # 0
    <3> HIDE DEF n, V
    <3>1. i \in Nat /\ i \in 1..n /\ i - 1 \in 0..n /\ W[i - 1] \in V
      BY <1>1, <1>5, <2>3
    <3>2. h[<<i, W[i - 1]>>] = W[i - 1] \o EdgesOf(i)
      BY <3>1
    <3> HIDE DEF h
    <3> QED
      BY <2>1, <2>3, <3>2
  <2> QED
    BY <2>2, <2>3
<1>7. W = [b \in 0..n |-> IF b = 0 THEN <<>> ELSE W[b - 1] \o EdgesOf(b)]
  <2>1. W = [i \in 0..n |-> W[i]]
    BY <1>5
  <2> QED
    BY <1>6, <2>1
<1>8. UpTo = [b \in 0..n |-> IF b = 0 THEN <<>> ELSE UpTo[b - 1] \o EdgesOf(b)]
  BY <1>7
<1> HIDE DEF UpTo, h, n
<1>9. UpTo[0] = <<>> /\ \A i \in 1..n : UpTo[i] = UpTo[i - 1] \o EdgesOf(i)
  <2>1. UpTo[0] = <<>>
    BY <1>1, <1>8
  <2>2. ASSUME NEW i \in 1..n PROVE UpTo[i] = UpTo[i - 1] \o EdgesOf(i)
    <3>1. i \in 0..n /\ i # 0
      BY <1>1
    <3> QED
      BY <1>8, <3>1, Zenon
  <2> QED
    BY <2>1, <2>2
<1> DEFINE Found(m) == {e \in function.blocks \X function.blocks : e[1] \in 1..m /\ e \in ForkEdges(e[1])}
           T == {m \in Nat : m \in 0..n => UpTo[m] \in V /\ EdgesIn(UpTo[m]) = Found(m)}
<1>10. \A m \in Nat : m \in T
  <2>1. 0 \in T
    <3>1. EdgesIn(UpTo[0]) = {}
      BY <1>9 DEF EdgesIn
    <3>2. Found(0) = {}
      OBVIOUS
    <3>3. UpTo[0] \in V
      BY <1>4, <1>9
    <3> HIDE DEF V, Found
    <3> QED
      BY <3>1, <3>2, <3>3
  <2>2. ASSUME NEW m \in Nat, m \in T PROVE m + 1 \in T
    <3> SUFFICES ASSUME m + 1 \in 0..n
                 PROVE  UpTo[m + 1] \in V /\ EdgesIn(UpTo[m + 1]) = Found(m + 1)
      OBVIOUS
    <3>1. UpTo[m] \in V /\ EdgesIn(UpTo[m]) = Found(m)
      <4>1. m \in 0..n
        BY <1>1
      <4> HIDE DEF V, Found
      <4> QED
        BY <2>2, <4>1
    <3>2. m + 1 \in 1..n /\ UpTo[m + 1] = UpTo[m] \o EdgesOf(m + 1)
      <4>1. m + 1 \in 1..n /\ (m + 1) - 1 = m
        BY <1>1
      <4> QED
        BY <1>9, <4>1
    <3>3. Found(m + 1) = Found(m) \cup ForkEdges(m + 1)
      <4>1. ForkEdges(m + 1) \subseteq Found(m + 1)
        BY <1>1, <3>2 DEF ForkEdges
      <4>2. Found(m) \subseteq Found(m + 1)
        OBVIOUS
      <4>3. ASSUME NEW e \in Found(m + 1) PROVE e \in Found(m) \cup ForkEdges(m + 1)
        <5>1. e[1] \in 1..m \/ e[1] = m + 1
          OBVIOUS
        <5> QED
          BY <5>1
      <4> HIDE DEF Found
      <4> QED
        BY <4>1, <4>2, <4>3
    <3> HIDE DEF Found
    <3>4. UpTo[m + 1] \in V /\ EdgesIn(UpTo[m + 1]) = EdgesIn(UpTo[m]) \cup EdgesIn(EdgesOf(m + 1))
      BY <1>3, <3>1, <3>2, JoinAdds
    <3> HIDE DEF V
    <3> QED
      BY <1>3, <3>1, <3>2, <3>3, <3>4
  <2> HIDE DEF T
  <2> QED
    BY <2>1, <2>2, Induction
<1>11. UpTo[n] \in V /\ EdgesIn(UpTo[n]) = Found(n)
  <2>1. n \in T /\ n \in 0..n
    BY <1>1, <1>10
  <2> HIDE DEF V, Found
  <2> QED
    BY <2>1
<1>12. Found(n) = AllForkEdges
  BY <1>1 DEF AllForkEdges
<1> QED
  BY <1>2, <1>11, <1>12

----------------------------------------------------------------------------
(* The walks and Ferrante's definition. *)

(* The post-dominators that two blocks share have a nearest one.            *)
LEMMA NearestCommonIsNearest ==
    ASSUME function \in Functions, NEW a \in function.blocks, NEW c \in function.blocks,
           NearestCommon(a, c) # NoBlock
    PROVE  /\ NearestCommon(a, c) \in function.blocks
           /\ PostDominates(function, NearestCommon(a, c), a)
           /\ PostDominates(function, NearestCommon(a, c), c)
           /\ \A p \in function.blocks :
                 PostDominates(function, p, a) /\ PostDominates(function, p, c)
                     => PostDominates(function, p, NearestCommon(a, c))
<1> DEFINE P == {p \in function.blocks : PostDominates(function, p, a) /\ PostDominates(function, p, c)}
<1>1. P # {} /\ NearestCommon(a, c) = CHOOSE p \in P : \A q \in P : PostDominates(function, q, p)
  BY DEF NearestCommon
<1>2. IsGraph(function) /\ MayReturn(function)
  BY FunctionsAssumption
<1>3. \E p \in P : \A q \in P : PostDominates(function, q, p)
  <2>1. P \in SUBSET function.blocks /\ \A p \in P : PostDominates(function, p, a)
    OBVIOUS
  <2> HIDE DEF P
  <2> QED
    BY <1>1, <1>2, <2>1, NearestPostDominator
<1>4. NearestCommon(a, c) \in P /\ \A q \in P : PostDominates(function, q, NearestCommon(a, c))
  <2> HIDE DEF P
  <2> QED
    BY <1>1, <1>3
<1> QED
  BY <1>4

(* A walk from an edge out of a meets blocks that depend on a only.         *)
LEMMA ChildrenAreControlled ==
    ASSUME function \in Functions, NEW a \in function.blocks,
           NEW c \in Succs(function, a), NearestCommon(a, c) # NoBlock
    PROVE  Children(a, c, NearestCommon(a, c)) \subseteq Controlled(a)
<1> DEFINE l == NearestCommon(a, c)
           m == ImmPostDom(function, a)
<1>1. IsGraph(function) /\ MayReturn(function) /\ c \in function.blocks
  BY FunctionsAssumption DEF IsGraph
<1>2. \/ m = NoBlock /\ \A q \in function.blocks \ {a} : ~PostDominates(function, q, a)
      \/ /\ m \in function.blocks \ {a} /\ PostDominates(function, m, a)
         /\ \A q \in function.blocks \ {a} :
               PostDominates(function, q, a) => PostDominates(function, q, m)
  BY <1>1, ImmPostDomIsNearest
<1>3. l # NoBlock /\ l \in function.blocks
  BY <1>1, NearestCommonIsNearest
<1> HIDE DEF l, m
<1> SUFFICES ASSUME NEW x \in Children(a, c, l), x # a, PostDominates(function, x, a)
             PROVE  FALSE
  BY DEF Children, Between, Controlled, ControlDependent, l
<1>4. x \in function.blocks \ {a}
  BY DEF Children, Between
<1>5. m \in function.blocks /\ m # NoBlock /\ PostDominates(function, x, m)
  BY <1>1, <1>2, <1>4 DEF IsGraph
<1>6. x # m /\ PostDominates(function, m, x)
  BY <1>3, <1>5 DEF Children, Between, m
<1> QED
  BY <1>1, <1>4, <1>5, <1>6, PostDominatesOneWay

(* What depends on a by way of one of its edges is met by the walk from     *)
(* that edge; but a itself when the edge is a loop, which is not in s.      *)
LEMMA ControlledAreChildren ==
    ASSUME function \in Functions, NEW a \in function.blocks,
           NEW c \in Succs(function, a), NearestCommon(a, c) # NoBlock,
           NEW x \in function.blocks, PostDominates(function, x, c),
           x = a \/ ~PostDominates(function, x, a)
    PROVE  x \in Children(a, c, NearestCommon(a, c))
<1> DEFINE l == NearestCommon(a, c)
           m == ImmPostDom(function, a)
<1>1. IsGraph(function) /\ MayReturn(function) /\ c \in function.blocks
  BY FunctionsAssumption DEF IsGraph
<1>2. \/ m = NoBlock /\ \A q \in function.blocks \ {a} : ~PostDominates(function, q, a)
      \/ /\ m \in function.blocks \ {a} /\ PostDominates(function, m, a)
         /\ \A q \in function.blocks \ {a} :
               PostDominates(function, q, a) => PostDominates(function, q, m)
  BY <1>1, ImmPostDomIsNearest
<1>3. /\ l # NoBlock /\ l \in function.blocks
      /\ PostDominates(function, l, a) /\ PostDominates(function, l, c)
      /\ \A p \in function.blocks :
            PostDominates(function, p, a) /\ PostDominates(function, p, c)
                => PostDominates(function, p, l)
  BY <1>1, NearestCommonIsNearest
<1>4. PostDominates(function, a, a)
  BY <1>1, PostDominatesItself
<1> SUFFICES x \in Children(a, c, l)
  OBVIOUS
<1> HIDE DEF l, m
<1>5. CASE PostDominates(function, a, c)
  <2>1. l = a
    BY <1>1, <1>3, <1>4, <1>5, PostDominatesOneWay
  <2>2. x \in Between(c, m)
    <3>1. m # a
      BY <1>1, <1>2 DEF IsGraph
    <3>2. CASE x = a
      BY <1>2, <1>5, <3>1, <3>2 DEF Between
    <3>3. CASE x # a
      <4>1. x # m
        BY <1>1, <1>2, <3>3 DEF IsGraph
      <4>2. PostDominates(function, a, x)
        BY <1>1, <1>5, <3>3, PostDominatorsAreChain
      <4>3. m = NoBlock \/ PostDominates(function, m, x)
        BY <1>1, <1>2, <4>2, PostDominatesTransitively
      <4> QED
        BY <4>1, <4>3 DEF Between
    <3> QED
      BY <3>2, <3>3
  <2> QED
    BY <2>1, <2>2 DEF Children, m
<1>6. CASE ~PostDominates(function, a, c)
  <2>1. l # a /\ x # a
    BY <1>3, <1>6
  <2>2. m \in function.blocks \ {a} /\ PostDominates(function, m, a) /\ PostDominates(function, l, m)
    BY <1>2, <1>3, <2>1
  <2>3. PostDominates(function, m, c)
    BY <1>1, <2>2, PostDominatesSuccs
  <2>4. PostDominates(function, m, l)
    BY <1>3, <2>2, <2>3
  <2>5. l = m
    BY <1>1, <1>3, <2>2, <2>4, PostDominatesOneWay
  <2>6. x # l /\ ~PostDominates(function, x, l)
    BY <1>1, <1>3, <2>1, PostDominatesTransitively
  <2>7. PostDominates(function, l, x)
    BY <1>1, <1>3, <2>6, PostDominatorsAreChain
  <2> QED
    BY <2>5, <2>6, <2>7 DEF Children, Between, m
<1> QED
  BY <1>5, <1>6

----------------------------------------------------------------------------
(* What s, ls and the backward graph hold once they are there.              *)

SIsEdges == pc # "findS" => s = Edges

LsIsNearest ==
    pc \in {"buildGraph", "transitiveClosure", "done"} =>
        /\ ls = [i \in DOMAIN s |-> NearestCommon(s[i][1], s[i][2])]
        /\ \A i \in DOMAIN s : NearestCommon(s[i][1], s[i][2]) # NoBlock

BackwardIsReverse ==
    pc = "done" => backwardGraph = [b \in function.blocks |-> Backward(b)]

TablesInv == SIsEdges /\ LsIsNearest /\ BackwardIsReverse

LEMMA InitTables == Init => TablesInv
BY DEF Init, TablesInv, SIsEdges, LsIsNearest, BackwardIsReverse

(* While the entries are closed the tables stay, and there is no backward   *)
(* graph yet.                                                               *)
LEMMA ClosingKeepsTables ==
    ASSUME TablesInv, UNCHANGED <<function, s, ls, pc>>, pc # "done"
    PROVE  TablesInv'
<1>1. Edges' = Edges
  BY DEF Edges, EdgesOf
<1>2. \A a, b : NearestCommon(a, b)' = NearestCommon(a, b)
  BY DEF NearestCommon
<1> QED
  BY <1>1, <1>2 DEF TablesInv, SIsEdges, LsIsNearest, BackwardIsReverse

LEMMA NextKeepsTables == IInv /\ TablesInv /\ [Next]_vars => TablesInv'
<1> SUFFICES ASSUME IInv, TablesInv, [Next]_vars PROVE TablesInv'
  OBVIOUS
<1>1. function' = function => Edges' = Edges /\ \A a, b : NearestCommon(a, b)' = NearestCommon(a, b)
  BY DEF Edges, EdgesOf, NearestCommon
<1>2. CASE FindS
  BY <1>1, <1>2 DEF FindS, TablesInv, SIsEdges, LsIsNearest, BackwardIsReverse
<1>3. CASE FindLs
  BY <1>1, <1>3 DEF FindLs, TablesInv, SIsEdges, LsIsNearest, BackwardIsReverse
<1>4. CASE Abort
  BY <1>1, <1>4 DEF Abort, TablesInv, SIsEdges, LsIsNearest, BackwardIsReverse
<1>5. CASE BuildGraph
  BY <1>1, <1>5 DEF BuildGraph, TablesInv, SIsEdges, LsIsNearest, BackwardIsReverse
<1>6. ASSUME NEW b \in toClose, StartTraversal(b) PROVE TablesInv'
  BY <1>6, ClosingKeepsTables DEF StartTraversal
<1>7. ASSUME NEW c \in worklist, Traverse(c) PROVE TablesInv'
  <2>1. pc # "done"
    BY <1>7 DEF IInv, TypeInv, KnownNow, Traversing
  <2> QED
    BY <1>7, <2>1, ClosingKeepsTables DEF Traverse
<1>8. CASE EndTraversal
  <2>1. pc # "done"
    BY <1>8 DEF EndTraversal, IInv, TypeInv, Traversing
  <2> QED
    BY <1>8, <2>1, ClosingKeepsTables DEF EndTraversal
<1>9. CASE BuildBackwardGraph
  <2>1. \A b : Backward(b)' = Backward(b)
    BY <1>9 DEF BuildBackwardGraph, Backward
  <2> QED
    BY <1>1, <1>9, <2>1 DEF BuildBackwardGraph, TablesInv, SIsEdges, LsIsNearest, BackwardIsReverse
<1>10. CASE UNCHANGED vars
  <2>1. \A b : Backward(b)' = Backward(b)
    BY <1>10 DEF vars, Backward
  <2> QED
    BY <1>1, <1>10, <2>1 DEF vars, TablesInv, SIsEdges, LsIsNearest, BackwardIsReverse
<1> QED
  BY <1>2, <1>3, <1>4, <1>5, <1>6, <1>7, <1>8, <1>9, <1>10 DEF Next, Terminated

LEMMA TablesInvariance == Spec => [](IInv /\ TablesInv)
BY InitIInv, InitTables, NextKeepsIInv, NextKeepsTables, PTL DEF Spec

----------------------------------------------------------------------------
(* Direct entries and Ferrante's definition. *)

Ready == IInv /\ TablesInv /\ pc = "done"

(* Each edge in s, and what was found for it.                               *)
LEMMA EveryEdge ==
    ASSUME Ready, NEW i \in DOMAIN s
    PROVE  /\ s[i][1] \in function.blocks
           /\ s[i][2] \in Succs(function, s[i][1])
           /\ ls[i] = NearestCommon(s[i][1], s[i][2]) /\ ls[i] # NoBlock
<1>1. s[i] \in AllForkEdges
  BY EdgesCollects DEF Ready, IInv, TypeInv, TablesInv, SIsEdges, EdgesIn
<1> QED
  BY <1>1 DEF Ready, TablesInv, LsIsNearest, AllForkEdges, ForkEdges

(* The first edge out of a block is one.                                    *)
LEMMA FirstEdgeIsOne ==
    ASSUME Ready, NEW a, \E i \in DOMAIN s : s[i][1] = a
    PROVE  FirstEdge(a) \in DOMAIN s /\ s[FirstEdge(a)][1] = a
<1> DEFINE T == {i \in DOMAIN s : s[i][1] = a}
<1>1. DOMAIN s = 1..Len(s) /\ Len(s) \in Nat
  BY EdgesCollects DEF Ready, IInv, TypeInv, TablesInv, SIsEdges
<1>2. T \in SUBSET Nat /\ T # {}
  BY <1>1
<1>3. PICK i \in T : \A j \in T : i <= j
  <2> HIDE DEF T
  <2> QED
    BY <1>2, LeastNumber
<1>4. i \in DOMAIN s /\ s[i][1] = a /\ \A j \in 1..(i - 1) : s[j][1] # a
  BY <1>1, <1>3
<1> QED
  BY <1>4 DEF FirstEdge

LEMMA DirectIsControlled ==
    ASSUME Ready, NEW a \in function.blocks
    PROVE  Direct(a) \subseteq Controlled(a)
<1>1. CASE \E i \in DOMAIN s : s[i][1] = a
  <2>1. FirstEdge(a) \in DOMAIN s /\ s[FirstEdge(a)][1] = a
    BY <1>1, FirstEdgeIsOne
  <2>2. Direct(a) = Children(a, s[FirstEdge(a)][2], ls[FirstEdge(a)])
    BY <1>1 DEF Direct
  <2>3. /\ s[FirstEdge(a)][2] \in Succs(function, a)
        /\ ls[FirstEdge(a)] = NearestCommon(a, s[FirstEdge(a)][2]) /\ ls[FirstEdge(a)] # NoBlock
    BY <2>1, EveryEdge
  <2>4. function \in Functions
    BY DEF Ready, IInv, TypeInv
  <2> QED
    BY <2>2, <2>3, <2>4, ChildrenAreControlled
<1>2. CASE ~\E i \in DOMAIN s : s[i][1] = a
  BY <1>2 DEF Direct
<1> QED
  BY <1>1, <1>2

LEMMA ControlledIsDirect ==
    ASSUME Ready, OneEdge, NEW a \in function.blocks, NEW x \in Controlled(a)
    PROVE  x \in Direct(a) \/ (x = a /\ a \in Succs(function, a))
<1>0. function \in Functions /\ IsGraph(function) /\ MayReturn(function)
  BY FunctionsAssumption DEF Ready, IInv, TypeInv
<1>1. PICK c \in Succs(function, a) : PostDominates(function, x, c)
  BY DEF Controlled, ControlDependent
<1>2. x \in function.blocks /\ (x = a \/ ~PostDominates(function, x, a)) /\ c \in function.blocks
  BY <1>0 DEF Controlled, ControlDependent, IsGraph
<1>3. CASE PostDominates(function, c, a)
  <2>1. PostDominates(function, x, a)
    BY <1>0, <1>1, <1>2, <1>3, PostDominatesTransitively
  <2>2. x = a
    BY <1>2, <2>1
  <2>3. a = c
    BY <1>0, <1>1, <1>2, <1>3, <2>2, PostDominatesOneWay
  <2> QED
    BY <2>2, <2>3
<1>4. CASE ~PostDominates(function, c, a)
  <2>1. <<a, c>> \in EdgesIn(s)
    <3>1. <<a, c>> \in AllForkEdges
      BY <1>2, <1>4 DEF AllForkEdges, ForkEdges
    <3> QED
      BY <1>0, <3>1, EdgesCollects DEF Ready, TablesInv, SIsEdges
  <2>2. PICK i \in DOMAIN s : s[i] = <<a, c>>
    BY <2>1 DEF EdgesIn
  <2>3. s[i][1] = a /\ s[i][2] = c
    BY <2>2
  <2>4. FirstEdge(a) = i
    BY <2>3, FirstEdgeIsOne DEF OneEdge
  <2>5. Direct(a) = Children(a, c, ls[i])
    BY <2>3, <2>4 DEF Direct
  <2>6. ls[i] = NearestCommon(a, c) /\ ls[i] # NoBlock
    BY <2>3, EveryEdge
  <2> QED
    BY <1>0, <1>1, <1>2, <2>5, <2>6, ControlledAreChildren
<1> QED
  BY <1>3, <1>4

----------------------------------------------------------------------------
(* Chains of dependences. *)

(* What is reached along Ferrante's relation: the least set that holds what *)
(* a controls and, with a block, what that one controls.                    *)
IsControlChain(S, a) ==
    /\ S \subseteq function.blocks
    /\ Controlled(a) \subseteq S
    /\ \A c \in S : Controlled(c) \subseteq S

MoreControlled(X) == X \cup UNION {Controlled(c) : c \in X}

LEMMA ChainIsLeast ==
    ASSUME function \in Functions, NEW a \in function.blocks
    PROVE  /\ IsControlChain(Chain(Controlled, a), a)
           /\ \A S : IsControlChain(S, a) => Chain(Controlled, a) \subseteq S
<1> DEFINE n == Cardinality(function.blocks)
           U == function.blocks
           h == [x \in Nat \X SUBSET U |-> MoreControlled(x[2])]
           k == [X \in SUBSET U |-> MoreControlled(X)]
           Reached[i \in 0..n] ==
               IF i = 0 THEN Controlled(a)
               ELSE LET R == Reached[i - 1] IN R \cup UNION {Controlled(c) : c \in R}
<1>1. n \in Nat /\ IsFiniteSet(U) /\ Cardinality(U) <= n
  BY FunctionsAssumption, FS_CardinalityType DEF IsGraph
<1>2. Chain(Controlled, a) = Reached[n]
  BY DEF Chain
<1>3. Controlled(a) \in SUBSET U /\ \A X \in SUBSET U : MoreControlled(X) \in SUBSET U
  BY DEF Controlled, MoreControlled
<1>4. h \in [Nat \X SUBSET U -> SUBSET U]
  <2> HIDE DEF U
  <2> QED
    BY <1>3
<1>5. PICK W \in [0..n -> SUBSET U] : IsRecursive(W, n, Controlled(a), h)
  <2> HIDE DEF n, U, h
  <2> QED
    BY <1>1, <1>3, <1>4, RecursiveExists
<1> HIDE DEF n, U
<1>6. \A i \in 0..n : W[i] = IF i = 0 THEN Controlled(a) ELSE MoreControlled(W[i - 1])
  <2> SUFFICES ASSUME NEW i \in 0..n
               PROVE  W[i] = IF i = 0 THEN Controlled(a) ELSE MoreControlled(W[i - 1])
    OBVIOUS
  <2>1. W[i] = IF i = 0 THEN Controlled(a) ELSE h[<<i, W[i - 1]>>]
    <3> HIDE DEF h
    <3> QED
      BY <1>5 DEF IsRecursive
  <2>2. CASE i = 0
    BY <2>1, <2>2
  <2>3. CASE i # 0
    <3>1. i \in Nat /\ i - 1 \in 0..n /\ W[i - 1] \in SUBSET U
      BY <1>1, <1>5, <2>3
    <3>2. h[<<i, W[i - 1]>>] = MoreControlled(W[i - 1])
      BY <3>1
    <3> HIDE DEF h
    <3> QED
      BY <2>1, <2>3, <3>2
  <2> QED
    BY <2>2, <2>3
<1>7. W = [i \in 0..n |->
               IF i = 0 THEN Controlled(a)
               ELSE LET R == W[i - 1] IN R \cup UNION {Controlled(c) : c \in R}]
  <2>1. W = [i \in 0..n |-> W[i]]
    BY <1>5
  <2> QED
    BY <1>6, <2>1 DEF MoreControlled
<1>8. Reached = [i \in 0..n |->
               IF i = 0 THEN Controlled(a)
               ELSE LET R == Reached[i - 1] IN R \cup UNION {Controlled(c) : c \in R}]
  BY <1>7
<1> HIDE DEF Reached, h
<1>9. Reached[0] = Controlled(a) /\ \A i \in 1..n : Reached[i] = MoreControlled(Reached[i - 1])
  <2>1. Reached[0] = Controlled(a)
    BY <1>1, <1>8
  <2>2. ASSUME NEW i \in 1..n PROVE Reached[i] = MoreControlled(Reached[i - 1])
    <3>1. i \in 0..n /\ i # 0
      BY <1>1
    <3>2. Reached[i] = LET R == Reached[i - 1] IN R \cup UNION {Controlled(c) : c \in R}
      BY <1>8, <3>1, Zenon
    <3> QED
      BY <3>2, Zenon DEF MoreControlled
  <2> QED
    BY <2>1, <2>2
<1> DEFINE T == {m \in Nat : m \in 0..n => Reached[m] \in SUBSET U}
<1>10. \A m \in Nat : m \in T
  <2>1. 0 \in T
    BY <1>3, <1>9
  <2>2. ASSUME NEW m \in Nat, m \in T PROVE m + 1 \in T
    <3> SUFFICES ASSUME m + 1 \in 0..n PROVE Reached[m + 1] \in SUBSET U
      OBVIOUS
    <3>1. Reached[m + 1] = MoreControlled(Reached[(m + 1) - 1]) /\ Reached[m] \in SUBSET U
      BY <1>1, <1>9, <2>2
    <3> QED
      BY <1>3, <3>1
  <2> HIDE DEF T
  <2> QED
    BY <2>1, <2>2, Induction
<1>11. Reached \in [0..n -> SUBSET U]
  BY <1>8, <1>10
<1>12. IsRounds(Reached, n, U, k)
  <2>1. k \in [SUBSET U -> SUBSET U] /\ k[{}] = {} /\ \A X \in SUBSET U : X \subseteq k[X]
    BY <1>3 DEF MoreControlled
  <2>2. ASSUME NEW i \in 1..n PROVE Reached[i] = k[Reached[i - 1]]
    <3>1. i - 1 \in 0..n
      BY <1>1
    <3>2. Reached[i - 1] \in SUBSET U
      BY <1>11, <3>1
    <3> QED
      BY <1>9, <3>2
  <2> HIDE DEF k
  <2> QED
    BY <1>1, <1>11, <2>1, <2>2 DEF IsRounds
<1>13. IsControlChain(Reached[n], a)
  <2>1. k[Reached[n]] = Reached[n] /\ Reached[0] \subseteq Reached[n]
    <3> HIDE DEF k
    <3> QED
      BY <1>12, RoundsEnd, RoundsKeep
  <2>2. Reached[n] \in SUBSET U
    BY <1>1, <1>11
  <2>3. MoreControlled(Reached[n]) = Reached[n]
    BY <2>1, <2>2
  <2>4. ASSUME NEW c \in Reached[n] PROVE Controlled(c) \subseteq Reached[n]
    <3>1. Controlled(c) \subseteq MoreControlled(Reached[n])
      BY <2>4 DEF MoreControlled
    <3> QED
      BY <2>3, <3>1
  <2> QED
    BY <1>9, <2>1, <2>2, <2>4 DEF IsControlChain, U
<1>14. ASSUME NEW S, IsControlChain(S, a) PROVE Reached[n] \subseteq S
  <2>1. Reached[0] \subseteq S
    BY <1>9, <1>14 DEF IsControlChain
  <2>2. \A X \in SUBSET U : X \subseteq S => k[X] \subseteq S
    BY <1>14 DEF IsControlChain, MoreControlled
  <2> HIDE DEF k
  <2> QED
    BY <1>12, <2>1, <2>2, RoundsAreNeeded
<1> QED
  BY <1>2, <1>13, <1>14

----------------------------------------------------------------------------

(* No entry holds a block that does not depend on the entry's own, by some  *)
(* chain of branches, for every function and every order.                   *)
THEOREM EntriesInventNothing == Spec => []NothingInvented
<1>1. Ready => NothingInvented
  <2> SUFFICES ASSUME Ready, NEW a \in function.blocks, NEW b \in function.blocks,
                      controls(a, b) \/ dependsOn(b, a)
               PROVE  b \in Chain(Controlled, a)
    BY DEF NothingInvented
  <2>1. function \in Functions /\ Built
    BY DEF Ready, IInv, TypeInv, Built
  <2>2. b \in forwardGraph[a]
    BY DEF controls, dependsOn, Ready, TablesInv, BackwardIsReverse, Backward
  <2> DEFINE S == Chain(Controlled, a)
  <2>3. IsControlChain(S, a)
    BY <2>1, ChainIsLeast
  <2> HIDE DEF S
  <2>4. S \in SUBSET function.blocks /\ Direct(a) \subseteq S /\ IsClosed(S)
    BY <2>3, DirectIsControlled DEF IsControlChain, IsClosed
  <2>5. forwardGraph[a] \subseteq S
    BY <2>1, <2>4 DEF Ready, IInv, NoMoreThanNeeded
  <2> QED
    BY <2>2, <2>5 DEF S
<1>2. IInv /\ TablesInv => NothingInvented
  BY <1>1 DEF Ready, NothingInvented
<1> QED
  BY <1>2, TablesInvariance, PTL

(* Where no branch has two edges in s no entry misses a block, but for one  *)
(* that branches to itself.                                                 *)
THEOREM EntriesMissNothing == Spec => []NothingMissed
<1>1. Ready => NothingMissed
  <2> SUFFICES ASSUME Ready, OneEdge, NEW a \in function.blocks, NEW b \in Chain(Controlled, a)
               PROVE  /\ controls(a, b) \/ (a = b /\ a \in Succs(function, a))
                      /\ dependsOn(b, a) \/ a = b
    BY DEF NothingMissed
  <2>1. function \in Functions /\ Built /\ ~Traversing /\ toClose = {}
    BY DEF Ready, IInv, TypeInv, Built
  <2>2. a # block /\ \A c \in function.blocks : c # block
    BY <2>1, NoBlockIsNone DEF Ready, IInv, Traversing
  <2> DEFINE F == forwardGraph[a]
             S == F \cup {x \in function.blocks : x = a /\ a \in Succs(function, a)}
  <2>3. Direct(a) \subseteq F /\ IsClosed(F) /\ F \subseteq function.blocks
    BY <2>1, <2>2 DEF Ready, IInv, HoldsDirect, DoneIsClosed, WithinFunction
  <2> HIDE DEF F
  <2>4. Controlled(a) \subseteq S
    BY <2>3, ControlledIsDirect DEF Controlled
  <2>5. ASSUME NEW c \in S PROVE Controlled(c) \subseteq S
    <3>1. CASE c \in F
      <4> SUFFICES ASSUME NEW x \in Controlled(c) PROVE x \in F
        OBVIOUS
      <4> QED
        BY <2>3, <3>1, ControlledIsDirect DEF IsClosed
    <3>2. CASE c = a
      BY <2>4, <3>2
    <3> QED
      BY <3>1, <3>2
  <2>6. IsControlChain(S, a)
    BY <2>3, <2>4, <2>5 DEF IsControlChain
  <2>7. b \in S /\ b \in function.blocks
    <3> HIDE DEF S
    <3> QED
      BY <2>1, <2>6, ChainIsLeast DEF IsControlChain
  <2>8. b \in forwardGraph[a] \/ (a = b /\ a \in Succs(function, a))
    BY <2>7 DEF F
  <2>9. dependsOn(b, a) \/ a = b
    BY <2>7, <2>8 DEF dependsOn, Ready, TablesInv, BackwardIsReverse, Backward
  <2> QED
    BY <2>8, <2>9 DEF controls
<1>2. IInv /\ TablesInv => NothingMissed
  BY <1>1 DEF Ready, NothingMissed
<1> QED
  BY <1>2, TablesInvariance, PTL
=============================================================================
