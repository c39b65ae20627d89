----------------------- MODULE DivergenceAnalysisProofs ----------------------
(****************************************************************************)
(* What DivergenceAnalysis promises for every kernel and every order of     *)
(* visits: the type invariant, that no instruction is listed twice, that    *)
(* the list is the least set closed under dependence, and, for structured   *)
(* kernels, that no merge of a divergent branch is missed and that regions  *)
(* have one way in and one way out and are nested.                          *)
(****************************************************************************)
EXTENDS DivergenceAnalysis, KernelProofs

(* The inductive invariant. What was visited or is still queued (Known)     *)
(* holds the ids once they are read, is closed for what was visited, and    *)
(* lies inside every closed set that holds the ids.                         *)
AnalysisStates == {"analyse", "branches", "done", "crashed"}

TypeInv ==
    /\ kernel \in Kernels
    /\ options \in Options
    /\ pc \in AnalysisStates \cup {"init", "aborted"}
    /\ worklist \subseteq kernel.insts
    /\ divInsts \in Seq(kernel.insts)

IdsKnown == pc \in AnalysisStates => Tids \subseteq Known

NothingKnownBefore == pc \in {"init", "aborted"} => Known = {}

VisitedIsClosed == \A i \in Divergent : Influenced(kernel, pdt, i) \subseteq Known

KnownIsNeeded ==
    \A S \in SUBSET kernel.insts :
        Tids \subseteq S /\ Closed(kernel, pdt, S) => Known \subseteq S

Drained == pc \in {"branches", "done"} => worklist = {}

ListedOnce ==
    /\ \A m, n \in DOMAIN divInsts : divInsts[m] = divInsts[n] => m = n
    /\ worklist \cap Divergent = {}

IInv ==
    /\ TypeInv
    /\ IdsKnown
    /\ NothingKnownBefore
    /\ VisitedIsClosed
    /\ KnownIsNeeded
    /\ Drained
    /\ ListedOnce

----------------------------------------------------------------------------

(* The thread ids a pass starts from are instructions of its kernel.        *)
LEMMA TidsInKernel ==
    ASSUME kernel \in Kernels, options \in Options
    PROVE  Tids \subseteq kernel.insts
BY KernelsAssumption DEF Tids, Direction

(* Appending to a sequence adds one element to its range.                   *)
LEMMA ElementsOfAppend ==
    ASSUME NEW T, NEW s \in Seq(T), NEW e \in T
    PROVE  /\ Append(s, e) \in Seq(T)
           /\ DOMAIN Append(s, e) = DOMAIN s \cup {Len(s) + 1}
           /\ \A m \in DOMAIN s : Append(s, e)[m] = s[m]
           /\ Append(s, e)[Len(s) + 1] = e
           /\ Elements(Append(s, e)) = Elements(s) \cup {e}
<1>1. /\ Append(s, e) \in Seq(T)
      /\ DOMAIN Append(s, e) = 1 .. Len(s) + 1
      /\ DOMAIN s = 1 .. Len(s)
      /\ Len(s) \in Nat
  OBVIOUS
<1>2. \A m \in 1 .. Len(s) : Append(s, e)[m] = s[m]
  OBVIOUS
<1>3. Append(s, e)[Len(s) + 1] = e
  OBVIOUS
<1>4. 1 .. Len(s) + 1 = (1 .. Len(s)) \cup {Len(s) + 1}
  BY <1>1
<1>5. Elements(Append(s, e)) = Elements(s) \cup {e}
  BY <1>1, <1>2, <1>3, <1>4 DEF Elements
<1>6. QED
  BY <1>1, <1>2, <1>3, <1>4, <1>5

----------------------------------------------------------------------------
(* The invariant holds initially and every step keeps it. *)

LEMMA InitIInv == Init => IInv
<1> SUFFICES ASSUME Init PROVE IInv
  OBVIOUS
<1>1. Divergent = {} /\ worklist = {}
  BY DEF Init, Divergent, Elements
<1>2. TypeInv /\ Drained /\ IdsKnown
  BY <1>1 DEF Init, TypeInv, Drained, IdsKnown, AnalysisStates
<1>3. NothingKnownBefore /\ VisitedIsClosed /\ KnownIsNeeded
  BY <1>1 DEF NothingKnownBefore, VisitedIsClosed, KnownIsNeeded, Known
<1>4. ListedOnce
  BY <1>1 DEF Init, ListedOnce
<1>5. QED
  BY <1>2, <1>3, <1>4 DEF IInv

(* Reading the ids queues them and nothing else.                            *)
LEMMA GetTidsKeepsIInv == IInv /\ GetTids => IInv'
<1> SUFFICES ASSUME IInv, GetTids PROVE IInv'
  OBVIOUS
<1> USE DEF GetTids, input
<1>1. Divergent' = Divergent /\ Tids' = Tids /\ Divergent = {}
  BY DEF IInv, NothingKnownBefore, Known, Divergent, Tids, Direction, TidsIn, AllTids
<1>2. Known' = Tids
  BY <1>1 DEF Known
<1>3. TypeInv'
  BY TidsInKernel DEF IInv, TypeInv, AnalysisStates
<1>4. IdsKnown' /\ NothingKnownBefore' /\ Drained'
  BY <1>1, <1>2 DEF IdsKnown, NothingKnownBefore, Drained
<1>5. VisitedIsClosed' /\ ListedOnce'
  BY <1>1 DEF IInv, VisitedIsClosed, ListedOnce
<1>6. KnownIsNeeded'
  BY <1>1, <1>2 DEF KnownIsNeeded, Closed, Influenced, Users, JoinPhis, Phis, Operands
<1>7. QED
  BY <1>3, <1>4, <1>5, <1>6 DEF IInv

(* A visit moves an instruction from the queue to the list and queues what  *)
(* depends on it: the known set grows by its dependents exactly.            *)
LEMMA VisitKeepsIInv == ASSUME NEW i \in worklist PROVE IInv /\ Visit(i) => IInv'
<1> SUFFICES ASSUME IInv, Visit(i) PROVE IInv'
  OBVIOUS
<1> USE DEF Visit, input
<1>1. i \in kernel.insts /\ divInsts \in Seq(kernel.insts)
  BY DEF IInv, TypeInv
<1>2. /\ divInsts' \in Seq(kernel.insts)
      /\ DOMAIN divInsts' = DOMAIN divInsts \cup {Len(divInsts) + 1}
      /\ \A m \in DOMAIN divInsts : divInsts'[m] = divInsts[m]
      /\ divInsts'[Len(divInsts) + 1] = i
      /\ Divergent' = Divergent \cup {i}
  BY <1>1, ElementsOfAppend DEF Divergent
<1>3. Known' = Known \cup Influenced(kernel, pdt, i)
  BY <1>2 DEF Known, Divergent
<1>4. Influenced(kernel, pdt, i) \subseteq kernel.insts
  BY InfluencedInKernel
<1>5. /\ kernel' = kernel /\ options' = options /\ pdt' = pdt /\ pc' = pc
      /\ Tids' = Tids
      /\ pc = "analyse"
  BY DEF Tids, Direction, TidsIn, AllTids
<1>6. TypeInv'
  BY <1>2, <1>4, <1>5 DEF IInv, TypeInv
<1>7. IdsKnown' /\ NothingKnownBefore' /\ Drained'
  BY <1>3, <1>5 DEF IInv, IdsKnown, NothingKnownBefore, Drained
<1>8. VisitedIsClosed'
  <2> SUFFICES ASSUME NEW j \in Divergent'
               PROVE  Influenced(kernel, pdt, j) \subseteq Known'
    BY <1>5 DEF VisitedIsClosed
  <2>1. CASE j = i
    BY <2>1, <1>3
  <2>2. CASE j \in Divergent
    BY <2>2, <1>3 DEF IInv, VisitedIsClosed
  <2>3. QED
    BY <2>1, <2>2, <1>2
<1>9. KnownIsNeeded'
  <2> SUFFICES ASSUME NEW S \in SUBSET kernel.insts,
                      Tids \subseteq S, Closed(kernel, pdt, S)
               PROVE  Known' \subseteq S
    BY <1>5 DEF KnownIsNeeded
  <2>1. Known \subseteq S
    BY DEF IInv, KnownIsNeeded
  <2>2. i \in S
    BY <2>1 DEF Known
  <2>3. Influenced(kernel, pdt, i) \subseteq S
    BY <2>2 DEF Closed
  <2>4. QED
    BY <2>1, <2>3, <1>3
<1>10. ListedOnce'
  <2>1. worklist' \cap Divergent' = {}
    BY <1>2 DEF IInv, ListedOnce, Divergent
  <2>2. i \notin Divergent
    BY DEF IInv, ListedOnce
  <2>3. \A m \in DOMAIN divInsts : divInsts[m] # i
    BY <2>2 DEF Divergent, Elements
  <2>4. \A m, n \in DOMAIN divInsts' : divInsts'[m] = divInsts'[n] => m = n
    BY <1>2, <2>3 DEF IInv, ListedOnce
  <2>5. QED
    BY <2>1, <2>4 DEF ListedOnce
<1>11. QED
  BY <1>6, <1>7, <1>8, <1>9, <1>10 DEF IInv

(* The remaining steps change neither the list nor the queue.               *)
LEMMA QuietStepKeepsIInv ==
    ASSUME IInv,
           UNCHANGED <<input, worklist, divInsts>>,
           TypeInv',
           Drained',
           pc \in AnalysisStates <=> pc' \in AnalysisStates
    PROVE  IInv'
<1>1. /\ Divergent' = Divergent /\ Known' = Known /\ Tids' = Tids
      /\ kernel' = kernel /\ pdt' = pdt /\ worklist' = worklist /\ divInsts' = divInsts
  BY DEF input, Divergent, Known, Tids, Direction, TidsIn, AllTids, Elements
<1>2. pc \in AnalysisStates \cup {"init", "aborted"}
  BY DEF IInv, TypeInv
<1>3. pc' \in AnalysisStates \cup {"init", "aborted"}
  BY DEF TypeInv
<1>4. IdsKnown' /\ NothingKnownBefore'
  BY <1>1, <1>2, <1>3 DEF IInv, IdsKnown, NothingKnownBefore, AnalysisStates
<1>5. VisitedIsClosed' /\ KnownIsNeeded' /\ ListedOnce'
  BY <1>1 DEF IInv, VisitedIsClosed, KnownIsNeeded, ListedOnce
<1>6. QED
  BY <1>4, <1>5 DEF IInv

LEMMA NextKeepsIInv == IInv /\ [Next]_vars => IInv'
<1> SUFFICES ASSUME IInv, [Next]_vars PROVE IInv'
  OBVIOUS
<1>1. CASE GetTids
  BY <1>1, GetTidsKeepsIInv
<1>2. CASE RejectDirections
  <2>1. TypeInv' /\ Drained'
    BY <1>2 DEF RejectDirections, input, IInv, TypeInv, Drained
  <2>2. QED
    BY <1>2, <2>1, QuietStepKeepsIInv DEF RejectDirections, AnalysisStates
<1>3. ASSUME NEW i \in worklist, Visit(i) PROVE IInv'
  BY <1>3, VisitKeepsIInv
<1>4. ASSUME NEW i \in worklist, DereferenceNull(i) PROVE IInv'
  <2>1. TypeInv' /\ Drained'
    BY <1>4 DEF DereferenceNull, input, IInv, TypeInv, Drained, AnalysisStates
  <2>2. QED
    BY <1>4, <2>1, QuietStepKeepsIInv DEF DereferenceNull, AnalysisStates
<1>5. CASE FindBranches
  <2>1. TypeInv' /\ Drained'
    BY <1>5 DEF FindBranches, input, IInv, TypeInv, Drained, AnalysisStates
  <2>2. QED
    BY <1>5, <2>1, QuietStepKeepsIInv DEF FindBranches, AnalysisStates
<1>6. CASE FindRegions
  <2>1. TypeInv' /\ Drained'
    BY <1>6 DEF FindRegions, input, IInv, TypeInv, Drained, AnalysisStates
  <2>2. QED
    BY <1>6, <2>1, QuietStepKeepsIInv DEF FindRegions, AnalysisStates
<1>7. CASE UNCHANGED vars
  <2>1. TypeInv' /\ Drained'
    BY <1>7 DEF vars, IInv, TypeInv, Drained
  <2>2. QED
    BY <1>7, <2>1, QuietStepKeepsIInv DEF vars, input
<1>8. QED
  BY <1>1, <1>2, <1>3, <1>4, <1>5, <1>6, <1>7 DEF Next, Terminated

LEMMA Invariance == Spec => []IInv
BY InitIInv, NextKeepsIInv, PTL DEF Spec

----------------------------------------------------------------------------
(* What the invariant says. *)

(* The length of a list without repetitions is the size of its range.       *)
LEMMA LengthIsCardinality ==
    ASSUME NEW T, NEW s \in Seq(T),
           \A m, n \in DOMAIN s : s[m] = s[n] => m = n
    PROVE  Cardinality(Elements(s)) = Len(s)
<1>1. Len(s) \in Nat /\ DOMAIN s = 1 .. Len(s)
  OBVIOUS
<1>2. s \in Bijection(1 .. Len(s), Elements(s))
  <2>1. s \in [1 .. Len(s) -> Elements(s)]
    BY <1>1 DEF Elements
  <2>2. \A m, n \in 1 .. Len(s) : s[m] = s[n] => m = n
    BY <1>1
  <2>3. \A e \in Elements(s) : \E m \in 1 .. Len(s) : s[m] = e
    BY <1>1 DEF Elements
  <2>4. QED
    BY <2>1, <2>2, <2>3 DEF Bijection, Injection, Surjection, IsInjective
<1>3. QED
  BY <1>1, <1>2, FS_CountingElements DEF ExistsBijection

(* No order of visits lists an instruction twice or queues it again, so a   *)
(* branch gets one region.                                                  *)
THEOREM EachListedOnce == Spec => []NoDuplicates
<1>1. IInv => NoDuplicates
  BY LengthIsCardinality DEF IInv, TypeInv, ListedOnce, NoDuplicates, Divergent
<1>2. QED
  BY <1>1, Invariance, PTL

(* When performAnalysis is over its result is the least set that holds the  *)
(* thread ids and is closed under dependence, for every kernel and every    *)
(* order of the worklist.                                                   *)
THEOREM ResultIsLeastClosedSet == Spec => []DivergentIsLeast
<1>1. IInv => DivergentIsLeast
  <2> SUFFICES ASSUME IInv, pc \in {"branches", "done"}
               PROVE  /\ Tids \subseteq Divergent
                      /\ Closed(kernel, pdt, Divergent)
                      /\ \A S \in SUBSET Divergent :
                            Tids \subseteq S /\ Closed(kernel, pdt, S) => S = Divergent
    BY DEF DivergentIsLeast
  <2>1. Known = Divergent
    BY DEF IInv, Drained, Known
  <2>2. Tids \subseteq Divergent
    BY <2>1 DEF IInv, IdsKnown, AnalysisStates
  <2>3. Closed(kernel, pdt, Divergent)
    BY <2>1 DEF IInv, VisitedIsClosed, Closed
  <2>4. Divergent \subseteq kernel.insts
    BY DEF IInv, TypeInv, Divergent, Elements
  <2>5. ASSUME NEW S \in SUBSET Divergent, Tids \subseteq S, Closed(kernel, pdt, S)
        PROVE  S = Divergent
    <3>1. Known \subseteq S
      BY <2>4, <2>5 DEF IInv, KnownIsNeeded
    <3>2. QED
      BY <3>1, <2>1
  <2>6. QED
    BY <2>2, <2>3, <2>5
<1>2. QED
  BY <1>1, Invariance, PTL

(* The variables stay in their types.                                       *)
THEOREM TypeCorrect == Spec => []TypeOK
<1>1. IInv => TypeOK
  BY DEF IInv, TypeInv, TypeOK, AnalysisStates
<1>2. QED
  BY <1>1, Invariance, PTL
----------------------------------------------------------------------------
(* The analysis implements the abstract specification of module Spreading   *)
(* (but for its liveness, which the run checks).                            *)

LEMMA InitSpreads == Init => Spread!Init
BY DEF Init, Spread!Init, Known, Divergent, Elements

(* Reading the ids begins the spreading: before, nothing is known.          *)
LEMMA GetTidsBegins == IInv /\ GetTids => Spread!Begin
<1> SUFFICES ASSUME IInv, GetTids PROVE Spread!Begin
  OBVIOUS
<1> USE DEF GetTids, input
<1>1. Divergent' = {} /\ Tids' = Tids
  BY DEF IInv, NothingKnownBefore, Known, Divergent, Tids, Direction, TidsIn, AllTids
<1>2. Known' = Tids'
  BY <1>1 DEF Known
<1>3. QED
  BY <1>2 DEF Spread!Begin

(* A visit adds what the instruction leads to.                              *)
LEMMA VisitSpreads ==
    ASSUME NEW i \in worklist, IInv, Visit(i)
    PROVE  i \in Known /\ Spread!Spread(i)
<1> USE DEF Visit, input
<1>1. i \in kernel.insts /\ divInsts \in Seq(kernel.insts)
  BY DEF IInv, TypeInv
<1>2. Divergent' = Divergent \cup {i}
  BY <1>1, ElementsOfAppend DEF Divergent
<1>3. Known' = Known \cup Influenced(kernel, pdt, i)
  BY <1>2 DEF Known, Divergent
<1>4. Tids' = Tids
  BY DEF Tids, Direction, TidsIn, AllTids
<1>5. i \in Known
  BY DEF Known
<1>6. QED
  BY <1>1, <1>3, <1>4, <1>5 DEF Spread!Spread

(* The other steps leave what is known, and what it may come to, alone.     *)
LEMMA NothingSpreads ==
    ASSUME UNCHANGED <<input, worklist, divInsts>>
    PROVE  /\ Known' = Known /\ Tids' = Tids
           /\ [i \in kernel.insts |-> Influenced(kernel, pdt, i)]'
                 = [i \in kernel.insts |-> Influenced(kernel, pdt, i)]
BY DEF input, Known, Divergent, Elements, Tids, Direction, TidsIn, AllTids

(* The branches are looked for when all that is known has been followed.    *)
LEMMA FindBranchesHandsOver == IInv /\ FindBranches => Spread!HandOver
<1> SUFFICES ASSUME IInv, FindBranches PROVE Spread!HandOver
  OBVIOUS
<1>1. Known = Divergent
  BY DEF FindBranches, Known
<1>2. \A i \in Known : i \in kernel.insts /\ Influenced(kernel, pdt, i) \subseteq Known
  BY <1>1 DEF IInv, TypeInv, VisitedIsClosed, Divergent, Elements
<1>3. Spread!Complete
  BY <1>2 DEF Spread!Complete
<1>4. QED
  BY <1>3, NothingSpreads DEF FindBranches, Spread!HandOver

(* Every step of the analysis is one of Spreading, or changes nothing of    *)
(* what Spreading sees.                                                     *)
LEMMA NextSpreads == IInv /\ [Next]_vars => [Spread!Next]_(Spread!vars)
<1> SUFFICES ASSUME IInv, [Next]_vars PROVE Spread!Next \/ UNCHANGED Spread!vars
  OBVIOUS
<1>1. CASE GetTids
  BY <1>1, GetTidsBegins DEF Spread!Next
<1>2. CASE RejectDirections
  BY <1>2, NothingSpreads DEF RejectDirections, Spread!Next, Spread!Fail
<1>3. ASSUME NEW i \in worklist, Visit(i) PROVE Spread!Next
  BY <1>3, VisitSpreads DEF Spread!Next
<1>4. ASSUME NEW i \in worklist, DereferenceNull(i) PROVE Spread!Next
  BY <1>4, NothingSpreads DEF DereferenceNull, Spread!Next, Spread!Fail
<1>5. CASE FindBranches
  BY <1>5, FindBranchesHandsOver DEF Spread!Next
<1>6. CASE FindRegions
  BY <1>6, NothingSpreads DEF FindRegions, Spread!vars
<1>7. CASE UNCHANGED vars
  BY <1>7, NothingSpreads DEF vars, input, Spread!vars
<1>8. QED
  BY <1>1, <1>2, <1>3, <1>4, <1>5, <1>6, <1>7 DEF Next, Terminated

(* For every kernel, every pair of passes and options and every order of    *)
(* visits: the divergent instructions spread from the ids along what        *)
(* depends on them, no other is taken up, and none is used before all of    *)
(* them are found.                                                          *)
THEOREM SpreadsSafely == Spec => Spread!Safe
BY InitSpreads, NextSpreads, Invariance, PTL DEF Spec, Spread!Safe

----------------------------------------------------------------------------
(* What is handed over. *)

(* The branches among the first n instructions of a list.                   *)
BranchesBefore(q, n) == {q[m] : m \in {j \in 1..n : kernel.kind[q[j]] = "br"}}

(* What findBranches makes of a list: its branches, each after those before *)
(* it in the list and no others.                                            *)
IsBranchList(o, q, n) ==
    /\ o \in Seq(kernel.insts)
    /\ Elements(o) = BranchesBefore(q, n)
    /\ \A p \in DOMAIN o : \E m \in 1..n :
          /\ o[p] = q[m] /\ kernel.kind[q[m]] = "br"
          /\ {o[r] : r \in 1..(p - 1)} = BranchesBefore(q, m - 1)

LEMMA OneMoreBranch ==
    ASSUME NEW q \in Seq(kernel.insts), NEW n \in Nat, n + 1 \in 1..Len(q),
           NEW o, IsBranchList(o, q, n)
    PROVE  IsBranchList(IF kernel.kind[q[n + 1]] = "br" THEN Append(o, q[n + 1]) ELSE o, q, n + 1)
<1>1. q[n + 1] \in kernel.insts /\ o \in Seq(kernel.insts)
  BY DEF IsBranchList
<1>2. CASE kernel.kind[q[n + 1]] = "br"
  <2> DEFINE e == Append(o, q[n + 1])
  <2>1. /\ e \in Seq(kernel.insts)
        /\ DOMAIN e = DOMAIN o \cup {Len(o) + 1}
        /\ \A m \in DOMAIN o : e[m] = o[m]
        /\ e[Len(o) + 1] = q[n + 1]
        /\ Elements(e) = Elements(o) \cup {q[n + 1]}
    <3> DEFINE x == q[n + 1]
    <3>1. x \in kernel.insts /\ o \in Seq(kernel.insts)
      BY <1>1
    <3> HIDE DEF x
    <3>2. /\ Append(o, x) \in Seq(kernel.insts)
          /\ DOMAIN Append(o, x) = DOMAIN o \cup {Len(o) + 1}
          /\ \A m \in DOMAIN o : Append(o, x)[m] = o[m]
          /\ Append(o, x)[Len(o) + 1] = x
          /\ Elements(Append(o, x)) = Elements(o) \cup {x}
      BY <3>1, ElementsOfAppend
    <3> QED
      BY <3>2, Zenon DEF x
  <2>2. BranchesBefore(q, n + 1) = BranchesBefore(q, n) \cup {q[n + 1]}
    <3>1. \A j : j \in 1..(n + 1) <=> j \in 1..n \/ j = n + 1
      OBVIOUS
    <3> QED
      BY <1>2, <3>1 DEF BranchesBefore
  <2>3. DOMAIN o = 1..Len(o) /\ Len(o) \in Nat
    BY <1>1
  <2> HIDE DEF e
  <2>4. ASSUME NEW p \in DOMAIN e
        PROVE  \E m \in 1..(n + 1) :
                  /\ e[p] = q[m] /\ kernel.kind[q[m]] = "br"
                  /\ {e[r] : r \in 1..(p - 1)} = BranchesBefore(q, m - 1)
    <3>1. CASE p \in DOMAIN o
      <4>1. PICK m \in 1..n : /\ o[p] = q[m] /\ kernel.kind[q[m]] = "br"
                              /\ {o[r] : r \in 1..(p - 1)} = BranchesBefore(q, m - 1)
        BY <3>1 DEF IsBranchList
      <4>2. \A r \in 1..(p - 1) : e[r] = o[r]
        <5>1. \A r \in 1..(p - 1) : r \in DOMAIN o
          BY <2>3, <3>1
        <5> QED
          BY <2>1, <5>1
      <4>3. {e[r] : r \in 1..(p - 1)} = {o[r] : r \in 1..(p - 1)}
        BY <4>2
      <4>4. m \in 1..(n + 1) /\ e[p] = o[p]
        BY <2>1, <3>1
      <4> QED
        BY <4>1, <4>3, <4>4
    <3>2. CASE p = Len(o) + 1
      <4>1. \A r \in 1..(p - 1) : r \in DOMAIN o /\ e[r] = o[r]
        BY <2>1, <2>3, <3>2
      <4>2. 1..(p - 1) = DOMAIN o
        BY <2>3, <3>2
      <4>3. {e[r] : r \in 1..(p - 1)} = Elements(o)
        BY <4>1, <4>2 DEF Elements
      <4>4. n + 1 \in 1..(n + 1) /\ (n + 1) - 1 = n
        OBVIOUS
      <4> QED
        BY <1>2, <2>1, <3>2, <4>3, <4>4 DEF IsBranchList
    <3> QED
      BY <2>1, <3>1, <3>2
  <2>5. IsBranchList(e, q, n + 1)
    BY <2>1, <2>2, <2>4 DEF IsBranchList
  <2> QED
    BY <1>2, <2>5 DEF e
<1>3. CASE kernel.kind[q[n + 1]] # "br"
  <2>1. BranchesBefore(q, n + 1) = BranchesBefore(q, n)
    <3>1. \A j : j \in 1..(n + 1) <=> j \in 1..n \/ j = n + 1
      OBVIOUS
    <3> QED
      BY <1>3, <3>1 DEF BranchesBefore
  <2>2. \A m \in 1..n : m \in 1..(n + 1)
    OBVIOUS
  <2>3. IsBranchList(o, q, n + 1)
    BY <2>1, <2>2 DEF IsBranchList
  <2> QED
    BY <1>3, <2>3
<1> QED
  BY <1>2, <1>3

LEMMA BranchesAmongIsList ==
    ASSUME NEW q \in Seq(kernel.insts)
    PROVE  IsBranchList(BranchesAmong(q), q, Len(q))
<1> DEFINE n == Len(q)
           V == Seq(kernel.insts)
           Longer(i, x) == IF kernel.kind[q[i]] = "br" THEN Append(x, q[i]) ELSE x
           h == [x \in Nat \X V |-> IF x[1] \in 1..n THEN Longer(x[1], x[2]) ELSE x[2]]
           UpTo[i \in 0..n] ==
               IF i = 0 THEN <<>>
               ELSE IF kernel.kind[q[i]] = "br" THEN Append(UpTo[i - 1], q[i])
               ELSE UpTo[i - 1]
<1>1. n \in Nat /\ \A i \in 1..n : q[i] \in kernel.insts
  OBVIOUS
<1>2. BranchesAmong(q) = UpTo[n]
  BY DEF BranchesAmong
<1>3. h \in [Nat \X V -> V] /\ <<>> \in V
  <2>1. \A i \in 1..n, x \in V : Longer(i, x) \in V
    BY <1>1, ElementsOfAppend
  <2>2. <<>> \in V
    OBVIOUS
  <2> HIDE DEF V, Longer, n
  <2>3. h \in [Nat \X V -> V]
    BY <2>1
  <2> QED
    BY <2>2, <2>3
<1>4. PICK W \in [0..n -> V] : IsRecursive(W, n, <<>>, h)
  <2> HIDE DEF n, V, h
  <2> QED
    BY <1>1, <1>3, RecursiveExists
<1>5. \A i \in 0..n : W[i] = IF i = 0 THEN <<>> ELSE Longer(i, W[i - 1])
  <2> SUFFICES ASSUME NEW i \in 0..n PROVE W[i] = IF i = 0 THEN <<>> ELSE Longer(i, W[i - 1])
    OBVIOUS
  <2> HIDE DEF n, V, Longer
  <2>1. W[i] = IF i = 0 THEN <<>> ELSE h[<<i, W[i - 1]>>]
    <3> HIDE DEF h
    <3> QED
      BY <1>4 DEF IsRecursive
  <2>2. CASE i = 0
    BY <2>1, <2>2
  <2>3. CASE i # 0
    <3>1. i \in Nat /\ i \in 1..n /\ i - 1 \in 0..n /\ W[i - 1] \in V
      BY <1>1, <1>4, <2>3
    <3>2. h[<<i, W[i - 1]>>] = Longer(i, W[i - 1])
      BY <3>1
    <3> HIDE DEF h
    <3> QED
      BY <2>1, <2>3, <3>2
  <2> QED
    BY <2>2, <2>3
<1>6. W = [i \in 0..n |->
               IF i = 0 THEN <<>>
               ELSE IF kernel.kind[q[i]] = "br" THEN Append(W[i - 1], q[i])
               ELSE W[i - 1]]
  <2>1. W = [i \in 0..n |-> W[i]]
    BY <1>4
  <2> QED
    BY <1>5, <2>1
<1>7. UpTo = [i \in 0..n |->
               IF i = 0 THEN <<>>
               ELSE IF kernel.kind[q[i]] = "br" THEN Append(UpTo[i - 1], q[i])
               ELSE UpTo[i - 1]]
  BY <1>6
<1> HIDE DEF UpTo, h
<1>8. UpTo[0] = <<>> /\ \A i \in 1..n : UpTo[i] = Longer(i, UpTo[i - 1])
  <2>1. UpTo[0] = <<>>
    BY <1>1, <1>7
  <2>2. ASSUME NEW i \in 1..n PROVE UpTo[i] = Longer(i, UpTo[i - 1])
    <3>1. i \in 0..n /\ i # 0
      BY <1>1
    <3> QED
      BY <1>7, <3>1, Zenon
  <2> QED
    BY <2>1, <2>2
<1> DEFINE T == {m \in Nat : m \in 0..n => IsBranchList(UpTo[m], q, m)}
<1>9. \A m \in Nat : m \in T
  <2>1. 0 \in T
    <3>1. Elements(UpTo[0]) = {} /\ BranchesBefore(q, 0) = {} /\ UpTo[0] \in Seq(kernel.insts)
      BY <1>8 DEF Elements, BranchesBefore
    <3>2. DOMAIN UpTo[0] = {}
      BY <1>8
    <3>3. IsBranchList(UpTo[0], q, 0)
      BY <3>1, <3>2 DEF IsBranchList
    <3> QED
      BY <3>3
  <2>2. ASSUME NEW m \in Nat, m \in T PROVE m + 1 \in T
    <3> SUFFICES ASSUME m + 1 \in 0..n PROVE IsBranchList(UpTo[m + 1], q, m + 1)
      OBVIOUS
    <3>1. m + 1 \in 1..n /\ (m + 1) - 1 = m /\ m \in 0..n
      BY <1>1
    <3>2. UpTo[m + 1] = IF kernel.kind[q[m + 1]] = "br" THEN Append(UpTo[m], q[m + 1]) ELSE UpTo[m]
      BY <1>8, <3>1
    <3>3. IsBranchList(UpTo[m], q, m)
      BY <2>2, <3>1
    <3> QED
      BY <3>1, <3>2, <3>3, OneMoreBranch
  <2> HIDE DEF T
  <2> QED
    BY <2>1, <2>2, Induction
<1>10. n \in T /\ n \in 0..n
  BY <1>1, <1>9
<1> QED
  BY <1>2, <1>10

(* The branches come upon through the joins of those before: what was       *)
(* visited depends on the ids through the joins of the branches visited     *)
(* before it, and so does what is queued now.                               *)
ReachedBy(found) == Dependents(kernel, KnownJoins(kernel, pdt, found), Tids)

FoundInOrder ==
    /\ \A m \in DOMAIN divInsts : divInsts[m] \in ReachedBy(BranchesBefore(divInsts, m - 1))
    /\ worklist \subseteq ReachedBy(BranchesBefore(divInsts, Len(divInsts)))

BranchesListed == pc \in {"branches", "done"} => divBranches = BranchesAmong(divInsts)

OrderInv == FoundInOrder /\ BranchesListed

LEMMA InitOrder == Init => OrderInv
BY DEF Init, OrderInv, FoundInOrder, BranchesListed

(* What the assumption says of the kernel at hand.                          *)
LEMMA KernelIsSound ==
    IInv => /\ IsFiniteSet(kernel.insts) /\ NoBlock \notin kernel.blocks
            /\ kernel.parent \in [kernel.insts -> kernel.blocks]
            /\ Tids \subseteq kernel.insts
BY KernelsAssumption, TidsInKernel DEF IInv, TypeInv, IsGraph

LEMMA GetTidsKeepsOrder == IInv /\ OrderInv /\ GetTids => OrderInv'
<1> SUFFICES ASSUME IInv, OrderInv, GetTids PROVE OrderInv'
  OBVIOUS
<1> USE DEF GetTids, input
<1>1. Divergent = {} /\ divInsts \in Seq(kernel.insts)
  BY DEF IInv, TypeInv, NothingKnownBefore, Known
<1>2. DOMAIN divInsts = {}
  BY <1>1 DEF Divergent, Elements
<1>3. /\ \A found : ReachedBy(found)' = ReachedBy(found)
      /\ \A q, n : BranchesBefore(q, n)' = BranchesBefore(q, n)
  BY DEF ReachedBy, BranchesBefore, Tids, Direction, TidsIn, AllTids
<1>4. \A found : Tids \subseteq ReachedBy(found)
  BY KernelIsSound, DependentsIsLeast DEF ReachedBy
<1>5. FoundInOrder'
  BY <1>2, <1>3, <1>4 DEF FoundInOrder
<1> QED
  BY <1>5 DEF OrderInv, BranchesListed

LEMMA VisitKeepsOrder ==
    ASSUME NEW i \in worklist, IInv, OrderInv, Visit(i)
    PROVE  OrderInv'
<1> USE DEF Visit, input
<1> DEFINE l == Len(divInsts)
           Br(n) == BranchesBefore(divInsts, n)
<1>1. i \in kernel.insts /\ divInsts \in Seq(kernel.insts) /\ l \in Nat /\ DOMAIN divInsts = 1..l
  BY DEF IInv, TypeInv
<1>2. /\ divInsts' \in Seq(kernel.insts)
      /\ DOMAIN divInsts' = DOMAIN divInsts \cup {l + 1}
      /\ \A m \in DOMAIN divInsts : divInsts'[m] = divInsts[m]
      /\ divInsts'[l + 1] = i
      /\ Len(divInsts') = l + 1
  BY <1>1, ElementsOfAppend
<1>3. \A found : ReachedBy(found)' = ReachedBy(found)
  BY DEF ReachedBy, Tids, Direction, TidsIn, AllTids
<1>4. \A n \in 0..l : BranchesBefore(divInsts, n)' = Br(n)
  BY <1>1, <1>2 DEF BranchesBefore
<1>5. BranchesBefore(divInsts, Len(divInsts))' = Br(l) \cup (IF kernel.kind[i] = "br" THEN {i} ELSE {})
  <2>1. \A j : j \in 1..(l + 1) <=> j \in 1..l \/ j = l + 1
    BY <1>1
  <2>2. (\A j \in 1..l : divInsts'[j] = divInsts[j]) /\ kernel' = kernel
    BY <1>1, <1>2
  <2> HIDE DEF Visit
  <2> QED
    BY <1>2, <2>1, <2>2 DEF BranchesBefore
<1> DEFINE G == Br(l) \cup (IF kernel.kind[i] = "br" THEN {i} ELSE {})
<1>6. ReachedBy(Br(l)) \subseteq ReachedBy(G)
  BY KernelIsSound, MoreJoinsMoreDependents DEF ReachedBy
<1>7. i \in ReachedBy(Br(l)) /\ worklist \subseteq ReachedBy(Br(l))
  BY DEF OrderInv, FoundInOrder
<1>8. Influenced(kernel, pdt, i) \subseteq ReachedBy(G)
  <2>1. i \in Dependents(kernel, KnownJoins(kernel, pdt, G), Tids)
    BY <1>6, <1>7 DEF ReachedBy
  <2>2. kernel.kind[i] = "br" => i \in G
    OBVIOUS
  <2> HIDE DEF G
  <2> QED
    BY <2>1, <2>2, KernelIsSound, FoundLeadsOn DEF ReachedBy
<1>9. worklist' \subseteq ReachedBy(G)
  BY <1>6, <1>7, <1>8
<1>10. ASSUME NEW m \in DOMAIN divInsts'
       PROVE  divInsts'[m] \in ReachedBy(BranchesBefore(divInsts, m - 1)')
  <2>1. CASE m \in DOMAIN divInsts
    <3>1. m - 1 \in 0..l
      BY <1>1, <2>1
    <3> QED
      BY <1>2, <1>4, <2>1, <3>1 DEF OrderInv, FoundInOrder
  <2>2. CASE m = l + 1
    <3>1. m - 1 = l /\ l \in 0..l
      BY <1>1, <2>2
    <3>2. BranchesBefore(divInsts, m - 1)' = Br(l)
      BY <1>4, <3>1
    <3> QED
      BY <1>2, <1>7, <2>2, <3>2
  <2> QED
    BY <1>2, <2>1, <2>2
<1>11. FoundInOrder'
  <2> HIDE DEF G
  <2>1. BranchesBefore(divInsts, Len(divInsts))' = G
    BY <1>5 DEF G
  <2> HIDE DEF Visit
  <2> QED
    BY <1>3, <1>9, <1>10, <2>1 DEF FoundInOrder
<1> QED
  BY <1>11 DEF OrderInv, BranchesListed

(* The remaining steps leave list and queue alone.                          *)
LEMMA QuietStepKeepsOrder ==
    ASSUME OrderInv, UNCHANGED <<input, worklist, divInsts>>, BranchesListed'
    PROVE  OrderInv'
<1>1. /\ \A found : ReachedBy(found)' = ReachedBy(found)
      /\ \A q, n : BranchesBefore(q, n)' = BranchesBefore(q, n)
  BY DEF input, ReachedBy, BranchesBefore, Tids, Direction, TidsIn, AllTids
<1> QED
  BY <1>1 DEF OrderInv, FoundInOrder

LEMMA NextKeepsOrder == IInv /\ OrderInv /\ [Next]_vars => OrderInv'
<1> SUFFICES ASSUME IInv, OrderInv, [Next]_vars PROVE OrderInv'
  OBVIOUS
<1>0. kernel' = kernel => \A q : BranchesAmong(q)' = BranchesAmong(q)
  BY DEF BranchesAmong
<1>1. CASE GetTids
  BY <1>1, GetTidsKeepsOrder
<1>2. CASE RejectDirections
  BY <1>2, QuietStepKeepsOrder DEF RejectDirections, BranchesListed
<1>3. ASSUME NEW i \in worklist, Visit(i) PROVE OrderInv'
  BY <1>3, VisitKeepsOrder
<1>4. ASSUME NEW i \in worklist, DereferenceNull(i) PROVE OrderInv'
  BY <1>4, QuietStepKeepsOrder DEF DereferenceNull, BranchesListed
<1>5. CASE FindBranches
  BY <1>0, <1>5, QuietStepKeepsOrder DEF FindBranches, BranchesListed, input
<1>6. CASE FindRegions
  BY <1>0, <1>6, QuietStepKeepsOrder DEF FindRegions, BranchesListed, OrderInv, input
<1>7. CASE UNCHANGED vars
  BY <1>0, <1>7, QuietStepKeepsOrder DEF vars, BranchesListed, OrderInv, input
<1> QED
  BY <1>1, <1>2, <1>3, <1>4, <1>5, <1>6, <1>7 DEF Next, Terminated

LEMMA OrderInvariance == Spec => [](IInv /\ OrderInv)
BY InitIInv, InitOrder, NextKeepsIInv, NextKeepsOrder, PTL DEF Spec

(* Whatever order the worklist is emptied in, what is handed over is the    *)
(* least set closed under dependence, computed, and its branches in one of  *)
(* the orders in which they can be come upon.                               *)
THEOREM HandsOver == Spec => []HandedOver
<1>1. IInv /\ OrderInv => HandedOver
  <2> SUFFICES ASSUME IInv, OrderInv, pc \in {"branches", "done"}
               PROVE  /\ Divergent = Dependents(kernel, pdt, Tids)
                      /\ divBranches \in BranchOrders(kernel, pdt, Tids)
    BY DEF HandedOver
  <2>1. Divergent = Dependents(kernel, pdt, Tids)
    <3>1. Known = Divergent
      BY DEF IInv, Drained, Known
    <3>2. Tids \subseteq Divergent /\ Closed(kernel, pdt, Divergent) /\ Divergent \subseteq kernel.insts
      BY <3>1 DEF IInv, IdsKnown, AnalysisStates, VisitedIsClosed, Closed, TypeInv, Divergent, Elements
    <3> DEFINE S == Dependents(kernel, pdt, Tids)
    <3>3. /\ S \in SUBSET kernel.insts /\ Tids \subseteq S /\ Closed(kernel, pdt, S)
          /\ S \subseteq Divergent
      BY <3>2, KernelIsSound, DependentsIsLeast
    <3> HIDE DEF S
    <3>4. Known \subseteq S
      BY <3>3 DEF IInv, KnownIsNeeded
    <3> QED
      BY <3>1, <3>3, <3>4 DEF S
  <2> DEFINE brs == {i \in Dependents(kernel, pdt, Tids) : kernel.kind[i] = "br"}
             q == divInsts
             o == divBranches
  <2>2. q \in Seq(kernel.insts) /\ DOMAIN q = 1..Len(q) /\ Len(q) \in Nat
    BY DEF IInv, TypeInv
  <2>3. IsBranchList(o, q, Len(q))
    BY <2>2, BranchesAmongIsList DEF OrderInv, BranchesListed
  <2>4. o \in Seq(kernel.insts) /\ DOMAIN o = 1..Len(o) /\ Len(o) \in Nat
    BY <2>3 DEF IsBranchList
  <2>5. Elements(o) = brs
    <3>1. Elements(o) = BranchesBefore(q, Len(q))
      BY <2>3 DEF IsBranchList
    <3>2. {q[m] : m \in 1..Len(q)} = Dependents(kernel, pdt, Tids)
      BY <2>1, <2>2 DEF Divergent, Elements
    <3>3. BranchesBefore(q, Len(q)) = brs
      BY <3>2 DEF BranchesBefore
    <3> QED
      BY <3>1, <3>3
  <2>6. ASSUME NEW p \in DOMAIN o
        PROVE  /\ o[p] \in ReachedBy({o[r] : r \in 1..(p - 1)})
               /\ o[p] \notin {o[r] : r \in 1..(p - 1)}
    <3>1. PICK m \in 1..Len(q) : /\ o[p] = q[m] /\ kernel.kind[q[m]] = "br"
                                 /\ {o[r] : r \in 1..(p - 1)} = BranchesBefore(q, m - 1)
      BY <2>3 DEF IsBranchList
    <3>2. o[p] \in ReachedBy({o[r] : r \in 1..(p - 1)})
      BY <2>2, <3>1 DEF OrderInv, FoundInOrder
    <3>3. q[m] \notin BranchesBefore(q, m - 1)
      BY <2>2 DEF BranchesBefore, IInv, ListedOnce
    <3> QED
      BY <3>1, <3>2, <3>3
  <2>7. Cardinality(brs) = Len(o)
    <3>1. ASSUME NEW m \in DOMAIN o, NEW n \in DOMAIN o, o[m] = o[n], m < n PROVE FALSE
      <4>1. m \in 1..(n - 1)
        BY <2>4, <3>1
      <4> QED
        BY <2>6, <3>1, <4>1
    <3>2. \A m, n \in DOMAIN o : o[m] = o[n] => m = n
      BY <2>4, <3>1
    <3> QED
      BY <2>4, <2>5, <3>2, LengthIsCardinality
  <2>8. o \in [1..Cardinality(brs) -> brs]
    <3>1. \A m \in 1..Len(o) : o[m] \in brs
      BY <2>4, <2>5 DEF Elements
    <3>2. o = [m \in 1..Len(o) |-> o[m]]
      BY <2>4
    <3> QED
      BY <2>7, <3>1, <3>2
  <2> HIDE DEF brs, o
  <2>9. o \in BranchOrders(kernel, pdt, Tids)
    BY <2>4, <2>6, <2>7, <2>8 DEF BranchOrders, ReachedBy, brs
  <2> QED
    BY <2>1, <2>9 DEF o
<1> QED
  BY <1>1, OrderInvariance, PTL

----------------------------------------------------------------------------
(* The regions, in structured kernels. *)

(* A branch is visited once it was found to have a join in the tree of the  *)
(* kernel, and every listed branch is given the region between its bounds.  *)
JoinsFound ==
    /\ pdt = PostDomTree(kernel) /\ loopInfo = LoopForest(kernel)
    /\ \A i \in Divergent : ~NoJoin(i)

RegionsListed ==
    pc = "done" => regions = [n \in DOMAIN divBranches |-> RegionOf(divBranches[n])]

RegionInv == JoinsFound /\ RegionsListed

LEMMA InitRegions == Init => RegionInv
BY DEF Init, RegionInv, JoinsFound, RegionsListed, Divergent, Elements

LEMMA NextKeepsRegions == IInv /\ RegionInv /\ [Next]_vars => RegionInv'
<1> SUFFICES ASSUME IInv, RegionInv, [Next]_vars PROVE RegionInv'
  OBVIOUS
<1>1. CASE GetTids \/ RejectDirections \/ FindBranches
  BY <1>1 DEF GetTids, RejectDirections, FindBranches, input, RegionInv, JoinsFound,
              RegionsListed, NoJoin, Divergent, Elements
<1>2. ASSUME NEW i \in worklist, Visit(i) PROVE RegionInv'
  <2>1. i \in kernel.insts /\ divInsts \in Seq(kernel.insts)
    BY DEF IInv, TypeInv
  <2>2. Divergent' = Divergent \cup {i} /\ ~NoJoin(i)
    BY <1>2, <2>1, ElementsOfAppend DEF Visit, Divergent
  <2>3. /\ kernel' = kernel /\ pdt' = pdt /\ loopInfo' = loopInfo
        /\ pc' = "analyse"
    BY <1>2 DEF Visit, input
  <2> QED
    BY <2>2, <2>3 DEF RegionInv, JoinsFound, RegionsListed, NoJoin
<1>3. ASSUME NEW i \in worklist, DereferenceNull(i) PROVE RegionInv'
  BY <1>3 DEF DereferenceNull, input, RegionInv, JoinsFound, RegionsListed, NoJoin,
              Divergent, Elements
<1>4. CASE FindRegions
  BY <1>4 DEF FindRegions, input, RegionInv, JoinsFound, RegionsListed, NoJoin,
              Divergent, Elements, RegionOf
<1>5. CASE UNCHANGED vars
  BY <1>5 DEF vars, RegionInv, JoinsFound, RegionsListed, NoJoin, Divergent, Elements, RegionOf
<1> QED
  BY <1>1, <1>2, <1>3, <1>4, <1>5 DEF Next, Terminated

LEMMA RegionInvariance == Spec => [](IInv /\ OrderInv /\ RegionInv)
BY InitIInv, InitOrder, InitRegions, NextKeepsIInv, NextKeepsOrder, NextKeepsRegions, PTL DEF Spec

(* The branches listed are divergent ones with a join.                      *)
LEMMA ListedBranchHasJoin ==
    ASSUME IInv, OrderInv, RegionInv, pc = "done", NEW i \in Elements(divBranches)
    PROVE  /\ i \in Divergent /\ kernel.kind[i] = "br"
           /\ kernel.parent[i] \in kernel.blocks
           /\ pdt[kernel.parent[i]] = ImmPostDom(kernel, kernel.parent[i])
           /\ ImmPostDom(kernel, kernel.parent[i]) # NoBlock
<1>1. divInsts \in Seq(kernel.insts) /\ DOMAIN divInsts = 1..Len(divInsts)
  BY DEF IInv, TypeInv
<1>2. Elements(divBranches) = BranchesBefore(divInsts, Len(divInsts))
  BY <1>1, BranchesAmongIsList DEF OrderInv, BranchesListed, IsBranchList
<1>3. i \in Divergent /\ kernel.kind[i] = "br"
  BY <1>1, <1>2 DEF BranchesBefore, Divergent, Elements
<1>4. kernel.parent[i] \in kernel.blocks
  BY <1>1, <1>3, KernelIsSound DEF Divergent, Elements
<1>5. pdt[kernel.parent[i]] = ImmPostDom(kernel, kernel.parent[i])
  BY <1>4 DEF RegionInv, JoinsFound, PostDomTree
<1> QED
  BY <1>3, <1>4, <1>5 DEF RegionInv, JoinsFound, NoJoin

(* Where the analysis looks, every phi that merges what a divergent branch  *)
(* separates is found: in a structured kernel the two ways from a branch    *)
(* meet in its immediate post-dominator and nowhere else.                   *)
THEOREM NoMergeIsMissed == Spec => [](Structured(kernel) => MergesAreDivergent)
<1>1. IInv /\ OrderInv /\ RegionInv => (Structured(kernel) => MergesAreDivergent)
  <2> SUFFICES ASSUME IInv, OrderInv, RegionInv, Structured(kernel), pc = "done",
                      NEW i \in Elements(divBranches), NEW j \in kernel.blocks,
                      MeetIn(kernel, kernel.parent[i], j)
               PROVE  Phis(kernel, j) \subseteq Divergent
    BY Zenon DEF MergesAreDivergent
  <2> DEFINE b == kernel.parent[i]
             p == ImmPostDom(kernel, b)
  <2>1. /\ i \in Divergent /\ kernel.kind[i] = "br"
        /\ b \in kernel.blocks /\ pdt[b] = p /\ p # NoBlock
    BY ListedBranchHasJoin
  <2>2. IsGraph(kernel)
    BY KernelsAssumption DEF IInv, TypeInv
  <2>3. MayReturn(kernel)
    BY <2>2, StructuredIsReached
  <2>4. Len(kernel.succ[b]) = 2
    BY DEF MeetIn
  <2>5. IsBranch(kernel, b, p)
    BY <2>1, <2>2, <2>3, <2>4, JoinIs DEF IsBranch
  <2> HIDE DEF p, b
  <2>6. j = p
    BY <2>2, <2>5, MeetIsJoin DEF b
  <2>7. Phis(kernel, pdt[kernel.parent[i]]) \subseteq Known
    BY <2>1 DEF IInv, VisitedIsClosed, Influenced, JoinPhis
  <2>8. Known = Divergent
    BY DEF IInv, Drained, Known
  <2> QED
    BY <2>1, <2>6, <2>7, <2>8 DEF b
<1> QED
  BY <1>1, RegionInvariance, PTL

(* The region of a listed branch that does not leave a loop in the middle   *)
(* is the one of its block.                                                 *)
LEMMA ListedRegionIs ==
    ASSUME IInv, OrderInv, RegionInv, Structured(kernel), pc = "done",
           NEW n \in DOMAIN regions, ~MidLoopExit(n)
    PROVE  LET b == kernel.parent[divBranches[n]]
           IN  /\ HasRegion(kernel, b)
               /\ regions[n].header = b /\ regions[n].exiting = RegionEnd(kernel, b)
               /\ regions[n].blocks =
                     ReachAvoid(kernel, {b}, {RegionEnd(kernel, b)}) \cup {RegionEnd(kernel, b)}
<1> DEFINE i == divBranches[n]
           b == kernel.parent[i]
           p == ImmPostDom(kernel, b)
<1>1. n \in DOMAIN divBranches /\ regions[n] = RegionOf(i)
  BY DEF RegionInv, RegionsListed
<1>2. i \in Elements(divBranches)
  BY <1>1 DEF Elements
<1>3. b \in kernel.blocks /\ pdt[b] = p /\ p # NoBlock
  BY <1>2, ListedBranchHasJoin
<1>4. HasRegion(kernel, b)
  BY <1>3 DEF HasRegion, MidLoopExit
<1>5. IsGraph(kernel)
  BY KernelsAssumption DEF IInv, TypeInv
<1>6. p \in kernel.blocks
  BY <1>4, <1>5, RegionIsOfBranchOrLoop DEF IsJoin
<1>7. loopInfo[b] = LoopFor(kernel, b) /\ loopInfo[p] = LoopFor(kernel, p)
  BY <1>3, <1>6 DEF RegionInv, JoinsFound, LoopForest
<1>8. RegionOf(i) = Region(kernel, b, RegionEnd(kernel, b))
  BY <1>3, <1>7 DEF RegionOf, BranchRegion, RegionEnd
<1>9. RegionEnd(kernel, b) # b
  BY <1>4, <1>5, RegionIsClosed
<1> HIDE DEF p, b, i
<1>10. ListBlocks(kernel, b, RegionEnd(kernel, b))
          = ReachAvoid(kernel, {b}, {RegionEnd(kernel, b)}) \cup {RegionEnd(kernel, b)}
  BY <1>9 DEF ListBlocks
<1> QED
  BY <1>1, <1>4, <1>8, <1>10 DEF Region, b, i

(* A region the analysis reports of a structured kernel can be replicated   *)
(* as one unit: whatever its branch and however loops and branches are      *)
(* nested around it and in it, it is entered through its header and left    *)
(* through its exiting block only, unless its branch leaves a loop in the   *)
(* middle.                                                                  *)
THEOREM RegionsHaveOneWayInAndOut == Spec => [](Structured(kernel) => RegionsAreClosed)
<1>1. IInv /\ OrderInv /\ RegionInv => (Structured(kernel) => RegionsAreClosed)
  <2> SUFFICES ASSUME IInv, OrderInv, RegionInv, Structured(kernel), pc = "done",
                      NEW n \in DOMAIN regions, ~MidLoopExit(n),
                      NEW c \in regions[n].blocks \ {regions[n].exiting}
               PROVE  /\ Dominates(kernel, regions[n].header, c)
                      /\ PostDominates(kernel, regions[n].exiting, c)
    BY Zenon DEF RegionsAreClosed
  <2> DEFINE b == kernel.parent[divBranches[n]]
             e == RegionEnd(kernel, b)
  <2>1. /\ HasRegion(kernel, b)
        /\ regions[n].header = b /\ regions[n].exiting = e
        /\ regions[n].blocks = ReachAvoid(kernel, {b}, {e}) \cup {e}
    BY ListedRegionIs
  <2>2. IsGraph(kernel)
    BY KernelsAssumption DEF IInv, TypeInv
  <2> HIDE DEF b
  <2>3. \A x \in ReachAvoid(kernel, {b}, {e}) : Dominates(kernel, b, x) /\ PostDominates(kernel, e, x)
    BY <2>1, <2>2, RegionIsClosed
  <2> QED
    BY <2>1, <2>3
<1> QED
  BY <1>1, RegionInvariance, PTL

(* No two of them overlap in part: the one is inside the other, or they     *)
(* share no internal block.                                                 *)
THEOREM RegionsAreNested == Spec => [](Structured(kernel) => RegionsNest)
<1>1. IInv /\ OrderInv /\ RegionInv => (Structured(kernel) => RegionsNest)
  <2> SUFFICES ASSUME IInv, OrderInv, RegionInv, Structured(kernel), pc = "done",
                      NEW m \in DOMAIN regions, NEW n \in DOMAIN regions,
                      ~MidLoopExit(m), ~MidLoopExit(n)
               PROVE  \/ Internal(regions[m]) \cap Internal(regions[n]) = {}
                      \/ Internal(regions[m]) \subseteq Internal(regions[n])
                      \/ Internal(regions[n]) \subseteq Internal(regions[m])
    BY Zenon DEF RegionsNest
  <2> DEFINE B(x) == kernel.parent[divBranches[x]]
  <2>1. IsGraph(kernel)
    BY KernelsAssumption DEF IInv, TypeInv
  <2>2. ASSUME NEW x \in DOMAIN regions, ~MidLoopExit(x)
        PROVE  HasRegion(kernel, B(x)) /\ Internal(regions[x]) = RegionInside(kernel, B(x))
    <3> DEFINE b == B(x)
               e == RegionEnd(kernel, b)
    <3>1. /\ HasRegion(kernel, b)
          /\ regions[x].header = b /\ regions[x].exiting = e
          /\ regions[x].blocks = ReachAvoid(kernel, {b}, {e}) \cup {e}
      BY <2>2, ListedRegionIs
    <3>2. {b} \in SUBSET kernel.blocks
      BY <3>1 DEF HasRegion
    <3> HIDE DEF b, e
    <3>3. e \notin ReachAvoid(kernel, {b}, {e})
      BY <2>1, <3>2, ReachAvoidIsClosed
    <3> QED
      BY <3>1, <3>3 DEF Internal, RegionInside, b, e
  <2> QED
    BY <2>1, <2>2, RegionsAreNestedOrApart
<1> QED
  BY <1>1, RegionInvariance, PTL
=============================================================================
