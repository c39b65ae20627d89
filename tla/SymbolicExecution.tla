--------------------------- MODULE SymbolicExecution ---------------------------
(****************************************************************************)
(* lib/Passes/SymbolicExecution.cpp (symbolic-execution): visits the loads  *)
(* and stores of a kernel in order and asks module SubscriptAnalysis for    *)
(* the bank conflicts of those in local memory and the transactions of the  *)
(* others. The answers go to eight lists, by load or store, in a loop or    *)
(* not, and question, which are printed at the end. Accesses through a      *)
(* pointer that no getelementptr computes are passed over.                  *)
(****************************************************************************)
EXTENDS SubscriptAnalysis

CONSTANTS Kernels,  \* sequences of accesses: isLoad, isGep, space ("local", "global" or
                    \* "private"), isInLoop, base, subscript, width
          Spaces    \* launches

IsAccess(a) ==
    /\ a.isLoad \in BOOLEAN /\ a.isGep \in BOOLEAN /\ a.isInLoop \in BOOLEAN
    /\ a.space \in {"local", "global", "private"}
    /\ a.base \in Bases /\ IsSubscript(a.subscript)
    /\ a.width \in Nat \ {0}

ASSUME KernelsAssumption ==
    \A k \in Kernels : Len(k) \in Nat /\ DOMAIN k = 1..Len(k) /\ \A n \in DOMAIN k : IsAccess(k[n])

ASSUME SpacesAssumption ==
    \A s \in Spaces : s.local \in [Directions -> Nat \ {0}] /\ s.groups \in [Directions -> Nat \ {0}]

VARIABLES kernel, env,
          at,     \* the access to visit next
          lists,  \* the answers so far
          pc

vars == <<kernel, env, at, lists, pc>>

(* The name of a list: what is asked, of loads or of stores, in a loop.     *)
Lists == [local : BOOLEAN, isLoad : BOOLEAN, isInLoop : BOOLEAN]

(* initBuffers *)
Init ==
    /\ kernel \in Kernels /\ env \in Environments(Spaces)
    /\ at = 1
    /\ lists = [l \in Lists |-> <<>>]
    /\ pc = "visit"

access == kernel[at]

(* A fault: stores in a loop are listed with the others.                    *)
ListOutside(a) ==
    [local |-> a.space = "local", isLoad |-> a.isLoad, isInLoop |-> a.isInLoop /\ a.isLoad]

ListOf(a) == [local |-> a.space = "local", isLoad |-> a.isLoad, isInLoop |-> a.isInLoop]

Visiting == pc = "visit" /\ at \in DOMAIN kernel

visitMemoryInst ==
    /\ Visiting
    /\ access.isGep /\ access.space # "local"
    /\ lists' = [lists EXCEPT ![ListOf(access)] = Append(@, TransactionNumber(access, env))]
    /\ at' = at + 1
    /\ UNCHANGED <<kernel, env, pc>>

visitLocalMemoryInst ==
    /\ Visiting
    /\ access.isGep /\ access.space = "local"
    /\ Known(access, Warp(env.space), env)
    /\ lists' = [lists EXCEPT ![ListOf(access)] = Append(@, BankConflictNumber(access, env))]
    /\ at' = at + 1
    /\ UNCHANGED <<kernel, env, pc>>

(* "It don't know how to deal with this case. Yet.": assert(false).         *)
Abort ==
    /\ Visiting
    /\ access.isGep /\ access.space = "local"
    /\ ~Known(access, Warp(env.space), env)
    /\ pc' = "aborted"
    /\ UNCHANGED <<kernel, env, at, lists>>

PassOver ==
    /\ Visiting
    /\ ~access.isGep
    /\ at' = at + 1
    /\ UNCHANGED <<kernel, env, lists, pc>>

dump ==
    /\ pc = "visit" /\ at \notin DOMAIN kernel
    /\ pc' = "dumped"
    /\ UNCHANGED <<kernel, env, at, lists>>

Terminated == pc \in {"dumped", "aborted"} /\ UNCHANGED vars

Next ==
    \/ visitMemoryInst
    \/ visitLocalMemoryInst
    \/ Abort
    \/ PassOver
    \/ dump
    \/ Terminated

Spec == Init /\ [][Next]_vars

----------------------------------------------------------------------------
(* Properties. *)

(* The accesses that a list is for, of those visited, and the entry of one. *)
ListedIn(l) ==
    {n \in DOMAIN kernel :
        /\ n < at /\ kernel[n].isGep
        /\ (kernel[n].space = "local") = l.local
        /\ kernel[n].isLoad = l.isLoad /\ kernel[n].isInLoop = l.isInLoop}

Entry(n, l) == lists[l][Cardinality({m \in ListedIn(l) : m <= n})]

IsPlain(n) == Plain(kernel[n], Threads(env.space), env.space)

(* Each access outside of local memory has one entry, in the list for its   *)
(* kind, in order, and the entry is the number of cache lines that the      *)
(* warp's threads touch. It may be more when a group has fewer threads than *)
(* a warp, as it is taken to go on, and for a base that an instruction      *)
(* computes, as each thread is then taken to touch a line of its own.       *)
TransactionsAreLines ==
    \A l \in {m \in Lists : ~m.local} :
        /\ Len(lists[l]) = Cardinality(ListedIn(l))
        /\ \A n \in ListedIn(l) : IsPlain(n) =>
              LET lines == Cardinality(Lines(kernel[n], env.space))
              IN  IF Cardinality(Threads(env.space)) = WARP_SIZE /\ kernel[n].base # "instruction"
                  THEN Entry(n, l) = lines
                  ELSE Entry(n, l) >= lines

(* Each access in local memory has one entry, in order, and no bank         *)
(* conflict is missed when the elements are as wide as the banks.           *)
ConflictsAreSeen ==
    \A l \in {m \in Lists : m.local} :
        /\ Len(lists[l]) = Cardinality(ListedIn(l))
        /\ \A n \in ListedIn(l) : (kernel[n].width = BANK_WIDTH /\ IsPlain(n)) =>
              LET words == Words(kernel[n], env.space)
              IN  \A w \in words :
                     Cardinality({v \in words : v % BANK_NUMBER = w % BANK_NUMBER}) - 1 <= Entry(n, l)

(* What the vectorizer asks: an access is found to be consecutive exactly   *)
(* when a getelementptr computes its pointer and the threads that are tried *)
(* access neighbouring elements. (Asked of each access before it is         *)
(* visited, where the elements are as wide as the base's type says.)        *)
ConsecutiveAsTried ==
    (Visiting /\ access.base # "instruction" /\ PointeeWidth(access) = access.width) =>
        \A d \in Directions :
            LET Tries == {Tried(d, i) : i \in 0..(TEST_NUMBER - 1)}
                V(i) == Value(access.subscript, Tried(d, i), env.space)
            IN  Plain(access, Tries, env.space) =>
                   (isConsecutive(access, d, env) <=>
                       /\ access.isGep
                       /\ \A i \in 0..(TEST_NUMBER - 2) : V(i + 1) = V(i) + 1)
=============================================================================
