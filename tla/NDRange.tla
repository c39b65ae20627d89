-------------------------------- MODULE NDRange --------------------------------
(****************************************************************************)
(* lib/Passes/NDRange.cpp (ndr): finds the calls of a kernel that ask which *)
(* thread this is and how many there are. Calls are known by their function *)
(* and by their argument, the direction; one whose argument is no constant, *)
(* or is beyond the third direction, is found by nobody. The passes ask the *)
(* lists for ids and sizes of one direction.                                *)
(****************************************************************************)
EXTENDS Integers, Sequences, FiniteSets

CONSTANT Calls  \* the calls of the module, in order: the function called (name), the
                \* direction (dim), and whether the kernel at hand calls it (inKernel);
                \* calls of other functions are left out

Directions == 0..2

NotConstant == -1

(* The functions, in the order runOnFunction looks for them.                *)
Names == <<"get_global_id", "get_local_id", "get_global_size", "get_local_size",
           "get_group_id", "get_num_groups">>

FunctionNames == {Names[i] : i \in DOMAIN Names}

ASSUME CallsAssumption == Calls \in Seq([name : FunctionNames, dim : Int, inKernel : BOOLEAN])

VARIABLES oclInsts,  \* for each direction and function, the calls found
          names      \* the functions still to look for

NDRInit ==
    /\ oclInsts = [d \in Directions |-> [n \in FunctionNames |-> {}]]
    /\ names = Names

(* A fault: a call is found in every direction.                             *)
FoundByName(name, d) == {c \in DOMAIN Calls : Calls[c].name = name /\ Calls[c].inKernel}

(* findOpenCLFunctionCalls *)
Found(name, d) ==
    {c \in DOMAIN Calls : Calls[c].name = name /\ Calls[c].inKernel /\ Calls[c].dim = d}

FindCallsAllDirs ==
    /\ names # <<>>
    /\ oclInsts' = [d \in Directions |->
                       [oclInsts[d] EXCEPT ![Head(names)] = Found(Head(names), d)]]
    /\ names' = Tail(names)

----------------------------------------------------------------------------
(* The queries. *)

getTids(d) == oclInsts[d]["get_global_id"] \cup oclInsts[d]["get_local_id"]

getSizes(d) == oclInsts[d]["get_global_size"] \cup oclInsts[d]["get_local_size"]

isPresentInDirection(c, name, d) == c \in oclInsts[d][name]

Is(c, name) == \E d \in Directions : isPresentInDirection(c, name, d)

isCoordinate(c) == \E name \in {"get_global_id", "get_local_id", "get_group_id"} : Is(c, name)

isSize(c) == \E name \in {"get_global_size", "get_local_size", "get_num_groups"} : Is(c, name)

(* The first direction that has the call, -1 when none does.                *)
getDirection(c) ==
    LET ds == {d \in Directions : \E i \in DOMAIN Names : isPresentInDirection(c, Names[i], d)}
    IN  IF ds = {} THEN -1 ELSE CHOOSE d \in ds : \A e \in ds : d <= e
=============================================================================
