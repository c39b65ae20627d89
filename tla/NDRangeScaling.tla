---------------------------- MODULE NDRangeScaling ----------------------------
(****************************************************************************)
(* lib/Passes/NDRangeScaling.cpp, on what module NDRange finds: a kernel    *)
(* coarsened by a factor is launched with that many times fewer threads in  *)
(* each group, and each thread does the work of `factor' threads of the     *)
(* original launch. ThreadCoarsening::scaleNDRange multiplies the sizes the *)
(* kernel reads, and computes from each id the kernel reads the ids of the  *)
(* threads it stands for (the comment over scaleIds):                       *)
(*     origTid = [newTid / st] * cf * st + newTid % st + subid * st         *)
(* ThreadVectorizing::widenTids makes of each id a vector of neighbours, of *)
(* which a lane is a thread; it leaves the sizes.                           *)
(*                                                                          *)
(* The model keeps the instructions the passes emit, in the order in which  *)
(* they stand in the entry block, and evaluates them with the arithmetic of *)
(* the machine: ids are words, the passes' own constants are unsigned ints. *)
(****************************************************************************)
EXTENDS NDRange

CONSTANTS Word,      \* ids and sizes (size_t in the kernel) are computed modulo this
          UInt,      \* unsigned int in the pass is computed modulo this
          Launches   \* original launches: groups and threads per group (local) of the
                     \* direction, the pass ("tc" or "tv") with its direction, its
                     \* factor (the width of the vectors) and its stride

ASSUME WidthsAssumption == Word \in Nat \ {0} /\ UInt \in Nat \ {0}

ASSUME LaunchesAssumption ==
    \A x \in Launches :
        /\ x.groups \in Nat \ {0} /\ x.local \in Nat \ {0}
        /\ x.factor \in 1..(UInt - 1) /\ x.stride \in 1..(UInt - 1)
        /\ x.pass \in {"tc", "tv"} /\ x.direction \in Directions
        /\ x.pass = "tv" => x.stride = 1
        /\ x.local % x.factor = 0          \* the host can launch local / factor threads
        /\ x.groups * x.local < Word       \* get_global_size returns it

VARIABLES
    launch, \* the launch the kernel was written for, with the pass and its options
    code,   \* the instructions of the kernel, in order
    scaled, \* the calls scaled so far
    cMap    \* the coarsening map, or the vector map, so far

vars == <<launch, code, scaled, cMap, oclInsts, names>>

----------------------------------------------------------------------------
(* Instructions: what they define, the operation, the instructions they     *)
(* take as operands, and the constant they take.                            *)

Instr(def, op, args, const) == [def |-> def, op |-> op, args |-> args, const |-> const]

Defs(c) == {c[n].def : n \in DOMAIN c}

At(c, d) == CHOOSE n \in DOMAIN c : c[n].def = d

(* Instruction::insertAfter *)
InsertAfter(c, d, i) ==
    SubSeq(c, 1, At(c, d)) \o <<i>> \o SubSeq(c, At(c, d) + 1, Len(c))

Renamed(args, old, new) == [n \in DOMAIN args |-> IF args[n] = old THEN new ELSE args[n]]

(* Utils.cpp replaceUses: every user but the new value itself.              *)
ReplaceUses(c, old, new) ==
    [n \in DOMAIN c |->
        IF c[n].def = new THEN c[n] ELSE [c[n] EXCEPT !.args = Renamed(@, old, new)]]

(* Instruction::setOperand(0, d) *)
SetOperand(c, i, d) == [c EXCEPT ![At(c, i)].args[1] = d]

(* The instructions the pass adds after call t.                             *)
Mul(t) == <<t, "mul", 0>>
Div(t) == <<t, "div", 0>>
Rem(t) == <<t, "modulo", 0>>
Base(t) == <<t, "base", 0>>
Copy(t, k) == <<t, "add", k>>

(* The result of the call itself, and the user the kernel has for it.       *)
Result(t) == <<t, "call", 0>>
Use(t) == <<t, "use", 0>>

(* What the pass scales. *)
Sizes == IF launch.pass = "tc" THEN getSizes(launch.direction) ELSE {}
Tids == getTids(launch.direction)

----------------------------------------------------------------------------

CallsInKernel ==
    LET UpTo[n \in 0..Len(Calls)] ==
            IF n = 0 THEN <<>>
            ELSE IF Calls[n].inKernel THEN Append(UpTo[n - 1], n)
            ELSE UpTo[n - 1]
    IN  UpTo[Len(Calls)]

CallOf(t) == Instr(Result(t), "call", <<>>, 0)

UseOf(t, d) == Instr(Use(t), "use", <<d>>, 0)

Init ==
    /\ launch \in Launches
    /\ code = [n \in DOMAIN CallsInKernel |-> CallOf(CallsInKernel[n])]
              \o [n \in DOMAIN CallsInKernel |-> UseOf(CallsInKernel[n], Result(CallsInKernel[n]))]
    /\ scaled = {}
    /\ cMap = [d \in {} |-> <<>>]
    /\ NDRInit

FindCalls == FindCallsAllDirs /\ UNCHANGED <<launch, code, scaled, cMap>>

(* One iteration of scaleSizes. *)
ScaleSize(s) ==
    /\ names = <<>>
    /\ s \in Sizes \ scaled
    /\ LET mul == Instr(Mul(s), "mul", <<Result(s)>>, launch.factor)
       IN  code' = ReplaceUses(InsertAfter(code, Result(s), mul), Result(s), Mul(s))
    /\ scaled' = scaled \cup {s}
    /\ UNCHANGED <<launch, cMap, oclInsts, names>>

(* A fault: the offset of a copy is counted from one.                       *)
OffsetFromOne(x, k) == ((k + 1) * x.stride) % UInt

(* The constants of scaleIds. *)
CfSt(x) == (x.factor * x.stride) % UInt

Offset(x, k) == (k * x.stride) % UInt

(* The base of the new ids, emitted after the call, takes over all of its   *)
(* uses.                                                                    *)
WithBaseForUses(c, x, t) ==
    LET div  == InsertAfter(c, Result(t), Instr(Div(t), "udiv", <<Result(t)>>, x.stride))
        mul  == InsertAfter(div, Div(t), Instr(Mul(t), "mul", <<Div(t)>>, CfSt(x)))
        rem  == InsertAfter(mul, Mul(t), Instr(Rem(t), "urem", <<Result(t)>>, x.stride))
        base == InsertAfter(rem, Rem(t), Instr(Base(t), "add", <<Mul(t), Rem(t)>>, 0))
    IN  ReplaceUses(base, Result(t), Base(t))

(* The operands of its own remainder and division are then set back.        *)
WithBase(c, x, t) ==
    SetOperand(SetOperand(WithBaseForUses(c, x, t), Rem(t), Result(t)), Div(t), Result(t))

(* The ids of the other threads, each after the one before.                 *)
WithCopies(c, x, t) ==
    LET W[k \in 0..(x.factor - 1)] ==
            IF k = 0 THEN c
            ELSE InsertAfter(W[k - 1], IF k = 1 THEN Base(t) ELSE Copy(t, k - 1),
                             Instr(Copy(t, k), "add", <<Base(t)>>, Offset(x, k)))
    IN  W[x.factor - 1]

(* One iteration of scaleIds. The call itself gets an entry without copies. *)
ScaleId(t) ==
    /\ names = <<>> /\ Sizes \subseteq scaled
    /\ launch.pass = "tc"
    /\ t \in Tids \ scaled
    /\ code' = WithCopies(WithBase(code, launch, t), launch, t)
    /\ cMap' = [d \in DOMAIN cMap \cup {Result(t), Base(t)} |->
                   CASE d = Result(t) -> <<>>
                     [] d = Base(t)   -> [k \in 1..(launch.factor - 1) |-> Copy(t, k)]
                     [] OTHER         -> cMap[d]]
    /\ scaled' = scaled \cup {t}
    /\ UNCHANGED <<launch, oclInsts, names>>

(* The lanes of the vector that widenTid puts after the call: the id times  *)
(* the width, in every lane, plus the number of the lane.                   *)
WithLanes(c, x, t) ==
    LET W[k \in 0..x.factor] ==
            IF k = 0
            THEN InsertAfter(c, Result(t), Instr(Mul(t), "mul", <<Result(t)>>, x.factor))
            ELSE InsertAfter(W[k - 1], IF k = 1 THEN Mul(t) ELSE Copy(t, k - 2),
                             Instr(Copy(t, k - 1), "add", <<Mul(t)>>, k - 1))
    IN  W[x.factor]

(* The uses of the id are left to the vectorization of the users.           *)
WidenTid(t) ==
    /\ names = <<>>
    /\ launch.pass = "tv"
    /\ t \in Tids \ scaled
    /\ code' = WithLanes(code, launch, t)
    /\ cMap' = [d \in DOMAIN cMap \cup {Result(t)} |->
                   IF d = Result(t) THEN [k \in 0..(launch.factor - 1) |-> Copy(t, k)]
                   ELSE cMap[d]]
    /\ scaled' = scaled \cup {t}
    /\ UNCHANGED <<launch, oclInsts, names>>

Done == names = <<>> /\ Sizes \cup Tids \subseteq scaled

Terminated == Done /\ UNCHANGED vars

Next ==
    \/ FindCalls
    \/ \E c \in DOMAIN Calls : ScaleSize(c) \/ ScaleId(c) \/ WidenTid(c)
    \/ Terminated

Spec == Init /\ [][Next]_vars

----------------------------------------------------------------------------
(* What the coarsened kernel computes. The host launches as many groups, of *)
(* local / factor threads each.                                             *)

NewLocal(x) == x.local \div x.factor

NewThreads(x) == (0..(x.groups - 1)) \X (0..(NewLocal(x) - 1))

(* In the other directions there is one row of threads.                     *)
Elsewhere(name) ==
    CASE name \in {"get_global_id", "get_local_id", "get_group_id"} -> 0
      [] OTHER -> 1

(* What a call returns to thread <<group, id>> of a launch with groups of   *)
(* `local' threads.                                                         *)
Called(call, x, local, thread) ==
    IF call.dim # x.direction THEN Elsewhere(call.name)
    ELSE CASE call.name = "get_global_id"   -> thread[1] * local + thread[2]
           [] call.name = "get_local_id"    -> thread[2]
           [] call.name = "get_group_id"    -> thread[1]
           [] call.name = "get_global_size" -> x.groups * local
           [] call.name = "get_local_size"  -> local
           [] call.name = "get_num_groups"  -> x.groups

(* The value an instruction computes, given those of the ones before it.    *)
Computed(i, env, x, thread) ==
    CASE i.op = "udiv" -> env[i.args[1]] \div i.const
      [] i.op = "urem" -> env[i.args[1]] % i.const
      [] i.op = "mul"  -> (env[i.args[1]] * i.const) % Word
      [] i.op = "add"  -> (IF Len(i.args) = 2 THEN env[i.args[1]] + env[i.args[2]]
                           ELSE env[i.args[1]] + i.const) % Word
      [] i.op = "use"  -> env[i.args[1]]
      [] i.op = "call" -> Called(Calls[i.def[1]], x, NewLocal(x), thread)

Values(c, x, thread) ==
    LET Env[n \in 0..Len(c)] ==
            IF n = 0 THEN [d \in Defs(c) |-> 0]
            ELSE LET env == Env[n - 1]
                 IN  [env EXCEPT ![c[n].def] = Computed(c[n], env, x, thread)]
    IN  Env[Len(c)]

(* What the k-th copy of the user of call t reads: what the map has for its *)
(* operand, or else the operand. Copy 0 of a coarsened user is the user.    *)
Operand(t, k) ==
    LET a == code[At(code, Use(t))].args[1]
    IN  IF a \in DOMAIN cMap /\ k \in DOMAIN cMap[a] THEN cMap[a][k] ELSE a

(* The passes' own constants do not wrap: nothing checks the options.       *)
NoWrap(x) == x.factor * x.stride < UInt

(* The comment's formula. *)
OrigTid(x, newTid, subid) ==
    (newTid \div x.stride) * x.factor * x.stride + (newTid % x.stride) + subid * x.stride

----------------------------------------------------------------------------
(* Properties. *)

(* At every moment each operand is defined before it is used: neither the   *)
(* replacement of the uses nor the places of insertion make an instruction  *)
(* depend on a later one.                                                   *)
DefinedBeforeUse ==
    \A n \in DOMAIN code : \A a \in {code[n].args[m] : m \in DOMAIN code[n].args} :
        \E m \in 1..(n - 1) : code[m].def = a

(* What the k-th thread that `thread' stands for got from call t in the     *)
(* original launch.                                                         *)
Original(t, thread, k) ==
    LET x == launch
        call == Calls[t]
    IN  IF call.dim = x.direction /\ call.name \in {"get_global_id", "get_local_id"}
        THEN OrigTid(x, Called(call, x, NewLocal(x), thread), k) % Word
        ELSE Called(call, x, x.local, thread)

(* The k-th copy of each user reads what the thread it stands for read in   *)
(* the original launch: the id the comment gives, and the group, the number *)
(* of groups and the sizes as they were, in this direction and the others.  *)
(* Left out are the sizes in a vectorized kernel, which are not scaled, the *)
(* calls that no query knows, and options whose product wraps.              *)
ReadsWhatItDid ==
    (Done /\ NoWrap(launch)) => \A thread \in NewThreads(launch) :
        LET v == Values(code, launch, thread)
        IN  \A t \in DOMAIN Calls :
               (isCoordinate(t) \/ (isSize(t) /\ launch.pass = "tc")) =>
                   \A k \in 0..(launch.factor - 1) : v[Operand(t, k)] = Original(t, thread, k)

(* The blocks of factor * stride ids tile each group.                       *)
Tiled(x) == x.local % (x.factor * x.stride) = 0

IdsIn(d) == {t \in DOMAIN Calls : isCoordinate(t) /\ getDirection(t) = d}

GlobalIds == {t \in IdsIn(launch.direction) : Calls[t].name = "get_global_id"}

(* The blocks tile each group: the copies of the threads of the coarsened   *)
(* launch and the threads of the original one are the same, each original   *)
(* thread is some copy, no two copies are the same thread, and all the ids  *)
(* a copy reads, global, local and of the group, are those of that thread.  *)
(* When the blocks tile the whole range but not each group, that still      *)
(* holds of the global ids alone (a kernel that reads no local id is        *)
(* coarsened correctly, one that does is not).                              *)
EachThreadOnce ==
    (Done /\ NoWrap(launch)) =>
        LET x == launch
            new == NewThreads(x)
            old == (0..(x.groups - 1)) \X (0..(x.local - 1))
            ids == [thread \in new |-> Values(code, x, thread)]
            IsCopy(thread, k, o) ==
                \A t \in IdsIn(x.direction) :
                    ids[thread][Operand(t, k)] = Called(Calls[t], x, x.local, o)
        IN  /\ Tiled(x) =>
                  /\ \A o \in old : \E thread \in new, k \in 0..(x.factor - 1) : IsCopy(thread, k, o)
                  /\ \A thread \in new, k \in 0..(x.factor - 1) : \E o \in old : IsCopy(thread, k, o)
            /\ (x.groups * x.local) % (x.factor * x.stride) = 0 =>
                  \A t \in GlobalIds :
                     {ids[thread][Operand(t, k)] : thread \in new, k \in 0..(x.factor - 1)}
                        = 0..(x.groups * x.local - 1)
=============================================================================
