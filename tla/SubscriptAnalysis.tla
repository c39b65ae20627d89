--------------------------- MODULE SubscriptAnalysis ---------------------------
(****************************************************************************)
(* lib/Support/SubscriptAnalysis.cpp, with Warp.cpp, NDRangePoint.cpp,      *)
(* NDRangeSpace.cpp and OCLEnv.cpp: what the threads of one warp access     *)
(* through a subscript. It is evaluated for each thread, and the offsets    *)
(* tell the memory transactions of the access and its bank conflicts, which *)
(* SymbolicExecution lists, and whether the threads access neighbouring     *)
(* elements, in which case ThreadVectorizing makes one vector access of     *)
(* them. The class keeps no state: its methods are operators, of an access  *)
(* and of the environment they run in. An access is the instruction that    *)
(* computes its pointer, a getelementptr or another (isGep), and that       *)
(* pointer's base, its subscript, and the width of its elements in bytes.   *)
(*                                                                          *)
(* A subscript is a sequence of nodes, as ScalarEvolution keeps one for     *)
(* each expression: an operation and the places of its arguments, which     *)
(* come before it. The last node is the subscript itself. Numbers are those *)
(* of the machine, 0..(Word - 1); the upper half stands for the negative    *)
(* ones. Casts, which the code drops, do not occur when pointers have the   *)
(* width of ids, as in SPIR for 32 bits.                                    *)
(****************************************************************************)
EXTENDS Integers, Sequences, FiniteSets, FiniteSetsExt

CONSTANT Word   \* how many numbers there are

ASSUME WordAssumption == Word \in Nat \ {0} /\ Word % 2048 = 0

BANK_NUMBER == 32
BANK_WIDTH == 4
WARP_SIZE == 32
CACHELINE_SIZE == 128
TEST_NUMBER == 64

Directions == 1..3

(* What OCLEnv takes for every integer argument of the kernel. *)
Argument == 1024

CouldNotCompute == -1

(* The environment: the launch (local sizes and numbers of groups, by       *)
(* direction) and what an offset that is no int is converted to.            *)
(* APInt::roundToDouble takes the offset for a number without a sign, and   *)
(* the conversion to int is undefined beyond the largest int; processors    *)
(* give the smallest int or the largest.                                    *)
Environments(spaces) == [space : spaces, outOfRange : {-(Word \div 2), (Word \div 2) - 1}]

----------------------------------------------------------------------------
(* Points of the launch. *)

NDRangePoint(local, group, localSize) ==
    [local |-> local, group |-> group,
     global |-> [d \in Directions |-> local[d] + group[d] * localSize[d]]]

Coordinates == {"get_local_id", "get_global_id", "get_group_id"}
Sizes == {"get_local_size", "get_global_size", "get_num_groups"}

Coordinate(point, type, d) ==
    CASE type = "get_local_id"  -> point.local[d]
      [] type = "get_global_id" -> point.global[d]
      [] type = "get_group_id"  -> point.group[d]

Size(type, d, space) ==
    CASE type = "get_local_size"  -> space.local[d]
      [] type = "get_global_size" -> space.local[d] * space.groups[d]
      [] type = "get_num_groups"  -> space.groups[d]

(* A fault: the rows of a group are as long as its columns. *)
LocalByColumns(position, size) ==
    LET area == size[1] * size[2]
    IN  <<(position % area) % size[2], (position % area) \div size[2],
          position \div area>>

LocalAt(position, size) ==
    LET area == size[1] * size[2]
    IN  <<(position % area) % size[1], (position % area) \div size[1],
          position \div area>>

(* Every pass makes the first warp of the first group. *)
Warp(space) ==
    [i \in 0..(WARP_SIZE - 1) |-> NDRangePoint(LocalAt(i, space.local), <<0, 0, 0>>, space.local)]

----------------------------------------------------------------------------
(* Subscripts and replaceInExpr. *)

Arithmetic == {"add", "sub", "mul", "udiv", "sdiv", "urem", "smax", "umax"}

(* What may stand in place n of a subscript. *)
Nodes(n) ==
    [op : {"constant"}, value : Int]
    \cup [op : {"coordinate"}, type : Coordinates, direction : Directions]
    \cup [op : {"size"}, type : Sizes, direction : Directions]
    \cup [op : {"argument", "other"}]
    \cup [op : Arithmetic \cup {"addrec", "phi"}, args : (1..(n - 1)) \X (1..(n - 1))]

IsSubscript(e) ==
    /\ Len(e) \in Nat \ {0} /\ DOMAIN e = 1..Len(e)
    /\ \A n \in DOMAIN e : e[n] \in Nodes(n)

Signed(v) == IF v < Word \div 2 THEN v ELSE v - Word

Combined(op, a, b) ==
    CASE op = "add"  -> (a + b) % Word
      [] op = "sub"  -> (a - b) % Word
      [] op = "mul"  -> (a * b) % Word
      [] op \in {"udiv", "sdiv"} -> a \div b
      [] op = "smax" -> IF Signed(a) < Signed(b) THEN b ELSE a
      [] op = "umax" -> IF a < b THEN b ELSE a

(* A fault: the divisor is forgotten. *)
RemainderByNothing(a, m) == a

Remainder(a, m) == Combined("sub", a, Combined("mul", Combined("udiv", a, m), m))

(* The value of a node, from those of its arguments: of an addrec that of   *)
(* the first iteration, of a phi the first; other operations are loads,     *)
(* shifts and masks.                                                        *)
Replaced(node, processed, point, space) ==
    CASE node.op = "constant"   -> node.value % Word
      [] node.op = "coordinate" -> Coordinate(point, node.type, node.direction) % Word
      [] node.op = "size"       -> Size(node.type, node.direction, space) % Word
      [] node.op = "argument"   -> Argument
      [] node.op \in Arithmetic ->
            LET a == processed[node.args[1]]
                b == processed[node.args[2]]
            IN  IF CouldNotCompute \in {a, b} THEN CouldNotCompute
                ELSE IF node.op = "urem" THEN Remainder(a, b)
                ELSE Combined(node.op, a, b)
      [] node.op \in {"addrec", "phi"} -> processed[node.args[1]]
      [] node.op = "other"  -> CouldNotCompute

replaceInExpr(e, point, space) ==
    LET processed[n \in DOMAIN e] == Replaced(e[n], processed, point, space)
    IN  processed[Len(e)]

----------------------------------------------------------------------------
(* The base of a pointer is an argument or a global variable, whose type    *)
(* points to elements or to an aggregate of them, or else an instruction,   *)
(* as the alloca of a private array: resolveInstruction cannot compute      *)
(* those. Of a phi it is the base of the first value.                       *)
Bases == {"elements", "aggregate", "instruction"}

(* getTypeWidth, of the type of the base. Aggregates have no primitive size.*)
PointeeWidth(a) == IF a.base = "aggregate" THEN 32 ELSE a.width

(* The offsets from the base: int(width * subscript). When one cannot be    *)
(* computed, none can, and there is no base (getUnknownSCEV).               *)

Offset(a, point, env) ==
    LET offset == (replaceInExpr(a.subscript, point, env.space) * a.width) % Word
    IN  IF offset < Word \div 2 THEN offset ELSE env.outOfRange

Known(a, points, env) ==
    /\ a.base # "instruction"
    /\ \A i \in DOMAIN points : replaceInExpr(a.subscript, points[i], env.space) # CouldNotCompute

Offsets(a, env) == {Offset(a, Warp(env.space)[i], env) : i \in 0..(WARP_SIZE - 1)}

TransactionNumber(a, env) ==
    IF Known(a, Warp(env.space), env)
    THEN Cardinality({o \div CACHELINE_SIZE : o \in Offsets(a, env)})
    ELSE WARP_SIZE

(* A fault: bytes for words. *)
ColumnInBytes(offset) == offset % (BANK_NUMBER * BANK_WIDTH * BANK_WIDTH)

Column(offset) == offset % BANK_NUMBER

Row(offset) == offset \div (BANK_NUMBER * BANK_WIDTH)

(* Of known offsets only. *)
BankConflictNumber(a, env) ==
    LET offsets == Offsets(a, env)
        Rows(c) == {Row(o) : o \in {p \in offsets : Column(p) = c}}
    IN  Max({Cardinality(Rows(Column(o))) - 1 : o \in offsets})

(* isConsecutive evaluates the subscript at the first TEST_NUMBER points of *)
(* a launch with groups of its own, along one direction. Of known offsets   *)
(* only: the type of the first address, which is looked at before it is     *)
(* found to be known, is not defined of others.                             *)
Along(d) ==
    [i \in 0..(TEST_NUMBER - 1) |->
        NDRangePoint([e \in Directions |-> IF e = d THEN i ELSE 0], <<0, 0, 0>>, <<1024, 1024, 1024>>)]

isConsecutive(a, d, env) ==
    /\ a.isGep
    /\ LET offset == [i \in 0..(TEST_NUMBER - 1) |-> Offset(a, Along(d)[i], env)]
       IN  \A i \in 0..(TEST_NUMBER - 2) : offset[i] + PointeeWidth(a) = offset[i + 1]

----------------------------------------------------------------------------
(* What a thread does at run time: the operations of the kernel's language, *)
(* on integers. Left out is what depends on more than ids and sizes.        *)

Understood(e) ==
    \A n \in DOMAIN e : e[n].op \in {"constant", "coordinate", "size"} \cup Arithmetic

(* The value of a node, from those of the nodes before it. *)
Computed(node, V, thread, space) ==
    LET a == V[node.args[1]]
        b == V[node.args[2]]
    IN  CASE node.op = "constant"   -> node.value
          [] node.op = "coordinate" -> IF node.type = "get_group_id" THEN 0 ELSE thread[node.direction]
          [] node.op = "size"       -> Size(node.type, node.direction, space)
          [] node.op = "add"  -> a + b
          [] node.op = "sub"  -> a - b
          [] node.op = "mul"  -> a * b
          [] node.op \in {"udiv", "sdiv"} -> a \div b
          [] node.op \in {"smax", "umax"} -> IF a < b THEN b ELSE a
          [] node.op = "urem" -> a % b

Values(e, thread, space) ==
    LET V[n \in DOMAIN e] == Computed(e[n], V, thread, space) IN V

Value(e, thread, space) == Values(e, thread, space)[Len(e)]

(* The threads of the first warp that there are. *)
Threads(space) ==
    LET local == space.local
    IN  {t \in (0..(local[1] - 1)) \X (0..(local[2] - 1)) \X (0..(local[3] - 1)) :
            t[1] + local[1] * (t[2] + local[2] * t[3]) < WARP_SIZE}

Addresses(a, space) == {a.width * Value(a.subscript, t, space) : t \in Threads(space)}

(* The cache lines and the words that the warp touches.                     *)
Lines(a, space) == {x \div CACHELINE_SIZE : x \in Addresses(a, space)}
Words(a, space) == {x \div BANK_WIDTH : x \in Addresses(a, space)}

(* No thread of S reaches below the base, in no node either, nor divides by *)
(* zero.                                                                    *)
NeverNegative(e, width, S, space) ==
    \A t \in S : \A n \in DOMAIN e :
        /\ e[n].op \in {"udiv", "sdiv", "urem"} => Values(e, t, space)[e[n].args[2]] > 0
        /\ Values(e, t, space)[n] >= 0
        /\ Values(e, t, space)[n] * width < Word \div 2

Plain(a, S, space) == Understood(a.subscript) /\ NeverNegative(a.subscript, a.width, S, space)

(* The i-th thread that isConsecutive tries along direction d. *)
Tried(d, i) == [e \in Directions |-> IF e = d THEN i ELSE 0]
=============================================================================
