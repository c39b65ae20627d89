-------------------------- MODULE MCSymbolicExecution --------------------------
(****************************************************************************)
(* Kernels of a few accesses, with subscripts as kernels have them: strides *)
(* with and without an offset, rows and columns of a matrix, padded rows,   *)
(* tiles, and those that depend on what the analysis guesses or does not    *)
(* know; from arguments and global arrays, and, in private memory, from     *)
(* arrays that the kernel allocates.                                        *)
(****************************************************************************)
EXTENDS SymbolicExecution

CONSTANT Elements  \* element sizes, in bytes

Const(n) == <<[op |-> "constant", value |-> n]>>
Id(d) == <<[op |-> "coordinate", type |-> "get_global_id", direction |-> d]>>
Local(d) == <<[op |-> "coordinate", type |-> "get_local_id", direction |-> d]>>
Group(d) == <<[op |-> "coordinate", type |-> "get_group_id", direction |-> d]>>
SizeOf(type, d) == <<[op |-> "size", type |-> type, direction |-> d]>>
Arg == <<[op |-> "argument"]>>
Other == <<[op |-> "other"]>>
X == Id(1)
Y == Id(2)

(* The nodes of e, those of f behind them, and an operation on the two.     *)
Tree(op, e, f) ==
    LET n == Len(e)
        Moved(node) == IF "args" \in DOMAIN node
                       THEN [node EXCEPT !.args = <<@[1] + n, @[2] + n>>] ELSE node
    IN  e \o [i \in DOMAIN f |-> Moved(f[i])] \o <<[op |-> op, args |-> <<n, n + Len(f)>>]>>

Strided ==
    {Tree("add", Tree("mul", x, Const(s)), Const(c)) :
        x \in {X, Local(1)}, s \in {0, 1, 2, 3, 32, 33}, c \in {0, 5, -1, -40}}

Matrices ==
    {Tree("add", Tree("mul", Y, SizeOf("get_global_size", 1)), X),
     Tree("add", Tree("mul", X, SizeOf("get_global_size", 2)), Y),
     Tree("add", Tree("mul", Local(2), SizeOf("get_local_size", 1)), Local(1)),
     Tree("add", Tree("mul", Local(1), Tree("add", SizeOf("get_local_size", 2), Const(1))), Local(2)),
     Tree("add", Tree("mul", Group(1), SizeOf("get_num_groups", 1)), Local(1)),
     Tree("mul", X, Tree("add", Y, Const(1)))}

Tiles ==
    {Tree(op, X, Const(n)) : op \in {"udiv", "urem", "sdiv", "smax", "umax"}, n \in {3, 16, 64}}
    \cup {Tree("add", Tree("mul", Tree("udiv", X, Const(16)), Const(64)), Tree("urem", X, Const(16))),
          Tree("sub", Const(100), X),
          Tree("sdiv", Tree("sub", X, Const(8)), Const(4))}

Guessed ==
    {Tree("add", Tree("mul", Y, Arg), X), Tree("phi", X, Y), Tree("addrec", X, Const(1)),
     Tree("add", X, Other), Other}

BaseIn(space) ==
    CASE space = "global"  -> "elements"
      [] space = "local"   -> "aggregate"
      [] space = "private" -> "instruction"

Access(isLoad, space, isInLoop, subscript, width) ==
    [isLoad |-> isLoad, isGep |-> TRUE, space |-> space, isInLoop |-> isInLoop,
     base |-> BaseIn(space), subscript |-> subscript, width |-> width]

FromArgument(a) == [a EXCEPT !.base = "elements"]
FromArray(a) == [a EXCEPT !.base = "aggregate"]

ByPointer == [Access(TRUE, "global", FALSE, X, 4) EXCEPT !.isGep = FALSE]

(* Each subscript in memory of both kinds, and accesses of all kinds around *)
(* each other.                                                              *)
MCKernels ==
    {<<Access(FALSE, "global", TRUE, s, w), FromArgument(Access(TRUE, "local", FALSE, s, w))>> :
        s \in Strided \cup Matrices \cup Tiles \cup Guessed, w \in Elements}
    \cup {<<Access(b, m, c, X, 4), ByPointer, Access(TRUE, n, TRUE, Tree("mul", X, Const(s)), 4),
            Access(b, m, c, Local(2), 4), FromArray(Access(b, "global", c, X, w))>> :
            b \in BOOLEAN, c \in BOOLEAN, m \in {"local", "private"}, n \in {"local", "global"}, s \in {2, 3},
            w \in {4, 32}}

MCSpaces ==
    {[local |-> l, groups |-> <<2, 2, 1>>] :
        l \in {<<64, 1, 1>>, <<16, 4, 1>>, <<8, 8, 1>>, <<4, 4, 2>>, <<16, 1, 1>>, <<1, 32, 1>>}}
=============================================================================
