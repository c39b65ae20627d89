------------------------ MODULE SymbolicExecutionProofs ------------------------
(****************************************************************************)
(* The answers of symbolic execution, for every kernel, launch and width of *)
(* words.                                                                   *)
(****************************************************************************)
EXTENDS SymbolicExecution, Closures

----------------------------------------------------------------------------
(* Subscripts. *)

LEMMA NodeIs ==
    ASSUME NEW n \in Nat, NEW x \in Nodes(n)
    PROVE  \/ x.op = "constant" /\ x.value \in Int
           \/ x.op = "coordinate" /\ x.type \in Coordinates /\ x.direction \in Directions
           \/ x.op = "size" /\ x.type \in Sizes /\ x.direction \in Directions
           \/ x.op \in {"argument", "other"}
           \/ /\ x.op \in Arithmetic \cup {"addrec", "phi"}
              /\ x.args[1] \in 1..(n - 1) /\ x.args[2] \in 1..(n - 1)
<1>1. CASE x \in [op : {"constant"}, value : Int]
  BY <1>1
<1>2. CASE x \in [op : {"coordinate"}, type : Coordinates, direction : Directions]
  BY <1>2
<1>3. CASE x \in [op : {"size"}, type : Sizes, direction : Directions]
  BY <1>3
<1>4. CASE x \in [op : {"argument", "other"}]
  BY <1>4
<1>5. CASE x \in [op : Arithmetic \cup {"addrec", "phi"}, args : (1..(n - 1)) \X (1..(n - 1))]
  BY <1>5
<1> QED
  BY <1>1, <1>2, <1>3, <1>4, <1>5 DEF Nodes

(* A node's value is that of its arguments, which come before it.           *)
LEMMA ComputedFromBefore ==
    ASSUME NEW n \in Nat, NEW x \in Nodes(n), x.op \in {"constant", "coordinate", "size"} \cup Arithmetic,
           NEW V, NEW W, \A i \in 1..(n - 1) : V[i] = W[i], NEW t, NEW space
    PROVE  Computed(x, V, t, space) = Computed(x, W, t, space)
<1>1. CASE x.op \in {"constant", "coordinate", "size"}
  BY <1>1 DEF Computed
<1>2. CASE x.op \in Arithmetic
  <2>1. x.args[1] \in 1..(n - 1) /\ x.args[2] \in 1..(n - 1)
    BY <1>2, NodeIs DEF Arithmetic
  <2>2. V[x.args[1]] = W[x.args[1]] /\ V[x.args[2]] = W[x.args[2]]
    BY <2>1
  <2> QED
    BY <1>2, <2>2 DEF Computed, Arithmetic
<1> QED
  BY <1>1, <1>2

LEMMA ReplacedFromBefore ==
    ASSUME NEW n \in Nat, NEW x \in Nodes(n),
           NEW V, NEW W, \A i \in 1..(n - 1) : V[i] = W[i], NEW point, NEW space
    PROVE  Replaced(x, V, point, space) = Replaced(x, W, point, space)
<1>1. CASE x.op \in {"constant", "coordinate", "size", "argument", "other"}
  BY <1>1 DEF Replaced, Arithmetic
<1>2. CASE x.op \in Arithmetic \cup {"addrec", "phi"}
  <2>1. x.args[1] \in 1..(n - 1) /\ x.args[2] \in 1..(n - 1)
    BY <1>2, NodeIs DEF Arithmetic
  <2>2. V[x.args[1]] = W[x.args[1]] /\ V[x.args[2]] = W[x.args[2]]
    BY <2>1
  <2> QED
    BY <1>2, <2>2 DEF Replaced, Arithmetic
<1> QED
  BY <1>1, <1>2, NodeIs

AreValues(V, e, t, space) ==
    /\ DOMAIN V = DOMAIN e
    /\ \A n \in DOMAIN e : V[n] = Computed(e[n], V, t, space)

LEMMA ValuesAre ==
    ASSUME NEW e, IsSubscript(e), Understood(e), NEW t, NEW space
    PROVE  AreValues(Values(e, t, space), e, t, space)
<1> DEFINE N == Len(e)
           Is(V, m) == V = [n \in 1..m |-> Computed(e[n], V, t, space)]
           T == {m \in Nat : m \in 0..N => \E V : Is(V, m)}
<1>0. /\ N \in Nat \ {0} /\ DOMAIN e = 1..N
      /\ \A n \in 1..N : e[n] \in Nodes(n) /\ e[n].op \in {"constant", "coordinate", "size"} \cup Arithmetic
  BY DEF IsSubscript, Understood
<1> HIDE DEF N
<1>1. 0 \in T
  <2>1. Is([n \in 1..0 |-> 0], 0)
    OBVIOUS
  <2> HIDE DEF Is
  <2> QED
    BY <2>1
<1>2. ASSUME NEW m \in Nat, m \in T PROVE m + 1 \in T
  <2> SUFFICES ASSUME m + 1 \in 0..N PROVE \E V : Is(V, m + 1)
    OBVIOUS
  <2>1. PICK V : Is(V, m)
    BY <1>0, <1>2
  <2> DEFINE W == [n \in 1..(m + 1) |-> IF n = m + 1 THEN Computed(e[m + 1], V, t, space) ELSE V[n]]
  <2>2. \A n \in 1..m : W[n] = V[n] /\ V[n] = Computed(e[n], V, t, space)
    BY <2>1
  <2>3. W[m + 1] = Computed(e[m + 1], V, t, space)
    OBVIOUS
  <2>4. W = [n \in 1..(m + 1) |-> W[n]]
    OBVIOUS
  <2> HIDE DEF W
  <2>5. ASSUME NEW n \in 1..(m + 1) PROVE W[n] = Computed(e[n], W, t, space)
    <3>1. e[n] \in Nodes(n) /\ e[n].op \in {"constant", "coordinate", "size"} \cup Arithmetic /\ n \in Nat
      BY <1>0
    <3>2. \A i \in 1..(n - 1) : V[i] = W[i]
      BY <2>2
    <3>3. Computed(e[n], V, t, space) = Computed(e[n], W, t, space)
      BY ONLY <3>1, <3>2, ComputedFromBefore
    <3> QED
      BY <2>2, <2>3, <3>3
  <2>6. Is(W, m + 1)
    BY <2>4, <2>5
  <2> HIDE DEF Is
  <2> QED
    BY <2>6
<1> HIDE DEF T
<1>3. N \in T
  BY <1>0, <1>1, <1>2, Induction
<1>4. \E V : V = [n \in DOMAIN e |-> Computed(e[n], V, t, space)]
  BY <1>0, <1>3 DEF T
<1> DEFINE V[n \in DOMAIN e] == Computed(e[n], V, t, space)
<1>5. V = [n \in DOMAIN e |-> Computed(e[n], V, t, space)]
  BY <1>4
<1>6. Values(e, t, space) = V
  BY DEF Values
<1> HIDE DEF V
<1>7. DOMAIN V = DOMAIN e /\ \A n \in DOMAIN e : V[n] = Computed(e[n], V, t, space)
  BY <1>5, Zenon
<1> QED
  BY <1>6, <1>7 DEF AreValues
(* And so is what replaceInExpr puts in place of a node. *)
AreProcessed(V, e, point, space) ==
    /\ DOMAIN V = DOMAIN e
    /\ \A n \in DOMAIN e : V[n] = Replaced(e[n], V, point, space)

LEMMA ProcessedAre ==
    ASSUME NEW e, IsSubscript(e), NEW point, NEW space
    PROVE  \E V : /\ AreProcessed(V, e, point, space)
                 /\ replaceInExpr(e, point, space) = V[Len(e)]
<1> DEFINE N == Len(e)
           Is(V, m) == V = [n \in 1..m |-> Replaced(e[n], V, point, space)]
           T == {m \in Nat : m \in 0..N => \E V : Is(V, m)}
<1>0. /\ N \in Nat \ {0} /\ DOMAIN e = 1..N
      /\ \A n \in 1..N : e[n] \in Nodes(n)
  BY DEF IsSubscript
<1> HIDE DEF N
<1>1. 0 \in T
  <2>1. Is([n \in 1..0 |-> 0], 0)
    OBVIOUS
  <2> HIDE DEF Is
  <2> QED
    BY <2>1
<1>2. ASSUME NEW m \in Nat, m \in T PROVE m + 1 \in T
  <2> SUFFICES ASSUME m + 1 \in 0..N PROVE \E V : Is(V, m + 1)
    OBVIOUS
  <2>1. PICK V : Is(V, m)
    BY <1>0, <1>2
  <2> DEFINE W == [n \in 1..(m + 1) |-> IF n = m + 1 THEN Replaced(e[m + 1], V, point, space) ELSE V[n]]
  <2>2. \A n \in 1..m : W[n] = V[n] /\ V[n] = Replaced(e[n], V, point, space)
    BY <2>1
  <2>3. W[m + 1] = Replaced(e[m + 1], V, point, space)
    OBVIOUS
  <2>4. W = [n \in 1..(m + 1) |-> W[n]]
    OBVIOUS
  <2> HIDE DEF W
  <2>5. ASSUME NEW n \in 1..(m + 1) PROVE W[n] = Replaced(e[n], W, point, space)
    <3>1. e[n] \in Nodes(n) /\ n \in Nat
      BY <1>0
    <3>2. \A i \in 1..(n - 1) : V[i] = W[i]
      BY <2>2
    <3>3. Replaced(e[n], V, point, space) = Replaced(e[n], W, point, space)
      BY ONLY <3>1, <3>2, ReplacedFromBefore
    <3> QED
      BY <2>2, <2>3, <3>3
  <2>6. Is(W, m + 1)
    BY <2>4, <2>5
  <2> HIDE DEF Is
  <2> QED
    BY <2>6
<1> HIDE DEF T
<1>3. N \in T
  BY <1>0, <1>1, <1>2, Induction
<1>4. \E V : V = [n \in DOMAIN e |-> Replaced(e[n], V, point, space)]
  BY <1>0, <1>3 DEF T
<1> DEFINE V[n \in DOMAIN e] == Replaced(e[n], V, point, space)
<1>5. V = [n \in DOMAIN e |-> Replaced(e[n], V, point, space)]
  BY <1>4
<1>6. replaceInExpr(e, point, space) = V[Len(e)]
  BY DEF replaceInExpr
<1> HIDE DEF V
<1>7. DOMAIN V = DOMAIN e /\ \A n \in DOMAIN e : V[n] = Replaced(e[n], V, point, space)
  BY <1>5, Zenon
<1> QED
  BY <1>6, <1>7 DEF AreProcessed
----------------------------------------------------------------------------
(* For a thread that never reaches below the base, what replaceInExpr puts  *)
(* in place of a node is the node's value.                                  *)

(* Thread t stands at a point of the first group.                           *)
StandsAt(t, point) ==
    \A d \in Directions : /\ t[d] \in Nat /\ point.local[d] = t[d]
                          /\ point.global[d] = t[d] /\ point.group[d] = 0

IsSpace(space) ==
    space.local \in [Directions -> Nat \ {0}] /\ space.groups \in [Directions -> Nat \ {0}]

(* Words are large enough for w times v.                                    *)
Fits(v, w) == v \in Nat /\ v * w < Word \div 2

LEMMA FitsIs ==
    ASSUME NEW w \in Nat \ {0}, NEW v, Fits(v, w)
    PROVE  /\ v < Word \div 2 /\ v < Word /\ v % Word = v
           /\ v * w \in Nat /\ (v * w) % Word = v * w
<1>1. Word \in Nat \ {0} /\ Word \div 2 \in Nat /\ Word \div 2 <= Word
  BY WordAssumption
<1> DEFINE u == w - 1
           x == v * u
           y == v * w
<1>2. u \in Nat /\ v \in Nat /\ w = u + 1
  BY DEF Fits
<1>3. x \in Nat /\ y = x + v
  BY <1>2, SMT
<1>4. y < Word \div 2
  BY DEF Fits
<1> HIDE DEF x, y, u
<1>5. v < Word \div 2 /\ y < Word /\ v < Word /\ y \in Nat
  BY <1>1, <1>2, <1>3, <1>4
<1>6. v % Word = v /\ y % Word = y
  BY <1>1, <1>2, <1>5, ModSmall
<1> QED
  BY <1>5, <1>6 DEF y

LEMMA RemainderIs ==
    ASSUME NEW a \in Nat, a < Word, NEW b \in Nat \ {0}
    PROVE  Remainder(a, b) = a % b
<1> DEFINE q == a \div b
           r == a % b
           p == q * b
<1>1. Word \in Nat \ {0}
  BY WordAssumption
<1>2. q \in Nat /\ r \in 0..(b - 1) /\ a = b * q + r
  BY DivMod
<1> HIDE DEF q, r
<1>3. p \in Nat /\ a = p + r
  BY <1>2, SMT
<1> HIDE DEF p
<1>4. p % Word = p
  BY <1>1, <1>2, <1>3, ModSmall
<1>5. a - p = r /\ r \in Nat /\ r < Word
  <2>1. r \in Nat
    BY <1>2
  <2>2. Word \in Int /\ a < Word
    BY <1>1
  <2> QED
    BY ONLY <1>3, <2>1, <2>2, a \in Nat
<1>6. r % Word = r
  BY <1>1, <1>5, ModSmall
<1> QED
  BY <1>4, <1>5, <1>6 DEF p, q, r, Remainder, Combined

LEMMA ReplacedIsComputed ==
    ASSUME NEW n \in Nat, NEW x \in Nodes(n), x.op \in {"constant", "coordinate", "size"} \cup Arithmetic,
           NEW V, NEW w \in Nat \ {0}, \A i \in 1..(n - 1) : Fits(V[i], w),
           NEW P, \A i \in 1..(n - 1) : P[i] = V[i],
           NEW t, NEW point, StandsAt(t, point), NEW space, IsSpace(space),
           x.op \in {"udiv", "sdiv", "urem"} => V[x.args[2]] > 0,
           Fits(Computed(x, V, t, space), w)
    PROVE  Replaced(x, P, point, space) = Computed(x, V, t, space)
<1> DEFINE c == Computed(x, V, t, space)
<1>1. c % Word = c /\ c \in Nat
  BY FitsIs DEF Fits
<1>2. CASE x.op = "constant"
  <2>1. c = x.value
    BY <1>2 DEF Computed
  <2>2. Replaced(x, P, point, space) = x.value % Word
    BY <1>2 DEF Replaced, Arithmetic
  <2> HIDE DEF c
  <2>3. Replaced(x, P, point, space) = c
    BY <1>1, <2>1, <2>2
  <2> QED
    BY <2>3 DEF c
<1>3. CASE x.op = "coordinate"
  <2>1. x.type \in Coordinates /\ x.direction \in Directions
    BY <1>3, NodeIs DEF Arithmetic
  <2>2. c = IF x.type = "get_group_id" THEN 0 ELSE t[x.direction]
    BY <1>3 DEF Computed
  <2>3. Coordinate(point, x.type, x.direction) = c
    BY <2>1, <2>2 DEF Coordinate, Coordinates, StandsAt
  <2>4. Replaced(x, P, point, space) = Coordinate(point, x.type, x.direction) % Word
    BY <1>3 DEF Replaced, Arithmetic
  <2> HIDE DEF c
  <2>5. Replaced(x, P, point, space) = c
    BY <1>1, <2>3, <2>4
  <2> QED
    BY <2>5 DEF c
<1>4. CASE x.op = "size"
  <2>1. c = Size(x.type, x.direction, space)
    BY <1>4 DEF Computed
  <2>2. Replaced(x, P, point, space) = Size(x.type, x.direction, space) % Word
    BY <1>4 DEF Replaced, Arithmetic
  <2> HIDE DEF c
  <2>3. Replaced(x, P, point, space) = c
    BY <1>1, <2>1, <2>2
  <2> QED
    BY <2>3 DEF c
<1>5. CASE x.op \in Arithmetic
  <2> DEFINE a == V[x.args[1]]
             b == V[x.args[2]]
  <2>1. x.args[1] \in 1..(n - 1) /\ x.args[2] \in 1..(n - 1)
    BY <1>5, NodeIs DEF Arithmetic
  <2>2. /\ P[x.args[1]] = a /\ P[x.args[2]] = b
        /\ Fits(a, w) /\ Fits(b, w)
    BY <2>1
  <2>3. a \in Nat /\ b \in Nat /\ a < Word \div 2 /\ b < Word \div 2 /\ a < Word /\ b < Word
    BY <2>2, FitsIs DEF Fits
  <2>4. Signed(a) = a /\ Signed(b) = b
    BY <2>3 DEF Signed
  <2>5. Replaced(x, P, point, space) = IF x.op = "urem" THEN Remainder(a, b) ELSE Combined(x.op, a, b)
    <3>1. CouldNotCompute \notin {a, b}
      BY <2>3 DEF CouldNotCompute
    <3> QED
      BY <1>5, <2>2, <3>1 DEF Replaced, Arithmetic
  <2>6. /\ x.op = "add" => c = a + b
        /\ x.op = "sub" => c = a - b
        /\ x.op = "mul" => c = a * b
        /\ x.op \in {"udiv", "sdiv"} => c = a \div b
        /\ x.op \in {"smax", "umax"} => c = IF a < b THEN b ELSE a
        /\ x.op = "urem" => c = a % b
    BY DEF Computed
  <2>7. x.op \in {"udiv", "sdiv", "urem"} => b \in Nat \ {0}
    BY <2>3
  <2> HIDE DEF a, b, c
  <2>8. CASE x.op = "urem"
    BY <2>3, <2>5, <2>6, <2>7, <2>8, RemainderIs DEF c
  <2>9. CASE x.op # "urem"
    <3>1. Combined(x.op, a, b) = c
      BY <1>1, <1>5, <2>4, <2>6, <2>9 DEF Combined, Arithmetic
    <3> QED
      BY <2>5, <2>9, <3>1 DEF c
  <2> QED
    BY <2>8, <2>9
<1> QED
  BY <1>2, <1>3, <1>4, <1>5

LEMMA ComputedIsInt ==
    ASSUME NEW n \in Nat, NEW x \in Nodes(n), x.op \in {"constant", "coordinate", "size"} \cup Arithmetic,
           NEW V, \A i \in 1..(n - 1) : V[i] \in Int,
           NEW t, \A d \in Directions : t[d] \in Nat, NEW space, IsSpace(space),
           x.op \in {"udiv", "sdiv", "urem"} => V[x.args[2]] > 0
    PROVE  Computed(x, V, t, space) \in Int
<1> DEFINE c == Computed(x, V, t, space)
<1>1. CASE x.op = "constant"
  <2>1. x.value \in Int
    BY <1>1, NodeIs DEF Arithmetic
  <2> QED
    BY <1>1, <2>1 DEF Computed
<1>2. CASE x.op = "coordinate"
  <2>1. x.direction \in Directions
    BY <1>2, NodeIs DEF Arithmetic
  <2>2. c = IF x.type = "get_group_id" THEN 0 ELSE t[x.direction]
    BY <1>2 DEF Computed
  <2> QED
    BY <2>1, <2>2
<1>3. CASE x.op = "size"
  <2>1. x.type \in Sizes /\ x.direction \in Directions
    BY <1>3, NodeIs DEF Arithmetic
  <2>2. space.local[x.direction] \in Nat /\ space.groups[x.direction] \in Nat
    BY <2>1 DEF IsSpace
  <2>3. space.local[x.direction] * space.groups[x.direction] \in Nat
    BY <2>2, SMT
  <2>4. Size(x.type, x.direction, space) \in Nat
    BY <2>1, <2>2, <2>3 DEF Size, Sizes
  <2>5. c = Size(x.type, x.direction, space)
    BY <1>3 DEF Computed
  <2> QED
    BY <2>4, <2>5
<1>4. CASE x.op \in Arithmetic
  <2> DEFINE a == V[x.args[1]]
             b == V[x.args[2]]
  <2>1. x.args[1] \in 1..(n - 1) /\ x.args[2] \in 1..(n - 1)
    BY <1>4, NodeIs DEF Arithmetic
  <2>2. a \in Int /\ b \in Int
    BY <2>1
  <2>3. /\ x.op = "add" => c = a + b
        /\ x.op = "sub" => c = a - b
        /\ x.op = "mul" => c = a * b
        /\ x.op \in {"udiv", "sdiv"} => c = a \div b
        /\ x.op \in {"smax", "umax"} => c = IF a < b THEN b ELSE a
        /\ x.op = "urem" => c = a % b
    BY DEF Computed
  <2>4. x.op \in {"udiv", "sdiv", "urem"} => b > 0
    OBVIOUS
  <2> HIDE DEF a, b, c
  <2>5. a * b \in Int
    BY <2>2
  <2>6. b > 0 => a \div b \in Int /\ a % b \in Int
    BY <2>2
  <2>7. c \in Int
    BY <1>4, <2>2, <2>3, <2>4, <2>5, <2>6 DEF Arithmetic
  <2> QED
    BY <2>7 DEF c
<1> QED
  BY <1>1, <1>2, <1>3, <1>4

(* The subscript, replaced at a point, is its value for the thread there.   *)
LEMMA EvaluatedAsMeant ==
    ASSUME NEW e, IsSubscript(e), Understood(e), NEW w \in Nat \ {0}, NEW S, NEW t \in S,
           NEW space, IsSpace(space), NeverNegative(e, w, S, space),
           NEW point, StandsAt(t, point)
    PROVE  /\ replaceInExpr(e, point, space) = Value(e, t, space)
           /\ Fits(Value(e, t, space), w)
<1> DEFINE V == Values(e, t, space)
           N == Len(e)
<1>1. AreValues(V, e, t, space)
  BY ValuesAre
<1>2. PICK P : AreProcessed(P, e, point, space) /\ replaceInExpr(e, point, space) = P[Len(e)]
  BY ProcessedAre
<1>3. /\ N \in Nat \ {0} /\ DOMAIN e = 1..N
      /\ \A n \in 1..N : e[n] \in Nodes(n) /\ e[n].op \in {"constant", "coordinate", "size"} \cup Arithmetic
  BY DEF IsSubscript, Understood
<1>4. \A n \in 1..N : /\ e[n].op \in {"udiv", "sdiv", "urem"} => V[e[n].args[2]] > 0
                      /\ V[n] >= 0 /\ V[n] * w < Word \div 2
  BY <1>3 DEF NeverNegative
<1>5. \A n \in 1..N : V[n] = Computed(e[n], V, t, space) /\ P[n] = Replaced(e[n], P, point, space)
  BY <1>1, <1>2, <1>3 DEF AreValues, AreProcessed
<1>6. \A d \in Directions : t[d] \in Nat
  BY DEF StandsAt
<1> HIDE DEF V, N
<1> DEFINE T == {m \in Nat : \A n \in 1..N : n <= m => Fits(V[n], w) /\ P[n] = V[n]}
<1>7. 0 \in T
  OBVIOUS
<1>8. ASSUME NEW m \in Nat, m \in T PROVE m + 1 \in T
  <2> SUFFICES ASSUME m + 1 \in 1..N PROVE Fits(V[m + 1], w) /\ P[m + 1] = V[m + 1]
    BY <1>8
  <2> DEFINE n == m + 1
             x == e[n]
  <2>1. n \in Nat /\ x \in Nodes(n) /\ x.op \in {"constant", "coordinate", "size"} \cup Arithmetic
    BY <1>3
  <2>2. \A i \in 1..(n - 1) : Fits(V[i], w) /\ P[i] = V[i]
    BY <1>3, <1>8
  <2>3. x.op \in {"udiv", "sdiv", "urem"} => V[x.args[2]] > 0
    BY <1>4
  <2>4. V[n] = Computed(x, V, t, space) /\ P[n] = Replaced(x, P, point, space)
    BY <1>5
  <2>5. V[n] >= 0 /\ V[n] * w < Word \div 2
    BY <1>4
  <2> HIDE DEF n, x
  <2>6. V[n] \in Int
    <3>1. \A i \in 1..(n - 1) : V[i] \in Int
      BY <2>2 DEF Fits
    <3> QED
      BY <1>6, <2>1, <2>3, <2>4, <3>1, ComputedIsInt
  <2>7. Fits(V[n], w)
    BY <2>5, <2>6 DEF Fits
  <2>8. Replaced(x, P, point, space) = Computed(x, V, t, space)
    BY <2>1, <2>2, <2>3, <2>4, <2>7, ReplacedIsComputed
  <2> QED
    BY <2>4, <2>7, <2>8 DEF n
<1> HIDE DEF T
<1>9. N \in T
  BY <1>3, <1>7, <1>8, Induction
<1>10. Fits(V[N], w) /\ P[N] = V[N]
  BY <1>3, <1>9 DEF T
<1> QED
  BY <1>2, <1>10 DEF V, N, Value

(* And so is the offset of an access. *)
LEMMA OffsetIs ==
    ASSUME NEW a, IsAccess(a), NEW S, NEW t \in S, NEW e, IsSpace(e.space),
           Plain(a, S, e.space), NEW point, StandsAt(t, point)
    PROVE  /\ replaceInExpr(a.subscript, point, e.space) # CouldNotCompute
           /\ Value(a.subscript, t, e.space) \in Nat
           /\ a.width * Value(a.subscript, t, e.space) \in Nat
           /\ Offset(a, point, e) = a.width * Value(a.subscript, t, e.space)
<1> DEFINE v == Value(a.subscript, t, e.space)
           w == a.width
<1>1. w \in Nat \ {0} /\ IsSubscript(a.subscript)
  BY DEF IsAccess
<1>2. Understood(a.subscript) /\ NeverNegative(a.subscript, w, S, e.space)
  BY DEF Plain
<1>3. replaceInExpr(a.subscript, point, e.space) = v /\ Fits(v, w)
  BY <1>1, <1>2, EvaluatedAsMeant
<1> HIDE DEF v, w
<1>4. v \in Nat /\ (v * w) % Word = v * w /\ v * w \in Nat /\ v * w < Word \div 2
  BY <1>1, <1>3, FitsIs DEF Fits
<1>5. v * w = w * v
  BY <1>1, <1>4, SMT
<1>6. Offset(a, point, e) = v * w
  BY <1>3, <1>4 DEF Offset, w
<1> QED
  BY <1>3, <1>4, <1>5, <1>6 DEF v, w, CouldNotCompute

----------------------------------------------------------------------------
(* The threads of the first warp. *)

(* The place of a thread in its group.                                      *)
Position(t, space) == t[1] + space.local[1] * (t[2] + space.local[2] * t[3])

LEMMA ThreadIs ==
    ASSUME NEW space, IsSpace(space), NEW t \in Threads(space)
    PROVE  /\ t = <<t[1], t[2], t[3]>>
           /\ \A d \in Directions : t[d] \in Nat /\ t[d] < space.local[d]
           /\ Position(t, space) \in 0..(WARP_SIZE - 1)
<1> DEFINE l == space.local
<1>1. t \in (0..(l[1] - 1)) \X (0..(l[2] - 1)) \X (0..(l[3] - 1))
      /\ t[1] + l[1] * (t[2] + l[2] * t[3]) < WARP_SIZE
  BY DEF Threads
<1>2. l[1] \in Nat \ {0} /\ l[2] \in Nat \ {0} /\ l[3] \in Nat \ {0}
  BY DEF IsSpace, Directions
<1> HIDE DEF l
<1>3. t = <<t[1], t[2], t[3]>> /\ t[1] \in 0..(l[1] - 1) /\ t[2] \in 0..(l[2] - 1) /\ t[3] \in 0..(l[3] - 1)
  BY <1>1
<1> DEFINE b == l[2] * t[3]
           c == l[1] * (t[2] + b)
<1>4. b \in Nat
  BY <1>2, <1>3, SMT
<1>5. c \in Nat
  <2> HIDE DEF b
  <2> QED
    BY <1>2, <1>3, <1>4, SMT
<1>6. t[1] + c \in Nat /\ t[1] + c < WARP_SIZE
  <2>1. t[1] + c < WARP_SIZE
    BY <1>1
  <2> HIDE DEF c
  <2> QED
    BY <1>3, <1>5, <2>1
<1>7. Position(t, space) = t[1] + c
  BY DEF Position, l
<1> HIDE DEF c
<1>8. Position(t, space) \in 0..(WARP_SIZE - 1)
  BY <1>6, <1>7 DEF WARP_SIZE
<1>9. ASSUME NEW d \in Directions PROVE t[d] \in Nat /\ t[d] < l[d]
  <2>1. d = 1 \/ d = 2 \/ d = 3
    BY DEF Directions
  <2> QED
    BY <1>2, <1>3, <2>1
<1> QED
  BY <1>3, <1>8, <1>9 DEF l

LEMMA DivModIs ==
    ASSUME NEW d \in Nat \ {0}, NEW q \in Nat, NEW r \in Nat, r < d, NEW a, a = d * q + r
    PROVE  a \in Nat /\ a \div d = q /\ a % d = r
<1>1. a \in Nat
  BY SMT
<1> DEFINE p == a \div d
           s == a % d
<1>2. p \in Nat /\ s \in 0..(d - 1) /\ a = d * p + s
  BY <1>1, DivMod
<1> HIDE DEF p, s
<1>3. r \in 0..(d - 1)
  OBVIOUS
<1>4. d * q + r = d * p + s
  BY <1>2
<1>5. q = p /\ r = s
  BY <1>2, <1>3, <1>4, DivModUnique
<1> QED
  BY <1>1, <1>5 DEF p, s

(* The warp has each thread at its place.                                   *)
LEMMA LocalAtPosition ==
    ASSUME NEW space, IsSpace(space), NEW t \in Threads(space)
    PROVE  LocalAt(Position(t, space), space.local) = t
<1> DEFINE l == space.local
           area == l[1] * l[2]
           r == t[1] + l[1] * t[2]
           p == Position(t, space)
<1>1. l[1] \in Nat \ {0} /\ l[2] \in Nat \ {0} /\ l[3] \in Nat \ {0}
  BY DEF IsSpace, Directions
<1>2. /\ t = <<t[1], t[2], t[3]>>
      /\ t[1] \in Nat /\ t[2] \in Nat /\ t[3] \in Nat /\ t[1] < l[1] /\ t[2] < l[2]
  BY ThreadIs DEF Directions
<1>3. p = t[1] + l[1] * (t[2] + l[2] * t[3])
  BY DEF Position
<1> HIDE DEF p, l
<1>4. r \in Nat /\ r < area /\ area \in Nat \ {0}
  <2> DEFINE u == l[2] - 1 - t[2]
             b == l[1] * t[2]
             c == l[1] * u
  <2>1. u \in Nat /\ l[2] = t[2] + (u + 1)
    BY <1>1, <1>2
  <2> HIDE DEF u
  <2>2. b \in Nat /\ c \in Nat /\ area = b + (c + l[1])
    BY <1>1, <1>2, <2>1, SMT
  <2> HIDE DEF b, c, area
  <2>3. t[1] + b \in Nat /\ t[1] + b < area
    BY <1>1, <1>2, <2>2
  <2>4. area \in Nat \ {0}
    BY <1>1, <2>2
  <2> QED
    BY <2>3, <2>4 DEF b
<1>5. p = area * t[3] + r
  <2> DEFINE b == l[2] * t[3]
  <2>1. b \in Nat /\ l[1] * (t[2] + b) = l[1] * t[2] + l[1] * b
    BY <1>1, <1>2, SMT
  <2>2. l[1] * b = area * t[3]
    BY <1>1, <1>2, SMT
  <2>3. l[1] * t[2] \in Nat /\ area * t[3] \in Nat
    BY <1>1, <1>2, <1>4, SMT
  <2>4. p = t[1] + (l[1] * t[2] + area * t[3])
    BY <1>3, <2>1, <2>2
  <2> QED
    BY <1>2, <2>3, <2>4
<1>6. r = l[1] * t[2] + t[1]
  <2>1. l[1] * t[2] \in Nat
    BY <1>1, <1>2, SMT
  <2> QED
    BY <1>2, <2>1
<1>7. r \div l[1] = t[2] /\ r % l[1] = t[1]
  BY <1>1, <1>2, <1>6, DivModIs
<1>8. p \div area = t[3] /\ p % area = r
  <2> HIDE DEF area, r
  <2> QED
    BY <1>2, <1>4, <1>5, DivModIs
<1>9. LocalAt(p, l) = <<r % l[1], r \div l[1], t[3]>>
  BY <1>8 DEF LocalAt
<1> QED
  BY <1>2, <1>7, <1>9 DEF p, l

LEMMA ThreadStands ==
    ASSUME NEW space, IsSpace(space), NEW t \in Threads(space)
    PROVE  /\ Position(t, space) \in 0..(WARP_SIZE - 1)
           /\ StandsAt(t, Warp(space)[Position(t, space)])
<1> DEFINE p == Position(t, space)
           point == NDRangePoint(t, <<0, 0, 0>>, space.local)
<1>1. p \in 0..(WARP_SIZE - 1) /\ \A d \in Directions : t[d] \in Nat
  BY ThreadIs
<1>2. Warp(space)[p] = point
  BY <1>1, LocalAtPosition DEF Warp
<1>3. ASSUME NEW d \in Directions
      PROVE  point.local[d] = t[d] /\ point.global[d] = t[d] /\ point.group[d] = 0
  <2>1. space.local[d] \in Nat
    BY DEF IsSpace
  <2>2. <<0, 0, 0>>[d] = 0
    BY DEF Directions
  <2>3. point.group[d] = 0 /\ point.local[d] = t[d]
    BY <2>2 DEF NDRangePoint
  <2>4. point.global[d] = t[d] + <<0, 0, 0>>[d] * space.local[d]
    BY DEF NDRangePoint
  <2>5. 0 * space.local[d] = 0
    BY <2>1
  <2> QED
    BY <1>1, <2>2, <2>3, <2>4, <2>5
<1> HIDE DEF point
<1> QED
  BY <1>1, <1>2, <1>3 DEF StandsAt

LEMMA FirstNumbers ==
    ASSUME NEW n \in Nat
    PROVE  IsFiniteSet(0..(n - 1)) /\ Cardinality(0..(n - 1)) = n
<1>1. IsFiniteSet(0..(n - 1)) /\ Cardinality(0..(n - 1)) = IF 0 > n - 1 THEN 0 ELSE (n - 1) - 0 + 1
  BY FS_Interval
<1> QED
  BY <1>1

(* No two threads have the same place, so there are at most as many as the  *)
(* warp has room for; when there are as many, each place is taken.          *)
LEMMA ThreadsFillWarp ==
    ASSUME NEW space, IsSpace(space)
    PROVE  /\ IsFiniteSet(Threads(space)) /\ Cardinality(Threads(space)) <= WARP_SIZE
           /\ Cardinality(Threads(space)) = WARP_SIZE =>
                 \A i \in 0..(WARP_SIZE - 1) : \E t \in Threads(space) : Position(t, space) = i
<1> DEFINE T == Threads(space)
           I == 0..(WARP_SIZE - 1)
           h == [t \in T |-> Position(t, space)]
           R == {i \in I : \E t \in T : i = Position(t, space)}
<1>1. \A t \in T : Position(t, space) \in I
  BY ThreadIs
<1>2. \A t, u \in T : Position(t, space) = Position(u, space) => t = u
  <2> SUFFICES ASSUME NEW t \in T, NEW u \in T, Position(t, space) = Position(u, space) PROVE t = u
    OBVIOUS
  <2>1. LocalAt(Position(t, space), space.local) = t
    BY LocalAtPosition
  <2>2. LocalAt(Position(u, space), space.local) = u
    BY LocalAtPosition
  <2> QED
    BY <2>1, <2>2
<1>3. IsFiniteSet(I) /\ Cardinality(I) = WARP_SIZE
  <2>1. WARP_SIZE \in Nat
    BY DEF WARP_SIZE
  <2> QED
    BY ONLY <2>1, FirstNumbers
<1>4. h \in Injection(T, I)
  BY <1>1, <1>2 DEF Injection, IsInjective
<1>5. h \in Bijection(T, R)
  BY <1>1, <1>2 DEF Bijection, Injection, Surjection, IsInjective
<1> HIDE DEF T, I, h, R
<1>6. IsFiniteSet(T) /\ Cardinality(T) <= WARP_SIZE
  BY <1>3, <1>4, FS_Injection
<1>7. R \subseteq I
  BY DEF R
<1>8. Cardinality(R) = Cardinality(T)
  <2>1. ExistsBijection(T, R)
    BY <1>5 DEF ExistsBijection
  <2> QED
    BY <1>6, <2>1, FS_Bijection
<1>9. Cardinality(T) = WARP_SIZE => R = I
  BY <1>3, <1>7, <1>8, FS_Subset
<1> QED
  BY <1>6, <1>9 DEF T, I, R

----------------------------------------------------------------------------
(* The answers. *)

IsEnvironment(e) == IsSpace(e.space)

(* What all places of a warp, or all members of a finite set, are taken to  *)
(* is finite.                                                               *)
LEMMA ImageIsFinite ==
    ASSUME NEW S, IsFiniteSet(S), NEW f, f = [x \in S |-> f[x]], NEW T, T = {f[x] : x \in S}
    PROVE  IsFiniteSet(T) /\ Cardinality(T) <= Cardinality(S)
<1>1. f \in Surjection(S, T)
  BY DEF Surjection
<1> QED
  BY <1>1, FS_Surjection

LEMMA OffsetsAreFinite ==
    ASSUME NEW a, NEW e
    PROVE  IsFiniteSet(Offsets(a, e))
<1> DEFINE I == 0..(WARP_SIZE - 1)
           f == [i \in I |-> Offset(a, Warp(e.space)[i], e)]
<1>1. IsFiniteSet(I)
  <2>1. WARP_SIZE \in Nat
    BY DEF WARP_SIZE
  <2> QED
    BY ONLY <2>1, FirstNumbers
<1>2. Offsets(a, e) = {f[i] : i \in I} /\ f = [i \in I |-> f[i]]
  BY DEF Offsets
<1> HIDE DEF I, f
<1> QED
  BY <1>1, <1>2, ImageIsFinite

(* Each thread's address is among the offsets; when there is a thread at    *)
(* each place of the warp, nothing else is.                                 *)
LEMMA AddressesAreOffsets ==
    ASSUME NEW a, IsAccess(a), NEW e, IsEnvironment(e), Plain(a, Threads(e.space), e.space)
    PROVE  /\ Addresses(a, e.space) \subseteq Offsets(a, e)
           /\ \A x \in Addresses(a, e.space) : x \in Nat
           /\ Cardinality(Threads(e.space)) = WARP_SIZE =>
                 /\ Addresses(a, e.space) = Offsets(a, e)
                 /\ a.base # "instruction" => Known(a, Warp(e.space), e)
<1> DEFINE T == Threads(e.space)
           point(t) == Warp(e.space)[Position(t, e.space)]
           v(t) == Value(a.subscript, t, e.space)
<1>1. ASSUME NEW t \in T
      PROVE  /\ Position(t, e.space) \in 0..(WARP_SIZE - 1)
             /\ replaceInExpr(a.subscript, point(t), e.space) # CouldNotCompute
             /\ a.width * v(t) \in Nat /\ Offset(a, point(t), e) = a.width * v(t)
  <2>1. Position(t, e.space) \in 0..(WARP_SIZE - 1) /\ StandsAt(t, point(t))
    BY ThreadStands DEF IsEnvironment
  <2> QED
    BY <2>1, OffsetIs DEF IsEnvironment
<1>2. ASSUME NEW x \in Addresses(a, e.space) PROVE x \in Offsets(a, e) /\ x \in Nat
  <2>1. PICK t \in T : x = a.width * v(t)
    BY DEF Addresses
  <2>2. x = Offset(a, point(t), e) /\ x \in Nat /\ Position(t, e.space) \in 0..(WARP_SIZE - 1)
    BY <1>1, <2>1
  <2> QED
    BY <2>2 DEF Offsets
<1>3. ASSUME Cardinality(T) = WARP_SIZE
      PROVE  /\ Offsets(a, e) \subseteq Addresses(a, e.space)
             /\ a.base # "instruction" => Known(a, Warp(e.space), e)
  <2>1. \A i \in 0..(WARP_SIZE - 1) : \E t \in T : Position(t, e.space) = i
    BY <1>3, ThreadsFillWarp DEF IsEnvironment
  <2>2. ASSUME NEW i \in 0..(WARP_SIZE - 1)
        PROVE  /\ Offset(a, Warp(e.space)[i], e) \in Addresses(a, e.space)
               /\ replaceInExpr(a.subscript, Warp(e.space)[i], e.space) # CouldNotCompute
    <3>1. PICK t \in T : Position(t, e.space) = i
      BY <2>1
    <3>2. Offset(a, Warp(e.space)[i], e) = a.width * v(t)
      BY <1>1, <3>1
    <3> QED
      BY <1>1, <3>1, <3>2 DEF Addresses
  <2>3. DOMAIN Warp(e.space) = 0..(WARP_SIZE - 1)
    BY DEF Warp
  <2> QED
    BY <2>2, <2>3 DEF Offsets, Known
<1> QED
  BY <1>2, <1>3

LEMMA TransactionsOfWarp ==
    ASSUME NEW a, IsAccess(a), NEW e, IsEnvironment(e), Plain(a, Threads(e.space), e.space)
    PROVE  /\ TransactionNumber(a, e) >= Cardinality(Lines(a, e.space))
           /\ (Cardinality(Threads(e.space)) = WARP_SIZE /\ a.base # "instruction") =>
                 TransactionNumber(a, e) = Cardinality(Lines(a, e.space))
<1> DEFINE T == Threads(e.space)
           L == Lines(a, e.space)
           O == Offsets(a, e)
           Q == {o \div CACHELINE_SIZE : o \in O}
           line == [o \in O |-> o \div CACHELINE_SIZE]
           of == [t \in T |-> (a.width * Value(a.subscript, t, e.space)) \div CACHELINE_SIZE]
<1>1. IsFiniteSet(Q)
  <2>1. IsFiniteSet(O)
    BY OffsetsAreFinite
  <2>2. Q = {line[o] : o \in O} /\ line = [o \in O |-> line[o]]
    OBVIOUS
  <2> HIDE DEF O, Q, line
  <2> QED
    BY <2>1, <2>2, ImageIsFinite
<1>2. L \subseteq Q
  BY AddressesAreOffsets DEF Lines
<1>3. IsFiniteSet(T) /\ Cardinality(T) <= WARP_SIZE
  BY ThreadsFillWarp DEF IsEnvironment
<1>4. IsFiniteSet(L) /\ Cardinality(L) <= Cardinality(T)
  <2>1. L = {of[t] : t \in T} /\ of = [t \in T |-> of[t]]
    BY DEF Lines, Addresses
  <2> HIDE DEF T, L, of
  <2> QED
    BY <1>3, <2>1, ImageIsFinite
<1>5. TransactionNumber(a, e) = IF Known(a, Warp(e.space), e) THEN Cardinality(Q) ELSE WARP_SIZE
  BY DEF TransactionNumber
<1>6. Cardinality(T) = WARP_SIZE /\ a.base # "instruction" => L = Q /\ Known(a, Warp(e.space), e)
  BY AddressesAreOffsets DEF Lines
<1> HIDE DEF T, L, Q
<1>7. Cardinality(L) <= Cardinality(Q)
  BY <1>1, <1>2, FS_Subset
<1>8. Cardinality(L) \in Nat /\ Cardinality(Q) \in Nat /\ Cardinality(T) \in Nat /\ WARP_SIZE \in Nat
  BY <1>1, <1>3, <1>4, FS_CardinalityType DEF WARP_SIZE
<1>9. TransactionNumber(a, e) >= Cardinality(L)
  BY <1>3, <1>4, <1>5, <1>7, <1>8
<1> QED
  BY <1>5, <1>6, <1>9 DEF T, L

----------------------------------------------------------------------------
(* A word is as wide as a bank, so the words in one bank lie in one column  *)
(* and each in a row of its own.                                            *)
LEMMA WordsInBank ==
    ASSUME NEW v \in Nat, NEW w \in Nat, v % BANK_NUMBER = w % BANK_NUMBER
    PROVE  /\ Column(BANK_WIDTH * v) = Column(BANK_WIDTH * w)
           /\ Row(BANK_WIDTH * v) = v \div BANK_NUMBER
           /\ v \div BANK_NUMBER = w \div BANK_NUMBER => v = w
<1>1. v % 32 = w % 32
  BY DEF BANK_NUMBER
<1>2. (4 * v) % 32 = (4 * w) % 32
  BY <1>1
<1>3. (4 * v) \div 128 = v \div 32
  OBVIOUS
<1>4. v \div 32 = w \div 32 => v = w
  BY <1>1
<1>5. 32 * 4 = 128
  OBVIOUS
<1> QED
  BY <1>2, <1>3, <1>4, <1>5 DEF Column, Row, BANK_NUMBER, BANK_WIDTH

LEMMA WordOf ==
    ASSUME NEW v \in Nat
    PROVE  (BANK_WIDTH * v) \div BANK_WIDTH = v
BY DEF BANK_WIDTH
LEMMA LargestOf ==
    ASSUME NEW S, S \subseteq Int, IsFiniteSet(S), NEW x \in S
    PROVE  Max(S) \in Int /\ Max(S) >= x
<1>1. \E m \in S : \A y \in S : m >= y
  BY LargestNumber
<1>2. Max(S) \in S /\ \A y \in S : Max(S) >= y
  BY <1>1 DEF Max
<1> QED
  BY <1>2

(* The answer for local memory is the number of rows of the column with the *)
(* most of them, less one.                                                  *)
RowsOf(c, a, e) == {Row(o) : o \in {p \in Offsets(a, e) : Column(p) = c}}

LEMMA ConflictsAreLargest ==
    ASSUME NEW a, NEW e
    PROVE  /\ \A c : IsFiniteSet(RowsOf(c, a, e)) /\ Cardinality(RowsOf(c, a, e)) \in Nat
           /\ BankConflictNumber(a, e) \in Int
           /\ \A o \in Offsets(a, e) : BankConflictNumber(a, e) >= Cardinality(RowsOf(Column(o), a, e)) - 1
<1> DEFINE O == Offsets(a, e)
           Rows(c) == RowsOf(c, a, e)
           N == {Cardinality(Rows(Column(o))) - 1 : o \in O}
<1>1. IsFiniteSet(O) /\ Offset(a, Warp(e.space)[0], e) \in O
  BY OffsetsAreFinite DEF Offsets, WARP_SIZE
<1>2. ASSUME NEW c PROVE IsFiniteSet(Rows(c)) /\ Cardinality(Rows(c)) \in Nat
  <2> DEFINE P == {p \in O : Column(p) = c}
             f == [o \in P |-> Row(o)]
             R == Rows(c)
  <2>1. IsFiniteSet(P)
    <3>1. P \subseteq O
      OBVIOUS
    <3> HIDE DEF P, O
    <3> QED
      BY <1>1, <3>1, FS_Subset
  <2>2. R = {f[o] : o \in P} /\ f = [o \in P |-> f[o]]
    BY DEF RowsOf
  <2> HIDE DEF R, P, f
  <2>3. IsFiniteSet(R) /\ Cardinality(R) \in Nat
    BY <2>1, <2>2, ImageIsFinite, FS_CardinalityType
  <2> QED
    BY <2>3 DEF R
<1>3. BankConflictNumber(a, e) = Max(N)
  BY DEF BankConflictNumber, RowsOf
<1>4. IsFiniteSet(N)
  <2> DEFINE f == [o \in O |-> Cardinality(Rows(Column(o))) - 1]
  <2>1. N = {f[o] : o \in O} /\ f = [o \in O |-> f[o]]
    OBVIOUS
  <2> HIDE DEF N, O, f
  <2> QED
    BY <1>1, <2>1, ImageIsFinite
<1>5. N \subseteq Int
  <2> HIDE DEF Rows
  <2> QED
    BY <1>2
<1>6. \A o \in O : Cardinality(Rows(Column(o))) - 1 \in N
  OBVIOUS
<1> HIDE DEF N
<1>7. \A x \in N : Max(N) \in Int /\ Max(N) >= x
  BY <1>4, <1>5, LargestOf
<1> QED
  BY <1>1, <1>2, <1>3, <1>6, <1>7

LEMMA ConflictsOfWarp ==
    ASSUME NEW a, IsAccess(a), a.width = BANK_WIDTH, NEW e, IsEnvironment(e),
           Plain(a, Threads(e.space), e.space), NEW w \in Words(a, e.space)
    PROVE  LET words == Words(a, e.space)
           IN  Cardinality({v \in words : v % BANK_NUMBER = w % BANK_NUMBER}) - 1 <= BankConflictNumber(a, e)
<1> DEFINE words == Words(a, e.space)
           O == Offsets(a, e)
           B == {v \in words : v % BANK_NUMBER = w % BANK_NUMBER}
           row == [v \in B |-> v \div BANK_NUMBER]
           o == BANK_WIDTH * w
           C == RowsOf(Column(o), a, e)
<1>1. \A v \in words : v \in Nat /\ BANK_WIDTH * v \in O
  <2> SUFFICES ASSUME NEW v \in words PROVE v \in Nat /\ BANK_WIDTH * v \in O
    OBVIOUS
  <2>1. PICK x \in Addresses(a, e.space) : v = x \div BANK_WIDTH
    BY DEF Words
  <2>2. PICK t \in Threads(e.space) : x = BANK_WIDTH * Value(a.subscript, t, e.space)
    BY DEF Addresses
  <2>3. StandsAt(t, Warp(e.space)[Position(t, e.space)])
    BY ThreadStands DEF IsEnvironment
  <2>4. Value(a.subscript, t, e.space) \in Nat
    BY <2>3, OffsetIs DEF IsEnvironment
  <2>5. v = Value(a.subscript, t, e.space)
    BY <2>1, <2>2, <2>4, WordOf
  <2> QED
    BY <2>2, <2>4, <2>5, AddressesAreOffsets
<1>2. w \in Nat /\ o \in O
  BY <1>1
<1>3. /\ IsFiniteSet(C) /\ Cardinality(C) \in Nat
      /\ BankConflictNumber(a, e) \in Int /\ BankConflictNumber(a, e) >= Cardinality(C) - 1
  BY <1>2, ConflictsAreLargest
<1>4. ASSUME NEW v \in B PROVE v \in Nat /\ row[v] \in C
  <2>1. v \in Nat /\ BANK_WIDTH * v \in O /\ v % BANK_NUMBER = w % BANK_NUMBER
    BY <1>1
  <2>2. Column(BANK_WIDTH * v) = Column(o) /\ Row(BANK_WIDTH * v) = v \div BANK_NUMBER
    BY <1>2, <2>1, WordsInBank
  <2>3. row[v] = Row(BANK_WIDTH * v)
    BY <2>2
  <2> QED
    BY <2>1, <2>2, <2>3 DEF RowsOf
<1>5. ASSUME NEW u \in B, NEW v \in B, row[u] = row[v] PROVE u = v
  <2>1. u \in Nat /\ v \in Nat /\ u % BANK_NUMBER = v % BANK_NUMBER
    BY <1>1
  <2>2. u \div BANK_NUMBER = v \div BANK_NUMBER
    BY <1>5
  <2> QED
    BY <2>1, <2>2, WordsInBank
<1> HIDE DEF C
<1>6. row \in Injection(B, C)
  <2>1. row \in [B -> C]
    BY <1>4
  <2> HIDE DEF B, row
  <2> QED
    BY <1>5, <2>1 DEF Injection, IsInjective
<1> HIDE DEF B, row, words
<1>7. IsFiniteSet(B) /\ Cardinality(B) <= Cardinality(C)
  BY <1>3, <1>6, FS_Injection
<1>8. Cardinality(B) \in Nat
  BY <1>7, FS_CardinalityType
<1>9. Cardinality(B) - 1 <= BankConflictNumber(a, e)
  BY <1>3, <1>7, <1>8
<1> QED
  BY <1>9 DEF B, words

(* isConsecutive tries its threads where they stand. *)
LEMMA TriedStands ==
    ASSUME NEW d \in Directions, NEW i \in 0..(TEST_NUMBER - 1)
    PROVE  StandsAt(Tried(d, i), Along(d)[i])
<1> DEFINE t == Tried(d, i)
           point == NDRangePoint(t, <<0, 0, 0>>, <<1024, 1024, 1024>>)
<1>1. Along(d)[i] = point
  BY DEF Along, Tried
<1>2. i \in Nat
  BY DEF TEST_NUMBER
<1>3. ASSUME NEW c \in Directions
      PROVE  t[c] \in Nat /\ point.local[c] = t[c] /\ point.global[c] = t[c] /\ point.group[c] = 0
  <2>1. t[c] \in Nat
    BY <1>2 DEF Tried
  <2>2. <<0, 0, 0>>[c] = 0 /\ <<1024, 1024, 1024>>[c] = 1024
    BY DEF Directions
  <2>3. /\ point.local[c] = t[c] /\ point.group[c] = 0
        /\ point.global[c] = t[c] + <<0, 0, 0>>[c] * <<1024, 1024, 1024>>[c]
    BY <2>2 DEF NDRangePoint
  <2> HIDE DEF t, point
  <2> QED
    BY <2>1, <2>2, <2>3
<1> HIDE DEF t, point
<1>4. StandsAt(t, point)
  BY <1>3 DEF StandsAt
<1> QED
  BY <1>1, <1>4 DEF t

LEMMA NextTo ==
    ASSUME NEW w \in Nat \ {0}, NEW u \in Nat, NEW v \in Nat
    PROVE  w * u + w = w * v <=> v = u + 1
<1>1. w * u + w = w * (u + 1)
  BY SMT
<1>2. w * v = w * (u + 1) => v = u + 1
  <2>1. CASE v < u + 1
    <3> DEFINE k == (u + 1) - v
    <3>1. k \in Nat \ {0} /\ u + 1 = v + k
      BY <2>1
    <3> HIDE DEF k
    <3>2. w * (v + k) = w * v + w * k /\ w * k > 0 /\ w * v \in Nat /\ w * k \in Nat
      BY <3>1, SMT
    <3>3. w * (u + 1) # w * v
      BY <3>1, <3>2
    <3> QED
      BY <3>3
  <2>2. CASE v > u + 1
    <3> DEFINE k == v - (u + 1)
               x == u + 1
    <3>1. k \in Nat \ {0} /\ v = x + k /\ x \in Nat
      BY <2>2
    <3> HIDE DEF k, x
    <3>2. w * (x + k) = w * x + w * k /\ w * k > 0 /\ w * x \in Nat /\ w * k \in Nat
      BY <3>1, SMT
    <3>3. w * v # w * x
      BY <3>1, <3>2
    <3> QED
      BY <3>3 DEF x
  <2> QED
    BY <2>1, <2>2
<1> QED
  BY <1>1, <1>2

LEMMA ConsecutiveMeans ==
    ASSUME NEW a, IsAccess(a), NEW e, IsEnvironment(e), NEW d \in Directions,
           PointeeWidth(a) = a.width, Plain(a, {Tried(d, i) : i \in 0..(TEST_NUMBER - 1)}, e.space)
    PROVE  isConsecutive(a, d, e) <=>
              /\ a.isGep
              /\ \A i \in 0..(TEST_NUMBER - 2) : Value(a.subscript, Tried(d, i + 1), e.space)
                                                 = Value(a.subscript, Tried(d, i), e.space) + 1
<1> DEFINE S == {Tried(d, i) : i \in 0..(TEST_NUMBER - 1)}
           v(i) == Value(a.subscript, Tried(d, i), e.space)
           point(i) == Along(d)[i]
           w == a.width
<1>1. ASSUME NEW i \in 0..(TEST_NUMBER - 1)
      PROVE  /\ replaceInExpr(a.subscript, point(i), e.space) # CouldNotCompute
             /\ v(i) \in Nat /\ Offset(a, point(i), e) = w * v(i)
  <2>1. Tried(d, i) \in S /\ StandsAt(Tried(d, i), point(i))
    BY TriedStands
  <2> HIDE DEF S
  <2>2. Plain(a, S, e.space)
    BY DEF S
  <2> QED
    BY <2>1, <2>2, OffsetIs DEF IsEnvironment
<1>3. isConsecutive(a, d, e) <=>
         /\ a.isGep
         /\ \A i \in 0..(TEST_NUMBER - 2) : Offset(a, point(i), e) + w = Offset(a, point(i + 1), e)
  <2>1. \A i \in 0..(TEST_NUMBER - 2) : i \in 0..(TEST_NUMBER - 1) /\ i + 1 \in 0..(TEST_NUMBER - 1)
    BY DEF TEST_NUMBER
  <2> QED
    BY <2>1 DEF isConsecutive
<1>4. w \in Nat \ {0}
  BY DEF IsAccess
<1>5. ASSUME NEW i \in 0..(TEST_NUMBER - 2)
      PROVE  Offset(a, point(i), e) + w = Offset(a, point(i + 1), e) <=> v(i + 1) = v(i) + 1
  <2>1. i \in 0..(TEST_NUMBER - 1) /\ i + 1 \in 0..(TEST_NUMBER - 1)
    BY DEF TEST_NUMBER
  <2>2. /\ Offset(a, point(i), e) = w * v(i) /\ v(i) \in Nat
        /\ Offset(a, point(i + 1), e) = w * v(i + 1) /\ v(i + 1) \in Nat
    BY <1>1, <2>1
  <2> HIDE DEF v, w, point
  <2> QED
    BY <1>4, <2>2, NextTo
<1> QED
  BY <1>3, <1>5

----------------------------------------------------------------------------
(* The lists: they have the answer for each access that was visited, at its *)
(* place among those they are for.                                          *)
Answer(a, e) == IF a.space = "local" THEN BankConflictNumber(a, e) ELSE TransactionNumber(a, e)

Answered ==
    /\ kernel \in Kernels /\ env \in Environments(Spaces)
    /\ at \in Nat \ {0}
    /\ lists \in [Lists -> Seq(Int)]
    /\ \A l \in Lists :
          /\ Len(lists[l]) = Cardinality(ListedIn(l))
          /\ \A n \in ListedIn(l) : Entry(n, l) = Answer(kernel[n], env)

UpTo(S, n) == {m \in S : m <= n}

(* How the places in a list change as it gets one more entry.               *)
LEMMA Listing ==
    ASSUME NEW k \in Nat \ {0}, NEW S, S \subseteq 1..(k - 1)
    PROVE  /\ Cardinality(S) \in Nat /\ Cardinality(S \cup {k}) = Cardinality(S) + 1
           /\ UpTo(S \cup {k}, k) = S \cup {k}
           /\ \A n \in S : /\ UpTo(S \cup {k}, n) = UpTo(S, n)
                            /\ Cardinality(UpTo(S, n)) \in 1..Cardinality(S)
<1>1. IsFiniteSet(S)
  <2>1. IsFiniteSet(1..(k - 1))
    BY FS_Interval
  <2> QED
    BY <2>1, FS_Subset
<1>2. k \notin S /\ \A n \in S : n \in Nat /\ n < k
  OBVIOUS
<1>3. Cardinality(S) \in Nat /\ Cardinality(S \cup {k}) = Cardinality(S) + 1
  <2>1. Cardinality(S \cup {k}) = IF k \in S THEN Cardinality(S) ELSE Cardinality(S) + 1
    BY ONLY <1>1, FS_AddElement
  <2> QED
    BY <1>1, <1>2, <2>1, FS_CardinalityType
<1>4. UpTo(S \cup {k}, k) = S \cup {k}
  <2>1. \A n \in S \cup {k} : n <= k
    BY <1>2
  <2> QED
    BY <2>1 DEF UpTo
<1>5. ASSUME NEW n \in S
      PROVE  UpTo(S \cup {k}, n) = UpTo(S, n) /\ Cardinality(UpTo(S, n)) \in 1..Cardinality(S)
  <2>1. UpTo(S \cup {k}, n) = UpTo(S, n)
    BY <1>2 DEF UpTo
  <2>2. UpTo(S, n) \subseteq S /\ n \in UpTo(S, n)
    BY <1>2 DEF UpTo
  <2> DEFINE U == UpTo(S, n)
  <2> HIDE DEF U
  <2>3. U \subseteq S /\ U # {}
    BY <2>2 DEF U
  <2>4. IsFiniteSet(U) /\ Cardinality(U) <= Cardinality(S) /\ Cardinality(U) \in Nat
    BY <1>1, <2>3, FS_Subset, FS_CardinalityType
  <2>5. Cardinality(U) # 0
    BY <2>3, <2>4, FS_EmptySet
  <2>6. Cardinality(U) \in 1..Cardinality(S)
    BY <1>3, <2>4, <2>5
  <2> QED
    BY <2>1, <2>6 DEF U
<1> QED
  BY <1>3, <1>4, <1>5

LEMMA ListedBefore ==
    ASSUME Answered, NEW l
    PROVE  ListedIn(l) \subseteq 1..(at - 1)
<1>1. DOMAIN kernel = 1..Len(kernel) /\ Len(kernel) \in Nat
  BY KernelsAssumption DEF Answered
<1>2. at \in Nat \ {0}
  BY DEF Answered
<1>3. ASSUME NEW n \in ListedIn(l) PROVE n \in 1..(at - 1)
  <2>1. n \in 1..Len(kernel) /\ n < at
    BY <1>1 DEF ListedIn
  <2> QED
    BY <1>1, <1>2, <2>1
<1> QED
  BY <1>3

LEMMA AnswerIsNumber ==
    ASSUME NEW a, NEW e
    PROVE  TransactionNumber(a, e) \in Int /\ BankConflictNumber(a, e) \in Int
<1> DEFINE O == Offsets(a, e)
           Q == {o \div CACHELINE_SIZE : o \in O}
           line == [o \in O |-> o \div CACHELINE_SIZE]
<1>1. IsFiniteSet(O)
  BY OffsetsAreFinite
<1>2. Q = {line[o] : o \in O} /\ line = [o \in O |-> line[o]]
  OBVIOUS
<1>3. TransactionNumber(a, e) = IF Known(a, Warp(e.space), e) THEN Cardinality(Q) ELSE WARP_SIZE
  BY DEF TransactionNumber
<1> HIDE DEF O, Q, line
<1>4. Cardinality(Q) \in Nat
  BY <1>1, <1>2, ImageIsFinite, FS_CardinalityType
<1> QED
  BY <1>3, <1>4, ConflictsAreLargest DEF WARP_SIZE

LEMMA InitAnswered ==
    ASSUME Init
    PROVE  Answered
<1>1. kernel \in Kernels /\ env \in Environments(Spaces) /\ at = 1
  BY DEF Init
<1>2. \A l \in Lists : lists[l] = <<>>
  BY DEF Init
<1>3. lists \in [Lists -> Seq(Int)]
  BY DEF Init
<1>4. ASSUME NEW l \in Lists PROVE ListedIn(l) = {}
  <2>1. DOMAIN kernel = 1..Len(kernel) /\ Len(kernel) \in Nat
    BY <1>1, KernelsAssumption
  <2>2. \A n \in DOMAIN kernel : ~(n < at)
    BY <1>1, <2>1
  <2> QED
    BY <2>2 DEF ListedIn
<1>5. Cardinality({}) = 0
  BY FS_EmptySet
<1>6. \A l \in Lists : Len(lists[l]) = Cardinality(ListedIn(l))
  <2>1. Len(<<>>) = 0
    OBVIOUS
  <2> QED
    BY <1>2, <1>4, <1>5, <2>1, Zenon
<1>7. \A l \in Lists : \A n \in ListedIn(l) : Entry(n, l) = Answer(kernel[n], env)
  BY <1>4
<1> QED
  BY <1>1, <1>3, <1>6, <1>7 DEF Answered

(* Visiting an access puts its answer at the end of its list.               *)
LEMMA VisitKeepsAnswered ==
    ASSUME Answered, Visiting, access.isGep,
           NEW x \in Int, x = Answer(access, env),
           lists' = [lists EXCEPT ![ListOf(access)] = Append(@, x)],
           at' = at + 1, UNCHANGED <<kernel, env>>
    PROVE  Answered'
<1> DEFINE own == ListOf(access)
<1>1. /\ kernel \in Kernels /\ env \in Environments(Spaces) /\ at \in Nat \ {0}
      /\ lists \in [Lists -> Seq(Int)]
      /\ \A l \in Lists : /\ Len(lists[l]) = Cardinality(ListedIn(l))
                         /\ \A n \in ListedIn(l) : Entry(n, l) = Answer(kernel[n], env)
  BY DEF Answered
<1>2. /\ DOMAIN kernel = 1..Len(kernel) /\ Len(kernel) \in Nat
      /\ at \in DOMAIN kernel /\ IsAccess(access)
  BY <1>1, KernelsAssumption DEF Visiting, access
<1>3. own \in Lists
  BY <1>2 DEF ListOf, Lists, IsAccess
<1>4. ASSUME NEW l \in Lists PROVE ListedIn(l)' = IF l = own THEN ListedIn(l) \cup {at} ELSE ListedIn(l)
  <2>1. l = own <=> /\ (access.space = "local") = l.local
                    /\ access.isLoad = l.isLoad /\ access.isInLoop = l.isInLoop
    BY <1>2 DEF ListOf, Lists, IsAccess
  <2>2. \A n \in DOMAIN kernel : n < at + 1 <=> n < at \/ n = at
    BY <1>1, <1>2
  <2> HIDE DEF own
  <2>3. ASSUME NEW n
        PROVE  n \in ListedIn(l)' <=> n \in (IF l = own THEN ListedIn(l) \cup {at} ELSE ListedIn(l))
    <3>1. n \in ListedIn(l)' <=>
             /\ n \in DOMAIN kernel /\ n < at + 1 /\ kernel[n].isGep
             /\ (kernel[n].space = "local") = l.local
             /\ kernel[n].isLoad = l.isLoad /\ kernel[n].isInLoop = l.isInLoop
      BY DEF ListedIn
    <3>2. n \in ListedIn(l) <=>
             /\ n \in DOMAIN kernel /\ n < at /\ kernel[n].isGep
             /\ (kernel[n].space = "local") = l.local
             /\ kernel[n].isLoad = l.isLoad /\ kernel[n].isInLoop = l.isInLoop
      BY DEF ListedIn
    <3>3. CASE n = at
      <4>1. n \in ListedIn(l)' <=> l = own
        BY <1>2, <2>1, <2>2, <3>1, <3>3 DEF access
      <4>2. n \notin ListedIn(l)
        BY <1>1, <3>2, <3>3
      <4> QED
        BY <3>3, <4>1, <4>2
    <3>4. CASE n # at
      BY <2>2, <3>1, <3>2, <3>4
    <3> QED
      BY <3>3, <3>4
  <2> HIDE DEF ListedIn
  <2> QED
    BY <2>3
<1>5. /\ lists' \in [Lists -> Seq(Int)]
      /\ \A l \in Lists : lists'[l] = IF l = own THEN Append(lists[l], x) ELSE lists[l]
  <2>1. Append(lists[own], x) \in Seq(Int)
    BY <1>1, <1>3
  <2> HIDE DEF own
  <2>2. lists' = [lists EXCEPT ![own] = Append(@, x)]
    BY DEF own
  <2> QED
    BY <1>1, <1>3, <2>1, <2>2
<1>6. ASSUME NEW l \in Lists
      PROVE  /\ Len(lists'[l]) = Cardinality(ListedIn(l)')
             /\ \A n \in ListedIn(l)' : Entry(n, l)' = Answer(kernel[n], env)
  <2> DEFINE S == ListedIn(l)
             s == lists[l]
  <2>1. S \subseteq 1..(at - 1) /\ at \in Nat \ {0}
    BY <1>1, ListedBefore
  <2>2. /\ s \in Seq(Int) /\ Len(s) = Cardinality(S)
        /\ \A n \in S : s[Cardinality(UpTo(S, n))] = Answer(kernel[n], env)
    BY <1>1 DEF Entry, UpTo
  <2>3. \A n : Entry(n, l)' = lists'[l][Cardinality(UpTo(ListedIn(l)', n))]
    BY DEF Entry, UpTo
  <2>4. CASE l # own
    <3>1. lists'[l] = s /\ ListedIn(l)' = S
      BY <1>4, <1>5, <2>4
    <3> HIDE DEF own, S, s
    <3> QED
      BY <2>2, <2>3, <3>1
  <2>5. CASE l = own
    <3>1. lists'[l] = Append(s, x) /\ ListedIn(l)' = S \cup {at}
      BY <1>4, <1>5, <2>5
    <3>2. x = Answer(kernel[at], env)
      BY DEF access
    <3> HIDE DEF own, S, s
    <3>3. /\ Cardinality(S) \in Nat /\ Cardinality(S \cup {at}) = Cardinality(S) + 1
          /\ UpTo(S \cup {at}, at) = S \cup {at}
          /\ \A n \in S : /\ UpTo(S \cup {at}, n) = UpTo(S, n)
                           /\ Cardinality(UpTo(S, n)) \in 1..Cardinality(S)
      BY ONLY <2>1, Listing
    <3>4. /\ Len(Append(s, x)) = Len(s) + 1 /\ Append(s, x)[Len(s) + 1] = x
          /\ \A i \in 1..Len(s) : Append(s, x)[i] = s[i]
      BY <2>2
    <3>5. ASSUME NEW n \in S \cup {at}
          PROVE  Append(s, x)[Cardinality(UpTo(S \cup {at}, n))] = Answer(kernel[n], env)
      <4>1. CASE n \in S
        BY <2>2, <3>3, <3>4, <4>1
      <4>2. CASE n = at
        BY <2>2, <3>2, <3>3, <3>4, <4>2
      <4> QED
        BY <4>1, <4>2
    <3>6. Len(Append(s, x)) = Cardinality(S \cup {at})
      BY <2>2, <3>3, <3>4
    <3> QED
      BY <2>3, <3>1, <3>5, <3>6
  <2> QED
    BY <2>4, <2>5
<1>7. at' \in Nat \ {0} /\ kernel' = kernel /\ env' = env
  BY <1>1
<1> HIDE DEF own
<1> QED
  BY <1>1, <1>5, <1>6, <1>7 DEF Answered

LEMMA StayKeepsAnswered ==
    ASSUME Answered, UNCHANGED <<kernel, env, at, lists>>
    PROVE  Answered'
BY DEF Answered, ListedIn, Entry

LEMMA PassOverKeepsAnswered ==
    ASSUME Answered, PassOver
    PROVE  Answered'
<1>1. /\ kernel \in Kernels /\ env \in Environments(Spaces) /\ at \in Nat \ {0}
      /\ lists \in [Lists -> Seq(Int)]
      /\ \A l \in Lists : /\ Len(lists[l]) = Cardinality(ListedIn(l))
                         /\ \A n \in ListedIn(l) : Entry(n, l) = Answer(kernel[n], env)
  BY DEF Answered
<1>2. at' = at + 1 /\ kernel' = kernel /\ env' = env /\ lists' = lists /\ ~kernel[at].isGep
  BY DEF PassOver, access
<1>3. DOMAIN kernel = 1..Len(kernel) /\ Len(kernel) \in Nat
  BY <1>1, KernelsAssumption
<1>4. ASSUME NEW l PROVE ListedIn(l)' = ListedIn(l)
  <2>1. \A n \in DOMAIN kernel : n < at + 1 <=> n < at \/ n = at
    BY <1>1, <1>3
  <2>2. \A n \in DOMAIN kernel : kernel[n].isGep => (n < at + 1 <=> n < at)
    BY <1>2, <2>1
  <2> QED
    BY <1>2, <2>2 DEF ListedIn
<1>5. \A l : \A n : Entry(n, l)' = Entry(n, l)
  BY <1>2, <1>4 DEF Entry
<1>6. at' \in Nat \ {0}
  BY <1>1, <1>2
<1> QED
  BY <1>1, <1>2, <1>4, <1>5, <1>6 DEF Answered

LEMMA NextKeepsAnswered ==
    ASSUME Answered, [Next]_vars
    PROVE  Answered'
<1>1. CASE visitMemoryInst
  <2> DEFINE x == TransactionNumber(access, env)
  <2>1. /\ Visiting /\ access.isGep /\ access.space # "local"
        /\ lists' = [lists EXCEPT ![ListOf(access)] = Append(@, x)]
        /\ at' = at + 1 /\ UNCHANGED <<kernel, env>>
    BY <1>1 DEF visitMemoryInst
  <2>2. x \in Int /\ x = Answer(access, env)
    BY <2>1, AnswerIsNumber DEF Answer
  <2> HIDE DEF x
  <2> QED
    BY <2>1, <2>2, VisitKeepsAnswered
<1>2. CASE visitLocalMemoryInst
  <2> DEFINE x == BankConflictNumber(access, env)
  <2>1. /\ Visiting /\ access.isGep /\ access.space = "local"
        /\ lists' = [lists EXCEPT ![ListOf(access)] = Append(@, x)]
        /\ at' = at + 1 /\ UNCHANGED <<kernel, env>>
    BY <1>2 DEF visitLocalMemoryInst
  <2>2. x \in Int /\ x = Answer(access, env)
    BY <2>1, AnswerIsNumber DEF Answer
  <2> HIDE DEF x
  <2> QED
    BY <2>1, <2>2, VisitKeepsAnswered
<1>3. CASE Abort
  BY <1>3, StayKeepsAnswered DEF Abort
<1>4. CASE PassOver
  BY <1>4, PassOverKeepsAnswered
<1>5. CASE dump
  BY <1>5, StayKeepsAnswered DEF dump
<1>6. CASE UNCHANGED vars
  BY <1>6, StayKeepsAnswered DEF vars
<1> QED
  BY <1>1, <1>2, <1>3, <1>4, <1>5, <1>6 DEF Next, Terminated

LEMMA AnsweredInTurn ==
    ASSUME Answered
    PROVE  TransactionsAreLines /\ ConflictsAreSeen /\ ConsecutiveAsTried
<1>1. /\ kernel \in Kernels /\ IsEnvironment(env)
      /\ \A l \in Lists : /\ Len(lists[l]) = Cardinality(ListedIn(l))
                         /\ \A n \in ListedIn(l) : Entry(n, l) = Answer(kernel[n], env)
  BY SpacesAssumption DEF Answered, Environments, IsEnvironment, IsSpace
<1>2. \A n \in DOMAIN kernel : IsAccess(kernel[n])
  BY <1>1, KernelsAssumption
<1>3. TransactionsAreLines
  <2> SUFFICES ASSUME NEW l \in Lists, ~l.local, NEW n \in ListedIn(l), IsPlain(n)
               PROVE  LET lines == Cardinality(Lines(kernel[n], env.space))
                      IN  IF Cardinality(Threads(env.space)) = WARP_SIZE /\ kernel[n].base # "instruction"
                          THEN Entry(n, l) = lines
                          ELSE Entry(n, l) >= lines
    BY <1>1 DEF TransactionsAreLines
  <2>1. IsAccess(kernel[n]) /\ kernel[n].space # "local"
    BY <1>2 DEF ListedIn
  <2>2. Entry(n, l) = TransactionNumber(kernel[n], env)
    BY <1>1, <2>1 DEF Answer
  <2>3. Plain(kernel[n], Threads(env.space), env.space)
    BY DEF IsPlain
  <2> QED
    BY <1>1, <2>1, <2>2, <2>3, TransactionsOfWarp
<1>4. ConflictsAreSeen
  <2> SUFFICES ASSUME NEW l \in Lists, l.local, NEW n \in ListedIn(l),
                      kernel[n].width = BANK_WIDTH, IsPlain(n), NEW w \in Words(kernel[n], env.space)
               PROVE  LET words == Words(kernel[n], env.space)
                      IN  Cardinality({v \in words : v % BANK_NUMBER = w % BANK_NUMBER}) - 1 <= Entry(n, l)
    BY <1>1 DEF ConflictsAreSeen
  <2>1. IsAccess(kernel[n]) /\ kernel[n].space = "local"
    BY <1>2 DEF ListedIn
  <2>2. Entry(n, l) = BankConflictNumber(kernel[n], env)
    BY <1>1, <2>1 DEF Answer
  <2>3. Plain(kernel[n], Threads(env.space), env.space)
    BY DEF IsPlain
  <2> QED
    BY <1>1, <2>1, <2>2, <2>3, ConflictsOfWarp
<1>5. ConsecutiveAsTried
  <2> SUFFICES ASSUME Visiting, PointeeWidth(access) = access.width, NEW d \in Directions,
                      Plain(access, {Tried(d, i) : i \in 0..(TEST_NUMBER - 1)}, env.space)
               PROVE  isConsecutive(access, d, env) <=>
                         /\ access.isGep
                         /\ \A i \in 0..(TEST_NUMBER - 2) : Value(access.subscript, Tried(d, i + 1), env.space)
                                                            = Value(access.subscript, Tried(d, i), env.space) + 1
    BY DEF ConsecutiveAsTried
  <2>1. IsAccess(access)
    BY <1>2 DEF Visiting, access
  <2> QED
    BY <1>1, <2>1, ConsecutiveMeans
<1> QED
  BY <1>3, <1>4, <1>5

LEMMA AlwaysAnswered == Spec => []Answered
<1>1. Init => Answered
  BY InitAnswered
<1>2. Answered /\ [Next]_vars => Answered'
  BY NextKeepsAnswered
<1> QED
  BY <1>1, <1>2, PTL DEF Spec

(* Each load or store outside of local memory that visitMemoryInst has seen *)
(* has its entry, in order, and the entry is the number of cache lines that *)
(* the warp's threads touch, or no less when they are fewer than a warp or  *)
(* an instruction computes the base.                                        *)
THEOREM TransactionsAreCounted == Spec => []TransactionsAreLines
<1>1. Answered => TransactionsAreLines
  BY AnsweredInTurn
<1> QED
  BY <1>1, AlwaysAnswered, PTL

(* Each one in local memory that visitLocalMemoryInst has seen has its      *)
(* entry, in order, and that misses no two words in one bank.               *)
THEOREM ConflictsAreCounted == Spec => []ConflictsAreSeen
<1>1. Answered => ConflictsAreSeen
  BY AnsweredInTurn
<1> QED
  BY <1>1, AlwaysAnswered, PTL

(* isConsecutive, which decides whether the vectorizer makes one access of  *)
(* those of neighbouring threads, answers as the threads it tries would.    *)
THEOREM ConsecutiveIsAnswered == Spec => []ConsecutiveAsTried
<1>1. Answered => ConsecutiveAsTried
  BY AnsweredInTurn
<1> QED
  BY <1>1, AlwaysAnswered, PTL
=============================================================================
