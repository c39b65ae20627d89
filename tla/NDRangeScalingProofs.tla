------------------------- MODULE NDRangeScalingProofs -------------------------
(****************************************************************************)
(* Proofs about the scaling of work-item calls, for every kernel, launch,   *)
(* factor, stride and order of the calls. First what module NDRangeScaling  *)
(* is built from. The formula of scaleIds never gives two copies the same   *)
(* original id, gives every original id to some copy, and treats global and *)
(* local ids alike when the blocks of factor * stride ids tile each group;  *)
(* computed in words it is the formula, wrapped once. The passes' edits of  *)
(* the code put the new instructions where they say, and leave code that    *)
(* defines each operand before its uses; such code is evaluated in one pass.*)
(* Then its specification: an inductive invariant that says what the code,  *)
(* the lists of calls and the map are when a set of calls has been scaled,  *)
(* and from it the three properties of the runs.                            *)
(****************************************************************************)
EXTENDS NDRangeScaling, Closures, SequenceTheorems

(* The options of the pass: what OrigTid needs to know of a launch.         *)
Positive(x) == x.factor \in Nat \ {0} /\ x.stride \in Nat \ {0}

(* The threads a new thread stands for are numbered.                        *)
Subids(x) == 0..(x.factor - 1)

----------------------------------------------------------------------------
(* A number is below a multiple of the divisor exactly when its quotient is *)
(* below that multiple's.                                                   *)
LEMMA DivBelow ==
    ASSUME NEW d \in Nat \ {0}, NEW q \in Nat, NEW r \in 0..(d - 1), NEW b \in Nat
    PROVE  d * q + r < d * b <=> q < b
<1>1. d * q \in Nat /\ d * b \in Nat
  BY SMT
<1>2. ASSUME q < b PROVE d * q + r < d * b
  <2>1. q + 1 <= b
    BY <1>2
  <2>2. d * (q + 1) <= d * b
    BY <2>1, SMT
  <2>3. d * (q + 1) = d * q + d
    BY SMT
  <2> QED
    BY <1>1, <2>2, <2>3
<1>3. ASSUME b <= q PROVE d * b <= d * q
  BY <1>3, SMT
<1> QED
  BY <1>1, <1>2, <1>3

----------------------------------------------------------------------------
(* The formula, factored: the new id counts blocks of factor * stride ids,  *)
(* the subid the rows of a block, the remainder the columns.                *)
Row(x, n, k) == x.factor * (n \div x.stride) + k

(* The formula gives the row of the copy and leaves the column.             *)
LEMMA OrigTidFactored ==
    ASSUME NEW x, Positive(x), NEW n \in Nat, NEW k \in Subids(x)
    PROVE  /\ Row(x, n, k) \in Nat
           /\ n % x.stride \in 0..(x.stride - 1)
           /\ OrigTid(x, n, k) = x.stride * Row(x, n, k) + (n % x.stride)
<1> DEFINE q == n \div x.stride
           r == n % x.stride
           cf == x.factor
           st == x.stride
<1>1. cf \in Nat /\ st \in Nat /\ k \in Nat
  BY DEF Positive, Subids
<1>2. q \in Nat /\ r \in 0..(st - 1)
  BY DivMod DEF Positive
<1> HIDE DEF q, r, cf, st
<1>3. cf * q \in Nat
  BY <1>1, <1>2, SMT
<1>4. q * cf * st + r + k * st = st * (cf * q + k) + r
  BY <1>1, <1>2, SMT
<1> QED
  BY <1>1, <1>2, <1>3, <1>4 DEF q, r, cf, st, OrigTid, Row

(* The comment over scaleIds: two different copies (another new thread, or  *)
(* another subid) never stand for the same original thread.                 *)
THEOREM NoThreadTwice ==
    ASSUME NEW x, Positive(x),
           NEW n \in Nat, NEW k \in Subids(x), NEW m \in Nat, NEW l \in Subids(x),
           OrigTid(x, n, k) = OrigTid(x, m, l)
    PROVE  n = m /\ k = l
<1>1. Row(x, n, k) = Row(x, m, l) /\ n % x.stride = m % x.stride
  <2> DEFINE a == Row(x, n, k)
             r == n % x.stride
             b == Row(x, m, l)
             s == m % x.stride
             st == x.stride
  <2>1. a \in Nat /\ r \in 0..(st - 1) /\ OrigTid(x, n, k) = st * a + r
    BY OrigTidFactored
  <2>2. b \in Nat /\ s \in 0..(st - 1) /\ OrigTid(x, m, l) = st * b + s
    BY OrigTidFactored
  <2>3. st \in Nat \ {0}
    BY DEF Positive
  <2> HIDE DEF a, b, r, s, st
  <2>4. st * a + r = st * b + s
    BY <2>1, <2>2
  <2>5. a = b /\ r = s
    BY <2>1, <2>2, <2>3, <2>4, DivModUnique
  <2> QED
    BY <2>5 DEF a, b, r, s
<1>2. n \div x.stride \in Nat /\ m \div x.stride \in Nat
  BY DivMod DEF Positive
<1>3. n \div x.stride = m \div x.stride /\ k = l
  <2> DEFINE q == n \div x.stride
             p == m \div x.stride
             cf == x.factor
  <2>1. q \in Nat /\ p \in Nat /\ cf * q + k = cf * p + l
    BY <1>1, <1>2 DEF Row
  <2>2. cf \in Nat \ {0} /\ k \in 0..(cf - 1) /\ l \in 0..(cf - 1)
    BY DEF Positive, Subids
  <2> HIDE DEF q, p, cf
  <2>3. q = p /\ k = l
    BY <2>1, <2>2, DivModUnique
  <2> QED
    BY <2>3 DEF q, p
<1>4. n = x.stride * (n \div x.stride) + (n % x.stride)
  BY DivMod DEF Positive
<1>5. m = x.stride * (m \div x.stride) + (m % x.stride)
  BY DivMod DEF Positive
<1> QED
  BY <1>1, <1>3, <1>4, <1>5

(* Every original thread is some copy of some new thread: its row gives the *)
(* block and the subid, its column the place in the block.                  *)
THEOREM NoThreadLost ==
    ASSUME NEW x, Positive(x), NEW o \in Nat
    PROVE  \E n \in Nat, k \in Subids(x) : OrigTid(x, n, k) = o
<1> DEFINE st == x.stride
           cf == x.factor
           row == o \div st
           r == o % st
           q == row \div cf
           k == row % cf
           n == st * q + r
<1>1. st \in Nat \ {0} /\ cf \in Nat \ {0}
  BY DEF Positive
<1> HIDE DEF st, cf
<1>2. row \in Nat /\ r \in 0..(st - 1) /\ o = st * row + r
  BY <1>1, DivMod
<1> HIDE DEF row, r
<1>3. q \in Nat /\ k \in 0..(cf - 1) /\ row = cf * q + k
  BY <1>1, <1>2, DivMod
<1> HIDE DEF q, k
<1>4. st * q \in Nat
  BY <1>1, <1>3, SMT
<1>5. n \in Nat
  BY <1>2, <1>4
<1>6. n = st * q + r
  OBVIOUS
<1> HIDE DEF n
<1>7. n \div st \in Nat /\ n % st \in 0..(st - 1) /\ n = st * (n \div st) + (n % st)
  BY <1>1, <1>5, DivMod
<1>8. n \div st = q /\ n % st = r
  <2> DEFINE p == n \div st
             s == n % st
  <2>1. p \in Nat /\ s \in 0..(st - 1) /\ st * p + s = st * q + r
    BY <1>6, <1>7
  <2> HIDE DEF p, s
  <2>2. p = q /\ s = r
    BY <1>1, <1>2, <1>3, <2>1, DivModUnique
  <2> QED
    BY <2>2 DEF p, s
<1>9. k \in Subids(x)
  BY <1>3 DEF Subids, cf
<1>10. Row(x, n, k) = row
  BY <1>3, <1>8 DEF Row, st, cf
<1>11. OrigTid(x, n, k) = x.stride * Row(x, n, k) + (n % x.stride)
  BY <1>5, <1>9, OrigTidFactored
<1>12. OrigTid(x, n, k) = o
  BY <1>2, <1>8, <1>10, <1>11 DEF st
<1> QED
  BY <1>5, <1>9, <1>12

(* Where the blocks of factor * stride ids tile a range, the new threads of *)
(* the shrunk range stand for the threads of that range and for no others:  *)
(* no copy of a new thread in it reaches beyond it.                         *)
THEOREM CopiesStayInRange ==
    ASSUME NEW x, Positive(x), NEW n \in Nat, NEW k \in Subids(x), NEW blocks \in Nat
    PROVE  OrigTid(x, n, k) < x.stride * (x.factor * blocks) <=> n < x.stride * blocks
<1> DEFINE st == x.stride
           cf == x.factor
           q == n \div st
           r == n % st
           row == Row(x, n, k)
<1>1. st \in Nat \ {0} /\ cf \in Nat \ {0}
  BY DEF Positive
<1>2. row \in Nat /\ r \in 0..(st - 1) /\ OrigTid(x, n, k) = st * row + r
  BY OrigTidFactored
<1>3. row = cf * q + k /\ k \in 0..(cf - 1)
  BY DEF Row, Subids
<1> HIDE DEF st, cf, row
<1>4. q \in Nat /\ n = st * q + r
  BY <1>1, DivMod
<1> HIDE DEF q, r
<1>5. cf * blocks \in Nat
  BY <1>1, SMT
<1>6. st * row + r < st * (cf * blocks) <=> row < cf * blocks
  BY <1>1, <1>2, <1>5, DivBelow
<1>7. cf * q + k < cf * blocks <=> q < blocks
  BY <1>1, <1>3, <1>4, DivBelow
<1>8. st * q + r < st * blocks <=> q < blocks
  BY <1>1, <1>2, <1>4, DivBelow
<1> QED
  BY <1>2, <1>3, <1>4, <1>6, <1>7, <1>8 DEF st, cf

(* Global and local ids agree: a group that starts after so many blocks     *)
(* shifts the id a copy stands for by just those blocks, so that the copy   *)
(* of a local id belongs to the same original thread as that of the global. *)
THEOREM GroupsAgree ==
    ASSUME NEW x, Positive(x), NEW n \in Nat, NEW k \in Subids(x), NEW blocks \in Nat
    PROVE  OrigTid(x, x.stride * blocks + n, k)
              = x.stride * (x.factor * blocks) + OrigTid(x, n, k)
<1> DEFINE st == x.stride
           cf == x.factor
           q == n \div st
           r == n % st
           m == st * blocks + n
<1>1. st \in Nat \ {0} /\ cf \in Nat \ {0} /\ k \in Nat
  BY DEF Positive, Subids
<1> HIDE DEF st, cf
<1>2. q \in Nat /\ r \in 0..(st - 1) /\ n = st * q + r
  BY <1>1, DivMod
<1>3. st * blocks \in Nat
  BY <1>1, SMT
<1>4. m \in Nat
  BY <1>3
<1>5. m = st * (q + blocks) + r
  <2> HIDE DEF q, r
  <2>1. st * (q + blocks) = st * q + st * blocks
    BY <1>1, <1>2, SMT
  <2>2. st * q \in Nat
    BY <1>1, <1>2, SMT
  <2> QED
    BY <1>2, <1>3, <2>1, <2>2
<1> HIDE DEF m
<1>6. m \div st = q + blocks /\ m % st = r
  <2> DEFINE p == m \div st
             s == m % st
  <2>1. p \in Nat /\ s \in 0..(st - 1) /\ m = st * p + s
    BY <1>1, <1>4, DivMod
  <2> HIDE DEF p, s, q, r
  <2>2. st * p + s = st * (q + blocks) + r /\ q + blocks \in Nat
    BY <1>2, <1>5, <2>1
  <2>3. p = q + blocks /\ s = r
    BY <1>1, <1>2, <2>1, <2>2, DivModUnique
  <2> QED
    BY <2>3 DEF p, s
<1>7. OrigTid(x, m, k) = (q + blocks) * cf * st + r + k * st
  BY <1>6 DEF OrigTid, st, cf
<1>8. OrigTid(x, n, k) = q * cf * st + r + k * st
  BY DEF OrigTid, st, cf
<1> HIDE DEF q, r
<1>9. (q + blocks) * cf * st = st * (cf * blocks) + q * cf * st
  BY <1>1, <1>2, SMT
<1>10. /\ q * cf * st \in Nat /\ k * st \in Nat /\ st * (cf * blocks) \in Nat
  BY <1>1, <1>2, SMT
<1> QED
  BY <1>2, <1>7, <1>8, <1>9, <1>10 DEF m, st, cf

(* An id of the original launch is no more than one group's, or the range's.*)
LEMMA IdBelow ==
    ASSUME NEW g \in Nat, NEW n \in Nat, NEW i \in 0..(g - 1), NEW j \in 0..(n - 1)
    PROVE  i * n + j \in Nat /\ i * n + j < g * n /\ i * n \in Nat /\ g * n \in Nat
<1>1. i \in Nat /\ i + 1 <= g /\ j \in Nat
  OBVIOUS
<1>2. (i + 1) * n <= g * n /\ (i + 1) * n = i * n + n /\ i * n \in Nat /\ g * n \in Nat
  BY <1>1, SMT
<1> QED
  BY <1>1, <1>2

(* The formula gives numbers. *)
LEMMA OrigTidIsNumber ==
    ASSUME NEW x, Positive(x), NEW n \in Nat, NEW k \in Subids(x)
    PROVE  OrigTid(x, n, k) \in Nat
<1> DEFINE r == n % x.stride
           w == Row(x, n, k)
           st == x.stride
<1>1. w \in Nat /\ r \in 0..(st - 1) /\ OrigTid(x, n, k) = st * w + r /\ st \in Nat \ {0}
  BY OrigTidFactored DEF Positive
<1> HIDE DEF r, w, st
<1>2. st * w \in Nat
  BY <1>1, SMT
<1> QED
  BY <1>1, <1>2

----------------------------------------------------------------------------
(* Arithmetic of words. *)

(* Wrapping first changes no sum.                                           *)
LEMMA ModAdd ==
    ASSUME NEW w \in Nat \ {0}, NEW a \in Nat, NEW b \in Nat
    PROVE  ((a % w) + b) % w = (a + b) % w
<1> DEFINE p == a \div w
           s == a % w
           q == (s + b) \div w
           r == (s + b) % w
           o == (a + b) \div w
           m == (a + b) % w
<1>1. p \in Nat /\ s \in 0..(w - 1) /\ a = w * p + s
  BY DivMod
<1>2. q \in Nat /\ r \in 0..(w - 1) /\ s + b = w * q + r
  <2>1. s + b \in Nat
    BY <1>1
  <2> HIDE DEF s
  <2> QED
    BY <2>1, DivMod
<1>3. o \in Nat /\ m \in 0..(w - 1) /\ a + b = w * o + m
  <2>1. a + b \in Nat
    OBVIOUS
  <2> QED
    BY <2>1, DivMod
<1> HIDE DEF p, s, q, r, o, m
<1>4. w * (p + q) = w * p + w * q
  BY <1>1, <1>2, SMT
<1>5. w * p \in Nat /\ w * q \in Nat
  BY <1>1, <1>2, SMT
<1>6. w * (p + q) + r = w * o + m /\ p + q \in Nat
  BY <1>1, <1>2, <1>3, <1>4, <1>5
<1>7. r = m
  BY SMTT(20), <1>2, <1>3, <1>6, DivModUnique
<1> QED
  BY <1>7 DEF r, m, s

(* The base and the copies of scaleIds, computed word by word, are the      *)
(* comment's formula, wrapped once.                                         *)
LEMMA CopiesCompute ==
    ASSUME NEW x, Positive(x), NEW a \in Nat, NEW k \in Nat, NEW w \in Nat \ {0}
    PROVE  LET base == ((((a \div x.stride) * (x.factor * x.stride)) % w) + (a % x.stride)) % w
           IN  /\ base = OrigTid(x, a, 0) % w
               /\ (base + k * x.stride) % w = OrigTid(x, a, k) % w
<1> DEFINE q == a \div x.stride
           r == a % x.stride
           cf == x.factor
           st == x.stride
           p == q * (cf * st)
           base == ((p % w) + r) % w
<1>1. cf \in Nat \ {0} /\ st \in Nat \ {0}
  BY DEF Positive
<1>2. q \in Nat /\ r \in 0..(st - 1)
  BY <1>1, DivMod
<1>3. /\ OrigTid(x, a, 0) = q * cf * st + r + 0 * st
      /\ OrigTid(x, a, k) = q * cf * st + r + k * st
  BY DEF OrigTid
<1> HIDE DEF q, r, cf, st
<1>4. /\ q * cf * st = p /\ p \in Nat /\ k * st \in Nat /\ 0 * st = 0 /\ r \in Nat
  <2>1. q * cf * st = q * (cf * st) /\ q * (cf * st) \in Nat
    BY <1>1, <1>2, SMT
  <2>2. k * st \in Nat /\ 0 * st = 0
    BY <1>1, SMT
  <2> QED
    BY <1>1, <1>2, <2>1, <2>2
<1> DEFINE o == k * st
<1>5. OrigTid(x, a, 0) = p + r /\ OrigTid(x, a, k) = (p + r) + o /\ o \in Nat
  BY <1>3, <1>4
<1> HIDE DEF p, o
<1>6. base = (p + r) % w
  BY <1>4, ModAdd
<1>7. (((p + r) % w) + o) % w = ((p + r) + o) % w
  <2>1. p + r \in Nat
    BY <1>4
  <2> QED
    BY <1>5, <2>1, ModAdd
<1>8. base = OrigTid(x, a, 0) % w /\ (base + o) % w = OrigTid(x, a, k) % w
  BY <1>5, <1>6, <1>7
<1> HIDE DEF base
<1> QED
  BY <1>8 DEF base, p, q, r, cf, st, o

(* So are the lanes of widenTid, whose stride is one.                       *)
LEMMA LanesCompute ==
    ASSUME NEW x, Positive(x), x.stride = 1, NEW a \in Nat, NEW k \in Nat, NEW w \in Nat \ {0}
    PROVE  (((a * x.factor) % w) + k) % w = OrigTid(x, a, k) % w
<1>1. x.factor \in Nat
  BY DEF Positive
<1>2. a * x.factor \in Nat
  BY <1>1, SMT
<1>3. OrigTid(x, a, k) = a * x.factor + k
  <2>1. a \div 1 = a /\ a % 1 = 0
    BY SMT
  <2>2. OrigTid(x, a, k) = a * x.factor * 1 + 0 + k * 1
    BY <2>1 DEF OrigTid
  <2>3. a * x.factor * 1 = a * x.factor /\ k * 1 = k
    BY <1>1, SMT
  <2> QED
    BY <1>2, <2>2, <2>3
<1> QED
  BY <1>2, <1>3, ModAdd

----------------------------------------------------------------------------
(* Code: its instructions and their order. *)

(* What instructions define, and the instructions.                          *)
Results == (DOMAIN Calls) \X {"call", "use", "mul", "div", "modulo", "base", "add"} \X Nat

(* The operations of the instructions.                                      *)
Operations == {"call", "use", "udiv", "urem", "mul", "add"}

(* The instructions there can be.                                           *)
Instrs == [def : Results, op : Operations, args : Seq(Results), const : Nat]

(* The instructions of code c, whatever their order.                        *)
Body(c) == {c[n] : n \in DOMAIN c}

(* In code c, a is defined before b.                                        *)
Prec(c, a, b) == \E m, n \in DOMAIN c : m < n /\ c[m].def = a /\ c[n].def = b

(* Code: no two of its instructions define the same.                        *)
IsCode(c) ==
    /\ c \in Seq(Instrs)
    /\ \A m, n \in DOMAIN c : c[m].def = c[n].def => m = n

(* The operands of an instruction.                                          *)
Reads(i) == {i.args[m] : m \in DOMAIN i.args}

(* Each operand of each instruction is defined before it: DefinedBeforeUse, *)
(* said of instructions rather than of places.                              *)
OperandsFirst(c) == \A i \in Body(c) : \A a \in Reads(i) : Prec(c, a, i.def)

----------------------------------------------------------------------------
(* The places of instructions. *)

(* The place of what an instruction defines is the instruction's own.       *)
LEMMA PlaceOf ==
    ASSUME NEW c, IsCode(c), NEW n \in DOMAIN c
    PROVE  /\ At(c, c[n].def) = n
           /\ Len(c) \in Nat /\ DOMAIN c = 1..Len(c)
           /\ c[n] \in Instrs
<1>1. Len(c) \in Nat /\ DOMAIN c = 1..Len(c) /\ c[n] \in Instrs
  BY DEF IsCode
<1>2. \A m \in DOMAIN c : c[m].def = c[n].def <=> m = n
  BY DEF IsCode
<1> QED
  BY <1>1, <1>2 DEF At

(* What the code defines has a place.                                       *)
LEMMA Placed ==
    ASSUME NEW c, IsCode(c), NEW d \in Defs(c)
    PROVE  At(c, d) \in DOMAIN c /\ c[At(c, d)].def = d
<1>1. PICK n \in DOMAIN c : c[n].def = d
  BY DEF Defs
<1> QED
  BY <1>1, PlaceOf

(* Where insertAfter puts things.                                           *)
LEMMA InsertedAt ==
    ASSUME NEW c, IsCode(c), NEW p \in DOMAIN c, NEW i \in Instrs,
           NEW e, e = InsertAfter(c, c[p].def, i)
    PROVE  /\ e \in Seq(Instrs)
           /\ DOMAIN e = 1..(Len(c) + 1)
           /\ \A n \in 1..p : e[n] = c[n]
           /\ e[p + 1] = i
           /\ \A n \in (p + 1)..Len(c) : e[n + 1] = c[n]
<1> DEFINE s == SubSeq(c, 1, p)
           t == SubSeq(c, p + 1, Len(c))
<1>1. Len(c) \in Nat /\ DOMAIN c = 1..Len(c) /\ p \in 1..Len(c) /\ At(c, c[p].def) = p
  BY PlaceOf
<1>2. \A n \in 1..Len(c) : c[n] \in Instrs
  BY <1>1, PlaceOf
<1>3. s \in Seq(Instrs) /\ Len(s) = p /\ \A n \in 1..p : s[n] = c[n]
  <2>1. \A n \in 1..p : c[n] \in Instrs
    BY <1>1, <1>2
  <2>2. /\ s \in Seq(Instrs)
        /\ Len(s) = IF 1 <= p THEN p - 1 + 1 ELSE 0
        /\ \A n \in 1..(p - 1 + 1) : s[n] = c[1 + n - 1]
    <3> HIDE DEF s
    <3>1. 1 \in Int /\ p \in Int
      BY <1>1
    <3> QED
      BY <2>1, <3>1, SubSeqProperties DEF s
  <2> HIDE DEF s
  <2> QED
    BY <1>1, <2>2
<1>4. /\ t \in Seq(Instrs) /\ Len(t) = Len(c) - p
      /\ \A n \in 1..(Len(c) - p) : t[n] = c[p + n]
  <2>1. \A n \in (p + 1)..Len(c) : c[n] \in Instrs
    BY <1>1, <1>2
  <2>2. /\ t \in Seq(Instrs)
        /\ Len(t) = IF p + 1 <= Len(c) THEN Len(c) - (p + 1) + 1 ELSE 0
        /\ \A n \in 1..(Len(c) - (p + 1) + 1) : t[n] = c[(p + 1) + n - 1]
    <3> HIDE DEF t
    <3>1. p + 1 \in Int /\ Len(c) \in Int
      BY <1>1
    <3> QED
      BY SMTT(20), <2>1, <3>1, SubSeqProperties DEF t
  <2> HIDE DEF t
  <2>3. \A n \in 1..(Len(c) - p) : n \in 1..(Len(c) - (p + 1) + 1) /\ (p + 1) + n - 1 = p + n
    BY <1>1
  <2> QED
    BY SMTT(20), <1>1, <2>2, <2>3
<1>5. e = (s \o <<i>>) \o t
  BY <1>1 DEF InsertAfter
<1> HIDE DEF s, t
<1> DEFINE u == s \o <<i>>
<1>5a. e = u \o t
  BY <1>5
<1>6. /\ u \in Seq(Instrs) /\ Len(u) = p + 1
      /\ u[p + 1] = i /\ \A n \in 1..p : u[n] = c[n]
  <2>1. <<i>> \in Seq(Instrs) /\ Len(<<i>>) = 1 /\ <<i>>[1] = i
    OBVIOUS
  <2>2. /\ u \in Seq(Instrs)
        /\ Len(u) = Len(s) + Len(<<i>>)
        /\ \A n \in 1..(Len(s) + Len(<<i>>)) : u[n] = IF n <= Len(s) THEN s[n] ELSE <<i>>[n - Len(s)]
    BY <1>3, <2>1, ConcatProperties
  <2> HIDE DEF u
  <2> QED
    BY <1>1, <1>3, <2>1, <2>2
<1>7. /\ e \in Seq(Instrs)
      /\ Len(e) = Len(c) + 1
      /\ \A n \in 1..(Len(c) + 1) : e[n] = IF n <= p + 1 THEN u[n] ELSE t[n - (p + 1)]
  <2> HIDE DEF u
  <2>1. /\ u \o t \in Seq(Instrs)
        /\ Len(u \o t) = Len(u) + Len(t)
        /\ \A n \in 1..(Len(u) + Len(t)) :
              (u \o t)[n] = IF n <= Len(u) THEN u[n] ELSE t[n - Len(u)]
    BY <1>4, <1>6, ConcatProperties
  <2>2. Len(u) + Len(t) = Len(c) + 1
    BY <1>1, <1>4, <1>6
  <2> QED
    BY <1>5a, <1>6, <2>1, <2>2
<1> HIDE DEF u
<1>8. DOMAIN e = 1..(Len(c) + 1)
  BY <1>7
<1>9. \A n \in 1..p : e[n] = c[n]
  <2> SUFFICES ASSUME NEW n \in 1..p PROVE e[n] = c[n]
    OBVIOUS
  <2>1. n \in 1..(Len(c) + 1) /\ n <= p + 1
    BY <1>1
  <2> QED
    BY <1>6, <1>7, <2>1
<1>10. e[p + 1] = i
  <2>1. p + 1 \in 1..(Len(c) + 1) /\ p + 1 <= p + 1
    BY <1>1
  <2> QED
    BY <1>6, <1>7, <2>1
<1>11. ASSUME NEW n \in (p + 1)..Len(c) PROVE e[n + 1] = c[n]
  <2>1. e[n + 1] = t[(n + 1) - (p + 1)]
    <3>1. n + 1 \in 1..(Len(c) + 1) /\ ~(n + 1 <= p + 1)
      BY <1>1
    <3> QED
      BY <1>7, <3>1
  <2>2. (n + 1) - (p + 1) = n - p /\ n - p \in 1..(Len(c) - p) /\ p + (n - p) = n
    BY <1>1
  <2> QED
    BY <1>4, <2>1, <2>2
<1> QED
  BY <1>7, <1>8, <1>9, <1>10, <1>11

(* What an insertion leaves and adds: the new instruction stands right      *)
(* after d, so before all that came after d and after all that came before. *)
LEMMA Inserted ==
    ASSUME NEW c, IsCode(c), NEW d \in Defs(c), NEW i \in Instrs, i.def \notin Defs(c),
           NEW e, e = InsertAfter(c, d, i)
    PROVE  /\ IsCode(e)
           /\ Body(e) = Body(c) \cup {i}
           /\ Defs(e) = Defs(c) \cup {i.def}
           /\ \A a, b : Prec(c, a, b) => Prec(e, a, b)
           /\ Prec(e, d, i.def)
           /\ \A a : Prec(c, a, d) => Prec(e, a, i.def)
           /\ \A b : Prec(c, d, b) => Prec(e, i.def, b)
<1>1. PICK p \in DOMAIN c : c[p].def = d
  BY DEF Defs
<1>2. Len(c) \in Nat /\ DOMAIN c = 1..Len(c) /\ p \in 1..Len(c)
  BY PlaceOf
<1>3. /\ e \in Seq(Instrs)
      /\ DOMAIN e = 1..(Len(c) + 1)
      /\ \A n \in 1..p : e[n] = c[n]
      /\ e[p + 1] = i
      /\ \A n \in (p + 1)..Len(c) : e[n + 1] = c[n]
  BY <1>1, InsertedAt
<1> DEFINE New(n) == IF n <= p THEN n ELSE n + 1
<1>4. \A n \in DOMAIN c : New(n) \in DOMAIN e /\ New(n) # p + 1 /\ e[New(n)] = c[n]
  BY <1>2, <1>3
<1>5. \A m \in DOMAIN e : m # p + 1 => \E n \in DOMAIN c : m = New(n)
  <2> SUFFICES ASSUME NEW m \in DOMAIN e, m # p + 1 PROVE \E n \in DOMAIN c : m = New(n)
    OBVIOUS
  <2>1. CASE m <= p
    BY <1>2, <1>3, <2>1
  <2>2. CASE m > p + 1
    <3>1. m - 1 \in DOMAIN c /\ m = New(m - 1)
      BY <1>2, <1>3, <2>2
    <3> QED
      BY <3>1
  <2> QED
    BY <1>2, <1>3, <2>1, <2>2
<1>6. \A m, n \in DOMAIN c : m < n => New(m) < New(n)
  BY <1>2
<1>7. p + 1 \in DOMAIN e
  BY <1>2, <1>3
<1>8. \A n \in DOMAIN c : (n <= p => New(n) < p + 1) /\ (n > p => p + 1 < New(n))
  BY <1>2
<1> HIDE DEF New
<1>9. IsCode(e)
  <2>1. ASSUME NEW m \in DOMAIN e, NEW n \in DOMAIN e, e[m].def = e[n].def PROVE m = n
    <3>1. CASE m = p + 1 /\ n = p + 1
      BY <3>1
    <3>2. CASE m # p + 1 /\ n # p + 1
      <4>1. PICK k \in DOMAIN c : m = New(k)
        BY <1>5, <3>2
      <4>2. PICK l \in DOMAIN c : n = New(l)
        BY <1>5, <3>2
      <4>3. c[k].def = c[l].def
        BY <1>4, <2>1, <4>1, <4>2
      <4> QED
        BY <4>1, <4>2, <4>3 DEF IsCode
    <3>3. CASE m = p + 1 /\ n # p + 1
      <4>1. PICK l \in DOMAIN c : n = New(l)
        BY <1>5, <3>3
      <4>2. c[l].def = i.def
        BY <1>3, <1>4, <2>1, <3>3, <4>1
      <4> QED
        BY <4>2 DEF Defs
    <3>4. CASE m # p + 1 /\ n = p + 1
      <4>1. PICK l \in DOMAIN c : m = New(l)
        BY <1>5, <3>4
      <4>2. c[l].def = i.def
        BY <1>3, <1>4, <2>1, <3>4, <4>1
      <4> QED
        BY <4>2 DEF Defs
    <3> QED
      BY <3>1, <3>2, <3>3, <3>4
  <2> QED
    BY <1>3, <2>1 DEF IsCode
<1>10. Body(e) = Body(c) \cup {i}
  <2>1. ASSUME NEW m \in DOMAIN e PROVE e[m] \in Body(c) \cup {i}
    BY <1>3, <1>4, <1>5 DEF Body
  <2>2. ASSUME NEW n \in DOMAIN c PROVE c[n] \in Body(e)
    BY <1>4 DEF Body
  <2>3. i \in Body(e)
    BY <1>3, <1>7 DEF Body
  <2> QED
    BY <2>1, <2>2, <2>3 DEF Body
<1>11. Defs(e) = Defs(c) \cup {i.def}
  <2>1. \A f : Defs(f) = {j.def : j \in Body(f)}
    BY DEF Defs, Body
  <2> QED
    BY <1>10, <2>1
<1>12. ASSUME NEW a, NEW b, Prec(c, a, b) PROVE Prec(e, a, b)
  <2>1. PICK m \in DOMAIN c, n \in DOMAIN c : m < n /\ c[m].def = a /\ c[n].def = b
    BY <1>12 DEF Prec
  <2>2. New(m) < New(n) /\ e[New(m)].def = a /\ e[New(n)].def = b
    BY <1>4, <1>6, <2>1
  <2> QED
    BY <1>4, <2>2 DEF Prec
<1>13. ASSUME NEW n \in DOMAIN c, n <= p PROVE Prec(e, c[n].def, i.def)
  <2>1. New(n) < p + 1 /\ e[New(n)].def = c[n].def
    BY <1>4, <1>8, <1>13
  <2> QED
    BY <1>3, <1>4, <1>7, <2>1 DEF Prec
<1>14. Prec(e, d, i.def)
  BY <1>1, <1>2, <1>13
<1>15. ASSUME NEW a, Prec(c, a, d) PROVE Prec(e, a, i.def)
  <2>1. PICK m \in DOMAIN c, n \in DOMAIN c : m < n /\ c[m].def = a /\ c[n].def = d
    BY <1>15 DEF Prec
  <2>2. n = p
    BY <1>1, <2>1 DEF IsCode
  <2> QED
    BY <1>2, <1>13, <2>1, <2>2
<1>16. ASSUME NEW b, Prec(c, d, b) PROVE Prec(e, i.def, b)
  <2>1. PICK m \in DOMAIN c, n \in DOMAIN c : m < n /\ c[m].def = d /\ c[n].def = b
    BY <1>16 DEF Prec
  <2>2. m = p
    BY <1>1, <2>1 DEF IsCode
  <2>3. p + 1 < New(n) /\ e[New(n)].def = b
    BY <1>4, <1>8, <2>1, <2>2
  <2> QED
    BY <1>3, <1>4, <1>7, <2>3 DEF Prec
<1> QED
  BY <1>9, <1>10, <1>11, <1>12, <1>14, <1>15, <1>16

----------------------------------------------------------------------------
(* What a change of operands leaves. *)

(* Code whose instructions change, but not what they define, stays code in  *)
(* the same order.                                                          *)
LEMMA Rewritten ==
    ASSUME NEW c, IsCode(c), NEW e, e \in Seq(Instrs), DOMAIN e = DOMAIN c,
           \A n \in DOMAIN c : e[n].def = c[n].def
    PROVE  /\ IsCode(e)
           /\ Defs(e) = Defs(c)
           /\ \A a, b : Prec(e, a, b) <=> Prec(c, a, b)
<1>1. IsCode(e)
  BY DEF IsCode
<1>2. Defs(e) = Defs(c)
  BY DEF Defs
<1>3. \A a, b : Prec(e, a, b) <=> Prec(c, a, b)
  BY DEF Prec
<1> QED
  BY <1>1, <1>2, <1>3

(* What replaceUses makes of an instruction.                                *)
Moved(i, old, new) == IF i.def = new THEN i ELSE [i EXCEPT !.args = Renamed(@, old, new)]

(* Renaming keeps operands operands, and leaves those that are other ones.  *)
LEMMA RenamedArgs ==
    ASSUME NEW args \in Seq(Results), NEW old, NEW new \in Results
    PROVE  /\ Renamed(args, old, new) \in Seq(Results)
           /\ old \notin {args[m] : m \in DOMAIN args} => Renamed(args, old, new) = args
           /\ args = <<old>> => Renamed(args, old, new) = <<new>>
<1> DEFINE r == Renamed(args, old, new)
<1>1. Len(args) \in Nat /\ DOMAIN args = 1..Len(args) /\ \A n \in 1..Len(args) : args[n] \in Results
  OBVIOUS
<1>2. r = [n \in 1..Len(args) |-> IF args[n] = old THEN new ELSE args[n]]
  BY <1>1 DEF Renamed
<1>3. r \in [1..Len(args) -> Results]
  BY <1>1, <1>2
<1>4. r \in Seq(Results)
  BY <1>1, <1>3, SeqDef
<1>5. old \notin {args[m] : m \in DOMAIN args} => r = args
  <2> SUFFICES ASSUME old \notin {args[m] : m \in DOMAIN args} PROVE r = args
    OBVIOUS
  <2>1. \A n \in 1..Len(args) : r[n] = args[n]
    BY <1>1, <1>2
  <2>2. args \in [1..Len(args) -> Results]
    BY <1>1, LenProperties
  <2> HIDE DEF r
  <2> QED
    BY <1>3, <2>1, <2>2
<1>6. args = <<old>> => r = <<new>>
  <2> SUFFICES ASSUME args = <<old>> PROVE r = <<new>>
    OBVIOUS
  <2>1. Len(args) = 1 /\ args[1] = old
    OBVIOUS
  <2>2. r \in Seq(Results) /\ Len(r) = 1 /\ r[1] = new
    BY <1>2, <1>3, <1>4, <2>1
  <2>3. <<new>> \in Seq(Results) /\ Len(<<new>>) = 1 /\ <<new>>[1] = new
    OBVIOUS
  <2> HIDE DEF r
  <2>4. \A n \in 1..Len(r) : r[n] = <<new>>[n]
    BY <2>2, <2>3
  <2> QED
    BY <2>2, <2>3, <2>4, SeqEqual
<1> QED
  BY <1>4, <1>5, <1>6

(* replaceUses changes each instruction by itself, and no order.            *)
LEMMA UsesReplaced ==
    ASSUME NEW c, IsCode(c), NEW old, NEW new \in Results,
           NEW e, e = ReplaceUses(c, old, new)
    PROVE  /\ IsCode(e)
           /\ Defs(e) = Defs(c)
           /\ \A a, b : Prec(e, a, b) <=> Prec(c, a, b)
           /\ Body(e) = {Moved(i, old, new) : i \in Body(c)}
<1>1. c \in Seq(Instrs) /\ Len(c) \in Nat /\ DOMAIN c = 1..Len(c) /\ \A n \in DOMAIN c : c[n] \in Instrs
  BY DEF IsCode
<1>2. e = [n \in DOMAIN c |-> Moved(c[n], old, new)]
  BY DEF ReplaceUses, Moved
<1>3. ASSUME NEW i \in Instrs
      PROVE  Moved(i, old, new) \in Instrs /\ Moved(i, old, new).def = i.def
  <2>1. Renamed(i.args, old, new) \in Seq(Results)
    BY RenamedArgs DEF Instrs
  <2> QED
    BY <2>1 DEF Moved, Instrs
<1>4. e \in [1..Len(c) -> Instrs] /\ DOMAIN e = DOMAIN c
  BY <1>1, <1>2, <1>3
<1>5. e \in Seq(Instrs)
  BY <1>1, <1>4, SeqDef
<1>6. \A n \in DOMAIN c : e[n].def = c[n].def
  BY <1>1, <1>2, <1>3
<1>7. Body(e) = {Moved(i, old, new) : i \in Body(c)}
  BY <1>2, <1>4 DEF Body
<1> QED
  BY <1>4, <1>5, <1>6, <1>7, Rewritten

(* What setOperand makes of an instruction.                                 *)
WithFirst(i, d, v) == IF i.def = d THEN [i EXCEPT !.args = [@ EXCEPT ![1] = v]] ELSE i

(* setOperand changes one instruction, and no order.                        *)
LEMMA OperandSet ==
    ASSUME NEW c, IsCode(c), NEW d \in Defs(c), NEW v \in Results,
           NEW e, e = SetOperand(c, d, v)
    PROVE  /\ IsCode(e)
           /\ Defs(e) = Defs(c)
           /\ \A a, b : Prec(e, a, b) <=> Prec(c, a, b)
           /\ Body(e) = {WithFirst(i, d, v) : i \in Body(c)}
<1>1. c \in Seq(Instrs) /\ Len(c) \in Nat /\ DOMAIN c = 1..Len(c) /\ \A n \in DOMAIN c : c[n] \in Instrs
  BY DEF IsCode
<1>2. PICK p \in DOMAIN c : c[p].def = d
  BY DEF Defs
<1>3. At(c, d) = p
  BY <1>2, PlaceOf
<1>4. e = [n \in DOMAIN c |-> WithFirst(c[n], d, v)]
  <2>1. e = [c EXCEPT ![p] = [c[p] EXCEPT !.args = [@ EXCEPT ![1] = v]]]
    BY <1>3 DEF SetOperand
  <2>2. \A n \in DOMAIN c : n # p => c[n].def # d
    BY <1>2 DEF IsCode
  <2> QED
    BY <1>1, <1>2, <2>1, <2>2 DEF WithFirst
<1>5. ASSUME NEW i \in Instrs
      PROVE  WithFirst(i, d, v) \in Instrs /\ WithFirst(i, d, v).def = i.def
  <2>1. i.args \in Seq(Results)
    BY DEF Instrs
  <2>2. [i.args EXCEPT ![1] = v] \in Seq(Results)
    <3>1. Len(i.args) \in Nat /\ i.args \in [1..Len(i.args) -> Results]
      BY <2>1, LenProperties
    <3>2. [i.args EXCEPT ![1] = v] \in [1..Len(i.args) -> Results]
      BY <3>1
    <3> QED
      BY <3>1, <3>2, SeqDef
  <2> QED
    BY <2>2 DEF WithFirst, Instrs
<1>6. e \in [1..Len(c) -> Instrs] /\ DOMAIN e = DOMAIN c
  BY <1>1, <1>4, <1>5
<1>7. e \in Seq(Instrs)
  BY <1>1, <1>6, SeqDef
<1>8. \A n \in DOMAIN c : e[n].def = c[n].def
  BY <1>1, <1>4, <1>5
<1>9. Body(e) = {WithFirst(i, d, v) : i \in Body(c)}
  BY <1>4, <1>6 DEF Body
<1> QED
  BY <1>6, <1>7, <1>8, <1>9, Rewritten

----------------------------------------------------------------------------
(* The instructions of the kernel and of the passes. *)

(* What the passes emit for call t under the options x: for a size or a     *)
(* vector of ids, and for an id, its base, its copies and its lanes.        *)
ScaledOf(x, t) == Instr(Mul(t), "mul", <<Result(t)>>, x.factor)

DivOf(x, t) == Instr(Div(t), "udiv", <<Result(t)>>, x.stride)
MulOf(x, t) == Instr(Mul(t), "mul", <<Div(t)>>, CfSt(x))
RemOf(x, t) == Instr(Rem(t), "urem", <<Result(t)>>, x.stride)
BaseOf(t) == Instr(Base(t), "add", <<Mul(t), Rem(t)>>, 0)
CopyOf(x, t, k) == Instr(Copy(t, k), "add", <<Base(t)>>, Offset(x, k))
LaneOf(t, k) == Instr(Copy(t, k), "add", <<Mul(t)>>, k)

(* What the passes ask of their options.                                    *)
Options(x) == x.factor \in 1..(UInt - 1) /\ x.stride \in 1..(UInt - 1)

(* Nothing was done to call t yet. *)
Unscaled(c, t) ==
    /\ t \in DOMAIN Calls
    /\ CallOf(t) \in Body(c) /\ UseOf(t, Result(t)) \in Body(c)
    /\ \A i \in Body(c) : Result(t) \in Reads(i) => i = UseOf(t, Result(t))
    /\ \A i \in Body(c) : i.def[1] = t => i.def \in {Result(t), Use(t)}

(* What the code defines is what its instructions define.                   *)
LEMMA DefsOfBody ==
    ASSUME NEW c
    PROVE  Defs(c) = {i.def : i \in Body(c)}
  BY DEF Defs, Body

(* The instructions of one call have different names.                       *)
LEMMA Different ==
    ASSUME NEW t
    PROVE  /\ Result(t) # Use(t) /\ Result(t) # Mul(t) /\ Result(t) # Div(t)
           /\ Result(t) # Rem(t) /\ Result(t) # Base(t)
           /\ Use(t) # Mul(t) /\ Use(t) # Div(t) /\ Use(t) # Rem(t) /\ Use(t) # Base(t)
           /\ Mul(t) # Div(t) /\ Mul(t) # Rem(t) /\ Mul(t) # Base(t)
           /\ Div(t) # Rem(t) /\ Div(t) # Base(t) /\ Rem(t) # Base(t)
           /\ \A k : Copy(t, k) \notin {Result(t), Use(t), Mul(t), Div(t), Rem(t), Base(t)}
           /\ \A k, l : Copy(t, k) = Copy(t, l) => k = l
  BY DEF Result, Use, Mul, Div, Rem, Base, Copy

(* What the kernel has and what the passes emit are instructions.           *)
LEMMA InstrsAre ==
    ASSUME NEW t \in DOMAIN Calls, NEW x, Options(x)
    PROVE  /\ Result(t) \in Results /\ Use(t) \in Results /\ Mul(t) \in Results
           /\ Div(t) \in Results /\ Rem(t) \in Results /\ Base(t) \in Results
           /\ \A k \in Nat : Copy(t, k) \in Results
           /\ CallOf(t) \in Instrs /\ \A d \in Results : UseOf(t, d) \in Instrs
           /\ ScaledOf(x, t) \in Instrs
           /\ DivOf(x, t) \in Instrs /\ MulOf(x, t) \in Instrs
           /\ RemOf(x, t) \in Instrs /\ BaseOf(t) \in Instrs
           /\ \A k \in Nat : CopyOf(x, t, k) \in Instrs /\ LaneOf(t, k) \in Instrs
<1>1. /\ Result(t) \in Results /\ Use(t) \in Results /\ Mul(t) \in Results
      /\ Div(t) \in Results /\ Rem(t) \in Results /\ Base(t) \in Results
      /\ \A k \in Nat : Copy(t, k) \in Results
  BY DEF Results, Result, Use, Mul, Div, Rem, Base, Copy
<1>2. UInt \in Nat \ {0} /\ x.factor \in Nat /\ x.stride \in Nat
  BY WidthsAssumption DEF Options
<1>3. x.factor * x.stride \in Nat /\ \A k \in Nat : k * x.stride \in Nat
  BY <1>2, SMT
<1>4. CfSt(x) \in Nat /\ \A k \in Nat : Offset(x, k) \in Nat
  BY <1>2, <1>3 DEF CfSt, Offset
<1>5. \A a \in Results : <<a>> \in Seq(Results) /\ \A b \in Results : <<a, b>> \in Seq(Results)
  OBVIOUS
<1>6. <<>> \in Seq(Results)
  OBVIOUS
<1>7. \A d \in Results, op \in Operations, args \in Seq(Results), const \in Nat :
         Instr(d, op, args, const) \in Instrs
  BY DEF Instrs, Instr
<1>8. /\ CallOf(t) \in Instrs /\ \A d \in Results : UseOf(t, d) \in Instrs
      /\ BaseOf(t) \in Instrs
  BY <1>1, <1>5, <1>6, <1>7 DEF CallOf, UseOf, BaseOf, Operations
<1>9. /\ ScaledOf(x, t) \in Instrs /\ DivOf(x, t) \in Instrs
      /\ MulOf(x, t) \in Instrs /\ RemOf(x, t) \in Instrs
  BY <1>1, <1>2, <1>4, <1>5, <1>7 DEF ScaledOf, DivOf, MulOf, RemOf, Operations
<1>10. \A k \in Nat : CopyOf(x, t, k) \in Instrs /\ LaneOf(t, k) \in Instrs
  BY <1>1, <1>4, <1>5, <1>7 DEF CopyOf, LaneOf, Operations
<1> QED
  BY <1>1, <1>8, <1>9, <1>10

(* What an instruction of no, one or two operands reads.                    *)
LEMMA ReadsOf ==
    /\ \A d, op, k : Reads(Instr(d, op, <<>>, k)) = {}
    /\ \A d, op, a, k : Reads(Instr(d, op, <<a>>, k)) = {a}
    /\ \A d, op, a, b, k : Reads(Instr(d, op, <<a, b>>, k)) = {a, b}
  BY DEF Reads, Instr

(* What moving uses does to an instruction.                                 *)
LEMMA MovedIs ==
    ASSUME NEW old, NEW new \in Results
    PROVE  /\ \A i \in Instrs : i.def = new \/ old \notin Reads(i) => Moved(i, old, new) = i
           /\ \A d, op, k : d # new /\ old \in Results => 
                 Moved(Instr(d, op, <<old>>, k), old, new) = Instr(d, op, <<new>>, k)
<1>1. ASSUME NEW i \in Instrs, i.def = new \/ old \notin Reads(i) PROVE Moved(i, old, new) = i
  <2>1. old \notin Reads(i) => Renamed(i.args, old, new) = i.args
    BY RenamedArgs DEF Reads, Instrs
  <2> QED
    BY <1>1, <2>1 DEF Moved, Instrs
<1>2. ASSUME NEW d, NEW op, NEW k, d # new, old \in Results
      PROVE  Moved(Instr(d, op, <<old>>, k), old, new) = Instr(d, op, <<new>>, k)
  <2>1. <<old>> \in Seq(Results)
    BY <1>2
  <2>2. Renamed(<<old>>, old, new) = <<new>>
    BY <2>1, RenamedArgs
  <2> QED
    BY <1>2, <2>2 DEF Moved, Instr
<1> QED
  BY <1>1, <1>2

(* What setting an operand does to an instruction.                          *)
LEMMA WithFirstIs ==
    ASSUME NEW e, NEW v
    PROVE  /\ \A i : i.def # e => WithFirst(i, e, v) = i
           /\ \A op, a, k : WithFirst(Instr(e, op, <<a>>, k), e, v) = Instr(e, op, <<v>>, k)
<1>1. \A a : [<<a>> EXCEPT ![1] = v] = <<v>>
  OBVIOUS
<1> QED
  BY <1>1 DEF WithFirst, Instr

----------------------------------------------------------------------------
(* What the passes do with a call that nothing was done to yet. *)

(* The code around a call that nothing was done to: the user is the only    *)
(* one, and none of the names the passes will use is taken.                 *)
LEMMA OfUnscaled ==
    ASSUME NEW c, IsCode(c), OperandsFirst(c), NEW t, Unscaled(c, t)
    PROVE  /\ Body(c) \subseteq Instrs
           /\ Result(t) \in Defs(c) /\ Use(t) \in Defs(c)
           /\ Prec(c, Result(t), Use(t))
           /\ Mul(t) \notin Defs(c) /\ Div(t) \notin Defs(c)
           /\ Rem(t) \notin Defs(c) /\ Base(t) \notin Defs(c)
           /\ \A k : Copy(t, k) \notin Defs(c)
           /\ \A i \in Body(c) : i.def = Use(t) => i = UseOf(t, Result(t))
<1>1. Body(c) \subseteq Instrs
  BY PlaceOf DEF Body
<1>2. Result(t) \in Defs(c) /\ Use(t) \in Defs(c)
  <2>1. CallOf(t).def = Result(t) /\ UseOf(t, Result(t)).def = Use(t)
    BY DEF CallOf, UseOf, Instr
  <2> QED
    BY <2>1, DefsOfBody DEF Unscaled
<1>3. Prec(c, Result(t), Use(t))
  <2>1. Result(t) \in Reads(UseOf(t, Result(t))) /\ UseOf(t, Result(t)).def = Use(t)
    BY ReadsOf DEF UseOf, Instr
  <2> QED
    BY <2>1 DEF Unscaled, OperandsFirst
<1>4. ASSUME NEW d, d[1] = t, d # Result(t), d # Use(t) PROVE d \notin Defs(c)
  BY <1>4, DefsOfBody DEF Unscaled
<1>5. /\ Mul(t)[1] = t /\ Div(t)[1] = t /\ Rem(t)[1] = t /\ Base(t)[1] = t
      /\ \A k : Copy(t, k)[1] = t
  BY DEF Mul, Div, Rem, Base, Copy
<1>6. /\ Mul(t) \notin Defs(c) /\ Div(t) \notin Defs(c)
      /\ Rem(t) \notin Defs(c) /\ Base(t) \notin Defs(c)
      /\ \A k : Copy(t, k) \notin Defs(c)
  BY <1>4, <1>5, Different
<1>7. ASSUME NEW i \in Body(c), i.def = Use(t) PROVE i = UseOf(t, Result(t))
  <2>1. UseOf(t, Result(t)).def = Use(t) /\ UseOf(t, Result(t)) \in Body(c)
    BY DEF UseOf, Instr, Unscaled
  <2> QED
    BY <1>7, <2>1 DEF Body, IsCode
<1> QED
  BY <1>1, <1>2, <1>3, <1>6, <1>7

(* scaleSizes: the size is multiplied, and the product read in its place.   *)
LEMMA SizeIsScaled ==
    ASSUME NEW c, IsCode(c), OperandsFirst(c), NEW t, Unscaled(c, t),
           NEW x, Options(x),
           NEW e, e = ReplaceUses(InsertAfter(c, Result(t), ScaledOf(x, t)), Result(t), Mul(t))
    PROVE  /\ IsCode(e) /\ OperandsFirst(e)
           /\ Body(e) = (Body(c) \ {UseOf(t, Result(t))}) \cup {ScaledOf(x, t), UseOf(t, Mul(t))}
<1> DEFINE m == InsertAfter(c, Result(t), ScaledOf(x, t))
<1>1. t \in DOMAIN Calls
  BY DEF Unscaled
<1>2. /\ ScaledOf(x, t) \in Instrs /\ ScaledOf(x, t).def = Mul(t)
      /\ Reads(ScaledOf(x, t)) = {Result(t)}
      /\ Result(t) \in Results /\ Mul(t) \in Results
  BY <1>1, InstrsAre, ReadsOf DEF ScaledOf, Instr
<1>3. /\ Body(c) \subseteq Instrs
      /\ Result(t) \in Defs(c) /\ Mul(t) \notin Defs(c)
      /\ Prec(c, Result(t), Use(t))
  BY OfUnscaled
<1>4. /\ IsCode(m)
      /\ Body(m) = Body(c) \cup {ScaledOf(x, t)}
      /\ \A a, b : Prec(c, a, b) => Prec(m, a, b)
      /\ Prec(m, Result(t), Mul(t))
      /\ \A b : Prec(c, Result(t), b) => Prec(m, Mul(t), b)
  <2> HIDE DEF m
  <2>1. m = InsertAfter(c, Result(t), ScaledOf(x, t))
    BY DEF m
  <2> QED
    BY <1>2, <1>3, <2>1, Inserted
<1> HIDE DEF m
<1>5. /\ IsCode(e)
      /\ \A a, b : Prec(e, a, b) <=> Prec(m, a, b)
      /\ Body(e) = {Moved(i, Result(t), Mul(t)) : i \in Body(m)}
  <2>1. e = ReplaceUses(m, Result(t), Mul(t))
    BY DEF m
  <2> QED
    BY <1>2, <1>4, <2>1, UsesReplaced
<1>6. \A i \in Body(m) : i # UseOf(t, Result(t)) => Moved(i, Result(t), Mul(t)) = i
  <2>1. \A i \in Body(c) : i # UseOf(t, Result(t)) => Result(t) \notin Reads(i)
    BY DEF Unscaled
  <2>2. \A i \in Instrs : i.def = Mul(t) \/ Result(t) \notin Reads(i)
                             => Moved(i, Result(t), Mul(t)) = i
    BY <1>2, MovedIs
  <2> QED
    BY <1>2, <1>3, <1>4, <2>1, <2>2
<1>7. Moved(UseOf(t, Result(t)), Result(t), Mul(t)) = UseOf(t, Mul(t))
  BY <1>2, Different, MovedIs DEF UseOf
<1>8. UseOf(t, Result(t)) \in Body(c) /\ UseOf(t, Result(t)) # ScaledOf(x, t)
  BY <1>2, Different DEF Unscaled, UseOf, Instr
<1>9. Body(e) = (Body(c) \ {UseOf(t, Result(t))}) \cup {ScaledOf(x, t), UseOf(t, Mul(t))}
  BY <1>4, <1>5, <1>6, <1>7, <1>8
<1>10. OperandsFirst(e)
  <2> SUFFICES ASSUME NEW i \in Body(e), NEW a \in Reads(i) PROVE Prec(m, a, i.def)
    BY <1>5 DEF OperandsFirst
  <2>1. CASE i \in Body(c)
    BY <1>4, <2>1 DEF OperandsFirst
  <2>2. CASE i = ScaledOf(x, t)
    BY <1>2, <1>4, <2>2
  <2>3. CASE i = UseOf(t, Mul(t))
    <3>1. a = Mul(t) /\ i.def = Use(t)
      BY <2>3, ReadsOf DEF UseOf, Instr
    <3> QED
      BY <1>3, <1>4, <3>1
  <2> QED
    BY <1>9, <2>1, <2>2, <2>3
<1> QED
  BY <1>5, <1>9, <1>10

(* scaleIds: the base of the new ids is computed and read in place of the   *)
(* id, except by what it is computed from.                                  *)
LEMMA BaseIsComputed ==
    ASSUME NEW c, IsCode(c), OperandsFirst(c), NEW t, Unscaled(c, t),
           NEW x, Options(x), NEW e, e = WithBase(c, x, t)
    PROVE  /\ IsCode(e) /\ OperandsFirst(e)
           /\ Body(e) = (Body(c) \ {UseOf(t, Result(t))})
                        \cup {DivOf(x, t), MulOf(x, t), RemOf(x, t), BaseOf(t), UseOf(t, Base(t))}
<1> DEFINE div  == InsertAfter(c, Result(t), DivOf(x, t))
           mul  == InsertAfter(div, Div(t), MulOf(x, t))
           rem  == InsertAfter(mul, Mul(t), RemOf(x, t))
           base == InsertAfter(rem, Rem(t), BaseOf(t))
           uses == ReplaceUses(base, Result(t), Base(t))
           back == SetOperand(uses, Rem(t), Result(t))
<1>0. e = SetOperand(back, Div(t), Result(t))
  BY DEF WithBase, WithBaseForUses, DivOf, MulOf, RemOf, BaseOf
<1>1. t \in DOMAIN Calls
  BY DEF Unscaled
<1>2. /\ DivOf(x, t) \in Instrs /\ DivOf(x, t).def = Div(t)
      /\ MulOf(x, t) \in Instrs /\ MulOf(x, t).def = Mul(t)
      /\ RemOf(x, t) \in Instrs /\ RemOf(x, t).def = Rem(t)
      /\ BaseOf(t) \in Instrs /\ BaseOf(t).def = Base(t)
  BY <1>1, InstrsAre DEF DivOf, MulOf, RemOf, BaseOf, Instr
<1>3. /\ Reads(DivOf(x, t)) = {Result(t)} /\ Reads(MulOf(x, t)) = {Div(t)}
      /\ Reads(RemOf(x, t)) = {Result(t)} /\ Reads(BaseOf(t)) = {Mul(t), Rem(t)}
  BY ReadsOf DEF DivOf, MulOf, RemOf, BaseOf
<1>4. Result(t) \in Results /\ Base(t) \in Results
  BY <1>1, InstrsAre
<1>5. /\ Body(c) \subseteq Instrs
      /\ Result(t) \in Defs(c) /\ Prec(c, Result(t), Use(t))
      /\ Mul(t) \notin Defs(c) /\ Div(t) \notin Defs(c)
      /\ Rem(t) \notin Defs(c) /\ Base(t) \notin Defs(c)
  BY OfUnscaled
<1>6. /\ IsCode(div)
      /\ Body(div) = Body(c) \cup {DivOf(x, t)}
      /\ Defs(div) = Defs(c) \cup {Div(t)}
      /\ \A a, b : Prec(c, a, b) => Prec(div, a, b)
      /\ Prec(div, Result(t), Div(t))
      /\ \A b : Prec(c, Result(t), b) => Prec(div, Div(t), b)
  <2> HIDE DEF div
  <2>1. div = InsertAfter(c, Result(t), DivOf(x, t))
    BY DEF div
  <2> QED
    BY <1>2, <1>5, <2>1, Inserted
<1>7. /\ IsCode(mul)
      /\ Body(mul) = Body(div) \cup {MulOf(x, t)}
      /\ Defs(mul) = Defs(div) \cup {Mul(t)}
      /\ \A a, b : Prec(div, a, b) => Prec(mul, a, b)
      /\ Prec(mul, Div(t), Mul(t))
      /\ \A a : Prec(div, a, Div(t)) => Prec(mul, a, Mul(t))
      /\ \A b : Prec(div, Div(t), b) => Prec(mul, Mul(t), b)
  <2> HIDE DEF mul, div
  <2>1. mul = InsertAfter(div, Div(t), MulOf(x, t))
    BY DEF mul
  <2> QED
    BY <1>2, <1>5, <1>6, <2>1, Inserted, Different
<1>8. /\ IsCode(rem)
      /\ Body(rem) = Body(mul) \cup {RemOf(x, t)}
      /\ Defs(rem) = Defs(mul) \cup {Rem(t)}
      /\ \A a, b : Prec(mul, a, b) => Prec(rem, a, b)
      /\ Prec(rem, Mul(t), Rem(t))
      /\ \A a : Prec(mul, a, Mul(t)) => Prec(rem, a, Rem(t))
      /\ \A b : Prec(mul, Mul(t), b) => Prec(rem, Rem(t), b)
  <2> HIDE DEF mul, div, rem
  <2>1. rem = InsertAfter(mul, Mul(t), RemOf(x, t))
    BY DEF rem
  <2> QED
    BY <1>2, <1>5, <1>6, <1>7, <2>1, Inserted, Different
<1>9. /\ IsCode(base)
      /\ Body(base) = Body(rem) \cup {BaseOf(t)}
      /\ Defs(base) = Defs(rem) \cup {Base(t)}
      /\ \A a, b : Prec(rem, a, b) => Prec(base, a, b)
      /\ Prec(base, Rem(t), Base(t))
      /\ \A a : Prec(rem, a, Rem(t)) => Prec(base, a, Base(t))
      /\ \A b : Prec(rem, Rem(t), b) => Prec(base, Base(t), b)
  <2> HIDE DEF mul, div, rem, base
  <2>1. base = InsertAfter(rem, Rem(t), BaseOf(t))
    BY DEF base
  <2> QED
    BY <1>2, <1>5, <1>6, <1>7, <1>8, <2>1, Inserted, Different
<1>10. /\ IsCode(uses) /\ Defs(uses) = Defs(base)
       /\ \A a, b : Prec(uses, a, b) <=> Prec(base, a, b)
       /\ Body(uses) = {Moved(i, Result(t), Base(t)) : i \in Body(base)}
  <2> HIDE DEF uses, base
  <2>1. uses = ReplaceUses(base, Result(t), Base(t))
    BY DEF uses
  <2> QED
    BY <1>4, <1>9, <2>1, UsesReplaced
<1>11. /\ IsCode(back) /\ Defs(back) = Defs(base)
       /\ \A a, b : Prec(back, a, b) <=> Prec(base, a, b)
       /\ Body(back) = {WithFirst(i, Rem(t), Result(t)) : i \in Body(uses)}
  <2> HIDE DEF back, uses, base, rem
  <2>1. back = SetOperand(uses, Rem(t), Result(t))
    BY DEF back
  <2>2. Rem(t) \in Defs(uses)
    BY <1>8, <1>9, <1>10
  <2> QED
    BY <1>4, <1>10, <2>1, <2>2, OperandSet
<1>12. /\ IsCode(e)
       /\ \A a, b : Prec(e, a, b) <=> Prec(base, a, b)
       /\ Body(e) = {WithFirst(i, Div(t), Result(t)) : i \in Body(back)}
  <2> HIDE DEF back, base, rem, mul, div
  <2>1. e = SetOperand(back, Div(t), Result(t))
    BY <1>0
  <2>2. Div(t) \in Defs(back)
    BY <1>6, <1>7, <1>8, <1>9, <1>11
  <2> QED
    BY <1>4, <1>11, <2>1, <2>2, OperandSet
<1> HIDE DEF back, uses, base, rem, mul, div
<1> DEFINE Final(i) ==
      WithFirst(WithFirst(Moved(i, Result(t), Base(t)), Rem(t), Result(t)), Div(t), Result(t))
<1>13. Body(e) = {Final(i) : i \in Body(base)}
  BY <1>10, <1>11, <1>12
<1>14. Body(base) = Body(c) \cup {DivOf(x, t), MulOf(x, t), RemOf(x, t), BaseOf(t)}
  BY <1>6, <1>7, <1>8, <1>9
<1>a. /\ \A i : i.def # Rem(t) => WithFirst(i, Rem(t), Result(t)) = i
      /\ \A i : i.def # Div(t) => WithFirst(i, Div(t), Result(t)) = i
  BY WithFirstIs
<1>b. \A i \in Instrs : i.def = Base(t) \/ Result(t) \notin Reads(i)
                           => Moved(i, Result(t), Base(t)) = i
  BY <1>4, MovedIs
<1>15. ASSUME NEW i \in Body(c), i # UseOf(t, Result(t)) PROVE Final(i) = i
  <2>1. Moved(i, Result(t), Base(t)) = i
    <3>1. Result(t) \notin Reads(i) /\ i \in Instrs
      BY <1>5, <1>15 DEF Unscaled
    <3> QED
      BY <1>b, <3>1
  <2>2. i.def # Rem(t) /\ i.def # Div(t)
    BY <1>5, DefsOfBody
  <2> QED
    BY <1>a, <2>1, <2>2
<1>16. Final(UseOf(t, Result(t))) = UseOf(t, Base(t))
  <2>1. Moved(UseOf(t, Result(t)), Result(t), Base(t)) = UseOf(t, Base(t))
    BY <1>4, Different, MovedIs DEF UseOf
  <2>2. UseOf(t, Base(t)).def = Use(t)
    BY DEF UseOf, Instr
  <2> QED
    BY <1>a, <2>1, <2>2, Different
<1>17. Final(DivOf(x, t)) = DivOf(x, t)
  <2>1. Moved(DivOf(x, t), Result(t), Base(t)) = Instr(Div(t), "udiv", <<Base(t)>>, x.stride)
    BY <1>4, Different, MovedIs DEF DivOf
  <2>2. Instr(Div(t), "udiv", <<Base(t)>>, x.stride).def # Rem(t)
    BY Different DEF Instr
  <2>3. WithFirst(Instr(Div(t), "udiv", <<Base(t)>>, x.stride), Div(t), Result(t)) = DivOf(x, t)
    BY WithFirstIs DEF DivOf
  <2> QED
    BY <1>a, <2>1, <2>2, <2>3
<1>18. Final(RemOf(x, t)) = RemOf(x, t)
  <2>1. Moved(RemOf(x, t), Result(t), Base(t)) = Instr(Rem(t), "urem", <<Base(t)>>, x.stride)
    BY <1>4, Different, MovedIs DEF RemOf
  <2>2. WithFirst(Instr(Rem(t), "urem", <<Base(t)>>, x.stride), Rem(t), Result(t)) = RemOf(x, t)
    BY WithFirstIs DEF RemOf
  <2>3. RemOf(x, t).def # Div(t)
    BY <1>2, Different
  <2> QED
    BY <1>a, <2>1, <2>2, <2>3
<1>19. Final(MulOf(x, t)) = MulOf(x, t)
  <2>1. Moved(MulOf(x, t), Result(t), Base(t)) = MulOf(x, t)
    BY <1>b, <1>2, <1>3, Different
  <2> QED
    BY <1>a, <1>2, <2>1, Different
<1>20. Final(BaseOf(t)) = BaseOf(t)
  <2>1. Moved(BaseOf(t), Result(t), Base(t)) = BaseOf(t)
    BY <1>b, <1>2, <1>3, Different
  <2> QED
    BY <1>a, <1>2, <2>1, Different
<1> HIDE DEF Final
<1>21. UseOf(t, Result(t)) \in Body(c)
  BY DEF Unscaled
<1>22. Body(e) = (Body(c) \ {UseOf(t, Result(t))})
                \cup {DivOf(x, t), MulOf(x, t), RemOf(x, t), BaseOf(t), UseOf(t, Base(t))}
  <2>1. \A i \in Body(base) :
           Final(i) \in (Body(c) \ {UseOf(t, Result(t))})
                \cup {DivOf(x, t), MulOf(x, t), RemOf(x, t), BaseOf(t), UseOf(t, Base(t))}
    BY <1>14, <1>15, <1>16, <1>17, <1>18, <1>19, <1>20
  <2>2. \A i \in Body(c) \ {UseOf(t, Result(t))} : i \in Body(e)
    BY <1>13, <1>14, <1>15
  <2>3. {DivOf(x, t), MulOf(x, t), RemOf(x, t), BaseOf(t), UseOf(t, Base(t))} \subseteq Body(e)
    BY <1>13, <1>14, <1>16, <1>17, <1>18, <1>19, <1>20, <1>21
  <2> QED
    BY <1>13, <2>1, <2>2, <2>3
<1>23. OperandsFirst(e)
  <2> SUFFICES ASSUME NEW i \in Body(e), NEW a \in Reads(i) PROVE Prec(base, a, i.def)
    BY <1>12 DEF OperandsFirst
  <2>1. CASE i \in Body(c)
    BY <1>6, <1>7, <1>8, <1>9, <2>1 DEF OperandsFirst
  <2>2. CASE i = DivOf(x, t)
    <3>1. a = Result(t) /\ i.def = Div(t)
      BY <1>2, <1>3, <2>2
    <3> QED
      BY <1>6, <1>7, <1>8, <1>9, <3>1
  <2>3. CASE i = MulOf(x, t)
    <3>1. a = Div(t) /\ i.def = Mul(t)
      BY <1>2, <1>3, <2>3
    <3> QED
      BY <1>7, <1>8, <1>9, <3>1
  <2>4. CASE i = RemOf(x, t)
    <3>1. a = Result(t) /\ i.def = Rem(t)
      BY <1>2, <1>3, <2>4
    <3>2. Prec(rem, Result(t), Rem(t))
      BY <1>6, <1>7, <1>8
    <3> QED
      BY <1>9, <3>1, <3>2
  <2>5. CASE i = BaseOf(t)
    <3>1. a \in {Mul(t), Rem(t)} /\ i.def = Base(t)
      BY <1>2, <1>3, <2>5
    <3> QED
      BY <1>8, <1>9, <3>1
  <2>6. CASE i = UseOf(t, Base(t))
    <3>1. a = Base(t) /\ i.def = Use(t)
      BY <2>6, ReadsOf DEF UseOf, Instr
    <3> QED
      BY <1>5, <1>6, <1>7, <1>8, <1>9, <3>1
  <2> QED
    BY <1>22, <2>1, <2>2, <2>3, <2>4, <2>5, <2>6
<1> QED
  BY <1>12, <1>22, <1>23

----------------------------------------------------------------------------
(* A series of insertions, each after the one before, of instructions that  *)
(* all read what the first goes after.                                      *)

(* W[k] is code c with the first k of n instructions i inserted,            *)
(* instruction k after the one that defines d[k].                           *)
IsSeries(W, n, c, d, i) ==
    W = [k \in 0..n |-> IF k = 0 THEN c ELSE InsertAfter(W[k - 1], d[k - 1], i[k])]

(* Such a series makes sense: the instructions are new, and each reads and  *)
(* follows what is there by then.                                           *)
MayFollow(n, c, d, i) ==
    /\ n \in Nat /\ IsCode(c) /\ OperandsFirst(c)
    /\ d[0] \in Defs(c)
    /\ \A k \in 1..n : /\ i[k] \in Instrs /\ i[k].def = d[k] /\ Reads(i[k]) = {d[0]}
                       /\ d[k] \notin Defs(c)
    /\ \A k, l \in 1..n : d[k] = d[l] => k = l

(* After k insertions. *)
Follows(s, k, c, d, i) ==
    /\ IsCode(s) /\ OperandsFirst(s)
    /\ Body(s) = Body(c) \cup {i[j] : j \in 1..k}
    /\ k # 0 => Prec(s, d[0], d[k])

(* One more insertion keeps what a series promises.                         *)
LEMMA OneFollows ==
    ASSUME NEW n, NEW c, NEW d, NEW i, MayFollow(n, c, d, i),
           NEW k \in 1..n, NEW s, Follows(s, k - 1, c, d, i),
           NEW e, e = InsertAfter(s, d[k - 1], i[k])
    PROVE  Follows(e, k, c, d, i)
<1>0. n \in Nat /\ k \in Nat /\ k - 1 \in 0..n /\ k # 0
  BY DEF MayFollow
<1>1. i[k] \in Instrs /\ i[k].def = d[k] /\ Reads(i[k]) = {d[0]}
  BY DEF MayFollow
<1>2. Defs(s) = Defs(c) \cup {d[j] : j \in 1..(k - 1)}
  <2>1. \A j \in 1..(k - 1) : j \in 1..n /\ i[j].def = d[j]
    BY <1>0 DEF MayFollow
  <2>2. Body(s) = Body(c) \cup {i[j] : j \in 1..(k - 1)}
    BY DEF Follows
  <2> QED
    BY <2>1, <2>2, DefsOfBody
<1>3. d[k - 1] \in Defs(s)
  <2>1. CASE k - 1 = 0
    BY <1>2, <2>1 DEF MayFollow
  <2>2. CASE k - 1 \in 1..(k - 1)
    BY <1>2, <2>2
  <2> QED
    BY <1>0, <2>1, <2>2
<1>4. d[k] \notin Defs(s)
  <2>1. \A j \in 1..(k - 1) : j \in 1..n /\ j # k
    BY <1>0
  <2> QED
    BY <1>2, <2>1 DEF MayFollow
<1>5. /\ IsCode(e)
      /\ Body(e) = Body(s) \cup {i[k]}
      /\ \A a, b : Prec(s, a, b) => Prec(e, a, b)
      /\ Prec(e, d[k - 1], d[k])
      /\ \A a : Prec(s, a, d[k - 1]) => Prec(e, a, d[k])
  BY <1>1, <1>3, <1>4, Inserted DEF Follows
<1>6. Prec(e, d[0], d[k])
  <2>1. CASE k - 1 = 0
    BY <1>5, <2>1
  <2>2. CASE k - 1 # 0
    BY <1>5, <2>2 DEF Follows
  <2> QED
    BY <2>1, <2>2
<1>7. Body(e) = Body(c) \cup {i[j] : j \in 1..k}
  <2>1. 1..k = 1..(k - 1) \cup {k}
    BY <1>0
  <2> QED
    BY <1>5, <2>1 DEF Follows
<1>8. OperandsFirst(e)
  <2> SUFFICES ASSUME NEW j \in Body(e), NEW a \in Reads(j) PROVE Prec(e, a, j.def)
    BY DEF OperandsFirst
  <2>1. CASE j \in Body(s)
    BY <1>5, <2>1 DEF Follows, OperandsFirst
  <2>2. CASE j = i[k]
    BY <1>1, <1>6, <2>2
  <2> QED
    BY <1>5, <2>1, <2>2
<1> QED
  BY <1>5, <1>6, <1>7, <1>8 DEF Follows

(* No insertion promises nothing.                                           *)
LEMMA FirstFollows ==
    ASSUME NEW n, NEW c, NEW d, NEW i, MayFollow(n, c, d, i)
    PROVE  Follows(c, 0, c, d, i)
<1>1. {i[j] : j \in 1..0} = {}
  OBVIOUS
<1> QED
  BY <1>1 DEF Follows, MayFollow

(* By induction all insertions of the series keep it.                       *)
LEMMA SeriesFollows ==
    ASSUME NEW n, NEW c, NEW d, NEW i, MayFollow(n, c, d, i),
           NEW W, IsSeries(W, n, c, d, i)
    PROVE  Follows(W[n], n, c, d, i)
<1>0. n \in Nat
  BY DEF MayFollow
<1> DEFINE S == {k \in Nat : k \in 0..n => Follows(W[k], k, c, d, i)}
<1>1. 0 \in S
  <2>1. 0 \in 0..n => W[0] = c
    BY DEF IsSeries
  <2> QED
    BY <2>1, FirstFollows
<1>2. ASSUME NEW k \in Nat, k \in S PROVE k + 1 \in S
  <2> SUFFICES ASSUME k + 1 \in 0..n PROVE Follows(W[k + 1], k + 1, c, d, i)
    OBVIOUS
  <2>1. k + 1 \in 1..n /\ k + 1 # 0 /\ (k + 1) - 1 = k /\ Follows(W[k], k, c, d, i)
    BY <1>0, <1>2
  <2>2. W[k + 1] = InsertAfter(W[(k + 1) - 1], d[(k + 1) - 1], i[k + 1])
    BY <2>1 DEF IsSeries
  <2> QED
    BY <2>1, <2>2, OneFollows
<1> HIDE DEF S
<1>3. n \in S
  BY <1>0, <1>1, <1>2, Induction
<1> QED
  BY <1>0, <1>3 DEF S

(* The recursive definition of a series defines one.                        *)
LEMMA SeriesExists ==
    ASSUME NEW n, NEW c, NEW d, NEW i, MayFollow(n, c, d, i)
    PROVE  \E W : IsSeries(W, n, c, d, i)
<1>0. n \in Nat /\ c \in Seq(Instrs)
  BY DEF MayFollow, IsCode
<1> DEFINE Inserts(k, s) == InsertAfter(s, d[k - 1], i[k])
           h == [p \in Nat \X Seq(Instrs) |->
                   IF Inserts(p[1], p[2]) \in Seq(Instrs) THEN Inserts(p[1], p[2]) ELSE p[2]]
<1>1. h \in [Nat \X Seq(Instrs) -> Seq(Instrs)]
  <2> HIDE DEF Inserts
  <2> QED
    OBVIOUS
<1>2. PICK W \in [0..n -> Seq(Instrs)] : IsRecursive(W, n, c, h)
  <2> HIDE DEF h
  <2> QED
    BY <1>0, <1>1, RecursiveExists
<1>3. ASSUME NEW k \in 1..n, Follows(W[k - 1], k - 1, c, d, i)
      PROVE  W[k] = Inserts(k, W[k - 1]) /\ Follows(W[k], k, c, d, i)
  <2>1. k \in 0..n /\ k # 0 /\ k - 1 \in 0..n /\ k \in Nat
    BY <1>0
  <2>2. W[k] = h[<<k, W[k - 1]>>]
    <3> HIDE DEF h
    <3> QED
      BY <1>2, <2>1 DEF IsRecursive
  <2>3. Follows(Inserts(k, W[k - 1]), k, c, d, i)
    BY <1>3, OneFollows
  <2>4. Inserts(k, W[k - 1]) \in Seq(Instrs)
    <3> HIDE DEF Inserts
    <3> QED
      BY <2>3 DEF Follows, IsCode
  <2>5. <<k, W[k - 1]>> \in Nat \X Seq(Instrs)
    BY <1>2, <2>1
  <2>6. h[<<k, W[k - 1]>>] = Inserts(k, W[k - 1])
    <3> HIDE DEF Inserts
    <3> QED
      BY <2>4, <2>5
  <2> HIDE DEF h, Inserts
  <2> QED
    BY <2>2, <2>3, <2>6
<1> HIDE DEF h, Inserts
<1> DEFINE S == {k \in Nat : k \in 0..n => Follows(W[k], k, c, d, i)}
<1>4. 0 \in S
  <2>1. 0 \in 0..n => W[0] = c
    BY <1>2 DEF IsRecursive
  <2> QED
    BY <2>1, FirstFollows
<1>5. ASSUME NEW k \in Nat, k \in S PROVE k + 1 \in S
  <2> SUFFICES ASSUME k + 1 \in 0..n PROVE Follows(W[k + 1], k + 1, c, d, i)
    OBVIOUS
  <2>1. k + 1 \in 1..n /\ (k + 1) - 1 = k /\ Follows(W[k], k, c, d, i)
    BY <1>0, <1>5
  <2> QED
    BY <1>3, <2>1
<1> HIDE DEF S
<1>6. \A k \in Nat : k \in S
  BY <1>4, <1>5, Induction
<1>7. \A k \in 1..n : W[k] = Inserts(k, W[k - 1])
  <2> SUFFICES ASSUME NEW k \in 1..n PROVE W[k] = Inserts(k, W[k - 1])
    OBVIOUS
  <2>1. k - 1 \in Nat /\ k - 1 \in 0..n
    BY <1>0
  <2> QED
    BY <1>3, <1>6, <2>1 DEF S
<1>8. W[0] = c
  BY <1>0, <1>2 DEF IsRecursive
<1>9. W = [k \in 0..n |-> IF k = 0 THEN c ELSE Inserts(k, W[k - 1])]
  <2>1. \A k \in 0..n : k # 0 => k \in 1..n
    BY <1>0
  <2>2. \A k \in 0..n : W[k] = IF k = 0 THEN c ELSE Inserts(k, W[k - 1])
    BY <1>7, <1>8, <2>1
  <2>3. W = [k \in 0..n |-> W[k]]
    BY <1>2
  <2> QED
    BY <2>2, <2>3
<1> QED
  BY <1>9 DEF IsSeries, Inserts

(* The copies of an id are such a series, and all the code gains.           *)
LEMMA CopiesAreAdded ==
    ASSUME NEW c, IsCode(c), OperandsFirst(c), NEW t \in DOMAIN Calls, NEW x, Options(x),
           Base(t) \in Defs(c), \A k : Copy(t, k) \notin Defs(c),
           NEW e, e = WithCopies(c, x, t)
    PROVE  /\ IsCode(e) /\ OperandsFirst(e)
           /\ Body(e) = Body(c) \cup {CopyOf(x, t, k) : k \in 1..(x.factor - 1)}
<1> DEFINE n == x.factor - 1
           d == [k \in 0..n |-> IF k = 0 THEN Base(t) ELSE Copy(t, k)]
           i == [k \in 1..n |-> CopyOf(x, t, k)]
<1>1. n \in Nat
  BY WidthsAssumption DEF Options
<1>2. MayFollow(n, c, d, i)
  <2>1. d[0] = Base(t) /\ \A k \in 1..n : d[k] = Copy(t, k)
    BY <1>1
  <2>2. \A k \in 1..n : i[k] = CopyOf(x, t, k)
    OBVIOUS
  <2>3. \A k \in 1..n : /\ CopyOf(x, t, k) \in Instrs /\ CopyOf(x, t, k).def = Copy(t, k)
                        /\ Reads(CopyOf(x, t, k)) = {Base(t)}
    <3>1. \A k \in 1..n : k \in Nat
      BY <1>1
    <3>2. \A k : CopyOf(x, t, k).def = Copy(t, k) /\ Reads(CopyOf(x, t, k)) = {Base(t)}
      BY ReadsOf DEF CopyOf, Instr
    <3> QED
      BY <3>1, <3>2, InstrsAre
  <2>4. \A k, l \in 1..n : Copy(t, k) = Copy(t, l) => k = l
    BY Different
  <2> HIDE DEF n, d, i
  <2> QED
    BY <1>1, <2>1, <2>2, <2>3, <2>4 DEF MayFollow
<1>3. \A W : IsSeries(W, n, c, d, i)
            <=> W = [k \in 0..n |->
                       IF k = 0 THEN c
                       ELSE InsertAfter(W[k - 1], IF k = 1 THEN Base(t) ELSE Copy(t, k - 1),
                                        Instr(Copy(t, k), "add", <<Base(t)>>, Offset(x, k)))]
  <2>1. \A k \in 0..n : k # 0 =>
           /\ d[k - 1] = IF k = 1 THEN Base(t) ELSE Copy(t, k - 1)
           /\ i[k] = Instr(Copy(t, k), "add", <<Base(t)>>, Offset(x, k))
    <3>1. \A k \in 0..n : k # 0 => k \in 1..n /\ k - 1 \in 0..n /\ (k - 1 = 0 <=> k = 1)
      BY <1>1
    <3> QED
      BY <3>1 DEF CopyOf
  <2> HIDE DEF n, d, i
  <2> QED
    BY <2>1 DEF IsSeries
<1>4. \E W : IsSeries(W, n, c, d, i)
  <2> HIDE DEF n, d, i
  <2> QED
    BY <1>2, SeriesExists
<1> DEFINE G == CHOOSE W : W = [k \in 0..n |->
                       IF k = 0 THEN c
                       ELSE InsertAfter(W[k - 1], IF k = 1 THEN Base(t) ELSE Copy(t, k - 1),
                                        Instr(Copy(t, k), "add", <<Base(t)>>, Offset(x, k)))]
<1>5. IsSeries(G, n, c, d, i)
  <2> HIDE DEF n, d, i
  <2> QED
    BY <1>3, <1>4
<1>6. e = G[n]
  BY DEF WithCopies
<1>7. Follows(e, n, c, d, i)
  <2> HIDE DEF n, d, i, G
  <2> QED
    BY <1>2, <1>5, <1>6, SeriesFollows
<1>8. {i[j] : j \in 1..n} = {CopyOf(x, t, k) : k \in 1..(x.factor - 1)}
  OBVIOUS
<1> HIDE DEF n, d, i
<1> QED
  BY <1>7, <1>8 DEF Follows

(* So are the lanes of a vector of ids, after the product they start from.  *)
LEMMA LanesAreAdded ==
    ASSUME NEW c, IsCode(c), OperandsFirst(c), NEW t, Unscaled(c, t), NEW x, Options(x),
           NEW e, e = WithLanes(c, x, t)
    PROVE  /\ IsCode(e) /\ OperandsFirst(e)
           /\ Body(e) = Body(c) \cup {ScaledOf(x, t)} \cup {LaneOf(t, k) : k \in 0..(x.factor - 1)}
<1> DEFINE n == x.factor
           m == InsertAfter(c, Result(t), ScaledOf(x, t))
           d == [k \in 0..n |-> IF k = 0 THEN Mul(t) ELSE Copy(t, k - 1)]
           i == [k \in 1..n |-> LaneOf(t, k - 1)]
<1>1. n \in Nat \ {0} /\ t \in DOMAIN Calls
  BY WidthsAssumption DEF Options, Unscaled
<1>2. /\ ScaledOf(x, t) \in Instrs /\ ScaledOf(x, t).def = Mul(t)
      /\ Reads(ScaledOf(x, t)) = {Result(t)}
  BY <1>1, InstrsAre, ReadsOf DEF ScaledOf, Instr
<1>3. /\ IsCode(m) /\ OperandsFirst(m)
      /\ Body(m) = Body(c) \cup {ScaledOf(x, t)}
      /\ Defs(m) = Defs(c) \cup {Mul(t)}
  <2> HIDE DEF m
  <2>1. m = InsertAfter(c, Result(t), ScaledOf(x, t))
    BY DEF m
  <2>2. Result(t) \in Defs(c) /\ Mul(t) \notin Defs(c)
    BY OfUnscaled
  <2>3. /\ IsCode(m)
        /\ Body(m) = Body(c) \cup {ScaledOf(x, t)}
        /\ Defs(m) = Defs(c) \cup {Mul(t)}
        /\ \A a, b : Prec(c, a, b) => Prec(m, a, b)
        /\ Prec(m, Result(t), Mul(t))
    BY <1>2, <2>1, <2>2, Inserted
  <2>4. OperandsFirst(m)
    <3> SUFFICES ASSUME NEW j \in Body(m), NEW a \in Reads(j) PROVE Prec(m, a, j.def)
      BY DEF OperandsFirst
    <3>1. CASE j \in Body(c)
      BY <2>3, <3>1 DEF OperandsFirst
    <3>2. CASE j = ScaledOf(x, t)
      BY <1>2, <2>3, <3>2
    <3> QED
      BY <2>3, <3>1, <3>2
  <2> QED
    BY <2>3, <2>4
<1>4. Mul(t) \in Defs(m) /\ \A k : Copy(t, k) \notin Defs(m)
  <2> HIDE DEF m
  <2> QED
    BY <1>3, OfUnscaled, Different
<1> HIDE DEF m
<1>5. MayFollow(n, m, d, i)
  <2>1. d[0] = Mul(t) /\ \A k \in 1..n : d[k] = Copy(t, k - 1)
    BY <1>1
  <2>2. \A k \in 1..n : i[k] = LaneOf(t, k - 1)
    OBVIOUS
  <2>3. \A k \in 1..n : /\ LaneOf(t, k - 1) \in Instrs /\ LaneOf(t, k - 1).def = Copy(t, k - 1)
                        /\ Reads(LaneOf(t, k - 1)) = {Mul(t)}
    <3>1. \A k \in 1..n : k - 1 \in Nat
      BY <1>1
    <3>2. \A k : LaneOf(t, k).def = Copy(t, k) /\ Reads(LaneOf(t, k)) = {Mul(t)}
      BY ReadsOf DEF LaneOf, Instr
    <3> QED
      BY <1>1, <3>1, <3>2, InstrsAre
  <2>4. \A k, l \in 1..n : Copy(t, k - 1) = Copy(t, l - 1) => k = l
    <3>1. \A k, l \in 1..n : k - 1 = l - 1 => k = l
      BY <1>1
    <3> QED
      BY <3>1, Different
  <2>5. n \in Nat
    BY <1>1
  <2> HIDE DEF n, d, i
  <2> QED
    BY <1>3, <1>4, <2>1, <2>2, <2>3, <2>4, <2>5 DEF MayFollow
<1> DEFINE IsW(W) == W = [k \in 0..n |->
                       IF k = 0
                       THEN InsertAfter(c, Result(t), Instr(Mul(t), "mul", <<Result(t)>>, x.factor))
                       ELSE InsertAfter(W[k - 1], IF k = 1 THEN Mul(t) ELSE Copy(t, k - 2),
                                        Instr(Copy(t, k - 1), "add", <<Mul(t)>>, k - 1))]
<1>6. \A W : IsSeries(W, n, m, d, i) <=> IsW(W)
  <2>1. \A k \in 0..n : k # 0 =>
           /\ d[k - 1] = IF k = 1 THEN Mul(t) ELSE Copy(t, k - 2)
           /\ i[k] = Instr(Copy(t, k - 1), "add", <<Mul(t)>>, k - 1)
    <3>1. \A k \in 0..n : k # 0 => /\ k \in 1..n /\ k - 1 \in 0..n /\ (k - 1 = 0 <=> k = 1)
                                    /\ (k - 1) - 1 = k - 2
      BY <1>1
    <3> QED
      BY <3>1 DEF LaneOf
  <2>2. m = InsertAfter(c, Result(t), Instr(Mul(t), "mul", <<Result(t)>>, x.factor))
    BY DEF m, ScaledOf
  <2> HIDE DEF n, d, i
  <2> QED
    BY <2>1, <2>2 DEF IsSeries
<1>7. \E W : IsSeries(W, n, m, d, i)
  <2> HIDE DEF n, d, i
  <2> QED
    BY <1>5, SeriesExists
<1> DEFINE G == CHOOSE W : IsW(W)
<1>8. IsSeries(G, n, m, d, i)
  <2> HIDE DEF n, d, i, IsW
  <2> QED
    BY <1>6, <1>7
<1>9. e = G[n]
  BY DEF WithLanes
<1>10. Follows(e, n, m, d, i)
  <2> HIDE DEF n, d, i, G
  <2> QED
    BY <1>5, <1>8, <1>9, SeriesFollows
<1>11. {i[j] : j \in 1..n} = {LaneOf(t, k) : k \in 0..(x.factor - 1)}
  <2>1. \A j \in 1..n : j - 1 \in 0..(x.factor - 1) /\ i[j] = LaneOf(t, j - 1)
    BY <1>1
  <2>2. \A k \in 0..(x.factor - 1) : k + 1 \in 1..n /\ i[k + 1] = LaneOf(t, k)
    BY <1>1
  <2> HIDE DEF i, n
  <2> QED
    BY <2>1, <2>2
<1> HIDE DEF n, d, i
<1> QED
  BY <1>3, <1>10, <1>11 DEF Follows

----------------------------------------------------------------------------
(* What the code computes. *)

(* What the calls are, and their numbers.                                   *)
LEMMA CallsAreASequence ==
    /\ Len(Calls) \in Nat /\ DOMAIN Calls = 1..Len(Calls)
    /\ \A t \in DOMAIN Calls : Calls[t] \in [name : FunctionNames, dim : Int, inKernel : BOOLEAN]
<1> DEFINE C == [name : FunctionNames, dim : Int, inKernel : BOOLEAN]
<1>1. Calls \in Seq(C)
  BY CallsAssumption
<1> HIDE DEF C
<1>2. Len(Calls) \in Nat /\ DOMAIN Calls = 1..Len(Calls) /\ \A t \in DOMAIN Calls : Calls[t] \in C
  BY <1>1
<1> QED
  BY <1>2 DEF C

(* The functions that are looked for, one by one.                           *)
LEMMA NamesAre ==
    /\ FunctionNames = {"get_global_id", "get_local_id", "get_global_size", "get_local_size",
                        "get_group_id", "get_num_groups"}
    /\ \A n \in 1..6 : Names[n] \in FunctionNames
    /\ Names \in Seq(FunctionNames) /\ {Names[n] : n \in DOMAIN Names} = FunctionNames
<1>1. DOMAIN Names = 1..6
  BY DEF Names
<1>2. {Names[n] : n \in 1..6} = {Names[1], Names[2], Names[3], Names[4], Names[5], Names[6]}
  OBVIOUS
<1>3. FunctionNames = {"get_global_id", "get_local_id", "get_global_size", "get_local_size",
                       "get_group_id", "get_num_groups"}
  BY <1>1, <1>2 DEF FunctionNames, Names
<1>4. \A n \in 1..6 : Names[n] \in FunctionNames
  BY <1>1 DEF FunctionNames
<1>5. Names \in Seq(FunctionNames)
  <2>1. Names[1] \in FunctionNames /\ Names[2] \in FunctionNames /\ Names[3] \in FunctionNames
        /\ Names[4] \in FunctionNames /\ Names[5] \in FunctionNames /\ Names[6] \in FunctionNames
    BY <1>4
  <2> QED
    BY <2>1 DEF Names
<1> QED
  BY <1>3, <1>4, <1>5 DEF FunctionNames

(* An instruction has the operand its operation asks for, and does not      *)
(* divide by zero.                                                          *)
Computable(i) ==
    /\ i \in Instrs
    /\ i.op # "call" => 1 \in DOMAIN i.args
    /\ i.op \in {"udiv", "urem"} => i.const # 0

(* What a call returns is a number.                                         *)
LEMMA CalledIsNumber ==
    ASSUME NEW t \in DOMAIN Calls, NEW x, x.groups \in Nat, NEW local \in Nat,
           NEW thread \in Nat \X Nat
    PROVE  Called(Calls[t], x, local, thread) \in Nat
<1>1. Calls[t].name \in FunctionNames
  BY CallsAreASequence
<1>2. /\ thread[1] \in Nat /\ thread[2] \in Nat
      /\ thread[1] * local \in Nat /\ x.groups * local \in Nat
  BY SMT
<1>3. Elsewhere(Calls[t].name) \in Nat
  BY DEF Elsewhere
<1>4. Calls[t].name \in {"get_global_id", "get_local_id", "get_global_size", "get_local_size",
                         "get_group_id", "get_num_groups"}
  BY <1>1, NamesAre
<1> HIDE DEF Elsewhere
<1> QED
  BY <1>2, <1>3, <1>4 DEF Called

(* So is what any instruction computes from numbers.                        *)
LEMMA ComputedIsNumber ==
    ASSUME NEW i, Computable(i), NEW x, x.groups \in Nat, NewLocal(x) \in Nat,
           NEW thread \in Nat \X Nat, NEW env, \A a \in Reads(i) : env[a] \in Nat
    PROVE  Computed(i, env, x, thread) \in Nat
<1>1. i.op \in Operations /\ i.const \in Nat /\ i.args \in Seq(Results) /\ i.def[1] \in DOMAIN Calls
  BY DEF Computable, Instrs, Results
<1>2. Word \in Nat \ {0}
  BY WidthsAssumption
<1>3. \A m \in DOMAIN i.args : env[i.args[m]] \in Nat
  BY DEF Reads
<1>4. Len(i.args) = 2 => 2 \in DOMAIN i.args
  BY <1>1
<1>5. CASE i.op = "call"
  <2>1. Called(Calls[i.def[1]], x, NewLocal(x), thread) \in Nat
    BY <1>1, CalledIsNumber
  <2> QED
    BY <1>5, <2>1 DEF Computed
<1>6. CASE i.op = "udiv"
  <2>1. env[i.args[1]] \in Nat /\ i.const \in Nat \ {0}
    BY <1>1, <1>3, <1>6 DEF Computable
  <2>2. env[i.args[1]] \div i.const \in Nat
    BY <2>1, DivMod
  <2> QED
    BY <1>6, <2>2 DEF Computed
<1>7. CASE i.op = "urem"
  <2>1. env[i.args[1]] \in Nat /\ i.const \in Nat \ {0}
    BY <1>1, <1>3, <1>7 DEF Computable
  <2>2. env[i.args[1]] % i.const \in 0..(i.const - 1)
    BY <2>1, DivMod
  <2>3. env[i.args[1]] % i.const \in Nat
    BY <2>2
  <2> QED
    BY <1>7, <2>3 DEF Computed
<1>8. CASE i.op = "mul"
  <2>1. env[i.args[1]] \in Nat
    BY <1>3, <1>8 DEF Computable
  <2>2. env[i.args[1]] * i.const \in Nat
    BY <1>1, <2>1, SMT
  <2>3. (env[i.args[1]] * i.const) % Word \in Nat
    BY <1>2, <2>2, DivMod
  <2> QED
    BY <1>8, <2>3 DEF Computed
<1>9. CASE i.op = "add"
  <2> DEFINE s == IF Len(i.args) = 2 THEN env[i.args[1]] + env[i.args[2]]
                  ELSE env[i.args[1]] + i.const
  <2>1. s \in Nat
    BY SMTT(20), <1>1, <1>3, <1>4, <1>9 DEF Computable
  <2> HIDE DEF s
  <2>2. s % Word \in Nat
    BY <1>2, <2>1, DivMod
  <2> QED
    BY <1>9, <2>2 DEF Computed, s
<1>10. CASE i.op = "use"
  BY <1>3, <1>10 DEF Computed, Computable
<1> QED
  BY <1>1, <1>5, <1>6, <1>7, <1>8, <1>9, <1>10 DEF Operations

(* It depends on the instruction's operands alone.                          *)
LEMMA ComputedFromOperands ==
    ASSUME NEW i, Computable(i), NEW x, NEW thread, NEW e, NEW f,
           \A a \in Reads(i) : e[a] = f[a]
    PROVE  Computed(i, e, x, thread) = Computed(i, f, x, thread)
<1>1. i.op \in Operations /\ i.args \in Seq(Results)
  BY DEF Computable, Instrs
<1>2. i.op # "call" => e[i.args[1]] = f[i.args[1]]
  BY DEF Computable, Reads
<1>3. Len(i.args) = 2 => e[i.args[2]] = f[i.args[2]]
  <2>1. Len(i.args) = 2 => 2 \in DOMAIN i.args
    BY <1>1
  <2> QED
    BY <2>1 DEF Reads
<1> QED
  BY <1>1, <1>2, <1>3 DEF Computed, Operations

(* Code that defines its operands first is evaluated in one pass: in the    *)
(* end the value of each instruction is what it computes from the values of *)
(* the others.                                                              *)
LEMMA ValuesAre ==
    ASSUME NEW c, IsCode(c), OperandsFirst(c), \A i \in Body(c) : Computable(i),
           NEW x, x.groups \in Nat, NewLocal(x) \in Nat, NEW thread \in Nat \X Nat
    PROVE  LET v == Values(c, x, thread)
           IN  /\ v \in [Defs(c) -> Nat]
               /\ \A i \in Body(c) : v[i.def] = Computed(i, v, x, thread)
<1> DEFINE N == Len(c)
           V == [Defs(c) -> Nat]
           zero == [d \in Defs(c) |-> 0]
           Next1(n, env) == [env EXCEPT ![c[n].def] = Computed(c[n], env, x, thread)]
           h == [p \in Nat \X V |-> IF p[1] \in 1..N THEN Next1(p[1], p[2]) ELSE p[2]]
           IsEnv(f) == f = [n \in 0..N |->
                              IF n = 0 THEN zero
                              ELSE LET env == f[n - 1]
                                   IN  [env EXCEPT ![c[n].def] = Computed(c[n], env, x, thread)]]
<1>1. N \in Nat /\ DOMAIN c = 1..N
  BY DEF IsCode
<1>2. \A n \in 1..N : c[n] \in Body(c) /\ Computable(c[n]) /\ c[n].def \in Defs(c)
  BY <1>1 DEF Body, Defs
<1>3. \A n \in 1..N : \A a \in Reads(c[n]) : \E m \in 1..N : m < n /\ c[m].def = a
  <2> SUFFICES ASSUME NEW n \in 1..N, NEW a \in Reads(c[n])
               PROVE  \E m \in 1..N : m < n /\ c[m].def = a
    OBVIOUS
  <2>1. Prec(c, a, c[n].def)
    BY <1>2 DEF OperandsFirst
  <2>2. PICK k, l \in DOMAIN c : k < l /\ c[k].def = a /\ c[l].def = c[n].def
    BY <2>1 DEF Prec
  <2>3. l = n
    BY <1>1, <2>2 DEF IsCode
  <2> QED
    BY <1>1, <2>2, <2>3
<1>4. ASSUME NEW n \in 1..N, NEW env \in V PROVE Computed(c[n], env, x, thread) \in Nat
  <2>1. \A a \in Reads(c[n]) : a \in Defs(c)
    BY <1>1, <1>3 DEF Defs
  <2>2. \A a \in Reads(c[n]) : env[a] \in Nat
    BY <2>1
  <2> QED
    BY <1>2, <2>2, ComputedIsNumber
<1>5. \A n \in 1..N, env \in V : Next1(n, env) \in V
  BY <1>2, <1>4
<1>6. h \in [Nat \X V -> V]
  <2> HIDE DEF Next1, V
  <2> QED
    BY <1>5
<1>7. zero \in V
  OBVIOUS
<1>8. PICK f \in [0..N -> V] : IsRecursive(f, N, zero, h)
  <2> HIDE DEF h, V, N, zero
  <2> QED
    BY <1>1, <1>6, <1>7, RecursiveExists
<1>9. IsEnv(f)
  <2>1. ASSUME NEW n \in 0..N, n # 0 PROVE h[<<n, f[n - 1]>>] = Next1(n, f[n - 1])
    <3>1. n \in Nat /\ n \in 1..N /\ n - 1 \in 0..N
      BY <1>1, <2>1
    <3>2. f[n - 1] \in V
      BY <1>8, <3>1
    <3> HIDE DEF V, Next1
    <3> QED
      BY <3>1, <3>2
  <2> HIDE DEF h, V, N, zero
  <2> QED
    BY <1>8, <2>1 DEF IsRecursive
<1> DEFINE g == CHOOSE u : IsEnv(u)
<1>10. IsEnv(g)
  <2> HIDE DEF IsEnv
  <2> QED
    BY <1>9
<1>11. Values(c, x, thread) = g[N]
  BY DEF Values
<1>12. g[0] = zero /\ \A n \in 1..N : g[n] = Next1(n, g[n - 1])
  <2> HIDE DEF g, zero, V, h, Next1
  <2>1. g = [n \in 0..N |-> IF n = 0 THEN zero ELSE Next1(n, g[n - 1])]
    BY <1>10 DEF Next1
  <2> HIDE DEF IsEnv
  <2>2. 0 \in 0..N /\ \A n \in 1..N : n \in 0..N /\ n # 0
    BY <1>1
  <2> QED
    BY <2>1, <2>2
<1> HIDE DEF g, h, zero, IsEnv, Next1
<1> DEFINE Evaluated(n) ==
             /\ g[n] \in V
             /\ \A m \in 1..n : g[n][c[m].def] = Computed(c[m], g[n], x, thread)
           S == {n \in Nat : n \in 0..N => Evaluated(n)}
<1>13. 0 \in S
  BY <1>7, <1>12
<1>14. ASSUME NEW n \in Nat, n \in S PROVE n + 1 \in S
  <2> SUFFICES ASSUME n + 1 \in 0..N PROVE Evaluated(n + 1)
    OBVIOUS
  <2>1. n \in 0..N /\ n + 1 \in 1..N /\ (n + 1) - 1 = n
    BY <1>1
  <2>2. Evaluated(n)
    BY <1>14, <2>1
  <2>3. g[n + 1] = Next1(n + 1, g[n])
    BY <1>12, <2>1
  <2>4. g[n] \in V
    BY <2>2
  <2>5. g[n + 1] \in V
    BY <1>5, <2>1, <2>3, <2>4
  <2>6. /\ g[n + 1][c[n + 1].def] = Computed(c[n + 1], g[n], x, thread)
        /\ \A d \in Defs(c) : d # c[n + 1].def => g[n + 1][d] = g[n][d]
    BY <1>2, <2>1, <2>3, <2>4 DEF Next1
  <2>7. \A m \in 1..N : m # n + 1 => c[m].def # c[n + 1].def /\ c[m].def \in Defs(c)
    BY <1>1, <1>2, <2>1 DEF IsCode
  <2>8. ASSUME NEW m \in 1..(n + 1)
        PROVE  Computed(c[m], g[n + 1], x, thread) = Computed(c[m], g[n], x, thread)
    <3>1. m \in 1..N
      BY <1>1, <2>1
    <3>2. ASSUME NEW a \in Reads(c[m]) PROVE g[n + 1][a] = g[n][a]
      <4>1. PICK k \in 1..N : k < m /\ c[k].def = a
        BY <1>3, <3>1
      <4>2. k # n + 1
        BY <4>1
      <4> QED
        BY <2>6, <2>7, <4>1, <4>2
    <3>3. Computable(c[m])
      BY <1>2, <3>1
    <3> QED
      BY <3>2, <3>3, ComputedFromOperands
  <2>9. ASSUME NEW m \in 1..(n + 1)
        PROVE  g[n + 1][c[m].def] = Computed(c[m], g[n + 1], x, thread)
    <3>1. CASE m = n + 1
      BY <2>6, <2>8, <3>1
    <3>2. CASE m # n + 1
      <4>1. m \in 1..n /\ m \in 1..N
        BY <1>1, <2>1, <3>2
      <4>2. g[n + 1][c[m].def] = g[n][c[m].def]
        BY <2>6, <2>7, <3>2, <4>1
      <4>3. g[n][c[m].def] = Computed(c[m], g[n], x, thread)
        BY <2>2, <4>1
      <4> QED
        BY <2>8, <4>2, <4>3
    <3> QED
      BY <3>1, <3>2
  <2> QED
    BY <2>5, <2>9
<1>15. N \in S
  <2> HIDE DEF S
  <2> QED
    BY <1>1, <1>13, <1>14, Induction
<1>16. Evaluated(N)
  BY <1>1, <1>15
<1>17. \A i \in Body(c) : \E m \in 1..N : i = c[m]
  BY <1>1 DEF Body
<1> QED
  BY <1>11, <1>16, <1>17

(* The value of each kind of instruction.                                   *)
ComputesAs(env, x, thread) ==
    /\ \A d, a, k : /\ Computed(Instr(d, "udiv", <<a>>, k), env, x, thread) = env[a] \div k
                    /\ Computed(Instr(d, "urem", <<a>>, k), env, x, thread) = env[a] % k
                    /\ Computed(Instr(d, "mul", <<a>>, k), env, x, thread) = (env[a] * k) % Word
                    /\ Computed(Instr(d, "add", <<a>>, k), env, x, thread) = (env[a] + k) % Word
    /\ \A d, a, b, k : Computed(Instr(d, "add", <<a, b>>, k), env, x, thread)
                          = (env[a] + env[b]) % Word
    /\ \A t : Computed(CallOf(t), env, x, thread) = Called(Calls[t], x, NewLocal(x), thread)

(* It is the value that module NDRangeScaling gives.                        *)
LEMMA ComputedIs ==
    ASSUME NEW env, NEW x, NEW thread
    PROVE  ComputesAs(env, x, thread)
<1>1. \A d, op, args, k : LET i == Instr(d, op, args, k)
                          IN  i.def = d /\ i.op = op /\ i.args = args /\ i.const = k
  BY DEF Instr
<1>2. /\ \A d, a, k : Computed(Instr(d, "udiv", <<a>>, k), env, x, thread) = env[a] \div k
      /\ \A d, a, k : Computed(Instr(d, "urem", <<a>>, k), env, x, thread) = env[a] % k
      /\ \A d, a, k : Computed(Instr(d, "mul", <<a>>, k), env, x, thread) = (env[a] * k) % Word
  BY <1>1 DEF Computed
<1>3. \A d, a, k : Computed(Instr(d, "add", <<a>>, k), env, x, thread) = (env[a] + k) % Word
  <2>1. \A a : Len(<<a>>) # 2 /\ <<a>>[1] = a
    OBVIOUS
  <2> QED
    BY <1>1, <2>1 DEF Computed
<1>4. \A d, a, b, k : Computed(Instr(d, "add", <<a, b>>, k), env, x, thread)
                         = (env[a] + env[b]) % Word
  <2>1. \A a, b : Len(<<a, b>>) = 2 /\ <<a, b>>[1] = a /\ <<a, b>>[2] = b
    OBVIOUS
  <2> QED
    BY <1>1, <2>1 DEF Computed
<1>5. \A t : Computed(CallOf(t), env, x, thread) = Called(Calls[t], x, NewLocal(x), thread)
  <2>1. \A t : CallOf(t).op = "call" /\ CallOf(t).def[1] = t
    BY <1>1 DEF CallOf, Result
  <2> QED
    BY <2>1 DEF Computed
<1> QED
  BY <1>2, <1>3, <1>4, <1>5 DEF ComputesAs


----------------------------------------------------------------------------
(* The inductive invariant: the code is what the kernel has and what the    *)
(* passes added for the calls they scaled, in an order that defines each    *)
(* operand before it is used.                                               *)

(* The calls of the kernel at hand.                                         *)
InKernel == {t \in DOMAIN Calls : Calls[t].inKernel}

(* The ids and sizes among the calls: those the passes scale.               *)
IsId(t) == Calls[t].name \in {"get_global_id", "get_local_id"}

IsSize(t) == Calls[t].name \in {"get_global_size", "get_local_size"}

(* What pass x.pass has added for call t when it has scaled the calls in S. *)
AddedTo(x, S, t) ==
    CASE t \notin S -> {}
      [] t \in S /\ x.pass = "tv" ->
            {ScaledOf(x, t)} \cup {LaneOf(t, k) : k \in 0..(x.factor - 1)}
      [] t \in S /\ x.pass = "tc" /\ IsId(t) ->
            {DivOf(x, t), MulOf(x, t), RemOf(x, t), BaseOf(t)}
               \cup {CopyOf(x, t, k) : k \in 1..(x.factor - 1)}
      [] t \in S /\ x.pass = "tc" /\ ~IsId(t) -> {ScaledOf(x, t)}

(* What the kernel's user of call t reads by then.                          *)
ReadBy(x, S, t) ==
    CASE t \notin S \/ x.pass = "tv"          -> Result(t)
      [] t \in S /\ x.pass = "tc" /\ IsId(t)  -> Base(t)
      [] t \in S /\ x.pass = "tc" /\ ~IsId(t) -> Mul(t)

(* All the code by then.                                                    *)
Whole(x, S) ==
    {CallOf(t) : t \in InKernel}
    \cup {UseOf(t, ReadBy(x, S, t)) : t \in InKernel}
    \cup UNION {AddedTo(x, S, t) : t \in InKernel}

(* The code is that, in an order that defines operands first.               *)
CodeInv == IsCode(code) /\ OperandsFirst(code) /\ Body(code) = Whole(launch, scaled)

(* Only calls of the launch's direction are scaled, and of ids and sizes.   *)
ScaledInv ==
    /\ launch \in Launches
    /\ scaled \subseteq InKernel
    /\ \A t \in scaled : /\ Calls[t].dim = launch.direction
                         /\ IsId(t) \/ IsSize(t)
                         /\ launch.pass = "tv" => IsId(t)

(* The lists are right for the functions that were looked for.              *)
CallsInv ==
    /\ names \in Seq(FunctionNames)
    /\ oclInsts \in [Directions -> [FunctionNames -> SUBSET InKernel]]
    /\ \A d \in Directions, f \in FunctionNames :
          f \in {names[n] : n \in DOMAIN names} \/ oclInsts[d][f] = Found(f, d)

(* The map has the scaled ids and their bases with their copies, or with    *)
(* their lanes.                                                             *)
MapInv ==
    /\ launch.pass = "tc" =>
          /\ DOMAIN cMap = UNION {{Result(t), Base(t)} : t \in {u \in scaled : IsId(u)}}
          /\ \A t \in scaled : IsId(t) =>
                /\ cMap[Result(t)] = <<>>
                /\ cMap[Base(t)] = [k \in 1..(launch.factor - 1) |-> Copy(t, k)]
    /\ launch.pass = "tv" =>
          /\ DOMAIN cMap = {Result(t) : t \in scaled}
          /\ \A t \in scaled : cMap[Result(t)] = [k \in 0..(launch.factor - 1) |-> Copy(t, k)]

(* The inductive invariant.                                                 *)
IInv == CodeInv /\ ScaledInv /\ CallsInv /\ MapInv

----------------------------------------------------------------------------
(* The invariant holds at first. *)

(* The calls of the kernel are listed, and each once.                       *)
IsListOf(s, n) ==
    /\ s \in Seq(InKernel)
    /\ {s[m] : m \in DOMAIN s} = {t \in InKernel : t <= n}
    /\ \A k, l \in DOMAIN s : s[k] = s[l] => k = l

(* The list stays right when the next call is looked at.                    *)
LEMMA ListGrows ==
    ASSUME NEW n \in Nat, n + 1 \in DOMAIN Calls, NEW s, IsListOf(s, n)
    PROVE  IsListOf(IF Calls[n + 1].inKernel THEN Append(s, n + 1) ELSE s, n + 1)
<1>1. \A t \in InKernel : t \in Nat
  BY CallsAreASequence DEF InKernel
<1>2. CASE Calls[n + 1].inKernel
  <2> DEFINE e == Append(s, n + 1)
  <2>1. n + 1 \in InKernel
    BY <1>2 DEF InKernel
  <2>2. /\ s \in Seq(InKernel) /\ Len(s) \in Nat /\ DOMAIN s = 1..Len(s)
        /\ \A k \in DOMAIN s : s[k] <= n /\ s[k] \in Nat
    BY <1>1 DEF IsListOf
  <2>3. /\ e \in Seq(InKernel) /\ DOMAIN e = 1..(Len(s) + 1)
        /\ e[Len(s) + 1] = n + 1 /\ \A k \in 1..Len(s) : e[k] = s[k]
    BY <2>1, <2>2
  <2> HIDE DEF e
  <2>4. DOMAIN e = DOMAIN s \cup {Len(s) + 1}
    BY <2>2, <2>3
  <2>5. {e[k] : k \in DOMAIN e} = {s[k] : k \in DOMAIN s} \cup {n + 1}
    BY <2>2, <2>3, <2>4
  <2>6. {t \in InKernel : t <= n + 1} = {t \in InKernel : t <= n} \cup {n + 1}
    BY <1>1, <2>1
  <2>7. \A k, l \in DOMAIN e : e[k] = e[l] => k = l
    BY <2>2, <2>3 DEF IsListOf
  <2> QED
    BY <1>2, <2>3, <2>5, <2>6, <2>7 DEF IsListOf, e
<1>3. CASE ~Calls[n + 1].inKernel
  <2>1. {t \in InKernel : t <= n + 1} = {t \in InKernel : t <= n}
    BY <1>1, <1>3 DEF InKernel
  <2> QED
    BY <1>3, <2>1 DEF IsListOf
<1> QED
  BY <1>2, <1>3

(* The list of the kernel's calls is right.                                 *)
LEMMA CallsInKernelIsList ==
    IsListOf(CallsInKernel, Len(Calls))
<1> DEFINE N == Len(Calls)
           V == Seq(InKernel)
           h == [p \in Nat \X V |->
                   IF p[1] \in DOMAIN Calls
                   THEN IF Calls[p[1]].inKernel THEN Append(p[2], p[1]) ELSE p[2]
                   ELSE p[2]]
           IsUpTo(f) == f = [n \in 0..N |->
                               IF n = 0 THEN <<>>
                               ELSE IF Calls[n].inKernel THEN Append(f[n - 1], n)
                               ELSE f[n - 1]]
<1>0. N \in Nat /\ DOMAIN Calls = 1..N
  BY CallsAreASequence
<1>1. h \in [Nat \X V -> V]
  <2> SUFFICES ASSUME NEW k \in Nat, NEW s \in V, k \in DOMAIN Calls, Calls[k].inKernel
               PROVE  Append(s, k) \in V
    OBVIOUS
  <2>1. k \in InKernel
    BY DEF InKernel
  <2> QED
    BY <2>1
<1>2. <<>> \in V
  OBVIOUS
<1>3. PICK f \in [0..N -> V] : IsRecursive(f, N, <<>>, h)
  <2> HIDE DEF h, V, N
  <2> QED
    BY <1>0, <1>1, <1>2, RecursiveExists
<1>4. IsUpTo(f)
  <2>1. ASSUME NEW n \in 0..N, n # 0
        PROVE  h[<<n, f[n - 1]>>] = IF Calls[n].inKernel THEN Append(f[n - 1], n) ELSE f[n - 1]
    <3>1. n \in Nat /\ n \in DOMAIN Calls /\ n - 1 \in 0..N
      BY <1>0, <2>1
    <3>2. f[n - 1] \in V
      BY <1>3, <3>1
    <3> HIDE DEF V
    <3> QED
      BY <3>1, <3>2
  <2> HIDE DEF h, V, N
  <2> QED
    BY <1>3, <2>1 DEF IsRecursive
<1> DEFINE g == CHOOSE u : IsUpTo(u)
<1>5. IsUpTo(g)
  <2> HIDE DEF IsUpTo
  <2> QED
    BY <1>4
<1>6. CallsInKernel = g[N]
  BY DEF CallsInKernel
<1> HIDE DEF g, h, V
<1> DEFINE S == {n \in Nat : n \in 0..N => IsListOf(g[n], n)}
<1>7. 0 \in S
  <2>1. 0 \in 0..N => g[0] = <<>>
    BY <1>0, <1>5
  <2>2. {t \in InKernel : t <= 0} = {}
    BY CallsAreASequence DEF InKernel
  <2>3. /\ <<>> \in Seq(InKernel) /\ {<<>>[m] : m \in DOMAIN <<>>} = {}
        /\ \A k, l \in DOMAIN <<>> : <<>>[k] = <<>>[l] => k = l
    OBVIOUS
  <2>4. IsListOf(<<>>, 0)
    BY <2>2, <2>3 DEF IsListOf
  <2> QED
    BY <2>1, <2>4
<1>8. ASSUME NEW n \in Nat, n \in S PROVE n + 1 \in S
  <2> SUFFICES ASSUME n + 1 \in 0..N PROVE IsListOf(g[n + 1], n + 1)
    OBVIOUS
  <2>1. n + 1 \in DOMAIN Calls /\ IsListOf(g[n], n)
    BY <1>0, <1>8
  <2>2. g[n + 1] = IF Calls[n + 1].inKernel THEN Append(g[n], n + 1) ELSE g[n]
    <3>1. n + 1 # 0 /\ (n + 1) - 1 = n
      OBVIOUS
    <3>2. g[n + 1] = IF Calls[n + 1].inKernel THEN Append(g[(n + 1) - 1], n + 1) ELSE g[(n + 1) - 1]
      BY <1>5, <3>1
    <3> QED
      BY <3>1, <3>2
  <2> QED
    BY <2>1, <2>2, ListGrows
<1> HIDE DEF S
<1>9. N \in S
  BY <1>0, <1>7, <1>8, Induction
<1> QED
  BY <1>0, <1>6, <1>9 DEF S

(* The code of the kernel before any pass.                                  *)
FirstCode ==
    [n \in DOMAIN CallsInKernel |-> CallOf(CallsInKernel[n])]
    \o [n \in DOMAIN CallsInKernel |-> UseOf(CallsInKernel[n], Result(CallsInKernel[n]))]

(* It is what the invariant says of no scaled calls.                        *)
LEMMA InitialCode ==
    ASSUME NEW x
    PROVE  LET e == FirstCode IN IsCode(e) /\ OperandsFirst(e) /\ Body(e) = Whole(x, {})
<1> DEFINE e == FirstCode
           s == CallsInKernel
           L == Len(s)
           a == [n \in DOMAIN s |-> CallOf(s[n])]
           b == [n \in DOMAIN s |-> UseOf(s[n], Result(s[n]))]
<1>1. IsListOf(s, Len(Calls))
  BY CallsInKernelIsList
<1> HIDE DEF s
<1>2. L \in Nat /\ DOMAIN s = 1..L /\ \A n \in 1..L : s[n] \in InKernel
  BY <1>1 DEF IsListOf
<1>3. {s[n] : n \in 1..L} = InKernel
  <2>1. {t \in InKernel : t <= Len(Calls)} = InKernel
    BY CallsAreASequence DEF InKernel
  <2> QED
    BY <1>1, <1>2, <2>1 DEF IsListOf
<1>4. \A k, l \in 1..L : s[k] = s[l] => k = l
  BY <1>1, <1>2 DEF IsListOf
<1>5. \A n \in 1..L : /\ CallOf(s[n]) \in Instrs /\ UseOf(s[n], Result(s[n])) \in Instrs
  <2> SUFFICES ASSUME NEW t \in InKernel PROVE CallOf(t) \in Instrs /\ UseOf(t, Result(t)) \in Instrs
    BY <1>2
  <2>1. t \in DOMAIN Calls /\ Result(t) \in Results /\ Use(t) \in Results
    BY DEF InKernel, Results, Result, Use
  <2>2. <<>> \in Seq(Results) /\ <<Result(t)>> \in Seq(Results)
    BY <2>1
  <2> QED
    BY <2>1, <2>2 DEF Instrs, Instr, CallOf, UseOf, Operations
<1> HIDE DEF L
<1>6. a \in Seq(Instrs) /\ Len(a) = L /\ \A n \in 1..L : a[n] = CallOf(s[n])
  <2>1. a = [n \in 1..L |-> CallOf(s[n])] /\ a \in [1..L -> Instrs]
    BY <1>2, <1>5
  <2> HIDE DEF a
  <2>2. a \in Seq(Instrs)
    BY <1>2, <2>1, SeqDef
  <2>3. DOMAIN a = 1..Len(a) /\ Len(a) \in Nat
    BY <2>2
  <2> QED
    BY <1>2, <2>1, <2>2, <2>3
<1>7. b \in Seq(Instrs) /\ Len(b) = L /\ \A n \in 1..L : b[n] = UseOf(s[n], Result(s[n]))
  <2>1. b = [n \in 1..L |-> UseOf(s[n], Result(s[n]))] /\ b \in [1..L -> Instrs]
    BY <1>2, <1>5
  <2> HIDE DEF b
  <2>2. b \in Seq(Instrs)
    BY <1>2, <2>1, SeqDef
  <2>3. DOMAIN b = 1..Len(b) /\ Len(b) \in Nat
    BY <2>2
  <2> QED
    BY <1>2, <2>1, <2>2, <2>3
<1>8. e = a \o b
  BY DEF FirstCode, s
<1> HIDE DEF a, b, e
<1>9. /\ e \in Seq(Instrs) /\ Len(e) = L + L
      /\ \A n \in 1..(L + L) : e[n] = IF n <= L THEN a[n] ELSE b[n - L]
  <2>1. /\ a \o b \in Seq(Instrs)
        /\ Len(a \o b) = Len(a) + Len(b)
        /\ \A n \in 1..(Len(a) + Len(b)) : (a \o b)[n] = IF n <= Len(a) THEN a[n] ELSE b[n - Len(a)]
    BY <1>6, <1>7, ConcatProperties
  <2> QED
    BY <1>6, <1>7, <1>8, <2>1
<1>10. DOMAIN e = 1..(L + L)
  BY <1>9
<1>11. /\ \A n \in 1..L : e[n] = CallOf(s[n])
       /\ \A n \in 1..L : e[L + n] = UseOf(s[n], Result(s[n]))
  <2>1. \A n \in 1..L : n \in 1..(L + L) /\ n <= L
    BY <1>2
  <2>2. \A n \in 1..L : L + n \in 1..(L + L) /\ ~(L + n <= L) /\ (L + n) - L = n
    BY <1>2
  <2>3. \A n \in 1..L : e[n] = a[n]
    BY <1>9, <2>1
  <2>4. \A n \in 1..L : e[L + n] = b[(L + n) - L]
    BY <1>9, <2>2
  <2> QED
    BY <1>6, <1>7, <2>2, <2>3, <2>4
<1>a. ASSUME NEW n \in 1..L, NEW m, m = L + n
      PROVE  e[m] = UseOf(s[n], Result(s[n])) /\ e[m].def = Use(s[n])
  <2>1. e[m] = UseOf(s[n], Result(s[n]))
    BY <1>11, <1>a
  <2> QED
    BY <2>1 DEF UseOf, Instr
<1>12. \A n \in 1..(L + L) : n \in 1..L \/ \E k \in 1..L : n = L + k
  <2> SUFFICES ASSUME NEW n \in 1..(L + L), n > L PROVE \E k \in 1..L : n = L + k
    BY <1>2
  <2>1. n - L \in 1..L /\ n = L + (n - L)
    BY <1>2
  <2> QED
    BY <2>1
<1>13. \A t : /\ CallOf(t).def = Result(t) /\ \A d : UseOf(t, d).def = Use(t)
              /\ Result(t)[1] = t /\ Use(t)[1] = t
  BY DEF CallOf, UseOf, Instr, Result, Use
<1>14. IsCode(e)
  <2> SUFFICES ASSUME NEW m \in DOMAIN e, NEW n \in DOMAIN e, e[m].def = e[n].def PROVE m = n
    BY <1>9 DEF IsCode
  <2>1. \A t, u : Result(t) # Use(u)
    BY DEF Result, Use
  <2>2. CASE m \in 1..L /\ n \in 1..L
    <3>1. Result(s[m]) = Result(s[n])
      BY <1>11, <1>13, <2>2
    <3> QED
      BY <1>4, <1>13, <2>2, <3>1
  <2>3. ASSUME NEW k \in 1..L, NEW l \in 1..L, m = L + k, n = L + l PROVE m = n
    <3>1. Use(s[k]) = Use(s[l])
      BY <1>a, <1>13, <2>3
    <3> QED
      BY <1>4, <1>13, <2>3, <3>1
  <2>4. ASSUME NEW k \in 1..L, m = L + k, n \in 1..L PROVE FALSE
    BY <1>a, <1>11, <1>13, <2>1, <2>4
  <2>5. ASSUME NEW k \in 1..L, n = L + k, m \in 1..L PROVE FALSE
    BY <1>a, <1>11, <1>13, <2>1, <2>5
  <2> QED
    BY <1>10, <1>12, <2>2, <2>3, <2>4, <2>5
<1>15. Body(e) = {CallOf(t) : t \in InKernel} \cup {UseOf(t, Result(t)) : t \in InKernel}
  <2>1. \A n \in 1..L : n \in DOMAIN e /\ L + n \in DOMAIN e
    BY <1>2, <1>10
  <2>2. \A t \in InKernel : \E n \in 1..L : t = s[n]
    BY <1>3
  <2>3. \A t \in InKernel : CallOf(t) \in Body(e) /\ UseOf(t, Result(t)) \in Body(e)
    BY <1>11, <2>1, <2>2 DEF Body
  <2>4. \A n \in DOMAIN e : \E t \in InKernel : e[n] = CallOf(t) \/ e[n] = UseOf(t, Result(t))
    BY <1>2, <1>10, <1>11, <1>12, <1>a
  <2> QED
    BY <2>3, <2>4 DEF Body
<1>16. Whole(x, {}) = {CallOf(t) : t \in InKernel} \cup {UseOf(t, Result(t)) : t \in InKernel}
  <2>1. \A t : AddedTo(x, {}, t) = {} /\ ReadBy(x, {}, t) = Result(t)
    BY DEF AddedTo, ReadBy
  <2> QED
    BY <2>1 DEF Whole
<1>17. OperandsFirst(e)
  <2> SUFFICES ASSUME NEW i \in Body(e), NEW o \in Reads(i) PROVE Prec(e, o, i.def)
    BY DEF OperandsFirst
  <2>1. \A t : Reads(CallOf(t)) = {} /\ Reads(UseOf(t, Result(t))) = {Result(t)}
    BY ReadsOf DEF CallOf, UseOf
  <2>2. PICK t \in InKernel : i = UseOf(t, Result(t))
    BY <1>15, <2>1
  <2>3. o = Result(t) /\ i.def = Use(t)
    BY <1>13, <2>1, <2>2
  <2>4. PICK n \in 1..L : t = s[n]
    BY <1>3
  <2>5. n \in DOMAIN e /\ L + n \in DOMAIN e /\ n < L + n
    BY <1>2, <1>10
  <2>6. e[n].def = Result(t) /\ e[L + n].def = Use(t)
    BY <1>a, <1>11, <1>13, <2>4
  <2> QED
    BY <2>3, <2>5, <2>6 DEF Prec
<1> QED
  BY <1>14, <1>15, <1>16, <1>17 DEF e

----------------------------------------------------------------------------
(* The steps keep it. *)

(* What the passes add for a call is named after it and reads only what is. *)
LEMMA AddedToIs ==
    ASSUME NEW x, x.pass \in {"tc", "tv"}, NEW S, NEW t, NEW i \in AddedTo(x, S, t)
    PROVE  /\ t \in S /\ i.def[1] = t /\ i.def # Result(t) /\ i.def # Use(t)
           /\ \A a \in Reads(i) : a[1] = t
<1>1. t \in S
  BY DEF AddedTo
<1>2. \/ i \in {ScaledOf(x, t), DivOf(x, t), MulOf(x, t), RemOf(x, t), BaseOf(t)}
      \/ \E k : i = CopyOf(x, t, k) \/ i = LaneOf(t, k)
  BY <1>1 DEF AddedTo
<1>3. /\ ScaledOf(x, t).def = Mul(t) /\ DivOf(x, t).def = Div(t) /\ MulOf(x, t).def = Mul(t)
      /\ RemOf(x, t).def = Rem(t) /\ BaseOf(t).def = Base(t)
      /\ \A k : CopyOf(x, t, k).def = Copy(t, k) /\ LaneOf(t, k).def = Copy(t, k)
  BY DEF ScaledOf, DivOf, MulOf, RemOf, BaseOf, CopyOf, LaneOf, Instr
<1>4. /\ Reads(ScaledOf(x, t)) = {Result(t)} /\ Reads(DivOf(x, t)) = {Result(t)}
      /\ Reads(MulOf(x, t)) = {Div(t)} /\ Reads(RemOf(x, t)) = {Result(t)}
      /\ Reads(BaseOf(t)) = {Mul(t), Rem(t)}
      /\ \A k : Reads(CopyOf(x, t, k)) = {Base(t)} /\ Reads(LaneOf(t, k)) = {Mul(t)}
  BY ReadsOf DEF ScaledOf, DivOf, MulOf, RemOf, BaseOf, CopyOf, LaneOf
<1>5. /\ Mul(t)[1] = t /\ Div(t)[1] = t /\ Rem(t)[1] = t /\ Base(t)[1] = t /\ Result(t)[1] = t
      /\ \A k : Copy(t, k)[1] = t
  BY DEF Mul, Div, Rem, Base, Copy, Result
<1>6. i.def \in {Mul(t), Div(t), Rem(t), Base(t)} \/ \E k : i.def = Copy(t, k)
  BY <1>2, <1>3
<1>7. i.def # Result(t) /\ i.def # Use(t) /\ i.def[1] = t
  BY <1>5, <1>6, Different
<1>8. \A a \in Reads(i) : a[1] = t
  BY <1>2, <1>4, <1>5
<1> QED
  BY <1>1, <1>7, <1>8

(* A user reads something of its own call, and the call itself if it is not *)
(* scaled.                                                                  *)
LEMMA ReadByIs ==
    ASSUME NEW x, x.pass \in {"tc", "tv"}, NEW S, NEW t
    PROVE  ReadBy(x, S, t)[1] = t /\ (t \notin S => ReadBy(x, S, t) = Result(t))
<1>1. Result(t)[1] = t /\ Base(t)[1] = t /\ Mul(t)[1] = t
  BY DEF Result, Base, Mul
<1> QED
  BY <1>1 DEF ReadBy

(* A call that is not scaled is as it was in the kernel.                    *)
LEMMA StillUnscaled ==
    ASSUME NEW x, x.pass \in {"tc", "tv"}, NEW S, NEW t \in InKernel \ S,
           NEW c, Body(c) = Whole(x, S)
    PROVE  Unscaled(c, t)
<1>1. t \in DOMAIN Calls /\ CallOf(t) \in Body(c) /\ UseOf(t, Result(t)) \in Body(c)
  <2>1. ReadBy(x, S, t) = Result(t)
    BY ReadByIs
  <2> QED
    BY <2>1 DEF Whole, InKernel
<1>2. ASSUME NEW i \in Body(c)
      PROVE  \/ \E u \in InKernel : i = CallOf(u) \/ i = UseOf(u, ReadBy(x, S, u))
             \/ \E u \in S : i \in AddedTo(x, S, u)
  BY AddedToIs DEF Whole
<1>3. \A u : /\ CallOf(u).def = Result(u) /\ \A d : UseOf(u, d).def = Use(u)
             /\ Result(u)[1] = u /\ Use(u)[1] = u
  BY DEF CallOf, UseOf, Instr, Result, Use
<1>4. \A u, d : Reads(CallOf(u)) = {} /\ Reads(UseOf(u, d)) = {d}
  BY ReadsOf DEF CallOf, UseOf
<1>5. ASSUME NEW i \in Body(c), Result(t) \in Reads(i) PROVE i = UseOf(t, Result(t))
  <2>1. CASE \E u \in InKernel : i = CallOf(u)
    BY <1>4, <1>5, <2>1
  <2>2. ASSUME NEW u \in InKernel, i = UseOf(u, ReadBy(x, S, u)) PROVE i = UseOf(t, Result(t))
    <3>1. Result(t) = ReadBy(x, S, u)
      BY <1>4, <1>5, <2>2
    <3>2. u = t
      BY <1>3, <3>1, ReadByIs
    <3> QED
      BY <2>2, <3>1, <3>2
  <2>3. ASSUME NEW u \in S, i \in AddedTo(x, S, u) PROVE FALSE
    <3>1. Result(t)[1] = u
      BY <1>5, <2>3, AddedToIs
    <3> QED
      BY <1>3, <2>3, <3>1
  <2> QED
    BY <1>2, <2>1, <2>2, <2>3
<1>6. ASSUME NEW i \in Body(c), i.def[1] = t PROVE i.def \in {Result(t), Use(t)}
  <2>1. ASSUME NEW u \in S, i \in AddedTo(x, S, u) PROVE FALSE
    BY <1>6, <2>1, AddedToIs
  <2> QED
    BY <1>2, <1>3, <1>6, <2>1
<1> QED
  BY <1>1, <1>5, <1>6 DEF Unscaled

(* Scaling one more call changes its user and adds what is new for it.      *)
LEMMA WholeGrows ==
    ASSUME NEW x, x.pass \in {"tc", "tv"}, NEW S, NEW t \in InKernel \ S,
           NEW T, T = S \cup {t}
    PROVE  Whole(x, T) = (Whole(x, S) \ {UseOf(t, Result(t))})
                         \cup AddedTo(x, T, t) \cup {UseOf(t, ReadBy(x, T, t))}
<1> DEFINE new == (Whole(x, S) \ {UseOf(t, Result(t))})
                  \cup AddedTo(x, T, t) \cup {UseOf(t, ReadBy(x, T, t))}
<1>1. ASSUME NEW u, u # t
      PROVE  AddedTo(x, T, u) = AddedTo(x, S, u) /\ ReadBy(x, T, u) = ReadBy(x, S, u)
  <2>1. u \in T <=> u \in S
    BY <1>1
  <2> QED
    BY <2>1 DEF AddedTo, ReadBy
<1>2. AddedTo(x, S, t) = {} /\ ReadBy(x, S, t) = Result(t)
  BY DEF AddedTo, ReadBy
<1>3. \A u : /\ CallOf(u).def = Result(u) /\ \A d : UseOf(u, d).def = Use(u)
             /\ Result(u)[1] = u /\ Use(u)[1] = u
  BY DEF CallOf, UseOf, Instr, Result, Use
<1>4. \A u : CallOf(u) # UseOf(t, Result(t))
  <2>1. \A u : Result(u) # Use(t)
    BY DEF Result, Use
  <2> QED
    BY <1>3, <2>1
<1>5. \A u : u # t => UseOf(u, ReadBy(x, S, u)) # UseOf(t, Result(t))
  BY <1>3
<1>6. ASSUME NEW u PROVE UseOf(t, Result(t)) \notin AddedTo(x, S, u)
  <2> SUFFICES ASSUME UseOf(t, Result(t)) \in AddedTo(x, S, u) PROVE FALSE
    OBVIOUS
  <2>1. Use(t)[1] = u /\ Use(t) # Use(u)
    BY <1>3, AddedToIs
  <2> QED
    BY <1>3, <2>1
<1>7. ASSUME NEW i \in Whole(x, T) PROVE i \in new
  <2>1. CASE \E u \in InKernel : i = CallOf(u)
    BY <1>4, <2>1 DEF Whole
  <2>2. ASSUME NEW u \in InKernel, i = UseOf(u, ReadBy(x, T, u)) PROVE i \in new
    BY <1>1, <1>5, <2>2 DEF Whole
  <2>3. ASSUME NEW u \in InKernel, i \in AddedTo(x, T, u) PROVE i \in new
    BY <1>1, <1>6, <2>3 DEF Whole
  <2> QED
    BY <2>1, <2>2, <2>3 DEF Whole
<1>8. ASSUME NEW i \in new PROVE i \in Whole(x, T)
  <2>1. CASE i \in AddedTo(x, T, t) \/ i = UseOf(t, ReadBy(x, T, t))
    BY <2>1 DEF Whole
  <2>2. CASE i \in Whole(x, S) /\ i # UseOf(t, Result(t))
    <3>1. CASE \E u \in InKernel : i = CallOf(u)
      BY <3>1 DEF Whole
    <3>2. ASSUME NEW u \in InKernel, i = UseOf(u, ReadBy(x, S, u)) PROVE i \in Whole(x, T)
      BY <1>1, <1>2, <2>2, <3>2 DEF Whole
    <3>3. ASSUME NEW u \in InKernel, i \in AddedTo(x, S, u) PROVE i \in Whole(x, T)
      BY <1>1, <1>2, <3>3 DEF Whole
    <3> QED
      BY <2>2, <3>1, <3>2, <3>3 DEF Whole
  <2> QED
    BY <2>1, <2>2
<1> HIDE DEF new
<1>9. Whole(x, T) = new
  BY <1>7, <1>8
<1> QED
  BY <1>9 DEF new

(* What the assumption says of the options.                                 *)
LEMMA LaunchIs ==
    ASSUME NEW x \in Launches
    PROVE  /\ Options(x) /\ x.pass \in {"tc", "tv"} /\ x.direction \in Directions
           /\ x.pass = "tv" => x.stride = 1
  BY LaunchesAssumption DEF Options

(* The calls found have the function and the direction looked for.          *)
LEMMA FoundIs ==
    ASSUME NEW f, NEW d
    PROVE  /\ Found(f, d) \subseteq InKernel
           /\ \A t \in Found(f, d) : Calls[t].name = f /\ Calls[t].dim = d
  BY DEF Found, InKernel

(* The lists are complete when the passes ask.                              *)
LEMMA AllFound ==
    ASSUME CallsInv, names = <<>>
    PROVE  \A d \in Directions, f \in FunctionNames : oclInsts[d][f] = Found(f, d)
<1>1. {names[n] : n \in DOMAIN names} = {}
  OBVIOUS
<1> QED
  BY <1>1 DEF CallsInv

(* The invariant holds at first.                                            *)
LEMMA InvariantAtFirst ==
    Init => IInv
<1> SUFFICES ASSUME Init PROVE IInv
  OBVIOUS
<1>1. CodeInv
  <2>1. code = FirstCode /\ scaled = {}
    BY DEF Init, FirstCode
  <2>2. IsCode(FirstCode) /\ OperandsFirst(FirstCode) /\ Body(FirstCode) = Whole(launch, {})
    BY InitialCode
  <2> QED
    BY <2>1, <2>2 DEF CodeInv
<1>2. ScaledInv
  BY DEF Init, ScaledInv
<1>3. CallsInv
  <2>1. names = Names /\ oclInsts = [d \in Directions |-> [n \in FunctionNames |-> {}]]
    BY DEF Init, NDRInit
  <2>2. {names[n] : n \in DOMAIN names} = FunctionNames /\ names \in Seq(FunctionNames)
    BY <2>1, NamesAre
  <2>3. oclInsts \in [Directions -> [FunctionNames -> SUBSET InKernel]]
    BY <2>1
  <2> QED
    BY <2>2, <2>3 DEF CallsInv
<1>4. MapInv
  <2>1. scaled = {} /\ DOMAIN cMap = {}
    BY DEF Init
  <2> QED
    BY <2>1 DEF MapInv
<1> QED
  BY <1>1, <1>2, <1>3, <1>4 DEF IInv

(* Looking for the calls of one more function keeps it.                     *)
LEMMA FindCallsKeeps ==
    ASSUME IInv, FindCalls PROVE IInv'
<1>1. UNCHANGED <<launch, code, scaled, cMap>>
  BY DEF FindCalls
<1>2. CodeInv' /\ ScaledInv' /\ MapInv'
  BY <1>1 DEF IInv, CodeInv, ScaledInv, MapInv
<1>3. CallsInv'
  <2> DEFINE f == Head(names)
  <2>1. /\ names # <<>> /\ names' = Tail(names)
        /\ oclInsts' = [d \in Directions |-> [oclInsts[d] EXCEPT ![f] = Found(f, d)]]
    BY DEF FindCalls, FindCallsAllDirs
  <2>2. /\ names \in Seq(FunctionNames)
        /\ oclInsts \in [Directions -> [FunctionNames -> SUBSET InKernel]]
    BY DEF IInv, CallsInv
  <2>3. /\ f = names[1] /\ f \in FunctionNames
        /\ Tail(names) \in Seq(FunctionNames) /\ Len(Tail(names)) = Len(names) - 1
        /\ \A n \in 1..Len(Tail(names)) : Tail(names)[n] = names[n + 1]
        /\ Len(names) \in Nat \ {0} /\ DOMAIN names = 1..Len(names)
        /\ DOMAIN Tail(names) = 1..(Len(names) - 1)
    BY <2>1, <2>2, HeadTailProperties
  <2>4. \A g \in FunctionNames :
           g \in {names[n] : n \in DOMAIN names} =>
              g = f \/ g \in {Tail(names)[n] : n \in DOMAIN Tail(names)}
    <3> SUFFICES ASSUME NEW n \in 1..Len(names), n # 1
                 PROVE  \E m \in DOMAIN Tail(names) : names[n] = Tail(names)[m]
      BY <2>3
    <3>1. n - 1 \in DOMAIN Tail(names) /\ n - 1 \in 1..Len(Tail(names)) /\ (n - 1) + 1 = n
      BY <2>3
    <3> QED
      BY <2>3, <3>1
  <2> HIDE DEF f
  <2>5. oclInsts' \in [Directions -> [FunctionNames -> SUBSET InKernel]]
    <3>1. \A d \in Directions : Found(f, d) \in SUBSET InKernel
      BY FoundIs
    <3> QED
      BY <2>1, <2>2, <3>1
  <2>6. \A d \in Directions, g \in FunctionNames :
           oclInsts'[d][g] = IF g = f THEN Found(f, d) ELSE oclInsts[d][g]
    BY <2>1, <2>2
  <2>7. \A d, g : Found(g, d)' = Found(g, d)
    BY DEF Found
  <2>8. \A d \in Directions, g \in FunctionNames :
           g \in {names'[n] : n \in DOMAIN names'} \/ oclInsts'[d][g] = Found(g, d)
    BY <2>1, <2>4, <2>6 DEF IInv, CallsInv
  <2>9. names' \in Seq(FunctionNames)
    BY <2>1, <2>3
  <2> QED
    BY <2>5, <2>7, <2>8, <2>9 DEF CallsInv
<1> QED
  BY <1>2, <1>3 DEF IInv

(* What the passes ask for. *)
LEMMA AskedFor ==
    ASSUME IInv, names = <<>>
    PROVE  /\ \A t \in Sizes : /\ t \in InKernel /\ launch.pass = "tc" /\ Calls[t].dim = launch.direction
                              /\ IsSize(t) /\ ~IsId(t)
           /\ \A t \in Tids : /\ t \in InKernel /\ Calls[t].dim = launch.direction /\ IsId(t)
<1>1. launch.direction \in Directions
  BY LaunchIs DEF IInv, ScaledInv
<1>2. \A f \in FunctionNames : oclInsts[launch.direction][f] = Found(f, launch.direction)
  BY <1>1, AllFound DEF IInv
<1>3. /\ "get_global_id" \in FunctionNames /\ "get_local_id" \in FunctionNames
      /\ "get_global_size" \in FunctionNames /\ "get_local_size" \in FunctionNames
  BY NamesAre
<1>4. ASSUME NEW t \in Sizes
      PROVE  /\ t \in InKernel /\ launch.pass = "tc" /\ Calls[t].dim = launch.direction
             /\ IsSize(t) /\ ~IsId(t)
  <2>1. launch.pass = "tc" /\ t \in getSizes(launch.direction)
    BY DEF Sizes
  <2>2. \/ t \in Found("get_global_size", launch.direction)
        \/ t \in Found("get_local_size", launch.direction)
    BY <1>2, <1>3, <2>1 DEF getSizes
  <2>3. /\ t \in InKernel /\ Calls[t].dim = launch.direction
        /\ Calls[t].name \in {"get_global_size", "get_local_size"}
    BY <2>2, FoundIs
  <2> QED
    BY <2>1, <2>3 DEF IsSize, IsId
<1>5. ASSUME NEW t \in Tids
      PROVE  t \in InKernel /\ Calls[t].dim = launch.direction /\ IsId(t)
  <2>1. \/ t \in Found("get_global_id", launch.direction)
        \/ t \in Found("get_local_id", launch.direction)
    BY <1>2, <1>3 DEF Tids, getTids
  <2> QED
    BY <2>1, FoundIs DEF IsId
<1> QED
  BY <1>4, <1>5

(* CallsInv speaks of what only the discovery changes.                      *)
LEMMA CallsKept ==
    ASSUME CallsInv, UNCHANGED <<oclInsts, names>> PROVE CallsInv'
<1>1. \A d, f : Found(f, d)' = Found(f, d)
  BY DEF Found
<1> QED
  BY <1>1 DEF CallsInv

(* Scaling a size keeps it: the product takes over the uses.                *)
LEMMA ScaleSizeKeeps ==
    ASSUME IInv, NEW s, ScaleSize(s) PROVE IInv'
<1>1. /\ names = <<>> /\ s \in Sizes \ scaled /\ scaled' = scaled \cup {s}
      /\ code' = ReplaceUses(InsertAfter(code, Result(s), ScaledOf(launch, s)), Result(s), Mul(s))
      /\ UNCHANGED <<launch, cMap, oclInsts, names>>
  BY DEF ScaleSize, ScaledOf
<1>2. /\ s \in InKernel /\ launch.pass = "tc" /\ Calls[s].dim = launch.direction
      /\ IsSize(s) /\ ~IsId(s)
  BY <1>1, AskedFor
<1>3. launch \in Launches /\ Options(launch)
  BY LaunchIs DEF IInv, ScaledInv
<1>4. CodeInv'
  <2>1. IsCode(code) /\ OperandsFirst(code) /\ Body(code) = Whole(launch, scaled)
    BY DEF IInv, CodeInv
  <2>2. Unscaled(code, s)
    BY <1>1, <1>2, <2>1, StillUnscaled
  <2>3. /\ IsCode(code') /\ OperandsFirst(code')
        /\ Body(code') = (Body(code) \ {UseOf(s, Result(s))})
                          \cup {ScaledOf(launch, s), UseOf(s, Mul(s))}
    BY <1>1, <1>3, <2>1, <2>2, SizeIsScaled
  <2>4. Whole(launch, scaled') = (Whole(launch, scaled) \ {UseOf(s, Result(s))})
             \cup AddedTo(launch, scaled', s) \cup {UseOf(s, ReadBy(launch, scaled', s))}
    BY <1>1, <1>2, WholeGrows
  <2>5. AddedTo(launch, scaled', s) = {ScaledOf(launch, s)} /\ ReadBy(launch, scaled', s) = Mul(s)
    BY <1>1, <1>2 DEF AddedTo, ReadBy
  <2>6. Body(code') = Whole(launch, scaled')
    BY <2>1, <2>3, <2>4, <2>5
  <2> QED
    BY <1>1, <2>3, <2>6 DEF CodeInv
<1>5. ScaledInv'
  BY <1>1, <1>2, <1>3 DEF IInv, ScaledInv, IsId, IsSize
<1>6. CallsInv'
  BY <1>1, CallsKept DEF IInv
<1>7. MapInv'
  <2>1. {u \in scaled' : IsId(u)} = {u \in scaled : IsId(u)}
    BY <1>1, <1>2
  <2>2. \A t \in scaled' : IsId(t) => t \in scaled
    BY <1>1, <1>2
  <2> QED
    BY <1>1, <1>2, <2>1, <2>2 DEF IInv, MapInv, IsId
<1> QED
  BY <1>4, <1>5, <1>6, <1>7 DEF IInv

(* Scaling an id keeps it: the base takes over the uses, but for the base's *)
(* own, and the copies follow.                                              *)
LEMMA ScaleIdKeeps ==
    ASSUME IInv, NEW t, ScaleId(t) PROVE IInv'
<1>1. /\ names = <<>> /\ launch.pass = "tc" /\ t \in Tids \ scaled /\ scaled' = scaled \cup {t}
      /\ code' = WithCopies(WithBase(code, launch, t), launch, t)
      /\ UNCHANGED <<launch, oclInsts, names>>
  BY DEF ScaleId
<1>2. t \in InKernel /\ Calls[t].dim = launch.direction /\ IsId(t) /\ t \in DOMAIN Calls
  BY <1>1, AskedFor DEF InKernel
<1>3. launch \in Launches /\ Options(launch)
  BY LaunchIs DEF IInv, ScaledInv
<1>4. CodeInv'
  <2> DEFINE c == WithBase(code, launch, t)
  <2>1. IsCode(code) /\ OperandsFirst(code) /\ Body(code) = Whole(launch, scaled)
    BY DEF IInv, CodeInv
  <2>2. Unscaled(code, t)
    BY <1>1, <1>2, <2>1, StillUnscaled
  <2>3. /\ IsCode(c) /\ OperandsFirst(c)
        /\ Body(c) = (Body(code) \ {UseOf(t, Result(t))})
              \cup {DivOf(launch, t), MulOf(launch, t), RemOf(launch, t), BaseOf(t), UseOf(t, Base(t))}
    BY <1>3, <2>1, <2>2, BaseIsComputed
  <2>4. Base(t) \in Defs(c) /\ \A k : Copy(t, k) \notin Defs(c)
    <3> HIDE DEF c
    <3>1. BaseOf(t) \in Body(c) /\ BaseOf(t).def = Base(t)
      BY <2>3 DEF BaseOf, Instr
    <3>2. \A i \in Body(c) : \/ i.def \in Defs(code)
                             \/ i.def \in {Div(t), Mul(t), Rem(t), Base(t), Use(t)}
      BY <2>3, DefsOfBody DEF DivOf, MulOf, RemOf, BaseOf, UseOf, Instr
    <3>3. \A k : Copy(t, k) \notin Defs(code)
      BY <2>1, <2>2, OfUnscaled
    <3> QED
      BY <3>1, <3>2, <3>3, Different, DefsOfBody
  <2>5. code' = WithCopies(c, launch, t)
    BY <1>1
  <2> HIDE DEF c
  <2>6. /\ IsCode(code') /\ OperandsFirst(code')
        /\ Body(code') = Body(c) \cup {CopyOf(launch, t, k) : k \in 1..(launch.factor - 1)}
    BY <1>2, <1>3, <2>3, <2>4, <2>5, CopiesAreAdded
  <2>7. Whole(launch, scaled') = (Whole(launch, scaled) \ {UseOf(t, Result(t))})
             \cup AddedTo(launch, scaled', t) \cup {UseOf(t, ReadBy(launch, scaled', t))}
    BY <1>1, <1>2, WholeGrows
  <2>8. /\ AddedTo(launch, scaled', t) =
               {DivOf(launch, t), MulOf(launch, t), RemOf(launch, t), BaseOf(t)}
                  \cup {CopyOf(launch, t, k) : k \in 1..(launch.factor - 1)}
        /\ ReadBy(launch, scaled', t) = Base(t)
    BY <1>1, <1>2 DEF AddedTo, ReadBy
  <2>9. Body(code') = Whole(launch, scaled')
    BY <2>1, <2>3, <2>6, <2>7, <2>8
  <2> QED
    BY <1>1, <2>6, <2>9 DEF CodeInv
<1>5. ScaledInv'
  BY <1>1, <1>2, <1>3 DEF IInv, ScaledInv, IsId, IsSize
<1>6. CallsInv'
  BY <1>1, CallsKept DEF IInv
<1>7. MapInv'
  <2>1. cMap' = [d \in DOMAIN cMap \cup {Result(t), Base(t)} |->
                   CASE d = Result(t) -> <<>>
                     [] d = Base(t)   -> [k \in 1..(launch.factor - 1) |-> Copy(t, k)]
                     [] OTHER         -> cMap[d]]
    BY DEF ScaleId
  <2>2. {u \in scaled' : IsId(u)} = {u \in scaled : IsId(u)} \cup {t}
    BY <1>1, <1>2
  <2>3. DOMAIN cMap = UNION {{Result(u), Base(u)} : u \in {v \in scaled : IsId(v)}}
    BY <1>1 DEF IInv, MapInv
  <2>4. DOMAIN cMap' = UNION {{Result(u), Base(u)} : u \in {v \in scaled' : IsId(v)}}
    BY <2>1, <2>2, <2>3
  <2>5. Result(t) # Base(t) /\ \A u : u # t => {Result(u), Base(u)} \cap {Result(t), Base(t)} = {}
    BY DEF Result, Base
  <2>6. ASSUME NEW u \in scaled', IsId(u)
        PROVE  /\ cMap'[Result(u)] = <<>>
               /\ cMap'[Base(u)] = [k \in 1..(launch.factor - 1) |-> Copy(u, k)]
    <3>1. CASE u = t
      BY <2>1, <2>5, <3>1
    <3>2. CASE u # t
      <4>1. u \in scaled
        BY <1>1, <3>2
      <4>2. Result(u) \in DOMAIN cMap /\ Base(u) \in DOMAIN cMap
        BY <2>3, <2>6, <4>1
      <4>3. cMap'[Result(u)] = cMap[Result(u)] /\ cMap'[Base(u)] = cMap[Base(u)]
        BY <2>1, <2>5, <3>2, <4>2
      <4> QED
        BY <1>1, <2>6, <4>1, <4>3 DEF IInv, MapInv
    <3> QED
      BY <3>1, <3>2
  <2> QED
    BY <1>1, <2>4, <2>6 DEF MapInv, IsId
<1> QED
  BY <1>4, <1>5, <1>6, <1>7 DEF IInv

(* Widening an id keeps it: the lanes follow, and no use changes.           *)
LEMMA WidenTidKeeps ==
    ASSUME IInv, NEW t, WidenTid(t) PROVE IInv'
<1>1. /\ names = <<>> /\ launch.pass = "tv" /\ t \in Tids \ scaled /\ scaled' = scaled \cup {t}
      /\ code' = WithLanes(code, launch, t)
      /\ UNCHANGED <<launch, oclInsts, names>>
  BY DEF WidenTid
<1>2. t \in InKernel /\ Calls[t].dim = launch.direction /\ IsId(t)
  BY <1>1, AskedFor
<1>3. launch \in Launches /\ Options(launch)
  BY LaunchIs DEF IInv, ScaledInv
<1>4. CodeInv'
  <2>1. IsCode(code) /\ OperandsFirst(code) /\ Body(code) = Whole(launch, scaled)
    BY DEF IInv, CodeInv
  <2>2. Unscaled(code, t)
    BY <1>1, <1>2, <2>1, StillUnscaled
  <2>3. /\ IsCode(code') /\ OperandsFirst(code')
        /\ Body(code') = Body(code) \cup {ScaledOf(launch, t)}
                              \cup {LaneOf(t, k) : k \in 0..(launch.factor - 1)}
    BY <1>1, <1>3, <2>1, <2>2, LanesAreAdded
  <2>4. Whole(launch, scaled') = (Whole(launch, scaled) \ {UseOf(t, Result(t))})
             \cup AddedTo(launch, scaled', t) \cup {UseOf(t, ReadBy(launch, scaled', t))}
    BY <1>1, <1>2, WholeGrows
  <2>5. /\ AddedTo(launch, scaled', t) =
               {ScaledOf(launch, t)} \cup {LaneOf(t, k) : k \in 0..(launch.factor - 1)}
        /\ ReadBy(launch, scaled', t) = Result(t)
    BY <1>1, <1>2 DEF AddedTo, ReadBy
  <2>6. UseOf(t, Result(t)) \in Body(code)
    BY <2>2 DEF Unscaled
  <2>7. Body(code') = Whole(launch, scaled')
    BY <2>1, <2>3, <2>4, <2>5, <2>6
  <2> QED
    BY <1>1, <2>3, <2>7 DEF CodeInv
<1>5. ScaledInv'
  BY <1>1, <1>2, <1>3 DEF IInv, ScaledInv, IsId, IsSize
<1>6. CallsInv'
  BY <1>1, CallsKept DEF IInv
<1>7. MapInv'
  <2>1. cMap' = [d \in DOMAIN cMap \cup {Result(t)} |->
                   IF d = Result(t) THEN [k \in 0..(launch.factor - 1) |-> Copy(t, k)]
                   ELSE cMap[d]]
    BY DEF WidenTid
  <2>2. DOMAIN cMap = {Result(u) : u \in scaled}
    BY <1>1 DEF IInv, MapInv
  <2>3. DOMAIN cMap' = {Result(u) : u \in scaled'}
    BY <1>1, <2>1, <2>2
  <2>4. ASSUME NEW u \in scaled'
        PROVE  cMap'[Result(u)] = [k \in 0..(launch.factor - 1) |-> Copy(u, k)]
    <3>1. CASE u = t
      BY <2>1, <3>1
    <3>2. CASE u # t
      <4>1. u \in scaled /\ Result(u) # Result(t)
        BY <1>1, <3>2 DEF Result
      <4>2. Result(u) \in DOMAIN cMap
        BY <2>2, <4>1
      <4>3. cMap'[Result(u)] = cMap[Result(u)]
        BY <2>1, <4>1, <4>2
      <4> QED
        BY <1>1, <4>1, <4>3 DEF IInv, MapInv
    <3> QED
      BY <3>1, <3>2
  <2> QED
    BY <1>1, <2>3, <2>4 DEF MapInv, IsId
<1> QED
  BY <1>4, <1>5, <1>6, <1>7 DEF IInv

(* Every reachable state satisfies the inductive invariant (NDRange.cpp     *)
(* 17-27, NDRangeScaling.cpp 17-75, 117-177), for every value of the        *)
(* constants.                                                               *)
THEOREM Invariant ==
    Spec => []IInv
<1>1. IInv /\ [Next]_vars => IInv'
  <2> SUFFICES ASSUME IInv, [Next]_vars PROVE IInv'
    OBVIOUS
  <2>1. CASE FindCalls
    BY <2>1, FindCallsKeeps
  <2>2. CASE \E c \in DOMAIN Calls : ScaleSize(c) \/ ScaleId(c) \/ WidenTid(c)
    BY <2>2, ScaleSizeKeeps, ScaleIdKeeps, WidenTidKeeps
  <2>3. CASE UNCHANGED vars
    <3>1. CallsInv'
      BY <2>3, CallsKept DEF IInv, vars
    <3> QED
      BY <2>3, <3>1 DEF vars, IInv, CodeInv, ScaledInv, MapInv, IsId, IsSize
  <2> QED
    BY <2>1, <2>2, <2>3 DEF Next, Terminated
<1> QED
  BY <1>1, InvariantAtFirst, PTL DEF Spec

(* DefinedBeforeUse (NDRangeScaling.cpp 24-75, 117-177): at every moment    *)
(* each operand is defined before it is used, for every kernel and launch,  *)
(* every factor and stride, and every order of the calls.                   *)
THEOREM OperandsAreDefined ==
    Spec => []DefinedBeforeUse
<1>1. IInv => DefinedBeforeUse
  <2> SUFFICES ASSUME IInv, NEW n \in DOMAIN code, NEW a \in Reads(code[n])
               PROVE  \E m \in 1..(n - 1) : code[m].def = a
    BY DEF DefinedBeforeUse, Reads
  <2>1. IsCode(code) /\ OperandsFirst(code)
    BY DEF IInv, CodeInv
  <2>2. Prec(code, a, code[n].def)
    BY <2>1 DEF OperandsFirst, Body
  <2>3. PICK k, l \in DOMAIN code : k < l /\ code[k].def = a /\ code[l].def = code[n].def
    BY <2>2 DEF Prec
  <2>4. l = n
    BY <2>1, <2>3 DEF IsCode
  <2>5. DOMAIN code = 1..Len(code) /\ Len(code) \in Nat
    BY <2>1, PlaceOf
  <2> QED
    BY <2>3, <2>4, <2>5
<1> QED
  BY <1>1, Invariant, PTL

----------------------------------------------------------------------------
(* What the calls and the ids computed from them come to. *)

(* What the launches are.                                                   *)
LEMMA LaunchFits ==
    ASSUME NEW x \in Launches
    PROVE  /\ x.groups \in Nat \ {0} /\ x.local \in Nat \ {0} /\ Positive(x)
           /\ NewLocal(x) \in Nat /\ x.local = x.factor * NewLocal(x)
           /\ x.groups * x.local \in Nat /\ x.groups * x.local < Word /\ x.local < Word
<1>1. /\ x.groups \in Nat \ {0} /\ x.local \in Nat \ {0}
      /\ x.factor \in Nat \ {0} /\ x.stride \in Nat \ {0}
      /\ x.local % x.factor = 0 /\ x.groups * x.local < Word
  BY LaunchesAssumption, WidthsAssumption
<1>2. NewLocal(x) \in Nat /\ x.local = x.factor * NewLocal(x)
  <2>1. /\ x.local \div x.factor \in Nat
        /\ x.local = x.factor * (x.local \div x.factor) + (x.local % x.factor)
    BY <1>1, DivMod
  <2> DEFINE p == x.factor * (x.local \div x.factor)
  <2>2. p \in Nat
    BY <1>1, <2>1, SMT
  <2>3. x.local = p + 0
    BY <1>1, <2>1
  <2> HIDE DEF p
  <2>4. x.local = p
    BY <2>2, <2>3
  <2> QED
    BY <2>1, <2>4 DEF p, NewLocal
<1>3. x.groups * x.local \in Nat /\ x.local <= x.groups * x.local
  <2> DEFINE g == x.groups
             l == x.local
  <2>1. g \in Nat \ {0} /\ l \in Nat
    BY <1>1
  <2> HIDE DEF g, l
  <2>2. 1 <= g
    BY <2>1
  <2>3. 1 * l <= g * l /\ g * l \in Nat /\ 1 * l = l
    BY <2>1, <2>2, SMT
  <2> QED
    BY <2>3 DEF g, l
<1>4. x.local < Word
  BY <1>1, <1>3, WidthsAssumption
<1> QED
  BY <1>1, <1>2, <1>3, <1>4 DEF Positive

(* The constants of the pass are what they should be when they do not wrap. *)
LEMMA ConstantsAre ==
    ASSUME NEW x, Positive(x), NoWrap(x)
    PROVE  /\ CfSt(x) = x.factor * x.stride
           /\ \A k \in 0..(x.factor - 1) : Offset(x, k) = k * x.stride
<1> DEFINE cf == x.factor
           st == x.stride
<1>1. cf \in Nat \ {0} /\ st \in Nat \ {0} /\ cf * st < UInt /\ UInt \in Nat \ {0}
  BY WidthsAssumption DEF Positive, NoWrap
<1> HIDE DEF cf, st
<1>2. cf * st \in Nat
  BY <1>1, SMT
<1>3. (cf * st) % UInt = cf * st
  BY <1>1, <1>2, ModSmall
<1>4. ASSUME NEW k \in 0..(cf - 1) PROVE (k * st) % UInt = k * st
  <2>1. k \in Nat /\ k <= cf
    BY <1>1
  <2>2. k * st \in Nat /\ k * st <= cf * st
    BY <1>1, <2>1, SMT
  <2>3. k * st < UInt
    BY <1>1, <1>2, <2>2
  <2> QED
    BY <1>1, <2>2, <2>3, ModSmall
<1> QED
  BY <1>3, <1>4 DEF CfSt, Offset, cf, st

(* Every instruction of the code can be evaluated.                          *)
LEMMA AllComputable ==
    ASSUME IInv PROVE \A i \in Body(code) : Computable(i)
<1> SUFFICES ASSUME NEW i \in Body(code) PROVE Computable(i)
  OBVIOUS
<1>1. i \in Instrs
  BY PlaceOf DEF IInv, CodeInv, Body
<1>2. i \in Whole(launch, scaled) /\ Options(launch) /\ launch.pass \in {"tc", "tv"}
  BY LaunchIs DEF IInv, CodeInv, ScaledInv
<1>3. launch.stride # 0
  BY <1>2, WidthsAssumption DEF Options
<1>4. \A d, op, a, k : LET j == Instr(d, op, <<a>>, k) IN 1 \in DOMAIN j.args /\ j.op = op /\ j.const = k
  BY DEF Instr
<1>5. CASE \E t \in InKernel : i = CallOf(t)
  BY <1>1, <1>5 DEF Computable, CallOf, Instr
<1>6. CASE \E t, d : i = UseOf(t, d)
  <2>0. PICK t, d : i = UseOf(t, d)
    BY <1>6
  <2>1. i = Instr(Use(t), "use", <<d>>, 0)
    BY <2>0 DEF UseOf
  <2>2. i.op = "use" /\ 1 \in DOMAIN i.args
    BY <1>4, <2>1
  <2> QED
    BY <1>1, <2>2 DEF Computable
<1>7. ASSUME NEW t \in InKernel, i \in AddedTo(launch, scaled, t) PROVE Computable(i)
  <2>1. \/ i = ScaledOf(launch, t) \/ i = DivOf(launch, t) \/ i = MulOf(launch, t)
        \/ i = RemOf(launch, t) \/ i = BaseOf(t)
        \/ \E k : i = CopyOf(launch, t, k) \/ i = LaneOf(t, k)
    BY <1>2, <1>7 DEF AddedTo
  <2>2. CASE i = BaseOf(t)
    <3>1. 1 \in DOMAIN i.args /\ i.op = "add"
      BY <2>2 DEF BaseOf, Instr
    <3> QED
      BY <1>1, <3>1 DEF Computable
  <2>3. CASE i = DivOf(launch, t) \/ i = RemOf(launch, t)
    BY <1>1, <1>3, <1>4, <2>3 DEF Computable, DivOf, RemOf
  <2>4. CASE \/ i = ScaledOf(launch, t) \/ i = MulOf(launch, t)
             \/ \E k : i = CopyOf(launch, t, k) \/ i = LaneOf(t, k)
    <3>1. 1 \in DOMAIN i.args /\ i.op \in {"mul", "add"}
      BY <1>4, <2>4 DEF ScaledOf, MulOf, CopyOf, LaneOf
    <3> QED
      BY <1>1, <3>1 DEF Computable
  <2> QED
    BY <2>1, <2>2, <2>3, <2>4
<1>8. \/ \E t \in InKernel : i = CallOf(t) \/ i = UseOf(t, ReadBy(launch, scaled, t))
      \/ \E t \in InKernel : i \in AddedTo(launch, scaled, t)
  BY <1>2 DEF Whole
<1> QED
  BY <1>5, <1>6, <1>7, <1>8

(* The number call t returns to a thread of the new launch.                 *)
Returned(t, thread) == Called(Calls[t], launch, NewLocal(launch), thread)

(* The sizes and ids of the new launch, and what was computed from them.    *)
LEMMA ValuesOfCalls ==
    ASSUME IInv, NoWrap(launch), NEW thread \in Nat \X Nat,
           NEW v, v = Values(code, launch, thread), NEW t \in InKernel
    PROVE  /\ Returned(t, thread) \in Nat
           /\ v[Result(t)] = Returned(t, thread)
           /\ t \in scaled /\ launch.pass = "tc" /\ ~IsId(t) =>
                 v[Mul(t)] = (Returned(t, thread) * launch.factor) % Word
           /\ t \in scaled /\ launch.pass = "tc" /\ IsId(t) =>
                 /\ v[Base(t)] = OrigTid(launch, Returned(t, thread), 0) % Word
                 /\ \A k \in 1..(launch.factor - 1) :
                       v[Copy(t, k)] = OrigTid(launch, Returned(t, thread), k) % Word
           /\ t \in scaled /\ launch.pass = "tv" =>
                 \A k \in 0..(launch.factor - 1) :
                    v[Copy(t, k)] = OrigTid(launch, Returned(t, thread), k) % Word
<1> DEFINE a == Returned(t, thread)
           x == launch
<1>1. x \in Launches /\ x.pass \in {"tc", "tv"} /\ (x.pass = "tv" => x.stride = 1)
  BY LaunchIs DEF IInv, ScaledInv
<1>2. x.groups \in Nat /\ NewLocal(x) \in Nat /\ Positive(x)
  BY <1>1, LaunchFits
<1>3. \A i \in Body(code) : v[i.def] = Computed(i, v, x, thread)
  BY <1>2, AllComputable, ValuesAre DEF IInv, CodeInv
<1>4. a \in Nat
  BY <1>2, CalledIsNumber DEF InKernel, Returned
<1>5. \A d, op, args, k : Instr(d, op, args, k).def = d
  BY DEF Instr
<1>c. ComputesAs(v, x, thread)
  BY ComputedIs
<1>6. v[Result(t)] = a
  <2>1. CallOf(t) \in Body(code)
    BY DEF IInv, CodeInv, Whole
  <2>2. v[CallOf(t).def] = Computed(CallOf(t), v, x, thread)
    BY <1>3, <2>1
  <2>3. CallOf(t).def = Result(t) /\ Computed(CallOf(t), v, x, thread) = a
    BY <1>5, <1>c DEF ComputesAs, CallOf, Returned
  <2> QED
    BY <2>2, <2>3
<1>7. Word \in Nat \ {0}
  BY WidthsAssumption
<1>8. \A i \in AddedTo(x, scaled, t) : v[i.def] = Computed(i, v, x, thread)
  BY <1>3 DEF IInv, CodeInv, Whole
<1>9. /\ CfSt(x) = x.factor * x.stride
      /\ \A k \in 0..(x.factor - 1) : Offset(x, k) = k * x.stride
  BY <1>2, ConstantsAre
<1>10. ASSUME ScaledOf(x, t) \in AddedTo(x, scaled, t) PROVE v[Mul(t)] = (a * x.factor) % Word
  <2>1. v[ScaledOf(x, t).def] = Computed(ScaledOf(x, t), v, x, thread)
    BY <1>8, <1>10
  <2> QED
    BY <1>5, <1>6, <2>1, <1>c DEF ComputesAs, ScaledOf
<1>11. ASSUME t \in scaled, x.pass = "tc", ~IsId(t) PROVE v[Mul(t)] = (a * x.factor) % Word
  BY <1>10, <1>11 DEF AddedTo
<1>12. ASSUME t \in scaled, x.pass = "tc", IsId(t)
       PROVE  /\ v[Base(t)] = OrigTid(x, a, 0) % Word
              /\ \A k \in 1..(x.factor - 1) : v[Copy(t, k)] = OrigTid(x, a, k) % Word
  <2>1. AddedTo(x, scaled, t) = {DivOf(x, t), MulOf(x, t), RemOf(x, t), BaseOf(t)}
                                   \cup {CopyOf(x, t, k) : k \in 1..(x.factor - 1)}
    BY <1>12 DEF AddedTo
  <2>2. v[Div(t)] = a \div x.stride
    <3>1. v[DivOf(x, t).def] = Computed(DivOf(x, t), v, x, thread)
      BY <1>8, <2>1
    <3> QED
      BY <1>5, <1>6, <3>1, <1>c DEF ComputesAs, DivOf
  <2>3. v[Mul(t)] = ((a \div x.stride) * (x.factor * x.stride)) % Word
    <3>1. v[MulOf(x, t).def] = Computed(MulOf(x, t), v, x, thread)
      BY <1>8, <2>1
    <3> QED
      BY <1>5, <1>9, <2>2, <3>1, <1>c DEF ComputesAs, MulOf
  <2>4. v[Rem(t)] = a % x.stride
    <3>1. v[RemOf(x, t).def] = Computed(RemOf(x, t), v, x, thread)
      BY <1>8, <2>1
    <3> QED
      BY <1>5, <1>6, <3>1, <1>c DEF ComputesAs, RemOf
  <2>5. v[Base(t)] = ((((a \div x.stride) * (x.factor * x.stride)) % Word) + (a % x.stride)) % Word
    <3>1. v[BaseOf(t).def] = Computed(BaseOf(t), v, x, thread)
      BY <1>8, <2>1
    <3> QED
      BY <1>5, <2>3, <2>4, <3>1, <1>c DEF ComputesAs, BaseOf
  <2>6. ASSUME NEW k \in 1..(x.factor - 1) PROVE v[Copy(t, k)] = (v[Base(t)] + k * x.stride) % Word
    <3>1. v[CopyOf(x, t, k).def] = Computed(CopyOf(x, t, k), v, x, thread)
      BY <1>8, <2>1
    <3>2. Offset(x, k) = k * x.stride
      BY <1>9
    <3> QED
      BY <1>5, <3>1, <3>2, <1>c DEF ComputesAs, CopyOf
  <2>7. \A k \in Nat : /\ v[Base(t)] = OrigTid(x, a, 0) % Word
                       /\ (v[Base(t)] + k * x.stride) % Word = OrigTid(x, a, k) % Word
    <3> HIDE DEF a, x
    <3> QED
      BY <1>2, <1>4, <1>7, <2>5, CopiesCompute
  <2> QED
    BY <2>6, <2>7
<1>13. ASSUME t \in scaled, x.pass = "tv"
       PROVE  \A k \in 0..(x.factor - 1) : v[Copy(t, k)] = OrigTid(x, a, k) % Word
  <2> SUFFICES ASSUME NEW k \in 0..(x.factor - 1) PROVE v[Copy(t, k)] = OrigTid(x, a, k) % Word
    OBVIOUS
  <2>1. ScaledOf(x, t) \in AddedTo(x, scaled, t) /\ LaneOf(t, k) \in AddedTo(x, scaled, t)
    BY <1>13 DEF AddedTo
  <2>2. v[Mul(t)] = (a * x.factor) % Word
    BY <1>10, <2>1
  <2>3. v[Copy(t, k)] = (v[Mul(t)] + k) % Word
    <3>1. v[LaneOf(t, k).def] = Computed(LaneOf(t, k), v, x, thread)
      BY <1>8, <2>1
    <3> QED
      BY <1>5, <3>1, <1>c DEF ComputesAs, LaneOf
  <2>4. (((a * x.factor) % Word) + k) % Word = OrigTid(x, a, k) % Word
    <3>1. k \in Nat /\ x.stride = 1
      BY <1>1, <1>13
    <3> HIDE DEF a, x
    <3> QED
      BY <1>2, <1>4, <1>7, <3>1, LanesCompute
  <2> QED
    BY <2>2, <2>3, <2>4
<1> HIDE DEF a, x
<1> QED
  BY <1>4, <1>6, <1>11, <1>12, <1>13 DEF a, x

----------------------------------------------------------------------------
(* What the copies read. *)

(* The user of a call reads what stands for it, and the map says which of   *)
(* its copies a copy of the user gets.                                      *)
LEMMA OperandIs ==
    ASSUME IInv, NEW t \in InKernel, NEW k \in 0..(launch.factor - 1)
    PROVE  /\ t \notin scaled => Operand(t, k) = Result(t)
           /\ t \in scaled /\ launch.pass = "tc" /\ ~IsId(t) => Operand(t, k) = Mul(t)
           /\ t \in scaled /\ launch.pass = "tc" /\ IsId(t) =>
                 Operand(t, k) = IF k = 0 THEN Base(t) ELSE Copy(t, k)
           /\ t \in scaled /\ launch.pass = "tv" => Operand(t, k) = Copy(t, k)
<1> DEFINE r == ReadBy(launch, scaled, t)
<1>1. /\ launch.pass \in {"tc", "tv"} /\ \A u \in scaled : launch.pass = "tv" => IsId(u)
  BY LaunchIs DEF IInv, ScaledInv
<1>2. code[At(code, Use(t))].args[1] = r
  <2>1. UseOf(t, r) \in Body(code) /\ IsCode(code)
    BY DEF IInv, CodeInv, Whole
  <2>2. UseOf(t, r).def = Use(t) /\ UseOf(t, r).args = <<r>>
    BY DEF UseOf, Instr
  <2> HIDE DEF r
  <2>3. PICK n \in DOMAIN code : code[n] = UseOf(t, r)
    BY <2>1 DEF Body
  <2>4. At(code, code[n].def) = n
    BY <2>1, PlaceOf
  <2>5. <<r>>[1] = r
    OBVIOUS
  <2> QED
    BY <2>2, <2>3, <2>4, <2>5
<1>3. Operand(t, k) = IF r \in DOMAIN cMap /\ k \in DOMAIN cMap[r] THEN cMap[r][k] ELSE r
  BY <1>2 DEF Operand
<1> HIDE DEF r
<1>4. /\ \A u : Result(u)[1] = u /\ Base(u)[1] = u /\ Mul(u)[1] = u
      /\ Result(t) # Base(t) /\ Result(t) # Mul(t) /\ Mul(t) # Base(t)
  BY DEF Result, Base, Mul
<1>5. ASSUME t \notin scaled PROVE Operand(t, k) = Result(t)
  <2>1. r = Result(t)
    BY <1>5 DEF r, ReadBy
  <2>2. r \notin DOMAIN cMap
    BY <1>1, <1>4, <1>5, <2>1 DEF IInv, MapInv
  <2> QED
    BY <1>3, <2>1, <2>2
<1>6. ASSUME t \in scaled, launch.pass = "tc", ~IsId(t) PROVE Operand(t, k) = Mul(t)
  <2>1. r = Mul(t)
    BY <1>6 DEF r, ReadBy
  <2>2. r \notin DOMAIN cMap
    BY <1>4, <1>6, <2>1 DEF IInv, MapInv
  <2> QED
    BY <1>3, <2>1, <2>2
<1>7. ASSUME t \in scaled, launch.pass = "tc", IsId(t)
      PROVE  Operand(t, k) = IF k = 0 THEN Base(t) ELSE Copy(t, k)
  <2>1. r = Base(t)
    BY <1>7 DEF r, ReadBy
  <2>2. r \in DOMAIN cMap /\ cMap[r] = [l \in 1..(launch.factor - 1) |-> Copy(t, l)]
    BY <1>7, <2>1 DEF IInv, MapInv
  <2>3. k \in DOMAIN cMap[r] <=> k # 0
    BY <2>2
  <2>4. k # 0 => cMap[r][k] = Copy(t, k)
    BY <2>2
  <2> QED
    BY <1>3, <2>1, <2>2, <2>3, <2>4
<1>8. ASSUME t \in scaled, launch.pass = "tv" PROVE Operand(t, k) = Copy(t, k)
  <2>1. r = Result(t)
    BY <1>8 DEF r, ReadBy
  <2>2. r \in DOMAIN cMap /\ cMap[r] = [l \in 0..(launch.factor - 1) |-> Copy(t, l)]
    BY <1>8, <2>1 DEF IInv, MapInv
  <2> QED
    BY <1>3, <2>2
<1> QED
  BY <1>5, <1>6, <1>7, <1>8

(* What the queries know of a call, once the lists are complete.            *)
LEMMA QueriesAre ==
    ASSUME IInv, names = <<>>, NEW t \in DOMAIN Calls
    PROVE  /\ isCoordinate(t) => /\ t \in InKernel /\ Calls[t].dim \in Directions
                                 /\ Calls[t].name \in {"get_global_id", "get_local_id", "get_group_id"}
           /\ isSize(t) => /\ t \in InKernel /\ Calls[t].dim \in Directions
                           /\ Calls[t].name \in {"get_global_size", "get_local_size", "get_num_groups"}
           /\ isCoordinate(t) => getDirection(t) = Calls[t].dim
<1>1. \A d \in Directions, f \in FunctionNames : oclInsts[d][f] = Found(f, d)
  BY AllFound DEF IInv
<1>2. \A d \in Directions, f \in FunctionNames :
         isPresentInDirection(t, f, d) <=>
            t \in InKernel /\ Calls[t].name = f /\ Calls[t].dim = d
  BY <1>1 DEF isPresentInDirection, Found, InKernel
<1>3. isCoordinate(t) => /\ t \in InKernel /\ Calls[t].dim \in Directions
                         /\ Calls[t].name \in {"get_global_id", "get_local_id", "get_group_id"}
  BY <1>2, NamesAre DEF isCoordinate, Is
<1>4. isSize(t) => /\ t \in InKernel /\ Calls[t].dim \in Directions
                   /\ Calls[t].name \in {"get_global_size", "get_local_size", "get_num_groups"}
  BY <1>2, NamesAre DEF isSize, Is
<1>5. ASSUME isCoordinate(t) PROVE getDirection(t) = Calls[t].dim
  <2> DEFINE ds == {d \in Directions : \E i \in DOMAIN Names : isPresentInDirection(t, Names[i], d)}
  <2>1. \A d \in Directions :
           (\E i \in DOMAIN Names : isPresentInDirection(t, Names[i], d)) <=>
              \E f \in FunctionNames : isPresentInDirection(t, f, d)
    BY DEF FunctionNames
  <2>2. ds = {Calls[t].dim}
    BY <1>2, <1>3, <1>5, <2>1, NamesAre
  <2>3. getDirection(t) = IF ds = {} THEN -1 ELSE CHOOSE d \in ds : \A e \in ds : d <= e
    BY DEF getDirection
  <2> HIDE DEF ds
  <2>4. Calls[t].dim \in Int
    BY CallsAreASequence
  <2>5. \A d \in ds : d = Calls[t].dim
    BY <2>2
  <2>6. Calls[t].dim \in ds /\ \A e \in ds : Calls[t].dim <= e
    BY <2>2, <2>4
  <2> QED
    BY <2>3, <2>5, <2>6
<1> QED
  BY <1>3, <1>4, <1>5

(* At the end all the calls that are to be scaled are.                      *)
LEMMA AllScaled ==
    ASSUME IInv, Done, NEW t \in InKernel, Calls[t].dim = launch.direction
    PROVE  /\ IsId(t) => t \in scaled
           /\ IsSize(t) /\ launch.pass = "tc" => t \in scaled
<1>1. names = <<>> /\ Sizes \cup Tids \subseteq scaled
  BY DEF Done
<1>2. launch.direction \in Directions
  BY LaunchIs DEF IInv, ScaledInv
<1>3. \A f \in FunctionNames : Calls[t].name = f => t \in oclInsts[launch.direction][f]
  BY <1>1, <1>2, AllFound DEF IInv, Found, InKernel
<1> QED
  BY <1>1, <1>3, NamesAre DEF IsId, IsSize, Sizes, Tids, getSizes, getTids

(* The threads of the new launch.                                           *)
LEMMA NewThreadsAre ==
    ASSUME NEW x \in Launches, NEW thread \in NewThreads(x)
    PROVE  /\ thread \in Nat \X Nat
           /\ thread[1] \in 0..(x.groups - 1) /\ thread[2] \in 0..(NewLocal(x) - 1)
           /\ thread = <<thread[1], thread[2]>>
  BY DEF NewThreads

(* The heart of ReadsWhatItDid.                                             *)
LEMMA CopyReads ==
    ASSUME IInv, Done, NoWrap(launch), NEW thread \in NewThreads(launch), NEW t \in DOMAIN Calls,
           isCoordinate(t) \/ (isSize(t) /\ launch.pass = "tc"),
           NEW k \in 0..(launch.factor - 1),
           NEW v, v = Values(code, launch, thread)
    PROVE  v[Operand(t, k)] = Original(t, thread, k)
<1>1. names = <<>> /\ launch \in Launches /\ launch.pass \in {"tc", "tv"}
  BY LaunchIs DEF Done, IInv, ScaledInv
<1>2. /\ t \in InKernel
      /\ Calls[t].name \in {"get_global_id", "get_local_id", "get_group_id",
                            "get_global_size", "get_local_size", "get_num_groups"}
      /\ Calls[t].name \in {"get_global_size", "get_local_size", "get_num_groups"} => launch.pass = "tc"
  BY <1>1, QueriesAre
<1>3. thread \in Nat \X Nat
  BY <1>1, NewThreadsAre
<1>4. /\ Returned(t, thread) \in Nat
      /\ v[Result(t)] = Returned(t, thread)
      /\ t \in scaled /\ launch.pass = "tc" /\ ~IsId(t) =>
            v[Mul(t)] = (Returned(t, thread) * launch.factor) % Word
      /\ t \in scaled /\ launch.pass = "tc" /\ IsId(t) =>
            /\ v[Base(t)] = OrigTid(launch, Returned(t, thread), 0) % Word
            /\ \A j \in 1..(launch.factor - 1) :
                  v[Copy(t, j)] = OrigTid(launch, Returned(t, thread), j) % Word
      /\ t \in scaled /\ launch.pass = "tv" =>
            \A j \in 0..(launch.factor - 1) :
               v[Copy(t, j)] = OrigTid(launch, Returned(t, thread), j) % Word
  BY <1>1, <1>3, <1>2, ValuesOfCalls
<1>5. /\ t \notin scaled => Operand(t, k) = Result(t)
      /\ t \in scaled /\ launch.pass = "tc" /\ ~IsId(t) => Operand(t, k) = Mul(t)
      /\ t \in scaled /\ launch.pass = "tc" /\ IsId(t) =>
            Operand(t, k) = IF k = 0 THEN Base(t) ELSE Copy(t, k)
      /\ t \in scaled /\ launch.pass = "tv" => Operand(t, k) = Copy(t, k)
  BY <1>2, OperandIs
<1>6. \A u \in scaled : /\ Calls[u].dim = launch.direction
                        /\ IsId(u) \/ IsSize(u)
                        /\ launch.pass = "tv" => IsId(u)
  BY DEF IInv, ScaledInv
<1>7. CASE Calls[t].dim # launch.direction
  <2>1. v[Operand(t, k)] = Returned(t, thread)
    BY <1>4, <1>5, <1>6, <1>7
  <2>2. Returned(t, thread) = Elsewhere(Calls[t].name) /\ Original(t, thread, k) = Elsewhere(Calls[t].name)
    BY <1>7 DEF Returned, Called, Original
  <2> QED
    BY <2>1, <2>2
<1>8. CASE Calls[t].dim = launch.direction /\ IsId(t)
  <2>1. t \in scaled
    BY <1>2, <1>8, AllScaled
  <2>2. v[Operand(t, k)] = OrigTid(launch, Returned(t, thread), k) % Word
    <3>1. k = 0 \/ k \in 1..(launch.factor - 1)
      OBVIOUS
    <3> QED
      BY <1>1, <1>4, <1>5, <1>8, <2>1, <3>1
  <2>3. Original(t, thread, k) = OrigTid(launch, Returned(t, thread), k) % Word
    BY <1>8 DEF Original, Returned, IsId
  <2> QED
    BY <2>2, <2>3
<1>9. CASE Calls[t].dim = launch.direction /\ IsSize(t)
  <2>1. launch.pass = "tc" /\ t \in scaled /\ ~IsId(t)
    BY <1>2, <1>9, AllScaled DEF IsSize, IsId
  <2>2. v[Operand(t, k)] = (Returned(t, thread) * launch.factor) % Word
    BY <1>4, <1>5, <2>1
  <2> DEFINE g == launch.groups
             l == launch.local
             n == NewLocal(launch)
             f == launch.factor
  <2>3. /\ g \in Nat /\ l \in Nat /\ n \in Nat /\ f \in Nat /\ l = f * n
        /\ g * l \in Nat /\ g * l < Word /\ l < Word
    BY <1>1, LaunchFits DEF Positive
  <2>4. CASE Calls[t].name = "get_local_size"
    <3>1. Returned(t, thread) = n /\ Original(t, thread, k) = l
      BY <1>9, <2>4 DEF Returned, Called, Original
    <3> HIDE DEF g, l, n, f
    <3>2. n * f = l
      BY <2>3, SMT
    <3>3. l % Word = l
      BY <2>3, WidthsAssumption, ModSmall
    <3> QED
      BY <2>2, <3>1, <3>2, <3>3 DEF f
  <2>5. CASE Calls[t].name = "get_global_size"
    <3>1. Returned(t, thread) = g * n /\ Original(t, thread, k) = g * l
      BY <1>9, <2>5 DEF Returned, Called, Original
    <3> HIDE DEF g, l, n, f
    <3>2. (g * n) * f = g * l
      BY <2>3, SMT
    <3>3. (g * l) % Word = g * l
      BY <2>3, WidthsAssumption, ModSmall
    <3> QED
      BY <2>2, <3>1, <3>2, <3>3 DEF f
  <2> QED
    BY <1>9, <2>4, <2>5 DEF IsSize
<1>10. CASE Calls[t].dim = launch.direction /\ ~IsId(t) /\ ~IsSize(t)
  <2>1. v[Operand(t, k)] = Returned(t, thread)
    BY <1>4, <1>5, <1>6, <1>10
  <2>2. Calls[t].name \in {"get_group_id", "get_num_groups"}
    BY <1>2, <1>10 DEF IsId, IsSize
  <2>3. Returned(t, thread) = Original(t, thread, k)
    BY <1>10, <2>2 DEF Returned, Called, Original
  <2> QED
    BY <2>1, <2>3
<1> QED
  BY <1>7, <1>8, <1>9, <1>10

(* ReadsWhatItDid (NDRangeScaling.cpp 24-75, 117-177; NDRange.cpp 248-282): *)
(* the k-th copy of each user reads what the thread it stands for read in   *)
(* the original launch, for every kernel, launch, factor and stride whose   *)
(* product the pass can represent.                                          *)
THEOREM CopiesReadWhatTheyDid ==
    Spec => []ReadsWhatItDid
<1>1. IInv => ReadsWhatItDid
  BY CopyReads DEF ReadsWhatItDid
<1> QED
  BY <1>1, Invariant, PTL

----------------------------------------------------------------------------
(* Which threads the copies are. *)

(* What the ids of a copy are, and those of an original thread.             *)
LEMMA IdsOfCopy ==
    ASSUME IInv, Done, NoWrap(launch), NEW thread \in NewThreads(launch),
           NEW t \in IdsIn(launch.direction), NEW k \in Subids(launch),
           NEW v, v = Values(code, launch, thread)
    PROVE  /\ Calls[t].name \in {"get_global_id", "get_local_id", "get_group_id"}
           /\ Calls[t].name = "get_global_id" =>
                 v[Operand(t, k)] =
                    OrigTid(launch, thread[1] * NewLocal(launch) + thread[2], k) % Word
           /\ Calls[t].name = "get_local_id" =>
                 v[Operand(t, k)] = OrigTid(launch, thread[2], k) % Word
           /\ Calls[t].name = "get_group_id" => v[Operand(t, k)] = thread[1]
           /\ \A o : Called(Calls[t], launch, launch.local, o) =
                 CASE Calls[t].name = "get_global_id" -> o[1] * launch.local + o[2]
                   [] Calls[t].name = "get_local_id"  -> o[2]
                   [] Calls[t].name = "get_group_id"  -> o[1]
<1>1. t \in DOMAIN Calls /\ isCoordinate(t) /\ getDirection(t) = launch.direction
  BY DEF IdsIn
<1>2. names = <<>>
  BY DEF Done
<1>3. /\ Calls[t].name \in {"get_global_id", "get_local_id", "get_group_id"}
      /\ Calls[t].dim = launch.direction
  BY <1>1, <1>2, QueriesAre
<1>4. v[Operand(t, k)] = Original(t, thread, k)
  BY <1>1, CopyReads DEF Subids
<1>5. \A n, o : /\ Calls[t].name = "get_global_id" =>
                      Called(Calls[t], launch, n, o) = o[1] * n + o[2]
                /\ Calls[t].name = "get_local_id" => Called(Calls[t], launch, n, o) = o[2]
                /\ Calls[t].name = "get_group_id" => Called(Calls[t], launch, n, o) = o[1]
  BY <1>3 DEF Called
<1>6. /\ Calls[t].name \in {"get_global_id", "get_local_id"} =>
            Original(t, thread, k) =
               OrigTid(launch, Called(Calls[t], launch, NewLocal(launch), thread), k) % Word
      /\ Calls[t].name = "get_group_id" => Original(t, thread, k) = thread[1]
  BY <1>3, <1>5 DEF Original
<1> QED
  BY <1>3, <1>4, <1>5, <1>6

(* Where the blocks tile each group, a copy has the ids of the thread that  *)
(* the formula gives for its local id.                                      *)
LEMMA CopyIsThread ==
    ASSUME IInv, Done, NoWrap(launch), Tiled(launch), NEW thread \in NewThreads(launch),
           NEW k \in Subids(launch), NEW v, v = Values(code, launch, thread),
           NEW o, o = <<thread[1], OrigTid(launch, thread[2], k)>>
    PROVE  /\ o[1] \in 0..(launch.groups - 1) /\ o[2] \in 0..(launch.local - 1)
           /\ \A t \in IdsIn(launch.direction) :
                 v[Operand(t, k)] = Called(Calls[t], launch, launch.local, o)
<1> DEFINE G == launch.groups
           L == launch.local
           M == NewLocal(launch)
           st == launch.stride
           cf == launch.factor
           g == thread[1]
           l == thread[2]
           b == L \div (cf * st)
           i == OrigTid(launch, l, k)
<1>1. launch \in Launches
  BY DEF IInv, ScaledInv
<1>2. /\ G \in Nat /\ L \in Nat /\ M \in Nat /\ Positive(launch) /\ L = cf * M
      /\ G * L < Word /\ L < Word /\ st \in Nat \ {0} /\ cf \in Nat \ {0}
  BY <1>1, LaunchFits DEF Positive
<1>3. g \in 0..(G - 1) /\ l \in 0..(M - 1)
  BY <1>1, NewThreadsAre
<1>4. L % (cf * st) = 0
  BY DEF Tiled
<1>5. o[1] = g /\ o[2] = i
  OBVIOUS
<1>6. Word \in Nat \ {0}
  BY WidthsAssumption
<1> HIDE DEF G, L, M, st, cf, g, l
<1>7. b \in Nat /\ L = (cf * st) * b
  <2> DEFINE d == cf * st
  <2>1. d \in Nat \ {0}
    BY <1>2, SMT
  <2> HIDE DEF d
  <2>2. L \div d \in Nat /\ L = d * (L \div d) + (L % d)
    BY <1>2, <2>1, DivMod
  <2>3. L % d = 0 /\ d * (L \div d) \in Nat
    BY <1>4, <2>1, <2>2, SMT DEF d
  <2>4. L = d * (L \div d)
    BY <2>2, <2>3
  <2> QED
    BY <2>2, <2>4 DEF d
<1> HIDE DEF b
<1>8. M = st * b /\ L = st * (cf * b)
  <2>1. L = st * (cf * b) /\ L = cf * (st * b)
    BY <1>2, <1>7, SMT
  <2>2. st * b \in Nat
    BY <1>2, <1>7, SMT
  <2>3. cf * M + 0 = cf * (st * b) + 0 /\ 0 \in 0..(cf - 1)
    BY <1>2, <2>1
  <2>4. M = st * b
    BY <1>2, <2>2, <2>3, DivModUnique
  <2> QED
    BY <2>1, <2>4
<1>9. i \in Nat /\ i < L
  <2>1. l \in Nat /\ l < M
    BY <1>2, <1>3
  <2>2. OrigTid(launch, l, k) \in Nat
    BY <1>2, <2>1, OrigTidIsNumber
  <2>3. OrigTid(launch, l, k) < launch.stride * (launch.factor * b) <=> l < launch.stride * b
    BY <1>2, <1>7, <2>1, CopiesStayInRange
  <2> QED
    BY <1>8, <2>1, <2>2, <2>3 DEF st, cf
<1>10. OrigTid(launch, g * M + l, k) = g * L + i
  <2>1. l \in Nat /\ g \in Nat
    BY <1>3, <1>2
  <2>2. g * b \in Nat
    BY <1>7, <2>1, SMT
  <2>3. OrigTid(launch, launch.stride * (g * b) + l, k)
           = launch.stride * (launch.factor * (g * b)) + OrigTid(launch, l, k)
    BY <1>2, <2>1, <2>2, GroupsAgree
  <2>4. st * (g * b) = g * M /\ st * (cf * (g * b)) = g * L
    BY <1>2, <1>7, <1>8, <2>1, SMT
  <2> QED
    BY <2>3, <2>4 DEF st, cf
<1>11. g * L + i \in Nat /\ g * L + i < Word
  <2>1. i \in 0..(L - 1)
    BY <1>2, <1>9
  <2> HIDE DEF i
  <2>2. g * L + i \in Nat /\ g * L + i < G * L /\ G * L \in Nat
    BY <1>2, <1>3, <2>1, IdBelow
  <2> QED
    BY <1>2, <1>6, <2>2
<1>12. i % Word = i /\ (g * L + i) % Word = g * L + i
  <2>1. i < Word
    BY <1>2, <1>6, <1>9
  <2> HIDE DEF i
  <2> QED
    BY <1>6, <1>9, <1>11, <2>1, ModSmall
<1>13. ASSUME NEW t \in IdsIn(launch.direction)
       PROVE  v[Operand(t, k)] = Called(Calls[t], launch, launch.local, o)
  <2>1. /\ Calls[t].name \in {"get_global_id", "get_local_id", "get_group_id"}
        /\ Calls[t].name = "get_global_id" =>
              v[Operand(t, k)] =
                 OrigTid(launch, thread[1] * NewLocal(launch) + thread[2], k) % Word
        /\ Calls[t].name = "get_local_id" =>
              v[Operand(t, k)] = OrigTid(launch, thread[2], k) % Word
        /\ Calls[t].name = "get_group_id" => v[Operand(t, k)] = thread[1]
        /\ Called(Calls[t], launch, launch.local, o) =
              CASE Calls[t].name = "get_global_id" -> o[1] * launch.local + o[2]
                [] Calls[t].name = "get_local_id"  -> o[2]
                [] Calls[t].name = "get_group_id"  -> o[1]
    BY IdsOfCopy
  <2>2. CASE Calls[t].name = "get_global_id"
    <3>1. v[Operand(t, k)] = g * L + i
      BY <1>10, <1>12, <2>1, <2>2 DEF g, l, M
    <3>2. Called(Calls[t], launch, launch.local, o) = g * L + i
      BY <1>5, <2>1, <2>2 DEF L
    <3> QED
      BY <3>1, <3>2
  <2>3. CASE Calls[t].name = "get_local_id"
    BY <1>5, <1>12, <2>1, <2>3 DEF l
  <2>4. CASE Calls[t].name = "get_group_id"
    BY <1>5, <2>1, <2>4 DEF g
  <2> QED
    BY <2>1, <2>2, <2>3, <2>4
<1>14. o[1] \in 0..(launch.groups - 1) /\ o[2] \in 0..(launch.local - 1)
  BY <1>2, <1>3, <1>5, <1>9 DEF G, L
<1> QED
  BY <1>13, <1>14

(* Where the blocks tile each group, no original thread is without a copy.  *)
LEMMA ThreadHasCopy ==
    ASSUME NEW x \in Launches, Tiled(x), NEW o \in (0..(x.groups - 1)) \X (0..(x.local - 1))
    PROVE  \E thread \in NewThreads(x), k \in Subids(x) :
              o = <<thread[1], OrigTid(x, thread[2], k)>>
<1> DEFINE L == x.local
           M == NewLocal(x)
           st == x.stride
           cf == x.factor
           d == cf * st
           b == L \div d
<1>1. /\ L \in Nat /\ M \in Nat /\ Positive(x) /\ L = cf * M
      /\ st \in Nat \ {0} /\ cf \in Nat \ {0} /\ L % d = 0
  BY LaunchFits DEF Positive, Tiled
<1>2. o[1] \in 0..(x.groups - 1) /\ o[2] \in 0..(L - 1) /\ o = <<o[1], o[2]>>
  OBVIOUS
<1>3. o[2] \in Nat /\ o[2] < L
  BY <1>1, <1>2
<1>4. PICK n \in Nat, k \in Subids(x) : OrigTid(x, n, k) = o[2]
  BY <1>1, <1>3, NoThreadLost
<1> HIDE DEF L, M, st, cf, d
<1>5. d \in Nat \ {0} /\ d = cf * st
  BY <1>1, SMT DEF d
<1>6. b \in Nat /\ L = d * b
  <2>0. L \in Nat /\ d \in Nat \ {0}
    BY <1>1, <1>5
  <2>1. b \in Nat /\ L = d * b + (L % d)
    BY <2>0, DivMod
  <2>2. d * b \in Nat
    BY <1>5, <2>1, SMT
  <2> QED
    BY <1>1, <2>1, <2>2
<1> HIDE DEF b
<1>7. M = st * b /\ L = st * (cf * b)
  <2>1. L = st * (cf * b) /\ L = cf * (st * b)
    BY <1>1, <1>5, <1>6, SMT
  <2>2. st * b \in Nat
    BY <1>1, <1>6, SMT
  <2>3. cf * M + 0 = cf * (st * b) + 0 /\ 0 \in 0..(cf - 1)
    BY <1>1, <2>1
  <2>4. M = st * b
    BY <1>1, <2>2, <2>3, DivModUnique
  <2> QED
    BY <2>1, <2>4
<1>8. OrigTid(x, n, k) < x.stride * (x.factor * b) <=> n < x.stride * b
  BY <1>1, <1>6, CopiesStayInRange
<1>9. n < M
  BY <1>3, <1>4, <1>7, <1>8 DEF st, cf
<1>10. <<o[1], n>> \in NewThreads(x)
  <2>1. n \in 0..(NewLocal(x) - 1)
    BY <1>1, <1>9 DEF M
  <2> QED
    BY <1>2, <2>1 DEF NewThreads
<1>11. o = <<<<o[1], n>>[1], OrigTid(x, <<o[1], n>>[2], k)>>
  BY <1>2, <1>4
<1> QED
  BY <1>10, <1>11

(* Where the blocks tile the whole range, the global ids of the copies are  *)
(* those of the range.                                                      *)
LEMMA GlobalIdsCovered ==
    ASSUME IInv, Done, NoWrap(launch), NEW t \in GlobalIds,
           (launch.groups * launch.local) % (launch.factor * launch.stride) = 0,
           NEW ids, ids = [thread \in NewThreads(launch) |-> Values(code, launch, thread)]
    PROVE  {ids[thread][Operand(t, k)] :
               thread \in NewThreads(launch), k \in 0..(launch.factor - 1)}
              = 0..(launch.groups * launch.local - 1)
<1> DEFINE G == launch.groups
           L == launch.local
           M == NewLocal(launch)
           st == launch.stride
           cf == launch.factor
           d == cf * st
           R == G * L
           b == R \div d
           Id(thread, k) == OrigTid(launch, thread[1] * M + thread[2], k)
<1>1. launch \in Launches
  BY DEF IInv, ScaledInv
<1>2. /\ G \in Nat /\ L \in Nat /\ M \in Nat /\ Positive(launch) /\ L = cf * M
      /\ st \in Nat \ {0} /\ cf \in Nat \ {0} /\ R \in Nat /\ R < Word /\ R % d = 0
  BY <1>1, LaunchFits DEF Positive
<1>3. Word \in Nat \ {0}
  BY WidthsAssumption
<1>4. t \in IdsIn(launch.direction) /\ Calls[t].name = "get_global_id"
  BY DEF GlobalIds
<1>5. \A thread \in NewThreads(launch), k \in Subids(launch) :
         ids[thread][Operand(t, k)] = Id(thread, k) % Word
  <2> SUFFICES ASSUME NEW thread \in NewThreads(launch), NEW k \in Subids(launch)
               PROVE  ids[thread][Operand(t, k)] = Id(thread, k) % Word
    OBVIOUS
  <2> DEFINE v == Values(code, launch, thread)
  <2>1. ids[thread] = v
    OBVIOUS
  <2> HIDE DEF v
  <2>2. v[Operand(t, k)] = Id(thread, k) % Word
    BY <1>4, IdsOfCopy DEF v
  <2> QED
    BY <2>1, <2>2
<1>6. \A thread \in NewThreads(launch) : thread[1] \in 0..(G - 1) /\ thread[2] \in 0..(M - 1)
  BY <1>1, NewThreadsAre
<1>7. \A i \in 0..(G - 1), j \in 0..(M - 1) : <<i, j>> \in NewThreads(launch)
  BY DEF NewThreads
<1> HIDE DEF G, L, M, st, cf, d, R
<1>8. d \in Nat \ {0} /\ d = cf * st /\ R = G * L /\ G * M \in Nat
  BY <1>2, SMT DEF d, R
<1>9. b \in Nat /\ R = d * b
  <2>1. b \in Nat /\ R = d * b + (R % d)
    BY <1>2, <1>8, DivMod
  <2>2. d * b \in Nat
    BY <1>8, <2>1, SMT
  <2> QED
    BY <1>2, <2>1, <2>2
<1> HIDE DEF b
<1>10. G * M = st * b /\ R = st * (cf * b)
  <2>1. R = st * (cf * b) /\ R = cf * (st * b) /\ R = cf * (G * M)
    BY <1>2, <1>8, <1>9, SMT
  <2>2. st * b \in Nat
    BY <1>2, <1>9, SMT
  <2>3. cf * (G * M) + 0 = cf * (st * b) + 0 /\ 0 \in 0..(cf - 1)
    BY <1>2, <2>1
  <2>4. G * M = st * b
    BY <1>2, <1>8, <2>2, <2>3, DivModUnique
  <2> QED
    BY <2>1, <2>4
<1>11. ASSUME NEW thread \in NewThreads(launch), NEW k \in Subids(launch)
       PROVE  Id(thread, k) \in 0..(R - 1) /\ Id(thread, k) % Word = Id(thread, k)
  <2> DEFINE n == thread[1] * M + thread[2]
  <2>1. n \in Nat /\ n < G * M
    BY <1>2, <1>6, IdBelow
  <2> HIDE DEF n
  <2>2. OrigTid(launch, n, k) \in Nat
    BY <1>2, <2>1, OrigTidIsNumber
  <2>3. OrigTid(launch, n, k) < launch.stride * (launch.factor * b) <=> n < launch.stride * b
    BY <1>2, <1>9, <2>1, CopiesStayInRange
  <2>4. OrigTid(launch, n, k) < R
    BY <1>10, <2>1, <2>3 DEF st, cf
  <2>5. OrigTid(launch, n, k) % Word = OrigTid(launch, n, k)
    <3>1. OrigTid(launch, n, k) < Word
      BY <1>2, <1>3, <2>2, <2>4
    <3> QED
      BY <1>3, <2>2, <3>1, ModSmall
  <2> QED
    BY <1>2, <2>2, <2>4, <2>5 DEF n
<1>12. ASSUME NEW o \in 0..(R - 1)
       PROVE  \E thread \in NewThreads(launch), k \in Subids(launch) : Id(thread, k) = o
  <2>1. o \in Nat /\ o < R
    BY <1>2
  <2>2. PICK n \in Nat, k \in Subids(launch) : OrigTid(launch, n, k) = o
    BY <1>2, <2>1, NoThreadLost
  <2>3. OrigTid(launch, n, k) < launch.stride * (launch.factor * b) <=> n < launch.stride * b
    BY <1>2, <1>9, CopiesStayInRange
  <2>4. n < G * M
    BY <1>10, <2>1, <2>2, <2>3 DEF st, cf
  <2>5. M # 0
    BY <1>2, <2>4, SMT
  <2> DEFINE i == n \div M
             j == n % M
  <2>6. i \in Nat /\ j \in 0..(M - 1) /\ n = M * i + j
    BY <1>2, <2>5, DivMod
  <2> HIDE DEF i, j
  <2>7. M * G = G * M /\ M * i = i * M
    BY <1>2, <2>6, SMT
  <2>8. i < G
    <3>1. M * i + j < M * G
      BY <2>4, <2>6, <2>7
    <3> QED
      BY <1>2, <2>5, <2>6, <3>1, DivBelow
  <2>9. <<i, j>> \in NewThreads(launch)
    BY <1>2, <1>7, <2>6, <2>8
  <2>10. Id(<<i, j>>, k) = o
    BY <2>2, <2>6, <2>7
  <2> QED
    BY <2>9, <2>10
<1> HIDE DEF Id
<1>13. Subids(launch) = 0..(launch.factor - 1) /\ R = launch.groups * launch.local
  BY DEF Subids, R, G, L
<1>14. \A thread \in NewThreads(launch), k \in Subids(launch) :
          ids[thread][Operand(t, k)] = Id(thread, k) /\ Id(thread, k) \in 0..(R - 1)
  BY <1>5, <1>11
<1> DEFINE covered == {ids[thread][Operand(t, k)] : thread \in NewThreads(launch), k \in Subids(launch)}
<1>15. covered \subseteq 0..(R - 1)
  BY <1>14
<1>16. 0..(R - 1) \subseteq covered
  <2> SUFFICES ASSUME NEW o \in 0..(R - 1) PROVE o \in covered
    OBVIOUS
  <2>1. PICK thread \in NewThreads(launch), k \in Subids(launch) : Id(thread, k) = o
    BY <1>12
  <2>2. ids[thread][Operand(t, k)] = o
    BY <1>14, <2>1
  <2> QED
    BY <2>2
<1>17. covered = 0..(R - 1)
  <2> HIDE DEF covered
  <2> QED
    BY <1>15, <1>16
<1> QED
  BY <1>13, <1>17

(* EachThreadOnce (NDRangeScaling.cpp 39-75, 117-177): where the blocks of  *)
(* factor * stride ids tile the groups, the coarsened launch runs each      *)
(* thread of the original one and no other; where they tile only the range, *)
(* its global ids are still those of the original launch. It holds for      *)
(* every kernel, launch, factor and stride.                                 *)
THEOREM CopiesAreTheThreads ==
    Spec => []EachThreadOnce
<1>1. IInv => EachThreadOnce
  <2> SUFFICES ASSUME IInv, Done, NoWrap(launch) PROVE EachThreadOnce
    BY DEF EachThreadOnce
  <2> DEFINE x == launch
             new == NewThreads(x)
             old == (0..(x.groups - 1)) \X (0..(x.local - 1))
             ids == [thread \in new |-> Values(code, x, thread)]
             IsCopy(thread, k, o) ==
                \A t \in IdsIn(x.direction) :
                    ids[thread][Operand(t, k)] = Called(Calls[t], x, x.local, o)
  <2>1. x \in Launches
    BY DEF IInv, ScaledInv
  <2>2. ASSUME Tiled(x), NEW thread \in new, NEW k \in Subids(x)
        PROVE  \E o \in old : o = <<thread[1], OrigTid(x, thread[2], k)>> /\ IsCopy(thread, k, o)
    <3> DEFINE v == Values(code, x, thread)
               o == <<thread[1], OrigTid(x, thread[2], k)>>
    <3>1. ids[thread] = v
      OBVIOUS
    <3>2. /\ o[1] \in 0..(x.groups - 1) /\ o[2] \in 0..(x.local - 1)
          /\ \A t \in IdsIn(x.direction) : v[Operand(t, k)] = Called(Calls[t], x, x.local, o)
      <4> HIDE DEF v, o
      <4> QED
        BY <2>2, CopyIsThread DEF v, o
    <3>3. o \in old
      BY <3>2
    <3> HIDE DEF v, o, ids
    <3>4. IsCopy(thread, k, o)
      BY <3>1, <3>2
    <3> QED
      BY <3>3, <3>4 DEF o
  <2>3. ASSUME Tiled(x), NEW o \in old
        PROVE  \E thread \in new, k \in Subids(x) : IsCopy(thread, k, o)
    <3>1. PICK thread \in NewThreads(x), k \in Subids(x) : o = <<thread[1], OrigTid(x, thread[2], k)>>
      BY <2>1, <2>3, ThreadHasCopy
    <3> HIDE DEF IsCopy
    <3> QED
      BY <2>2, <2>3, <3>1
  <2>4. ASSUME (x.groups * x.local) % (x.factor * x.stride) = 0, NEW t \in GlobalIds
        PROVE  {ids[thread][Operand(t, k)] : thread \in new, k \in 0..(x.factor - 1)}
                  = 0..(x.groups * x.local - 1)
    <3>1. ids = [thread \in NewThreads(launch) |-> Values(code, launch, thread)]
      OBVIOUS
    <3> HIDE DEF ids
    <3> QED
      BY <2>4, <3>1, GlobalIdsCovered
  <2>5. Subids(x) = 0..(x.factor - 1)
    BY DEF Subids
  <2> HIDE DEF IsCopy, ids, new, old
  <2>6. Tiled(x) =>
           /\ \A o \in old : \E thread \in new, k \in 0..(x.factor - 1) : IsCopy(thread, k, o)
           /\ \A thread \in new, k \in 0..(x.factor - 1) : \E o \in old : IsCopy(thread, k, o)
    BY <2>2, <2>3, <2>5
  <2>7. (x.groups * x.local) % (x.factor * x.stride) = 0 =>
           \A t \in GlobalIds :
              {ids[thread][Operand(t, k)] : thread \in new, k \in 0..(x.factor - 1)}
                 = 0..(x.groups * x.local - 1)
    BY <2>4
  <2> QED
    BY <2>6, <2>7 DEF EachThreadOnce, IsCopy, ids, new, old
<1> QED
  BY <1>1, Invariant, PTL
=============================================================================
