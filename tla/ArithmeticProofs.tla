-------------------------- MODULE ArithmeticProofs ---------------------------
(***************************************************************************)
(* Integer operators of every width: what the C expressions compute is what *)
(* Go says, or the process ends; and where it ends although Go goes on.     *)
(***************************************************************************)
EXTENDS Arithmetic, FiniteSetTheorems, TLAPS

-----------------------------------------------------------------------------
(* Powers of two.  The provers know nothing of them; they are counted as    *)
(* sets of subsets.                                                         *)

LEMMA PowerCounts ==
  ASSUME NEW a \in Nat, NEW b \in Nat
  PROVE  /\ IsFiniteSet(SUBSET (a + 1 .. a + b))
         /\ Cardinality(SUBSET (a + 1 .. a + b)) = 2^b
<1>1. IsFiniteSet(a + 1 .. a + b) /\ Cardinality(a + 1 .. a + b) = b
  BY FS_Interval
<1> QED BY <1>1, FS_SUBSET

LEMMA PowerPositive ==
  ASSUME NEW n \in Nat
  PROVE  2^n \in Nat /\ 2^n >= 1
<1>1. IsFiniteSet(SUBSET (0 + 1 .. 0 + n)) /\ Cardinality(SUBSET (0 + 1 .. 0 + n)) = 2^n
  BY PowerCounts
<1>2. Cardinality(SUBSET (0 + 1 .. 0 + n)) \in Nat
  BY <1>1, FS_CardinalityType
<1>3. SUBSET (0 + 1 .. 0 + n) # {}
  OBVIOUS
<1>4. Cardinality(SUBSET (0 + 1 .. 0 + n)) # 0
  BY <1>1, <1>3, FS_EmptySet
<1> QED BY <1>1, <1>2, <1>4

\* A subset of 1 .. m + n is one of 1 .. m and one of m + 1 .. m + n.
LEMMA PowerOfSum ==
  ASSUME NEW m \in Nat, NEW n \in Nat
  PROVE  2^(m + n) = 2^m * 2^n
<1> DEFINE A == 0 + 1 .. 0 + m
           B == m + 1 .. m + n
           U == 0 + 1 .. 0 + (m + n)
           f == [X \in SUBSET U |-> <<X \cap A, X \cap B>>]
<1>1. /\ IsFiniteSet(SUBSET A) /\ Cardinality(SUBSET A) = 2^m
      /\ IsFiniteSet(SUBSET B) /\ Cardinality(SUBSET B) = 2^n
      /\ IsFiniteSet(SUBSET U) /\ Cardinality(SUBSET U) = 2^(m + n)
  <2>1. IsFiniteSet(SUBSET A) /\ Cardinality(SUBSET A) = 2^m
    BY PowerCounts
  <2>2. IsFiniteSet(SUBSET B) /\ Cardinality(SUBSET B) = 2^n
    BY PowerCounts
  <2>3. m + n \in Nat
    OBVIOUS
  <2>4. IsFiniteSet(SUBSET U) /\ Cardinality(SUBSET U) = 2^(m + n)
    BY <2>3, PowerCounts
  <2> QED BY <2>1, <2>2, <2>4
<1>2. U = A \cup B /\ A \cap B = {}
  OBVIOUS
<1> HIDE DEF A, B, U
<1>3. f \in [SUBSET U -> (SUBSET A) \X (SUBSET B)]
  OBVIOUS
<1>4. \A X, Y \in SUBSET U : f[X] = f[Y] => X = Y
  <2> SUFFICES ASSUME NEW X \in SUBSET U, NEW Y \in SUBSET U, f[X] = f[Y] PROVE X = Y
    OBVIOUS
  <2>1. <<X \cap A, X \cap B>> = <<Y \cap A, Y \cap B>>
    BY DEF f
  <2>2. X \cap A = Y \cap A /\ X \cap B = Y \cap B
    BY ONLY <2>1
  <2> QED BY <1>2, <2>2
<1>5. \A p \in (SUBSET A) \X (SUBSET B) : \E X \in SUBSET U : f[X] = p
  <2> SUFFICES ASSUME NEW p \in (SUBSET A) \X (SUBSET B)
               PROVE  \E X \in SUBSET U : f[X] = p
    OBVIOUS
  <2>0. PICK X \in SUBSET A, Y \in SUBSET B : p = <<X, Y>>
    OBVIOUS
  <2>1. X \cup Y \in SUBSET U /\ (X \cup Y) \cap A = X /\ (X \cup Y) \cap B = Y
    BY <1>2
  <2>2. f[X \cup Y] = <<X, Y>>
    BY <2>1
  <2> QED BY <2>0, <2>1, <2>2
<1>6. ExistsBijection(SUBSET U, (SUBSET A) \X (SUBSET B))
  <2> HIDE DEF f
  <2>1. f \in Bijection(SUBSET U, (SUBSET A) \X (SUBSET B))
    BY <1>3, <1>4, <1>5 DEF Bijection, Injection, Surjection, IsInjective
  <2> QED BY <2>1 DEF ExistsBijection
<1> HIDE DEF f
<1>7. Cardinality((SUBSET A) \X (SUBSET B)) = Cardinality(SUBSET U)
  BY <1>1, <1>6, FS_Bijection
<1>8. Cardinality((SUBSET A) \X (SUBSET B)) = 2^m * 2^n
  <2> DEFINE S == SUBSET A
             T == SUBSET B
  <2>1. /\ IsFiniteSet(S) /\ Cardinality(S) = 2^m
        /\ IsFiniteSet(T) /\ Cardinality(T) = 2^n
    BY <1>1
  <2> HIDE DEF S, T
  <2>2. Cardinality(S \X T) = Cardinality(S) * Cardinality(T)
    BY <2>1, FS_Product
  <2> QED BY <2>1, <2>2 DEF S, T
<1> QED BY <1>1, <1>7, <1>8

LEMMA PowerGrows ==
  ASSUME NEW m \in Nat, NEW n \in Nat, m <= n
  PROVE  /\ 2^n = 2^m * 2^(n - m) /\ n - m \in Nat
         /\ 2^m <= 2^n
<1>1. n - m \in Nat /\ m + (n - m) = n
  OBVIOUS
<1>2. 2^n = 2^m * 2^(n - m)
  BY <1>1, PowerOfSum
<1>3. \A a, b \in Nat : b >= 1 => a <= a * b
  OBVIOUS
<1> QED BY <1>1, <1>2, <1>3, PowerPositive

LEMMA PowerOne == 2^1 = 2 /\ 2^0 = 1
OBVIOUS

-----------------------------------------------------------------------------
(* Remainders.                                                              *)

LEMMA Division ==
  ASSUME NEW a \in Int, NEW b \in Nat \ {0}
  PROVE  /\ a \div b \in Int /\ (a % b) \in 0 .. b - 1
         /\ a = b * (a \div b) + (a % b)
OBVIOUS

\* Quotient and remainder are the only ones.
LEMMA DivisionUnique ==
  ASSUME NEW b \in Nat \ {0}, NEW q \in Int, NEW r \in 0 .. b - 1
  PROVE  (b * q + r) % b = r /\ (b * q + r) \div b = q
<1> DEFINE a == b * q + r
           p == a \div b
           s == a % b
<1>1. a \in Int /\ p \in Int /\ s \in 0 .. b - 1 /\ a = b * p + s
  BY Division
<1> HIDE DEF p, s
<1>2. b * (p - q) = r - s
  BY <1>1
<1>3. \A d \in Int : d >= 1 => b * d >= b
  OBVIOUS
<1>4. \A d \in Int : d <= -1 => b * d <= -b
  OBVIOUS
<1>5. p = q
  <2>1. p - q \in Int
    BY <1>1
  <2>2. r - s < b /\ r - s > -b
    BY <1>1
  <2> QED BY <1>1, <1>2, <1>3, <1>4, <2>1, <2>2
<1>6. r = s
  BY <1>1, <1>5
<1> QED BY <1>5, <1>6 DEF p, s

-----------------------------------------------------------------------------
(* Cutting a number to a width.                                             *)

\* Twice the half of the values of a width.
LEMMA Half ==
  ASSUME NEW w \in Nat \ {0}
  PROVE  /\ 2^w \in Nat /\ 2^(w - 1) \in Nat /\ 2^(w - 1) >= 1
         /\ 2^w = 2 * 2^(w - 1)
<1>1. w - 1 \in Nat /\ 1 + (w - 1) = w
  OBVIOUS
<1>2. 2^w = 2^1 * 2^(w - 1)
  BY <1>1, PowerOfSum
<1> QED BY <1>1, <1>2, PowerPositive, PowerOne

\* The value is one of the width and differs from n by a multiple of its size.
LEMMA CutIs ==
  ASSUME NEW n \in Int, NEW w \in Nat \ {0}, NEW s \in BOOLEAN
  PROVE  /\ Cut(n, w, s) \in Least(w, s) .. Greatest(w, s)
         /\ \E k \in Int : Cut(n, w, s) = n + k * 2^w
<1> DEFINE p == 2^w
           h == 2^(w - 1)
           u == n % p
           d == n \div p
<1>1. p \in Nat /\ h \in Nat /\ h >= 1 /\ p = 2 * h
  BY Half
<1>2. d \in Int /\ u \in 0 .. p - 1 /\ n = p * d + u
  <2> HIDE DEF p, h
  <2>1. p \in Nat \ {0}
    BY <1>1
  <2> QED BY <2>1, Division DEF u, d
<1>3. Cut(n, w, s) = IF s /\ u >= h THEN u - p ELSE u
  BY DEF Cut
<1>4. Least(w, s) = (IF s THEN -h ELSE 0) /\ Greatest(w, s) = IF s THEN h - 1 ELSE p - 1
  BY DEF Least, Greatest
<1> HIDE DEF p, h, u, d
<1>5. CASE s /\ u >= h
  <2>1. -d - 1 \in Int /\ u - p = n + (-d - 1) * p
    BY <1>1, <1>2
  <2>2. u - p \in -h .. h - 1
    BY <1>1, <1>2, <1>5
  <2> QED BY <1>3, <1>4, <1>5, <2>1, <2>2 DEF p
<1>6. CASE ~(s /\ u >= h)
  <2>1. -d \in Int /\ u = n + (-d) * p
    BY <1>1, <1>2
  <2>2. u \in IF s THEN -h .. h - 1 ELSE 0 .. p - 1
    BY <1>1, <1>2, <1>6
  <2> QED BY <1>3, <1>4, <1>6, <2>1, <2>2 DEF p
<1> QED BY <1>5, <1>6

\* ... and is the only such value.
LEMMA CutUnique ==
  ASSUME NEW w \in Nat \ {0}, NEW s \in BOOLEAN, NEW v \in Least(w, s) .. Greatest(w, s),
         NEW k \in Int
  PROVE  Cut(v + k * 2^w, w, s) = v
<1> DEFINE p == 2^w
           h == 2^(w - 1)
           n == v + k * p
<1>1. p \in Nat /\ h \in Nat /\ h >= 1 /\ p = 2 * h
  BY Half
<1>2. v \in IF s THEN -h .. h - 1 ELSE 0 .. p - 1
  BY DEF Least, Greatest
<1>3. Cut(n, w, s) = IF s /\ n % p >= h THEN (n % p) - p ELSE n % p
  BY DEF Cut
<1>6. n = v + k * p
  OBVIOUS
<1>7. Cut(n, w, s) = v => Cut(v + k * 2^w, w, s) = v
  OBVIOUS
<1> HIDE DEF p, h, n
<1>4. CASE v >= 0
  <2>1. v \in 0 .. p - 1 /\ n = p * k + v
    BY <1>1, <1>2, <1>4, <1>6
  <2>2. n % p = v
    <3>1. p \in Nat \ {0} /\ k \in Int
      BY <1>1
    <3>2. (p * k + v) % p = v
      BY <2>1, <3>1, DivisionUnique
    <3> QED BY <2>1, <3>2
  <2> QED BY <1>1, <1>2, <1>3, <1>4, <1>7, <2>2
<1>5. CASE v < 0
  <2>1. s /\ v \in -h .. -1
    BY <1>1, <1>2, <1>5
  <2>2. v + p \in 0 .. p - 1 /\ k - 1 \in Int /\ n = p * (k - 1) + (v + p)
    BY <1>1, <1>6, <2>1
  <2>3. n % p = v + p
    <3> DEFINE q == k - 1
               r == v + p
    <3>1. p \in Nat \ {0} /\ q \in Int /\ r \in 0 .. p - 1 /\ n = p * q + r
      BY <1>1, <2>2
    <3> HIDE DEF q, r
    <3>2. (p * q + r) % p = r
      BY <3>1, DivisionUnique
    <3> QED BY <3>1, <3>2 DEF r
  <2>4. v + p >= h /\ (v + p) - p = v
    BY <1>1, <2>1
  <2>5. Cut(n, w, s) = v
    BY <1>3, <2>1, <2>3, <2>4
  <2> QED BY <1>7, <2>5
<1> QED BY <1>1, <1>2, <1>4, <1>5

\* What differs by a multiple of the size of a width is cut to the same value.
LEMMA CutCongruent ==
  ASSUME NEW n \in Int, NEW w \in Nat \ {0}, NEW s \in BOOLEAN, NEW k \in Int
  PROVE  Cut(n + k * 2^w, w, s) = Cut(n, w, s)
<1>1. PICK j \in Int : Cut(n, w, s) = n + j * 2^w
  BY CutIs
<1> DEFINE v == Cut(n, w, s)
<1>2. v \in Int /\ v \in Least(w, s) .. Greatest(w, s)
  BY CutIs
<1>3. 2^w \in Nat
  BY Half
<1>4. k - j \in Int /\ v + (k - j) * 2^w = n + k * 2^w
  BY <1>1, <1>3
<1> HIDE DEF v
<1>5. Cut(v + (k - j) * 2^w, w, s) = v
  BY <1>2, <1>4, CutUnique
<1> QED BY <1>4, <1>5 DEF v

\* Cutting to a larger width first makes no difference.
LEMMA CutTwice ==
  ASSUME NEW n \in Int, NEW w \in Nat \ {0}, NEW s \in BOOLEAN,
         NEW wide \in Nat \ {0}, NEW sign \in BOOLEAN, w <= wide
  PROVE  Cut(Cut(n, wide, sign), w, s) = Cut(n, w, s)
<1>1. PICK k \in Int : Cut(n, wide, sign) = n + k * 2^wide
  BY CutIs
<1>2. 2^wide = 2^w * 2^(wide - w) /\ 2^w \in Nat /\ 2^(wide - w) \in Nat
  BY PowerGrows, PowerPositive
<1> DEFINE j == k * 2^(wide - w)
<1>3. j \in Int /\ n + k * 2^wide = n + j * 2^w
  BY <1>2
<1> HIDE DEF j
<1>4. Cut(n + j * 2^w, w, s) = Cut(n, w, s)
  BY <1>3, CutCongruent
<1> QED BY <1>1, <1>3, <1>4

\* A value of the width is not changed.
LEMMA CutKeeps ==
  ASSUME NEW w \in Nat \ {0}, NEW s \in BOOLEAN, NEW v \in Least(w, s) .. Greatest(w, s)
  PROVE  Cut(v, w, s) = v
<1>1. v \in Int /\ 2^w \in Nat
  BY Half DEF Least, Greatest
<1>2. PICK k \in Int : k = 0
  OBVIOUS
<1>3. v + k * 2^w = v
  BY <1>1, <1>2
<1>4. Cut(v + k * 2^w, w, s) = v
  BY CutUnique
<1> QED BY <1>3, <1>4

-----------------------------------------------------------------------------
(* Operators.                                                               *)

LEMMA TypeWidths ==
  ASSUME WidthsOK, NEW t \in IntegerTypes
  PROVE  /\ Width[t] \in Nat \ {0} /\ Signed(t) \in BOOLEAN
         /\ Promoted(t).width \in Nat \ {0} /\ Promoted(t).signed \in BOOLEAN
         /\ UnsignedType(t).width \in Nat \ {0} /\ UnsignedType(t).signed \in BOOLEAN
         /\ Width[t] <= Promoted(t).width /\ Width[t] <= UnsignedType(t).width
<1>1. /\ Width[t] \in Nat \ {0} /\ Signed(t) \in BOOLEAN
      /\ IntWidth \in Nat \ {0}
  BY DEF WidthsOK, Signed
<1>2. CASE Width[t] < IntWidth
  BY <1>1, <1>2 DEF Promoted, UnsignedType
<1>3. CASE ~(Width[t] < IntWidth)
  BY <1>1, <1>3 DEF Promoted, UnsignedType
<1> QED BY <1>1, <1>2, <1>3

\* What is computed in a type at least as wide is the value of t, or no value.
LEMMA InCIs ==
  ASSUME WidthsOK, NEW t \in IntegerTypes, NEW n \in Int, NEW p,
         p.width \in Nat \ {0}, p.signed \in BOOLEAN, Width[t] <= p.width
  PROVE  /\ InC(n, p, t) = Trap \/ InC(n, p, t) = ToType(n, t)
         /\ (~p.signed \/ n \in Least(p.width, TRUE) .. Greatest(p.width, TRUE)) =>
              InC(n, p, t) = ToType(n, t)
<1>1. ToType(Cut(n, p.width, p.signed), t) = ToType(n, t)
  BY TypeWidths, CutTwice DEF ToType
<1> QED BY <1>1 DEF InC

LEMMA ExactIs ==
  ASSUME NEW x \in Int, NEW y \in Int, NEW op \in Arithmetic,
         op \in {"QUO", "REM"} => y # 0
  PROVE  /\ Exact(op, x, y) \in Int
         /\ y # 0 => Exact("QUO", x, y) \in Int
<1>1. y # 0 => Quotient(x, y) \in Int
  <2> SUFFICES ASSUME y # 0 PROVE Quotient(x, y) \in Int
    OBVIOUS
  <2>1. Magnitude(x) \in Nat /\ Magnitude(y) \in Nat \ {0}
    BY DEF Magnitude
  <2>2. Magnitude(x) \div Magnitude(y) \in Int
    BY <2>1
  <2> QED BY <2>2 DEF Quotient
<1>2. CASE op \in {"QUO", "REM"}
  BY <1>1, <1>2 DEF Exact
<1>3. CASE op \in {"ADD", "SUB", "MUL"}
  BY <1>1, <1>3 DEF Exact
<1> QED BY <1>2, <1>3 DEF Arithmetic

\* Operators that C computes with a promotion: the outcome is cut to the same value.
LEMMA ArithmeticIsGo ==
  ASSUME WidthsOK, NEW t \in IntegerTypes, NEW x \in Int, NEW y \in Int, NEW op \in Arithmetic
  PROVE  CBinary(op, x, y, t) = Trap \/ CBinary(op, x, y, t) = GoBinary(op, x, y, t)
<1>1. CASE op \in {"QUO", "REM"} /\ y = 0
  BY <1>1 DEF CBinary, GoBinary, BitOperators, Shifts, Arithmetic
<1>2. CASE ~(op \in {"QUO", "REM"} /\ y = 0)
  <2>1. Exact(op, x, y) \in Int
    BY <1>2, ExactIs
  <2>2. InC(Exact(op, x, y), Promoted(t), t) \in {Trap, ToType(Exact(op, x, y), t)}
    BY <2>1, InCIs, TypeWidths
  <2>3. GoBinary(op, x, y, t) = ToType(Exact(op, x, y), t)
    BY <1>2 DEF GoBinary, BitOperators, Shifts, Arithmetic
  <2>4. CBinary(op, x, y, t) \in {Trap, InC(Exact(op, x, y), Promoted(t), t)}
    BY <1>2 DEF CBinary, BitOperators, Shifts, Arithmetic
  <2> QED BY <2>2, <2>3, <2>4
<1> QED BY <1>1, <1>2

\* The bits of x are those of a number that differs from it by a multiple of 2^w.
LEMMA UnsignedIs ==
  ASSUME WidthsOK, NEW t \in IntegerTypes, NEW x \in Int
  PROVE  /\ Unsigned(x, t) \in 0 .. 2^Width[t] - 1
         /\ \E k \in Int : Unsigned(x, t) = x + k * 2^Width[t]
<1> DEFINE p == 2^Width[t]
           d == x \div p
<1>1. p \in Nat \ {0}
  BY TypeWidths, PowerPositive
<1>2. Unsigned(x, t) = x % p
  BY DEF Unsigned
<1> HIDE DEF p
<1>3. d \in Int /\ (x % p) \in 0 .. p - 1 /\ x = p * d + (x % p)
  BY <1>1, Division
<1>4. -d \in Int /\ x % p = x + (-d) * p
  BY <1>1, <1>3
<1> QED BY <1>2, <1>3, <1>4 DEF p

\* The bits of x shifted are x shifted.
LEMMA ShlIsGo ==
  ASSUME WidthsOK, NEW t \in IntegerTypes, NEW x \in Int, NEW y \in Int
  PROVE  Shl(x, y, t) = Trap \/ Shl(x, y, t) = GoBinary("SHL", x, y, t)
<1> DEFINE u == Unsigned(x, t)
<1>1. CASE y < 0
  BY <1>1 DEF Shl
<1>2. CASE y >= Width[t]
  <2>1. Width[t] \in Nat
    BY TypeWidths
  <2> QED BY <1>2, <2>1 DEF Shl, GoBinary, Arithmetic, BitOperators, Shifts
<1>3. CASE y >= 0 /\ y < Width[t]
  <2>1. 2^y \in Nat /\ 2^Width[t] \in Nat
    BY <1>3, TypeWidths, PowerPositive
  <2>2. PICK k \in Int : u = x + k * 2^Width[t]
    BY UnsignedIs
  <2> DEFINE j == k * 2^y
             n == x * 2^y
  <2>3. j \in Int /\ n \in Int /\ u * 2^y \in Int /\ u * 2^y = n + j * 2^Width[t]
    BY <2>1, <2>2
  <2>4. InC(u * 2^y, UnsignedType(t), t) \in {Trap, ToType(u * 2^y, t)}
    BY <2>3, InCIs, TypeWidths
  <2>5. ToType(u * 2^y, t) = ToType(n, t)
    <3> HIDE DEF j, n
    <3>1. Cut(n + j * 2^Width[t], Width[t], Signed(t)) = Cut(n, Width[t], Signed(t))
      BY <2>3, TypeWidths, CutCongruent
    <3> QED BY <2>3, <3>1 DEF ToType
  <2>6. Width[t] \in Nat
    BY TypeWidths
  <2>7. GoBinary("SHL", x, y, t) = ToType(n, t)
    BY <1>3, <2>6 DEF GoBinary, Arithmetic, BitOperators, Shifts
  <2>8. Shl(x, y, t) = InC(u * 2^y, UnsignedType(t), t)
    BY <1>3, <2>6 DEF Shl
  <2> QED BY <2>4, <2>5, <2>7, <2>8
<1>4. Width[t] \in Nat
  BY TypeWidths
<1> QED BY <1>1, <1>2, <1>3, <1>4

\* A value of t shifted to the right, the vacated bits filled with its sign, is
\* its quotient by a power of two.
LEMMA ShrIsGo ==
  ASSUME WidthsOK, DisjointBitsAdd(Nat), NEW t \in IntegerTypes, NEW x \in ValuesOf(t), NEW y \in Int
  PROVE  Shr(x, y, t) = GoBinary("SHR", x, y, t)
<1> DEFINE w == Width[t]
           p == 2^w
           u == Unsigned(x, t)
           fill == IF x < 0 THEN p - 1 ELSE 0
<1>1. w \in Nat \ {0} /\ p \in Nat \ {0} /\ Signed(t) \in BOOLEAN
  BY TypeWidths, PowerPositive
<1>2. 2^(w - 1) \in Nat /\ p = 2 * 2^(w - 1)
  BY <1>1, Half
<1>3. x \in Int /\ -p <= x /\ x < p /\ x \in Least(w, Signed(t)) .. Greatest(w, Signed(t))
  BY <1>1, <1>2 DEF ValuesOf, Least, Greatest
<1>4. u = IF x < 0 THEN x + p ELSE x
  <2> DEFINE q == IF x < 0 THEN -1 ELSE 0
             r == IF x < 0 THEN x + p ELSE x
  <2>1. q \in Int /\ r \in 0 .. p - 1 /\ x = p * q + r
    BY <1>1, <1>3
  <2>2. u = x % p
    BY DEF Unsigned
  <2> HIDE DEF p, q, r
  <2>3. (p * q + r) % p = r
    BY <1>1, <2>1, DivisionUnique
  <2> QED BY <2>1, <2>2, <2>3 DEF r
\* q is what Go computes, C computes it or a number that differs by p.
<1>5. ASSUME NEW q \in Least(w, Signed(t)) .. Greatest(w, Signed(t)), NEW n \in {q, q + p}
      PROVE  ToType(n, t) = q
  <2>1. PICK k \in Int : k = 1
    OBVIOUS
  <2>2. q \in Int /\ q + k * p = q + p
    BY <1>1, <1>2, <2>1 DEF Least, Greatest
  <2> HIDE DEF w
  <2>3. Cut(q, w, Signed(t)) = q
    BY <1>1, CutKeeps
  <2>4. Cut(q + k * 2^w, w, Signed(t)) = q
    BY <1>1, CutUnique
  <2> QED BY <2>2, <2>3, <2>4 DEF ToType, w
<1>6. x < 0 => Least(w, Signed(t)) <= -1 /\ -1 <= Greatest(w, Signed(t))
  BY <1>1, <1>2, <1>3, PowerPositive DEF Least, Greatest
<1>7. Least(w, Signed(t)) <= 0 /\ 0 <= Greatest(w, Signed(t))
  <2>1. 2^(w - 1) >= 1
    BY <1>1, Half
  <2> QED BY <1>1, <1>2, <2>1 DEF Least, Greatest
<1>8. CASE y < 0
  BY <1>1, <1>8 DEF Shr, GoBinary, Arithmetic, BitOperators, Shifts
<1>9. CASE y >= w
  <2> DEFINE q == IF x < 0 THEN -1 ELSE 0
  <2>1. x \div p = q
    <3> DEFINE r == IF x < 0 THEN x + p ELSE x
    <3>1. q \in Int /\ r \in 0 .. p - 1 /\ x = p * q + r
      BY <1>1, <1>3
    <3> HIDE DEF p, q, r
    <3>2. (p * q + r) \div p = q
      BY <1>1, <3>1, DivisionUnique
    <3> QED BY <3>1, <3>2
  <2>2. fill \in {q, q + p} /\ q \in Least(w, Signed(t)) .. Greatest(w, Signed(t))
    <3>1. Least(w, Signed(t)) \in Int /\ Greatest(w, Signed(t)) \in Int
      BY <1>1, <1>2 DEF Least, Greatest
    <3> QED BY <1>1, <1>6, <1>7, <3>1
  <2>3. ToType(fill, t) = q
    BY <1>5, <2>2
  <2>4. Shr(x, y, t) = ToType(fill, t)
    BY <1>1, <1>9 DEF Shr
  <2>5. GoBinary("SHR", x, y, t) = x \div p
    BY <1>1, <1>9 DEF GoBinary, Arithmetic, BitOperators, Shifts
  <2> QED BY <2>1, <2>3, <2>4, <2>5
<1>10. CASE y = 0
  <2>1. ToType(u, t) = x
    BY <1>3, <1>4, <1>5
  <2>2. Shr(x, y, t) = ToType(u, t)
    BY <1>1, <1>10 DEF Shr
  <2>3. GoBinary("SHR", x, y, t) = x \div 2^0
    BY <1>1, <1>10 DEF GoBinary, Arithmetic, BitOperators, Shifts
  <2>4. x \div 2^0 = x
    BY <1>3, PowerOne
  <2> QED BY <2>1, <2>2, <2>3, <2>4
<1>11. CASE y \in 1 .. w - 1
  <2> DEFINE a == 2^y
             b == 2^(w - y)
             q == x \div a
  <2>1. y \in Nat /\ w - y \in Nat /\ y + (w - y) = w
    BY <1>1, <1>11
  <2>2. a \in Nat \ {0} /\ b \in Nat \ {0} /\ p = a * b
    <3>1. 2^(y + (w - y)) = 2^y * 2^(w - y)
      BY <2>1, PowerOfSum
    <3>2. 2^y \in Nat \ {0} /\ 2^(w - y) \in Nat \ {0}
      BY <2>1, PowerPositive
    <3> QED BY <2>1, <3>1, <3>2
  <2>3. q \in Int /\ (x % a) \in 0 .. a - 1 /\ x = a * q + (x % a)
    <3> HIDE DEF a
    <3> QED BY <1>3, <2>2, Division
  <2>4. u \div a = IF x < 0 THEN q + b ELSE q
    <3> DEFINE s == IF x < 0 THEN q + b ELSE q
               r == x % a
    <3>1. s \in Int /\ r \in 0 .. a - 1 /\ u = a * s + r
      <4> HIDE DEF a, b, q, p, u
      <4>1. a * (q + b) = a * q + p
        BY <2>2, <2>3
      <4> QED BY <1>4, <2>2, <2>3, <4>1
    <3> HIDE DEF a, s, r, u
    <3>2. (a * s + r) \div a = s
      BY <2>2, <3>1, DivisionUnique
    <3> QED BY <3>1, <3>2 DEF s
  <2>5. (fill \div b) = IF x < 0 THEN a - 1 ELSE 0
    <3> DEFINE s == IF x < 0 THEN a - 1 ELSE 0
               r == IF x < 0 THEN b - 1 ELSE 0
    <3>1. s \in Int /\ r \in 0 .. b - 1 /\ fill = b * s + r
      <4> HIDE DEF a, b, p
      <4>1. b * (a - 1) = p - b
        BY <2>2
      <4> QED BY <2>2, <4>1
    <3> HIDE DEF b, s, r, fill
    <3>2. (b * s + r) \div b = s
      BY <2>2, <3>1, DivisionUnique
    <3> QED BY <3>1, <3>2 DEF s
  <2>6. /\ fill \div b \in Nat /\ u \div a \in 0 .. b - 1
        /\ x < 0 => q <= -1 /\ -b <= q
        /\ x >= 0 => q >= 0 /\ q <= b - 1
    <3> HIDE DEF a, b, p, q
    <3>1. x < 0 => q <= -1
      <4>1. q >= 0 => a * q >= 0
        BY <2>2, <2>3
      <4> QED BY <1>3, <2>2, <2>3, <4>1
    <3>2. -b <= q
      <4>1. q <= -b - 1 => a * q <= a * (-b - 1)
        BY <2>2, <2>3
      <4>2. a * (-b - 1) = -p - a
        BY <2>2
      <4> QED BY <1>1, <1>3, <2>2, <2>3, <4>1, <4>2
    <3>3. x >= 0 => q >= 0
      <4>1. q <= -1 => a * q <= -a
        BY <2>2, <2>3
      <4> QED BY <1>3, <2>2, <2>3, <4>1
    <3>4. q <= b - 1
      <4>1. q >= b => a * q >= p
        BY <2>2, <2>3
      <4> QED BY <1>1, <1>3, <2>2, <2>3, <4>1
    <3> QED BY <2>2, <2>3, <2>4, <2>5, <3>1, <3>2, <3>3, <3>4
  <2> DEFINE n == BitOr((fill \div b) * b, u \div a)
  <2>7. n = (fill \div b) * b + (u \div a)
    BY <2>1, <2>6 DEF DisjointBitsAdd
  <2>8. n = IF x < 0 THEN q + p ELSE q
    <3> HIDE DEF a, b, p, q, u, fill, n
    <3>1. (a - 1) * b = p - b
      BY <2>2
    <3> QED BY <2>2, <2>3, <2>4, <2>5, <2>7, <3>1
  <2>9. q \in Least(w, Signed(t)) .. Greatest(w, Signed(t))
    <3>1. Least(w, Signed(t)) \in Int /\ Greatest(w, Signed(t)) \in Int
      BY <1>1, <1>2 DEF Least, Greatest
    <3>2. x < 0 => x <= q
      <4> HIDE DEF a, q
      <4>1. q <= -1 => a * q <= q
        BY <2>2, <2>3
      <4> QED BY <1>3, <2>2, <2>3, <2>6, <4>1
    <3>3. x >= 0 => q <= x
      <4> HIDE DEF a, q
      <4>1. q >= 0 => a * q >= q
        BY <2>2, <2>3
      <4> QED BY <1>3, <2>2, <2>3, <2>6, <4>1
    <3> HIDE DEF a, b, q, p
    <3> QED BY <1>3, <1>6, <1>7, <2>3, <2>6, <3>1, <3>2, <3>3
  <2>10. ToType(n, t) = q
    <3> HIDE DEF n, q, p
    <3> QED BY <1>5, <2>8, <2>9
  <2>11. Shr(x, y, t) = ToType(n, t)
    BY <1>1, <1>11 DEF Shr
  <2>12. GoBinary("SHR", x, y, t) = q
    BY <1>1, <1>11 DEF GoBinary, Arithmetic, BitOperators, Shifts
  <2> QED BY <2>10, <2>11, <2>12
<1> QED BY <1>1, <1>8, <1>9, <1>10, <1>11

\* What C computes with an integer operator is what Go says, or it ends the
\* process, for types of any width (main.go, case *ssa.BinOp).
THEOREM IntegersAreGo ==
  ASSUME WidthsOK, DisjointBitsAdd(Nat), NEW t \in IntegerTypes, NEW x \in ValuesOf(t), NEW y \in Int,
         NEW op \in Arithmetic \cup BitOperators \cup Shifts
  PROVE  CBinary(op, x, y, t) = Trap \/ CBinary(op, x, y, t) = GoBinary(op, x, y, t)
<1>1. x \in Int
  BY TypeWidths, Half DEF ValuesOf, Least, Greatest
<1>2. CASE op \in Arithmetic
  BY <1>1, <1>2, ArithmeticIsGo
<1>3. CASE op \in BitOperators
  BY <1>3 DEF CBinary, GoBinary, Arithmetic, BitOperators, Shifts
<1>4. CASE op = "SHL"
  <2>1. CBinary(op, x, y, t) = Shl(x, y, t)
    BY <1>4 DEF CBinary, BitOperators
  <2> QED BY <1>1, <1>4, <2>1, ShlIsGo
<1>5. CASE op = "SHR"
  <2>1. CBinary(op, x, y, t) = Shr(x, y, t)
    BY <1>5 DEF CBinary, BitOperators
  <2> QED BY <1>5, <2>1, ShrIsGo
<1> QED BY <1>2, <1>3, <1>4, <1>5 DEF Shifts

\* The same of the operators with one operand.
THEOREM NegationIsGo ==
  ASSUME WidthsOK, NEW t \in IntegerTypes, NEW x \in Int, NEW op \in {"SUB", "XOR"}
  PROVE  CUnary(op, x, t) = Trap \/ CUnary(op, x, t) = GoUnary(op, x, t)
<1>1. CASE op = "SUB"
  <2>1. -x \in Int
    OBVIOUS
  <2>2. InC(-x, Promoted(t), t) = Trap \/ InC(-x, Promoted(t), t) = ToType(-x, t)
    BY <2>1, InCIs, TypeWidths
  <2> QED BY <1>1, <2>2 DEF CUnary, GoUnary
<1>2. CASE op = "XOR"
  <2> DEFINE n == -x - 1
  <2>1. n \in Int
    OBVIOUS
  <2> HIDE DEF n
  <2>2. PICK k \in Int : Unsigned(n, t) = n + k * 2^Width[t]
    BY <2>1, UnsignedIs
  <2>3. ToType(Unsigned(n, t), t) = ToType(n, t)
    BY <2>1, <2>2, TypeWidths, CutCongruent DEF ToType
  <2> QED BY <1>2, <2>3 DEF CUnary, GoUnary, n
<1> QED BY <1>1, <1>2

-----------------------------------------------------------------------------
(* Where the process ends although Go goes on.                              *)

\* The result has no place in the type in which C computes it, for a remainder
\* the quotient.
Overflows(op, x, y, t) ==
  /\ Promoted(t).signed
  /\ Exact(IF op = "REM" THEN "QUO" ELSE op, x, y)
       \notin Least(Promoted(t).width, TRUE) .. Greatest(Promoted(t).width, TRUE)

\* int has room for the sum of two operands that are narrower, and for one that
\* is shifted within its width.
LEMMA NarrowFits ==
  ASSUME WidthsOK, NEW t \in IntegerTypes, Width[t] < IntWidth
  PROVE  /\ 2^(IntWidth - 1) \in Nat /\ 2^Width[t] \in Nat /\ 2^(Width[t] - 1) \in Nat
         /\ 2 * 2^Width[t] <= 2^(IntWidth - 1)
         /\ 2^Width[t] * 2^(Width[t] - 1) <= 2^(IntWidth - 1)
<1> DEFINE w == Width[t]
<1>1. w \in Nat /\ w >= 2 /\ IntWidth \in Nat /\ w + (w - 1) <= IntWidth - 1
  BY DEF WidthsOK
<1> HIDE DEF w
<1>2. 2^w \in Nat /\ 2^(w - 1) \in Nat /\ 2^(IntWidth - 1) \in Nat
  BY <1>1, PowerPositive
<1>3. 2^(w + (w - 1)) = 2^w * 2^(w - 1)
  BY <1>1, PowerOfSum
<1>4. 2^(w + (w - 1)) <= 2^(IntWidth - 1)
  <2>1. w + (w - 1) \in Nat /\ IntWidth - 1 \in Nat
    BY <1>1
  <2> QED BY <1>1, <2>1, PowerGrows
<1>5. 2^1 <= 2^(w - 1)
  <2>1. 1 \in Nat /\ w - 1 \in Nat /\ 1 <= w - 1
    BY <1>1
  <2> QED BY <2>1, PowerGrows
<1>6. 2 * 2^w <= 2^w * 2^(w - 1)
  <2>1. \A a, b \in Nat : 2 <= b => 2 * a <= a * b
    OBVIOUS
  <2> QED BY <1>2, <1>5, <2>1, PowerOne
<1> QED BY <1>2, <1>3, <1>4, <1>6 DEF w

\* The values of t are values of the type it is promoted to.
LEMMA PromotedHolds ==
  ASSUME WidthsOK, NEW t \in IntegerTypes, Promoted(t).signed
  PROVE  /\ Least(Promoted(t).width, TRUE) \in Int /\ Greatest(Promoted(t).width, TRUE) \in Int
         /\ Least(Promoted(t).width, TRUE) <= Least(Width[t], Signed(t))
         /\ Greatest(Width[t], Signed(t)) <= Greatest(Promoted(t).width, TRUE)
<1>1. /\ Width[t] \in Nat \ {0} /\ Promoted(t).width \in Nat \ {0}
      /\ Width[t] <= Promoted(t).width
  BY TypeWidths
<1>2. /\ 2^Width[t] \in Nat /\ 2^(Width[t] - 1) \in Nat
      /\ 2^(Promoted(t).width - 1) \in Nat
  BY <1>1, Half
<1>3. CASE Signed(t)
  <2>1. 2^(Width[t] - 1) <= 2^(Promoted(t).width - 1)
    <3>1. /\ Width[t] - 1 \in Nat /\ Promoted(t).width - 1 \in Nat
          /\ Width[t] - 1 <= Promoted(t).width - 1
      BY <1>1
    <3> QED BY <3>1, PowerGrows
  <2> QED BY <1>2, <1>3, <2>1 DEF Least, Greatest
<1>4. CASE ~Signed(t)
  <2>1. Width[t] < IntWidth /\ Promoted(t).width = IntWidth
    BY <1>4 DEF Promoted
  <2>2. 2 * 2^Width[t] <= 2^(IntWidth - 1)
    BY <2>1, NarrowFits
  <2> QED BY <1>2, <1>4, <2>1, <2>2 DEF Least, Greatest
<1> QED BY <1>3, <1>4

\* A remainder is smaller than the divisor and has the sign of the dividend.
LEMMA Remainder ==
  ASSUME NEW x \in Int, NEW y \in Int, y # 0
  PROVE  /\ Exact("REM", x, y) \in Int /\ Exact("QUO", x, y) \in Int
         /\ x >= 0 => Exact("REM", x, y) \in 0 .. Magnitude(y) - 1
         /\ x < 0 => -Exact("REM", x, y) \in 0 .. Magnitude(y) - 1
         /\ x >= 0 /\ y > 0 => Exact("QUO", x, y) \in 0 .. x
<1> DEFINE a == Magnitude(x)
           b == Magnitude(y)
           q == a \div b
           r == a % b
<1>1. a \in Nat /\ b \in Nat \ {0}
  BY DEF Magnitude
<1>2. q \in Int /\ r \in 0 .. b - 1 /\ a = b * q + r
  <2> HIDE DEF a, b
  <2> QED BY <1>1, Division
<1>3. /\ (x = a /\ x >= 0) \/ (x = -a /\ x < 0)
      /\ (y = b /\ y > 0) \/ (y = -b /\ y < 0)
  BY DEF Magnitude
<1>4. Exact("QUO", x, y) = (IF (x < 0) = (y < 0) THEN q ELSE -q)
  BY DEF Exact, Quotient
<1>5. Exact("REM", x, y) = x - y * (IF (x < 0) = (y < 0) THEN q ELSE -q)
  BY DEF Exact, Quotient
<1> HIDE DEF a, b, q, r
<1>6. Exact("REM", x, y) = IF x >= 0 THEN r ELSE -r
  <2>1. CASE x >= 0 /\ y > 0
    BY <1>1, <1>2, <1>3, <1>5, <2>1
  <2>2. CASE x >= 0 /\ y < 0
    BY <1>1, <1>2, <1>3, <1>5, <2>2
  <2>3. CASE x < 0 /\ y > 0
    BY <1>1, <1>2, <1>3, <1>5, <2>3
  <2>4. CASE x < 0 /\ y < 0
    BY <1>1, <1>2, <1>3, <1>5, <2>4
  <2> QED BY <2>1, <2>2, <2>3, <2>4
<1>7. q >= 0 /\ q <= a
  <2>1. q <= -1 => b * q <= -b
    BY <1>1, <1>2
  <2>2. q >= 0 => b * q >= q
    BY <1>1, <1>2
  <2> QED BY <1>1, <1>2, <2>1, <2>2
<1> QED BY <1>1, <1>2, <1>3, <1>4, <1>6, <1>7 DEF b

\* Compiled integer code ends the process where Go panics, and where an
\* arithmetic result has no place in C's type; for operands without a sign only a
\* product of two that are narrower than int can do that.  No shift by a count
\* that is not negative and no bit operation does (-fsanitize=undefined).
THEOREM TrapsOnOverflow ==
  ASSUME WidthsOK, Trap \notin Int, DisjointBitsAdd(Nat),
         NEW t \in IntegerTypes, NEW x \in ValuesOf(t),
         NEW op \in Arithmetic \cup BitOperators \cup Shifts,
         NEW y \in IF op \in Shifts THEN Int ELSE ValuesOf(t),
         CBinary(op, x, y, t) = Trap, GoBinary(op, x, y, t) # Trap
  PROVE  /\ op \in Arithmetic /\ Overflows(op, x, y, t)
         /\ Signed(t) \/ (op = "MUL" /\ Width[t] < IntWidth)
<1>1. /\ Width[t] \in Nat \ {0} /\ Signed(t) \in BOOLEAN
      /\ 2^Width[t] \in Nat /\ 2^(Width[t] - 1) \in Nat
      /\ Least(Width[t], Signed(t)) \in Int /\ Greatest(Width[t], Signed(t)) \in Int
  BY TypeWidths, Half DEF Least, Greatest
<1>2. x \in Int /\ y \in Int
  BY <1>1 DEF ValuesOf
<1>3. \A n \in Int : ToType(n, t) \in Int
  <2> SUFFICES ASSUME NEW n \in Int PROVE ToType(n, t) \in Int
    OBVIOUS
  <2>1. Cut(n, Width[t], Signed(t)) \in Least(Width[t], Signed(t)) .. Greatest(Width[t], Signed(t))
    BY <1>1, CutIs
  <2> QED BY <1>1, <2>1 DEF ToType
<1>4. op \notin BitOperators
  <2> SUFFICES ASSUME op \in BitOperators PROVE FALSE
    OBVIOUS
  <2> QED BY DEF CBinary, GoBinary, Arithmetic, BitOperators, Shifts
<1>5. op # "SHL"
  <2> SUFFICES ASSUME op = "SHL" PROVE FALSE
    OBVIOUS
  <2>1. Shl(x, y, t) = Trap /\ y >= 0
    BY <1>2 DEF CBinary, GoBinary, Arithmetic, BitOperators, Shifts
  <2> DEFINE u == Unsigned(x, t)
             p == UnsignedType(t)
  <2>2. u \in 0 .. 2^Width[t] - 1
    BY <1>2, UnsignedIs
  <2>3. y < Width[t] /\ InC(u * 2^y, p, t) = Trap
    <3>1. Trap # 0
      OBVIOUS
    <3> QED BY <1>1, <1>2, <2>1, <3>1 DEF Shl
  <2>4. 2^y \in Nat /\ 2^y <= 2^(Width[t] - 1)
    <3>1. y \in Nat /\ Width[t] - 1 \in Nat /\ y <= Width[t] - 1
      BY <1>1, <1>2, <2>1, <2>3
    <3> QED BY <3>1, PowerGrows, PowerPositive
  <2>5. u * 2^y \in Int
    BY <1>1, <2>2, <2>4
  <2>6. p.signed /\ u * 2^y \notin Least(p.width, TRUE) .. Greatest(p.width, TRUE)
    BY <1>3, <2>3, <2>5, InCIs, TypeWidths
  <2>7. Width[t] < IntWidth /\ p.width = IntWidth
    BY <2>6 DEF UnsignedType
  <2>8. u * 2^y \in 0 .. 2^(IntWidth - 1) - 1
    <3>1. \A a, b, c, d \in Nat : a <= b - 1 /\ c <= d /\ d >= 1 => a * c <= b * d - 1
      <4> SUFFICES ASSUME NEW a \in Nat, NEW b \in Nat, NEW c \in Nat, NEW d \in Nat,
                          a <= b - 1, c <= d, d >= 1
                   PROVE  a * c <= b * d - 1
        OBVIOUS
      <4>1. a * c <= a * d
        OBVIOUS
      <4>2. a * d <= (b - 1) * d
        OBVIOUS
      <4>3. (b - 1) * d = b * d - d
        OBVIOUS
      <4> QED BY <4>1, <4>2, <4>3
    <3>2. u * 2^y <= 2^Width[t] * 2^(Width[t] - 1) - 1
      <4>1. 2^(Width[t] - 1) >= 1
        BY <1>1, Half
      <4>2. u \in Nat /\ u <= 2^Width[t] - 1
        BY <1>1, <2>2
      <4> HIDE DEF u
      <4> QED BY <1>1, <2>4, <3>1, <4>1, <4>2
    <3>3. 2^Width[t] * 2^(Width[t] - 1) <= 2^(IntWidth - 1) /\ 2^(IntWidth - 1) \in Nat
      BY <2>7, NarrowFits
    <3>4. u * 2^y >= 0
      BY <1>1, <2>2, <2>4
    <3> HIDE DEF u
    <3> QED BY <1>1, <2>5, <3>2, <3>3, <3>4
  <2> QED BY <1>1, <2>6, <2>7, <2>8, NarrowFits DEF Least, Greatest
<1>6. op # "SHR"
  <2> SUFFICES ASSUME op = "SHR" PROVE FALSE
    OBVIOUS
  <2>1. Shr(x, y, t) = Trap
    BY DEF CBinary, BitOperators
  <2>2. Shr(x, y, t) = GoBinary("SHR", x, y, t)
    BY <1>2, ShrIsGo
  <2> QED BY <2>1, <2>2
<1>7. op \in Arithmetic /\ ~(op \in {"QUO", "REM"} /\ y = 0)
  BY <1>4, <1>5, <1>6 DEF Shifts, GoBinary
<1>8. y \in ValuesOf(t)
  BY <1>7 DEF Arithmetic, Shifts
<1> DEFINE p == Promoted(t)
           within(n) == n \in Least(p.width, TRUE) .. Greatest(p.width, TRUE)
<1>9. \A n \in Int : InC(n, p, t) = Trap => p.signed /\ ~within(n)
  BY <1>3, InCIs, TypeWidths
<1>10. Exact(op, x, y) \in Int /\ (y # 0 => Exact("QUO", x, y) \in Int)
  BY <1>2, <1>7, ExactIs
<1>11. Overflows(op, x, y, t)
  <2>1. CASE op # "REM"
    <3>1. InC(Exact(op, x, y), p, t) = Trap
      BY <1>7, <2>1 DEF CBinary, BitOperators, Shifts, Arithmetic
    <3> QED BY <1>9, <1>10, <2>1, <3>1 DEF Overflows
  <2>2. CASE op = "REM" /\ InC(Exact("QUO", x, y), p, t) = Trap
    BY <1>7, <1>9, <1>10, <2>2 DEF Overflows
  <2>3. CASE op = "REM" /\ InC(Exact("QUO", x, y), p, t) # Trap
    <3>1. y # 0
      BY <1>7, <2>3
    <3>2. InC(Exact("REM", x, y), p, t) = Trap
      BY <2>3, <3>1 DEF CBinary, BitOperators, Shifts, Arithmetic
    <3>3. p.signed /\ ~within(Exact("REM", x, y))
      BY <1>9, <1>10, <2>3, <3>2
    <3>4. /\ Least(p.width, TRUE) \in Int /\ Greatest(p.width, TRUE) \in Int
          /\ Least(p.width, TRUE) <= Least(Width[t], Signed(t))
          /\ Greatest(Width[t], Signed(t)) <= Greatest(p.width, TRUE)
      BY <3>3, PromotedHolds
    <3>5. /\ p.width \in Nat \ {0} /\ 2^(p.width - 1) \in Nat
          /\ Least(p.width, TRUE) = -(2^(p.width - 1))
          /\ Greatest(p.width, TRUE) = 2^(p.width - 1) - 1
      BY TypeWidths, Half DEF Least, Greatest
    <3>6. Magnitude(y) \in Nat /\ Magnitude(y) <= 2^(p.width - 1)
      <4>1. Least(p.width, TRUE) <= y /\ y <= Greatest(p.width, TRUE)
        <5> DEFINE l == Least(Width[t], Signed(t))
                   g == Greatest(Width[t], Signed(t))
                   low == Least(p.width, TRUE)
                   high == Greatest(p.width, TRUE)
        <5>1. l \in Int /\ g \in Int /\ low \in Int /\ high \in Int /\ low <= l /\ g <= high
          BY <1>1, <3>4
        <5>2. y \in l .. g
          BY <1>8 DEF ValuesOf
        <5> HIDE DEF l, g, low, high
        <5>3. low <= y /\ y <= high
          BY <1>2, <5>1, <5>2
        <5> QED BY <5>3 DEF low, high
      <4> DEFINE h == 2^(p.width - 1)
      <4>2. h \in Nat /\ -h <= y /\ y <= h - 1
        BY <3>5, <4>1
      <4> HIDE DEF h
      <4>3. Magnitude(y) \in Nat /\ Magnitude(y) <= h
        BY <1>2, <4>2 DEF Magnitude
      <4> QED BY <4>3 DEF h
    <3>7. within(Exact("REM", x, y))
      <4> DEFINE e == Exact("REM", x, y)
      <4>1. /\ e \in Int
            /\ x >= 0 => e \in 0 .. Magnitude(y) - 1
            /\ x < 0 => -e \in 0 .. Magnitude(y) - 1
        BY <1>2, <3>1, Remainder
      <4> DEFINE h == 2^(p.width - 1)
      <4>2. h \in Nat /\ Magnitude(y) \in Nat /\ Magnitude(y) <= h
        BY <3>5, <3>6
      <4> HIDE DEF e, h
      <4>3. e \in -h .. h - 1
        BY <1>2, <4>1, <4>2
      <4> QED BY <3>5, <4>3 DEF e, h
    <3> QED BY <3>3, <3>7
  <2> QED BY <2>1, <2>2, <2>3
<1>12. Signed(t) \/ (op = "MUL" /\ Width[t] < IntWidth)
  <2> SUFFICES ASSUME ~Signed(t) PROVE op = "MUL" /\ Width[t] < IntWidth
    OBVIOUS
  <2>1. Width[t] < IntWidth /\ p.width = IntWidth
    BY <1>11 DEF Overflows, Promoted
  <2> DEFINE w == 2^Width[t]
             h == 2^(IntWidth - 1)
  <2>2. w \in Nat /\ h \in Nat /\ 2 * w <= h
    BY <2>1, NarrowFits
  <2>3. x \in 0 .. w - 1 /\ y \in 0 .. w - 1
    BY <1>8 DEF ValuesOf, Least, Greatest
  <2>4. Exact(IF op = "REM" THEN "QUO" ELSE op, x, y) \notin -h .. h - 1
    BY <1>11, <2>1 DEF Overflows, Least, Greatest
  <2> HIDE DEF w, h
  <2>5. op # "ADD"
    BY <2>2, <2>3, <2>4 DEF Exact
  <2>6. op # "SUB"
    BY <2>2, <2>3, <2>4 DEF Exact
  <2>7. op \notin {"QUO", "REM"}
    <3> SUFFICES ASSUME op \in {"QUO", "REM"} PROVE FALSE
      OBVIOUS
    <3>1. y > 0
      BY <1>7, <2>2, <2>3
    <3>2. Exact("QUO", x, y) \in 0 .. x
      BY <1>2, <2>2, <2>3, <3>1, Remainder
    <3>3. Exact("QUO", x, y) \notin -h .. h - 1
      BY <2>4
    <3> QED BY <2>2, <2>3, <3>2, <3>3
  <2> QED BY <1>7, <2>1, <2>5, <2>6, <2>7 DEF Arithmetic
<1> QED BY <1>7, <1>11, <1>12
=============================================================================
