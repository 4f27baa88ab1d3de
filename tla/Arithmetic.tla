------------------------------ MODULE Arithmetic ------------------------------
(***************************************************************************)
(* Integer expressions: what Go says they are, and what the C expressions   *)
(* the generator emits for them compute (src/cgen/main.go, compiled with    *)
(* -fsanitize=undefined -fno-sanitize-recover=all).                        *)
(*                                                                         *)
(* C promotes an operand narrower than int to int; what overflows there is  *)
(* cut when it is stored, while a signed overflow of int or a wider type    *)
(* ends the process.  Go wraps around.                                     *)
(***************************************************************************)
EXTENDS Integers

CONSTANTS
  Width,      \* [integer types -> bits]
  SignedTypes,
  IntWidth,   \* bits of C's int
  Trap,       \* the process ends
  BitAnd(_, _), BitOr(_, _), BitXor(_, _)  \* of natural numbers, as bit patterns

IntegerTypes == DOMAIN Width

Least(w, signed)    == IF signed THEN -(2^(w - 1)) ELSE 0
Greatest(w, signed) == IF signed THEN 2^(w - 1) - 1 ELSE 2^w - 1

\* The value of width w that n is cut to.
Cut(n, w, signed) ==
  LET u == n % 2^w
  IN  IF signed /\ u >= 2^(w - 1) THEN u - 2^w ELSE u

Signed(t)     == t \in SignedTypes
ToType(n, t)  == Cut(n, Width[t], Signed(t))
Unsigned(n, t) == n % 2^Width[t]
ValuesOf(t)   == Least(Width[t], Signed(t)) .. Greatest(Width[t], Signed(t))

\* Division that goes towards zero.
Magnitude(n) == IF n < 0 THEN -n ELSE n
Quotient(x, y) ==
  LET q == Magnitude(x) \div Magnitude(y)
  IN  IF (x < 0) = (y < 0) THEN q ELSE -q

Exact(op, x, y) ==
  CASE op = "ADD" -> x + y
    [] op = "SUB" -> x - y
    [] op = "MUL" -> x * y
    [] op = "QUO" -> Quotient(x, y)
    [] op = "REM" -> x - y * Quotient(x, y)

\* Bit patterns of t.
OnBits(op, x, y, t) ==
  LET u == Unsigned(x, t)
      v == Unsigned(y, t)
  IN  CASE op = "AND"     -> BitAnd(u, v)
        [] op = "OR"      -> BitOr(u, v)
        [] op = "XOR"     -> BitXor(u, v)
        [] op = "AND_NOT" -> BitAnd(u, 2^Width[t] - 1 - v)

Arithmetic   == {"ADD", "SUB", "MUL", "QUO", "REM"}
BitOperators == {"AND", "OR", "XOR", "AND_NOT"}
Shifts       == {"SHL", "SHR"}

\* Go's types have 8 bits or more, and two operands narrower than int have no
\* more bits than int has.
WidthsOK ==
  /\ IntWidth \in Nat \ {0}
  /\ \A t \in IntegerTypes : /\ Width[t] \in Nat /\ Width[t] >= 2
                             /\ Width[t] < IntWidth => 2 * Width[t] <= IntWidth

\* Bits that do not overlap are put together by an addition.
DisjointBitsAdd(numbers) ==
  \A k, a \in numbers : \A b \in 0 .. 2^k - 1 : BitOr(a * 2^k, b) = a * 2^k + b

-----------------------------------------------------------------------------
(* Go.                                                                     *)

GoBinary(op, x, y, t) ==
  CASE op \in {"QUO", "REM"} /\ y = 0 -> Trap
    [] op \in Arithmetic /\ ~(op \in {"QUO", "REM"} /\ y = 0) -> ToType(Exact(op, x, y), t)
    [] op \in BitOperators -> ToType(OnBits(op, x, y, t), t)
    [] op \in Shifts /\ y < 0 -> Trap
    [] op = "SHL" /\ y >= 0 -> IF y >= Width[t] THEN 0 ELSE ToType(x * 2^y, t)
    [] op = "SHR" /\ y >= 0 -> x \div 2^(IF y < Width[t] THEN y ELSE Width[t])

-----------------------------------------------------------------------------
(* C.                                                                      *)

\* The width and the sign an operand of type t is promoted to.
Promoted(t) == IF Width[t] < IntWidth THEN [width |-> IntWidth, signed |-> TRUE]
               ELSE [width |-> Width[t], signed |-> Signed(t)]

\* n computed in type p, then stored in an object of type t.
InC(n, p, t) ==
  IF p.signed /\ n \notin Least(p.width, TRUE) .. Greatest(p.width, TRUE)
  THEN Trap
  ELSE ToType(Cut(n, p.width, p.signed), t)

UnsignedType(t) == IF Width[t] < IntWidth THEN [width |-> IntWidth, signed |-> TRUE]
                   ELSE [width |-> Width[t], signed |-> FALSE]

\* Mutant: the left operand keeps its sign.
ShlSigned(x, y, t) ==
  IF y < 0 THEN Trap
  ELSE IF y < Width[t] THEN InC(x * 2^y, Promoted(t), t) ELSE 0

\* case token.SHL: the left operand is made unsigned.
Shl(x, y, t) ==
  IF y < 0 THEN Trap
  ELSE IF y < Width[t] THEN InC(Unsigned(x, t) * 2^y, UnsignedType(t), t) ELSE 0

\* case token.SHR: the vacated bits are filled with the sign of the left operand.
Shr(x, y, t) ==
  LET bits == Width[t]
      u    == Unsigned(x, t)
      fill == IF x < 0 THEN 2^bits - 1 ELSE 0
  IN  CASE y < 0                  -> Trap
        [] y >= bits              -> ToType(fill, t)
        [] y = 0                  -> ToType(u, t)
        [] y \in 1 .. bits - 1    ->
             ToType(BitOr((fill \div 2^(bits - y)) * 2^(bits - y), u \div 2^y), t)

\* default: the operator is C's.
CBinary(op, x, y, t) ==
  CASE op = "SHL"           -> Shl(x, y, t)
    [] op = "SHR"           -> Shr(x, y, t)
    [] op \in BitOperators  -> ToType(OnBits(op, x, y, t), t)
    [] op \in {"QUO", "REM"} /\ y = 0 -> Trap
    [] op = "REM" /\ y # 0  -> \* the quotient must exist
         IF InC(Exact("QUO", x, y), Promoted(t), t) = Trap THEN Trap
         ELSE InC(Exact("REM", x, y), Promoted(t), t)
    [] OTHER                -> InC(Exact(op, x, y), Promoted(t), t)

Compare(op, x, y) ==
  CASE op = "EQL" -> x = y
    [] op = "NEQ" -> x # y
    [] op = "LSS" -> x < y
    [] op = "LEQ" -> x <= y
    [] op = "GTR" -> x > y
    [] op = "GEQ" -> x >= y

Comparisons == {"EQL", "NEQ", "LSS", "LEQ", "GTR", "GEQ"}

GoUnary(op, x, t) ==
  CASE op = "SUB" -> ToType(-x, t)
    [] op = "XOR" -> ToType(-x - 1, t)

CUnary(op, x, t) ==
  CASE op = "SUB" -> InC(-x, Promoted(t), t)
    [] op = "XOR" -> ToType(Unsigned(-x - 1, t), t)
=============================================================================
