------------------------------ MODULE ProgramText -----------------------------
(***************************************************************************)
(* A notation for programs in SSA form, for the programs of src/xtests.     *)
(* The SSA form is derived by hand from the Go source the way               *)
(* golang.org/x/tools/go/ssa builds it; registers are numbered.             *)
(***************************************************************************)
EXTENDS Instructions, SequencesExt

\* Operands.
R(n) == Reg(n)
P(n) == Param(n)
F(n) == FreeVar(n)
C(v) == Const(v)
Absent == [at |-> "absent", name |-> -1]  \* a bound of a slice that is left out

\* The function value of a declared function.
Fun(f)      == C([fn |-> f, wrapper |-> FALSE, free |-> <<>>])
NilPtr      == C(<<>>)
NilFunc     == C([fn |-> "none", wrapper |-> FALSE, free |-> <<>>])
NilSlice    == C([ptr |-> <<>>, low |-> 0, size |-> 0, capacity |-> 0])
NilIface    == C([type |-> "nil", value |-> <<>>])
GlobalVar(name) == C(<<"global", name>>)

\* Instructions on ints and pointers.
Add(d, x, y) == BinOp(d, "ADD", "int", x, y)
Sub(d, x, y) == BinOp(d, "SUB", "int", x, y)
Mul(d, x, y) == BinOp(d, "MUL", "int", x, y)
Rem(d, x, y) == BinOp(d, "REM", "int", x, y)
Eq(d, x, y)  == BinOp(d, "EQL", "int", x, y)
Ne(d, x, y)  == BinOp(d, "NEQ", "int", x, y)
Lt(d, x, y)  == BinOp(d, "LSS", "int", x, y)
Gt(d, x, y)  == BinOp(d, "GTR", "int", x, y)
Ge(d, x, y)  == BinOp(d, "GEQ", "int", x, y)
NeOf(d, t, x, y) == BinOp(d, "NEQ", t, x, y)
EqOf(d, t, x, y) == BinOp(d, "EQL", t, x, y)
Load(d, p)   == UnOp(d, "MUL", "pointer", p)
Not(d, x)    == UnOp(d, "NOT", "bool", x)
New(d, zero)     == Alloc(d, TRUE, zero)
Variable(d, zero) == Alloc(d, FALSE, zero)

FieldAddr(d, p, k) == [kind |-> "FieldAddr", dest |-> d, index |-> k, args |-> <<p>>]
Field(d, x, k)     == [kind |-> "Field", dest |-> d, index |-> k, args |-> <<x>>]
IndexAddr(d, t, x, k) == OfType("IndexAddr", d, t, <<x, k>>)
Index(d, x, k)     == OfType("Index", d, "array", <<x, k>>)
SliceOf(d, t, array, x, low, high) ==
  [kind |-> "Slice", dest |-> d, type |-> t, array |-> array, args |-> <<x, low, high>>]
Len_(d, t, x)      == Builtin(d, "len", t, <<x>>)
Cap(d, x)          == Builtin(d, "cap", "slice", <<x>>)
AppendTo(d, t, x, y)  == Builtin(d, "append", t, <<x, y>>)
Copy(d, t, to, from)  == Builtin(d, "copy", t, <<to, from>>)
MakeSlice(d, zero, len, cap) == [kind |-> "MakeSlice", dest |-> d, zero |-> zero, args |-> <<len, cap>>]
Substring(d, x, low, high) == OfType("Slice", d, "string", <<x, low, high>>)
Lookup(d, x, k)    == OfType("Lookup", d, "string", <<x, k>>)

\* The iterator of a range over a string: generated code stores the string in it too,
\* which Next takes from its operand here; what changes is the count.
RangeText(d)  == Alloc(d, FALSE, 0)
Next(d, it, x) == OfType("Next", d, "string", <<it, x>>)
ChangeType(d, t, x) == OfType("ChangeType", d, t, <<x>>)

MakeInterface(d, t, x) == OfType("MakeInterface", d, t, <<x>>)
ChangeInterface(d, x)  == OfType("ChangeInterface", d, "interface", <<x>>)
TypeAssert(d, x, to, zero, commaOk) ==
  [kind |-> "TypeAssert", dest |-> d, type |-> "named", to |-> to, zero |-> zero,
   methods |-> {}, commaOk |-> commaOk, args |-> <<x>>]
TypeAssertInterface(d, x, methods, commaOk) ==
  [kind |-> "TypeAssert", dest |-> d, type |-> "interface", to |-> "interface",
   zero |-> [type |-> "nil", value |-> <<>>], methods |-> methods, commaOk |-> commaOk,
   args |-> <<x>>]

\* v = *p.k and *p.k = v, with a register for the address.
LoadField(d, a, p, k)  == <<FieldAddr(a, p, k), Load(d, R(a))>>
StoreField(a, p, k, v) == <<FieldAddr(a, p, k), Store(R(a), v)>>
Ret(x) == Return(<<x>>)
CallOf(d, f, args) == Call(d, Fun(f), args)

\* s = append(s, x), of elements whose zero value is zero.
AppendOne(d, zero, s, x) ==
  <<New(20, <<zero>>), IndexAddr(21, "array", R(20), C(0)), Store(R(21), x),
    SliceOf(22, "array", 1, R(20), Absent, Absent), AppendTo(d, "slice", s, R(22))>>

-----------------------------------------------------------------------------
(* Functions.                                                              *)

\* The sequence s written out: TLC evaluates its elements here, once.
Listed(s) == SubSeq(s, 1, Len(s))

Targets(block) == LET last == block[Len(block)]
                  IN  IF last.kind \in {"Jump", "If"} THEN ToSet(last.succs) ELSE {}

\* Predecessors in the order of their numbers; so are the edges of phi nodes.
Closure(free, blocks) ==
  [free |-> free,
   blocks |-> Listed([b \in DOMAIN blocks |->
     [instrs |-> Listed(blocks[b]),
      preds |-> SetToSortSeq({p \in DOMAIN blocks : b \in Targets(blocks[p])}, <)]])]

Func(blocks)     == Closure(0, blocks)
Straight(instrs) == Func(<<instrs>>)

\* if cond { return code } after the instructions of each check; then last.
Check(instrs, cond, code) == [do |-> instrs, cond |-> cond, code |-> code]
Guarded(checks, last) ==
  [b \in 1 .. 2 * Len(checks) + 1 |->
    IF b = 2 * Len(checks) + 1 THEN last
    ELSE LET check == checks[(b + 1) \div 2]
         IN  IF b % 2 = 1 THEN check.do \o <<If(check.cond, b + 1, b + 2)>>
                          ELSE <<Ret(C(check.code))>>]

\* The value of an array whose elements are zero.
Zeros(n, zero) == [k \in 1 .. n |-> zero]

\* A check with instructions before it.
Preceded(instrs, check) == [check EXCEPT !.do = instrs \o @]

\* if x != value { return code }
Differs(instrs, d, x, value, code) == Check(instrs \o <<Ne(d, x, C(value))>>, R(d), code)

\* Pieces of a function one after another.  A piece numbers its blocks from 1 on
\* and leaves for the next piece with 0.
Joined(pieces) ==
  LET before(k) == Len(FlattenSeq(SubSeq(pieces, 1, k - 1)))
      place(k, b) == IF b = 0 THEN before(k + 1) + 1 ELSE before(k) + b
      moved(k, i) == IF i.kind \in {"Jump", "If"}
                     THEN [i EXCEPT !.succs = Listed([t \in DOMAIN @ |-> place(k, @[t])])]
                     ELSE i
  IN  Func(FlattenSeq([k \in DOMAIN pieces |->
             [b \in DOMAIN pieces[k] |->
               [j \in DOMAIN pieces[k][b] |-> moved(k, pieces[k][b][j])]]]))

\* Pieces: straight code; for i := 0; i < n; i++ { body }, with i in register 5 and n
\* computed by head; the same with if cond { return x }, with cond in register 8.
Begin(instrs) == <<instrs \o <<Jump(0)>>>>
ForUpTo(head, n, body) ==
  <<<<Phi(5, <<C(0), R(6)>>)>> \o head \o <<Lt(7, R(5), n), If(R(7), 2, 0)>>,
    body \o <<Add(6, R(5), C(1)), Jump(1)>>>>
ForUpToCheck(head, n, body, x) ==
  <<<<Phi(5, <<C(0), R(6)>>)>> \o head \o <<Lt(7, R(5), n), If(R(7), 2, 0)>>,
    body \o <<If(R(8), 3, 4)>>, x, <<Add(6, R(5), C(1)), Jump(1)>>>>
For(n, body)         == ForUpTo(<<>>, C(n), body)
ForCheck(n, body, x) == ForUpToCheck(<<>>, C(n), body, x)
=============================================================================
