------------------------------ MODULE TestsMemory -----------------------------
(***************************************************************************)
(* src/xtests/pointer.go, struct.go, global.go and array.go: variables that *)
(* escape live on the heap, the others in the frame, composite values are   *)
(* copied.                                                                  *)
(***************************************************************************)
EXTENDS ProgramText

\* A new variable of value x.
Boxed(d, zero, x) == <<New(d, zero), Store(R(d), x)>>

\* A check with instructions in front of it.
After(instrs, check) == [check EXCEPT !.do = instrs \o @]

-----------------------------------------------------------------------------
\* pointer.go
PointerTest1  == Straight(Boxed(0, 0, C(1)) \o <<Load(1, R(0)), Ret(R(1))>>)
PointerTest2  == Straight(Boxed(0, 0, C(2)) \o Boxed(1, <<>>, R(0))
                          \o <<Load(2, R(1)), Load(3, R(2)), Ret(R(3))>>)
PointerTest3  == Straight(Boxed(0, 0, C(3)) \o Boxed(1, <<>>, R(0)) \o Boxed(2, <<>>, R(1))
                          \o <<Load(3, R(2)), Load(4, R(3)), Load(5, R(4)), Ret(R(5))>>)
PointerTest4f == Straight(Boxed(0, 0, C(4)) \o <<Ret(R(0))>>)
PointerTest4  == Straight(<<CallOf(0, "pointer.4f", <<>>), Load(1, R(0)), Ret(R(1))>>)
PointerTest5f == Straight(Boxed(0, 0, C(5)) \o Boxed(1, <<>>, R(0)) \o <<Ret(R(1))>>)
PointerTest5  == Straight(<<CallOf(0, "pointer.5f", <<>>), Load(1, R(0)), Load(2, R(1)), Ret(R(2))>>)
PointerTest6f == Straight(<<Load(0, P(1)), Ret(R(0))>>)
PointerTest6  == Straight(Boxed(0, 0, C(6)) \o <<CallOf(1, "pointer.6f", <<R(0)>>), Ret(R(1))>>)
PointerTest7f == Straight(<<Load(0, P(1)), Load(1, R(0)), Ret(R(1))>>)
PointerTest7  == Straight(Boxed(0, 0, C(7)) \o Boxed(1, <<>>, R(0))
                          \o <<CallOf(2, "pointer.7f", <<R(1)>>), Ret(R(2))>>)
PointerTest8f == Straight(<<Store(P(1), C(8)), Return(<<>>)>>)
PointerTest8  == Straight(Boxed(0, 0, C(7)) \o <<CallOf(NoReg, "pointer.8f", <<R(0)>>), Load(1, R(0)), Ret(R(1))>>)
PointerTest9  == Straight(<<New(0, 0), Load(1, R(0)), Ret(R(1))>>)
PointerTest10 == Func(Guarded(<<Check(<<NeOf(0, "pointer", NilPtr, NilPtr)>>, R(0), 0)>>, <<Ret(C(10))>>))
PointerTest11a == Straight(<<Ret(P(1))>>)
PointerTest11 == Func(
  <<<<CallOf(0, "pointer.11$1", <<C(1)>>), Ne(1, R(0), C(1)), If(R(1), 2, 3)>>, <<Ret(C(1))>>,
    <<NeOf(2, "func", NilFunc, NilFunc), If(R(2), 4, 5)>>,
    <<Call(3, NilFunc, <<C(2)>>), Ret(R(3))>>, <<Ret(C(11))>>>>)
PointerTest12a == Straight(<<Ret(C(12))>>)
PointerTest12 == Straight(Boxed(0, NilFunc.name, Fun("pointer.12$1"))
                          \o <<Load(1, R(0)), Call(2, R(1), <<>>), Ret(R(2))>>)
PointerTest13a == Straight(<<Ret(C(13))>>)
PointerTest13 == Straight(Boxed(0, NilFunc.name, Fun("pointer.13$1")) \o Boxed(1, <<>>, R(0))
                          \o <<Load(2, R(1)), Load(3, R(2)), Call(4, R(3), <<>>), Ret(R(4))>>)

\* A pointer of another type leads to the same variable.
Converted(x, last) == Straight(
  Boxed(0, 0, C(42)) \o <<ChangeType(1, "pointer", R(0)), Store(R(1), C(x)), Load(2, R(1))>> \o last)
PointerTest14 == Converted(14, <<ChangeType(3, "int", R(2)), Ret(R(3))>>)
PointerTest15 == Converted(15, <<Ret(R(2))>>)
PointerTest16 == Converted(16, <<ChangeType(3, "int", R(2)), Ret(R(3))>>)

PointerTests ==
  <<PointerTest1, PointerTest2, PointerTest3, PointerTest4, PointerTest5, PointerTest6, PointerTest7,
    PointerTest8, PointerTest9, PointerTest10, PointerTest11, PointerTest12, PointerTest13,
    PointerTest14, PointerTest15, PointerTest16>>
PointerResults == [k \in DOMAIN PointerTests |-> IF k = 9 THEN 0 ELSE k]

-----------------------------------------------------------------------------
\* struct.go.  Var(d, values): a local struct with these fields, none stored if zero.
SetFields(d, a, values) ==
  FoldLeft(LAMBDA done, k : done \o StoreField(a + k, R(d), k - 1, values[k]),
           <<>>, [k \in DOMAIN values |-> k])
Var(d, zero, values)    == <<Variable(d, zero)>> \o SetFields(d, d, values)
OnHeap(d, zero, values) == <<New(d, zero)>> \o SetFields(d, d, values)
FieldOf(d, p, k)        == LoadField(d, d + 1, p, k)
ReturnField(k)          == FieldOf(10, R(0), k) \o <<Ret(R(10))>>

StructTest1 == Straight(<<Variable(0, <<0>>), Load(1, R(0)), Ret(C(1))>>)
StructTest2 == Straight(Var(0, <<0>>, <<C(42)>>) \o <<Load(2, R(0)), Ret(C(2))>>)
StructTest3 == Straight(Var(0, <<0>>, <<C(3)>>) \o ReturnField(0))

Pair(values, k) == Straight(Var(0, <<0, 0>>, values) \o ReturnField(k))
StructTest4  == Pair(<<>>, 0)
StructTest5  == Pair(<<>>, 1)
StructTest6  == Pair(<<C(6)>>, 0)
StructTest7  == Pair(<<C(7)>>, 1)
StructTest8  == Straight(<<Variable(0, <<0, 0>>)>> \o StoreField(1, R(0), 1, C(8)) \o ReturnField(0))
StructTest9  == Straight(<<Variable(0, <<0, 0>>)>> \o StoreField(1, R(0), 1, C(9)) \o ReturnField(1))
StructTest10 == Pair(<<C(10), C(11)>>, 0)
StructTest11 == Pair(<<C(10), C(11)>>, 1)

StructRefRead  == Straight(FieldOf(0, P(1), 0) \o FieldOf(2, P(1), 1) \o <<Sub(4, R(0), R(2)), Ret(R(4))>>)
StructRefWrite == Straight(StoreField(0, P(1), 0, P(2)) \o StoreField(1, P(1), 1, P(3)) \o <<Return(<<>>)>>)
StructTest12 == Straight(OnHeap(0, <<0, 0>>, <<C(22), C(10)>>)
                         \o <<CallOf(3, "struct.refRead", <<R(0)>>), Ret(R(3))>>)

\* Both fields are as they should be; then the difference.
BothFields(before, n, m, last) == Func(Guarded(
  <<Differs(before \o FieldOf(10, R(0), 0), 12, R(10), n, 1),
    Differs(FieldOf(10, R(0), 1), 12, R(10), m, 2)>>, last))
StructTest13 == BothFields(
  OnHeap(0, <<0, 0>>, <<C(1), C(2)>>) \o <<CallOf(NoReg, "struct.refWrite", <<R(0), C(23), C(10)>>)>>,
  23, 10, <<CallOf(3, "struct.refRead", <<R(0)>>), Ret(R(3))>>)

\* A value receiver is a copy.
StructCopyRead  == Straight(Var(0, <<0, 0>>, <<>>) \o <<Store(R(0), P(1))>> \o FieldOf(1, R(0), 0)
                            \o FieldOf(3, R(0), 1) \o <<Sub(5, R(1), R(3)), Ret(R(5))>>)
StructCopyWrite == Straight(Var(0, <<0, 0>>, <<>>) \o <<Store(R(0), P(1))>> \o StoreField(1, R(0), 0, P(2))
                            \o StoreField(2, R(0), 1, P(3)) \o <<Return(<<>>)>>)
CopyRead == <<Load(4, R(0)), CallOf(5, "struct.copyRead", <<R(4)>>), Ret(R(5))>>
StructTest14 == Straight(Var(0, <<0, 0>>, <<C(24), C(10)>>) \o CopyRead)
StructTest15 == BothFields(
  Var(0, <<0, 0>>, <<C(25), C(10)>>)
    \o <<Load(3, R(0)), CallOf(NoReg, "struct.copyWrite", <<R(3), C(1), C(2)>>)>>,
  25, 10, CopyRead)
StructTest16 == Straight(Var(0, <<0>>, <<C(16)>>) \o ReturnField(0))

PointerIs(op, d, before, x, y, code) ==
  Check(before \o <<BinOp(d, op, "pointer", x, y)>>, R(d), code)
StructTest17 == Func(Guarded(
  <<PointerIs("NEQ", 12, Var(0, <<0, <<>>>>, <<C(17)>>) \o FieldOf(8, R(0), 1), R(8), NilPtr, 0)>>,
  ReturnField(0)))
StructTest18 == Func(Guarded(
  <<Differs(OnHeap(0, <<0, <<>>>>, <<C(0), NilPtr>>) \o Var(3, <<0, <<>>>>, <<C(1), R(0)>>)
              \o FieldOf(6, R(3), 0), 12, R(6), 1, 0),
    PointerIs("EQL", 12, FieldOf(14, R(3), 1), R(14), NilPtr, 1),
    Differs(FieldOf(14, R(3), 1) \o FieldOf(8, R(14), 0), 12, R(8), 0, 2),
    PointerIs("NEQ", 12, FieldOf(14, R(3), 1) \o FieldOf(16, R(14), 1), R(16), NilPtr, 3)>>, <<Ret(C(18))>>))
StructTest19 == Func(Guarded(
  <<Differs(OnHeap(0, <<0, <<>>>>, <<C(3), NilPtr>>) \o OnHeap(3, <<0, <<>>>>, <<C(4), R(0)>>)
              \o StoreField(6, R(0), 1, R(3)) \o FieldOf(7, R(0), 0), 12, R(7), 3, 0),
    PointerIs("NEQ", 12, FieldOf(14, R(0), 1), R(14), R(3), 1),
    Differs(FieldOf(7, R(3), 0), 12, R(7), 4, 2),
    PointerIs("NEQ", 12, FieldOf(14, R(3), 1), R(14), R(0), 3)>>, <<Ret(C(19))>>))
StructTest20f == Straight(StoreField(0, P(1), 0, C(20)) \o <<Return(<<>>)>>)
StructTest20  == Straight(OnHeap(0, <<0>>, <<>>) \o <<CallOf(NoReg, "struct.20f", <<R(0)>>)>> \o ReturnField(0))

\* Test21: two structs with these fields are equal, or not.
Compared(op, zero, l, r, code) ==
  Check(Var(0, zero, l) \o Var(5, zero, r)
          \o <<Load(10, R(0)), Load(11, R(5)), BinOp(12, op, "struct", R(10), R(11))>>, R(12), code)
Str(s) == C(s)
StructTest21 == Func(Guarded(
  <<Compared("NEQ", <<0>>, <<C(1)>>, <<C(1)>>, 0),
    Compared("EQL", <<0>>, <<C(1)>>, <<C(2)>>, 1),
    Compared("NEQ", <<0, 0>>, <<C(2), C(2)>>, <<C(2), C(2)>>, 2),
    Compared("EQL", <<0, 0>>, <<C(2), C(2)>>, <<C(2), C(3)>>, 3),
    Compared("NEQ", <<0, <<>>>>, <<C(3), NilPtr>>, <<C(3), NilPtr>>, 4),
    After(Boxed(20, 0, C(4)), Compared("NEQ", <<0, <<>>>>, <<C(3), R(20)>>, <<C(3), R(20)>>, 5)),
    After(Boxed(21, 0, C(4)), Compared("EQL", <<0, <<>>>>, <<C(3), R(20)>>, <<C(3), R(21)>>, 5)),
    Compared("NEQ", <<0, "">>, <<C(4), Str("")>>, <<C(4), Str("")>>, 6),
    Compared("NEQ", <<0, "">>, <<C(4), Str("abc")>>, <<C(4), Str("abc")>>, 7),
    Compared("EQL", <<0, "">>, <<C(4), Str("abc")>>, <<C(4), Str("def")>>, 8),
    After(<<BinOp(22, "ADD", "string", Str("a"), Str("bc"))>>,
          Compared("NEQ", <<0, "">>, <<C(4), Str("abc")>>, <<C(4), R(22)>>, 9)),
    Compared("NEQ", <<0, <<>>>>, <<C(5), NilPtr>>, <<C(5), NilPtr>>, 10),
    After(Boxed(23, "", Str("abc")), Compared("NEQ", <<0, <<>>>>, <<C(5), R(23)>>, <<C(5), R(23)>>, 11)),
    After(Boxed(24, "", Str("abc")), Compared("EQL", <<0, <<>>>>, <<C(5), R(23)>>, <<C(5), R(24)>>, 12))>>,
  <<Ret(C(21))>>))

StructTest22a == Straight(Var(0, <<0>>, <<C(22)>>) \o <<Load(2, R(0)), Ret(R(2))>>)
StructTest22  == Straight(<<CallOf(0, "struct.22$1", <<>>), Field(1, R(0), 0), Ret(R(1))>>)

\* Blank fields are not compared.
Blank(d) == <<Variable(d, <<0, 0, <<>>, 0, "">>)>> \o StoreField(d + 1, R(d), 1, C(1))
                                                  \o StoreField(d + 2, R(d), 3, C(2))
StructTest23a == Straight(Blank(0) \o <<Load(3, R(0)), Ret(R(3))>>)
StructTest23  == Func(Guarded(
  <<Check(<<Variable(0, <<0, 0, <<>>, 0, "">>), CallOf(1, "struct.23$1", <<>>), Store(R(0), R(1))>>
            \o Blank(2) \o <<Load(5, R(0)), Load(6, R(2)), NeOf(7, "struct", R(5), R(6))>>, R(7), 0)>>,
  <<Ret(C(23))>>))
StructTest24a == Straight(<<ChangeType(0, "pointer", P(1))>> \o StoreField(1, R(0), 0, C(1)) \o <<Return(<<>>)>>)
StructTest24  == Func(Guarded(
  <<Differs(OnHeap(0, <<0>>, <<C(0)>>) \o <<ChangeType(2, "pointer", R(0)), CallOf(NoReg, "struct.24$1", <<R(2)>>)>>
              \o FieldOf(3, R(0), 0), 5, R(3), 1, 0)>>, <<Ret(C(24))>>))

StructTests ==
  <<StructTest1, StructTest2, StructTest3, StructTest4, StructTest5, StructTest6, StructTest7,
    StructTest8, StructTest9, StructTest10, StructTest11, StructTest12, StructTest13, StructTest14,
    StructTest15, StructTest16, StructTest17, StructTest18, StructTest19, StructTest20, StructTest21,
    StructTest22, StructTest23, StructTest24>>
StructResults ==
  <<1, 2, 3, 0, 0, 6, 0, 0, 9, 10, 11, 12, 13, 14, 15, 16, 17, 18, 19, 20, 21, 22, 23, 24>>

-----------------------------------------------------------------------------
\* global.go.  Globals are C variables; the package's init stores what they begin with.
Reading(name, d) == <<Load(d, GlobalVar(name))>>
GlobalFieldOf(d, name) == FieldOf(d, GlobalVar(name), 0)
Unset(name, read, n) == Func(Guarded(<<Differs(read, 5, R(0), 0, 0)>>, <<Ret(C(n))>>))

GlobalTest1 == Unset("global.v1", Reading("global.v1", 0), 1)
GlobalTest2 == Straight(<<Store(GlobalVar("global.v2"), C(2))>> \o Reading("global.v2", 0) \o <<Ret(R(0))>>)
GlobalTest3 == Unset("global.v3", GlobalFieldOf(0, "global.v3"), 3)
GlobalTest4 == Straight(StoreField(2, GlobalVar("global.v4"), 0, C(4)) \o GlobalFieldOf(0, "global.v4") \o <<Ret(R(0))>>)
GlobalTest5 == Unset("global.v5", GlobalFieldOf(0, "global.v5"), 5)
GlobalTest6 == Straight(StoreField(2, GlobalVar("global.v6"), 0, C(6)) \o GlobalFieldOf(0, "global.v6") \o <<Ret(R(0))>>)

ElementOf(d, p, k) == <<IndexAddr(d + 1, "array", p, k), Load(d, R(d + 1))>>
SetElement(a, p, k, v) == <<IndexAddr(a, "array", p, k), Store(R(a), v)>>
GlobalTest7 == Func(Guarded(
  <<Differs(<<>>, 0, C(3), 3, 0)>>
    \o [k \in 1 .. 3 |-> Differs(ElementOf(1, GlobalVar("global.v7"), C(k - 1)), 0, R(1), k, k)],
  <<Ret(C(7))>>))

GlobalTests   == <<GlobalTest1, GlobalTest2, GlobalTest3, GlobalTest4, GlobalTest5, GlobalTest6, GlobalTest7>>
GlobalResults == <<1, 2, 3, 4, 5, 6, 7>>
GlobalInit ==
  [v \in {"global.v1", "global.v2"} |-> 0]
  @@ [v \in {"global.v3", "global.v4", "global.v5", "global.v6"} |-> <<0>>]
  @@ ("global.v7" :> <<1, 2, 3>>)

-----------------------------------------------------------------------------
\* array.go.  Register 0 is the address of a.
ArrayVar(d, n, zero) == Variable(d, Zeros(n, zero))
Elements(d, values) ==
  <<ArrayVar(d, Len(values), 0)>> \o FoldLeft(
    LAMBDA done, k : done \o SetElement(30, R(d), C(k - 1), C(values[k])), <<>>, [k \in DOMAIN values |-> k])

\* sum := 0; for ... { sum += x }; return sum, with x in register 12.
Sum(n, element) ==
  <<<<<<Phi(10, <<C(0), R(11)>>), Phi(5, <<C(0), R(6)>>), Lt(7, R(5), C(n)), If(R(7), 2, 0)>>,
      element \o <<Add(11, R(10), R(12)), Add(6, R(5), C(1)), Jump(1)>>>>,
    <<<<Ret(R(10))>>>>>>

ArrayTest1 == Straight(<<ArrayVar(0, 10, 0), Load(1, R(0)), Ret(C(1))>>)
ArrayTest2 == Straight(<<ArrayVar(0, 10, 0)>> \o ElementOf(1, R(0), C(0)) \o <<Ret(R(1))>>)
AtPlace(k, x) == Straight(<<ArrayVar(0, 10, 0)>> \o SetElement(1, R(0), C(k), C(x))
                          \o ElementOf(2, R(0), C(k)) \o <<Ret(R(2))>>)
ArrayTest3 == AtPlace(0, 3)
ArrayTest4 == AtPlace(1, 4)
ArrayTest5 == Joined(<<Begin(<<ArrayVar(0, 10, 0)>>), For(10, SetElement(1, R(0), R(5), R(5)))>>
                     \o Sum(10, ElementOf(12, R(0), R(5))))

\* a[k].field
FieldOfElement(k, field) == <<IndexAddr(2, "array", R(0), k), FieldAddr(3, R(2), field)>>
FirstStruct(field) == Straight(<<ArrayVar(0, 10, <<0, 0>>)>> \o FieldOfElement(C(0), field)
  \o <<Store(R(3), C(6))>> \o FieldOfElement(C(0), field) \o <<Load(4, R(3)), Ret(R(4))>>)
ArrayTest6 == FirstStruct(0)
ArrayTest7 == FirstStruct(1)
AllStructs(field) == Joined(
  <<Begin(<<ArrayVar(0, 10, <<0, 0>>)>>), For(10, FieldOfElement(R(5), field) \o <<Store(R(3), R(5))>>)>>
    \o Sum(10, FieldOfElement(R(5), field) \o <<Load(12, R(3))>>))
ArrayTest8 == AllStructs(0)
ArrayTest9 == AllStructs(1)
ArrayTest10 == Joined(<<Begin(Elements(0, <<1, 2, 3, 4, 5>>))>> \o Sum(5, ElementOf(12, R(0), R(5))))

\* b := a copies all elements.
CopyArray == <<Variable(4, Zeros(5, 0)), Load(9, R(0)), Store(R(4), R(9)), Jump(0)>>
ArrayTest11 == Joined(
  <<Begin(<<ArrayVar(0, 5, 0)>>), For(5, SetElement(1, R(0), R(5), C(1))), <<CopyArray>>,
    For(5, SetElement(1, R(4), R(5), C(2)))>> \o Sum(5, ElementOf(12, R(0), R(5))))
ArrayTest12 == Joined(
  <<Begin(<<ArrayVar(0, 5, 0)>>), For(5, SetElement(1, R(0), R(5), R(5))), <<CopyArray>>,
    ForCheck(5, ElementOf(13, R(4), R(5)) \o <<Ne(8, R(13), R(5))>>, <<Ret(C(0))>>), <<<<Ret(C(12))>>>>>>)

\* return (i + 1) * factor
PlaceTimes(factor) == <<Add(20, R(5), C(1)), Mul(21, R(20), C(factor)), Ret(R(21))>>
\* for i := range a: i is increased at the head of the loop.
RangeArray(n, element) ==
  <<<<Jump(2)>>,
    <<Phi(6, <<C(-1), R(5)>>), Add(5, R(6), C(1)), Lt(7, R(5), C(n)), If(R(7), 3, 0)>>,
    <<Ge(8, R(5), C(5)), If(R(8), 4, 5)>>, <<Ret(C(0))>>,
    ElementOf(9, R(1), R(5)) \o <<If(R(9), 6, 7)>>, PlaceTimes(10),
    <<Mul(11, R(5), C(2))>> \o element \o <<Ne(16, R(11), R(12)), If(R(16), 8, 9)>>, PlaceTimes(100),
    SetElement(14, R(1), R(5), C(TRUE)) \o <<Jump(2)>>>>
AllFound(before, element, n) == Joined(
  <<Begin(Elements(0, <<0, 2, 4, 6, 8>>) \o <<Variable(1, Zeros(5, FALSE))>> \o before),
    RangeArray(5, element),
    ForCheck(5, ElementOf(9, R(1), R(5)) \o <<Not(8, R(9))>>, PlaceTimes(1000)), <<<<Ret(C(n))>>>>>>)
ArrayTest13 == AllFound(<<>>, ElementOf(12, R(0), R(5)), 13)
ArrayTest14 == AllFound(<<Load(2, R(0))>>, <<Index(12, R(2), R(5))>>, 14)
ArrayTest15 == Joined(
  <<Begin(Elements(0, <<0, 1, 2>>)),
    ForCheck(3, ElementOf(1, R(0), R(5)) \o <<Ne(8, R(1), R(5))>>, <<Ret(R(5))>>), <<<<Ret(C(15))>>>>>>)

\* Elements without a size.
IsEmptyStruct(k) == Check(ElementOf(1, R(0), C(k)) \o <<Load(3, R(4)), NeOf(8, "struct", R(1), R(3))>>, R(8), k)
NeverStored == For(0, SetElement(1, R(0), R(5), C(<<>>)))
ArrayTest16 == Joined(<<Begin(<<ArrayVar(0, 2, <<>>)>>), NeverStored, Begin(<<Variable(4, <<>>)>>),
                        Guarded([k \in 1 .. 2 |-> IsEmptyStruct(k - 1)], <<Ret(C(16))>>)>>)
ArrayTest17 == Joined(<<Begin(<<New(0, Zeros(2, <<>>))>>), NeverStored,
  Guarded(<<Check(<<IndexAddr(1, "sizeless", R(0), C(0)), IndexAddr(2, "sizeless", R(0), C(1)),
                    NeOf(8, "pointer", R(1), R(2))>>, R(8), 0)>>, <<Ret(C(17))>>)>>)

ArrayTests ==
  <<ArrayTest1, ArrayTest2, ArrayTest3, ArrayTest4, ArrayTest5, ArrayTest6, ArrayTest7, ArrayTest8,
    ArrayTest9, ArrayTest10, ArrayTest11, ArrayTest12, ArrayTest13, ArrayTest14, ArrayTest15,
    ArrayTest16, ArrayTest17>>
ArrayResults == <<1, 0, 3, 4, 45, 6, 6, 45, 45, 15, 5, 12, 13, 14, 15, 16, 17>>

-----------------------------------------------------------------------------
MemoryHelpers ==
  ("pointer.4f" :> PointerTest4f) @@ ("pointer.5f" :> PointerTest5f) @@ ("pointer.6f" :> PointerTest6f)
  @@ ("pointer.7f" :> PointerTest7f) @@ ("pointer.8f" :> PointerTest8f)
  @@ ("pointer.11$1" :> PointerTest11a) @@ ("pointer.12$1" :> PointerTest12a)
  @@ ("pointer.13$1" :> PointerTest13a)
  @@ ("struct.refRead" :> StructRefRead) @@ ("struct.refWrite" :> StructRefWrite)
  @@ ("struct.copyRead" :> StructCopyRead) @@ ("struct.copyWrite" :> StructCopyWrite)
  @@ ("struct.20f" :> StructTest20f) @@ ("struct.22$1" :> StructTest22a)
  @@ ("struct.23$1" :> StructTest23a) @@ ("struct.24$1" :> StructTest24a)
=============================================================================
