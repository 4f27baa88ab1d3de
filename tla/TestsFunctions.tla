----------------------------- MODULE TestsFunctions ---------------------------
(***************************************************************************)
(* src/xtests/function.go and src/xtests/closure.go.                        *)
(***************************************************************************)
EXTENDS ProgramText

\* x + f(x - 1) while x is not at its end: the recursive functions.
Summing(name, stop, d) ==
  Func(<<<<stop, If(R(d), 3, 2)>>,
         <<Sub(1, P(1), C(1)), CallOf(2, name, <<R(1)>>), Add(3, P(1), R(2)), Ret(R(3))>>,
         <<Ret(C(0))>>>>)

\* function.go
FunctionTest1f == Straight(<<Sub(0, C(3), C(6)), Add(1, R(0), P(1)), Ret(R(1))>>)
FunctionTest1 ==
  Straight(<<CallOf(0, "function.1f", <<C(1)>>), CallOf(1, "function.1f", <<C(2)>>),
             Add(2, R(0), R(1)), Ret(R(2))>>)

FunctionTest2f == Summing("function.2f", BinOp(0, "LEQ", "int", P(1), C(0)), 0)
FunctionTest2  == Straight(<<CallOf(0, "function.2f", <<C(10)>>), Ret(R(0))>>)

FunctionTest3f == Straight(<<Sub(0, P(1), P(2)), Ret(R(0))>>)
FunctionTest3  == Straight(<<CallOf(0, "function.3f", <<C(5), C(2)>>), Ret(R(0))>>)

FunctionTest4f == Straight(<<Ret(C(1))>>)
FunctionTest4  == Straight(<<CallOf(0, "function.4f", <<>>), Ret(R(0))>>)
FunctionTest5f == Straight(<<Ret(C(1))>>)
FunctionTest5  == Straight(<<CallOf(0, "function.5f", <<C(2)>>), Ret(R(0))>>)

FunctionTest6f == Summing("function.6f", Eq(0, P(1), C(0)), 0)
FunctionTest6  == Straight(<<CallOf(0, "function.6f", <<C(10)>>), Ret(R(0))>>)

\* A function as an argument.
FunctionTest7f == Straight(<<Call(0, P(1), <<>>), Ret(R(0))>>)
FunctionTest7g == Straight(<<Ret(C(7))>>)
FunctionTest7  == Straight(<<CallOf(0, "function.7f", <<Fun("function.7g")>>), Ret(R(0))>>)

\* Variadic functions: their last parameter is a slice.
FunctionTest8f == Func(<<<<Len_(0, "slice", P(1)), Ne(1, R(0), C(0)), If(R(1), 2, 3)>>,
                         <<Ret(C(0))>>, <<Ret(C(8))>>>>)
FunctionTest8  == Straight(<<CallOf(0, "function.8f", <<NilSlice>>), Ret(R(0))>>)

\* for i, x := range s { if x != expected(i) { return wrong } }; return right
RangeOver(before, s, expected, e, wrong, right) ==
  before \o
  <<<<Len_(5, "slice", s), Jump(Len(before) + 2)>>,
    <<Phi(6, <<C(-1), R(7)>>), Add(7, R(6), C(1)), Lt(8, R(7), R(5)),
      If(R(8), Len(before) + 3, Len(before) + 4)>>,
    <<IndexAddr(9, "slice", s, R(7)), Load(10, R(9))>> \o expected
      \o <<Ne(11, R(10), R(e)), If(R(11), Len(before) + 5, Len(before) + 2)>>,
    <<Ret(right)>>,
    wrong>>

Next_      == <<Add(12, R(7), C(1))>>
NextReturn == <<Add(13, R(7), C(1)), Ret(R(13))>>
LengthIs(n) == <<<<Len_(0, "slice", P(1)), Ne(1, R(0), C(n)), If(R(1), 2, 3)>>, <<Ret(C(0))>>>>

FunctionTest9f == Func(RangeOver(LengthIs(3), P(1), Next_, 12, NextReturn, C(9)))

\* The elements of a new array, from register d on.
ArrayOf(d, elements) ==
  <<New(d, [k \in DOMAIN elements |-> 0])>>
    \o FoldLeft(LAMBDA done, k : done \o <<IndexAddr(d + k, "array", R(d), C(k - 1)),
                                          Store(R(d + k), C(elements[k]))>>,
                <<>>, [k \in DOMAIN elements |-> k])
All(d, x, n) == SliceOf(d, "array", n, x, Absent, Absent)

FunctionTest9 == Straight(ArrayOf(0, <<1, 2, 3>>) \o
  <<All(4, R(0), 3), CallOf(5, "function.9f", <<R(4)>>), Ret(R(5))>>)

FunctionTest10f == Func(RangeOver(LengthIs(4), P(1), <<Add(12, R(7), R(7))>>, 12, NextReturn, C(10)))
FunctionTest10  == Straight(ArrayOf(0, <<0, 2, 4, 6>>) \o
  <<All(5, R(0), 4), CallOf(6, "function.10f", <<R(5)>>), Ret(R(6))>>)

Triple == <<Add(12, R(7), R(7)), Add(13, R(12), R(7))>>
FunctionTest11f == Func(
  <<<<Jump(4)>>,
    <<Add(1, R(0), R(0)), Add(2, R(1), R(0)), IndexAddr(3, "slice", P(1), R(0)), Store(R(3), R(2)),
      Add(4, R(0), C(1)), Jump(4)>>,
    <<Return(<<>>)>>,
    <<Phi(0, <<C(0), R(4)>>), Len_(5, "slice", P(1)), Lt(6, R(0), R(5)), If(R(6), 2, 3)>>>>)
FunctionTest11 == Func(RangeOver(
  <<ArrayOf(20, <<0, 1, 2, 3, 4>>) \o
    <<All(26, R(20), 5), CallOf(NoReg, "function.11f", <<R(26)>>), Jump(2)>>>>,
  R(26), Triple, 13, <<Ret(R(7))>>, C(11)))

\* Two results are one tuple.
FunctionTest12a == Straight(<<Return(<<C(12), C(10)>>)>>)
FunctionTest12  == Straight(<<CallOf(0, "function.12$1", <<>>), Ret(C(12))>>)
FunctionTest13a == Straight(<<Return(<<C(13), C(10)>>)>>)
FunctionTest13  ==
  Straight(<<CallOf(0, "function.13$1", <<>>), Extract(1, 0, R(0)), Extract(2, 1, R(0)), Ret(R(1))>>)

\* A call that a global variable, false here, guards.
WhenGlobal(name, call, x) ==
  <<call[1] \o <<Load(6, GlobalVar(name)), If(R(6), 2, 3)>>,
    call[2] \o <<Jump(3)>>,
    <<Phi(8, <<C(x), R(7)>>)>> \o call[3]>>

FunctionTest14 == Func(WhenGlobal("function.Gv14",
  <<<<Variable(0, <<NilFunc.name>>)>>,
    LoadField(2, 1, R(0), 0) \o <<Call(7, R(2), <<C(<<42>>)>>)>>, <<Ret(R(8))>>>>, 14))
FunctionTest15 == Func(WhenGlobal("function.Gv15",
  <<<<>>, <<Load(0, GlobalVar("function.15f")), Call(7, R(0), <<C(<<42>>)>>)>>, <<Ret(R(8))>>>>, 15))

FunctionTest16f == Straight(LoadField(1, 0, P(1), 0) \o <<Ret(R(1))>>)
FunctionTest16  == Func(
  WhenGlobal("function.Gv16",
    <<<<New(0, <<0>>)>> \o StoreField(1, R(0), 0, C(42)), <<CallOf(7, "function.16f", <<R(0)>>)>>,
      <<Ne(9, R(8), C(0)), If(R(9), 4, 5)>>>>, 0)
  \o <<<<Ret(C(0))>>,
       <<MakeInterface(2, "*T16", R(0)), Load(3, GlobalVar("function.Gv16")), If(R(3), 6, 7)>>,
       <<Invoke(4, "t16_f", R(2), <<>>), Jump(7)>>,
       <<Phi(5, <<R(8), R(4)>>), Ne(10, R(5), C(0)), If(R(10), 8, 9)>>,
       <<Ret(C(1))>>, <<Ret(C(16))>>>>)

FunctionTest17a == Straight(<<Add(0, P(1), C(1)), Ret(R(0))>>)
FunctionTest17f == Straight(<<Add(0, P(1), C(2)), Ret(R(0))>>)
FunctionTest17  == Func(
  <<<<NeOf(0, "func", NilFunc, NilFunc), If(R(0), 2, 3)>>, <<Ret(C(0))>>,
    <<ChangeType(1, "func", Fun("function.17$1")), Call(2, R(1), <<C(2)>>), Ne(3, R(2), C(3)), If(R(3), 4, 5)>>,
    <<Ret(R(2))>>,
    <<ChangeType(4, "func", Fun("function.17f")), Call(5, R(4), <<C(2)>>), Ne(6, R(5), C(4)), If(R(6), 6, 7)>>,
    <<Ret(R(5))>>, <<Ret(C(17))>>>>)

FunctionTests ==
  <<FunctionTest1, FunctionTest2, FunctionTest3, FunctionTest4, FunctionTest5, FunctionTest6,
    FunctionTest7, FunctionTest8, FunctionTest9, FunctionTest10, FunctionTest11, FunctionTest12,
    FunctionTest13, FunctionTest14, FunctionTest15, FunctionTest16, FunctionTest17>>
FunctionResults == <<-3, 55, 3, 1, 1, 55>> \o [k \in 1 .. 11 |-> k + 6]
FunctionHelpers ==
  ("function.1f" :> FunctionTest1f) @@ ("function.2f" :> FunctionTest2f)
  @@ ("function.3f" :> FunctionTest3f) @@ ("function.4f" :> FunctionTest4f)
  @@ ("function.5f" :> FunctionTest5f) @@ ("function.6f" :> FunctionTest6f)
  @@ ("function.7f" :> FunctionTest7f) @@ ("function.7g" :> FunctionTest7g)
  @@ ("function.8f" :> FunctionTest8f) @@ ("function.9f" :> FunctionTest9f)
  @@ ("function.10f" :> FunctionTest10f) @@ ("function.11f" :> FunctionTest11f)
  @@ ("function.12$1" :> FunctionTest12a) @@ ("function.13$1" :> FunctionTest13a)
  @@ ("function.16f" :> FunctionTest16f) @@ ("function.17f" :> FunctionTest17f)
  @@ ("function.17$1" :> FunctionTest17a)

-----------------------------------------------------------------------------
\* closure.go.  A variable a closure captures lives on the heap, and the closure
\* carries its address.
Bind(d, f, bindings) == MakeClosure(d, f, bindings, FALSE)
Method(d, f, x)      == MakeClosure(d, f, <<x>>, TRUE)

ClosureTest1a == Straight(<<Ret(C(1))>>)
ClosureTest1  == Straight(<<CallOf(0, "closure.1$1", <<>>), Ret(R(0))>>)
ClosureTest2a == Straight(<<Ret(P(1))>>)
ClosureTest2  == Straight(<<CallOf(0, "closure.2$1", <<C(2)>>), Ret(R(0))>>)
ClosureTest3a == Straight(<<Sub(0, P(1), P(2)), Ret(R(0))>>)
ClosureTest3  == Straight(<<CallOf(0, "closure.3$1", <<C(5), C(2)>>), Ret(R(0))>>)

ClosureTest4a == Closure(1, <<<<Load(0, F(1)), Ret(R(0))>>>>)
ClosureTest4  == Straight(<<New(0, 0), Store(R(0), C(0)), Bind(1, "closure.4$1", <<R(0)>>),
                            Store(R(0), C(4)), Call(2, R(1), <<>>), Ret(R(2))>>)

ClosureTest5a == Closure(1, <<<<Store(F(1), C(5)), Return(<<>>)>>>>)
ClosureTest5  == Straight(<<New(0, 0), Store(R(0), C(0)), Bind(1, "closure.5$1", <<R(0)>>),
                            Call(NoReg, R(1), <<>>), Load(2, R(0)), Ret(R(2))>>)

ClosureTest6b == Straight(<<Ret(C(6))>>)
ClosureTest6a == Straight(<<CallOf(0, "closure.6$1$1", <<>>), Ret(R(0))>>)
ClosureTest6  == Straight(<<CallOf(0, "closure.6$1", <<>>), Ret(R(0))>>)

ClosureTest7a == Closure(2, <<<<Store(F(1), C(3)), Store(F(2), C(4)), Return(<<>>)>>>>)
ClosureTest7  == Func(Guarded(
  <<Differs(<<New(0, 0), New(1, 0), Store(R(0), C(0)), Store(R(1), C(0)),
              Bind(2, "closure.7$1", <<R(0), R(1)>>), Call(NoReg, R(2), <<>>), Load(3, R(0))>>,
            4, R(3), 3, 0),
    Differs(<<Load(5, R(1))>>, 6, R(5), 4, 1)>>, <<Ret(C(7))>>))

\* Method values: the wrapper f$bound carries the receiver.
ClosureTest8f == Straight(<<Load(0, P(1)), Ret(R(0))>>)
ClosureTest8g == Straight(<<Call(0, P(1), <<>>), Ret(R(0))>>)
ClosureTest8  == Straight(<<New(0, 0), Store(R(0), C(8)), Method(1, "closure.8f", R(0)),
                            CallOf(2, "closure.8g", <<R(1)>>), Ret(R(2))>>)
ClosureTest9f == Straight(<<Load(0, P(1)), Add(1, R(0), P(2)), Ret(R(1))>>)
ClosureTest9g == Straight(<<Call(0, P(1), <<C(1)>>), Ret(R(0))>>)
ClosureTest9  == Straight(<<New(0, 0), Store(R(0), C(8)), Method(1, "closure.9f", R(0)),
                            CallOf(2, "closure.9g", <<R(1)>>), Ret(R(2))>>)
ClosureTest10f == Straight(<<ChangeType(0, "int", P(2)), Store(P(1), R(0)), Return(<<>>)>>)
ClosureTest10g == Straight(<<Call(NoReg, P(1), <<C(10)>>), Return(<<>>)>>)
ClosureTest10  == Straight(<<New(0, 0), Store(R(0), C(42)), Method(1, "closure.10f", R(0)),
                             CallOf(NoReg, "closure.10g", <<R(1)>>), Load(2, R(0)), Ret(R(2))>>)

ClosureTests ==
  <<ClosureTest1, ClosureTest2, ClosureTest3, ClosureTest4, ClosureTest5,
    ClosureTest6, ClosureTest7, ClosureTest8, ClosureTest9, ClosureTest10>>
ClosureResults == <<1, 2, 3, 4, 5, 6, 7, 8, 9, 10>>
ClosureHelpers ==
  ("closure.1$1" :> ClosureTest1a) @@ ("closure.2$1" :> ClosureTest2a)
  @@ ("closure.3$1" :> ClosureTest3a) @@ ("closure.4$1" :> ClosureTest4a)
  @@ ("closure.5$1" :> ClosureTest5a) @@ ("closure.6$1" :> ClosureTest6a)
  @@ ("closure.6$1$1" :> ClosureTest6b) @@ ("closure.7$1" :> ClosureTest7a)
  @@ ("closure.8f" :> ClosureTest8f) @@ ("closure.8g" :> ClosureTest8g)
  @@ ("closure.9f" :> ClosureTest9f) @@ ("closure.9g" :> ClosureTest9g)
  @@ ("closure.10f" :> ClosureTest10f) @@ ("closure.10g" :> ClosureTest10g)
=============================================================================
