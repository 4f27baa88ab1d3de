---------------------------- MODULE TestsInterfaces ---------------------------
(***************************************************************************)
(* src/xtests/interface.go.  Only pointers to named types have a table of   *)
(* methods, so the receiver an interface call passes is always a pointer.   *)
(***************************************************************************)
EXTENDS ProgramText

\* s := S0{n: x}, on the heap because its address is taken.
Struct0(d, x)      == <<New(d, <<0>>)>> \o StoreField(d + 1, R(d), 0, C(x))
Struct2(d, n, m)   == <<New(d, <<0, 0>>)>> \o StoreField(d + 1, R(d), 0, C(n))
                                           \o StoreField(d + 2, R(d), 1, C(m))
\* i = &s; d = i.method(args)
Through(d, type, x, method, args) == <<MakeInterface(d, type, x), Invoke(d + 1, method, R(d), args)>>
Invoked(d, i, method) == <<Invoke(d, method, i, <<>>)>>
FieldOf(d, p) == LoadField(d, d + 1, p, 0)

-----------------------------------------------------------------------------
(* Methods.                                                                *)
FirstField == Straight(FieldOf(0, P(1)) \o <<Ret(R(0))>>)

InterfaceS0f == FirstField
InterfaceS1f == FirstField
InterfaceS2f == Straight(LoadField(0, 1, P(1), 0) \o LoadField(2, 3, P(1), 1)
                         \o <<Sub(4, R(0), R(2)), Ret(R(4))>>)
InterfaceS0g == Straight(FieldOf(0, P(1)) \o <<Sub(2, R(0), P(2)), Ret(R(2))>>)
InterfaceS1g == Straight(FieldOf(0, P(1)) \o <<Add(2, R(0), P(2)), Ret(R(2))>>)
InterfaceS2g == Straight(LoadField(0, 1, P(1), 0) \o LoadField(2, 3, P(1), 1)
                         \o <<Add(4, R(0), R(2)), Sub(5, R(4), P(2)), Ret(R(5))>>)
InterfaceS0f2 == Straight(FieldOf(0, P(1)) \o FieldOf(2, P(1)) \o <<Add(4, R(0), R(2)), Ret(R(4))>>)
InterfaceS0h  == Straight(StoreField(0, P(1), 0, P(2)) \o <<Return(<<>>)>>)
InterfaceTf   == Straight(<<Load(0, P(1)), ChangeType(1, "int", R(0)), Ret(R(1))>>)
InterfaceT1f  == Straight(<<ChangeType(0, "int", P(1)), Add(1, R(0), C(1)), Ret(R(1))>>)
\* The wrapper (*T1).f of a method with a value receiver.
InterfaceT1fPointer ==
  Straight(<<Builtin(0, "ssa:wrapnilchk", "pointer", <<P(1)>>), Load(1, R(0)),
             CallOf(2, "interface.T1.f", <<R(1)>>), Ret(R(2))>>)

InterfaceMethods ==
  (<<"*S0", "f">> :> "interface.S0.f") @@ (<<"*S0", "g">> :> "interface.S0.g")
  @@ (<<"*S0", "f2">> :> "interface.S0.f2") @@ (<<"*S0", "h">> :> "interface.S0.h")
  @@ (<<"*S1", "f">> :> "interface.S1.f") @@ (<<"*S1", "g">> :> "interface.S1.g")
  @@ (<<"*S2", "f">> :> "interface.S2.f") @@ (<<"*S2", "g">> :> "interface.S2.g")
  @@ (<<"*T", "f">> :> "interface.T.f") @@ (<<"*T1", "f">> :> "interface.T1.f$pointer")
  @@ (<<"*T16", "t16_f">> :> "function.16f")

-----------------------------------------------------------------------------
(* Tests.                                                                  *)

InterfaceTest1 == Straight(Struct0(0, 1) \o <<CallOf(2, "interface.S0.f", <<R(0)>>), Ret(R(2))>>)
InterfaceTest2 == Straight(Struct0(0, 2) \o <<CallOf(2, "interface.S1.f", <<R(0)>>), Ret(R(2))>>)
InterfaceTest3 == Straight(Struct0(0, 3) \o Through(2, "*S0", R(0), "f", <<>>) \o <<Ret(R(3))>>)
InterfaceTest4 == Straight(Struct0(0, 0) \o <<MakeInterface(2, "*S0", R(0))>>
                           \o StoreField(4, R(0), 0, C(4)) \o Invoked(3, R(2), "f") \o <<Ret(R(3))>>)

InterfaceTest5 == Func(Guarded(
  <<Differs(Struct0(0, 1) \o Through(2, "*S0", R(0), "f", <<>>), 4, R(3), 1, 0)>>,
  Struct2(5, 6, 1) \o Through(8, "*S2", R(5), "f", <<>>) \o <<Ret(R(9))>>))

InterfaceTest6a == Straight(Invoked(0, P(1), "f") \o <<Ret(R(0))>>)
InterfaceTest9a == Straight(<<Invoke(0, "g", P(1), <<P(2)>>), Ret(R(0))>>)

\* One value of every type, and what is called for it, with value in register 11.
EachType(s0, s1, s2, calls, value) == Func(Guarded(
  <<Differs(Struct0(0, s0) \o calls[1], 12, R(11), 1, 1),
    Differs(Struct0(2, s1) \o calls[2], 12, R(11), 2, 2),
    Differs(Struct2(4, s2[1], s2[2]) \o calls[3], 12, R(11), 3, 3)>>,
  <<Ret(C(value))>>))
CallF(t, p)       == <<MakeInterface(10, t, p), CallOf(11, "interface.6$1", <<R(10)>>)>>
CallG(t, p, k)    == <<MakeInterface(10, t, p), CallOf(11, "interface.9$1", <<R(10), C(k)>>)>>
ThroughG(t, p, k) == Through(10, t, p, "g", <<C(k)>>)

InterfaceTest6 == EachType(1, 2, <<5, 2>>, <<CallF("*S0", R(0)), CallF("*S1", R(2)), CallF("*S2", R(4))>>, 6)
InterfaceTest7 == Straight(Struct0(0, 8) \o Through(2, "*S0", R(0), "g", <<C(1)>>) \o <<Ret(R(3))>>)
InterfaceTest8 == EachType(2, 0, <<2, 4>>,
  <<ThroughG("*S0", R(0), 1), ThroughG("*S1", R(2), 2), ThroughG("*S2", R(4), 3)>>, 8)
InterfaceTest9 == EachType(2, 0, <<2, 4>>,
  <<CallG("*S0", R(0), 1), CallG("*S1", R(2), 2), CallG("*S2", R(4), 3)>>, 9)

InterfaceTest10 == Straight(<<New(0, 0), Store(R(0), C(10))>> \o Through(1, "*T", R(0), "f", <<>>)
                            \o <<Ret(R(2))>>)
InterfaceTest11 == Func(Guarded(
  <<Differs(<<New(0, 0), Store(R(0), C(1))>> \o Through(1, "*T", R(0), "f", <<>>), 3, R(2), 1, 1),
    Differs(<<New(4, 0), Store(R(4), C(2))>> \o Through(5, "*T1", R(4), "f", <<>>), 7, R(6), 3, 3)>>,
  <<Ret(C(11))>>))

InterfaceTest12a == Straight(<<Ret(C(12))>>)
InterfaceTest12  == Straight(<<MakeInterface(0, "int", C(1)), CallOf(1, "interface.12$1", <<R(0)>>), Ret(R(1))>>)

\* i.(*S0) is s itself.
Same(value) == Func(Guarded(
  <<Differs(Struct0(0, 42) \o <<MakeInterface(2, "*S0", R(0)),
              TypeAssert(3, R(2), "*S0", <<>>, FALSE)>> \o FieldOf(4, R(3)), 6, R(4), 42, 0),
    Differs(StoreField(7, R(0), 0, C(43)) \o FieldOf(4, R(3)), 6, R(4), 43, 1)>>,
  <<Ret(C(value))>>))

InterfaceTest13 == Same(13)
InterfaceTest14 == Same(14)
InterfaceTest15 == Func(Guarded(
  <<Differs(<<MakeInterface(0, "int", C(42)), TypeAssert(1, R(0), "int", 0, FALSE)>>, 2, R(1), 42, 0),
    Differs(<<>>, 3, C(42), 42, 1)>>, <<Ret(C(15))>>))

InterfaceTest16 == Func(Guarded(
  <<Differs(Struct0(0, 42) \o Through(2, "*S0", R(0), "f", <<>>), 4, R(3), 42, 0),
    Differs(<<TypeAssertInterface(5, R(2), {"f", "f2"}, FALSE)>> \o Invoked(6, R(5), "f"), 4, R(6), 42, 1),
    Differs(Invoked(6, R(5), "f2"), 4, R(6), 84, 2)>>, <<Ret(C(16))>>))

\* ss, ok := i.(*S0) succeeds and sss, ok2 := i.(*S1) does not.
CommaOk(d, x, to, zero) ==
  <<TypeAssert(d, x, to, zero, TRUE), Extract(d + 1, 0, R(d)), Extract(d + 2, 1, R(d)),
    Not(d + 3, R(d + 2))>>
NotS1(x, d, code) ==
  <<Check(CommaOk(d, x, "*S1", <<>>), R(d + 2), code),
    Check(<<NeOf(d + 4, "pointer", R(d + 1), NilPtr)>>, R(d + 4), code + 1)>>
ZeroOrS0(value) == Func(Guarded(
  <<Check(Struct0(0, 42) \o <<MakeInterface(2, "*S0", R(0))>> \o CommaOk(3, R(2), "*S0", <<>>), R(6), 0),
    Differs(FieldOf(7, R(4)), 9, R(7), 42, 1)>> \o NotS1(R(2), 10, 2), <<Ret(C(value))>>))

InterfaceTest17 == ZeroOrS0(17)
InterfaceTest18 == ZeroOrS0(18)
InterfaceTest19 == Func(Guarded(
  <<Check(<<MakeInterface(0, "int", C(42))>> \o CommaOk(1, R(0), "int", 0), R(4), 0),
    Differs(<<>>, 5, R(2), 42, 1),
    Check(CommaOk(6, R(0), "S0", <<0>>), R(8), 2),
    Differs(<<Field(10, R(7), 0)>>, 11, R(10), 0, 3)>>, <<Ret(C(19))>>))
InterfaceTest20 == Func(Guarded(
  <<Differs(Struct0(0, 42) \o Through(2, "*S0", R(0), "f", <<>>), 4, R(3), 42, 0),
    Check(<<TypeAssertInterface(5, R(2), {"f", "f2"}, TRUE), Extract(6, 0, R(5)), Extract(7, 1, R(5)),
            Not(8, R(7))>>, R(8), 1),
    Differs(Invoked(9, R(6), "f"), 4, R(9), 42, 2),
    Differs(Invoked(9, R(6), "f2"), 4, R(9), 84, 3)>> \o NotS1(R(2), 10, 4), <<Ret(C(20))>>))

\* ia and ib of the same value are equal, and not nil.
BothAre(type, x, d, code) ==
  <<Check(<<MakeInterface(d, type, x), MakeInterface(d + 1, type, x),
            NeOf(d + 2, "interface", R(d), R(d + 1))>>, R(d + 2), code),
    Check(<<EqOf(d + 2, "interface", R(d), NilIface)>>, R(d + 2), code + 1)>>
\* Pointers to two structs are not equal although the structs are.
Two(x, d, code) ==
  <<Check(Struct0(d, x) \o Struct0(d + 2, x) \o
            <<MakeInterface(d + 4, "*S0", R(d)), MakeInterface(d + 5, "*S0", R(d + 2)),
              EqOf(d + 6, "interface", R(d + 4), R(d + 5))>>, R(d + 6), code),
    Check(<<EqOf(d + 6, "interface", R(d + 4), NilIface)>>, R(d + 6), code + 1)>>
After(instrs, checks) == <<[checks[1] EXCEPT !.do = instrs \o @]>> \o Tail(checks)

InterfaceTest21 == Func(Guarded(
  <<Check(<<NeOf(0, "interface", NilIface, NilIface)>>, R(0), 0),
    Check(<<NeOf(1, "interface", NilIface, NilIface)>>, R(1), 1)>>, <<Ret(C(21))>>))
InterfaceTest22 == Func(Guarded(
  After(<<New(0, 0), Store(R(0), C(42))>>, BothAre("*T", R(0), 1, 0))
    \o After(Struct0(4, 43), BothAre("*S0", R(4), 6, 2)) \o Two(44, 9, 4), <<Ret(C(22))>>))

EveryKind(value) == Func(Guarded(
  BothAre("int", C(42), 0, 0) \o BothAre("T", C(43), 0, 2)
    \o After(Struct0(3, 44), BothAre("*S0", R(3), 0, 4)) \o Two(45, 6, 6)
    \o After(<<Variable(13, <<0>>)>> \o StoreField(14, R(13), 0, C(46)) \o <<Load(15, R(13))>>,
             BothAre("S0", R(15), 0, 8)), <<Ret(C(value))>>))
InterfaceTest23 == EveryKind(23)
InterfaceTest24 == EveryKind(24)

InterfaceTest25 == Func(Guarded(
  <<Check(<<MakeInterface(0, "*S0", NilPtr), MakeInterface(1, "*S0", NilPtr),
            NeOf(2, "interface", R(0), R(1))>>, R(2), 0)>>, <<Ret(C(25))>>))

\* if x != value; if tx, ok := x.(type); ok { if tx != value .. } else ..
Holds(type, x, equality, zero, d, code) ==
  <<Check(<<MakeInterface(d, type, x), MakeInterface(d + 1, type, x),
            NeOf(d + 2, "interface", R(d), R(d + 1))>>, R(d + 2), code),
    Check(CommaOk(d + 3, R(d), type, zero), R(d + 6), code + 2),
    Check(<<NeOf(d + 7, equality, R(d + 4), x)>>, R(d + 7), code + 1)>>
InterfaceTest26 == Func(Guarded(
  Holds("int", C(42), "int", 0, 0, 0) \o Holds("*S0", NilPtr, "pointer", <<>>, 8, 3), <<Ret(C(26))>>))

InterfaceTest27a == Straight(<<Ret(C(44))>>)
InterfaceTest27b == Straight(<<Ret(C(0))>>)
InterfaceTest27 == Func(Guarded(
  BothAre("int", C(42), 0, 0) \o BothAre("T", C(43), 0, 2)
    \o After(<<CallOf(4, "interface.27$1", <<>>)>>, BothAre("int", R(4), 0, 4))
    \o After(<<CallOf(5, "interface.27$2", <<>>)>>, BothAre("int", R(5), 0, 6)), <<Ret(C(27))>>))

PointerNe(d, x, y) == NeOf(d, "pointer", x, y)
InterfaceTest28 == Func(Guarded(
  <<Check(<<New(0, <<<<>>>>)>> \o StoreField(1, R(0), 0, R(0)) \o FieldOf(2, R(0))
            \o <<PointerNe(4, R(2), R(0))>>, R(4), 0),
    Check(<<Load(5, R(0)), MakeInterface(6, "S3", R(5)), TypeAssert(7, R(6), "S3", <<<<>>>>, FALSE),
            New(8, <<<<>>>>), Store(R(8), R(7))>> \o FieldOf(2, R(8)) \o <<PointerNe(4, R(2), R(0))>>, R(4), 1),
    Check(FieldOf(2, R(8)) \o <<EqOf(4, "pointer", R(2), R(8))>>, R(4), 2),
    Check(<<MakeInterface(9, "*S3", R(0)), TypeAssert(10, R(9), "*S3", <<>>, FALSE)>>
            \o FieldOf(2, R(10)) \o <<PointerNe(4, R(2), R(0))>>, R(4), 3),
    Check(FieldOf(2, R(10)) \o <<PointerNe(4, R(2), R(10))>>, R(4), 4)>>, <<Ret(C(28))>>))

InterfaceTest29a == Straight(<<Ret(P(1))>>)
InterfaceTest29b == Straight(<<TypeAssertInterface(0, P(1), {"f"}, FALSE), Ret(R(0))>>)
InterfaceTest29c == Straight(<<TypeAssertInterface(0, P(1), {"g"}, FALSE), Ret(R(0))>>)

\* What a function makes of the interface value in 2 still holds the pointer in 0.
Passed(before, call, value, code) ==
  <<Differs(before \o call, 5, R(4), value, code),
    Check(<<TypeAssert(6, R(3), "*S0", <<>>, FALSE), PointerNe(5, R(6), R(0))>>, R(5), code + 1)>>
InterfaceTest29 == Func(Guarded(
  Passed(Struct0(0, 42) \o <<MakeInterface(2, "*S0", R(0)), ChangeInterface(8, R(2))>>,
         <<CallOf(3, "interface.29$1", <<R(8)>>), TypeAssertInterface(7, R(3), {"f"}, FALSE),
           Invoke(4, "f", R(7), <<>>)>>, 42, 0)
  \o Passed(<<MakeInterface(2, "*S0", R(0)), ChangeInterface(8, R(2))>>,
            <<CallOf(3, "interface.29$2", <<R(8)>>), Invoke(4, "f", R(3), <<>>)>>, 42, 2)
  \o Passed(<<MakeInterface(2, "*S0", R(0))>>,
            <<CallOf(3, "interface.29$3", <<R(2)>>), Invoke(4, "g", R(3), <<C(2)>>)>>, 40, 4),
  <<Ret(C(29))>>))

InterfaceTest30 == Func(Guarded(
  <<Differs(Struct0(0, 42) \o <<MakeInterface(2, "*S0", R(0)), Invoke(NoReg, "h", R(2), <<C(43)>>)>>
              \o FieldOf(3, R(0)), 5, R(3), 43, 0)>>, <<Ret(C(30))>>))

InterfaceTests ==
  <<InterfaceTest1, InterfaceTest2, InterfaceTest3, InterfaceTest4, InterfaceTest5, InterfaceTest6,
    InterfaceTest7, InterfaceTest8, InterfaceTest9, InterfaceTest10, InterfaceTest11, InterfaceTest12,
    InterfaceTest13, InterfaceTest14, InterfaceTest15, InterfaceTest16, InterfaceTest17,
    InterfaceTest18, InterfaceTest19, InterfaceTest20, InterfaceTest21, InterfaceTest22,
    InterfaceTest23, InterfaceTest24, InterfaceTest25, InterfaceTest26, InterfaceTest27,
    InterfaceTest28, InterfaceTest29, InterfaceTest30>>
InterfaceResults == [k \in DOMAIN InterfaceTests |-> k]
InterfaceHelpers ==
  ("interface.S0.f" :> InterfaceS0f) @@ ("interface.S1.f" :> InterfaceS1f)
  @@ ("interface.S2.f" :> InterfaceS2f) @@ ("interface.S0.g" :> InterfaceS0g)
  @@ ("interface.S1.g" :> InterfaceS1g) @@ ("interface.S2.g" :> InterfaceS2g)
  @@ ("interface.S0.f2" :> InterfaceS0f2) @@ ("interface.S0.h" :> InterfaceS0h)
  @@ ("interface.T.f" :> InterfaceTf) @@ ("interface.T1.f" :> InterfaceT1f)
  @@ ("interface.T1.f$pointer" :> InterfaceT1fPointer)
  @@ ("interface.6$1" :> InterfaceTest6a) @@ ("interface.9$1" :> InterfaceTest9a)
  @@ ("interface.12$1" :> InterfaceTest12a)
  @@ ("interface.27$1" :> InterfaceTest27a) @@ ("interface.27$2" :> InterfaceTest27b)
  @@ ("interface.29$1" :> InterfaceTest29a) @@ ("interface.29$2" :> InterfaceTest29b)
  @@ ("interface.29$3" :> InterfaceTest29c)
=============================================================================
