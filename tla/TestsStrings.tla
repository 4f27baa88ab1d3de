------------------------------ MODULE TestsStrings ----------------------------
(***************************************************************************)
(* src/xtests/string.go.  Test7 and Test8 are commented out there.          *)
(***************************************************************************)
EXTENDS ProgramText

\* The string of the characters from first to last.
Letters(first, last) == [k \in 1 .. last - first + 1 |-> first + k - 1]
a        == 97
abc      == C(Letters(97, 99))
def      == C(Letters(100, 102))
One(ch)  == C(<<ch>>)

NotText(d, x, s, code) == Check(<<NeOf(d, "string", x, s)>>, R(d), code)

StringTest1 == Straight(<<Len_(0, "string", One(a)), Ret(R(0))>>)

\* Two strings compared, here or in a function of their own.
Compare(x, y, then, else) == Func(
  <<<<EqOf(0, "string", x, y), If(R(0), 2, 3)>>, <<Ret(C(then))>>, <<Ret(C(else))>>>>)
StringTest2  == Compare(One(a), One(a), 2, 0)
StringTest3  == Compare(One(a), One(a + 1), 0, 3)
StringTest4a == Compare(P(1), P(2), 4, 0)
StringTest5a == Compare(P(1), P(2), 0, 5)
StringTest4  == Straight(<<CallOf(0, "string.4$1", <<One(a), One(a)>>), Ret(R(0))>>)
StringTest5  == Straight(<<CallOf(0, "string.5$1", <<One(a), One(a + 1)>>), Ret(R(0))>>)

LengthIs(s, n, code) == Differs(<<Len_(10, "slice", s)>>, 11, R(10), n, code)
ElementIs(s, k, x, code) ==
  Check(<<IndexAddr(13, "slice", s, C(k)), Load(12, R(13)), NeOf(11, "string", R(12), x)>>, R(11), code)
StringTest6 == Func(Guarded(
  <<Preceded(AppendOne(1, <<>>, NilSlice, One(a)), LengthIs(R(1), 1, 0)), ElementIs(R(1), 0, One(a), 1),
    Preceded(AppendOne(2, <<>>, R(1), One(a + 1)), LengthIs(R(2), 2, 2)), ElementIs(R(2), 1, One(a + 1), 3)>>,
  <<Ret(C(6))>>))

Joining(d, x, y) == BinOp(d, "ADD", "string", x, y)
StringTest9 == Func(Guarded(
  <<Preceded(<<Joining(0, abc, def)>>, NotText(1, R(0), C(Letters(97, 102)), 0)),
    Preceded(<<Joining(2, C(Letters(117, 119)), C(Letters(120, 122)))>>,
          NotText(3, R(2), C(Letters(117, 122)), 1))>>, <<Ret(C(9))>>))

\* string(x), of a variable of type t.
Converted(t, x, s, code) == Preceded(<<Convert(0, t, "string", x)>>, NotText(1, R(0), C(s), code))
StringTest10 == Func(Guarded(<<Converted("int", C(65), <<65>>, 0)>>, <<Ret(C(10))>>))

StringTest11 == Func(Guarded(
  [k \in 1 .. 6 |-> Differs(<<Joining(0, abc, def), Lookup(1, R(0), C(k - 1))>>, 2, R(1), 96 + k, k - 1)],
  <<Ret(C(11))>>))

Part(x, low, high, s, code) == Preceded(<<Substring(0, x, low, high)>>, NotText(1, R(0), C(s), code))
abcdef == C(Letters(97, 102))
StringTest12 == Func(Guarded(
  <<Part(abcdef, Absent, C(3), Letters(97, 99), 0), Part(abcdef, C(3), Absent, Letters(100, 102), 1),
    Part(abcdef, C(1), C(5), Letters(98, 101), 2), Part(abcdef, Absent, Absent, Letters(97, 102), 3)>>,
  <<Ret(C(12))>>))

StringTest13 == Func(Guarded(
  <<Converted("rune", C(65), <<65>>, 0), Converted("rune", C(66), <<66>>, 1)>>, <<Ret(C(13))>>))

\* var v [..]t = xs; string(v[:]), perhaps through a named type.
FromArray(d, t, xs, s, code) ==
  Preceded(<<New(d, [k \in DOMAIN xs |-> 0])>>
        \o FlattenSeq([k \in DOMAIN xs |-> <<IndexAddr(10, "array", R(d), C(k - 1)), Store(R(10), C(xs[k]))>>])
        \o <<SliceOf(11, "array", Len(xs), R(d), Absent, Absent), ChangeType(12, "slice", R(11)),
             Convert(13, t, "string", R(12))>>,
        NotText(14, R(13), C(s), code))
FromSlices(t, xs, ys, code) == Func(Guarded(
  <<FromArray(0, t, xs, xs, 0), FromArray(1, t, ys, ys, 1)>>, <<Ret(C(code))>>))
StringTest14 == FromSlices("bytes", <<65>>, <<66>>, 14)
StringTest15 == Func(Guarded(
  <<FromArray(0, "bytes", <<>>, <<>>, 0),
    Preceded(<<SliceOf(11, "slice", 0, NilSlice, Absent, Absent), ChangeType(12, "slice", R(11)),
            Convert(13, "bytes", "string", R(12))>>, NotText(14, R(13), C(<<>>), 1))>>, <<Ret(C(15))>>))
StringTest16 == FromSlices("runes", <<65>>, <<66>>, 16)
StringTest17 == FromSlices("runes", <<>>, <<>>, 17)

\* "\u1234" and "\u1235"
u1234 == <<225, 136, 180>>
u1235 == <<225, 136, 181>>
FromNumbers(t, code) == Func(Guarded(
  <<Converted(t, C(4660), u1234, 0), Converted(t, C(4661), u1235, 1)>>, <<Ret(C(code))>>))
StringTest18 == FromNumbers("int", 18)
StringTest19 == FromNumbers("rune", 19)
StringTest20 == Func(Guarded(<<FromArray(0, "runes", <<4660>>, u1234, 0)>>, <<Ret(C(20))>>))

StringTest21 == Func(Guarded(
  <<Part(C(Letters(97, 100)), C(1), C(3), Letters(98, 99), 0),
    Differs(<<Lookup(2, C(Letters(120, 122)), C(1))>>, 1, R(2), 121, 1)>>, <<Ret(C(21))>>))

LengthOf(s, n, code) == Func(Guarded(<<Differs(<<Len_(0, "string", C(s))>>, 1, R(0), n, 0)>>, <<Ret(C(code))>>))
StringTest22 == LengthOf(Letters(97, 122) \o Letters(65, 90) \o Letters(97, 122), 26 * 3, 22)
StringTest23 == LengthOf(<<34>>, 1, 23)

\* n := 0; for i, c := range "abc" { checks; n++ }; if n != 3 { return 3 }; return code.
\* n is register 0, i 1, c 2; a check executes its code when its condition, 4, is true.
EachLetter(checks, code) ==
  LET last == 4 + 2 * Len(checks)
      test(k) == checks[k].do \o <<If(R(4), 3 + 2 * k, 4 + 2 * k)>>
      pass(k) == IF k = Len(checks) THEN <<Add(3, R(0), C(1)), Jump(2)>> ELSE test(k + 1)
  IN  Func(<<<<RangeText(8), Jump(2)>>,
             <<Phi(0, <<C(0), R(3)>>), Next(9, R(8), abc), Extract(7, 0, R(9)), If(R(7), 3, 4)>>,
             <<Extract(1, 1, R(9)), Extract(2, 2, R(9))>> \o test(1),
             <<Ne(6, R(0), C(3)), If(R(6), last + 1, last + 2)>>>>
           \o FlattenSeq([k \in DOMAIN checks |-> <<checks[k].code, pass(k)>>])
           \o <<<<Ret(C(3))>>, <<Ret(C(code))>>>>)
InOrder == Check(<<Ne(4, R(1), R(0))>>, R(4), <<Ret(R(1))>>)
TenTimes == <<Mul(5, R(1), C(10)), Ret(R(5))>>
\* x, of type t, must be the character 'a' + n.
FollowsA(before, t, x, n, code) ==
  Check(before \o <<Add(10, C(a), n), Convert(11, "int", t, R(10)), NeOf(4, t, x, R(11))>>, R(4), code)
StringTest24 == EachLetter(<<InOrder, FollowsA(<<>>, "rune", R(2), R(1), TenTimes)>>, 24)
StringTest25 == EachLetter(<<InOrder, FollowsA(<<Lookup(12, abc, R(1))>>, "byte", R(12), R(1), TenTimes)>>, 25)
StringTest26 == EachLetter(
  <<FollowsA(<<>>, "rune", R(2), R(0), <<Convert(5, "rune", "int", R(2)), Ret(R(5))>>)>>, 26)

\* All of them, under their numbers.
StringListing ==
  <<StringTest1, StringTest2, StringTest3, StringTest4, StringTest5, StringTest6, StringTest9,
    StringTest10, StringTest11, StringTest12, StringTest13, StringTest14, StringTest15, StringTest16,
    StringTest17, StringTest18, StringTest19, StringTest20, StringTest21, StringTest22, StringTest23,
    StringTest24, StringTest25, StringTest26>>
StringNumbers == (1 .. 26) \ {7, 8}
StringTests   == LET all == StringListing
                 IN  [n \in StringNumbers |-> all[IF n < 7 THEN n ELSE n - 2]]
StringResults == [n \in StringNumbers |-> n]
StringHelpers == ("string.4$1" :> StringTest4a) @@ ("string.5$1" :> StringTest5a)
=============================================================================
