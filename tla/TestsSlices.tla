------------------------------ MODULE TestsSlices -----------------------------
(***************************************************************************)
(* src/xtests/slice.go.                                                     *)
(***************************************************************************)
EXTENDS ProgramText

\* var d [n]int, which a slice expression makes escape; s[k]; s[k] = x.
IntArray(d, n)    == New(d, Zeros(n, 0))
At(d, s, k)       == <<IndexAddr(d + 1, "slice", s, k), Load(d, R(d + 1))>>
AtArray(d, p, k)  == <<IndexAddr(d + 1, "array", p, k), Load(d, R(d + 1))>>
Put(a, s, k, x)   == <<IndexAddr(a, "slice", s, k), Store(R(a), x)>>
OfArray(d, n, p, low, high) == SliceOf(d, "array", n, p, low, high)
Whole(d, n, p)    == OfArray(d, n, p, Absent, Absent)

LengthIs(s, n, code)   == Differs(<<Len_(30, "slice", s)>>, 29, R(30), n, code)
CapacityIs(s, n, code) == Differs(<<Cap(30, s)>>, 29, R(30), n, code)
ElementIs(s, k, x, code) == Differs(At(27, s, C(k)), 29, R(27), x, code)
\* if s is nil (or is not) { return code }
NilCheck(op, s, code) == Check(<<BinOp(29, op, "slice", s, NilSlice)>>, R(29), code)

\* One element stored through a slice and read in the array.
Through(low, high, k, x, place) == Straight(
  <<IntArray(0, 10), OfArray(1, 10, R(0), low, high)>> \o Put(2, R(1), C(k), C(x))
    \o AtArray(3, R(0), C(place)) \o <<Ret(R(3))>>)
SliceTest1 == Through(Absent, Absent, 0, 1, 0)
SliceTest2 == Through(C(2), Absent, 1, 2, 3)
SliceTest3 == Through(Absent, C(7), 2, 3, 2)
SliceTest4 == Through(C(2), C(7), 3, 4, 5)
SliceTest5 == Straight(<<IntArray(0, 10), OfArray(1, 10, R(0), C(2), C(7)), Len_(2, "slice", R(1)), Ret(R(2))>>)
SliceTest6 == Straight(<<IntArray(0, 10), OfArray(1, 10, R(0), C(2), C(7)), Cap(2, R(1)), Ret(R(2))>>)

\* for i := 0; i < len(s); i++, without a check and with one.
ForEach(s, body)         == ForUpTo(<<Len_(9, "slice", s)>>, R(9), body)
ForEachCheck(s, body, x) == ForUpToCheck(<<Len_(9, "slice", s)>>, R(9), body, x)
FiveInts == Begin(<<IntArray(0, 5), Whole(1, 5, R(0))>>)
SliceTest7 == Joined(
  <<FiveInts, ForEach(R(1), Put(2, R(1), R(5), C(1))), ForEach(R(1), Put(2, R(1), R(5), C(2))),
    <<<<Phi(10, <<C(0), R(11)>>), Phi(5, <<C(0), R(6)>>), Len_(9, "slice", R(1)), Lt(7, R(5), R(9)), If(R(7), 2, 0)>>,
      At(12, R(1), R(5)) \o <<Add(11, R(10), R(12)), Add(6, R(5), C(1)), Jump(1)>>>>,
    <<<<Ret(R(10))>>>>>>)
SliceTest8 == Joined(
  <<FiveInts, ForEach(R(1), Put(2, R(1), R(5), R(5))),
    ForEachCheck(R(1), At(12, R(1), R(5)) \o <<Ne(8, R(12), R(5))>>, <<Ret(C(0))>>), <<<<Ret(C(8))>>>>>>)

\* Slices of no elements.
NoInts == <<IntArray(0, 0), Whole(1, 0, R(0))>>
AddNone == <<AppendTo(2, "slice", R(1), NilSlice)>>
SliceTest9 == Func(Guarded(
  <<NilCheck("NEQ", NilSlice, 0), LengthIs(NilSlice, 0, 1), CapacityIs(NilSlice, 0, 2)>>, <<Ret(C(9))>>))
SliceTest10 == Func(Guarded(
  <<Preceded(NoInts, NilCheck("EQL", R(1), 0)), LengthIs(R(1), 0, 1), CapacityIs(R(1), 0, 2)>>, <<Ret(C(10))>>))
SliceTest11 == Joined(
  <<<<NoInts \o AddNone \o <<EqOf(3, "slice", R(2), NilSlice), If(R(3), 2, 0)>>, <<Ret(C(0))>>>>,
    <<<<Len_(4, "slice", R(2)), Ne(5, R(4), C(0)), If(R(5), 2, 0)>>, <<Len_(6, "slice", R(2)), Ret(R(6))>>>>,
    <<<<Cap(7, R(2)), Ne(8, R(7), C(0)), If(R(8), 2, 0)>>, <<Ret(C(2))>>>>, <<<<Ret(C(11))>>>>>>)
\* s = append(s, x), and what s is then.
OneMore(x) == Func(Guarded(
  <<Preceded(NoInts \o AppendOne(2, 0, R(1), C(x)), NilCheck("EQL", R(2), 0)), LengthIs(R(2), 1, 1),
    Check(<<Cap(30, R(2)), Eq(29, R(30), C(0))>>, R(29), 2)>>,
  At(4, R(2), C(0)) \o <<Ret(R(4))>>))
SliceTest12 == OneMore(12)
SliceTest13 == Func(Guarded(
  <<Preceded(NoInts \o AddNone, NilCheck("EQL", R(2), 0)), LengthIs(R(2), 0, 1)>>, <<Ret(C(13))>>))
SliceTest14 == OneMore(14)

\* for i := 0; i < n; i++ { checks }
ForChecks(n, checks) ==
  <<<<Phi(5, <<C(0), R(6)>>), Lt(7, R(5), C(n)), If(R(7), 2, 0)>>>>
  \o FlattenSeq([k \in DOMAIN checks |->
       <<checks[k].do \o <<If(checks[k].cond, 2 * k + 1, 2 * k + 2)>>, <<Ret(C(checks[k].code))>>>>])
  \o <<<<Add(6, R(5), C(1)), Jump(1)>>>>
SliceTest15 == Joined(
  <<Begin(<<>>),
    ForChecks(10,
      <<NilCheck("NEQ", NilSlice, 0), LengthIs(NilSlice, 0, 1), CapacityIs(NilSlice, 0, 2),
        Preceded(AppendOne(2, 0, NilSlice, R(5)), NilCheck("EQL", R(2), 3)), LengthIs(R(2), 1, 4),
        Check(<<Cap(30, R(2)), BinOp(29, "LEQ", "int", R(30), C(0))>>, R(29), 5)>>),
    <<<<Ret(C(15))>>>>>>)

\* [][]int{lists}: arrays d and d + 2, the slice in d + 4.
Nested(d, lists) ==
  <<New(d, Zeros(Len(lists), NilSlice.name))>>
  \o FlattenSeq([k \in DOMAIN lists |->
       <<IndexAddr(d + 1, "array", R(d), C(k - 1)), IntArray(d + 2, Len(lists[k]))>>
         \o FlattenSeq([j \in DOMAIN lists[k] |->
              <<IndexAddr(26, "array", R(d + 2), C(j - 1)), Store(R(26), C(lists[k][j]))>>])
         \o <<Whole(d + 3, Len(lists[k]), R(d + 2)), Store(R(d + 1), R(d + 3))>>])
  \o <<Whole(d + 4, Len(lists), R(d))>>
InnerLength(k, n, code) == Preceded(At(10, R(4), C(k)), LengthIs(R(10), n, code))
InnerIs(k, j, x, code)  == Preceded(At(10, R(4), C(k)), ElementIs(R(10), j, x, code))
SliceTest16 == Func(Guarded(
  <<Preceded(Nested(0, <<<<>>, <<1>>, <<2, 3>>>>), LengthIs(R(4), 3, 1)), InnerLength(0, 0, 2),
    InnerLength(1, 1, 3), InnerIs(1, 0, 1, 4), InnerLength(2, 2, 5), InnerIs(2, 0, 2, 6), InnerIs(2, 1, 3, 7)>>,
  <<Ret(C(16))>>))

\* for i ... { for j := 0; j < len(s[i]); j++ { body } }, with i in 10 and j in 14; more are
\* the blocks body goes on with, the last of which goes back with 4.
ForBoth(s, body, more) ==
  LET last == 5 + Len(more)
  IN  <<<<Phi(10, <<C(0), R(11)>>), Len_(12, "slice", s), Lt(13, R(10), R(12)), If(R(13), 2, 0)>>,
        <<Jump(3)>>,
        <<Phi(14, <<C(0), R(15)>>)>> \o At(16, s, R(10)) \o <<Len_(18, "slice", R(16)), Lt(19, R(14), R(18)), If(R(19), 4, last)>>,
        body>> \o more \o <<<<Add(11, R(10), C(1)), Jump(1)>>>>
NextInner == <<Add(15, R(14), C(1)), Jump(3)>>
Inner(d, s) == At(20, s, R(10)) \o At(d, R(20), R(14))
SliceTest17 == Joined(
  <<Begin(Nested(0, <<<<>>, <<1>>, <<2, 3>>>>) \o Nested(5, <<<<>>, <<4>>, <<5, 6>>>>)),
    ForBoth(R(4), At(22, R(9), R(10)) \o <<IndexAddr(24, "slice", R(22), R(14))>>
                    \o Inner(27, R(4)) \o <<Store(R(24), R(27))>> \o NextInner, <<>>),
    ForBoth(R(4), Inner(27, R(9)) \o Inner(29, R(4)) \o <<Ne(25, R(27), R(29)), If(R(25), 5, 6)>>,
            <<<<Ret(C(0))>>, NextInner>>),
    <<<<Ret(C(17))>>>>>>)

Literal(d, xs) ==
  <<IntArray(d, Len(xs))>>
  \o FlattenSeq([k \in DOMAIN xs |-> <<IndexAddr(26, "array", R(d), C(k - 1)), Store(R(26), C(xs[k]))>>])
  \o <<Whole(d + 1, Len(xs), R(d))>>
SliceTest18a == Func(
  <<<<Len_(9, "slice", P(1)), Jump(2)>>,
    <<Phi(6, <<C(-1), R(5)>>), Add(5, R(6), C(1)), Lt(7, R(5), R(9)), If(R(7), 3, 4)>>,
    At(12, P(1), R(5)) \o <<Add(14, R(12), R(12))>> \o Put(15, P(1), R(5), R(14)) \o <<Jump(2)>>,
    <<Return(<<>>)>>>>)
SliceTest18 == Func(Guarded(
  <<Preceded(Literal(0, <<1, 2, 3>>) \o <<CallOf(NoReg, "slice.18$1", <<R(1)>>)>>, ElementIs(R(1), 0, 2, 1)),
    ElementIs(R(1), 1, 4, 2), ElementIs(R(1), 2, 6, 3)>>, <<Ret(C(18))>>))
SliceTest19 == Func(Guarded(
  <<Preceded(<<IntArray(0, 10), OfArray(1, 10, R(0), C(2), C(8)), SliceOf(2, "slice", 0, R(1), C(3), C(5))>>,
          LengthIs(R(2), 2, 0)),
    CapacityIs(R(2), 5, 1)>>,
  Put(3, R(2), C(1), C(19)) \o At(4, R(2), C(1)) \o <<Ret(R(4))>>))

\* make with sizes that are not constant, and with constant ones: a slice of an array.
SliceTest20a == Straight(<<MakeSlice(0, 0, P(1), P(1)), Ret(R(0))>>)
SliceTest21a == Straight(<<MakeSlice(0, 0, P(1), P(2)), Ret(R(0))>>)
Made(d, n) == <<IntArray(d, n), OfArray(d + 1, n, R(d), Absent, C(n))>>
\* A check as a piece of its own.
Piece(check) == <<check.do \o <<If(check.cond, 2, 0)>>, <<Ret(C(check.code))>>>>
Pieces(checks) == [k \in DOMAIN checks |-> Piece(checks[k])]
AllZero(s) == ForEachCheck(s, At(12, s, R(5)) \o <<Ne(8, R(12), C(0))>>, <<Add(20, C(10), R(5)), Ret(R(20))>>)
SliceTest20 == Joined(
  Pieces(<<Preceded(<<CallOf(1, "slice.20$1", <<C(5)>>)>>, LengthIs(R(1), 5, 0))>>)
    \o <<Begin(<<>>), AllZero(R(1)), <<<<Ret(C(20))>>>>>>)
SliceTest21 == Joined(
  Pieces(<<Preceded(<<CallOf(1, "slice.21$1", <<C(5), C(6)>>)>>, LengthIs(R(1), 5, 0)), CapacityIs(R(1), 6, 1)>>)
    \o <<Begin(<<>>), AllZero(R(1)), <<<<Ret(C(21))>>>>>>)

\* Two elements appended to a slice of none; codes are those of the four checks.
Grown(d, x, codes) ==
  <<Preceded(Made(d, 0), LengthIs(R(d + 1), 0, codes[1])),
    Preceded(AppendOne(d + 2, 0, R(d + 1), C(x)) \o AppendOne(d + 3, 0, R(d + 2), C(x + 1)),
          LengthIs(R(d + 3), 2, codes[2])),
    ElementIs(R(d + 3), 0, x, codes[3]), ElementIs(R(d + 3), 1, x + 1, codes[4])>>
SliceTest22 == Func(Guarded(Grown(0, 1, <<0, 1, 3, 4>>) \o Grown(5, 3, <<5, 6, 7, 8>>), <<Ret(C(22))>>))

\* copy
Numbered(n) == <<Begin(Made(0, n)), For(n, Put(2, R(1), R(5), R(5)))>>
ElementsAre(s, xs) == [k \in DOMAIN xs |-> ElementIs(s, k - 1, xs[k], k)]
CopyMade(from, to, xs, code) == Joined(
  Numbered(from)
    \o Pieces(<<Differs(Made(10, to) \o <<Copy(12, "slice", R(11), R(1))>>, 13, R(12), 2, 0)>> \o ElementsAre(R(11), xs))
    \o <<<<<<Ret(C(code))>>>>>>)
SliceTest23 == CopyMade(3, 2, <<0, 1>>, 23)
SliceTest24 == CopyMade(2, 3, <<0, 1, 0>>, 24)
SliceTest25 == Joined(
  Numbered(5)
    \o Pieces(<<Differs(<<SliceOf(10, "slice", 0, R(1), C(2), Absent), SliceOf(11, "slice", 0, R(1), Absent, C(3)),
                          Copy(12, "slice", R(10), R(11))>>, 13, R(12), 3, 0)>>
              \o ElementsAre(R(1), <<0, 1, 0, 1, 2>>))
    \o <<<<<<Ret(C(25))>>>>>>)

\* Named array and slice types.
Shows(d, low, high, k, x, place) ==
  Differs(<<OfArray(d, 10, R(0), low, high)>> \o Put(10, R(d), C(k), C(x)) \o AtArray(12, R(0), C(place)),
          14, R(12), x, x)
SliceTest26 == Func(Guarded(
  <<Differs(<<IntArray(0, 10)>> \o AtArray(12, R(0), C(9)), 14, R(12), 0, 0),
    Shows(1, Absent, Absent, 0, 1, 0), Shows(2, C(2), Absent, 1, 2, 3), Shows(3, Absent, C(7), 2, 3, 2),
    Shows(4, C(2), C(7), 3, 4, 5)>>, <<Ret(C(26))>>))
SliceTest27 == Func(Guarded(
  <<Differs(<<IntArray(0, 10), Whole(1, 10, R(0)), ChangeType(2, "slice", R(1))>> \o Put(3, R(2), C(0), C(1))
              \o <<SliceOf(4, "slice", 0, R(2), Absent, Absent)>> \o Put(5, R(4), C(5), C(1))
              \o AtArray(12, R(0), C(5)), 14, R(12), 1, 0)>>, <<Ret(C(27))>>))

-----------------------------------------------------------------------------
(* Slices and strings.                                                     *)
Word(first, n) == C([k \in 1 .. n |-> first + k - 1])
FromText(d, t, s)   == <<Convert(d, "string", t, s)>>
\* for i := 0; i < n; i++ { if x != t(first + i) { code } }, with x, in 12, computed by read.
Spells(n, read, t, first, code) ==
  ForCheck(n, read \o <<Add(14, C(first), R(5)), Convert(15, "int", t, R(14)), NeOf(8, t, R(12), R(15))>>, code)
PlacePlus(k) == <<Add(20, C(k), R(5)), Ret(R(20))>>
TextIs(t, s, text, code) ==
  Check(<<Convert(24, t, "string", s), NeOf(25, "string", R(24), C(text))>>, R(25), code)
adc == <<97, 100, 99>>
Changed(t, element, code) == Joined(
  <<Begin(FromText(0, t, Word(97, 3))), Spells(3, At(12, R(0), R(5)), element, 97, <<Ret(R(5))>>)>>
    \o Pieces(<<LengthIs(R(0), 3, 3), Preceded(Put(16, R(0), C(1), C(100)), TextIs(t, R(0), adc, 4))>>)
    \o <<<<<<Ret(C(code))>>>>>>)
SliceTest28 == Changed("bytes", "byte", 28)
SliceTest30 == Changed("runes", "rune", 30)

AddText == Begin(FromText(0, "bytes", Word(97, 3)) \o <<AppendTo(1, "string", R(0), Word(100, 3))>>)
SixLetters == <<AddText, Spells(6, At(12, R(1), R(5)), "byte", 97, <<Ret(R(5))>>)>> \o Pieces(<<LengthIs(R(1), 6, 6)>>)
SliceTest29 == Joined(SixLetters \o <<<<<<Ret(C(29))>>>>>>)

\* n := copy(s, from) of "abc..." with n letters; codes follow one another.
Overwrite(d, n, from, text, code) ==
  <<Differs(FromText(d, "bytes", Word(97, n)) \o <<Copy(d + 1, "string", R(d), from)>>, 29, R(d + 1), 3, code),
    LengthIs(R(d), n, code + 1), TextIs("bytes", R(d), text, code + 2)>>
SliceTest31 == Func(Guarded(
  Overwrite(0, 3, Word(100, 3), <<100, 101, 102>>, 0) \o Overwrite(2, 4, Word(100, 3), <<100, 101, 102, 100>>, 3)
    \o Overwrite(4, 3, Word(100, 4), <<100, 101, 102>>, 6), <<Ret(C(31))>>))

\* Named types: what is copied, in before and copy, is read again by read.
CopyInto(before, copy, read, code) == Joined(
  SixLetters \o Pieces(<<Differs(before \o <<copy>>, 29, R(17), 3, 7)>>)
    \o <<Begin(<<>>), Spells(3, read, "byte", 120, PlacePlus(7)), <<<<Ret(C(code))>>>>>>)
xyz == Word(120, 3)
SliceTest32 == CopyInto(<<>>, Copy(17, "string", R(1), xyz), <<Lookup(12, xyz, R(5))>>, 32)
SliceTest33 == CopyInto(FromText(16, "bytes", xyz), Copy(17, "slice", R(1), R(16)), At(12, R(16), R(5)), 33)

Letter(d, t, element, first, n, lengthCode, code) ==
  Pieces(<<Preceded(FromText(d, t, Word(first, n)), LengthIs(R(d), n, lengthCode))>>)
    \o <<Begin(<<>>), Spells(n, At(12, R(d), R(5)), element, first, PlacePlus(code))>>
SliceTest34 == Joined(
  Letter(0, "bytes", "byte", 97, 3, 0, 1) \o Letter(1, "runes", "rune", 100, 4, 4, 5)
    \o Letter(2, "bytes", "byte", 104, 2, 9, 10) \o <<<<<<Ret(C(34))>>>>>>)

SliceTests ==
  <<SliceTest1, SliceTest2, SliceTest3, SliceTest4, SliceTest5, SliceTest6, SliceTest7, SliceTest8,
    SliceTest9, SliceTest10, SliceTest11, SliceTest12, SliceTest13, SliceTest14, SliceTest15,
    SliceTest16, SliceTest17, SliceTest18, SliceTest19, SliceTest20, SliceTest21, SliceTest22,
    SliceTest23, SliceTest24, SliceTest25, SliceTest26, SliceTest27, SliceTest28, SliceTest29,
    SliceTest30, SliceTest31, SliceTest32, SliceTest33, SliceTest34>>
SliceResults == <<1, 2, 3, 4, 5, 8, 10>> \o [k \in 1 .. 27 |-> k + 7]
SliceHelpers == ("slice.18$1" :> SliceTest18a) @@ ("slice.20$1" :> SliceTest20a) @@ ("slice.21$1" :> SliceTest21a)
=============================================================================
