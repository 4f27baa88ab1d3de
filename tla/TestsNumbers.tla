----------------------------- MODULE TestsNumbers -----------------------------
(***************************************************************************)
(* src/xtests/numeric.go, with constants scaled down in proportion to the   *)
(* widths: what the source writes as 8 bits is a group of Width["uint8"].   *)
(* Test18, on the precision of float32, is left out.                       *)
(***************************************************************************)
EXTENDS ProgramText

CONSTANT Width  \* [integer types -> bits]

\* Test1 to Test12: a constant that went through a call is equal to itself.
ConstantTypes ==
  <<"int", "uint8", "uint16", "uint32", "uint64", "int8", "int16", "int32", "int64",
    "float32", "float64", "uint">>
Literal(k) == "numeric." \o ToString(k) \o "$1"
Answer     == Straight(<<Ret(C(1))>>)
Twice(k, code) == Func(Guarded(
  <<Check(<<CallOf(0, Literal(k), <<>>), CallOf(1, Literal(k), <<>>),
            NeOf(2, ConstantTypes[k], R(0), R(1))>>, R(2), 0)>>, <<Ret(C(code))>>))
NumericTest1  == Twice(1, 1)
NumericTest2  == Twice(2, 2)
NumericTest3  == Twice(3, 3)
NumericTest4  == Twice(4, 4)
NumericTest5  == Twice(5, 5)
NumericTest6  == Twice(6, 6)
NumericTest7  == Twice(7, 7)
NumericTest8  == Twice(8, 8)
NumericTest9  == Twice(9, 9)
NumericTest10 == Twice(10, 10)
NumericTest11 == Twice(11, 11)
NumericTest12 == Twice(12, 12)

\* if x op y != value { return code }
Yields(op, t, x, y, value, code) ==
  Check(<<BinOp(0, op, t, C(x), C(y)), NeOf(1, t, R(0), C(value))>>, R(1), code)
Checks(checks, code) == Func(Guarded(checks, <<Ret(C(code))>>))

\* 1 shifted by the width of its type.
Gone(op, types) ==
  [k \in DOMAIN types |-> Yields(op, types[k], 1, Width[types[k]], 0, k - 1)]
Unsigned == <<"uint", "uint8", "uint16", "uint32", "uint64">>
Signed   == <<"int", "int8", "int16", "int32", "int64", "uint", "int">>
NumericTest13 == Checks(Gone("SHL", Unsigned), 13)
NumericTest14 == Checks(Gone("SHL", Signed), 14)
NumericTest15 == Checks(Gone("SHR", Unsigned), 15)
NumericTest16 == Checks(Gone("SHR", Signed), 16)

NumericTest17 == Checks(
  <<Yields("SHL", "int", -1, Width["int"], 0, 0),  Yields("SHL", "int", -1, 1, -2, 1),
    Yields("SHR", "int", -1, Width["int"], -1, 2), Yields("SHR", "int", -1, 1, -1, 3),
    Yields("SHR", "int", -2, 0, -2, 4)>>, 17)

\* Twice a quarter of the range.
Doubled(t, sign, code) ==
  Yields("ADD", t, sign * 2^(Width[t] - 2), sign * 2^(Width[t] - 2), sign * 2^(Width[t] - 1), code)
NumericTest19 == Checks(
  <<Doubled("uint", 1, 0), Doubled("uint64", 1, 1), Doubled("uint32", 1, 2),
    Doubled("int", -1, 3), Doubled("int64", -1, 4), Doubled("int32", -1, 5)>>, 19)

\* Patterns of groups of 8 bits, the first the highest: 1 for 0xff.
Group == Width["uint8"]
Pattern(groups) ==
  FoldLeft(LAMBDA n, g : n * 2^Group + g * (2^Group - 1), 0, groups)
NumericTest20 == Checks(
  [k \in 1 .. 2 |->
    Yields("AND_NOT", <<"uint", "uint64">>[k], Pattern(<<1, 1, 0, 0, 1, 1, 0, 0>>),
           Pattern(<<0, 1, 0, 1, 0, 1, 0, 1>>), Pattern(<<1, 0, 0, 0, 1, 0, 0, 0>>), k - 1)]
  \o <<Yields("AND_NOT", "uint32", Pattern(<<1, 1, 0, 0>>), Pattern(<<0, 1, 0, 1>>),
              Pattern(<<1, 0, 0, 0>>), 2),
       Yields("AND_NOT", "uint16", Pattern(<<1, 1>>), Pattern(<<0, 1>>), Pattern(<<1, 0>>), 3)>>, 20)

\* if ^x != value { return code }
Inverted(t, x, value, code) ==
  Check(<<UnOp(0, "XOR", t, C(x)), NeOf(1, t, R(0), C(value))>>, R(1), code)
NumericTest21 == Checks(
  [k \in 1 .. 2 |-> Inverted(<<"uint", "uint64">>[k], Pattern(<<1, 1, 0, 0, 1, 1, 0, 0>>),
                             Pattern(<<0, 0, 1, 1, 0, 0, 1, 1>>), k - 1)]
  \o <<Inverted("uint32", Pattern(<<1, 1, 0, 0>>), Pattern(<<0, 0, 1, 1>>), 2),
       Inverted("uint16", Pattern(<<1, 1>>), 0, 3)>>
  \o [k \in 1 .. 4 |-> Inverted(<<"int", "int64", "int32", "int16">>[k], -1, 0, k + 3)]
  \o [k \in 1 .. 4 |-> Inverted(<<"int", "int64", "int32", "int16">>[k], 0, -1, k + 7)], 21)

NumericTests ==
  (19 :> NumericTest19) @@ (20 :> NumericTest20) @@ (21 :> NumericTest21)
  @@ <<NumericTest1, NumericTest2, NumericTest3, NumericTest4, NumericTest5, NumericTest6,
       NumericTest7, NumericTest8, NumericTest9, NumericTest10, NumericTest11, NumericTest12,
       NumericTest13, NumericTest14, NumericTest15, NumericTest16, NumericTest17>>
NumericResults == [k \in DOMAIN NumericTests |-> k]
NumericHelpers == [name \in {Literal(k) : k \in DOMAIN ConstantTypes} |-> Answer]
=============================================================================
