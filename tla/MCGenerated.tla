----------------------------- MODULE MCGenerated ------------------------------
(***************************************************************************)
(* GeneratedCode run on the test programs of src/xtests, on phi nodes in     *)
(* every position of a loop, and on integer expressions at the limits of    *)
(* their types.  Widths are scaled down: what matters is which types are    *)
(* narrower than C's int.                                                   *)
(***************************************************************************)
EXTENDS GeneratedCode, TLC

RegisterSet == 0 .. 30

Control    == INSTANCE TestsControl
Calls      == INSTANCE TestsFunctions
Interfaces == INSTANCE TestsInterfaces
Memory     == INSTANCE TestsMemory
Text       == INSTANCE TestsStrings
SliceCode  == INSTANCE TestsSlices
Programs   == INSTANCE LoopPrograms
Queries    == INSTANCE StringPrograms

Width == ("int8" :> 2) @@ ("uint8" :> 2) @@ ("int16" :> 4) @@ ("uint16" :> 4)
         @@ ("int32" :> 8) @@ ("uint32" :> 8) @@ ("int64" :> 16) @@ ("uint64" :> 16)
         @@ ("int" :> 16) @@ ("uint" :> 16) @@ ("byte" :> 8) @@ ("rune" :> 16)
SignedTypes == {"rune", "int8", "int16", "int32", "int64", "int"}
IntWidth    == 8
Numbers     == INSTANCE TestsNumbers
MethodTable == Interfaces!InterfaceMethods @@ (<<"L", "f">> :> "loop.f")
V == INSTANCE CompiledValues WITH Methods <- MethodTable

\* The widths keep the relations of the real ones.
ASSUME WidthsAssumption == V!WidthsOK
\* What ArithmeticProofs asks of every number.
ASSUME BitsAssumption == V!DisjointBitsAdd(0 .. 8) /\ Trap \notin Int

GoMeaning(i, xs, m)     == V!GoMeaning(i, xs, m)
CMeaning(i, xs, m)      == V!CMeaning(i, xs, m)
StoredAt(a, x, m)       == V!StoredAt(a, x, m)
RuntimeAnswer(i, xs, m) == V!RuntimeAnswer(i, xs, m)
MethodIn(v, name)       == V!MethodIn(v, name)

-----------------------------------------------------------------------------
(* The tests: what they are and what they return.                          *)
TestName(file, k) == file \o ".Test" \o ToString(k)

\* values, which belong to the tests of a file, under the names of the tests.
Named(file, values) ==
  [name \in {TestName(file, k) : k \in DOMAIN values} |->
    values[CHOOSE k \in DOMAIN values : TestName(file, k) = name]]

Tests ==
  Named("for", Control!ForTests)
  @@ Named("if", Control!IfTests)
  @@ Named("function", Calls!FunctionTests)
  @@ Named("closure", Calls!ClosureTests)
  @@ Named("interface", Interfaces!InterfaceTests)
  @@ Named("pointer", Memory!PointerTests)
  @@ Named("struct", Memory!StructTests)
  @@ Named("global", Memory!GlobalTests)
  @@ Named("array", Memory!ArrayTests)
  @@ Named("numeric", Numbers!NumericTests)
  @@ Named("string", Text!StringTests)
  @@ Named("slice", SliceCode!SliceTests)

Expected ==
  Named("for", Control!ForResults)
  @@ Named("if", Control!IfResults)
  @@ Named("function", Calls!FunctionResults)
  @@ Named("closure", Calls!ClosureResults)
  @@ Named("interface", Interfaces!InterfaceResults)
  @@ Named("pointer", Memory!PointerResults)
  @@ Named("struct", Memory!StructResults)
  @@ Named("global", Memory!GlobalResults)
  @@ Named("array", Memory!ArrayResults)
  @@ Named("numeric", Numbers!NumericResults)
  @@ Named("string", Text!StringResults)
  @@ Named("slice", SliceCode!SliceResults)

-----------------------------------------------------------------------------
(* Loops, and one function for each expression.                            *)
LoopName(p)     == "loop." \o p[1] \o "." \o p[2] \o "." \o p[3]
SelfLoopName(p) == "selfloop." \o p[1] \o "." \o p[2]
LoopTests ==
  [name \in {LoopName(p) : p \in DOMAIN Programs!Loops} |->
    Programs!Loops[CHOOSE p \in DOMAIN Programs!Loops : LoopName(p) = name]]
  @@ [name \in {SelfLoopName(p) : p \in DOMAIN Programs!SelfLoops} |->
       Programs!SelfLoops[CHOOSE p \in DOMAIN Programs!SelfLoops : SelfLoopName(p) = name]]
LoopExpected == [name \in DOMAIN LoopTests |-> Programs!LoopResult]

Edge(t)   == {V!Least(Width[t], V!Signed(t)), -1, 0, 1, 2, V!Greatest(Width[t], V!Signed(t)) - 1,
              V!Greatest(Width[t], V!Signed(t))} \cap V!ValuesOf(t)
Counts(t) == {-1, 0, 1, Width[t] - 1, Width[t], Width[t] + 1}
Narrow    == <<"int8", "uint8", "int16", "uint16", "int32", "uint32">>

Expression(op, t, x, y) == [op |-> op, type |-> t, x |-> x, y |-> y]
ExpressionName(e) == e.op \o "." \o e.type \o "." \o ToString(e.x) \o "." \o ToString(e.y)
Operators == <<"ADD", "SUB", "MUL", "QUO", "REM", "AND", "OR", "XOR", "AND_NOT", "SHL", "SHR">>
Kinds     == [k \in 1 .. 66 |-> <<Operators[(k - 1) \div 6 + 1], Narrow[((k - 1) % 6) + 1]>>]

\* The expressions with one operator on one type, by name.
Expressions(op, t) ==
  LET all == {Expression(op, t, x, y) : x \in Edge(t), y \in IF op \in V!Shifts THEN Counts(t) ELSE Edge(t)}
  IN  [name \in {ExpressionName(e) : e \in all} |-> CHOOSE e \in all : ExpressionName(e) = name]

UpToKind[k \in 0 .. Len(Kinds)] ==
  IF k = 0 THEN <<>> ELSE Expressions(Kinds[k][1], Kinds[k][2]) @@ UpToKind[k - 1]
AllExpressions == UpToKind[Len(Kinds)]
ExpressionTests ==
  LET all     == AllExpressions
      code(e) == BinOp(0, e.op, e.type, Const(e.x), Const(e.y))
  IN  [name \in DOMAIN all |-> Programs!Straight(<<code(all[name]), Return(<<Reg(0)>>)>>)]
ExpressionExpected ==
  LET all  == AllExpressions
      go(e) == V!GoBinary(e.op, e.x, e.y, e.type)
  IN  [name \in DOMAIN all |-> go(all[name])]

\* What is asked of strings.
Questions == Queries!Answers

AllFunctions == Tests @@ LoopTests @@ ExpressionTests
                @@ Calls!FunctionHelpers @@ Calls!ClosureHelpers
                @@ Numbers!NumericHelpers @@ Interfaces!InterfaceHelpers @@ Memory!MemoryHelpers
                @@ Text!StringHelpers @@ SliceCode!SliceHelpers @@ [q \in DOMAIN Questions |-> Questions[q].program]
                @@ ("loop.f" :> Programs!LoopFunction)
TestProgram == LET all == AllFunctions IN all
AllNames    == DOMAIN Tests \cup DOMAIN LoopTests \cup DOMAIN AllExpressions \cup DOMAIN Questions
TestNames   == LET all == AllNames IN all
AllExpected == Expected @@ LoopExpected @@ ExpressionExpected

Memory0 == ([v \in {<<"global", name>> : name \in DOMAIN Memory!GlobalInit} |-> Memory!GlobalInit[v[2]]])
           @@ (<<"global", "function.Gv14">> :> FALSE) @@ (<<"global", "function.Gv15">> :> FALSE)
           @@ (<<"global", "function.Gv16">> :> FALSE)
           @@ (<<"global", "function.15f">> :> [fn |-> "none", wrapper |-> FALSE, free |-> <<>>])

-----------------------------------------------------------------------------
\* Every test of src/xtests and every loop ends, with its result; an expression
\* ends with Go's value unless it ends the process; a question about strings ends
\* with Go's answer (Trap: Go panics) where it should, and otherwise does not.
Entry  == IF stack = <<>> THEN prev.fn ELSE stack[1].fn
AsInGo == Questions[Entry].go = IF outcome = "returned" THEN result ELSE Trap
TestsReturn ==
  <>/\ outcome # "running"
    /\ IF Entry \in DOMAIN Questions THEN AsInGo <=> Questions[Entry].same
       ELSE \/ outcome = "returned" /\ result = AllExpected[Entry]
            \/ outcome = "trapped" /\ Entry \in DOMAIN AllExpressions

\* The process is ended where Go panics, and by operations whose result does not
\* fit in C's type: signed ones, and products of unsigned types narrower than int.
\* No shift by a count that is not negative and no bit operation does.
OnlyOverflowTraps ==
  outcome = "trapped" =>
    LET e == AllExpressions[pc.func.fn]
    IN  \/ ExpressionExpected[pc.func.fn] = Trap
        \/ /\ e.op \in V!Arithmetic
           /\ e.type \in SignedTypes \/ (e.op = "MUL" /\ Width[e.type] < IntWidth)

\* Wherever these programs get to, C computes what Go does, of the operands it has
\* there, or stops at an overflow.
GoOrOverflow == ComputesAsMeant /\ OnlyOverflowTraps
=============================================================================
