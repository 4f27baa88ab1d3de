----------------------------- MODULE LoopPrograms -----------------------------
(***************************************************************************)
(* Loops whose phi nodes follow every kind of instruction that cuts a block *)
(* in pieces.  These programs are not in the repository: phi nodes ask      *)
(* which C function ran last, and the programs of src/xtests try few cases. *)
(***************************************************************************)
EXTENDS ProgramText

\* What stands in a block beside the loop's own instructions.
Interludes == {"nothing", "call", "runtime", "bound", "invoke", "both"}
Interlude(kind) ==
  CASE kind = "nothing" -> <<>>
    [] kind = "call"    -> <<CallOf(10, "loop.f", <<C(5)>>)>>
    [] kind = "runtime" -> <<New(11, 0)>>
    [] kind = "bound"   -> <<MakeClosure(12, "loop.f", <<C(5)>>, TRUE), Call(10, R(12), <<>>)>>
    [] kind = "invoke"  -> <<MakeInterface(13, "L", C(5)), Invoke(10, "f", R(13), <<>>)>>
    [] kind = "both"    -> <<New(11, 0), CallOf(10, "loop.f", <<C(5)>>), Add(14, R(10), C(1))>>

LoopFunction == Straight(<<New(0, 0), Ret(P(1))>>)

\* sum := 0; for i := 2; i > 0; i-- { sum += i }; return sum
Loop(before, head, body) == Func(
  <<Interlude(before) \o <<Jump(4)>>,
    Interlude(body) \o <<Add(2, R(0), R(1)), Sub(3, R(1), C(1)), Jump(4)>>,
    <<Ret(R(0))>>,
    <<Phi(0, <<C(0), R(2)>>), Phi(1, <<C(2), R(3)>>)>> \o Interlude(head)
      \o <<Gt(4, R(1), C(0)), If(R(4), 2, 3)>>>>)

\* A block that is its own predecessor.
SelfLoop(before, body) == Func(
  <<Interlude(before) \o <<Jump(2)>>,
    <<Phi(0, <<C(0), R(2)>>), Phi(1, <<C(2), R(3)>>)>> \o Interlude(body)
      \o <<Add(2, R(0), R(1)), Sub(3, R(1), C(1)), Gt(4, R(3), C(0)), If(R(4), 2, 3)>>,
    <<Ret(R(2))>>>>)

Loops ==
  [p \in {"nothing", "both"} \X Interludes \X Interludes |-> Loop(p[1], p[2], p[3])]
SelfLoops ==
  [p \in Interludes \X Interludes |-> SelfLoop(p[1], p[2])]
LoopResult == 3
=============================================================================
