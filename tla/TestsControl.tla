------------------------------ MODULE TestsControl ----------------------------
(***************************************************************************)
(* src/xtests/for.go and src/xtests/if.go.                                  *)
(***************************************************************************)
EXTENDS ProgramText

\* for.go.  The block behind a loop comes before its head, the third block.
ForTest1 == Func(<<<<Jump(4)>>, <<Jump(4)>>, <<Ret(R(0))>>,
                   <<Phi(0, <<C(1), C(2)>>), If(C(FALSE), 2, 3)>>>>)

ForTest2 == Func(<<<<Jump(4)>>, <<Jump(4)>>, <<Ret(R(0))>>,
                   <<Phi(0, <<C(3), R(1)>>), Phi(1, <<C(1), C(2)>>), If(C(FALSE), 2, 3)>>>>)

ForTest3 == Func(<<<<Jump(4)>>,
                   <<Add(2, R(0), R(1)), Sub(3, R(1), C(1)), Jump(4)>>,
                   <<Ret(R(0))>>,
                   <<Phi(0, <<C(0), R(2)>>), Phi(1, <<C(10), R(3)>>),
                     Gt(4, R(1), C(0)), If(R(4), 2, 3)>>>>)

CountUp == <<<<Jump(4)>>,
             <<Add(2, R(0), R(1)), Add(3, R(1), C(1)), Jump(4)>>,
             <<Ret(R(0))>>,
             <<Phi(0, <<C(0), R(2)>>), Phi(1, <<C(0), R(3)>>),
               Lt(4, R(1), C(10)), If(R(4), 2, 3)>>>>

ForTest4 == Func(CountUp)
ForTest5 == Func(CountUp)

ForTest6 == Func(<<<<Jump(4)>>,
                   <<Add(1, R(0), C(9)), Jump(4)>>,
                   <<Ret(R(0))>>,
                   <<Phi(0, <<C(0), R(1)>>), Lt(2, R(0), C(100)), If(R(2), 2, 3)>>>>)

ForTest7 == Func(<<<<Jump(2)>>,
                   <<Phi(0, <<C(0), R(1)>>), Add(1, R(0), C(1)), Gt(2, R(1), C(5)), If(R(2), 3, 2)>>,
                   <<Ret(R(1))>>>>)

\* continue: the loop's post statement has two ways in.
ForTest8 == Func(<<<<Jump(4)>>,
                   <<Rem(2, R(1), C(2)), Eq(3, R(2), C(0)), If(R(3), 5, 6)>>,
                   <<Ret(R(0))>>,
                   <<Phi(0, <<C(0), R(5)>>), Phi(1, <<C(0), R(6)>>), Lt(4, R(1), C(10)), If(R(4), 2, 3)>>,
                   <<Phi(5, <<R(0), R(7)>>), Add(6, R(1), C(1)), Jump(4)>>,
                   <<Add(7, R(0), R(1)), Jump(5)>>>>)

ForTests   == <<ForTest1, ForTest2, ForTest3, ForTest4, ForTest5, ForTest6, ForTest7, ForTest8>>
ForResults == <<1, 3, 55, 45, 45, 108, 6, 25>>

-----------------------------------------------------------------------------
\* if.go
Then(cond, x) == Func(<<<<If(C(cond), 2, 3)>>,
                        <<Add(0, C(0), C(x)), Jump(3)>>,
                        <<Phi(1, <<C(0), R(0)>>), Ret(R(1))>>>>)

ThenElse(cond, x) == Func(<<<<If(C(cond), 2, 4)>>,
                            <<Add(0, C(0), C(1)), Jump(3)>>,
                            <<Phi(1, <<R(0), R(2)>>), Ret(R(1))>>,
                            <<Sub(2, C(0), C(x)), Jump(3)>>>>)

IfTest1 == Then(TRUE, 1)
IfTest2 == Then(FALSE, 1)
IfTest3 == Then(TRUE, 1)
IfTest4 == Then(FALSE, 1)
IfTest5 == Func(<<<<Lt(2, C(5), C(7)), If(R(2), 2, 3)>>,
                  <<Add(0, C(0), C(1)), Jump(3)>>,
                  <<Phi(1, <<C(0), R(0)>>), Ret(R(1))>>>>)
IfTest6 == ThenElse(TRUE, 1)
IfTest7 == ThenElse(FALSE, 1)
IfTest8 == ThenElse(FALSE, 1)
IfTest9 == ThenElse(FALSE, 1)
IfTest10 == Func(<<<<Not(0, C(FALSE)), If(R(0), 2, 3)>>, <<Ret(C(10))>>, <<Ret(C(0))>>>>)

IfTests == <<IfTest1, IfTest2, IfTest3, IfTest4, IfTest5,
             IfTest6, IfTest7, IfTest8, IfTest9, IfTest10>>
IfResults == <<1, 0, 1, 0, 1, 1, -1, -1, -1, 10>>
=============================================================================
