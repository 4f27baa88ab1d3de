---------------------------- MODULE UnwindingSafety ----------------------------
(***************************************************************************)
(* What a goroutine's stack must keep true, whatever its functions call,    *)
(* defer, panic with and recover.                                          *)
(***************************************************************************)
EXTENDS Unwinding, FiniteSets

\* Every variable has its type.
UnwindingTypeOK ==
  /\ stack \in Seq(Frames)
  /\ next \in Functions
  /\ panicking \in BOOLEAN
  /\ panicData \in {"nil", "object"}
  /\ base \in [words : Nat, closure : BOOLEAN]
  /\ outcome \in {"running", "terminated", "exited", "aborted", "undefined"}
  /\ calls \in 0 .. MaxCalls
  /\ panics \in 0 .. MaxPanics
  /\ registered \in 0 .. MaxDefers
  /\ started \subseteq 1 .. registered

PendingIn(f) == {f.defers[i] : i \in DOMAIN f.defers}
Pending == UNION {PendingIn(stack[k]) : k \in DOMAIN stack}

\* A deferred call is run once, and not lost with its frame: whatever was
\* registered has been started or still waits in a frame of the stack
\* (defer.rs:95-98, panic.rs:19-37), through nested panics and recoveries.
DefersConserved == Pending = 1 .. registered \ started

\* Deferred calls run last in, first out, across all frames: the one that is
\* started is the newest of those that wait.
NewestFirst ==
  [][\A d \in started' \ started : \A e \in Pending : e <= d]_vars

\* A function a panic has left never executes another statement, although its
\* frame stays on the stack while the deferred calls below it are run: user
\* code runs in a live function's frame only.
DeadNeverResume ==
  outcome = "running" /\ next = "user" =>
    stack # <<>> /\ Top.kind = "function" /\ ~Top.dead

\* While a panic is on its way, user code runs only on behalf of a deferred
\* call that panic_raise_body has started and will continue from.
PanicRunsOnlyDeferred ==
  outcome = "running" /\ panicking /\ next = "user" =>
    \E k \in DOMAIN stack : stack[k].resume = "panic_raise_body"

\* A goroutine ends, by return or by panic, only when all its deferred calls
\* have been run, and never by return while a panic is on its way.
EndsSettled ==
  /\ outcome \in {"terminated", "exited", "aborted"} => Pending = {}
  /\ outcome = "terminated" => ~panicking

\* panic_raise_body is about to look for deferred calls below the first frame.
LooksBelow ==
  outcome = "running" /\ next = "panic_raise_body" /\ Len(stack) <= 1

\* Below the first frame lies no frame but the result, which panic_raise_body takes
\* for one all the same (panic.rs:19-20).  It gets that far, in a goroutine with
\* whatever result, with a panic nobody has recovered only, when all deferred calls
\* of the goroutine have been run and the panic has left its last function; never
\* in a goroutine without a result.  So a goroutine that recovers is not exposed to
\* a misread, and where one happens nothing of the goroutine was left to do.
OnlyTheLostLookBelow ==
  LooksBelow \/ outcome = "undefined" =>
    /\ panicking
    /\ Pending = {}
    /\ base.words > 0
    /\ stack # <<>> /\ Top.kind = "function" /\ Top.dead

\* A frame leaves the stack as the runtime's own, or with the function that
\* returns, or because a panic has left its function: neither unwinding nor the
\* return after a recovery ever drops a live function, the one that goes on in
\* particular (panic.rs:48 pops the recovered function's frame unseen).
NoLiveFunctionDropped ==
  [][\A k \in DOMAIN stack : k > Len(stack') =>
       \/ stack[k].kind # "function"
       \/ stack[k].dead
       \/ k = Len(stack) /\ next = "user"]_vars

\* The functions that have still to return, or to run their deferred calls.
Unreturned == {k \in DOMAIN stack : stack[k].kind = "function" /\ ~stack[k].returning}

\* main.main is still to be entered.
MainAhead == next = "enter_main" \/ (stack # <<>> /\ stack[1].resume = "enter_main")

Count(b, n) == IF b THEN n ELSE 0

\* What the functions may still issue, and the deferred calls to be started.
Owed ==
  4 * (MaxCalls - calls) + 3 * (MaxPanics - panics)
  + 5 * (MaxDefers - registered) + 4 * (registered - Cardinality(started))

\* What the stack holds.
Held == Len(stack) + 2 * Cardinality(Unreturned)

\* How far the goroutine is.
Stage ==
  Count(MainAhead, 4) + Count(panicking, 1) + Count(next # "terminate", 1)
  + Count(outcome = "running", 1)

\* A bound on the steps a goroutine still takes.
StepsLeft == Owed + Held + Stage

\* The runtime never turns in circles: every step of a goroutine, be it in a
\* deferred call, in unwinding or after a recovery, uses up something that only
\* a call, a defer statement or a panic of its functions can add to, and none of
\* these adds as much as it uses up.  So each goroutine that issues finitely many
\* of them ends, and so does each panic (the loops of panic.rs:19-49 and
\* defer.rs:80-98 take one turn of the thread per round).
EveryStepAdvances == [][StepsLeft' \in 0 .. StepsLeft - 1]_vars

\* A panic is recovered or ends the process: unwinding always comes to an end,
\* at whatever kind of first frame, or goes astray where something that is not
\* null lies below the first one.
EveryPanicSettles ==
  panicking ~> ~panicking \/ (outcome = "undefined" /\ ~NoDefersBelow)

-----------------------------------------------------------------------------
(* The inductive invariant: every function finds the stack as it needs it,  *)
(* now and whenever a frame returns to it.                                  *)

\* The frame at k may still return to the one below: no panic has left the
\* latter, or its unwinding is what it returns to.
Open(k) == k = 1 \/ stack[k].resume = "panic_raise_body" \/ ~stack[k - 1].dead

\* The function at k can be unwound from a frame above it.
Unwindable(k) == k > 0 /\ stack[k].kind = "function" /\ Open(k)

MayRunUser(k)   == Unwindable(k) /\ ~stack[k].dead
MayExecute(k)   == stack[k].kind = "deferExecute" /\ ~stack[k].dead /\ MayRunUser(k - 1)
MayRaise(k)     == stack[k].defers = <<>> /\ Unwindable(k - 1)

\* The frame at k is ready for function f.
Ready(f, k) ==
  \/ f = "user" /\ MayRunUser(k)
  \/ f = "defer_execute" /\ MayExecute(k)
  \/ f = "panic_raise_body" /\ MayRaise(k)

FrameOK(k) ==
  /\ k = 1 => /\ stack[k].kind = "function"
              /\ stack[k].resume \in {"terminate", "enter_main"}
              /\ stack[k].resume = "enter_main" => base.words > 0
  \* Runtime frames lie on functions that can be unwound, and defer nothing.
  /\ stack[k].kind # "function" => MayRaise(k)
  /\ stack[k].kind = "deferExecute" => stack[k].resume = "user" /\ stack[k - 1].returning
  \* A function is where its callee, or the deferred call above it, returns to.
  /\ k > 1 /\ stack[k].kind # "panicRaise" =>
       /\ stack[k].resume \in {"user", "defer_execute", "panic_raise_body"}
       /\ Open(k) => Ready(stack[k].resume, k - 1)
       /\ stack[k].kind = "function" /\ stack[k].resume = "user" => ~stack[k - 1].returning
  /\ ~stack[k].uses => stack[k].defers = <<>> /\ ~stack[k].returning

StackOK == \A k \in DOMAIN stack : FrameOK(k)

\* A panic that has left the top frame, and the one below has nothing to run.
Leaving(k) ==
  /\ panicking
  /\ k > 0
  /\ stack[k].defers = <<>>
  /\ IF k = 1 THEN base.words > 0 ELSE MayRaise(k - 1)

NextOK ==
  outcome = "running" =>
    \/ Ready(next, Len(stack))
    \/ next = "panic_raise_body" /\ Leaving(Len(stack))
    \/ next \in {"terminate", "enter_main"} /\ ~panicking /\ Pending = {}

\* What a function has deferred was run when it returns.
ReturningOK == next = "user" /\ stack # <<>> /\ Top.returning => Top.defers = <<>>

\* Deferred calls wait in the order of their registration.
Sorted ==
  \A j, k \in DOMAIN stack : \A a \in DOMAIN stack[j].defers, b \in DOMAIN stack[k].defers :
    j < k \/ (j = k /\ a < b) => stack[j].defers[a] < stack[k].defers[b]

\* A panic is on its way while deferred calls run, whatever runs in them.
PanicCovered ==
  outcome = "running" /\ panicking /\ next # "panic_raise_body" =>
    \E k \in DOMAIN stack : stack[k].resume = "panic_raise_body"

\* Where panic_raise_body runs in the frame at k, or will when the frame above
\* returns, the panic has left the function it looks into, and its own.
RaisedAt(k) ==
  /\ k > 1 => stack[k - 1].dead
  /\ stack[k].kind = "function" => stack[k].dead

RaisedDead ==
  /\ outcome = "running" /\ next = "panic_raise_body" => RaisedAt(Len(stack))
  /\ \A k \in 2 .. Len(stack) : stack[k].resume = "panic_raise_body" => RaisedAt(k - 1)

\* With the word below it, the first frame goes when it returns: main.main is
\* entered at the very bottom.
MainAlone == next = "enter_main" => stack = <<>>

UnwindingInv ==
  /\ UnwindingTypeOK
  /\ StackOK
  /\ NextOK
  /\ ReturningOK
  /\ PanicCovered
  /\ Sorted
  /\ DefersConserved
  /\ EndsSettled

\* The whole of it.
StackInv ==
  /\ UnwindingInv
  /\ RaisedDead
  /\ MainAlone
=============================================================================
