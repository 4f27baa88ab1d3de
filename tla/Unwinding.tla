------------------------------- MODULE Unwinding ------------------------------
(***************************************************************************)
(* The stack of one goroutine: calls, deferred calls, panics and recovery   *)
(* (src/src/api/defer.rs, panic.rs, defer_stack.rs, light_weight_thread.rs  *)
(* and the generated code around them).  Goroutines share nothing of this,  *)
(* so one is enough.                                                       *)
(*                                                                         *)
(* A frame is named by its place in the stack, and the frame before it is   *)
(* its prev_stack_pointer: every frame is pushed right above the one that   *)
(* calls.  Deferred calls are numbered in the order of their registration.  *)
(***************************************************************************)
EXTENDS Integers, Sequences

CONSTANTS
  Spawned,     \* how `go` starts a goroutine: words of result, closure or not
  MaxCalls,    \* bound: functions called by functions
  MaxDefers,   \* bound: deferred calls registered
  MaxPanics    \* bound: panics raised

ASSUME UnwindingConstants ==
  /\ Spawned \subseteq [words : Nat, closure : BOOLEAN]
  /\ MaxCalls \in Nat
  /\ MaxDefers \in Nat
  /\ MaxPanics \in Nat

VARIABLES
  stack,       \* the frames, bottom first
  next,        \* current_func: what the thread runs next, in the top frame
  panicking,   \* the flag of control_flags
  panicData,   \* the value of the last panic
  base,        \* what lies below the first frame
  outcome,     \* how the goroutine, or the process, has ended
  calls,       \* calls made so far
  panics,      \* panics raised so far
  registered,  \* deferred calls registered so far
  started      \* those that have been started

vars == <<stack, next, panicking, panicData, base, outcome,
          calls, panics, registered, started>>

Functions == {"user", "panic_raise_body", "defer_execute", "terminate", "enter_main"}

\* uses: the function has defer statements.  dead (history): a panic has left
\* this activation, or a function it called.
Frame(kind, resume, uses) ==
  [kind |-> kind, resume |-> resume, uses |-> uses,
   returning |-> FALSE, dead |-> FALSE, defers |-> <<>>]

FunctionFrame(resume, uses) == Frame("function", resume, uses)
DeferExecuteFrame == Frame("deferExecute", "user", FALSE)
PanicRaiseFrame   == Frame("panicRaise", "NULL", FALSE)

Frames ==
  [kind : {"function", "deferExecute", "panicRaise"}, resume : Functions \cup {"NULL"},
   uses : BOOLEAN, returning : BOOLEAN, dead : BOOLEAN, defers : Seq(1 .. MaxDefers)]

Top == stack[Len(stack)]

-----------------------------------------------------------------------------
(* The bottom of the stack.  `main` and `spawn` push the first frame above  *)
(* the words of its result, with a prev_stack_pointer to the result; without *)
(* a result the first frame is its own predecessor.                         *)

\* The place of the frame before the top of s: 0 is where the result lies.
Prev(s) == IF Len(s) = 1 /\ base.words = 0 THEN 1 ELSE Len(s) - 1

\* The stack pop_frame leaves; it returns the resume function of the top.
Popped(s) == SubSeq(s, 1, Prev(s))

\* Mutant of IsStackEmpty: the first frame is never at the bottom.
IsStackEmptyAboveResult(s) == s = <<>>

IsStackEmpty(s) == Len(s) = IF base.words = 0 THEN 1 ELSE 0

\* Where a frame has its defer stack, in its fourth word, this finds a word of
\* the result or of the first frame, whose words are the resume function, the
\* predecessor and the free variables.  Only the result and, without a
\* closure, the free variables are zero.
NoDefersBelow == base.words >= 4 \/ (base.words = 1 /\ ~base.closure)

\* main() reserves a word although the init function has no result.
MainBase == [words |-> 1, closure |-> FALSE]

Start(b, resume, uses) ==
  /\ stack = <<FunctionFrame(resume, uses)>>
  /\ base = b

UnwindingInit ==
  /\ \/ Start(MainBase, "enter_main", FALSE)
     \/ \E b \in Spawned, uses \in BOOLEAN : Start(b, "terminate", uses)
  /\ next = "user"
  /\ panicking = FALSE
  /\ panicData = "nil"
  /\ outcome = "running"
  /\ calls = 0 /\ panics = 0 /\ registered = 0 /\ started = {}

\* The init function has returned: main.main starts at the very bottom.
EnterMain ==
  /\ next = "enter_main"
  /\ \E uses \in BOOLEAN : stack' = <<FunctionFrame("terminate", uses)>>
  /\ base' = [words |-> 0, closure |-> FALSE]
  /\ next' = "user"
  /\ UNCHANGED <<panicking, panicData, outcome, calls, panics, registered, started>>

Terminate ==
  /\ next = "terminate"
  /\ outcome' = "terminated"
  /\ UNCHANGED <<stack, next, panicking, panicData, base,
                 calls, panics, registered, started>>

-----------------------------------------------------------------------------
(* Generated code.                                                         *)

\* The statement the goroutine has reached may be anything but a return.
InBody == next = "user" /\ ~Top.returning

Call(uses) ==
  /\ InBody
  /\ calls < MaxCalls
  /\ calls' = calls + 1
  /\ stack' = Append(stack, FunctionFrame("user", uses))
  /\ UNCHANGED <<next, panicking, panicData, base, outcome, panics, registered, started>>

\* gox5_defer_register; its own frame comes and goes.
Defer ==
  /\ InBody
  /\ Top.uses
  /\ registered < MaxDefers
  /\ registered' = registered + 1
  /\ stack' = [stack EXCEPT ![Len(stack)].defers = Append(@, registered + 1)]
  /\ UNCHANGED <<next, panicking, panicData, base, outcome, calls, panics, started>>

RunDefers ==
  /\ InBody
  /\ Top.uses
  /\ stack' = Append([stack EXCEPT ![Len(stack)].returning = TRUE], DeferExecuteFrame)
  /\ next' = "defer_execute"
  /\ UNCHANGED <<panicking, panicData, base, outcome, calls, panics, registered, started>>

\* Mutant of MayReturn: deferred calls are not run first.
MayReturnAnyway(f) == TRUE

\* A function with defer statements runs its deferred calls before it returns.
MayReturn(f) == f.uses => f.returning

Return ==
  /\ next = "user"
  /\ MayReturn(Top)
  /\ stack' = Popped(stack)
  /\ next' = Top.resume
  /\ UNCHANGED <<panicking, panicData, base, outcome, calls, panics, registered, started>>

\* gox5_panic_raise
Panic(data) ==
  /\ InBody
  /\ panics < MaxPanics
  /\ panics' = panics + 1
  /\ panicking' = TRUE
  /\ panicData' = data
  /\ stack' = Append([stack EXCEPT ![Len(stack)].dead = TRUE], PanicRaiseFrame)
  /\ next' = "panic_raise_body"
  /\ UNCHANGED <<base, outcome, calls, registered, started>>

\* gox5_panic_recover, called from anywhere.  When no panic is on its way it
\* returns nil and nothing changes.
Recover ==
  /\ InBody
  /\ panicking
  /\ panicking' = FALSE
  /\ UNCHANGED <<stack, next, panicData, base, outcome,
                 calls, panics, registered, started>>

-----------------------------------------------------------------------------
(* Deferred calls.                                                         *)

\* Mutant of Pop: first in, first out.
PopOldest(defers) == [entry |-> Head(defers), rest |-> Tail(defers)]

\* Mutant of Pop: the entry stays on the stack.
PopKeeping(defers) == [entry |-> defers[Len(defers)], rest |-> defers]

\* DeferStack::pop: the entry it takes, and what it leaves.
Pop(defers) ==
  [entry |-> defers[Len(defers)], rest |-> SubSeq(defers, 1, Len(defers) - 1)]

\* Mutant of Deferred: it takes the place of its caller's continuation.
DeferredForUser(resume, uses) == FunctionFrame("user", uses)

\* The frame of a deferred call; the top frame goes on with resume after it.
Deferred(resume, uses) == FunctionFrame(resume, uses)

\* Take a deferred call from the frame at k and run it above the top frame.
RunDeferred(k, resume) ==
  LET popped == Pop(stack[k].defers)
  IN  /\ started' = started \cup {popped.entry}
      /\ \E uses \in BOOLEAN :
           stack' = Append([stack EXCEPT ![k].defers = popped.rest],
                           Deferred(resume, uses))
      /\ next' = "user"
      /\ UNCHANGED <<panicking, panicData, base, outcome, calls, panics, registered>>

\* gox5_defer_execute
DeferExecute ==
  /\ next = "defer_execute"
  /\ LET k == Prev(stack)
     IN  IF stack[k].defers # <<>>
         THEN RunDeferred(k, "defer_execute")
         ELSE /\ stack' = Popped(stack)
              /\ next' = Top.resume
              /\ UNCHANGED <<panicking, panicData, base, outcome,
                             calls, panics, registered, started>>

-----------------------------------------------------------------------------
(* panic_raise_body: it runs in the frame of a panic and then, as long as   *)
(* nobody recovers, in those below it.                                      *)

\* panic_print asserts that the value is nil; then exit(1).
Crash ==
  /\ panicking' = FALSE
  /\ outcome' = IF panicData = "nil" THEN "exited" ELSE "aborted"

\* The panic leaves the top frame of s for the one below.
Left(s) ==
  [i \in DOMAIN s |-> IF i = Len(s) - 1 THEN [s[i] EXCEPT !.dead = TRUE] ELSE s[i]]

\* Mutant of Settle: recovery resumes the function whose deferred call recovers.
SettleInPlace(below) ==
  IF panicking /\ IsStackEmpty(below)
  THEN Crash /\ UNCHANGED <<stack, next>>
  ELSE /\ stack' = IF panicking THEN Left(below) ELSE below
       /\ next' = IF panicking THEN next ELSE "user"
       /\ UNCHANGED <<panicking, outcome>>

\* Mutant of Settle: after a recovery the resume function of a panic is used.
SettleFromTop(below) ==
  IF panicking /\ IsStackEmpty(below)
  THEN Crash /\ UNCHANGED <<stack, next>>
  ELSE /\ stack' = IF panicking THEN Left(below) ELSE Popped(below)
       /\ next' = IF panicking THEN next ELSE Top.resume
       /\ UNCHANGED <<panicking, outcome>>

\* Mutant of Settle: the process exits when one function has no deferred call left.
SettleAtOnce(below) ==
  IF panicking
  THEN Crash /\ UNCHANGED <<stack, next>>
  ELSE /\ stack' = Popped(below)
       /\ next' = below[Len(below)].resume
       /\ UNCHANGED <<panicking, outcome>>

\* Mutant of Settle: a recovery pops one frame too many.
SettlePopsTwice(below) ==
  IF panicking /\ IsStackEmpty(below)
  THEN Crash /\ UNCHANGED <<stack, next>>
  ELSE /\ stack' = IF panicking THEN Left(below) ELSE Popped(Popped(below))
       /\ next' = IF panicking THEN next ELSE below[Len(below)].resume
       /\ UNCHANGED <<panicking, outcome>>

\* Mutant of Settle: after a recovery the functions below are unwound like after none.
SettleUnwindsOn(below) ==
  IF panicking /\ IsStackEmpty(below)
  THEN Crash /\ UNCHANGED <<stack, next>>
  ELSE stack' = Left(below) /\ UNCHANGED <<next, panicking, outcome>>

\* No deferred call is left in the frame on top of below.  Without a recovery
\* the panic leaves that frame too, or ends the process; with one, the function
\* the frame belongs to returns to its caller.
Settle(below) ==
  IF panicking
  THEN IF IsStackEmpty(below)
       THEN Crash /\ UNCHANGED <<stack, next>>
       ELSE stack' = Left(below) /\ UNCHANGED <<next, panicking, outcome>>
  ELSE /\ stack' = Popped(below)
       /\ next' = below[Len(below)].resume
       /\ UNCHANGED <<panicking, outcome>>

PanicRaiseBody ==
  /\ next = "panic_raise_body"
  /\ LET k == Prev(stack)
     IN  IF IF k = 0 THEN NoDefersBelow ELSE stack[k].defers = <<>>
         THEN /\ Settle(Popped(stack))
              /\ UNCHANGED <<panicData, base, calls, panics, registered, started>>
         ELSE IF k # 0 THEN RunDeferred(k, "panic_raise_body")
         ELSE \* What lies there is taken for an entry.
              /\ outcome' = "undefined"
              /\ UNCHANGED <<stack, next, panicking, panicData, base,
                             calls, panics, registered, started>>

-----------------------------------------------------------------------------

Running ==
  \/ EnterMain
  \/ Terminate
  \/ \E uses \in BOOLEAN : Call(uses)
  \/ Defer
  \/ RunDefers
  \/ Return
  \/ \E data \in {"nil", "object"} : Panic(data)
  \/ Recover
  \/ DeferExecute
  \/ PanicRaiseBody

UnwindingNext ==
  \/ outcome = "running" /\ Running
  \/ outcome # "running" /\ UNCHANGED vars

UnwindingSpec == UnwindingInit /\ [][UnwindingNext]_vars

\* The thread runs on; in particular, user code gets to its next call or return.
FairUnwinding == UnwindingSpec /\ WF_vars(UnwindingNext)

=============================================================================
