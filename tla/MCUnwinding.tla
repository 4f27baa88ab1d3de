------------------------------ MODULE MCUnwinding -----------------------------
(***************************************************************************)
(* The goroutines TLC runs Unwinding with.                                  *)
(***************************************************************************)
EXTENDS UnwindingSafety

\* What lies where panic_raise_body looks below the first frame: nothing, as there
\* is no result; a null word, of the result or in place of free variables; free
\* variables; a word of the first frame.
Layouts ==
  {[words |-> 0, closure |-> FALSE], [words |-> 4, closure |-> TRUE],
   [words |-> 1, closure |-> FALSE], [words |-> 1, closure |-> TRUE],
   [words |-> 2, closure |-> FALSE]}
=============================================================================
