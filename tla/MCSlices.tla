------------------------------- MODULE MCSlices -------------------------------
(***************************************************************************)
(* The literals TLC runs Slices with.                                       *)
(***************************************************************************)
EXTENDS Slices

\* Nothing, or one element.
SmallLiterals == {<<>>, <<1>>}
=============================================================================
