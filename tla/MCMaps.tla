-------------------------------- MODULE MCMaps --------------------------------
(***************************************************************************)
(* Maps with keys of a floating point type, the type whose == is least like *)
(* identity.                                                               *)
(***************************************************************************)
EXTENDS Maps

FloatKeys == {"+0", "-0", "0.5", "NaN"}

\* lhs->raw == rhs->raw
FloatEqual(k, l) ==
  \/ k = l /\ k # "NaN"
  \/ {k, l} = {"+0", "-0"}

\* (uintptr_t)obj->raw drops the sign of zero and the fraction; what it makes
\* of NaN is undefined, and does not matter to a key that equals none.
FloatHash(k) == IF k = "NaN" THEN 9 ELSE 0
=============================================================================
