----------------------------- MODULE AbstractMap ------------------------------
(***************************************************************************)
(* What maps promise: each is an association.  Looking up a key finds what  *)
(* was last set for an equal key and not deleted since.  A key that is not  *)
(* even equal to itself (NaN) is counted and ranged over, never found.      *)
(***************************************************************************)
EXTENDS Integers

CONSTANTS
  Maps, Keys, Values,
  Nil,           \* the map that was never made
  Zero,          \* the zero value of an element
  Absent,        \* stands for "no value"
  NoKey,         \* stands for "no key"
  Equal(_, _)    \* the == of the key type

VARIABLES
  content,   \* for each map and key, what looking the key up finds
  size,      \* for each map, its number of entries
  answer     \* what the last call returned

abstractVars == <<content, size, answer>>

Answer(found, key, value, length) ==
  [found |-> found, key |-> key, value |-> value, length |-> length]

Nothing == Answer(FALSE, NoKey, Zero, 0)

AbstractInit ==
  /\ content = [m \in Maps \cup {Nil} |-> [k \in Keys |-> Absent]]
  /\ size = [m \in Maps \cup {Nil} |-> 0]
  /\ answer = Nothing

\* Every key equal to k now finds v.
Associate(m, k, v) ==
  content' = [content EXCEPT ![m] =
                [l \in Keys |-> IF Equal(k, l) THEN v ELSE content[m][l]]]

Set(m, k, v) ==
  /\ answer' = Nothing
  /\ size' = [size EXCEPT ![m] = IF content[m][k] = Absent THEN @ + 1 ELSE @]
  /\ Associate(m, k, v)

Delete(m, k) ==
  /\ answer' = Nothing
  /\ size' = [size EXCEPT ![m] = IF content[m][k] = Absent THEN @ ELSE @ - 1]
  /\ Associate(m, k, Absent)

Get(m, k) ==
  /\ answer' = IF content[m][k] = Absent THEN Nothing
               ELSE Answer(TRUE, NoKey, content[m][k], 0)
  /\ UNCHANGED <<content, size>>

Length(m) ==
  /\ answer' = Answer(FALSE, NoKey, Zero, size[m])
  /\ UNCHANGED <<content, size>>

\* A step of a range yields an entry of the map, or ends.
Step(m) ==
  /\ \/ \E k \in Keys, v \in Values :
          /\ answer' = Answer(TRUE, k, v, 0)
          /\ Equal(k, k) => content[m][k] = v
     \/ answer' = Nothing
  /\ UNCHANGED <<content, size>>

\* Making a map, beginning a range, and delete on the nil map.
Silent == answer' = Nothing /\ UNCHANGED <<content, size>>

AbstractNext ==
  \/ Silent
  \/ \E m \in Maps, k \in Keys :
       Delete(m, k) \/ \E v \in Values : Set(m, k, v)
  \/ \E m \in Maps \cup {Nil} :
       Length(m) \/ Step(m) \/ \E k \in Keys : Get(m, k)

AbstractSpec == AbstractInit /\ [][AbstractNext]_abstractVars
=============================================================================
