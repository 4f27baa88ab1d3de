--------------------------------- MODULE Maps ---------------------------------
(***************************************************************************)
(* Maps and ranges over them: src/src/api/map.rs, src/src/object/map.rs     *)
(* and the map instructions of src/cgen/main.go.                            *)
(*                                                                         *)
(* A map is the sequence of its entries in the order the HashMap of the     *)
(* standard library would iterate over them.  That order is arbitrary, and  *)
(* what the library does to it is: insert may reorder everything (a full    *)
(* table is rehashed, even when the key turns out to be there), remove      *)
(* leaves the others where they are.  A range remembers a position only.    *)
(***************************************************************************)
EXTENDS Integers, Sequences, Functions

CONSTANTS
  Maps,          \* the maps a program may make
  Nil,           \* the null pointer
  Ranges,        \* the range statements of a program
  Keys, Values,
  Zero,          \* the zero value of an element
  Absent, NoKey, \* neither a value nor a key
  Equal(_, _),   \* equal_T of the key type, as generated
  Hash(_),       \* hash_T of the key type
  MaxEntries     \* bound: the entries of a map

ASSUME MapConstants ==
  /\ Nil \notin Maps
  /\ Zero \in Values
  /\ Absent \notin Values
  /\ NoKey \notin Keys
  /\ MaxEntries \in Nat

\* What a hash map needs of its key type: == is an equivalence, but for keys
\* that are not equal to themselves, and equal keys have one hash.
ASSUME KeyType ==
  /\ \A k, l \in Keys : Equal(k, l) \in BOOLEAN
  /\ \A k, l \in Keys : Equal(k, l) => Equal(l, k) /\ Hash(k) = Hash(l)
  /\ \A k, l, n \in Keys : Equal(k, l) /\ Equal(l, n) => Equal(k, n)

VARIABLES
  made,      \* the maps that exist
  table,     \* the entries of each
  range,     \* the iterator of each range statement
  answer,    \* what the last call stored through the pointers of its frame
  aborted    \* an assertion or unimplemented!() of the runtime was reached

vars == <<made, table, range, answer, aborted>>

(***************************************************************************)
(* Two fields are history.  met: the ranges under way that have met this    *)
(* entry.  changed: what happened to the map since the range began.         *)
(***************************************************************************)
Entry == [key : Keys, value : Values, met : SUBSET Ranges]

Iterator == [map : Maps \cup {Nil}, count : Nat, over : BOOLEAN,
             changed : {"no", "deleted", "set"}]

\* The iterator of a loop that is not under way.
Over == [map |-> Nil, count |-> 0, over |-> TRUE, changed |-> "no"]

Answer(found, key, value, length) ==
  [found |-> found, key |-> key, value |-> value, length |-> length]

Nothing == Answer(FALSE, NoKey, Zero, 0)

MapsInit ==
  /\ made = {}
  /\ table = [m \in Maps |-> <<>>]
  /\ range = [r \in Ranges |-> Over]
  /\ answer = Nothing
  /\ aborted = FALSE

-----------------------------------------------------------------------------
(* The HashMap.                                                            *)

\* Mutant of Positions: keys are compared bit by bit.
PositionsOfBits(s, k) == {n \in DOMAIN s : s[n].key = k}

\* Mutant of Positions: the hash decides.
PositionsOfHash(s, k) == {n \in DOMAIN s : Hash(s[n].key) = Hash(k)}

\* Where the key is found: hash first, then equality.
Positions(s, k) == {n \in DOMAIN s : Hash(s[n].key) = Hash(k) /\ Equal(k, s[n].key)}

Reordered(s) == {[n \in DOMAIN s |-> s[p[n]]] : p \in Bijection(DOMAIN s, DOMAIN s)}

\* insert: an equal key that is there stays, and gets the new value.
Inserted(s, k, v) ==
  IF Positions(s, k) = {}
  THEN {Append(s, [key |-> k, value |-> v, met |-> {}])}
  ELSE {[s EXCEPT ![n].value = v] : n \in Positions(s, k)}

Without(s, n) == [i \in 1 .. Len(s) - 1 |-> IF i < n THEN s[i] ELSE s[i + 1]]

\* remove
Removed(s, k) ==
  IF Positions(s, k) = {} THEN {s} ELSE {Without(s, n) : n \in Positions(s, k)}

\* Mutant of Missing: the place for the value is not zeroed.
MissingUnwritten == Answer(FALSE, NoKey, Absent, 0)

Missing == Answer(FALSE, NoKey, Zero, 0)

\* get and its result
Lookup(s, k) ==
  IF Positions(s, k) = {} THEN {Missing}
  ELSE {Answer(TRUE, NoKey, s[n].value, 0) : n \in Positions(s, k)}

-----------------------------------------------------------------------------
(* The runtime functions.  A program names nil or a map it has made.       *)

Abort == aborted' = TRUE /\ UNCHANGED <<made, table, range, answer>>

MapNew(m) ==
  /\ ~aborted
  /\ m \notin made
  /\ made' = made \cup {m}
  /\ table' = [table EXCEPT ![m] = <<>>]
  /\ answer' = Nothing
  /\ UNCHANGED <<range, aborted>>

\* History: the map of some ranges has changed.
Noted(m, what) ==
  [r \in Ranges |-> IF range[r].map = m /\ range[r].changed # "set"
                    THEN [range[r] EXCEPT !.changed = what] ELSE range[r]]

MapSet(m, k, v) ==
  /\ ~aborted
  /\ m \in made \cup {Nil}
  /\ IF m = Nil THEN Abort
     ELSE /\ \E s \in Inserted(table[m], k, v) :
               /\ Len(s) <= MaxEntries
               /\ \E t \in Reordered(s) : table' = [table EXCEPT ![m] = t]
          /\ range' = Noted(m, "set")
          /\ answer' = Nothing
          /\ UNCHANGED <<made, aborted>>

\* Mutant of MapDelete: remove gives memory back and rehashes.
MapDeleteShrinks(m, k) ==
  /\ ~aborted
  /\ m \in made \cup {Nil}
  /\ m # Nil
  /\ \E s \in Removed(table[m], k) :
       \E t \in Reordered(s) : table' = [table EXCEPT ![m] = t]
  /\ range' = Noted(m, "deleted")
  /\ answer' = Nothing
  /\ UNCHANGED <<made, aborted>>

MapDelete(m, k) ==
  /\ ~aborted
  /\ m \in made \cup {Nil}
  /\ IF m = Nil THEN UNCHANGED <<table, range>>
     ELSE /\ \E s \in Removed(table[m], k) : table' = [table EXCEPT ![m] = s]
          /\ range' = Noted(m, "deleted")
  /\ answer' = Nothing
  /\ UNCHANGED <<made, aborted>>

\* v, ok := m[k]; without the ok a missing key fails the assertion.
MapGet(m, k, commaOk) ==
  /\ ~aborted
  /\ m \in made \cup {Nil}
  /\ IF m = Nil THEN Abort
     ELSE \E a \in Lookup(table[m], k) :
            IF a.found \/ commaOk
            THEN answer' = a /\ UNCHANGED <<made, table, range, aborted>>
            ELSE Abort

MapLen(m) ==
  /\ ~aborted
  /\ m \in made \cup {Nil}
  /\ answer' = Answer(FALSE, NoKey, Zero, IF m = Nil THEN 0 ELSE Len(table[m]))
  /\ UNCHANGED <<made, table, range, aborted>>

\* History: no entry has been met by range r.
Unmarked(r) ==
  [m \in Maps |-> [n \in DOMAIN table[m] |-> [table[m][n] EXCEPT !.met = @ \ {r}]]]

\* The Range instruction: an iterator with count 0.
RangeBegin(r, m) ==
  /\ ~aborted
  /\ m \in made \cup {Nil}
  /\ range' = [range EXCEPT ![r] = [map |-> m, count |-> 0, over |-> FALSE, changed |-> "no"]]
  /\ table' = Unmarked(r)
  /\ answer' = Nothing
  /\ UNCHANGED <<made, aborted>>

\* Mutant of MapNext: the count is advanced before it is used.
MapNextLate(r) ==
  LET m == range[r].map
      n == range[r].count + 2
  IN  /\ ~aborted
      /\ ~range[r].over
      /\ m # Nil
      /\ IF n \in DOMAIN table[m]
         THEN /\ answer' = Answer(TRUE, table[m][n].key, table[m][n].value, 0)
              /\ range' = [range EXCEPT ![r].count = @ + 1]
              /\ table' = [table EXCEPT ![m][n].met = @ \cup {r}]
         ELSE /\ answer' = Nothing
              /\ range' = [range EXCEPT ![r] = Over]
              /\ table' = Unmarked(r)
      /\ UNCHANGED <<made, aborted>>

\* The Next instruction: iter().nth(count).  A loop that was told "not found"
\* does not ask again.
MapNext(r) ==
  LET m == range[r].map
      n == range[r].count + 1
  IN  /\ ~aborted
      /\ ~range[r].over
      /\ IF m = Nil THEN Abort
         ELSE /\ IF n \in DOMAIN table[m]
                 THEN /\ answer' = Answer(TRUE, table[m][n].key, table[m][n].value, 0)
                      /\ range' = [range EXCEPT ![r].count = @ + 1]
                      /\ table' = [table EXCEPT ![m][n].met = @ \cup {r}]
                 ELSE /\ answer' = Nothing
                      /\ range' = [range EXCEPT ![r] = Over]
                      /\ table' = Unmarked(r)
              /\ UNCHANGED <<made, aborted>>

-----------------------------------------------------------------------------

MapsNext ==
  \/ \E m \in Maps : MapNew(m)
  \/ \E m \in Maps \cup {Nil}, k \in Keys :
       \/ MapDelete(m, k)
       \/ \E v \in Values : MapSet(m, k, v)
       \/ \E commaOk \in BOOLEAN : MapGet(m, k, commaOk)
  \/ \E m \in Maps \cup {Nil} : MapLen(m) \/ \E r \in Ranges : RangeBegin(r, m)
  \/ \E r \in Ranges : MapNext(r)
  \/ aborted /\ UNCHANGED vars

MapsSpec == MapsInit /\ [][MapsNext]_vars

-----------------------------------------------------------------------------
(* Properties.                                                             *)

\* Every variable has its type; a result is always written before it is used.
MapsTypeOK ==
  /\ made \subseteq Maps
  /\ table \in [Maps -> Seq(Entry)]
  /\ range \in [Ranges -> Iterator]
  /\ answer \in [found : BOOLEAN, key : Keys \cup {NoKey}, value : Values, length : Nat]
  /\ aborted \in BOOLEAN

OneEntry(s) == \A n, i \in DOMAIN s : Equal(s[n].key, s[i].key) => n = i

\* No two entries of a map have equal keys, whatever was set and deleted: 0 and
\* -0 share an entry, and only NaN may occur twice.
OneEntryPerKey == \A m \in Maps : OneEntry(table[m])

UpTo(s, r, count) == \A n \in DOMAIN s : r \in s[n].met => n <= count

Exactly(s, r, count) ==
  /\ count <= Len(s)
  /\ \A n \in 1 .. count : r \in s[n].met

InPlace(r) ==
  LET it == range[r]
  IN  it.map # Nil /\ it.changed # "set" =>
        /\ UpTo(table[it.map], r, it.count)
        /\ it.changed = "no" => Exactly(table[it.map], r, it.count)

\* The position a range keeps in object/map.rs:98-99 still separates what it
\* has met from what it has not: exactly while nobody touched the map, and
\* nothing met lies past it while entries were only deleted.
RangeKeepsItsPlace == \A r \in Ranges : InPlace(r)

\* A map is made once and empty then, so the ranges over it are not disturbed.
EmptyUntilMade == \A m \in Maps \ made : table[m] = <<>>

\* Tables and the positions in them agree, whatever was set, deleted, rehashed
\* and ranged over: one entry per key, and every range still in its place.
MapsInv == MapsTypeOK /\ OneEntryPerKey /\ RangeKeepsItsPlace /\ EmptyUntilMade

\* A range that ends over a map nobody changed has met every entry
\* (xtests/map.go:85-89), and (RangeKeepsItsPlace) none twice.
QuietRangeMeetsAll ==
  [][\A r \in Ranges :
       LET it == range[r]
       IN  range'[r].over /\ ~it.over /\ it.changed = "no" =>
             \A n \in DOMAIN table[it.map] : r \in table[it.map][n].met]_vars

\* A range never meets an entry twice although the loop deletes entries, the
\* one at hand or others.  (It may skip some.)
NeverMetTwice ==
  [][\A r \in Ranges :
       LET it == range[r]
       IN  range'[r].count = it.count + 1 /\ it.changed # "set" =>
             r \notin table[it.map][it.count + 1].met]_vars

-----------------------------------------------------------------------------
(* The association a map implements.                                       *)

EntriesOf(m) == IF m = Nil THEN <<>> ELSE table[m]

EqualAt(s, k) == {n \in DOMAIN s : Equal(k, s[n].key)}

Content(s, k) ==
  IF EqualAt(s, k) = {} THEN Absent ELSE s[CHOOSE n \in EqualAt(s, k) : TRUE].value

Contents == [m \in Maps \cup {Nil} |-> [k \in Keys |-> Content(EntriesOf(m), k)]]
Sizes    == [m \in Maps \cup {Nil} |-> Len(EntriesOf(m))]

Association == INSTANCE AbstractMap WITH content <- Contents, size <- Sizes

\* Every call that returns returns what an association would: a lookup the
\* value last set for an equal key, len the number of keys, a step of a range a
\* pair that is in the map.  Equality and hash may disagree on nothing.
MapsAreAssociations == Association!AbstractSpec
=============================================================================
