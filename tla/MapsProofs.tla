------------------------------ MODULE MapsProofs ------------------------------
(***************************************************************************)
(* Maps of any size, over any key type whose equal keys have equal hashes,  *)
(* ranged over by any number of loops.                                      *)
(***************************************************************************)
EXTENDS Maps, TLAPS

-----------------------------------------------------------------------------
(* The HashMap.                                                            *)

\* Reordering keeps entries, and keeps them apart.
LEMMA ReorderedSound ==
  ASSUME NEW s \in Seq(Entry), OneEntry(s), NEW t \in Reordered(s)
  PROVE  t \in Seq(Entry) /\ OneEntry(t)
<1>1. PICK p \in Bijection(DOMAIN s, DOMAIN s) : t = [n \in DOMAIN s |-> s[p[n]]]
  BY DEF Reordered
<1>2. /\ p \in [DOMAIN s -> DOMAIN s]
      /\ \A n, i \in DOMAIN s : p[n] = p[i] => n = i
  BY <1>1 DEF Bijection, Injection, IsInjective
<1>3. DOMAIN s = 1 .. Len(s) /\ Len(s) \in Nat /\ \A n \in DOMAIN s : s[n] \in Entry
  OBVIOUS
<1>4. t \in [1 .. Len(s) -> Entry]
  BY <1>1, <1>2, <1>3
<1>5. t \in Seq(Entry)
  BY <1>3, <1>4
<1>6. OneEntry(t)
  BY <1>1, <1>2 DEF OneEntry
<1> QED BY <1>5, <1>6

\* An insertion makes no second entry for a key.
LEMMA InsertedSound ==
  ASSUME NEW s \in Seq(Entry), OneEntry(s), NEW k \in Keys, NEW v \in Values,
         NEW t \in Inserted(s, k, v)
  PROVE  t \in Seq(Entry) /\ OneEntry(t)
<1>0. \A n \in DOMAIN s : s[n] \in Entry
  OBVIOUS
<1>1. CASE Positions(s, k) = {}
  <2> DEFINE e == [key |-> k, value |-> v, met |-> {}]
  <2>1. t = Append(s, e) /\ e \in Entry
    BY <1>1 DEF Inserted, Entry
  <2>a. /\ t \in Seq(Entry) /\ DOMAIN t = DOMAIN s \cup {Len(s) + 1}
        /\ \A n \in DOMAIN s : t[n] = s[n]
        /\ t[Len(s) + 1] = e
    <3> HIDE DEF e
    <3> QED BY <2>1
  <2>2. /\ t \in Seq(Entry) /\ DOMAIN t = DOMAIN s \cup {Len(s) + 1}
        /\ \A n \in DOMAIN s : t[n] = s[n] /\ s[n].key \in Keys
        /\ t[Len(s) + 1].key = k
    BY <1>0, <2>a DEF Entry
  <2>3. \A n \in DOMAIN s : ~Equal(k, s[n].key) /\ ~Equal(s[n].key, k)
    BY <1>1, <2>2, KeyType DEF Positions
  <2>4. ASSUME NEW n \in DOMAIN t, NEW i \in DOMAIN t, Equal(t[n].key, t[i].key)
        PROVE  n = i
    <3>1. CASE n \in DOMAIN s /\ i \in DOMAIN s
      BY <2>2, <2>4, <3>1 DEF OneEntry
    <3>2. CASE n = Len(s) + 1 /\ i = Len(s) + 1
      BY <3>2
    <3> QED BY <2>2, <2>3, <2>4, <3>1, <3>2
  <2> QED BY <2>2, <2>4 DEF OneEntry
<1>2. CASE Positions(s, k) # {}
  <2>1. PICK i \in Positions(s, k) : t = [s EXCEPT ![i].value = v]
    BY <1>2 DEF Inserted
  <2>2. i \in DOMAIN s /\ [s[i] EXCEPT !.value = v] \in Entry
    <3>1. i \in DOMAIN s /\ s[i] \in Entry
      BY <1>0, <2>1 DEF Positions
    <3> QED BY <3>1 DEF Entry
  <2>3. t \in Seq(Entry) /\ DOMAIN t = DOMAIN s
    BY <2>1, <2>2
  <2>4. \A n \in DOMAIN s : t[n].key = s[n].key
    BY <2>1, <2>2 DEF Entry
  <2> QED BY <2>3, <2>4 DEF OneEntry
<1> QED BY <1>1, <1>2

\* What is left after one entry was taken out.
LEMMA WithoutSound ==
  ASSUME NEW s \in Seq(Entry), NEW n \in DOMAIN s
  PROVE  /\ Without(s, n) \in Seq(Entry)
         /\ DOMAIN Without(s, n) = 1 .. Len(s) - 1
         /\ Len(s) \in Nat
         /\ \A i \in 1 .. Len(s) - 1 :
              Without(s, n)[i] = IF i < n THEN s[i] ELSE s[i + 1]
<1>1. Len(s) \in Nat /\ DOMAIN s = 1 .. Len(s) /\ \A i \in DOMAIN s : s[i] \in Entry
  OBVIOUS
<1>2. Without(s, n) \in [1 .. Len(s) - 1 -> Entry]
  BY <1>1 DEF Without
<1>3. Len(s) - 1 \in Nat
  BY <1>1
<1> QED BY <1>1, <1>2, <1>3 DEF Without

\* A removal keeps the order, so nothing met moves past a position.
LEMMA RemovedSound ==
  ASSUME NEW s \in Seq(Entry), OneEntry(s), NEW k \in Keys, NEW t \in Removed(s, k)
  PROVE  /\ t \in Seq(Entry) /\ OneEntry(t)
         /\ \A r \in Ranges, c \in Nat : UpTo(s, r, c) => UpTo(t, r, c)
<1>1. CASE Positions(s, k) = {}
  BY <1>1 DEF Removed
<1>2. CASE Positions(s, k) # {}
  <2>1. PICK n \in Positions(s, k) : t = Without(s, n)
    BY <1>2 DEF Removed
  <2>2. n \in DOMAIN s
    BY DEF Positions
  <2>3. /\ t \in Seq(Entry) /\ DOMAIN t = 1 .. Len(s) - 1 /\ Len(s) \in Nat
        /\ \A i \in DOMAIN t : t[i] = IF i < n THEN s[i] ELSE s[i + 1]
    BY <2>1, <2>2, WithoutSound
  <2>4. /\ DOMAIN s = 1 .. Len(s)
        /\ \A i \in DOMAIN t : i \in DOMAIN s /\ i + 1 \in DOMAIN s /\ i \in Nat
    BY <2>3
  <2>5. OneEntry(t)
    BY <2>2, <2>3, <2>4 DEF OneEntry
  <2>6. ASSUME NEW r \in Ranges, NEW c \in Nat, UpTo(s, r, c) PROVE UpTo(t, r, c)
    BY <2>2, <2>3, <2>4, <2>6 DEF UpTo
  <2> QED BY <2>3, <2>5, <2>6
<1> QED BY <1>1, <1>2
-----------------------------------------------------------------------------
(* The inductive invariant.                                                *)

\* A new table of one map that is well formed.
LEMMA TableUpdate ==
  ASSUME MapsTypeOK, OneEntryPerKey, NEW m \in Maps, NEW s,
         s \in Seq(Entry), OneEntry(s), table' = [table EXCEPT ![m] = s]
  PROVE  table' \in [Maps -> Seq(Entry)] /\ OneEntryPerKey'
BY DEF MapsTypeOK, OneEntryPerKey

\* Marks do not matter to keys.
LEMMA UnmarkedSound ==
  ASSUME MapsTypeOK, OneEntryPerKey, NEW r \in Ranges, table' = Unmarked(r)
  PROVE  /\ table' \in [Maps -> Seq(Entry)]
         /\ OneEntryPerKey'
         /\ \A m \in Maps : /\ Len(table'[m]) = Len(table[m])
                            /\ DOMAIN table'[m] = DOMAIN table[m]
                            /\ \A n \in DOMAIN table[m] :
                                 table'[m][n].met = table[m][n].met \ {r}
<1>1. ASSUME NEW m \in Maps
      PROVE  /\ table'[m] \in Seq(Entry)
             /\ Len(table'[m]) = Len(table[m])
             /\ DOMAIN table'[m] = DOMAIN table[m]
             /\ \A n \in DOMAIN table[m] :
                  /\ table'[m][n].met = table[m][n].met \ {r}
                  /\ table'[m][n].key = table[m][n].key
  <2>1. table[m] \in Seq(Entry) /\ Len(table[m]) \in Nat
    BY DEF MapsTypeOK
  <2>2. DOMAIN table[m] = 1 .. Len(table[m]) /\ \A n \in DOMAIN table[m] : table[m][n] \in Entry
    BY <2>1
  <2>3. table'[m] = [n \in DOMAIN table[m] |-> [table[m][n] EXCEPT !.met = @ \ {r}]]
    BY DEF Unmarked
  <2>4. \A n \in DOMAIN table[m] :
          /\ [table[m][n] EXCEPT !.met = @ \ {r}] \in Entry
          /\ [table[m][n] EXCEPT !.met = @ \ {r}].met = table[m][n].met \ {r}
          /\ [table[m][n] EXCEPT !.met = @ \ {r}].key = table[m][n].key
    BY <2>2 DEF Entry
  <2>5. table'[m] \in [1 .. Len(table[m]) -> Entry]
    BY <2>2, <2>3, <2>4
  <2>6. table'[m] \in Seq(Entry) /\ Len(table'[m]) = Len(table[m])
    BY <2>1, <2>5
  <2> QED BY <2>2, <2>3, <2>4, <2>6
<1>2. table' \in [Maps -> Seq(Entry)]
  BY <1>1 DEF Unmarked
<1>3. OneEntryPerKey'
  BY <1>1 DEF OneEntryPerKey, OneEntry
<1> QED BY <1>1, <1>2, <1>3

LEMMA UnmarkedKeepsEmpty ==
  ASSUME MapsInv, NEW r \in Ranges, table' = Unmarked(r), made' = made
  PROVE  EmptyUntilMade'
<1>1. ASSUME NEW m \in Maps \ made PROVE table'[m] = <<>>
  <2>1. table' \in [Maps -> Seq(Entry)] /\ Len(table'[m]) = Len(table[m])
    BY UnmarkedSound DEF MapsInv
  <2>2. Len(table[m]) = 0
    BY DEF MapsInv, EmptyUntilMade
  <2> QED BY <2>1, <2>2
<1> QED BY <1>1 DEF EmptyUntilMade

\* A range that began before another was (re)started or ended keeps its place.
LEMMA OthersInPlace ==
  ASSUME MapsInv, NEW r \in Ranges, NEW q \in Ranges \ {r},
         table' = Unmarked(r), range'[q] = range[q]
  PROVE  InPlace(q)'
<1>1. CASE range[q].map = Nil
  BY <1>1 DEF InPlace
<1>2. CASE range[q].map # Nil
  <2>1. range[q].map \in Maps /\ InPlace(q)
    BY <1>2 DEF MapsInv, MapsTypeOK, Iterator, RangeKeepsItsPlace
  <2>2. /\ Len(table'[range[q].map]) = Len(table[range[q].map])
        /\ DOMAIN table'[range[q].map] = DOMAIN table[range[q].map]
        /\ \A n \in DOMAIN table[range[q].map] :
             table'[range[q].map][n].met = table[range[q].map][n].met \ {r}
    BY <2>1, UnmarkedSound DEF MapsInv
  <2>3. table[range[q].map] \in Seq(Entry)
    BY <2>1 DEF MapsInv, MapsTypeOK
  <2>4. /\ range[q].count \in Nat
        /\ DOMAIN table[range[q].map] = 1 .. Len(table[range[q].map])
    BY <2>3 DEF MapsInv, MapsTypeOK, Iterator
  <2> QED BY <2>1, <2>2, <2>4 DEF InPlace, UpTo, Exactly
<1> QED BY <1>1, <1>2

LEMMA NothingIsAnswer ==
  Nothing \in [found : BOOLEAN, key : Keys \cup {NoKey}, value : Values, length : Nat]
BY MapConstants DEF Nothing, Answer

LEMMA InitHolds == ASSUME MapsInit PROVE MapsInv
<1>1. Over \in Iterator /\ Over.map = Nil
  BY DEF Over, Iterator
<1>2. <<>> \in Seq(Entry) /\ OneEntry(<<>>)
  BY DEF OneEntry
<1>3. MapsTypeOK
  BY <1>1, <1>2, NothingIsAnswer DEF MapsInit, MapsTypeOK
<1>4. OneEntryPerKey
  BY <1>2 DEF MapsInit, OneEntryPerKey
<1>5. RangeKeepsItsPlace
  BY <1>1 DEF MapsInit, RangeKeepsItsPlace, InPlace
<1> QED BY <1>3, <1>4, <1>5 DEF MapsInit, MapsInv, EmptyUntilMade

\* Ranges and tables as they were.
LEMMA NothingMoves ==
  ASSUME MapsInv, UNCHANGED <<table, range>>
  PROVE  OneEntryPerKey' /\ RangeKeepsItsPlace'
BY DEF MapsInv, OneEntryPerKey, RangeKeepsItsPlace, InPlace

LEMMA StaysUnmoved ==
  ASSUME MapsInv, UNCHANGED <<table, range>>, made' \subseteq Maps, made \subseteq made', aborted' \in BOOLEAN,
         answer' \in [found : BOOLEAN, key : Keys \cup {NoKey}, value : Values, length : Nat]
  PROVE  MapsInv'
BY NothingMoves DEF MapsInv, MapsTypeOK, EmptyUntilMade

\* A change of one map: its own ranges keep their place or are noted, the
\* others are not concerned.
LEMMA ChangeOfOneMap ==
  ASSUME MapsInv, NEW m \in made, NEW what \in {"deleted", "set"}, NEW s,
         s \in Seq(Entry), OneEntry(s),
         table' = [table EXCEPT ![m] = s], range' = Noted(m, what),
         answer' = Nothing, UNCHANGED <<made, aborted>>,
         what = "deleted" =>
           \A r \in Ranges, c \in Nat : UpTo(table[m], r, c) => UpTo(s, r, c)
  PROVE  MapsInv'
<1>0. m \in Maps
  BY DEF MapsInv, MapsTypeOK
<1>1. table' \in [Maps -> Seq(Entry)] /\ OneEntryPerKey'
  BY <1>0, TableUpdate DEF MapsInv
<1>2. \A r \in Ranges :
        /\ range[r] \in Iterator
        /\ range'[r] = IF range[r].map = m /\ range[r].changed # "set"
                      THEN [range[r] EXCEPT !.changed = what] ELSE range[r]
  BY DEF Noted, MapsInv, MapsTypeOK
<1>3. range' \in [Ranges -> Iterator]
  <2>1. \A r \in Ranges : range'[r] \in Iterator
    BY <1>2 DEF Iterator
  <2> QED BY <2>1 DEF Noted
<1>4. ASSUME NEW r \in Ranges PROVE InPlace(r)'
  <2>1. InPlace(r) /\ table \in [Maps -> Seq(Entry)]
    BY DEF MapsInv, MapsTypeOK, RangeKeepsItsPlace
  <2>2. CASE range[r].map = m
    <3>1. /\ range'[r].map = m /\ range'[r].count = range[r].count
          /\ range'[r].changed = IF range[r].changed = "set" THEN "set" ELSE what
          /\ range[r].count \in Nat
      BY <1>2, <2>2 DEF Iterator
    <3>2. table'[m] = s /\ m # Nil
      BY <1>0, <2>1, MapConstants
    <3>3. ASSUME range[r].changed # "set", what = "deleted"
          PROVE  UpTo(s, r, range[r].count)
      BY <2>1, <2>2, <3>1, <3>2, <3>3 DEF InPlace
    <3> QED BY <3>1, <3>2, <3>3 DEF InPlace
  <2>3. CASE range[r].map # m
    <3>1. range'[r] = range[r]
      BY <1>2, <2>3
    <3>2. range[r].map # Nil => table'[range[r].map] = table[range[r].map]
      BY <2>1, <2>3, <1>2 DEF Iterator
    <3> QED BY <2>1, <3>1, <3>2 DEF InPlace
  <2> QED BY <2>2, <2>3
<1>5. EmptyUntilMade'
  BY DEF MapsInv, MapsTypeOK, EmptyUntilMade
<1> QED BY <1>1, <1>3, <1>4, <1>5, NothingIsAnswer
        DEF MapsInv, MapsTypeOK, RangeKeepsItsPlace

LEMMA SetStep ==
  ASSUME MapsInv, NEW m \in Maps, NEW k \in Keys, NEW v \in Values, MapSet(m, k, v)
  PROVE  MapsInv'
<1>0. m # Nil
  BY MapConstants
<1>1. PICK s \in Inserted(table[m], k, v) :
        \E t \in Reordered(s) : table' = [table EXCEPT ![m] = t]
  BY <1>0 DEF MapSet
<1>2. table[m] \in Seq(Entry) /\ OneEntry(table[m])
  BY DEF MapsInv, MapsTypeOK, OneEntryPerKey
<1>3. s \in Seq(Entry) /\ OneEntry(s)
  BY <1>2, InsertedSound
<1>6. PICK t \in Reordered(s) : table' = [table EXCEPT ![m] = t]
  BY <1>1
<1>4. t \in Seq(Entry) /\ OneEntry(t)
  BY <1>3, ReorderedSound
<1>5. m \in made /\ range' = Noted(m, "set") /\ answer' = Nothing /\ UNCHANGED <<made, aborted>>
  BY MapConstants DEF MapSet
<1> QED BY <1>6, <1>4, <1>5, ChangeOfOneMap

LEMMA DeleteStep ==
  ASSUME MapsInv, NEW m \in Maps, NEW k \in Keys, MapDelete(m, k)
  PROVE  MapsInv'
<1>0. m # Nil
  BY MapConstants
<1>1. PICK s \in Removed(table[m], k) : table' = [table EXCEPT ![m] = s]
  BY <1>0 DEF MapDelete
<1>2. table[m] \in Seq(Entry) /\ OneEntry(table[m])
  BY DEF MapsInv, MapsTypeOK, OneEntryPerKey
<1>3. /\ s \in Seq(Entry) /\ OneEntry(s)
      /\ \A r \in Ranges, c \in Nat : UpTo(table[m], r, c) => UpTo(s, r, c)
  BY <1>2, RemovedSound
<1>4. m \in made /\ range' = Noted(m, "deleted") /\ answer' = Nothing /\ UNCHANGED <<made, aborted>>
  BY <1>0 DEF MapDelete
<1> QED BY <1>1, <1>3, <1>4, ChangeOfOneMap

LEMMA GetStep ==
  ASSUME MapsInv, NEW m \in Maps, NEW k \in Keys, NEW commaOk \in BOOLEAN,
         MapGet(m, k, commaOk)
  PROVE  MapsInv'
<1>1. PICK a \in Lookup(table[m], k) :
        \/ answer' = a /\ UNCHANGED <<made, table, range, aborted>>
        \/ Abort
  BY MapConstants DEF MapGet
<1>2. \A n \in DOMAIN table[m] : table[m][n] \in Entry
  BY DEF MapsInv, MapsTypeOK
<1>3. a \in [found : BOOLEAN, key : Keys \cup {NoKey}, value : Values, length : Nat]
  <2>1. CASE a = Missing
    BY <2>1, MapConstants DEF Missing, Answer
  <2>2. CASE \E n \in Positions(table[m], k) : a = Answer(TRUE, NoKey, table[m][n].value, 0)
    <3>1. PICK n \in DOMAIN table[m] : a = Answer(TRUE, NoKey, table[m][n].value, 0)
      BY <2>2 DEF Positions
    <3>2. table[m][n].value \in Values
      BY <1>2 DEF Entry
    <3> QED BY <3>1, <3>2 DEF Answer
  <2> QED BY <2>1, <2>2 DEF Lookup
<1>4. CASE answer' = a /\ UNCHANGED <<made, table, range, aborted>>
  BY <1>3, <1>4, StaysUnmoved DEF MapsInv, MapsTypeOK
<1>5. CASE Abort
  BY <1>5, StaysUnmoved DEF MapsInv, MapsTypeOK, Abort
<1> QED BY <1>1, <1>4, <1>5

LEMMA NewStep ==
  ASSUME MapsInv, NEW m \in Maps, MapNew(m)
  PROVE  MapsInv'
<1>1. table[m] = <<>> /\ table \in [Maps -> Seq(Entry)] /\ made \subseteq Maps
  BY DEF MapNew, MapsInv, EmptyUntilMade, MapsTypeOK
<1>2. UNCHANGED <<table, range>>
  BY <1>1 DEF MapNew
<1> QED BY <1>1, <1>2, StaysUnmoved, NothingIsAnswer DEF MapNew, MapsInv, MapsTypeOK

LEMMA BeginStep ==
  ASSUME MapsInv, NEW r \in Ranges, NEW m \in Maps \cup {Nil}, RangeBegin(r, m)
  PROVE  MapsInv'
<1> DEFINE it == [map |-> m, count |-> 0, over |-> FALSE, changed |-> "no"]
<1>1. /\ table' = Unmarked(r) /\ range' = [range EXCEPT ![r] = it]
      /\ answer' = Nothing /\ UNCHANGED <<made, aborted>> /\ it \in Iterator
  BY DEF RangeBegin, Iterator
<1>2. /\ range \in [Ranges -> Iterator] /\ MapsTypeOK /\ OneEntryPerKey
      /\ table \in [Maps -> Seq(Entry)]
  BY DEF MapsInv, MapsTypeOK
<1>3. range' \in [Ranges -> Iterator]
  BY <1>1, <1>2
<1>4. \A q \in Ranges \ {r} : InPlace(q)'
  BY <1>1, <1>2, OthersInPlace
<1>5. InPlace(r)'
  <2>1. range'[r] = it
    BY <1>1, <1>2
  <2>2. CASE m = Nil
    BY <2>1, <2>2 DEF InPlace
  <2>3. CASE m \in Maps
    <3>1. \A n \in DOMAIN table'[m] : r \notin table'[m][n].met
      BY <1>1, <1>2, <2>3, UnmarkedSound
    <3>2. Len(table'[m]) \in Nat
      BY <1>1, <1>2, <2>3, UnmarkedSound
    <3> QED BY <2>1, <3>1, <3>2 DEF InPlace, UpTo, Exactly
  <2> QED BY <2>2, <2>3
<1>6. table' \in [Maps -> Seq(Entry)] /\ OneEntryPerKey'
  BY <1>1, <1>2, UnmarkedSound
<1>7. EmptyUntilMade'
  BY <1>1, UnmarkedKeepsEmpty
<1> HIDE DEF it
<1> QED BY <1>1, <1>2, <1>3, <1>4, <1>5, <1>6, <1>7, NothingIsAnswer
        DEF MapsInv, MapsTypeOK, RangeKeepsItsPlace

\* The entries of a map after the one at n has been marked by r.
Marked(t, n, r) == [t EXCEPT ![n].met = @ \cup {r}]

\* What that means for the marks.
IsMarked(t, s, n, r) ==
  /\ t \in Seq(Entry) /\ s \in Seq(Entry) /\ n \in DOMAIN t
  /\ DOMAIN s = DOMAIN t /\ Len(s) = Len(t)
  /\ \A i \in DOMAIN t : s[i].met = IF i = n THEN t[n].met \cup {r} ELSE t[i].met

\* The place of r moves past the entry it marks, the places of the others stay.
PlacesMove(t, s, n, r) ==
  /\ \A c \in Nat : n = c + 1 =>
       /\ UpTo(t, r, c) => UpTo(s, r, n)
       /\ Exactly(t, r, c) => Exactly(s, r, n)
  /\ \A c \in Nat, q \in Ranges \ {r} :
       /\ UpTo(t, q, c) => UpTo(s, q, c)
       /\ Exactly(t, q, c) => Exactly(s, q, c)

\* The place of r moves past the entry.
LEMMA MarkedOwn ==
  ASSUME NEW t, NEW s, NEW n, NEW r, IsMarked(t, s, n, r), NEW c \in Nat, n = c + 1
  PROVE  /\ UpTo(t, r, c) => UpTo(s, r, n)
         /\ Exactly(t, r, c) => Exactly(s, r, n)
<1>1. /\ DOMAIN t = 1 .. Len(t) /\ Len(t) \in Nat
      /\ DOMAIN s = DOMAIN t /\ Len(s) = Len(t)
  BY DEF IsMarked
<1>2. \A i \in DOMAIN t : s[i].met = IF i = n THEN t[n].met \cup {r} ELSE t[i].met
  BY DEF IsMarked
<1>3. n \in 1 .. Len(t)
  BY <1>1 DEF IsMarked
<1>4. /\ DOMAIN t = 1 .. Len(t) /\ Len(t) \in Nat /\ n \in 1 .. Len(t)
      /\ DOMAIN s = DOMAIN t /\ Len(s) = Len(t)
      /\ \A i \in DOMAIN t : s[i].met = IF i = n THEN t[n].met \cup {r} ELSE t[i].met
  BY <1>1, <1>2, <1>3, Zenon
<1>5. ASSUME UpTo(t, r, c) PROVE UpTo(s, r, n)
  <2> SUFFICES ASSUME NEW i \in 1 .. Len(t), r \in s[i].met PROVE i <= n
    BY <1>4 DEF UpTo
  <2>1. CASE i = n
    BY <1>4, <2>1
  <2>2. CASE i # n
    <3>1. r \in t[i].met
      BY <1>4, <2>2
    <3>2. i <= c
      BY <1>4, <1>5, <3>1 DEF UpTo
    <3> QED BY <1>5, <3>2
  <2> QED BY <2>1, <2>2
<1>6. ASSUME Exactly(t, r, c) PROVE Exactly(s, r, n)
  <2>1. n <= Len(s)
    BY <1>4
  <2>2. ASSUME NEW i \in 1 .. n PROVE r \in s[i].met
    <3>1. i \in DOMAIN t /\ (i = n \/ i \in 1 .. c)
      BY <1>4, <1>6
    <3>2. i # n => r \in t[i].met
      BY <1>6, <3>1 DEF Exactly
    <3> QED BY <1>4, <3>1, <3>2
  <2> QED BY <2>1, <2>2 DEF Exactly
<1> QED BY <1>5, <1>6

\* Places of other ranges stay.
LEMMA MarkedOther ==
  ASSUME NEW t, NEW s, NEW n, NEW r, IsMarked(t, s, n, r), NEW c \in Nat, NEW q \in Ranges \ {r}
  PROVE  /\ UpTo(t, q, c) => UpTo(s, q, c)
         /\ Exactly(t, q, c) => Exactly(s, q, c)
<1>1. /\ DOMAIN t = 1 .. Len(t) /\ Len(t) \in Nat
      /\ DOMAIN s = DOMAIN t /\ Len(s) = Len(t)
  BY DEF IsMarked
<1>2. \A i \in DOMAIN t : q \in s[i].met <=> q \in t[i].met
  BY DEF IsMarked
<1>3. UpTo(t, q, c) => UpTo(s, q, c)
  BY <1>1, <1>2 DEF UpTo
<1>4. ASSUME Exactly(t, q, c) PROVE Exactly(s, q, c)
  <2>1. c <= Len(t) /\ \A i \in 1 .. c : q \in t[i].met
    BY <1>4 DEF Exactly
  <2>2. \A i \in 1 .. c : i \in DOMAIN t
    BY <1>1, <2>1
  <2> QED BY <1>1, <1>2, <2>1, <2>2 DEF Exactly
<1> QED BY <1>3, <1>4

\* Marking an entry keeps entries apart, and moves the places as it should.
LEMMA MarkedSequence ==
  ASSUME NEW t \in Seq(Entry), NEW n \in DOMAIN t, NEW r \in Ranges
  PROVE  /\ Marked(t, n, r) \in Seq(Entry)
         /\ PlacesMove(t, Marked(t, n, r), n, r)
         /\ OneEntry(t) => OneEntry(Marked(t, n, r))
<1>1. t \in [1 .. Len(t) -> Entry] /\ Len(t) \in Nat /\ DOMAIN t = 1 .. Len(t)
  OBVIOUS
<1>2. PICK e : e = [t[n] EXCEPT !.met = @ \cup {r}]
  OBVIOUS
<1>3. t[n] \in Entry
  BY <1>1
<1>4. e \in Entry /\ e.key = t[n].key /\ e.met = t[n].met \cup {r}
  BY <1>2, <1>3 DEF Entry
<1>5. PICK s : s = [t EXCEPT ![n] = e]
  OBVIOUS
<1>6. Marked(t, n, r) = s
  BY <1>2, <1>5 DEF Marked
<1>7. s \in [1 .. Len(t) -> Entry]
  BY <1>1, <1>4, <1>5
<1>8. s \in Seq(Entry) /\ Len(s) = Len(t) /\ DOMAIN s = DOMAIN t
  BY <1>1, <1>7
<1>9. \A i \in DOMAIN t : s[i] = IF i = n THEN e ELSE t[i]
  BY <1>1, <1>5
<1>10. \A i \in DOMAIN t : s[i].key = t[i].key
  BY <1>4, <1>9
<1>11. OneEntry(t) => OneEntry(s)
  BY <1>8, <1>10 DEF OneEntry
<1>12. \A i \in DOMAIN t : s[i].met = IF i = n THEN t[n].met \cup {r} ELSE t[i].met
  BY <1>4, <1>9
<1>13. IsMarked(t, s, n, r)
  BY <1>8, <1>12 DEF IsMarked
<1>14. PlacesMove(t, s, n, r)
  BY <1>13, MarkedOwn, MarkedOther DEF PlacesMove
<1> QED BY <1>6, <1>8, <1>11, <1>14

\* A step of a range: its place moves past the entry it meets.
LEMMA StepMeets ==
  ASSUME MapsInv, NEW r \in Ranges, NEW m \in Maps, m = range[r].map,
         NEW n \in DOMAIN table[m], n = range[r].count + 1,
         answer' = Answer(TRUE, table[m][n].key, table[m][n].value, 0),
         range' = [range EXCEPT ![r].count = @ + 1],
         table' = [table EXCEPT ![m] = Marked(@, n, r)],
         UNCHANGED <<made, aborted>>
  PROVE  MapsInv'
<1>1. /\ table \in [Maps -> Seq(Entry)] /\ range \in [Ranges -> Iterator] /\ m # Nil
      /\ table[m] \in Seq(Entry) /\ n \in Nat /\ n \in 1 .. Len(table[m])
      /\ Len(table[m]) \in Nat /\ OneEntry(table[m])
  BY MapConstants DEF MapsInv, MapsTypeOK, OneEntryPerKey
<1>2. \A i \in DOMAIN table[m] : table[m][i] \in Entry
  BY <1>1
<1>3. PICK s : s = Marked(table[m], n, r)
  OBVIOUS
<1>4. table' = [table EXCEPT ![m] = s]
  BY <1>3
<1>5. s \in Seq(Entry) /\ PlacesMove(table[m], s, n, r) /\ OneEntry(s)
  BY <1>1, <1>3, MarkedSequence
<1>6. table' \in [Maps -> Seq(Entry)] /\ OneEntryPerKey'
  BY <1>5, <1>4, TableUpdate DEF MapsInv
<1>7. /\ range' \in [Ranges -> Iterator]
      /\ range'[r].map = m /\ range'[r].changed = range[r].changed
      /\ range'[r].count = n
      /\ range[r].count \in Nat
      /\ \A q \in Ranges \ {r} : range'[q] = range[q]
  BY <1>1 DEF Iterator
<1>8. answer' \in [found : BOOLEAN, key : Keys \cup {NoKey}, value : Values, length : Nat]
  BY <1>2 DEF Answer, Entry
<1>9. EmptyUntilMade'
  BY <1>1, <1>4 DEF MapsInv, EmptyUntilMade
<1>10. InPlace(r)'
  <2>1. InPlace(r) /\ table'[m] = s
    BY <1>1, <1>4 DEF MapsInv, RangeKeepsItsPlace
  <2>2. PICK c \in Nat : c = range[r].count
    BY <1>7
  <2>3. n = c + 1
    BY <2>2
  <2>4. /\ UpTo(table[m], r, c) => UpTo(s, r, n)
        /\ Exactly(table[m], r, c) => Exactly(s, r, n)
    BY <1>5, <2>3 DEF PlacesMove
  <2>5. range[r].changed # "set" =>
          /\ UpTo(table[m], r, c)
          /\ range[r].changed = "no" => Exactly(table[m], r, c)
    BY <1>1, <2>1, <2>2 DEF InPlace
  <2> QED BY <1>7, <2>1, <2>4, <2>5 DEF InPlace
<1>11. ASSUME NEW q \in Ranges \ {r} PROVE InPlace(q)'
  <2>1. InPlace(q) /\ range'[q] = range[q] /\ range[q] \in Iterator
    BY <1>1, <1>7 DEF MapsInv, RangeKeepsItsPlace
  <2>2. CASE range[q].map = m
    <3>1. table'[m] = s
      BY <1>1, <1>4
    <3>2. PICK c \in Nat : c = range[q].count
      BY <2>1 DEF Iterator
    <3>3. /\ UpTo(table[m], q, c) => UpTo(s, q, c)
          /\ Exactly(table[m], q, c) => Exactly(s, q, c)
      BY <1>5 DEF PlacesMove
    <3> QED BY <2>1, <2>2, <3>1, <3>2, <3>3 DEF InPlace
  <2>3. CASE range[q].map # m
    <3>1. range[q].map # Nil => table'[range[q].map] = table[range[q].map]
      BY <1>1, <1>4, <2>1, <2>3 DEF Iterator
    <3> QED BY <2>1, <3>1 DEF InPlace
  <2> QED BY <2>2, <2>3
<1> QED BY <1>6, <1>7, <1>8, <1>9, <1>10, <1>11
        DEF MapsInv, MapsTypeOK, RangeKeepsItsPlace

LEMMA NextStep ==
  ASSUME MapsInv, NEW r \in Ranges, MapNext(r)
  PROVE  MapsInv'
<1>1. PICK m, n : m = range[r].map /\ n = range[r].count + 1
  OBVIOUS
<1>2. m \in Maps \cup {Nil} /\ range \in [Ranges -> Iterator] /\ Over \in Iterator
  BY <1>1 DEF MapsInv, MapsTypeOK, Iterator, Over
<1>3. CASE m = Nil
  BY <1>1, <1>3, StaysUnmoved DEF MapNext, Abort, MapsInv, MapsTypeOK
<1>4. CASE m # Nil /\ n \in DOMAIN table[m]
  <2>1. m \in Maps
    BY <1>2, <1>4
  <2>2. /\ answer' = Answer(TRUE, table[m][n].key, table[m][n].value, 0)
        /\ range' = [range EXCEPT ![r].count = @ + 1]
        /\ table' = [table EXCEPT ![m][n].met = @ \cup {r}]
        /\ UNCHANGED <<made, aborted>>
    BY <1>1, <1>4 DEF MapNext
  <2>3. table' = [table EXCEPT ![m] = Marked(@, n, r)]
    BY <2>2 DEF Marked
  <2> QED BY <1>1, <1>4, <2>1, <2>2, <2>3, StepMeets
<1>5. CASE m # Nil /\ n \notin DOMAIN table[m]
  <2>1. /\ answer' = Nothing /\ range' = [range EXCEPT ![r] = Over]
        /\ table' = Unmarked(r) /\ UNCHANGED <<made, aborted>>
    BY <1>1, <1>5 DEF MapNext
  <2>2. range' \in [Ranges -> Iterator] /\ range'[r] = Over
    BY <1>2, <2>1
  <2>3. \A q \in Ranges \ {r} : InPlace(q)'
    BY <1>2, <2>1, OthersInPlace
  <2>4. InPlace(r)'
    BY <2>2 DEF InPlace, Over
  <2>5. table' \in [Maps -> Seq(Entry)] /\ OneEntryPerKey'
    BY <2>1, UnmarkedSound DEF MapsInv
  <2>6. EmptyUntilMade'
    BY <2>1, UnmarkedKeepsEmpty
  <2>7. /\ made' \subseteq Maps /\ aborted' \in BOOLEAN
        /\ answer' \in [found : BOOLEAN, key : Keys \cup {NoKey}, value : Values, length : Nat]
    BY <2>1, NothingIsAnswer DEF MapsInv, MapsTypeOK
  <2> QED BY <2>2, <2>3, <2>4, <2>5, <2>6, <2>7 DEF MapsInv, MapsTypeOK, RangeKeepsItsPlace
<1> QED BY <1>3, <1>4, <1>5

LEMMA StepKeepsInv == ASSUME MapsInv, [MapsNext]_vars PROVE MapsInv'
<1>1. CASE UNCHANGED vars
  BY <1>1, StaysUnmoved DEF vars, MapsInv, MapsTypeOK
<1>2. CASE MapsNext
  <2>1. ASSUME NEW m \in Maps, MapNew(m) PROVE MapsInv'
    BY <2>1, NewStep
  <2>2. ASSUME NEW m \in Maps \cup {Nil}, NEW k \in Keys, MapDelete(m, k) PROVE MapsInv'
    <3>1. CASE m \in Maps
      BY <2>2, <3>1, DeleteStep
    <3>2. CASE m = Nil
      BY <2>2, <3>2, StaysUnmoved, NothingIsAnswer DEF MapDelete, MapsInv, MapsTypeOK
    <3> QED BY <3>1, <3>2
  <2>3. ASSUME NEW m \in Maps \cup {Nil}, NEW k \in Keys, NEW v \in Values, MapSet(m, k, v)
        PROVE  MapsInv'
    <3>1. CASE m \in Maps
      BY <2>3, <3>1, SetStep
    <3>2. CASE m = Nil
      BY <2>3, <3>2, StaysUnmoved DEF MapSet, Abort, MapsInv, MapsTypeOK
    <3> QED BY <3>1, <3>2
  <2>4. ASSUME NEW m \in Maps \cup {Nil}, NEW k \in Keys, NEW commaOk \in BOOLEAN,
               MapGet(m, k, commaOk)
        PROVE  MapsInv'
    <3>1. CASE m \in Maps
      BY <2>4, <3>1, GetStep
    <3>2. CASE m = Nil
      BY <2>4, <3>2, StaysUnmoved DEF MapGet, Abort, MapsInv, MapsTypeOK
    <3> QED BY <3>1, <3>2
  <2>5. ASSUME NEW m \in Maps \cup {Nil}, MapLen(m) PROVE MapsInv'
    <3>1. m # Nil => Len(table[m]) \in Nat
      BY DEF MapsInv, MapsTypeOK
    <3>2. answer' \in [found : BOOLEAN, key : Keys \cup {NoKey}, value : Values, length : Nat]
      BY <2>5, <3>1, MapConstants DEF MapLen, Answer
    <3> QED BY <2>5, <3>2, StaysUnmoved DEF MapLen, MapsInv, MapsTypeOK
  <2>6. ASSUME NEW m \in Maps \cup {Nil}, NEW r \in Ranges, RangeBegin(r, m) PROVE MapsInv'
    BY <2>6, BeginStep
  <2>7. ASSUME NEW r \in Ranges, MapNext(r) PROVE MapsInv'
    BY <2>7, NextStep
  <2> QED BY <1>1, <1>2, <2>1, <2>2, <2>3, <2>4, <2>5, <2>6, <2>7 DEF MapsNext
<1> QED BY <1>1, <1>2

\* The conjunction of the invariants is inductive.
THEOREM MapsInvariant == MapsSpec => []MapsInv
<1>1. MapsInit => MapsInv
  BY InitHolds
<1>2. MapsInv /\ [MapsNext]_vars => MapsInv'
  BY StepKeepsInv
<1> QED BY <1>1, <1>2, PTL DEF MapsSpec

\* However keys are set and deleted, equal keys share one entry.
THEOREM OneEntryForEachKey == MapsSpec => []OneEntryPerKey
<1>1. MapsInv => OneEntryPerKey
  BY DEF MapsInv
<1> QED BY <1>1, MapsInvariant, PTL

\* The count of an iterator separates what it has met from the rest.
THEOREM RangesKeepTheirPlace == MapsSpec => []RangeKeepsItsPlace
<1>1. MapsInv => RangeKeepsItsPlace
  BY DEF MapsInv
<1> QED BY <1>1, MapsInvariant, PTL

-----------------------------------------------------------------------------
(* Ranges.                                                                 *)

\* Only Next advances an iterator, and only Next ends it.
LEMMA OnlyNextMoves ==
  ASSUME MapsInv, [MapsNext]_vars, NEW r \in Ranges,
         \/ range'[r].count = range[r].count + 1
         \/ range'[r].over /\ ~range[r].over
  PROVE  MapNext(r)
<1>1. range \in [Ranges -> Iterator] /\ range[r] \in Iterator
  BY DEF MapsInv, MapsTypeOK
<1>2. range[r].count \in Nat
  BY <1>1 DEF Iterator
<1>3. range'[r] # range[r]
  BY <1>2
<1>4. ASSUME NEW m \in Maps, NEW what, range' = Noted(m, what) PROVE FALSE
  <2>1. PICK it : it = [range[r] EXCEPT !.changed = what]
    OBVIOUS
  <2>2. it.count = range[r].count /\ it.over = range[r].over
    BY <1>1, <2>1 DEF Iterator
  <2>3. range'[r] = it \/ range'[r] = range[r]
    BY <1>4, <2>1 DEF Noted
  <2> QED BY <1>2, <2>2, <2>3
<1>5. \A m \in Maps \cup {Nil} : ~RangeBegin(r, m)
  <2>1. ASSUME NEW m \in Maps \cup {Nil}, RangeBegin(r, m) PROVE FALSE
    <3>1. range'[r] = [map |-> m, count |-> 0, over |-> FALSE, changed |-> "no"]
      BY <1>1, <2>1 DEF RangeBegin
    <3> QED BY <1>2, <3>1
  <2> QED BY <2>1
<1>6. \A q \in Ranges \ {r}, m \in Maps \cup {Nil} : ~RangeBegin(q, m)
  BY <1>1, <1>3 DEF RangeBegin
<1>7. \A q \in Ranges \ {r} : ~MapNext(q)
  BY <1>1, <1>3 DEF MapNext, Abort
<1>8. \A m \in Maps \cup {Nil}, k \in Keys, v \in Values : ~MapSet(m, k, v)
  BY <1>3, <1>4 DEF MapSet, Abort
<1>9. \A m \in Maps \cup {Nil}, k \in Keys : ~MapDelete(m, k)
  BY <1>3, <1>4 DEF MapDelete
<1>10. \A m \in Maps \cup {Nil}, k \in Keys, b \in BOOLEAN : ~MapGet(m, k, b)
  BY <1>3 DEF MapGet, Abort
<1>11. \A m \in Maps \cup {Nil} : ~MapLen(m)
  BY <1>3 DEF MapLen
<1>12. \A m \in Maps : ~MapNew(m)
  BY <1>3 DEF MapNew
<1>13. ~UNCHANGED vars
  BY <1>3 DEF vars
<1>14. \A q \in Ranges, m \in Maps \cup {Nil} : ~RangeBegin(q, m)
  BY <1>5, <1>6
<1>15. MapsNext /\ ~(aborted /\ UNCHANGED vars)
  BY <1>13
<1>16. \E q \in Ranges : MapNext(q)
  BY <1>8, <1>9, <1>10, <1>12, <1>14, <1>15, <1>11 DEF MapsNext
<1> QED BY <1>7, <1>16

\* When Next finds nothing and nobody changed the map, everything was met.
THEOREM QuietRangesMeetAll == MapsSpec => QuietRangeMeetsAll
<1>1. ASSUME MapsInv, [MapsNext]_vars, NEW r \in Ranges,
             range'[r].over, ~range[r].over, range[r].changed = "no",
             NEW n \in DOMAIN table[range[r].map]
      PROVE  r \in table[range[r].map][n].met
  <2>1. MapNext(r) /\ range \in [Ranges -> Iterator] /\ range[r] \in Iterator
    BY <1>1, OnlyNextMoves DEF MapsInv, MapsTypeOK
  <2>2. PICK m \in Maps \cup {Nil}, c \in Nat : m = range[r].map /\ c = range[r].count
    BY <2>1 DEF Iterator
  <2>3. m # Nil
    BY <1>1, <2>1, <2>2 DEF MapNext, Abort
  <2>4. c + 1 \notin DOMAIN table[m]
    <3>1. SUFFICES ASSUME c + 1 \in DOMAIN table[m] PROVE FALSE
      OBVIOUS
    <3>2. range' = [range EXCEPT ![r].count = @ + 1]
      BY <2>1, <2>2, <2>3, <3>1 DEF MapNext
    <3> QED BY <1>1, <2>1, <3>2 DEF Iterator
  <2>5. m \in Maps /\ table[m] \in Seq(Entry)
    BY <1>1, <2>1, <2>2, <2>3 DEF Iterator, MapsInv, MapsTypeOK
  <2>6. Exactly(table[m], r, c)
    BY <1>1, <2>2, <2>3 DEF MapsInv, RangeKeepsItsPlace, InPlace
  <2>7. n \in 1 .. c
    BY <1>1, <2>2, <2>4, <2>5, <2>6 DEF Exactly
  <2> QED BY <2>2, <2>6, <2>7 DEF Exactly
<1>2. MapsInv /\ [MapsNext]_vars
        => [\A r \in Ranges :
              LET it == range[r]
              IN  range'[r].over /\ ~it.over /\ it.changed = "no" =>
                    \A n \in DOMAIN table[it.map] : r \in table[it.map][n].met]_vars
  BY <1>1
<1> QED BY <1>2, MapsInvariant, PTL DEF MapsSpec, QuietRangeMeetsAll

\* The entry Next finds lies past everything met, unless something was set.
THEOREM NothingIsMetTwice == MapsSpec => NeverMetTwice
<1>1. ASSUME MapsInv, [MapsNext]_vars, NEW r \in Ranges,
             range'[r].count = range[r].count + 1, range[r].changed # "set"
      PROVE  r \notin table[range[r].map][range[r].count + 1].met
  <2>1. MapNext(r) /\ range \in [Ranges -> Iterator] /\ range[r] \in Iterator
    BY <1>1, OnlyNextMoves DEF MapsInv, MapsTypeOK
  <2>2. PICK m \in Maps \cup {Nil}, c \in Nat : m = range[r].map /\ c = range[r].count
    BY <2>1 DEF Iterator
  <2>3. m # Nil
    <3>1. SUFFICES ASSUME m = Nil PROVE FALSE
      OBVIOUS
    <3>2. range' = range
      BY <2>1, <2>2, <3>1 DEF MapNext, Abort
    <3> QED BY <1>1, <2>2, <3>2
  <2>4. c + 1 \in DOMAIN table[m]
    <3>1. SUFFICES ASSUME c + 1 \notin DOMAIN table[m] PROVE FALSE
      OBVIOUS
    <3>2. range' = [range EXCEPT ![r] = Over]
      BY <2>1, <2>2, <2>3, <3>1 DEF MapNext
    <3> QED BY <1>1, <2>1, <2>2, <3>2 DEF Over
  <2>5. UpTo(table[m], r, c)
    BY <1>1, <2>2, <2>3 DEF MapsInv, RangeKeepsItsPlace, InPlace
  <2>6. r \notin table[m][c + 1].met
    BY <2>4, <2>5 DEF UpTo
  <2> QED BY <2>2, <2>6
<1>2. MapsInv /\ [MapsNext]_vars
        => [\A r \in Ranges :
              LET it == range[r]
              IN  range'[r].count = it.count + 1 /\ it.changed # "set" =>
                    r \notin table[it.map][it.count + 1].met]_vars
  BY <1>1
<1> QED BY <1>2, MapsInvariant, PTL DEF MapsSpec, NeverMetTwice

-----------------------------------------------------------------------------
(* Every map is an association.                                            *)

\* At most one entry is equal to a key, and looking the key up finds it.
LEMMA ContentIs ==
  ASSUME NEW s \in Seq(Entry), OneEntry(s), NEW k \in Keys
  PROVE  /\ \A n \in EqualAt(s, k) : Content(s, k) = s[n].value
         /\ EqualAt(s, k) = {} => Content(s, k) = Absent
         /\ Content(s, k) = Absent <=> EqualAt(s, k) = {}
         /\ EqualAt(s, k) = Positions(s, k)
<1>1. \A n \in DOMAIN s : s[n].key \in Keys /\ s[n].value \in Values
  <2>1. \A n \in DOMAIN s : s[n] \in Entry
    OBVIOUS
  <2> QED BY <2>1 DEF Entry
<1>2. \A n, i \in EqualAt(s, k) : n = i
  BY <1>1, KeyType DEF EqualAt, OneEntry
<1>3. \A n \in EqualAt(s, k) : n \in DOMAIN s
  BY DEF EqualAt
<1>4. \A n \in EqualAt(s, k) : Content(s, k) = s[n].value
  BY <1>2 DEF Content
<1>5. EqualAt(s, k) = {} => Content(s, k) = Absent
  BY DEF Content
<1>6. EqualAt(s, k) = Positions(s, k)
  BY <1>1, KeyType DEF EqualAt, Positions
<1> QED BY <1>1, <1>3, <1>4, <1>5, <1>6, MapConstants

\* Two well formed sequences with the same keys and values are one association.
LEMMA SameContent ==
  ASSUME NEW s \in Seq(Entry), OneEntry(s), NEW t \in Seq(Entry), OneEntry(t),
         \A n \in DOMAIN s : \E i \in DOMAIN t : t[i].key = s[n].key /\ t[i].value = s[n].value,
         \A i \in DOMAIN t : \E n \in DOMAIN s : t[i].key = s[n].key /\ t[i].value = s[n].value,
         NEW k \in Keys
  PROVE  Content(t, k) = Content(s, k)
<1>1. CASE EqualAt(s, k) = {}
  <2>1. EqualAt(t, k) = {}
    BY <1>1 DEF EqualAt
  <2> QED BY <1>1, <2>1, ContentIs
<1>2. CASE EqualAt(s, k) # {}
  <2>1. PICK n \in DOMAIN s : n \in EqualAt(s, k)
    BY <1>2 DEF EqualAt
  <2>2. PICK i \in DOMAIN t : t[i].key = s[n].key /\ t[i].value = s[n].value
    BY <2>1
  <2>3. i \in EqualAt(t, k)
    BY <2>1, <2>2 DEF EqualAt
  <2>4. Content(s, k) = s[n].value
    BY <2>1, ContentIs
  <2>5. Content(t, k) = t[i].value
    BY <2>3, ContentIs
  <2> QED BY <2>2, <2>4, <2>5
<1> QED BY <1>1, <1>2

LEMMA ReorderedContent ==
  ASSUME NEW s \in Seq(Entry), OneEntry(s), NEW t \in Reordered(s), NEW k \in Keys
  PROVE  Content(t, k) = Content(s, k) /\ Len(t) = Len(s)
<1>1. PICK p \in Bijection(DOMAIN s, DOMAIN s) : t = [n \in DOMAIN s |-> s[p[n]]]
  BY DEF Reordered
<1>2. /\ p \in [DOMAIN s -> DOMAIN s]
      /\ \A n \in DOMAIN s : \E i \in DOMAIN s : p[i] = n
  BY <1>1 DEF Bijection, Surjection
<1>3. t \in Seq(Entry) /\ OneEntry(t)
  BY ReorderedSound
<1>4. DOMAIN t = DOMAIN s /\ \A n \in DOMAIN s : t[n] = s[p[n]]
  BY <1>1
<1>5. Len(t) = Len(s)
  BY <1>3, <1>4
<1>6. ASSUME NEW n \in DOMAIN s
      PROVE  \E i \in DOMAIN t : t[i].key = s[n].key /\ t[i].value = s[n].value
  <2>1. PICK i \in DOMAIN s : p[i] = n
    BY <1>2
  <2>2. i \in DOMAIN t /\ t[i] = s[n]
    BY <1>4, <2>1
  <2> QED BY <2>2
<1>7. \A i \in DOMAIN t : \E n \in DOMAIN s : t[i].key = s[n].key /\ t[i].value = s[n].value
  BY <1>2, <1>4
<1> QED BY <1>3, <1>5, <1>6, <1>7, SameContent

LEMMA InsertedContent ==
  ASSUME NEW s \in Seq(Entry), OneEntry(s), NEW k \in Keys, NEW v \in Values,
         NEW t \in Inserted(s, k, v)
  PROVE  /\ Len(t) = IF Content(s, k) = Absent THEN Len(s) + 1 ELSE Len(s)
         /\ \A l \in Keys : Content(t, l) = IF Equal(k, l) THEN v ELSE Content(s, l)
<1>1. t \in Seq(Entry) /\ OneEntry(t)
  BY InsertedSound
<1>2. \A n \in DOMAIN s : s[n] \in Entry /\ s[n].key \in Keys
  <2>1. \A n \in DOMAIN s : s[n] \in Entry
    OBVIOUS
  <2> QED BY <2>1 DEF Entry
<1>3. CASE Positions(s, k) = {}
  <2> DEFINE e == [key |-> k, value |-> v, met |-> {}]
  <2>1. t = Append(s, e) /\ e \in Entry /\ e.key = k /\ e.value = v
    BY <1>3 DEF Inserted, Entry
  <2> HIDE DEF e
  <2>2. /\ Len(t) = Len(s) + 1 /\ DOMAIN t = DOMAIN s \cup {Len(s) + 1}
        /\ \A n \in DOMAIN s : t[n] = s[n]
        /\ t[Len(s) + 1] = e
    BY <2>1
  <2>3. Content(s, k) = Absent
    BY <1>3, ContentIs
  <2>4. ASSUME NEW l \in Keys, Equal(k, l) PROVE Content(t, l) = v
    <3>1. Len(s) + 1 \in EqualAt(t, l)
      BY <2>1, <2>2, <2>4, KeyType DEF EqualAt
    <3> QED BY <1>1, <2>1, <2>2, <3>1, ContentIs
  <2>5. ASSUME NEW l \in Keys, ~Equal(k, l) PROVE Content(t, l) = Content(s, l)
    <3>1. ~Equal(l, k)
      BY <2>5, KeyType
    <3>2. EqualAt(t, l) = EqualAt(s, l)
      BY <2>1, <2>2, <3>1 DEF EqualAt
    <3>3. CASE EqualAt(s, l) = {}
      BY <1>1, <3>2, <3>3, ContentIs
    <3>4. CASE EqualAt(s, l) # {}
      <4>1. PICK n \in DOMAIN s : n \in EqualAt(s, l)
        BY <3>4 DEF EqualAt
      <4> QED BY <1>1, <2>2, <3>2, <4>1, ContentIs
    <3> QED BY <3>3, <3>4
  <2> QED BY <2>2, <2>3, <2>4, <2>5
<1>4. CASE Positions(s, k) # {}
  <2>1. PICK i \in Positions(s, k) : t = [s EXCEPT ![i].value = v]
    BY <1>4 DEF Inserted
  <2>2. i \in DOMAIN s /\ i \in EqualAt(s, k) /\ Content(s, k) # Absent
    BY <2>1, ContentIs DEF Positions
  <2>3. /\ Len(t) = Len(s) /\ DOMAIN t = DOMAIN s
        /\ \A n \in DOMAIN s \ {i} : t[n] = s[n]
        /\ t[i] = [s[i] EXCEPT !.value = v]
    BY <1>1, <2>1, <2>2
  <2>4. t[i].value = v /\ t[i].key = s[i].key /\ s[i].key \in Keys
    BY <1>2, <2>2, <2>3 DEF Entry
  <2>5. ASSUME NEW l \in Keys, Equal(k, l) PROVE Content(t, l) = v
    <3>1. Equal(k, s[i].key)
      BY <2>2 DEF EqualAt
    <3>2. Equal(l, k)
      BY <2>5, KeyType
    <3>3. Equal(l, s[i].key)
      BY <2>4, <3>1, <3>2, KeyType
    <3>4. i \in EqualAt(t, l)
      BY <2>2, <2>3, <2>4, <3>3 DEF EqualAt
    <3> QED BY <1>1, <2>4, <3>4, ContentIs
  <2>6. ASSUME NEW l \in Keys, ~Equal(k, l) PROVE Content(t, l) = Content(s, l)
    <3>1. EqualAt(t, l) = EqualAt(s, l)
      BY <2>2, <2>3, <2>4 DEF EqualAt
    <3>2. i \notin EqualAt(s, l)
      <4>1. SUFFICES ASSUME Equal(l, s[i].key) PROVE FALSE
        BY DEF EqualAt
      <4>2. Equal(k, s[i].key)
        BY <2>2 DEF EqualAt
      <4>3. Equal(s[i].key, l)
        BY <2>4, <4>1, KeyType
      <4> QED BY <2>4, <2>6, <4>2, <4>3, KeyType
    <3>3. CASE EqualAt(s, l) = {}
      BY <1>1, <3>1, <3>3, ContentIs
    <3>4. CASE EqualAt(s, l) # {}
      <4>1. PICK n \in DOMAIN s : n \in EqualAt(s, l)
        BY <3>4 DEF EqualAt
      <4> QED BY <1>1, <2>3, <3>1, <3>2, <4>1, ContentIs
    <3> QED BY <3>3, <3>4
  <2> QED BY <2>2, <2>3, <2>5, <2>6
<1> QED BY <1>3, <1>4

LEMMA RemovedContent ==
  ASSUME NEW s \in Seq(Entry), OneEntry(s), NEW k \in Keys, NEW t \in Removed(s, k)
  PROVE  /\ Len(t) = IF Content(s, k) = Absent THEN Len(s) ELSE Len(s) - 1
         /\ \A l \in Keys : Content(t, l) = IF Equal(k, l) THEN Absent ELSE Content(s, l)
<1>1. t \in Seq(Entry) /\ OneEntry(t)
  BY RemovedSound
<1>2. \A n \in DOMAIN s : s[n].key \in Keys
  <2>1. \A n \in DOMAIN s : s[n] \in Entry
    OBVIOUS
  <2> QED BY <2>1 DEF Entry
<1>3. CASE Positions(s, k) = {}
  <2>1. t = s /\ Content(s, k) = Absent /\ EqualAt(s, k) = {}
    BY <1>3, ContentIs DEF Removed
  <2>2. ASSUME NEW l \in Keys, Equal(k, l) PROVE Content(s, l) = Absent
    <3>1. EqualAt(s, l) = {}
      BY <1>2, <2>1, <2>2, KeyType DEF EqualAt
    <3> QED BY <3>1, ContentIs
  <2> QED BY <2>1, <2>2
<1>4. CASE Positions(s, k) # {}
  <2>1. PICK n \in Positions(s, k) : t = Without(s, n)
    BY <1>4 DEF Removed
  <2>2. n \in DOMAIN s /\ n \in EqualAt(s, k) /\ Content(s, k) # Absent
    BY <2>1, ContentIs DEF Positions
  <2>3. /\ DOMAIN t = 1 .. Len(s) - 1 /\ Len(s) \in Nat
        /\ \A i \in DOMAIN t : t[i] = IF i < n THEN s[i] ELSE s[i + 1]
    BY <2>1, <2>2, WithoutSound
  <2>4. /\ DOMAIN s = 1 .. Len(s) /\ n \in 1 .. Len(s)
        /\ Len(t) = Len(s) - 1
    BY <1>1, <2>2, <2>3
  <2>5. \A i \in DOMAIN t : \E j \in DOMAIN s \ {n} : t[i] = s[j]
    <3>1. ASSUME NEW i \in DOMAIN t PROVE \E j \in DOMAIN s \ {n} : t[i] = s[j]
      <4>1. CASE i < n
        BY <2>3, <2>4, <4>1
      <4>2. CASE ~(i < n)
        <5>1. i + 1 \in DOMAIN s \ {n} /\ t[i] = s[i + 1]
          BY <2>3, <2>4, <4>2
        <5> QED BY <5>1
      <4> QED BY <4>1, <4>2
    <3> QED BY <3>1
  <2>6. \A j \in DOMAIN s \ {n} : \E i \in DOMAIN t : t[i] = s[j]
    <3>1. ASSUME NEW j \in DOMAIN s \ {n} PROVE \E i \in DOMAIN t : t[i] = s[j]
      <4>1. CASE j < n
        <5>1. j \in DOMAIN t /\ t[j] = s[j]
          BY <2>3, <2>4, <4>1
        <5> QED BY <5>1
      <4>2. CASE ~(j < n)
        <5>1. j - 1 \in DOMAIN t /\ t[j - 1] = s[j]
          BY <2>3, <2>4, <4>2
        <5> QED BY <5>1
      <4> QED BY <4>1, <4>2
    <3> QED BY <3>1
  <2>7. ASSUME NEW l \in Keys, Equal(k, l) PROVE Content(t, l) = Absent
    <3>1. ASSUME NEW j \in DOMAIN s, Equal(l, s[j].key) PROVE j = n
      <4>1. Equal(k, s[j].key)
        BY <1>2, <2>7, <3>1, KeyType
      <4>2. Equal(s[n].key, k)
        BY <1>2, <2>2, KeyType DEF EqualAt
      <4>3. Equal(s[n].key, s[j].key)
        BY <1>2, <2>2, <4>1, <4>2, KeyType
      <4> QED BY <2>2, <4>3 DEF OneEntry
    <3>2. EqualAt(t, l) = {}
      BY <2>5, <3>1 DEF EqualAt
    <3> QED BY <1>1, <3>2, ContentIs
  <2>8. ASSUME NEW l \in Keys, ~Equal(k, l) PROVE Content(t, l) = Content(s, l)
    <3>1. n \notin EqualAt(s, l)
      <4>1. SUFFICES ASSUME Equal(l, s[n].key) PROVE FALSE
        BY DEF EqualAt
      <4>2. Equal(k, s[n].key)
        BY <2>2 DEF EqualAt
      <4>3. Equal(s[n].key, l)
        BY <1>2, <2>2, <4>1, KeyType
      <4> QED BY <1>2, <2>2, <2>8, <4>2, <4>3, KeyType
    <3>2. CASE EqualAt(s, l) = {}
      <4>1. EqualAt(t, l) = {}
        BY <2>5, <3>2 DEF EqualAt
      <4> QED BY <1>1, <3>2, <4>1, ContentIs
    <3>3. CASE EqualAt(s, l) # {}
      <4>1. PICK j \in DOMAIN s \ {n} : j \in EqualAt(s, l)
        BY <3>1, <3>3 DEF EqualAt
      <4>2. PICK i \in DOMAIN t : t[i] = s[j]
        BY <2>6, <4>1
      <4>3. i \in EqualAt(t, l)
        BY <4>1, <4>2 DEF EqualAt
      <4>4. Content(s, l) = s[j].value
        BY <4>1, ContentIs
      <4>5. Content(t, l) = t[i].value
        BY <1>1, <4>3, ContentIs
      <4> QED BY <4>2, <4>4, <4>5
    <3> QED BY <3>2, <3>3
  <2> QED BY <2>2, <2>4, <2>7, <2>8
<1> QED BY <1>3, <1>4

\* Two well formed tables of one map whose entries have the same keys and
\* values are one association.
LEMMA MarksDoNotMatter ==
  ASSUME NEW s \in Seq(Entry), OneEntry(s), NEW t \in Seq(Entry), OneEntry(t),
         Len(t) = Len(s),
         \A n \in DOMAIN s : t[n].key = s[n].key /\ t[n].value = s[n].value,
         NEW k \in Keys
  PROVE  Content(t, k) = Content(s, k)
<1>1. DOMAIN t = DOMAIN s
  OBVIOUS
<1> QED BY <1>1, SameContent

\* What the association of all maps becomes when one table is replaced.
LEMMA OneMapChanges ==
  ASSUME MapsInv, NEW m \in Maps, NEW s, table' = [table EXCEPT ![m] = s]
  PROVE  /\ Contents' = [Contents EXCEPT ![m] = [k \in Keys |-> Content(s, k)]]
         /\ Sizes' = [Sizes EXCEPT ![m] = Len(s)]
<1>1. table \in [Maps -> Seq(Entry)] /\ m # Nil
  BY MapConstants DEF MapsInv, MapsTypeOK
<1>2. \A l \in Maps \cup {Nil} :
        EntriesOf(l)' = IF l = m THEN s ELSE EntriesOf(l)
  BY <1>1 DEF EntriesOf
<1>3. Sizes' = [l \in Maps \cup {Nil} |-> IF l = m THEN Len(s) ELSE Len(EntriesOf(l))]
  BY <1>2 DEF Sizes
<1>4. Contents' = [l \in Maps \cup {Nil} |->
                     IF l = m THEN [k \in Keys |-> Content(s, k)]
                     ELSE [k \in Keys |-> Content(EntriesOf(l), k)]]
  <2>1. Contents' = [l \in Maps \cup {Nil} |-> [k \in Keys |-> Content(EntriesOf(l)', k)]]
    BY DEF Contents, Content, EqualAt
  <2>2. \A l \in Maps \cup {Nil} :
          [k \in Keys |-> Content(EntriesOf(l)', k)]
            = IF l = m THEN [k \in Keys |-> Content(s, k)]
              ELSE [k \in Keys |-> Content(EntriesOf(l), k)]
    BY <1>2
  <2> QED BY <2>1, <2>2
<1>5. [Sizes EXCEPT ![m] = Len(s)]
        = [l \in Maps \cup {Nil} |-> IF l = m THEN Len(s) ELSE Len(EntriesOf(l))]
  BY DEF Sizes
<1>6. [Contents EXCEPT ![m] = [k \in Keys |-> Content(s, k)]]
        = [l \in Maps \cup {Nil} |->
             IF l = m THEN [k \in Keys |-> Content(s, k)]
             ELSE [k \in Keys |-> Content(EntriesOf(l), k)]]
  BY DEF Contents
<1> QED BY <1>3, <1>4, <1>5, <1>6

\* Marking entries changes no association.
LEMMA SameMaps ==
  ASSUME MapsInv, MapsInv',
         \A m \in Maps :
           /\ Len(table'[m]) = Len(table[m])
           /\ \A n \in DOMAIN table[m] : /\ table'[m][n].key = table[m][n].key
                                        /\ table'[m][n].value = table[m][n].value
  PROVE  UNCHANGED <<Contents, Sizes>>
<1>1. \A m \in Maps : /\ table[m] \in Seq(Entry) /\ OneEntry(table[m])
                     /\ table'[m] \in Seq(Entry) /\ OneEntry(table'[m])
  BY DEF MapsInv, MapsTypeOK, OneEntryPerKey
<1>2. \A m \in Maps \cup {Nil}, k \in Keys :
        Content(EntriesOf(m)', k) = Content(EntriesOf(m), k)
  BY <1>1, MarksDoNotMatter DEF EntriesOf
<1>3. \A m \in Maps \cup {Nil} : Len(EntriesOf(m)') = Len(EntriesOf(m))
  BY DEF EntriesOf
<1>4. Sizes' = Sizes
  BY <1>3 DEF Sizes
<1>5. Contents' = [m \in Maps \cup {Nil} |-> [k \in Keys |-> Content(EntriesOf(m)', k)]]
  BY DEF Contents, Content, EqualAt
<1>6. Contents' = Contents
  BY <1>2, <1>5 DEF Contents
<1> QED BY <1>4, <1>6

LEMMA UnmarkedSameMaps ==
  ASSUME MapsInv, MapsInv', NEW r \in Ranges, table' = Unmarked(r)
  PROVE  UNCHANGED <<Contents, Sizes>>
<1>1. ASSUME NEW m \in Maps, NEW n \in DOMAIN table[m]
      PROVE  table'[m][n].key = table[m][n].key /\ table'[m][n].value = table[m][n].value
  <2>1. table[m][n] \in Entry
    BY DEF MapsInv, MapsTypeOK
  <2>2. table'[m][n] = [table[m][n] EXCEPT !.met = @ \ {r}]
    BY DEF Unmarked
  <2> QED BY <2>1, <2>2 DEF Entry
<1>2. \A m \in Maps : Len(table'[m]) = Len(table[m])
  BY UnmarkedSound DEF MapsInv
<1> QED BY <1>1, <1>2, SameMaps

LEMMA ContentsAt ==
  ASSUME NEW m \in Maps, NEW k \in Keys
  PROVE  /\ Contents[m][k] = Content(table[m], k)
         /\ Sizes[m] = Len(table[m])
         /\ Contents[Nil][k] = Absent
         /\ Sizes[Nil] = 0
<1>1. m # Nil
  BY MapConstants
<1> QED BY <1>1 DEF Contents, Sizes, EntriesOf, Content, EqualAt

\* The two modules write an answer alike.
LEMMA AnswersAgree ==
  /\ Association!Nothing = Nothing
  /\ \A found, key, value, length :
       Association!Answer(found, key, value, length) = Answer(found, key, value, length)
BY DEF Nothing, Answer, Association!Nothing, Association!Answer

LEMMA AssociationInit == ASSUME MapsInit PROVE Association!AbstractInit
<1>1. \A m \in Maps \cup {Nil} : EntriesOf(m) = <<>>
  BY DEF MapsInit, EntriesOf
<1>2. Contents = [m \in Maps \cup {Nil} |-> [k \in Keys |-> Absent]]
  BY <1>1 DEF Contents, Content, EqualAt
<1>3. Sizes = [m \in Maps \cup {Nil} |-> 0]
  BY <1>1 DEF Sizes
<1> QED BY <1>2, <1>3, AnswersAgree DEF MapsInit, Association!AbstractInit

LEMMA AbortStutters ==
  ASSUME Abort
  PROVE  UNCHANGED Association!abstractVars
<1>1. UNCHANGED <<table, answer>>
  BY DEF Abort
<1>2. UNCHANGED <<Contents, Sizes>>
  BY <1>1 DEF Contents, Sizes, Content, EqualAt, EntriesOf
<1> QED BY <1>1, <1>2 DEF Association!abstractVars

LEMMA SetIsSet ==
  ASSUME MapsInv, NEW m \in Maps, NEW k \in Keys, NEW v \in Values, MapSet(m, k, v)
  PROVE  Association!Set(m, k, v)
<1>1. m # Nil
  BY MapConstants
<1>2. PICK s \in Inserted(table[m], k, v) :
        \E t \in Reordered(s) : table' = [table EXCEPT ![m] = t]
  BY <1>1 DEF MapSet
<1>3. PICK t \in Reordered(s) : table' = [table EXCEPT ![m] = t]
  BY <1>2
<1>4. PICK u \in Seq(Entry) : u = table[m] /\ OneEntry(u)
  BY DEF MapsInv, MapsTypeOK, OneEntryPerKey
<1>5. s \in Inserted(u, k, v)
  BY <1>2, <1>4
<1>6. /\ Len(s) = IF Content(u, k) = Absent THEN Len(u) + 1 ELSE Len(u)
      /\ \A l \in Keys : Content(s, l) = IF Equal(k, l) THEN v ELSE Content(u, l)
  BY <1>4, <1>5, InsertedContent
<1>7. Len(t) = Len(s)
  <2>1. s \in Seq(Entry) /\ OneEntry(s)
    BY <1>4, <1>5, InsertedSound
  <2> QED BY <1>3, <2>1, ReorderedContent
<1>8. \A l \in Keys : Content(t, l) = IF Equal(k, l) THEN v ELSE Content(u, l)
  <2>1. s \in Seq(Entry) /\ OneEntry(s)
    BY <1>4, <1>5, InsertedSound
  <2> QED BY <1>3, <1>6, <2>1, ReorderedContent
<1>9. /\ Contents' = [Contents EXCEPT ![m] = [l \in Keys |-> Content(t, l)]]
      /\ Sizes' = [Sizes EXCEPT ![m] = Len(t)]
  BY <1>3, OneMapChanges
<1>10. \A l \in Keys : Contents[m][l] = Content(u, l) /\ Sizes[m] = Len(u)
  BY <1>4, ContentsAt
<1>11. [l \in Keys |-> Content(t, l)] = [l \in Keys |-> IF Equal(k, l) THEN v ELSE Contents[m][l]]
  BY <1>8, <1>10
<1>12. Len(t) = IF Contents[m][k] = Absent THEN Sizes[m] + 1 ELSE Sizes[m]
  BY <1>6, <1>7, <1>10
<1>13. answer' = Association!Nothing
  BY <1>1, AnswersAgree DEF MapSet
<1> QED BY <1>9, <1>11, <1>12, <1>13 DEF Association!Set, Association!Associate

LEMMA DeleteIsDelete ==
  ASSUME MapsInv, NEW m \in Maps, NEW k \in Keys, MapDelete(m, k)
  PROVE  Association!Delete(m, k)
<1>1. m # Nil
  BY MapConstants
<1>2. PICK t \in Removed(table[m], k) : table' = [table EXCEPT ![m] = t]
  BY <1>1 DEF MapDelete
<1>3. PICK u \in Seq(Entry) : u = table[m] /\ OneEntry(u)
  BY DEF MapsInv, MapsTypeOK, OneEntryPerKey
<1>4. /\ Len(t) = IF Content(u, k) = Absent THEN Len(u) ELSE Len(u) - 1
      /\ \A l \in Keys : Content(t, l) = IF Equal(k, l) THEN Absent ELSE Content(u, l)
  BY <1>2, <1>3, RemovedContent
<1>5. /\ Contents' = [Contents EXCEPT ![m] = [l \in Keys |-> Content(t, l)]]
      /\ Sizes' = [Sizes EXCEPT ![m] = Len(t)]
  BY <1>2, OneMapChanges
<1>6. \A l \in Keys : Contents[m][l] = Content(u, l) /\ Sizes[m] = Len(u)
  BY <1>3, ContentsAt
<1>7. [l \in Keys |-> Content(t, l)]
        = [l \in Keys |-> IF Equal(k, l) THEN Absent ELSE Contents[m][l]]
  BY <1>4, <1>6
<1>8. Len(t) = IF Contents[m][k] = Absent THEN Sizes[m] ELSE Sizes[m] - 1
  BY <1>4, <1>6
<1>9. answer' = Association!Nothing
  BY AnswersAgree DEF MapDelete
<1> QED BY <1>5, <1>7, <1>8, <1>9 DEF Association!Delete, Association!Associate

\* A lookup answers with what the association holds, or aborts.
LEMMA GetIsGet ==
  ASSUME MapsInv, NEW m \in Maps, NEW k \in Keys, NEW commaOk \in BOOLEAN,
         MapGet(m, k, commaOk), ~Abort
  PROVE  Association!Get(m, k)
<1>1. m # Nil
  BY MapConstants
<1>2. PICK a \in Lookup(table[m], k) : answer' = a /\ UNCHANGED table
  BY <1>1 DEF MapGet
<1>3. PICK u \in Seq(Entry) : u = table[m] /\ OneEntry(u)
  BY DEF MapsInv, MapsTypeOK, OneEntryPerKey
<1>4. UNCHANGED <<Contents, Sizes>>
  BY <1>2 DEF Contents, Sizes, Content, EqualAt, EntriesOf
<1>5. Contents[m][k] = Content(u, k)
  BY <1>3, ContentsAt
<1>6. CASE Positions(u, k) = {}
  <2>1. Content(u, k) = Absent /\ a = Nothing
    BY <1>2, <1>3, <1>6, ContentIs DEF Lookup, Missing, Nothing
  <2> QED BY <1>2, <1>4, <1>5, <2>1, AnswersAgree DEF Association!Get
<1>7. CASE Positions(u, k) # {}
  <2>1. PICK n \in Positions(u, k) : a = Answer(TRUE, NoKey, u[n].value, 0)
    BY <1>2, <1>3, <1>7 DEF Lookup
  <2>2. Content(u, k) = u[n].value /\ Content(u, k) # Absent
    BY <1>3, <2>1, ContentIs
  <2> QED BY <1>2, <1>4, <1>5, <2>1, <2>2, AnswersAgree DEF Association!Get
<1> QED BY <1>6, <1>7

LEMMA LenIsLength ==
  ASSUME NEW m \in Maps \cup {Nil}, MapLen(m)
  PROVE  Association!Length(m)
<1>1. UNCHANGED <<Contents, Sizes>>
  BY DEF MapLen, Contents, Sizes, Content, EqualAt, EntriesOf
<1>2. Sizes[m] = IF m = Nil THEN 0 ELSE Len(table[m])
  BY DEF Sizes, EntriesOf
<1> QED BY <1>1, <1>2, AnswersAgree DEF MapLen, Association!Length

\* What a step of a range yields is in the map.
LEMMA NextIsStep ==
  ASSUME MapsInv, MapsInv', NEW r \in Ranges, MapNext(r), ~Abort
  PROVE  Association!Step(range[r].map)
<1>1. PICK m, n : m = range[r].map /\ n = range[r].count + 1
  OBVIOUS
<1>2. m \in Maps
  BY <1>1 DEF MapNext, MapsInv, MapsTypeOK, Iterator
<1>3. PICK u \in Seq(Entry) : u = table[m] /\ OneEntry(u)
  BY <1>2 DEF MapsInv, MapsTypeOK, OneEntryPerKey
<1>4. m # Nil /\ table \in [Maps -> Seq(Entry)]
  BY <1>2, MapConstants DEF MapsInv, MapsTypeOK
<1>5. CASE n \in DOMAIN u
  <2>1. /\ answer' = Answer(TRUE, u[n].key, u[n].value, 0)
        /\ table' = [table EXCEPT ![m][n].met = @ \cup {r}]
    BY <1>1, <1>3, <1>4, <1>5 DEF MapNext
  <2>2. u[n] \in Entry
    BY <1>3, <1>5
  <2>3. ASSUME NEW l \in Maps
        PROVE  /\ Len(table'[l]) = Len(table[l])
               /\ \A i \in DOMAIN table[l] : /\ table'[l][i].key = table[l][i].key
                                            /\ table'[l][i].value = table[l][i].value
    <3>1. CASE l # m
      BY <1>4, <2>1, <3>1
    <3>2. CASE l = m
      <4>1. PICK e : e = [u[n] EXCEPT !.met = @ \cup {r}]
        OBVIOUS
      <4>2. e \in Entry /\ e.key = u[n].key /\ e.value = u[n].value
        BY <2>2, <4>1 DEF Entry
      <4>3. table'[m] = [u EXCEPT ![n] = e]
        BY <1>2, <1>3, <1>4, <2>1, <4>1
      <4> QED BY <1>3, <1>5, <3>2, <4>2, <4>3
    <3> QED BY <3>1, <3>2
  <2>4. UNCHANGED <<Contents, Sizes>>
    BY <2>3, SameMaps
  <2>5. u[n].key \in Keys /\ u[n].value \in Values
    BY <2>2 DEF Entry
  <2>6. Equal(u[n].key, u[n].key) => Contents[m][u[n].key] = u[n].value
    <3>1. SUFFICES ASSUME Equal(u[n].key, u[n].key)
                   PROVE  Contents[m][u[n].key] = u[n].value
      OBVIOUS
    <3>2. n \in EqualAt(u, u[n].key)
      BY <1>5, <3>1 DEF EqualAt
    <3>3. Content(u, u[n].key) = u[n].value
      BY <1>3, <2>5, <3>2, ContentIs
    <3> QED BY <1>2, <1>3, <2>5, <3>3, ContentsAt
  <2> QED BY <1>1, <2>1, <2>4, <2>5, <2>6, AnswersAgree DEF Association!Step
<1>6. CASE n \notin DOMAIN u
  <2>1. answer' = Nothing /\ table' = Unmarked(r)
    BY <1>1, <1>3, <1>4, <1>6 DEF MapNext
  <2>2. UNCHANGED <<Contents, Sizes>>
    BY <2>1, UnmarkedSameMaps
  <2> QED BY <2>1, <2>2, AnswersAgree DEF Association!Step
<1> QED BY <1>5, <1>6

LEMMA StepsAreSteps ==
  ASSUME MapsInv, MapsInv', MapsNext, ~Abort, ~UNCHANGED vars
  PROVE  Association!AbstractNext
<1>1. ASSUME NEW m \in Maps, MapNew(m) PROVE Association!Silent
  <2>1. table[m] = <<>> /\ table \in [Maps -> Seq(Entry)]
    BY <1>1 DEF MapNew, MapsInv, EmptyUntilMade, MapsTypeOK
  <2>2. table' = table /\ answer' = Nothing
    BY <1>1, <2>1 DEF MapNew
  <2>3. UNCHANGED <<Contents, Sizes>>
    BY <2>2 DEF Contents, Sizes, Content, EqualAt, EntriesOf
  <2> QED BY <2>2, <2>3, AnswersAgree DEF Association!Silent
<1>2. ASSUME NEW m \in Maps \cup {Nil}, NEW k \in Keys, MapDelete(m, k)
      PROVE  Association!AbstractNext
  <2>1. CASE m \in Maps
    BY <1>2, <2>1, DeleteIsDelete DEF Association!AbstractNext
  <2>2. CASE m = Nil
    <3>1. answer' = Nothing /\ UNCHANGED table
      BY <1>2, <2>2 DEF MapDelete
    <3>2. UNCHANGED <<Contents, Sizes>>
      BY <3>1 DEF Contents, Sizes, Content, EqualAt, EntriesOf
    <3> QED BY <3>1, <3>2, AnswersAgree DEF Association!Silent, Association!AbstractNext
  <2> QED BY <2>1, <2>2
<1>3. ASSUME NEW m \in Maps \cup {Nil}, NEW k \in Keys, NEW v \in Values, MapSet(m, k, v)
      PROVE  Association!AbstractNext
  <2>1. m \in Maps
    BY <1>3 DEF MapSet
  <2> QED BY <1>3, <2>1, SetIsSet DEF Association!AbstractNext
<1>4. ASSUME NEW m \in Maps \cup {Nil}, NEW k \in Keys, NEW commaOk \in BOOLEAN,
             MapGet(m, k, commaOk)
      PROVE  Association!AbstractNext
  <2>1. m \in Maps
    BY <1>4 DEF MapGet
  <2> QED BY <1>4, <2>1, GetIsGet DEF Association!AbstractNext
<1>5. ASSUME NEW m \in Maps \cup {Nil}, MapLen(m) PROVE Association!AbstractNext
  BY <1>5, LenIsLength DEF Association!AbstractNext
<1>6. ASSUME NEW m \in Maps \cup {Nil}, NEW r \in Ranges, RangeBegin(r, m)
      PROVE  Association!Silent
  <2>1. table' = Unmarked(r) /\ answer' = Nothing
    BY <1>6 DEF RangeBegin
  <2>2. UNCHANGED <<Contents, Sizes>>
    BY <2>1, UnmarkedSameMaps
  <2> QED BY <2>1, <2>2, AnswersAgree DEF Association!Silent
<1>7. ASSUME NEW r \in Ranges, MapNext(r) PROVE Association!AbstractNext
  <2>1. range[r].map \in Maps \cup {Nil}
    BY DEF MapsInv, MapsTypeOK, Iterator
  <2> QED BY <1>7, <2>1, NextIsStep DEF Association!AbstractNext
<1>8. (\E m \in Maps : MapNew(m)) => Association!AbstractNext
  BY <1>1 DEF Association!AbstractNext
<1>9. (\E m \in Maps \cup {Nil}, r \in Ranges : RangeBegin(r, m)) => Association!AbstractNext
  BY <1>6 DEF Association!AbstractNext
<1> QED BY <1>2, <1>3, <1>4, <1>5, <1>7, <1>8, <1>9 DEF MapsNext

\* Whatever is set, deleted, looked up and ranged over, in whatever order the
\* hash table keeps its entries, the maps answer as associations do.
THEOREM MapsImplementAssociations == MapsSpec => MapsAreAssociations
<1>1. MapsInit => Association!AbstractInit
  BY AssociationInit
<1>2. MapsInv /\ MapsInv' /\ [MapsNext]_vars
        => [Association!AbstractNext]_(Association!abstractVars)
  <2>1. CASE UNCHANGED vars
    <3>1. UNCHANGED <<table, answer>>
      BY <2>1 DEF vars
    <3>2. UNCHANGED <<Contents, Sizes>>
      BY <3>1 DEF Contents, Sizes, Content, EqualAt, EntriesOf
    <3> QED BY <3>1, <3>2 DEF Association!abstractVars
  <2>2. CASE Abort
    BY <2>2, AbortStutters
  <2>3. CASE ~Abort /\ ~UNCHANGED vars
    BY <2>3, StepsAreSteps
  <2> QED BY <2>1, <2>2, <2>3
<1> QED BY <1>1, <1>2, MapsInvariant, PTL
        DEF MapsSpec, MapsAreAssociations, Association!AbstractSpec
=============================================================================
