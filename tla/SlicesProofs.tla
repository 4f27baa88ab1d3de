----------------------------- MODULE SlicesProofs -----------------------------
(***************************************************************************)
(* Slices stay inside their arrays, for any number of variables, any        *)
(* arrays and any elements.                                                *)
(***************************************************************************)
EXTENDS Slices, SequenceTheorems, TLAPS

-----------------------------------------------------------------------------
(* Memory.                                                                 *)

\* A window inside the heap has as many cells as its capacity says.
LEMMA AsBytesType ==
  ASSUME SlicesTypeOK, NEW s \in SliceObject, WithinArray(s, heap)
  PROVE  AsBytes(s) \in Seq(Data) /\ Len(AsBytes(s)) = s.capacity
<1>1. CASE s.array = 0
  BY <1>1 DEF AsBytes, WithinArray, SliceObject
<1>2. CASE s.array # 0
  <2>1. s.array \in 1 .. Len(heap) /\ heap[s.array] \in Seq(Data)
    BY <1>2 DEF SlicesTypeOK, WithinArray
  <2>2. /\ s.offset \in Nat /\ s.capacity \in Nat
        /\ s.offset + s.capacity <= Len(heap[s.array])
    BY <1>2 DEF SliceObject, WithinArray
  <2> QED BY <1>2, <2>1, <2>2 DEF AsBytes
<1> QED BY <1>1, <1>2

\* Writing to an array keeps every array's length.
LEMMA WriteKeepsLengths ==
  ASSUME heap \in Seq(Seq(Data)), NEW a \in Nat, NEW p \in Nat,
         NEW new \in Seq(Data), Write(a, p, new)
  PROVE  /\ heap' \in Seq(Seq(Data))
         /\ Len(heap') = Len(heap)
         /\ \A i \in 1 .. Len(heap) : Len(heap'[i]) = Len(heap[i])
<1>1. CASE new = <<>>
  BY <1>1 DEF Write
<1>2. CASE new # <<>> /\ a \notin 1 .. Len(heap)
  <2> DEFINE o == Overwritten(a, p, new)
  <2>1. heap' = [heap EXCEPT ![a] = o]
    BY <1>2 DEF Write
  <2> HIDE DEF o
  <2>2. heap' = heap
    BY <1>2, <2>1
  <2> QED BY <2>2
<1>3. CASE new # <<>> /\ a \in 1 .. Len(heap)
  <2>1. heap[a] \in Seq(Data)
    BY <1>3
  <2>2. Overwritten(a, p, new) \in Seq(Data) /\ Len(Overwritten(a, p, new)) = Len(heap[a])
    <3> DEFINE f == [i \in 1 .. Len(heap[a]) |->
                      IF i \in p + 1 .. p + Len(new) THEN new[i - p] ELSE heap[a][i]]
    <3>1. \A i \in 1 .. Len(heap[a]) :
            (IF i \in p + 1 .. p + Len(new) THEN new[i - p] ELSE heap[a][i]) \in Data
      BY <2>1
    <3>2. f \in Seq(Data) /\ Len(f) = Len(heap[a])
      BY <2>1, <3>1
    <3> QED BY <3>2 DEF Overwritten
  <2>3. heap' = [heap EXCEPT ![a] = Overwritten(a, p, new)]
    BY <1>3 DEF Write
  <2> QED BY <1>3, <2>2, <2>3
<1> QED BY <1>1, <1>2, <1>3

\* A window fits whatever arrays are written to ...
LEMMA LengthsKeepWindows ==
  ASSUME NEW s, WithinArray(s, heap), Len(heap') = Len(heap),
         \A i \in 1 .. Len(heap) : Len(heap'[i]) = Len(heap[i]), heap \in Seq(Seq(Data))
  PROVE  WithinArray(s, heap')
BY DEF WithinArray

\* ... and allocating adds one.
LEMMA AllocateKeepsInv ==
  ASSUME SlicesInv, NEW cells \in Seq(Data), NEW x \in Vars, NEW n \in Nat,
         n <= Len(cells), Allocate(cells, x, n)
  PROVE  SlicesInv'
<1> USE DEF SlicesInv
<1>1. /\ heap' = Append(heap, cells)
      /\ heap' \in Seq(Seq(Data))
      /\ Len(heap') = Len(heap) + 1
      /\ heap'[Len(heap) + 1] = cells
      /\ \A i \in 1 .. Len(heap) : heap'[i] = heap[i]
      /\ Len(heap') <= MaxArrays
  BY SliceConstants DEF SlicesTypeOK, Allocate
<1> DEFINE s == Window(Len(heap) + 1, 0, n, Len(cells))
<1>2. slice' = [slice EXCEPT ![x] = s]
  BY DEF Allocate
<1>3. s \in SliceObject /\ WithinArray(s, heap')
  BY <1>1, SliceConstants DEF Window, SliceObject, WithinArray, SlicesTypeOK
<1>4. \A y \in Vars : WithinArray(slice[y], heap')
  <2> TAKE y \in Vars
  <2>1. WithinArray(slice[y], heap)
    BY DEF SlicesInBounds
  <2> QED BY <1>1, <2>1 DEF WithinArray, SlicesTypeOK
<1> HIDE DEF s
<1>5. SlicesTypeOK'
  BY <1>1, <1>2, <1>3 DEF SlicesTypeOK, Allocate
<1>6. SlicesInBounds'
  BY <1>2, <1>3, <1>4 DEF SlicesInBounds, SlicesTypeOK
<1> QED BY <1>5, <1>6

\* A step that writes cells and moves at most one window inside the heap.
LEMMA WindowKeepsInv ==
  ASSUME SlicesInv, NEW a \in Nat, NEW p \in Nat, NEW cells \in Seq(Data),
         Write(a, p, cells) \/ UNCHANGED heap, NEW x \in Vars,
         NEW s \in SliceObject, WithinArray(s, heap),
         slice' = [slice EXCEPT ![x] = s], aborted' \in BOOLEAN
  PROVE  SlicesInv'
<1> USE DEF SlicesInv
<1>1. /\ heap' \in Seq(Seq(Data))
      /\ Len(heap') = Len(heap)
      /\ \A i \in 1 .. Len(heap) : Len(heap'[i]) = Len(heap[i])
  BY WriteKeepsLengths DEF SlicesTypeOK
<1>2. WithinArray(s, heap')
  BY <1>1, LengthsKeepWindows DEF SlicesTypeOK
<1>3. \A y \in Vars : WithinArray(slice[y], heap')
  BY <1>1, LengthsKeepWindows DEF SlicesTypeOK, SlicesInBounds
<1>4. SlicesTypeOK'
  BY <1>1 DEF SlicesTypeOK
<1>5. SlicesInBounds'
  BY <1>2, <1>3 DEF SlicesInBounds, SlicesTypeOK
<1> QED BY <1>4, <1>5

-----------------------------------------------------------------------------
(* The operations.                                                         *)

\* An undefined memcpy still copies elements.
LEMMA MemcpyType ==
  ASSUME NEW cells \in Seq(Data), NEW d \in Int, NEW out \in MemcpyOutcomes(cells, d)
  PROVE  out \in Seq(Data) /\ Len(out) = Len(cells)
<1> DEFINE n == Len(cells)
           up == [i \in 1 .. n |-> cells[((i - 1) % d) + 1]]
           down == [i \in 1 .. n |-> cells[n - ((n - i) % (-d))]]
<1>1. CASE out = cells
  BY <1>1
<1>2. CASE d \in 1 .. n - 1 /\ out = up
  <2>1. \A i \in 1 .. n : (i - 1) % d \in 0 .. d - 1
    BY <1>2
  <2>2. \A i \in 1 .. n : cells[((i - 1) % d) + 1] \in Data
    BY <1>2, <2>1
  <2> QED BY <1>2, <2>2
<1>3. CASE -d \in 1 .. n - 1 /\ out = down
  <2>1. \A i \in 1 .. n : (n - i) % (-d) \in 0 .. (-d) - 1
    BY <1>3
  <2>2. \A i \in 1 .. n : cells[n - ((n - i) % (-d))] \in Data
    BY <1>3, <2>1
  <2> QED BY <1>3, <2>2
<1> QED BY <1>1, <1>2, <1>3 DEF MemcpyOutcomes

\* Both ways of append: a new array, or the assertion that guards extending.
LEMMA ReallocateKeepsInv ==
  ASSUME SlicesInv, NEW x \in Vars, NEW y \in Vars, NEW new \in Seq(Data),
         NEW d \in Int, ReallocateSlice(x, slice[y], new, d)
  PROVE  SlicesInv'
<1> DEFINE base == slice[y]
<1>1. base \in SliceObject /\ WithinArray(base, heap)
  BY DEF SlicesInv, SlicesTypeOK, SlicesInBounds
<1>2. AsBytes(base) \in Seq(Data) /\ Len(AsBytes(base)) = base.capacity
  BY <1>1, AsBytesType DEF SlicesInv
<1>3. CASE base.size + Len(new) > base.capacity
  <2>1. base.size \in Nat /\ base.capacity \in Nat /\ base.size <= base.capacity
    BY <1>1 DEF SliceObject, WithinArray
  <2> DEFINE n == base.size + Len(new)
             f == [i \in 1 .. 2 * n |-> IF i <= base.size THEN AsBytes(base)[i]
                                  ELSE IF i <= n THEN new[i - base.size] ELSE Zero]
  <2>2. \A i \in 1 .. 2 * n : (IF i <= base.size THEN AsBytes(base)[i]
                         ELSE IF i <= n THEN new[i - base.size] ELSE Zero) \in Data
    BY <1>2, <2>1, SliceConstants
  <2>3. n \in Nat /\ 2 * n \in Nat /\ n <= 2 * n
    BY <2>1
  <2> HIDE DEF n
  <2>6. f \in Seq(Data) /\ Len(f) = 2 * n
    BY <2>2, <2>3
  <2>4. Reallocated(base, new) \in Seq(Data) /\ n <= Len(Reallocated(base, new))
    BY <2>3, <2>6 DEF Reallocated, n
  <2>5. Allocate(Reallocated(base, new), x, n)
    BY <1>3 DEF ReallocateSlice, n
  <2> QED BY <2>3, <2>4, <2>5, AllocateKeepsInv
<1>4. CASE ~(base.size + Len(new) > base.capacity) /\ MayExtend(base, base.size)
  <2> DEFINE s == DuplicateExtend(base, base.size)
  <2>1. s \in SliceObject /\ WithinArray(s, heap)
    <3>1. /\ base.array \in 0 .. MaxArrays /\ base.offset \in Nat
          /\ base.size + base.size \in Nat /\ base.capacity \in Nat
      BY <1>1 DEF SliceObject
    <3>2. s \in SliceObject
      BY <3>1 DEF DuplicateExtend, Window, SliceObject
    <3>3. WithinArray(s, heap)
      BY <1>1, <1>4 DEF MayExtend, WithinArray, DuplicateExtend, Window
    <3> QED BY <3>2, <3>3
  <2>2. PICK cells \in MemcpyOutcomes(new, d) :
          Write(base.array, base.offset + base.size, cells)
    BY <1>4 DEF ReallocateSlice
  <2>3. cells \in Seq(Data)
    BY <2>2, MemcpyType
  <2>4. slice' = [slice EXCEPT ![x] = s] /\ aborted' \in BOOLEAN
    BY <1>4 DEF ReallocateSlice, SlicesInv, SlicesTypeOK
  <2>5. base.array \in Nat /\ base.offset + base.size \in Nat
    BY <1>1 DEF SliceObject
  <2> HIDE DEF s, base
  <2> QED BY <2>1, <2>2, <2>3, <2>4, <2>5, WindowKeepsInv
<1>5. CASE ~(base.size + Len(new) > base.capacity) /\ ~MayExtend(base, base.size)
  <2>1. aborted' = TRUE /\ UNCHANGED <<heap, slice>>
    BY <1>5 DEF ReallocateSlice
  <2> QED BY <2>1 DEF SlicesInv, SlicesTypeOK, SlicesInBounds, WithinArray
<1> QED BY <1>3, <1>4, <1>5

\* A window cut from a window.
LEMMA SliceExprKeepsInv ==
  ASSUME SlicesInv, NEW x \in Vars, NEW y \in Vars, NEW low \in Nat, NEW high \in Nat,
         SliceExpr(x, y, low, high)
  PROVE  SlicesInv'
<1> DEFINE s == Window(slice[y].array, slice[y].offset + low, high - low,
                       slice[y].capacity - low)
<1>1. slice[y] \in SliceObject /\ WithinArray(slice[y], heap)
  BY DEF SlicesInv, SlicesTypeOK, SlicesInBounds
<1>2. s \in SliceObject /\ WithinArray(s, heap)
  <2>1. /\ slice[y].array \in 0 .. MaxArrays /\ slice[y].offset + low \in Nat
        /\ high - low \in Nat /\ slice[y].capacity - low \in Nat
        /\ high - low <= slice[y].capacity - low
    BY <1>1 DEF SliceExpr, SliceObject
  <2>2. s \in SliceObject
    BY <2>1 DEF SliceObject, Window
  <2>3. WithinArray(s, heap)
    BY <1>1, <2>1 DEF SliceObject, WithinArray, Window
  <2> QED BY <2>2, <2>3
<1>3. /\ slice' = [slice EXCEPT ![x] = s]
      /\ UNCHANGED heap
      /\ aborted' \in BOOLEAN
  BY DEF SliceExpr, SlicesInv, SlicesTypeOK
<1> HIDE DEF s
<1> QED BY <1>2, <1>3, WindowKeepsInv, EmptySeq

\* A copy writes and moves no window.
LEMMA CopyKeepsInv ==
  ASSUME SlicesInv, NEW x \in Vars, NEW src \in Seq(Data), CopySlice(slice[x], src)
  PROVE  SlicesInv'
<1> DEFINE s == slice[x]
           n == CopyResult(s, src)
<1>1. s \in SliceObject /\ WithinArray(s, heap)
  BY DEF SlicesInv, SlicesTypeOK, SlicesInBounds
<1>2. n \in 0 .. Len(src)
  BY <1>1 DEF CopyResult, Smaller, SliceObject
<1>3. SubSeq(src, 1, n) \in Seq(Data)
  BY <1>2
<1>4. /\ Write(s.array, s.offset, SubSeq(src, 1, n))
      /\ slice' = [slice EXCEPT ![x] = s]
      /\ aborted' \in BOOLEAN
  BY DEF CopySlice, SlicesInv, SlicesTypeOK
<1>5. s.array \in Nat /\ s.offset \in Nat
  BY <1>1 DEF SliceObject
<1> HIDE DEF s, n
<1> QED BY <1>1, <1>3, <1>4, <1>5, WindowKeepsInv

\* A store changes one cell of one array.
LEMMA StoreKeepsInv ==
  ASSUME SlicesInv, NEW x \in Vars, NEW i \in Nat, NEW d \in Data, Store(x, i, d)
  PROVE  SlicesInv'
<1> DEFINE a == slice[x].array
           k == slice[x].offset + i + 1
<1>1. a \in 1 .. Len(heap) /\ k \in 1 .. Len(heap[a])
  BY DEF SlicesInv, SlicesTypeOK, SlicesInBounds, SliceObject, WithinArray, Store
<1>2. heap[a] \in Seq(Data)
  BY <1>1 DEF SlicesInv, SlicesTypeOK
<1> DEFINE cells == [heap[a] EXCEPT ![k] = d]
<1>3. cells \in Seq(Data) /\ Len(cells) = Len(heap[a])
  BY <1>1, <1>2
<1>4. heap' = [heap EXCEPT ![a] = cells]
  BY DEF Store
<1> HIDE DEF cells, a, k
<1>5. /\ heap' \in Seq(Seq(Data))
      /\ Len(heap') = Len(heap)
      /\ \A j \in 1 .. Len(heap) : Len(heap'[j]) = Len(heap[j])
  BY <1>1, <1>3, <1>4 DEF SlicesInv, SlicesTypeOK
<1>6. UNCHANGED <<slice, aborted>>
  BY DEF Store
<1>7. SlicesTypeOK'
  BY <1>5, <1>6 DEF SlicesInv, SlicesTypeOK
<1>8. SlicesInBounds'
  BY <1>5, <1>6, LengthsKeepWindows DEF SlicesInv, SlicesTypeOK, SlicesInBounds
<1> QED BY <1>7, <1>8 DEF SlicesInv

-----------------------------------------------------------------------------

\* Nothing is allocated at first.
LEMMA SlicesInitInv == SlicesInit => SlicesInv
<1> SUFFICES ASSUME SlicesInit PROVE SlicesInv
  OBVIOUS
<1>1. Nil \in SliceObject /\ Nil.array = 0 /\ Nil.size = 0 /\ Nil.offset = 0
      /\ Nil.capacity = 0
  BY SliceConstants DEF Nil, Window, SliceObject
<1>2. heap \in Seq(Seq(Data)) /\ Len(heap) = 0
  BY DEF SlicesInit
<1>3. slice \in [Vars -> SliceObject] /\ \A x \in Vars : slice[x] = Nil
  BY <1>1 DEF SlicesInit
<1>4. SlicesTypeOK
  <2>1. Len(heap) <= MaxArrays
    BY <1>2, SliceConstants
  <2>2. aborted \in BOOLEAN
    BY DEF SlicesInit
  <2> QED BY <1>2, <1>3, <2>1, <2>2 DEF SlicesTypeOK
<1>5. WithinArray(Nil, heap)
  BY <1>1, <1>2 DEF WithinArray
<1>6. SlicesInBounds
  BY <1>3, <1>5 DEF SlicesInBounds
<1> QED BY <1>4, <1>6 DEF SlicesInv

\* Every step keeps the invariant.
LEMMA SlicesNextInv == SlicesInv /\ [SlicesNext]_vars => SlicesInv'
<1> SUFFICES ASSUME SlicesInv, [SlicesNext]_vars PROVE SlicesInv'
  OBVIOUS
<1> USE SliceConstants
<1>1. ASSUME NEW x \in Vars, NEW c \in 0 .. MaxMade, NEW n \in 0 .. MaxMade,
             n <= c, MakeSlice(x, n, c)
      PROVE  SlicesInv'
  <2> DEFINE cells == [i \in 1 .. c |-> Zero]
  <2>1. cells \in Seq(Data) /\ Len(cells) = c /\ n \in Nat /\ c \in Nat
    OBVIOUS
  <2>2. Allocate(cells, x, n)
    BY <1>1 DEF MakeSlice
  <2> HIDE DEF cells
  <2> QED BY <1>1, <2>1, <2>2, AllocateKeepsInv
<1>2. ASSUME NEW x \in Vars, NEW y \in Vars, NEW low \in 0 .. MaxLength,
             NEW high \in 0 .. MaxLength, SliceExpr(x, y, low, high)
      PROVE  SlicesInv'
  BY <1>2, SliceExprKeepsInv
<1>3. ASSUME NEW x \in Vars, NEW y \in Vars, NEW low \in 0 .. MaxLength,
             SliceFrom(x, y, low)
      PROVE  SlicesInv'
  <2>1. slice[y].capacity \in Nat
    BY DEF SlicesInv, SlicesTypeOK, SliceObject
  <2>2. SliceExpr(x, y, low, slice[y].capacity)
    BY <1>3 DEF SliceFrom
  <2> QED BY <2>1, <2>2, SliceExprKeepsInv
<1>4. ASSUME NEW x \in Vars, NEW i \in 0 .. MaxLength - 1, NEW d \in Data, Store(x, i, d)
      PROVE  SlicesInv'
  BY <1>4, StoreKeepsInv
<1>5. ASSUME NEW x \in Vars, NEW y \in Vars, NEW z \in Vars, AppendSlice(x, y, z)
      PROVE  SlicesInv'
  <2>1. /\ slice[y] \in SliceObject
        /\ slice[z] \in SliceObject /\ WithinArray(slice[z], heap)
    BY DEF SlicesInv, SlicesTypeOK, SlicesInBounds
  <2>2. AsBytes(slice[z]) \in Seq(Data)
    BY <2>1, AsBytesType DEF SlicesInv
  <2>3. Distance(slice[y], slice[z]) \in Int
    BY <2>1 DEF Distance, SliceObject
  <2>4. ReallocateSlice(x, slice[y], AsBytes(slice[z]), Distance(slice[y], slice[z]))
    BY <1>5 DEF AppendSlice
  <2> QED BY <2>2, <2>3, <2>4, ReallocateKeepsInv
<1>6. ASSUME NEW x \in Vars, NEW y \in Vars, NEW new \in Literals, AppendValues(x, y, new)
      PROVE  SlicesInv'
  <2>1. ReallocateSlice(x, slice[y], new, 0)
    BY <1>6 DEF AppendValues
  <2> QED BY <2>1, ReallocateKeepsInv
<1>7. ASSUME NEW x \in Vars, NEW y \in Vars, Copy(x, y)
      PROVE  SlicesInv'
  <2>1. slice[y] \in SliceObject /\ WithinArray(slice[y], heap)
    BY DEF SlicesInv, SlicesTypeOK, SlicesInBounds
  <2>2. AsBytes(slice[y]) \in Seq(Data)
    BY <2>1, AsBytesType DEF SlicesInv
  <2>3. CopySlice(slice[x], AsBytes(slice[y]))
    BY <1>7 DEF Copy
  <2> QED BY <2>2, <2>3, CopyKeepsInv
<1>8. ASSUME NEW x \in Vars, NEW src \in Literals, CopyString(x, src)
      PROVE  SlicesInv'
  <2>1. CopySlice(slice[x], src)
    BY <1>8 DEF CopyString
  <2> QED BY <2>1, CopyKeepsInv
<1>9. CASE UNCHANGED vars
  BY <1>9 DEF vars, SlicesInv, SlicesTypeOK, SlicesInBounds, WithinArray
<1> QED BY <1>1, <1>2, <1>3, <1>4, <1>5, <1>6, <1>7, <1>8, <1>9 DEF SlicesNext

\* The inductive invariant of slices: windows inside their arrays, with the
\* types that keep them there.
THEOREM SlicesInvariant == SlicesSpec => []SlicesInv
BY SlicesInitInv, SlicesNextInv, PTL DEF SlicesSpec

\* No slice of any program that respects Go's bounds ever reaches past its
\* array, although append miscounts: the assertion of duplicate_extend stops
\* what the arithmetic of reallocate_slice would let through.
THEOREM SlicesStayInBounds == SlicesSpec => []SlicesInBounds
BY SlicesInvariant, PTL DEF SlicesInv

-----------------------------------------------------------------------------
(* What the operations do to the elements.  The cells of a window are those *)
(* of its array from the offset on, so the proofs compare one cell at a     *)
(* time.                                                                   *)

\* The cells a window has in given arrays: AsBytes before or after a step.
CellsIn(arrays, s) ==
  IF s.array = 0 THEN <<>>
  ELSE SubSeq(arrays[s.array], s.offset + 1, s.offset + s.capacity)

\* They are the cells of the array from the offset on.
LEMMA CellsAre ==
  ASSUME NEW arrays \in Seq(Seq(Data)), NEW s \in SliceObject, WithinArray(s, arrays)
  PROVE  /\ CellsIn(arrays, s) \in Seq(Data)
         /\ Len(CellsIn(arrays, s)) = s.capacity
         /\ \A i \in 1 .. s.capacity :
              CellsIn(arrays, s)[i] = arrays[s.array][s.offset + i]
<1>1. CASE s.array = 0
  BY <1>1 DEF CellsIn, WithinArray, SliceObject
<1>2. CASE s.array # 0
  <2>1. s.array \in 1 .. Len(arrays) /\ arrays[s.array] \in Seq(Data)
    BY <1>2 DEF WithinArray
  <2>2. /\ s.offset \in Nat /\ s.capacity \in Nat
        /\ s.offset + s.capacity <= Len(arrays[s.array])
    BY <1>2 DEF SliceObject, WithinArray
  <2> DEFINE row == arrays[s.array]
             o == s.offset
             k == s.capacity
  <2>3. row \in Seq(Data) /\ o \in Nat /\ k \in Nat /\ o + k <= Len(row)
    BY <2>1, <2>2
  <2> HIDE DEF row, o, k
  <2>4. /\ SubSeq(row, o + 1, o + k) \in Seq(Data)
        /\ Len(SubSeq(row, o + 1, o + k)) = k
        /\ \A i \in 1 .. k : SubSeq(row, o + 1, o + k)[i] = row[o + i]
    BY <2>3
  <2> QED BY <1>2, <2>4 DEF CellsIn, row, o, k
<1> QED BY <1>1, <1>2

\* Two sequences that agree on their first n cells have the same prefix.
LEMMA SamePrefix ==
  ASSUME NEW s \in Seq(Data), NEW r \in Seq(Data), NEW p \in Nat, NEW q \in Nat, NEW n \in Nat,
         p + n <= Len(s), q + n <= Len(r), \A i \in 1 .. n : s[p + i] = r[q + i]
  PROVE  SubSeq(s, p + 1, p + n) = SubSeq(r, q + 1, q + n)
<1> DEFINE a == SubSeq(s, p + 1, p + n)
           b == SubSeq(r, q + 1, q + n)
<1>1. a \in Seq(Data) /\ Len(a) = n /\ \A i \in 1 .. n : a[i] = s[p + i]
  OBVIOUS
<1>2. b \in Seq(Data) /\ Len(b) = n /\ \A i \in 1 .. n : b[i] = r[q + i]
  OBVIOUS
<1> HIDE DEF a, b
<1>3. a = b
  BY <1>1, <1>2, SeqEqual
<1> QED BY <1>3 DEF a, b

\* The prefix of a prefix.
LEMMA PrefixOfPrefix ==
  ASSUME NEW s \in Seq(Data), NEW m \in Nat, NEW n \in 0 .. m, m <= Len(s)
  PROVE  SubSeq(SubSeq(s, 1, m), 1, n) = SubSeq(s, 1, n)
<1> DEFINE r == SubSeq(s, 1, m)
<1>1. r \in Seq(Data) /\ Len(r) = m /\ \A i \in 1 .. m : r[i] = s[i]
  OBVIOUS
<1> HIDE DEF r
<1>2. SubSeq(r, 0 + 1, 0 + n) = SubSeq(s, 0 + 1, 0 + n)
  BY <1>1, SamePrefix
<1> QED BY <1>2 DEF r

\* A write inside a window replaces the cells it covers and no other.
LEMMA WriteSetsCells ==
  ASSUME SlicesTypeOK, NEW s \in SliceObject, WithinArray(s, heap),
         NEW k \in Nat, NEW new \in Seq(Data), k + Len(new) <= s.capacity,
         Write(s.array, s.offset + k, new)
  PROVE  \A i \in 1 .. s.capacity :
           CellsIn(heap', s)[i] = IF i \in k + 1 .. k + Len(new) THEN new[i - k]
                                  ELSE AsBytes(s)[i]
<1> DEFINE a == s.array
           o == s.offset
           c == s.capacity
<1>1. o \in Nat /\ c \in Nat /\ a \in Nat
  BY DEF SliceObject
<1>2. AsBytes(s) = CellsIn(heap, s)
  BY DEF AsBytes, CellsIn
<1>3. heap \in Seq(Seq(Data)) /\ heap' \in Seq(Seq(Data)) /\ WithinArray(s, heap')
  <2>1. heap \in Seq(Seq(Data)) /\ o + k \in Nat
    BY <1>1 DEF SlicesTypeOK
  <2> QED BY <1>1, <2>1, WriteKeepsLengths, LengthsKeepWindows
<1>4. \A i \in 1 .. c : /\ CellsIn(heap, s)[i] = heap[a][o + i]
                        /\ CellsIn(heap', s)[i] = heap'[a][o + i]
  BY <1>3, CellsAre
<1>5. CASE new = <<>>
  BY <1>1, <1>2, <1>5 DEF Write, CellsIn
<1>6. CASE new # <<>>
  <2>1. Len(new) \in Nat /\ Len(new) > 0
    BY <1>6, EmptySeq
  <2>2. a \in 1 .. Len(heap) /\ heap[a] \in Seq(Data) /\ o + c <= Len(heap[a])
    BY <1>1, <1>3, <2>1 DEF WithinArray
  <2>3. heap'[a] = Overwritten(a, o + k, new)
    BY <1>3, <1>6, <2>2 DEF Write
  <2>4. \A j \in 1 .. Len(heap[a]) :
          heap'[a][j] = IF j \in (o + k) + 1 .. (o + k) + Len(new) THEN new[j - (o + k)]
                        ELSE heap[a][j]
    BY <2>3 DEF Overwritten
  <2>5. ASSUME NEW i \in 1 .. c
        PROVE  CellsIn(heap', s)[i] = IF i \in k + 1 .. k + Len(new) THEN new[i - k]
                                      ELSE AsBytes(s)[i]
    <3>1. o + i \in 1 .. Len(heap[a])
      <4>1. Len(heap[a]) \in Nat /\ i \in Nat /\ 1 <= i /\ i <= c /\ o + c <= Len(heap[a])
        BY <1>1, <2>2
      <4> HIDE DEF a, o, c
      <4> QED BY <1>1, <4>1
    <3>2. o + i \in (o + k) + 1 .. (o + k) + Len(new) <=> i \in k + 1 .. k + Len(new)
      BY <1>1, <2>1
    <3>3. (o + i) - (o + k) = i - k
      BY <1>1
    <3> QED BY <1>2, <1>4, <2>4, <3>1, <3>2, <3>3
  <2> QED BY <2>5
<1> QED BY <1>5, <1>6


\* What an append that did not fail has put behind the window it returns: the
\* first size cells of its first operand, the cells of the second where they do
\* not overlap, and then nothing the program has seen.
LEMMA ReallocateSetsCells ==
  ASSUME SlicesInv, NEW x \in Vars, NEW y \in Vars, NEW new \in Seq(Data), NEW d \in Int,
         ReallocateSlice(x, slice[y], new, d), ~aborted'
  PROVE  LET base == slice[y]
             cells == CellsIn(heap', slice'[x])
         IN  /\ heap' \in Seq(Seq(Data))
             /\ slice'[x] \in SliceObject /\ WithinArray(slice'[x], heap')
             /\ base.size <= slice'[x].size
             /\ base.size + Len(new) <= slice'[x].capacity
             /\ \A i \in 1 .. base.size : cells[i] = AsBytes(base)[i]
             /\ d = 0 => \A i \in 1 .. Len(new) : cells[base.size + i] = new[i]
<1> DEFINE base == slice[y]
           n == base.size + Len(new)
<1>1. base \in SliceObject /\ WithinArray(base, heap) /\ SlicesTypeOK
  BY DEF SlicesInv, SlicesTypeOK, SlicesInBounds
<1>2. /\ base.size \in Nat /\ base.capacity \in Nat /\ base.offset \in Nat /\ base.array \in Nat
      /\ base.size <= base.capacity /\ Len(new) \in Nat
  BY <1>1 DEF SliceObject, WithinArray
<1>3. SlicesInv'
  BY ReallocateKeepsInv
<1>4. heap' \in Seq(Seq(Data)) /\ slice'[x] \in SliceObject /\ WithinArray(slice'[x], heap')
  BY <1>3 DEF SlicesInv, SlicesTypeOK, SlicesInBounds
<1>5. slice \in [Vars -> SliceObject]
  BY DEF SlicesInv, SlicesTypeOK
<1>6. CASE n > base.capacity
  <2> DEFINE moved == Reallocated(base, new)
  <2>1. Allocate(moved, x, n)
    BY <1>6 DEF ReallocateSlice
  <2>2. /\ DOMAIN moved = 1 .. 2 * n
        /\ \A i \in 1 .. 2 * n : moved[i] = IF i <= base.size THEN AsBytes(base)[i]
                                           ELSE IF i <= n THEN new[i - base.size] ELSE Zero
    BY DEF Reallocated
  <2>3. AsBytes(base) \in Seq(Data) /\ Len(AsBytes(base)) = base.capacity
    BY <1>1, AsBytesType
  <2>4. moved \in Seq(Data) /\ Len(moved) = 2 * n
    <3>1. ASSUME NEW i \in 1 .. 2 * n PROVE moved[i] \in Data
      <4>1. CASE i <= base.size
        <5>1. i \in 1 .. base.capacity
          BY <1>2, <4>1
        <5> QED BY <2>2, <2>3, <4>1, <5>1
      <4>2. CASE ~(i <= base.size) /\ i <= n
        <5>1. i - base.size \in 1 .. Len(new)
          BY <1>2, <4>2
        <5> QED BY <2>2, <4>2, <5>1
      <4>3. CASE ~(i <= base.size) /\ ~(i <= n)
        BY <2>2, <4>3, SliceConstants
      <4> QED BY <4>1, <4>2, <4>3
    <3>2. moved = [i \in 1 .. 2 * n |-> moved[i]]
      BY <2>2 DEF Reallocated
    <3>3. 2 * n \in Nat
      BY <1>2
    <3> HIDE DEF moved, n
    <3> QED BY <3>1, <3>2, <3>3
  <2>5. /\ slice'[x].array = Len(heap) + 1 /\ slice'[x].offset = 0
        /\ slice'[x].size = n /\ slice'[x].capacity = 2 * n
        /\ heap'[Len(heap) + 1] = moved
    <3>1. heap \in Seq(Seq(Data))
      BY <1>1 DEF SlicesTypeOK
    <3>2. slice'[x] = Window(Len(heap) + 1, 0, n, Len(moved)) /\ heap' = Append(heap, moved)
      BY <1>5, <2>1 DEF Allocate
    <3> HIDE DEF moved, n
    <3> QED BY <2>4, <3>1, <3>2 DEF Window
  <2>6. \A i \in 1 .. 2 * n : CellsIn(heap', slice'[x])[i] = moved[i]
    <3>1. \A i \in 1 .. slice'[x].capacity :
            CellsIn(heap', slice'[x])[i] = heap'[slice'[x].array][slice'[x].offset + i]
      BY <1>4, CellsAre
    <3>2. \A i \in 1 .. 2 * n : 0 + i = i
      BY <1>2
    <3> QED BY <2>5, <3>1, <3>2
  <2>7. \A i \in 1 .. base.size : CellsIn(heap', slice'[x])[i] = AsBytes(base)[i]
    BY <1>2, <2>2, <2>6
  <2>8. \A i \in 1 .. Len(new) : CellsIn(heap', slice'[x])[base.size + i] = new[i]
    <3> TAKE i \in 1 .. Len(new)
    <3>1. /\ base.size + i \in 1 .. 2 * n /\ ~(base.size + i <= base.size)
          /\ base.size + i <= n /\ (base.size + i) - base.size = i
      BY <1>2
    <3> QED BY <2>2, <2>6, <3>1
  <2>9. base.size <= slice'[x].size /\ n <= slice'[x].capacity
    BY <1>2, <2>5
  <2> QED BY <1>4, <2>7, <2>8, <2>9
<1>7. CASE ~(n > base.capacity)
  <2> DEFINE s == DuplicateExtend(base, base.size)
  <2>1. PICK cells \in MemcpyOutcomes(new, d) :
          Write(base.array, base.offset + base.size, cells)
    BY <1>7 DEF ReallocateSlice
  <2>2. slice'[x] = s /\ s.array = base.array /\ s.offset = base.offset
        /\ s.size = base.size + base.size /\ s.capacity = base.capacity
    BY <1>5, <1>7 DEF ReallocateSlice, DuplicateExtend, Window
  <2>3. cells \in Seq(Data) /\ Len(cells) = Len(new)
    BY <2>1, MemcpyType
  <2>4. CellsIn(heap', slice'[x]) = CellsIn(heap', base)
    BY <2>2 DEF CellsIn
  <2>5. base.size + Len(cells) <= base.capacity
    BY <1>2, <1>7, <2>3
  <2>6. \A i \in 1 .. base.capacity :
          CellsIn(heap', base)[i] =
            IF i \in base.size + 1 .. base.size + Len(cells) THEN cells[i - base.size]
            ELSE AsBytes(base)[i]
    <3> HIDE DEF base
    <3> QED BY <1>1, <1>2, <2>1, <2>3, <2>5, WriteSetsCells
  <2>7. \A i \in 1 .. base.size : CellsIn(heap', base)[i] = AsBytes(base)[i]
    BY <1>2, <2>3, <2>6
  <2>8. d = 0 => cells = new
    BY <2>1 DEF MemcpyOutcomes
  <2>9. d = 0 => \A i \in 1 .. Len(new) : CellsIn(heap', base)[base.size + i] = new[i]
    <3> SUFFICES ASSUME d = 0, NEW i \in 1 .. Len(new)
                 PROVE  CellsIn(heap', base)[base.size + i] = new[i]
      OBVIOUS
    <3>1. /\ base.size + i \in 1 .. base.capacity
          /\ base.size + i \in base.size + 1 .. base.size + Len(cells)
          /\ (base.size + i) - base.size = i
      <4>1. Len(cells) = Len(new) /\ i \in 1 .. Len(new) /\ base.size \in Nat
        BY <1>2, <2>3
      <4> HIDE DEF base
      <4> QED BY <1>2, <2>5, <4>1
    <3> QED BY <2>6, <2>8, <3>1
  <2>10. base.size <= slice'[x].size /\ n <= slice'[x].capacity
    BY <1>2, <1>7, <2>2
  <2> QED BY <1>4, <2>4, <2>7, <2>9, <2>10
<1> QED BY <1>6, <1>7

\* append as the program calls it: the operand of reallocate_slice is typed.
LEMMA AppendReallocates ==
  ASSUME SlicesInv, NEW x \in Vars, NEW y \in Vars, NEW z \in Vars, AppendSlice(x, y, z)
  PROVE  /\ AsBytes(slice[z]) \in Seq(Data)
         /\ Len(AsBytes(slice[z])) = slice[z].capacity
         /\ Distance(slice[y], slice[z]) \in Int
         /\ ReallocateSlice(x, slice[y], AsBytes(slice[z]), Distance(slice[y], slice[z]))
<1>1. /\ slice[y] \in SliceObject
      /\ slice[z] \in SliceObject /\ WithinArray(slice[z], heap) /\ SlicesTypeOK
  BY DEF SlicesInv, SlicesTypeOK, SlicesInBounds
<1>2. Distance(slice[y], slice[z]) \in Int
  BY <1>1 DEF Distance, SliceObject
<1> QED BY <1>1, <1>2, AsBytesType DEF AppendSlice


\* What append returns begins with its first operand, whether it moved or grew
\* in place, and even when the second operand overlaps the cells it writes: an
\* undefined memcpy still writes past the size only.
THEOREM AppendsKeepTheirOperand == SlicesSpec => AppendKeepsOperand
<1>1. SlicesInv =>
        \A x, y, z \in Vars : AppendSlice(x, y, z) /\ ~aborted' =>
          SubSeq(Elements(slice[x])', 1, slice[y].size) = Elements(slice[y])
  <2> SUFFICES ASSUME SlicesInv, NEW x \in Vars, NEW y \in Vars, NEW z \in Vars,
                      AppendSlice(x, y, z), ~aborted'
               PROVE  SubSeq(Elements(slice[x])', 1, slice[y].size) = Elements(slice[y])
    OBVIOUS
  <2> DEFINE new == AsBytes(slice[z])
             k == slice[y].size
             m == slice'[x].size
             cells == CellsIn(heap', slice'[x])
             old == AsBytes(slice[y])
  <2>1. new \in Seq(Data) /\ Distance(slice[y], slice[z]) \in Int
        /\ ReallocateSlice(x, slice[y], new, Distance(slice[y], slice[z]))
    BY AppendReallocates
  <2>2. /\ heap' \in Seq(Seq(Data))
        /\ slice'[x] \in SliceObject /\ WithinArray(slice'[x], heap')
        /\ k <= m /\ \A i \in 1 .. k : cells[i] = old[i]
    <3> HIDE DEF new
    <3> QED BY <2>1, ReallocateSetsCells
  <2>3. /\ slice[y] \in SliceObject /\ WithinArray(slice[y], heap) /\ SlicesTypeOK
    BY DEF SlicesInv, SlicesTypeOK, SlicesInBounds
  <2>4. /\ old \in Seq(Data) /\ Len(old) = slice[y].capacity
        /\ k \in Nat /\ k <= slice[y].capacity /\ slice[y].capacity \in Nat
    BY <2>3, AsBytesType DEF WithinArray, SliceObject
  <2>5. /\ cells \in Seq(Data) /\ Len(cells) = slice'[x].capacity
        /\ m \in Nat /\ m <= slice'[x].capacity /\ slice'[x].capacity \in Nat
    BY <2>2, CellsAre DEF WithinArray, SliceObject
  <2>6. Elements(slice[x])' = SubSeq(cells, 1, m) /\ Elements(slice[y]) = SubSeq(old, 1, k)
    BY DEF Elements, AsBytes, CellsIn
  <2> HIDE DEF cells, old, k, m
  <2>7. SubSeq(SubSeq(cells, 1, m), 1, k) = SubSeq(cells, 1, k)
    BY <2>2, <2>4, <2>5, PrefixOfPrefix
  <2>8. SubSeq(cells, 0 + 1, 0 + k) = SubSeq(old, 0 + 1, 0 + k)
    <3>1. \A i \in 1 .. k : cells[0 + i] = old[0 + i]
      BY <2>2, <2>4
    <3>2. 0 + k <= Len(cells) /\ 0 + k <= Len(old)
      BY <2>2, <2>4, <2>5
    <3> QED BY <2>4, <2>5, <3>1, <3>2, SamePrefix
  <2>9. SubSeq(cells, 1, k) = SubSeq(old, 1, k)
    BY <2>4, <2>8
  <2> QED BY <2>6, <2>7, <2>9 DEF k
<1> QED BY <1>1, SlicesInitInv, SlicesNextInv, PTL DEF SlicesSpec, AppendKeepsOperand


\* The elements of the second operand follow in memory when its array is
\* another one, also those that the size of the result, miscounted by
\* duplicate_extend, leaves out or exceeds.
THEOREM AppendsBringTheirElements == SlicesSpec => AppendBringsElements
<1>1. SlicesInv =>
        \A x, y, z \in Vars :
          /\ AppendSlice(x, y, z)
          /\ ~aborted'
          /\ slice[y].array # slice[z].array
          => SubSeq(AsBytes(slice[x])', slice[y].size + 1, slice[y].size + slice[z].size)
               = Elements(slice[z])
  <2> SUFFICES ASSUME SlicesInv, NEW x \in Vars, NEW y \in Vars, NEW z \in Vars,
                      AppendSlice(x, y, z), ~aborted', slice[y].array # slice[z].array
               PROVE  SubSeq(AsBytes(slice[x])', slice[y].size + 1,
                             slice[y].size + slice[z].size) = Elements(slice[z])
    OBVIOUS
  <2> DEFINE new == AsBytes(slice[z])
             k == slice[y].size
             l == slice[z].size
             cells == CellsIn(heap', slice'[x])
  <2>1. /\ new \in Seq(Data) /\ Len(new) = slice[z].capacity
        /\ Distance(slice[y], slice[z]) \in Int
        /\ ReallocateSlice(x, slice[y], new, Distance(slice[y], slice[z]))
    BY AppendReallocates
  <2>2. Distance(slice[y], slice[z]) = 0
    BY DEF Distance
  <2>3. /\ heap' \in Seq(Seq(Data))
        /\ slice'[x] \in SliceObject /\ WithinArray(slice'[x], heap')
        /\ k + Len(new) <= slice'[x].capacity
        /\ \A i \in 1 .. Len(new) : cells[k + i] = new[i]
    <3> HIDE DEF new
    <3> QED BY <2>1, <2>2, ReallocateSetsCells
  <2>4. /\ slice[y] \in SliceObject /\ slice[z] \in SliceObject /\ WithinArray(slice[z], heap)
    BY DEF SlicesInv, SlicesTypeOK, SlicesInBounds
  <2>5. k \in Nat /\ l \in Nat /\ l <= Len(new)
    BY <2>1, <2>4 DEF WithinArray, SliceObject
  <2>6. cells \in Seq(Data) /\ Len(cells) = slice'[x].capacity /\ slice'[x].capacity \in Nat
    BY <2>3, CellsAre DEF SliceObject
  <2>7. AsBytes(slice[x])' = cells /\ Elements(slice[z]) = SubSeq(new, 1, l)
    BY DEF Elements, AsBytes, CellsIn
  <2> HIDE DEF cells, new, k, l
  <2>8. SubSeq(cells, k + 1, k + l) = SubSeq(new, 0 + 1, 0 + l)
    <3>1. \A i \in 1 .. l : cells[k + i] = new[0 + i]
      BY <2>1, <2>3, <2>5
    <3>2. k + l <= Len(cells) /\ 0 + l <= Len(new)
      BY <2>1, <2>3, <2>5, <2>6
    <3> QED BY <2>1, <2>5, <2>6, <3>1, <3>2, SamePrefix
  <2>9. SubSeq(cells, k + 1, k + l) = SubSeq(new, 1, l)
    BY <2>5, <2>8
  <2> QED BY <2>7, <2>9 DEF k, l
<1> QED BY <1>1, SlicesInitInv, SlicesNextInv, PTL DEF SlicesSpec, AppendBringsElements

-----------------------------------------------------------------------------

\* A step that changes an array allocates none: an append that does not fit
\* copies, so slices that shared an array with its operand do not see it grow.
THEOREM GrowthStaysPrivate == SlicesSpec => GrowthIsPrivate
<1> DEFINE Private == \A i \in DOMAIN heap : heap'[i] # heap[i] => Len(heap') = Len(heap)
<1>1. ASSUME SlicesInv, NEW cells, NEW x \in Vars, NEW n, Allocate(cells, x, n)
      PROVE  Private
  BY <1>1 DEF Allocate, SlicesInv, SlicesTypeOK
<1>2. ASSUME SlicesInv, NEW a \in Nat, NEW p \in Nat, NEW new \in Seq(Data), Write(a, p, new)
      PROVE  Private
  <2>1. Len(heap') = Len(heap)
    BY <1>2, WriteKeepsLengths DEF SlicesInv, SlicesTypeOK
  <2> QED BY <2>1
<1>3. ASSUME UNCHANGED heap PROVE Private
  BY <1>3
<1>4. ASSUME SlicesInv, NEW x \in Vars, NEW y \in Vars, NEW new \in Seq(Data), NEW d \in Int,
             ReallocateSlice(x, slice[y], new, d)
      PROVE  Private
  <2> DEFINE base == slice[y]
  <2>1. base.array \in Nat /\ base.offset + base.size \in Nat
    BY <1>4 DEF SlicesInv, SlicesTypeOK, SliceObject
  <2>2. CASE base.size + Len(new) > base.capacity
    <3>1. Allocate(Reallocated(base, new), x, base.size + Len(new))
      BY <1>4, <2>2 DEF ReallocateSlice
    <3> QED BY <1>1, <1>4, <3>1
  <2>3. CASE ~(base.size + Len(new) > base.capacity) /\ MayExtend(base, base.size)
    <3>1. PICK cells \in MemcpyOutcomes(new, d) :
            Write(base.array, base.offset + base.size, cells)
      BY <1>4, <2>3 DEF ReallocateSlice
    <3>2. cells \in Seq(Data)
      BY <1>4, <3>1, MemcpyType
    <3> HIDE DEF base, Private
    <3> QED BY <1>2, <1>4, <2>1, <3>1, <3>2
  <2>4. CASE ~(base.size + Len(new) > base.capacity) /\ ~MayExtend(base, base.size)
    BY <1>3, <1>4, <2>4 DEF ReallocateSlice
  <2> QED BY <2>2, <2>3, <2>4
<1>5. ASSUME SlicesInv, NEW x \in Vars, NEW src \in Seq(Data), CopySlice(slice[x], src)
      PROVE  Private
  <2> DEFINE n == CopyResult(slice[x], src)
  <2>1. slice[x].array \in Nat /\ slice[x].offset \in Nat /\ slice[x].size \in Nat
    BY <1>5 DEF SlicesInv, SlicesTypeOK, SliceObject
  <2>2. n \in 0 .. Len(src)
    BY <1>5, <2>1 DEF CopyResult, Smaller
  <2>3. SubSeq(src, 1, n) \in Seq(Data)
    BY <1>5, <2>2
  <2>4. Write(slice[x].array, slice[x].offset, SubSeq(src, 1, n))
    BY <1>5 DEF CopySlice
  <2> HIDE DEF n, Private
  <2> QED BY <1>2, <1>5, <2>1, <2>3, <2>4
<1>6. SlicesInv /\ [SlicesNext]_vars => [Private]_vars
  <2> SUFFICES ASSUME SlicesInv, SlicesNext PROVE Private
    BY DEF vars
  <2>1. ASSUME NEW x \in Vars, NEW c, NEW n, MakeSlice(x, n, c) PROVE Private
    <3> HIDE DEF Private
    <3> QED BY <1>1, <2>1 DEF MakeSlice
  <2>2. ASSUME NEW x \in Vars, NEW y \in Vars, NEW low, NEW high, SliceExpr(x, y, low, high)
        PROVE  Private
    BY <1>3, <2>2 DEF SliceExpr
  <2>3. ASSUME NEW x \in Vars, NEW y \in Vars, NEW low, SliceFrom(x, y, low) PROVE Private
    BY <2>2, <2>3 DEF SliceFrom
  <2>4. ASSUME NEW x \in Vars, NEW i, NEW d, Store(x, i, d) PROVE Private
    <3>1. Len(heap') = Len(heap)
      BY <2>4 DEF Store, SlicesInv, SlicesTypeOK
    <3> QED BY <3>1
  <2>5. ASSUME NEW x \in Vars, NEW y \in Vars, NEW z \in Vars, AppendSlice(x, y, z)
        PROVE  Private
    <3> HIDE DEF Private
    <3> QED BY <1>4, <2>5, AppendReallocates
  <2>6. ASSUME NEW x \in Vars, NEW y \in Vars, NEW new \in Literals, AppendValues(x, y, new)
        PROVE  Private
    <3>1. new \in Seq(Data) /\ 0 \in Int
      BY SliceConstants
    <3> HIDE DEF Private
    <3> QED BY <1>4, <2>6, <3>1 DEF AppendValues
  <2>7. ASSUME NEW x \in Vars, NEW y \in Vars, Copy(x, y) PROVE Private
    <3>1. AsBytes(slice[y]) \in Seq(Data)
      BY AsBytesType DEF SlicesInv, SlicesTypeOK, SlicesInBounds
    <3> HIDE DEF Private
    <3> QED BY <1>5, <2>7, <3>1 DEF Copy
  <2>8. ASSUME NEW x \in Vars, NEW src \in Literals, CopyString(x, src) PROVE Private
    <3>1. src \in Seq(Data)
      BY SliceConstants
    <3> HIDE DEF Private
    <3> QED BY <1>5, <2>8, <3>1 DEF CopyString
  <2>9. CASE UNCHANGED vars
    BY <1>3, <2>9 DEF vars
  <2> QED BY <2>1, <2>2, <2>3, <2>4, <2>5, <2>6, <2>7, <2>8, <2>9 DEF SlicesNext
<1> QED BY <1>6, SlicesInitInv, SlicesNextInv, PTL DEF SlicesSpec, GrowthIsPrivate

\* copy moves all its elements at once, overlap or not, and touches no cell
\* past the destination's size.
THEOREM CopiesAreSimultaneous == SlicesSpec => CopyIsSimultaneous
<1>1. ASSUME SlicesInv, NEW x \in Vars, NEW y \in Vars, Copy(x, y)
      PROVE  LET n == Smaller(slice[x].size, slice[y].size)
             IN  /\ SubSeq(Elements(slice[x])', 1, n) = SubSeq(Elements(slice[y]), 1, n)
                 /\ SubSeq(AsBytes(slice[x])', slice[x].size + 1, slice[x].capacity)
                      = SubSeq(AsBytes(slice[x]), slice[x].size + 1, slice[x].capacity)
  <2> DEFINE s == slice[x]
             r == slice[y]
             src == AsBytes(r)
             old == AsBytes(s)
             cells == CellsIn(heap', s)
             n == Smaller(s.size, r.size)
             m == CopyResult(s, src)
             moved == SubSeq(src, 1, m)
  <2>1. /\ s \in SliceObject /\ WithinArray(s, heap)
        /\ r \in SliceObject /\ WithinArray(r, heap) /\ SlicesTypeOK
    BY <1>1 DEF SlicesInv, SlicesTypeOK, SlicesInBounds
  <2>2. /\ s.size \in Nat /\ s.capacity \in Nat /\ s.size <= s.capacity
        /\ r.size \in Nat /\ r.capacity \in Nat /\ r.size <= r.capacity
        /\ s.offset \in Nat /\ s.array \in Nat
    BY <2>1 DEF SliceObject, WithinArray
  <2>3. /\ src \in Seq(Data) /\ Len(src) = r.capacity
        /\ old \in Seq(Data) /\ Len(old) = s.capacity
    BY <2>1, AsBytesType
  <2>4. m \in 0 .. Len(src) /\ m <= s.size /\ n \in Nat /\ n <= m /\ n <= r.size /\ n <= s.size
    BY <2>2, <2>3 DEF CopyResult, Smaller
  <2>5. Write(s.array, s.offset, moved) /\ slice' = slice
    BY <1>1 DEF Copy, CopySlice
  <2>6. SlicesInv'
    <3> HIDE DEF src
    <3> QED BY <1>1, <2>3, CopyKeepsInv DEF Copy, src
  <2>7. heap' \in Seq(Seq(Data)) /\ WithinArray(s, heap')
    BY <2>5, <2>6 DEF SlicesInv, SlicesTypeOK, SlicesInBounds
  <2>8. cells \in Seq(Data) /\ Len(cells) = s.capacity
    <3> HIDE DEF s
    <3> QED BY <2>1, <2>7, CellsAre
  <2>9. /\ Elements(slice[x])' = SubSeq(cells, 1, s.size) /\ AsBytes(slice[x])' = cells
        /\ Elements(slice[y]) = SubSeq(src, 1, r.size)
    BY <2>5 DEF Elements, AsBytes, CellsIn
  <2>10. moved \in Seq(Data) /\ Len(moved) = m /\ \A i \in 1 .. m : moved[i] = src[i]
    <3> HIDE DEF src, m
    <3> QED BY <2>3, <2>4
  <2>11. \A i \in 1 .. s.capacity :
           cells[i] = IF i \in 1 .. m THEN src[i] ELSE old[i]
    <3>1. Write(s.array, s.offset + 0, moved) /\ 0 + Len(moved) <= s.capacity
      <4> HIDE DEF s, m, moved
      <4> QED BY <2>2, <2>4, <2>5, <2>10
    <3>2. \A i \in 1 .. s.capacity :
            cells[i] = IF i \in 0 + 1 .. 0 + Len(moved) THEN moved[i - 0] ELSE old[i]
      <4> HIDE DEF s, m, moved
      <4> QED BY <2>1, <2>10, <3>1, WriteSetsCells DEF old, cells
    <3> HIDE DEF s, m, moved, cells, old, src
    <3> QED BY <2>4, <2>10, <3>2
  <2> HIDE DEF s, r, src, old, cells, n, m, moved
  <2>12. SubSeq(SubSeq(cells, 1, s.size), 1, n) = SubSeq(SubSeq(src, 1, r.size), 1, n)
    <3>1. SubSeq(SubSeq(cells, 1, s.size), 1, n) = SubSeq(cells, 1, n)
      BY <2>2, <2>4, <2>8, PrefixOfPrefix
    <3>2. SubSeq(SubSeq(src, 1, r.size), 1, n) = SubSeq(src, 1, n)
      BY <2>2, <2>3, <2>4, PrefixOfPrefix
    <3>3. \A i \in 1 .. n : cells[0 + i] = src[0 + i]
      BY <2>2, <2>4, <2>11
    <3>4. 0 + n <= Len(cells) /\ 0 + n <= Len(src)
      BY <2>2, <2>3, <2>4, <2>8
    <3>5. SubSeq(cells, 0 + 1, 0 + n) = SubSeq(src, 0 + 1, 0 + n)
      BY <2>3, <2>4, <2>8, <3>3, <3>4, SamePrefix
    <3>6. SubSeq(cells, 1, n) = SubSeq(src, 1, n)
      BY <2>4, <3>5
    <3> QED BY <3>1, <3>2, <3>6
  <2>13. SubSeq(cells, s.size + 1, s.capacity) = SubSeq(old, s.size + 1, s.capacity)
    <3> DEFINE rest == s.capacity - s.size
    <3>1. rest \in Nat /\ s.size + rest = s.capacity
      BY <2>2
    <3>2. \A i \in 1 .. rest : cells[s.size + i] = old[s.size + i]
      <4> TAKE i \in 1 .. rest
      <4>1. s.size + i \in 1 .. s.capacity /\ s.size + i \notin 1 .. m
        BY <2>2, <2>4
      <4> QED BY <2>11, <4>1
    <3> HIDE DEF rest
    <3>3. SubSeq(cells, s.size + 1, s.size + rest) = SubSeq(old, s.size + 1, s.size + rest)
      <4>1. s.size + rest <= Len(cells) /\ s.size + rest <= Len(old)
        BY <2>2, <2>3, <2>8, <3>1
      <4> DEFINE k == s.size
      <4>2. /\ k \in Nat /\ k + rest <= Len(cells) /\ k + rest <= Len(old)
            /\ \A i \in 1 .. rest : cells[k + i] = old[k + i]
        BY <2>2, <3>2, <4>1
      <4> HIDE DEF k
      <4>3. SubSeq(cells, k + 1, k + rest) = SubSeq(old, k + 1, k + rest)
        BY <2>3, <2>8, <3>1, <4>2, SamePrefix
      <4> QED BY <4>3 DEF k
    <3> QED BY <3>1, <3>3
  <2> QED BY <2>9, <2>12, <2>13 DEF s, r, n, old
<1>2. SlicesInv =>
        \A x, y \in Vars : Copy(x, y) =>
          LET n == Smaller(slice[x].size, slice[y].size)
          IN  /\ SubSeq(Elements(slice[x])', 1, n) = SubSeq(Elements(slice[y]), 1, n)
              /\ SubSeq(AsBytes(slice[x])', slice[x].size + 1, slice[x].capacity)
                   = SubSeq(AsBytes(slice[x]), slice[x].size + 1, slice[x].capacity)
  BY <1>1
<1> QED BY <1>2, SlicesInitInv, SlicesNextInv, PTL DEF SlicesSpec, CopyIsSimultaneous

=============================================================================
