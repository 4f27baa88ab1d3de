-------------------------------- MODULE Slices --------------------------------
(***************************************************************************)
(* Slices that share arrays: slice expressions and element stores as        *)
(* generated by src/cgen/main.go, append and copy as in                     *)
(* src/src/api/slice.rs.  A slice is a window on an array; size says how    *)
(* much of the window the program sees, capacity how far it reaches.        *)
(*                                                                         *)
(* Lengths are counted in elements: every byte length in slice.rs is a      *)
(* multiple of the element size.  Programs respect Go's bounds (generated   *)
(* code does not test them).                                               *)
(***************************************************************************)
EXTENDS Integers, Sequences

CONSTANTS
  Vars,        \* the slice variables of a program
  Data,        \* the values of an element
  Zero,        \* its zero value
  Literals,    \* the sequences a program appends or copies from
  MaxMade,     \* bound: the capacity make is asked for
  MaxArrays,   \* bound: arrays allocated in one behaviour
  MaxLength    \* bound: the length of an array

ASSUME SliceConstants ==
  /\ Zero \in Data
  /\ Literals \subseteq Seq(Data)
  /\ MaxMade \in Nat
  /\ MaxArrays \in Nat
  /\ MaxLength \in Nat

VARIABLES
  heap,     \* the arrays allocated so far; none is ever freed
  slice,    \* the value of each slice variable
  aborted   \* an assertion of the runtime has failed

vars == <<heap, slice, aborted>>

Window(a, o, n, c) == [array |-> a, offset |-> o, size |-> n, capacity |-> c]
Nil == Window(0, 0, 0, 0)

SliceObject == [array : 0 .. MaxArrays, offset : Nat, size : Nat, capacity : Nat]

\* as_bytes: the CAPACITY of the slice, not its size.
AsBytes(s) ==
  IF s.array = 0 THEN <<>>
  ELSE SubSeq(heap[s.array], s.offset + 1, s.offset + s.capacity)

\* What the program sees.
Elements(s) == SubSeq(AsBytes(s), 1, s.size)

SlicesInit ==
  /\ heap = <<>>
  /\ slice = [x \in Vars |-> Nil]
  /\ aborted = FALSE

-----------------------------------------------------------------------------
(* Arrays.                                                                 *)

\* Mutant of Allocate: the array x had is moved, as by realloc.
AllocateMoves(cells, x, n) ==
  /\ ~aborted
  /\ Len(heap) < MaxArrays
  /\ Len(cells) <= MaxLength
  /\ heap' = Append([a \in DOMAIN heap |->
                      IF a = slice[x].array THEN [i \in DOMAIN heap[a] |-> Zero]
                                            ELSE heap[a]], cells)
  /\ slice' = [slice EXCEPT ![x] = Window(Len(heap) + 1, 0, n, Len(cells))]
  /\ UNCHANGED aborted

\* allocate: a new array behind a window on all of it.
Allocate(cells, x, n) ==
  /\ ~aborted
  /\ Len(heap) < MaxArrays
  /\ Len(cells) <= MaxLength
  /\ heap' = Append(heap, cells)
  /\ slice' = [slice EXCEPT ![x] = Window(Len(heap) + 1, 0, n, Len(cells))]
  /\ UNCHANGED aborted

\* Array a with the cells from position p + 1 on replaced by new.
Overwritten(a, p, new) ==
  [i \in 1 .. Len(heap[a]) |->
     IF i \in p + 1 .. p + Len(new) THEN new[i - p] ELSE heap[a][i]]

Write(a, p, new) ==
  heap' = IF new = <<>> THEN heap ELSE [heap EXCEPT ![a] = Overwritten(a, p, new)]

\* clone_from_slice of plain data is a memcpy.  When the source, which starts
\* d cells before the destination (after it when d < 0), overlaps it, the
\* outcome is undefined: as if it had been moved, or repeated cell by cell.
MemcpyOutcomes(cells, d) ==
  {cells}
    \cup (IF d \in 1 .. Len(cells) - 1
          THEN {[i \in 1 .. Len(cells) |-> cells[((i - 1) % d) + 1]]} ELSE {})
    \cup (IF -d \in 1 .. Len(cells) - 1
          THEN {[i \in 1 .. Len(cells) |-> cells[Len(cells) - ((Len(cells) - i) % (-d))]]}
          ELSE {})

-----------------------------------------------------------------------------
(* Operations of generated code.                                           *)

\* x = make([]T, n, c)
MakeSlice(x, n, c) == Allocate([i \in 1 .. c |-> Zero], x, n)

\* Mutant of SliceExpr: the capacity is counted from the start of the array.
SliceExprOfArray(x, y, low, high) ==
  /\ ~aborted
  /\ low <= high
  /\ high <= slice[y].capacity
  /\ slice' = [slice EXCEPT ![x] =
       Window(slice[y].array, slice[y].offset + low, high - low,
              slice[y].capacity - (slice[y].offset + low))]
  /\ UNCHANGED <<heap, aborted>>

\* x = y[low:high]
SliceExpr(x, y, low, high) ==
  /\ ~aborted
  /\ low <= high
  /\ high <= slice[y].capacity
  /\ slice' = [slice EXCEPT ![x] =
       Window(slice[y].array, slice[y].offset + low, high - low,
              slice[y].capacity - low)]
  /\ UNCHANGED <<heap, aborted>>

\* x = y[low:] takes all of the capacity.
SliceFrom(x, y, low) ==
  /\ low <= slice[y].size
  /\ SliceExpr(x, y, low, slice[y].capacity)

\* x[i] = d
Store(x, i, d) ==
  /\ ~aborted
  /\ i < slice[x].size
  /\ heap' = [heap EXCEPT ![slice[x].array][slice[x].offset + i + 1] = d]
  /\ UNCHANGED <<slice, aborted>>

-----------------------------------------------------------------------------
(* append                                                                  *)

\* duplicate_extend(n) and its assertion
DuplicateExtend(s, n) == Window(s.array, s.offset, s.size + n, s.capacity)

\* Mutant of MayExtend: the assertion is missing.
ExtendAlways(s, n) == TRUE

MayExtend(s, n) == s.size + n <= s.capacity

\* Mutant of Reallocated: the new elements are left out.
ReallocatedZeroes(base, new) ==
  [i \in 1 .. 2 * (base.size + Len(new)) |->
     IF i <= base.size THEN AsBytes(base)[i] ELSE Zero]

\* Mutant of Reallocated: the old elements are left out.
ReallocatedAfresh(base, new) ==
  [i \in 1 .. 2 * (base.size + Len(new)) |->
     IF i \in base.size + 1 .. base.size + Len(new) THEN new[i - base.size] ELSE Zero]

\* Twice the new size, the elements of base and then the new ones, then zeroes.
Reallocated(base, new) ==
  LET n == base.size + Len(new)
  IN  [i \in 1 .. 2 * n |-> IF i <= base.size THEN AsBytes(base)[i]
                            ELSE IF i <= n THEN new[i - base.size] ELSE Zero]

\* reallocate_slice, for elements that are cells away from the end of base.
ReallocateSlice(x, base, new, distance) ==
  IF base.size + Len(new) > base.capacity
  THEN Allocate(Reallocated(base, new), x, base.size + Len(new))
  ELSE /\ ~aborted
       /\ IF MayExtend(base, base.size)
          THEN /\ slice' = [slice EXCEPT ![x] = DuplicateExtend(base, base.size)]
               /\ \E cells \in MemcpyOutcomes(new, distance) :
                    Write(base.array, base.offset + base.size, cells)
               /\ UNCHANGED aborted
          ELSE aborted' = TRUE /\ UNCHANGED <<heap, slice>>

Distance(base, s) ==
  IF base.array = s.array THEN base.offset + base.size - s.offset ELSE 0

\* x = append(y, z...)
AppendSlice(x, y, z) ==
  ReallocateSlice(x, slice[y], AsBytes(slice[z]), Distance(slice[y], slice[z]))

\* x = append(y, d1, d2), or of a string: the operand is in memory of its own.
AppendValues(x, y, new) == ReallocateSlice(x, slice[y], new, 0)

-----------------------------------------------------------------------------
(* copy                                                                    *)

Smaller(m, n) == IF m < n THEN m ELSE n

\* What copy_slice returns.
CopyResult(dst, src) == Smaller(Len(src), dst.size)

\* copy_slice: ptr::copy, which allows for overlap.
CopySlice(dst, src) ==
  /\ ~aborted
  /\ Write(dst.array, dst.offset, SubSeq(src, 1, CopyResult(dst, src)))
  /\ UNCHANGED <<slice, aborted>>

\* Mutant of Copy: ptr::copy_nonoverlapping.
CopyNonoverlapping(x, y) ==
  LET n == CopyResult(slice[x], AsBytes(slice[y]))
  IN  \E cells \in MemcpyOutcomes(SubSeq(AsBytes(slice[y]), 1, n),
                                  IF slice[x].array = slice[y].array
                                  THEN slice[x].offset - slice[y].offset ELSE 0) :
        CopySlice(slice[x], cells)

\* copy(x, y)
Copy(x, y) == CopySlice(slice[x], AsBytes(slice[y]))

\* copy(x, "...")
CopyString(x, src) == CopySlice(slice[x], src)

-----------------------------------------------------------------------------

SlicesNext ==
  \/ \E x \in Vars, c, n \in 0 .. MaxMade :
       n <= c /\ MakeSlice(x, n, c)
  \/ \E x, y \in Vars, low, high \in 0 .. MaxLength : SliceExpr(x, y, low, high)
  \/ \E x, y \in Vars, low \in 0 .. MaxLength : SliceFrom(x, y, low)
  \/ \E x \in Vars, i \in 0 .. MaxLength - 1, d \in Data : Store(x, i, d)
  \/ \E x, y, z \in Vars : AppendSlice(x, y, z)
  \/ \E x, y \in Vars, new \in Literals : AppendValues(x, y, new)
  \/ \E x, y \in Vars : Copy(x, y)
  \/ \E x \in Vars, src \in Literals : CopyString(x, src)
  \/ aborted /\ UNCHANGED vars

SlicesSpec == SlicesInit /\ [][SlicesNext]_vars

-----------------------------------------------------------------------------
(* Properties.                                                             *)

\* Every variable has its type, and arrays are sequences of elements.
SlicesTypeOK ==
  /\ heap \in Seq(Seq(Data))
  /\ Len(heap) <= MaxArrays
  /\ slice \in [Vars -> SliceObject]
  /\ aborted \in BOOLEAN

WithinArray(s, arrays) ==
  /\ s.array \in 0 .. Len(arrays)
  /\ s.size <= s.capacity
  /\ s.offset + s.capacity <= IF s.array = 0 THEN 0 ELSE Len(arrays[s.array])

\* The window of a slice lies inside the array it was made for, and its size
\* inside the window, whatever expressions, appends and copies produced it:
\* from_raw_parts (object/slice.rs:36, :48) never reaches past an array.
SlicesInBounds == \A x \in Vars : WithinArray(slice[x], heap)

\* Both together: MayExtend can rely on the bounds of the window it extends,
\* and so can every later append, because all steps keep them.
SlicesInv == SlicesTypeOK /\ SlicesInBounds

\* What append returns begins with the elements of its first operand, in place
\* or moved (slice.rs:66-89), even when the operands overlap.
AppendKeepsOperand ==
  [][\A x, y, z \in Vars : AppendSlice(x, y, z) /\ ~aborted' =>
       SubSeq(Elements(slice[x])', 1, slice[y].size) = Elements(slice[y])]_vars

\* The elements of the second operand follow in memory, when it does not
\* overlap the place they go to; those that the result's size covers are its.
AppendBringsElements ==
  [][\A x, y, z \in Vars :
       /\ AppendSlice(x, y, z)
       /\ ~aborted'
       /\ slice[y].array # slice[z].array
       => SubSeq(AsBytes(slice[x])', slice[y].size + 1, slice[y].size + slice[z].size)
            = Elements(slice[z])]_vars

\* An append that does not fit leaves every array that exists as it was: slices
\* that shared an array with its operand do not see the new elements.
GrowthIsPrivate ==
  [][\A i \in DOMAIN heap : heap'[i] # heap[i] => Len(heap') = Len(heap)]_vars

\* copy behaves as if all elements moved at once, overlap or not
\* (ptr::copy, slice.rs:162), and touches nothing past the destination's size.
CopyIsSimultaneous ==
  [][\A x, y \in Vars : Copy(x, y) =>
       LET n == Smaller(slice[x].size, slice[y].size)
       IN  /\ SubSeq(Elements(slice[x])', 1, n) = SubSeq(Elements(slice[y]), 1, n)
           /\ SubSeq(AsBytes(slice[x])', slice[x].size + 1, slice[x].capacity)
                = SubSeq(AsBytes(slice[x]), slice[x].size + 1, slice[x].capacity)]_vars

\* The result of append is as long as its operands together, as the tests say
\* (xtests/slice.go:481-486): violated.
AppendLength ==
  [][\A x, y, z \in Vars : AppendSlice(x, y, z) /\ ~aborted' =>
       slice'[x].size = slice[y].size + slice[z].size]_vars

\* One element appended makes a slice one longer (xtests/slice.go:318-320):
\* violated, an append that fits adds the size of its first operand.
AppendValuesLength ==
  [][\A x, y \in Vars, new \in Literals : AppendValues(x, y, new) /\ ~aborted' =>
       slice'[x].size = slice[y].size + Len(new)]_vars
=============================================================================
