---------------------------- MODULE CompiledValues ----------------------------
(***************************************************************************)
(* The values of compiled programs and the memory they live in: what the    *)
(* instructions of src/cgen/main.go compute without leaving their piece of  *)
(* code, and what the functions of the runtime (src/src/api) answer.        *)
(*                                                                         *)
(* A pointer is an address: a variable, or a place in a composite value;    *)
(* the empty sequence is nil.  Structs, arrays and tuples are sequences.    *)
(***************************************************************************)
EXTENDS Integers, Bitwise, Sequences, FiniteSets, TLC

CONSTANTS
  Width, SignedTypes, IntWidth, Trap,  \* as in Arithmetic
  Methods  \* [<<type, method name>> -> function]: the interface tables

INSTANCE Strings
INSTANCE Arithmetic WITH BitAnd <- LAMBDA u, v : u & v,
                         BitOr  <- LAMBDA u, v : u | v,
                         BitXor <- LAMBDA u, v : u ^^ v

Nil          == <<>>
Within(base, k)      == <<"at", base, k>>
SliceOf(ptr, low, size, capacity) ==
  [ptr |-> ptr, low |-> low, size |-> size, capacity |-> capacity]

-----------------------------------------------------------------------------
(* Memory.                                                                 *)

RECURSIVE Load(_, _)
Load(a, m) == IF a[1] = "at" THEN Load(a[2], m)[a[3]] ELSE m[a]

RECURSIVE StoredAt(_, _, _)
StoredAt(a, x, m) ==
  IF a[1] = "at" THEN StoredAt(a[2], [Load(a[2], m) EXCEPT ![a[3]] = x], m)
                 ELSE (a :> x) @@ m

\* gox5_new: a fresh variable.
Fresh(m)   == <<"new", Cardinality(DOMAIN m)>>
New(x, m)  == [value |-> Fresh(m), mem |-> StoredAt(Fresh(m), x, m)]

ElementAt(s, k) == Within(s.ptr, s.low + k + 1)

\* The first n elements of a slice, and memory with xs over its elements from k on.
Elements(s, n, m) == IF n = 0 THEN <<>> ELSE SubSeq(Load(s.ptr, m), s.low + 1, s.low + n)
WithElements(s, k, xs, m) ==
  LET array == Load(s.ptr, m)
      first == s.low + k
  IN  IF xs = <<>> THEN m
      ELSE StoredAt(s.ptr, [j \in DOMAIN array |->
             IF j - first \in DOMAIN xs THEN xs[j - first] ELSE array[j]], m)

\* A slice of size elements in a new array.
NewSlice(size, array, m) ==
  [value |-> SliceOf(Fresh(m), 0, size, Len(array)), mem |-> StoredAt(Fresh(m), array, m)]
Zeros(n, zero) == [k \in 1 .. n |-> zero]

-----------------------------------------------------------------------------
(* Instructions that stay where they are.                                  *)

\* IndexAddr: of a slice, or of the array a pointer leads to.  Elements without a
\* size all have the address of the first one.
IndexAddress(t, x, k) ==
  CASE t = "slice"    -> ElementAt(x, k)
    [] t = "sizeless" -> Within(x, 1)
    [] OTHER          -> Within(x, k + 1)

\* Slice, of a slice or of the array a pointer leads to.  A missing upper bound
\* is all of the capacity; Go takes the length.
Sliced(i, xs) ==
  LET low  == IF i.args[2].at = "absent" THEN 0 ELSE xs[2]
      from == IF i.type = "slice" THEN xs[1] ELSE SliceOf(xs[1], 0, i.array, i.array)
      high == IF i.args[3].at = "absent" THEN from.capacity ELSE xs[3]
  IN  SliceOf(from.ptr, from.low + low, high - low, from.capacity - low)

\* Interface values are equal in Go if their dynamic types and values are;
\* equal_Interface compares no types unless a value is nil.
GoEqual(t, x, y) ==
  IF t # "interface" THEN x = y ELSE x.type = y.type /\ x.value = y.value
Equal(t, x, y) ==
  IF t # "interface" THEN x = y
  ELSE IF "nil" \in {x.type, y.type} THEN x.type = y.type
  ELSE x.value = y.value

\* number is what arithmetic makes of the operands, equal whether they are equal.
BinaryOf(i, xs, number, equal) ==
  CASE i.op \in {"EQL", "NEQ"} -> equal = (i.op = "EQL")
    [] i.op \in Comparisons \ {"EQL", "NEQ"} -> Compare(i.op, xs[1], xs[2])
    [] OTHER -> number

UnaryOf(i, xs, m, number) ==
  CASE i.op = "MUL" -> IF xs[1] = Nil THEN Trap ELSE Load(xs[1], m)
    [] i.op = "NOT" -> ~xs[1]
    [] OTHER        -> number

Plain(i, xs, m) ==
  CASE i.kind \in {"ChangeType", "ChangeInterface"} -> xs[1]
    [] i.kind = "Convert"   -> IF i.type \in IntegerTypes THEN ToType(xs[1], i.type) ELSE xs[1]
    [] i.kind = "Extract"   -> xs[1][i.index + 1]
    [] i.kind = "Field"     -> xs[1][i.index + 1]
    [] i.kind = "FieldAddr" -> Within(xs[1], i.index + 1)
    [] i.kind = "Index"     -> xs[1][xs[2] + 1]
    [] i.kind = "IndexAddr" -> IndexAddress(i.type, xs[1], xs[2])
    [] i.kind = "Slice"     -> Sliced(i, xs)
    [] i.kind = "Lookup"    -> ByteAt(xs[1], xs[2])

\* What Go says an instruction computes, and what the emitted C computes.
GoMeaning(i, xs, m) ==
  CASE i.kind = "BinOp" -> BinaryOf(i, xs, GoBinary(i.op, xs[1], xs[2], i.type),
                                        GoEqual(i.type, xs[1], xs[2]))
    [] i.kind = "UnOp"  -> UnaryOf(i, xs, m, GoUnary(i.op, xs[1], i.type))
    [] OTHER            -> Plain(i, xs, m)

CMeaning(i, xs, m) ==
  CASE i.kind = "BinOp" -> BinaryOf(i, xs, CBinary(i.op, xs[1], xs[2], i.type),
                                        Equal(i.type, xs[1], xs[2]))
    [] i.kind = "UnOp"  -> UnaryOf(i, xs, m, CUnary(i.op, xs[1], i.type))
    [] OTHER            -> Plain(i, xs, m)

-----------------------------------------------------------------------------
(* Functions of the runtime.                                               *)

\* interface.search: only pointers to named types have a table of methods.
MethodIn(v, name) == IF <<v.type, name>> \in DOMAIN Methods THEN Methods[<<v.type, name>>] ELSE "none"

\* gox5_interface_convert_to_concrete_type and ..._to_interface: nil has no table to
\* search, and a failure nobody asks about is unimplemented!().
Asserted(i, v) ==
  LET success == IF i.type = "interface"
                 THEN \A name \in i.methods : MethodIn(v, name) # "none"
                 ELSE v.type = i.to
      answer  == IF ~success THEN i.zero ELSE IF i.type = "interface" THEN v ELSE v.value
  IN  IF (i.methods # {} /\ v.type = "nil") \/ (~success /\ ~i.commaOk) THEN Trap
      ELSE IF i.commaOk THEN <<answer, success>> ELSE answer

\* reallocate_slice: what is appended in place must be as long as the operand.
Appended(s, xs, m) ==
  LET size == s.size + Len(xs)
  IN  CASE size > s.capacity ->
             NewSlice(size, Elements(s, s.size, m) \o xs \o Zeros(size, 0), m)
        [] size <= s.capacity /\ 2 * s.size <= s.capacity ->
             [value |-> SliceOf(s.ptr, s.low, 2 * s.size, s.capacity),
              mem   |-> WithElements(s, s.size, xs, m)]
        [] size <= s.capacity /\ 2 * s.size > s.capacity -> Trap

\* copy_slice
Copied(s, xs, m) ==
  LET n == IF Len(xs) < s.size THEN Len(xs) ELSE s.size
  IN  [value |-> n, mem |-> WithElements(s, 0, SubSeq(xs, 1, n), m)]

\* What append and copy read: a string, or a slice up to its capacity (as_bytes).
Source(t, x, m) == IF t = "string" THEN x ELSE Elements(x, x.capacity, m)

\* gox5_check_non_nil asserts that the receiver a wrapper passes on is there.
BuiltinAnswer(i, xs, m) ==
  CASE i.builtin = "len"    -> [value |-> IF i.type = "slice" THEN xs[1].size ELSE Len(xs[1]), mem |-> m]
    [] i.builtin = "cap"    -> [value |-> xs[1].capacity, mem |-> m]
    [] i.builtin = "append" -> Appended(xs[1], Source(i.type, xs[2], m), m)
    [] i.builtin = "copy"   -> Copied(xs[1], Source(i.type, xs[2], m), m)
    [] i.builtin = "ssa:wrapnilchk" -> IF xs[1] = Nil THEN Trap ELSE [value |-> xs[1], mem |-> m]

AnswerOf(value, m) == IF value = Trap THEN Trap ELSE [value |-> value, mem |-> m]

\* A conversion to a string, or from one.
TextAnswer(i, x, m) ==
  LET elements == ElementsFromString(x, i.type)
  IN  CASE i.type = "string" /\ i.from = "bytes" ->
             AnswerOf(NewFromByteSlice(x.size, Elements(x, x.capacity, m)), m)
        [] i.type = "string" /\ i.from = "runes" ->
             AnswerOf(NewFromRuneSlice(x.size, Elements(x, x.capacity, m)), m)
        [] i.type = "string" /\ i.from \notin {"bytes", "runes"} -> AnswerOf(NewFromRune(x), m)
        [] i.type # "string" -> IF elements = Trap THEN Trap ELSE NewSlice(Len(elements), elements, m)

\* The count is part of the iterator (IterObject), which xs[1] leads to.
NextAnswer(xs, m) ==
  LET next  == NextOf(xs[2], Load(xs[1], m))
  IN  IF next = Trap THEN Trap
      ELSE [value |-> next, mem |-> IF next[1] THEN StoredAt(xs[1], Load(xs[1], m) + 1, m) ELSE m]

RuntimeAnswer(i, xs, m) ==
  CASE i.kind = "Alloc"         -> New(i.zero, m)
    [] i.kind = "BinOp"         -> [value |-> xs[1] \o xs[2], mem |-> m]
    [] i.kind = "MakeClosure"   -> [value |-> [fn |-> i.fn, wrapper |-> i.wrapper, free |-> xs], mem |-> m]
    [] i.kind = "MakeInterface" -> [value |-> [type |-> i.type, value |-> xs[1]], mem |-> m]
    [] i.kind = "MakeSlice"     -> NewSlice(xs[1], Zeros(xs[2], i.zero), m)
    [] i.kind = "TypeAssert"    -> AnswerOf(Asserted(i, xs[1]), m)
    [] i.kind = "Convert"       -> TextAnswer(i, xs[1], m)
    [] i.kind = "Slice"         -> AnswerOf(Substr(xs[1], xs[2], xs[3]), m)
    [] i.kind = "Next"          -> NextAnswer(xs, m)
    [] i.kind = "Call"          -> BuiltinAnswer(i, xs, m)
=============================================================================
