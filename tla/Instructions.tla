----------------------------- MODULE Instructions -----------------------------
(***************************************************************************)
(* The SSA instructions src/cgen/main.go accepts, which of them it turns    *)
(* into a call of the runtime, and where it cuts a function in pieces.      *)
(*                                                                         *)
(* The SSA form itself is made by golang.org/x/tools/go/ssa.  An           *)
(* instruction is a record: its kind (the Go type), the register it         *)
(* defines, its operands, and what the generator asks about its types.      *)
(***************************************************************************)
EXTENDS Integers, Sequences

NoReg  == -1           \* the register of an instruction that defines none
None   == "none"       \* no function of the runtime

-----------------------------------------------------------------------------
(* Operands: where generated code finds a value.                           *)
Reg(r)    == [at |-> "reg", name |-> r]
Param(i)  == [at |-> "param", name |-> i]
FreeVar(i) == [at |-> "free", name |-> i]
Const(v)  == [at |-> "const", name |-> v]

-----------------------------------------------------------------------------
(* Instructions.                                                           *)
Phi(d, edges)          == [kind |-> "Phi", dest |-> d, args |-> edges]
BinOp(d, op, t, x, y)  == [kind |-> "BinOp", dest |-> d, op |-> op, type |-> t, args |-> <<x, y>>]
UnOp(d, op, t, x)      == [kind |-> "UnOp", dest |-> d, op |-> op, type |-> t, args |-> <<x>>]
Alloc(d, heap, zero)   == [kind |-> "Alloc", dest |-> d, heap |-> heap, zero |-> zero, args |-> <<>>]
Call(d, f, args)       == [kind |-> "Call", dest |-> d, builtin |-> None, callee |-> f, args |-> args]
Builtin(d, b, t, args) == [kind |-> "Call", dest |-> d, builtin |-> b, type |-> t, args |-> args]
Convert(d, s, t, x)    == [kind |-> "Convert", dest |-> d, from |-> s, type |-> t, args |-> <<x>>]
Invoke(d, m, x, args)  == [kind |-> "Invoke", dest |-> d, method |-> m, args |-> <<x>> \o args]
OfType(k, d, t, args)  == [kind |-> k, dest |-> d, type |-> t, args |-> args]
MakeClosure(d, f, bindings, wrapper) ==
  [kind |-> "MakeClosure", dest |-> d, fn |-> f, wrapper |-> wrapper, args |-> bindings]
Extract(d, i, x)       == [kind |-> "Extract", dest |-> d, index |-> i, args |-> <<x>>]
Store(a, x)            == [kind |-> "Store", dest |-> NoReg, args |-> <<a, x>>]
Jump(b)                == [kind |-> "Jump", dest |-> NoReg, args |-> <<>>, succs |-> <<b>>]
If(c, b1, b2)          == [kind |-> "If", dest |-> NoReg, args |-> <<c>>, succs |-> <<b1, b2>>]
Return(results)        == [kind |-> "Return", dest |-> NoReg, args |-> results]

-----------------------------------------------------------------------------
(* Which function of the runtime an instruction calls (emitInstruction).   *)

LengthFunction ==
  [string |-> "gox5_string_length", map |-> "gox5_map_len", slice |-> "gox5_slice_size"]

\* append, cap, copy, len, ...: what the type of the operand decides.
BuiltinFunction(b, t) ==
  CASE b = "append"  -> IF t = "string" THEN "gox5_slice_append_string" ELSE "gox5_slice_append"
    [] b = "cap"     -> "gox5_slice_capacity"
    [] b = "close"   -> "gox5_channel_close"
    [] b = "copy"    -> IF t = "string" THEN "gox5_slice_copy_string" ELSE "gox5_slice_copy"
    [] b = "complex" -> "gox5_complex_new"
    [] b = "delete"  -> "gox5_map_delete"
    [] b \in {"imag", "real"} -> "gox5_complex_component"
    [] b = "len"     -> LengthFunction[t]
    [] b \in {"print", "println"} -> "gox5_print"
    [] b = "recover" -> "gox5_panic_recover"
    [] b = "ssa:wrapnilchk" -> "gox5_check_non_nil"

\* []byte and []rune.
SlicesOfText == {"bytes", "runes"}
ConvertFunction(s, t) ==
  CASE t = "string" /\ s = "bytes" -> "gox5_string_new_from_byte_slice"
    [] t = "string" /\ s = "runes" -> "gox5_string_new_from_rune_slice"
    [] t = "string" /\ s \notin SlicesOfText -> "gox5_string_new_from_rune"
    [] t \in SlicesOfText          -> "gox5_slice_from_string"
    [] t \notin SlicesOfText \cup {"string"} -> None

TypedFunction(k, t) ==
  CASE k = "Lookup"     -> IF t = "string" THEN None ELSE "gox5_map_get"
    [] k = "Next"       -> IF t = "string" THEN "gox5_string_next" ELSE "gox5_map_next"
    [] k = "Slice"      -> IF t = "string" THEN "gox5_string_substr" ELSE None
    [] k = "TypeAssert" -> IF t = "interface" THEN "gox5_interface_convert_to_interface"
                                              ELSE "gox5_interface_convert_to_concrete_type"

PlainFunction ==
  [Defer |-> "gox5_defer_register", Go |-> "gox5_lwt_spawn", Invoke |-> "gox5_interface_invoke",
   MakeChan |-> "gox5_channel_new", MakeClosure |-> "gox5_closure_new",
   MakeInterface |-> "gox5_interface_new", MakeMap |-> "gox5_map_new",
   MakeSlice |-> "gox5_new", MapUpdate |-> "gox5_map_set",
   Panic |-> "gox5_panic_raise", RunDefers |-> "gox5_defer_execute",
   Select |-> "gox5_channel_select", Send |-> "gox5_channel_send"]

EmittedFunction(i) ==
  CASE i.kind = "Alloc"   -> IF i.heap THEN "gox5_new" ELSE None
    [] i.kind = "BinOp"   -> IF i.op = "ADD" /\ i.type = "string" THEN "gox5_string_append" ELSE None
    [] i.kind = "UnOp"    -> IF i.op = "ARROW" THEN "gox5_channel_receive" ELSE None
    [] i.kind = "Convert" -> ConvertFunction(i.from, i.type)
    [] i.kind = "Call"    -> IF i.builtin = None THEN None ELSE BuiltinFunction(i.builtin, i.type)
    [] i.kind \in {"Lookup", "Next", "Slice", "TypeAssert"} -> TypedFunction(i.kind, i.type)
    [] i.kind \in DOMAIN PlainFunction -> PlainFunction[i.kind]
    [] OTHER              -> None

-----------------------------------------------------------------------------
(* Where a function is cut.  This table is written apart from the one       *)
(* above: an instruction that jumps to another function must be the last    *)
(* of its piece, and only then does the piece after it exist.               *)
AlwaysSwitch ==
  {"Call", "Invoke", "Defer", "Go", "MakeChan", "MakeClosure", "MakeInterface", "MakeMap", "MakeSlice",
   "MapUpdate", "RunDefers", "Select", "Send", "TypeAssert", "Next"}

requireSwitchFunction(i) ==
  \/ i.kind \in AlwaysSwitch
  \/ i.kind = "Alloc" /\ i.heap
  \/ i.kind = "BinOp" /\ i.op = "ADD" /\ i.type = "string"
  \/ i.kind = "Convert" /\ i.type \in {"string"} \cup SlicesOfText
  \/ i.kind = "Lookup" /\ i.type = "map"
  \/ i.kind = "Slice" /\ i.type = "string"
  \/ i.kind = "UnOp" /\ i.op = "ARROW"
=============================================================================
