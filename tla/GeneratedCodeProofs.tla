-------------------------- MODULE GeneratedCodeProofs --------------------------
(***************************************************************************)
(* Proofs about GeneratedCode: its inductive invariant, and that compiled    *)
(* code does what its SSA form says, for any program that is well formed,    *)
(* in every run in which the C expressions it reaches compute what Go says   *)
(* or end the process.                                                     *)
(***************************************************************************)
EXTENDS GeneratedCode, SequenceTheorems, TLAPS

-----------------------------------------------------------------------------
(* Sequences.                                                              *)

LEMMA SequenceFacts ==
  ASSUME NEW s, IsSequence(s)
  PROVE  /\ Len(s) \in Nat
         /\ DOMAIN s = 1 .. Len(s)
         /\ s \in Seq({s[k] : k \in 1 .. Len(s)})
<1>1. Len(s) \in Nat /\ s = [k \in 1 .. Len(s) |-> s[k]]
  BY DEF IsSequence
<1> HIDE DEF IsSequence
<1> DEFINE n == Len(s)
           S == {s[k] : k \in 1 .. n}
<1>2. s \in [1 .. n -> S]
  BY <1>1
<1>3. s \in UNION {[1 .. m -> S] : m \in Nat}
  BY <1>1, <1>2
<1> QED
  BY <1>1, <1>2, <1>3, SeqDef

LEMMA TypedSequence ==
  ASSUME NEW S, NEW s \in Seq(S)
  PROVE  IsSequence(s)
BY DEF IsSequence

\* A sequence is one over any set of its elements and others.
LEMMA Wider ==
  ASSUME NEW s, IsSequence(s), NEW S, \A k \in 1 .. Len(s) : s[k] \in S
  PROVE  s \in Seq(S)
<1> DEFINE T == {s[k] : k \in 1 .. Len(s)}
<1>1. s \in Seq(T)
  BY SequenceFacts
<1>2. T \subseteq S
  OBVIOUS
<1> HIDE DEF T
<1> QED
  BY <1>1, <1>2, SeqMonotonic

\* Append keeps what is there and puts the new element last.
LEMMA Appending ==
  ASSUME NEW s, IsSequence(s), NEW x
  PROVE  /\ IsSequence(Append(s, x))
         /\ Len(Append(s, x)) = Len(s) + 1
         /\ \A k \in 1 .. Len(s) : Append(s, x)[k] = s[k]
         /\ Append(s, x)[Len(s) + 1] = x
<1> DEFINE S == {s[k] : k \in 1 .. Len(s)} \cup {x}
<1>1. s \in Seq(S)
  <2>1. \A k \in 1 .. Len(s) : s[k] \in S
    OBVIOUS
  <2> HIDE DEF S
  <2> QED
    BY <2>1, Wider
<1>2. x \in S
  OBVIOUS
<1> HIDE DEF S
<1>3. Append(s, x) \in Seq(S)
  BY <1>1, <1>2
<1>4. IsSequence(Append(s, x))
  BY <1>3, TypedSequence
<1> QED
  BY <1>1, <1>2, <1>4

\* The sequence without its last element.
Shortened(s) == SubSeq(s, 1, Len(s) - 1)
LEMMA Shortening ==
  ASSUME NEW s, IsSequence(s), Len(s) > 0
  PROVE  /\ IsSequence(Shortened(s))
         /\ Len(Shortened(s)) = Len(s) - 1
         /\ \A k \in 1 .. Len(s) - 1 : Shortened(s)[k] = s[k]
<1> DEFINE S == {s[k] : k \in 1 .. Len(s)}
<1>1. s \in Seq(S) /\ Len(s) \in Nat
  BY SequenceFacts
<1> HIDE DEF S
<1>2. /\ SubSeq(s, 1, Len(s) - 1) \in Seq(S)
      /\ Len(SubSeq(s, 1, Len(s) - 1)) = Len(s) - 1
      /\ \A k \in 1 .. Len(s) - 1 : SubSeq(s, 1, Len(s) - 1)[k] = s[k]
  <2> DEFINE n == Len(s) - 1
  <2>1. n \in Int /\ n >= 0
    BY <1>1
  <2>2. \A k \in 1 .. n : s[k] \in S
    BY <1>1, ElementOfSeq
  <2> HIDE DEF n
  <2>3. /\ SubSeq(s, 1, n) \in Seq(S)
        /\ Len(SubSeq(s, 1, n)) = IF 1 <= n THEN n - 1 + 1 ELSE 0
        /\ \A k \in 1 .. n - 1 + 1 : SubSeq(s, 1, n)[k] = s[1 + k - 1]
    BY <2>1, <2>2, SubSeqProperties
  <2>4. Len(SubSeq(s, 1, n)) = n /\ \A k \in 1 .. n : SubSeq(s, 1, n)[k] = s[k]
    BY <2>1, <2>3
  <2> QED
    BY <2>3, <2>4 DEF n
<1>3. IsSequence(SubSeq(s, 1, Len(s) - 1))
  BY <1>2, TypedSequence
<1> QED
  BY <1>2, <1>3 DEF Shortened

\* One element replaced.
Replaced(s, k, x) == [s EXCEPT ![k] = x]
LEMMA Replacing ==
  ASSUME NEW s, IsSequence(s), NEW k \in 1 .. Len(s), NEW x
  PROVE  /\ IsSequence(Replaced(s, k, x))
         /\ Len(Replaced(s, k, x)) = Len(s)
         /\ \A j \in 1 .. Len(s) : Replaced(s, k, x)[j] = IF j = k THEN x ELSE s[j]
<1> DEFINE S == {s[j] : j \in 1 .. Len(s)} \cup {x}
<1>1. s \in Seq(S)
  <2>1. \A j \in 1 .. Len(s) : s[j] \in S
    OBVIOUS
  <2> HIDE DEF S
  <2> QED
    BY <2>1, Wider
<1>2. x \in S
  OBVIOUS
<1> HIDE DEF S
<1>3. [s EXCEPT ![k] = x] \in Seq(S)
  BY <1>1, <1>2, ExceptSeq
<1>4. IsSequence([s EXCEPT ![k] = x])
  BY <1>3, TypedSequence
<1> QED
  BY <1>1, <1>2, <1>4, ExceptSeq DEF Replaced

\* Sequences with the same elements are equal.
LEMMA SameSequence ==
  ASSUME NEW s, IsSequence(s), NEW t, IsSequence(t),
         Len(s) = Len(t), \A k \in 1 .. Len(s) : s[k] = t[k]
  PROVE  s = t
<1> DEFINE S == {s[k] : k \in 1 .. Len(s)} \cup {t[k] : k \in 1 .. Len(t)}
<1>1. (\A k \in 1 .. Len(s) : s[k] \in S) /\ (\A k \in 1 .. Len(t) : t[k] \in S)
  OBVIOUS
<1> HIDE DEF S
<1>2. s \in Seq(S) /\ t \in Seq(S)
  BY <1>1, Wider
<1> QED
  BY <1>2, SeqEqual

-----------------------------------------------------------------------------
(* Frames.                                                                 *)

IsFrame(f) == DOMAIN f = FrameFields /\ DOMAIN f.regs = Registers

\* g is f, except perhaps for what its registers hold and where it came from.
Alike(f, g) ==
  /\ IsFrame(g) /\ g.fn = f.fn /\ g.wrapper = f.wrapper /\ g.params = f.params
  /\ g.resume = f.resume /\ g.slot = f.slot

\* f with the value v in register r, if it is a register.
Defining(f, r, v) == IF r = NoReg THEN f ELSE [f EXCEPT !.regs[r] = v]

LEMMA DefiningFacts ==
  ASSUME NEW f, IsFrame(f), NEW r, NEW v
  PROVE  /\ Alike(f, Defining(f, r, v))
         /\ Defining(f, r, v).free = f.free
         /\ Defining(f, r, v).from = f.from
         /\ Defining(f, r, v).entry = f.entry
         /\ Defining(f, r, v).regs = Ssa!Defined(f.regs, r, v)
<1>1. CASE r = NoReg
  BY <1>1 DEF IsFrame, Alike, Defining, Ssa!Defined, NoReg, Ssa!NoReg
<1>2. CASE r # NoReg
  <2> DEFINE regs2 == [f.regs EXCEPT ![r] = v]
             g     == [f EXCEPT !.regs = regs2]
  <2>1. Defining(f, r, v) = g
    BY <1>2 DEF Defining
  <2>2. DOMAIN regs2 = Registers /\ regs2 = Ssa!Defined(f.regs, r, v)
    BY <1>2 DEF IsFrame, Ssa!Defined, NoReg, Ssa!NoReg
  <2> HIDE DEF regs2
  <2>3. /\ DOMAIN g = FrameFields /\ g.regs = regs2
        /\ g.fn = f.fn /\ g.wrapper = f.wrapper /\ g.params = f.params /\ g.resume = f.resume
        /\ g.slot = f.slot /\ g.free = f.free /\ g.from = f.from /\ g.entry = f.entry
    BY DEF IsFrame, FrameFields
  <2> HIDE DEF g
  <2> QED
    BY <2>1, <2>2, <2>3 DEF Alike, IsFrame
<1> QED
  BY <1>1, <1>2

LEMMA Writing ==
  ASSUME NEW s, IsSequence(s), NEW n \in 0 .. Len(s), NEW r, NEW v
  PROVE  /\ IsSequence(Write(s, Slot(n, r), v))
         /\ Len(Write(s, Slot(n, r), v)) = Len(s)
         /\ \A d \in 1 .. Len(s) :
              Write(s, Slot(n, r), v)[d] = IF d = n THEN Defining(s[d], r, v) ELSE s[d]
<1>1. CASE n = 0 \/ r = NoReg
  <2>1. Write(s, Slot(n, r), v) = s
    BY <1>1 DEF Write, Slot
  <2> QED
    BY <1>1, <2>1 DEF Defining
<1>2. CASE n # 0 /\ r # NoReg
  <2> DEFINE x == Defining(s[n], r, v)
  <2>1. Slot(n, r).depth = n /\ Slot(n, r).reg = r
    BY DEF Slot
  <2>2. n \in 1 .. Len(s) /\ Len(s) \in Nat
    BY <1>2, SequenceFacts
  <2>3. Write(s, Slot(n, r), v) = Replaced(s, n, x)
    BY <1>2, <2>1, <2>2 DEF Write, Defining, Replaced
  <2> QED
    BY <2>2, <2>3, Replacing
<1> QED
  BY <1>1, <1>2

\* Frames that stay alike return where they returned.
LEMMA FramesKept ==
  ASSUME StackOK, NEW m \in Nat, m <= Depth, IsSequence(stack'), m <= Len(stack'),
         \A d \in 1 .. m : Alike(stack[d], stack'[d])
  PROVE  \A d \in 1 .. m : FrameOK(d)'
<1> TAKE d \in 1 .. m
<1>1. FrameOK(d) /\ d \in Nat /\ d >= 1
  <2>1. Depth \in Nat
    BY SequenceFacts DEF StackOK, Depth
  <2> QED
    BY <2>1 DEF StackOK
<1>2. Alike(stack[d], stack'[d])
  OBVIOUS
<1>3. CASE d = 1
  BY <1>1, <1>2, <1>3 DEF FrameOK, Alike, IsFrame
<1>4. CASE d > 1
  <2>1. Alike(stack[d - 1], stack'[d - 1])
    BY <1>1, <1>4
  <2>2. CASE ReturnsToCall(d)
    BY <1>1, <1>2, <1>4, <2>1, <2>2 DEF FrameOK, Alike, IsFrame, ReturnsToCall
  <2>3. CASE ReturnsToWrapper(d)
    BY <1>1, <1>2, <1>4, <2>1, <2>3 DEF FrameOK, Alike, IsFrame, ReturnsToWrapper
  <2> QED
    BY <1>1, <1>4, <2>2, <2>3 DEF FrameOK
<1> QED
  BY <1>1, <1>3, <1>4

LEMMA NotEmpty ==
  ASSUME NEW s, IsSequence(s)
  PROVE  s = <<>> <=> Len(s) = 0
<1>1. s \in Seq({s[k] : k \in 1 .. Len(s)})
  BY SequenceFacts
<1> QED
  BY <1>1, EmptySeq

\* What the invariant says of the stack and of its top.
LEMMA StackFacts ==
  ASSUME StackOK
  PROVE  /\ IsSequence(stack) /\ Depth \in Nat
         /\ (stack = <<>> <=> Depth = 0)
         /\ \A d \in 1 .. Depth : IsFrame(stack[d]) /\ FrameOK(d) /\ Alike(stack[d], stack[d])
<1>1. IsSequence(stack) /\ Depth \in Nat
  BY SequenceFacts DEF StackOK, Depth
<1>2. stack = <<>> <=> Depth = 0
  BY <1>1, NotEmpty DEF Depth
<1>3. \A d \in 1 .. Depth : IsFrame(stack[d]) /\ FrameOK(d)
  BY DEF StackOK, FrameOK, IsFrame
<1> QED
  BY <1>1, <1>2, <1>3 DEF Alike
LEMMA PreparedFacts ==
  ASSUME StackOK, Depth > 0
  PROVE  /\ IsSequence(Prepared) /\ Len(Prepared) = Depth
         /\ \A d \in 1 .. Depth : Alike(stack[d], Prepared[d])
         /\ \A d \in 1 .. Depth - 1 : Prepared[d] = stack[d]
         /\ Prepared[Depth].free = IF pc.free = NoFree THEN Top.free ELSE pc.free
         /\ Prepared[Depth].from = Top.from
         /\ Prepared[Depth].entry = Top.entry /\ Prepared[Depth].regs = Top.regs
<1>1. IsSequence(stack) /\ Depth \in Nat /\ Depth \in 1 .. Depth
  BY StackFacts
<1>2. CASE pc.free = NoFree
  <2>1. Prepared = stack
    BY <1>2 DEF Prepared
  <2> QED
    BY <1>1, <1>2, <2>1, StackFacts DEF Depth, Top
<1>3. CASE pc.free # NoFree
  <2> DEFINE x == [stack[Depth] EXCEPT !.free = pc.free]
  <2>1. Prepared = Replaced(stack, Depth, x)
    BY <1>3 DEF Prepared, Replaced
  <2>2. IsFrame(Top)
    BY <1>1, StackFacts DEF Top
  <2>3. /\ Alike(Top, x) /\ x.free = pc.free
        /\ x.from = Top.from /\ x.entry = Top.entry /\ x.regs = Top.regs
    BY <2>2 DEF Alike, IsFrame, FrameFields, Top
  <2> HIDE DEF x
  <2>4. /\ IsSequence(Prepared) /\ Len(Prepared) = Depth
        /\ \A d \in 1 .. Depth : Prepared[d] = IF d = Depth THEN x ELSE stack[d]
    BY <1>1, <2>1, Replacing DEF Depth
  <2> QED
    BY <1>1, <1>3, <2>3, <2>4, StackFacts DEF Top
<1> QED
  BY <1>2, <1>3

-----------------------------------------------------------------------------
(* The invariant: what keeps StackOK.                                      *)

LEMMA StackKept ==
  ASSUME StackOK, IsSequence(stack'), Len(stack') = Depth,
         \A d \in 1 .. Depth : Alike(stack[d], stack'[d])
  PROVE  StackOK'
<1>1. Depth \in Nat
  BY StackFacts
<1>2. \A d \in 1 .. Depth : FrameOK(d)'
  BY <1>1, FramesKept
<1>3. Depth' = Depth
  BY DEF Depth
<1> QED
  BY <1>2, <1>3 DEF StackOK

LEMMA StackPushed ==
  ASSUME StackOK, IsSequence(stack'), Len(stack') = Depth + 1,
         \A d \in 1 .. Depth : Alike(stack[d], stack'[d]),
         NEW n, n = Depth, FrameOK(n + 1)'
  PROVE  StackOK'
<1>1. n \in Nat
  BY StackFacts
<1>2. \A d \in 1 .. n : FrameOK(d)'
  BY <1>1, FramesKept
<1>3. Depth' = n + 1
  BY DEF Depth
<1> QED
  BY <1>1, <1>2, <1>3 DEF StackOK

LEMMA StackPopped ==
  ASSUME StackOK, Depth > 0, IsSequence(stack'), Len(stack') = Depth - 1,
         \A d \in 1 .. Depth - 1 : Alike(stack[d], stack'[d])
  PROVE  StackOK'
<1>1. Depth - 1 \in Nat
  BY StackFacts
<1>2. \A d \in 1 .. Depth - 1 : FrameOK(d)'
  BY <1>1, FramesKept, StackFacts
<1>3. Depth' = Depth - 1
  BY DEF Depth
<1> QED
  BY <1>2, <1>3 DEF StackOK

\* A step that moves no frame and no code keeps the invariant.
LEMMA Unmoved ==
  ASSUME GeneratedInv, UNCHANGED <<stack, pc, prev, runtime>>
  PROVE  GeneratedInv'
<1>1. StackOK'
  BY DEF GeneratedInv, StackOK, FrameOK, ReturnsToCall, ReturnsToWrapper, Depth
<1>2. CodeOK'
  BY DEF GeneratedInv, CodeOK, Top, Depth
<1>3. PcOK'
  BY DEF GeneratedInv, PcOK
<1>4. RuntimeOK'
  BY DEF GeneratedInv, RuntimeOK, Values, ValueOf, Top, Depth
<1>5. PhisOK'
  BY DEF GeneratedInv, PhisOK, Top, Depth
<1> QED
  BY <1>1, <1>2, <1>3, <1>4, <1>5 DEF GeneratedInv

\* The top frame after a write to its register r.
LEMMA TopWritten ==
  ASSUME StackOK, Depth > 0, NEW r, NEW v, stack' = Write(stack, Slot(Depth, r), v)
  PROVE  /\ StackOK' /\ Depth' = Depth
         /\ \A d \in 1 .. Depth : Alike(stack[d], stack'[d])
         /\ \A d \in 1 .. Depth - 1 : stack'[d] = stack[d]
         /\ Alike(Top, Top') /\ Top'.free = Top.free /\ Top'.from = Top.from /\ Top'.entry = Top.entry
         /\ Top'.regs = Ssa!Defined(Top.regs, r, v)
<1>1. IsSequence(stack) /\ Depth \in Nat /\ Depth \in 1 .. Depth /\ Depth \in 0 .. Len(stack)
  BY StackFacts DEF Depth
<1>2. /\ IsSequence(stack') /\ Len(stack') = Depth
      /\ \A d \in 1 .. Depth : stack'[d] = IF d = Depth THEN Defining(stack[d], r, v) ELSE stack[d]
  BY <1>1, Writing DEF Depth
<1>3. \A d \in 1 .. Depth : IsFrame(stack[d]) /\ Alike(stack[d], stack[d])
  BY StackFacts
<1>4. stack'[Depth] = Defining(Top, r, v) /\ IsFrame(Top)
  BY <1>1, <1>2, <1>3 DEF Top
<1>5. \A d \in 1 .. Depth : Alike(stack[d], stack'[d])
  BY <1>2, <1>3, <1>4, DefiningFacts DEF Top
<1>6. StackOK'
  BY <1>2, <1>5, StackKept
<1>7. Depth' = Depth
  BY <1>2 DEF Depth
<1>8. Top' = Defining(Top, r, v)
  BY <1>4, <1>7 DEF Top
<1> QED
  BY <1>1, <1>2, <1>4, <1>5, <1>6, <1>7, <1>8, DefiningFacts

\* What there is behind the name of a piece of code.
LEMMA EmittedFacts ==
  ASSUME NEW f \in DOMAIN Program, NEW c \in Emitted(f), c.kind \in {"b", "i"}
  PROVE  /\ c.block \in DOMAIN Program[f].blocks /\ c.block \in Nat /\ c.block > 0
         /\ WellFormed(Block(f, c.block).instrs)
         /\ c.kind = "b" => c = createBasicBlockName(f, c.block) /\ c.index = 0
         /\ c.kind = "i" => /\ c = createInstructionName(f, c.block, c.index)
                            /\ c.index \in DOMAIN Block(f, c.block).instrs
                            /\ requireSwitchFunction(Instr(f, c.block, c.index))
<1>1. /\ c.block \in DOMAIN Program[f].blocks
      /\ c.kind = "b" => c = createBasicBlockName(f, c.block) /\ c.index = 0
      /\ c.kind = "i" => /\ c = createInstructionName(f, c.block, c.index)
                         /\ c.index \in DOMAIN Block(f, c.block).instrs
                         /\ requireSwitchFunction(Instr(f, c.block, c.index))
  <2>1. CASE c \in {createFunctionName(f), BoundName(f), BoundReturnName(f)}
    BY <2>1 DEF createFunctionName, BoundName, BoundReturnName, Code
  <2>2. CASE \E b \in DOMAIN Program[f].blocks : c = createBasicBlockName(f, b)
    BY <2>2 DEF createBasicBlockName, Code
  <2>3. CASE \E b \in DOMAIN Program[f].blocks :
               \E k \in DOMAIN Block(f, b).instrs :
                 requireSwitchFunction(Instr(f, b, k)) /\ c = createInstructionName(f, b, k)
    BY <2>3 DEF createInstructionName, Code
  <2> QED
    BY <2>1, <2>2, <2>3 DEF Emitted
<1>2. IsSequence(Program[f].blocks) /\ WellFormed(Block(f, c.block).instrs)
  BY <1>1, ProgramAssumption
<1>3. c.block \in 1 .. Len(Program[f].blocks) /\ Len(Program[f].blocks) \in Nat
  BY <1>1, <1>2, SequenceFacts
<1> QED
  BY <1>1, <1>2, <1>3

\* The state while a piece of code runs.
LEMMA PieceFacts ==
  ASSUME GeneratedInv, InPiece
  PROVE  /\ Depth \in Nat /\ Depth > 0 /\ IsFrame(Top)
         /\ pc.func.kind \in {"b", "i"} /\ pc.func = Code(pc.func.kind, pc.func.fn, pc.func.block, pc.func.index)
         /\ pc.func.fn \in DOMAIN Program /\ pc.func \in Emitted(pc.func.fn)
         /\ Top.fn = pc.func.fn /\ ~Top.wrapper /\ pc.free = NoFree
         /\ WellFormed(Block(pc.func.fn, pc.func.block).instrs)
         /\ pc.func.block \in Nat /\ pc.func.block > 0
         /\ pc.func.index \in Nat /\ pc.step \in Nat /\ pc.step > pc.func.index
         /\ pc.step \in DOMAIN Block(pc.func.fn, pc.func.block).instrs
         /\ pc.step <= Len(Block(pc.func.fn, pc.func.block).instrs)
<1>1. /\ pc.func.kind \in {"b", "i"}
      /\ pc.func.fn \in DOMAIN Program /\ pc.func \in Emitted(pc.func.fn)
      /\ pc.step \in pc.func.index + 1 .. Len(Block(pc.func.fn, pc.func.block).instrs)
      /\ pc.free = NoFree
  BY DEF GeneratedInv, PcOK, InPiece
<1>2. /\ Top.fn = pc.func.fn /\ ~Top.wrapper /\ stack # <<>>
      /\ pc.func = Code(pc.func.kind, pc.func.fn, pc.func.block, pc.func.index)
  BY <1>1 DEF GeneratedInv, CodeOK
<1>3. StackOK
  BY DEF GeneratedInv
<1>4. Depth \in Nat /\ Depth > 0 /\ IsFrame(Top)
  BY <1>2, <1>3, StackFacts DEF Top
<1> DEFINE code == Block(pc.func.fn, pc.func.block).instrs
<1>5. /\ WellFormed(code) /\ pc.func.block \in Nat /\ pc.func.block > 0
      /\ pc.func.kind = "b" => pc.func.index = 0
      /\ pc.func.kind = "i" => pc.func.index \in DOMAIN code
  BY <1>1, EmittedFacts
<1>6. DOMAIN code = 1 .. Len(code) /\ Len(code) \in Nat
  BY <1>5, SequenceFacts DEF WellFormed
<1>7. pc.func.index \in Nat
  BY <1>1, <1>5, <1>6
<1> QED
  BY <1>1, <1>2, <1>4, <1>5, <1>6, <1>7

-----------------------------------------------------------------------------
(* The invariant, action by action.                                        *)

LEMMA GoOnKeeps ==
  ASSUME GeneratedInv, InPiece, NEW r, NEW v, GoOn(r, v), UNCHANGED runtime,
         Current.kind \notin Enders, Current.kind = "Phi" => r = Current.dest
  PROVE  GeneratedInv'
<1> DEFINE code == Block(pc.func.fn, pc.func.block).instrs
<1>1. /\ Depth \in Nat /\ Depth > 0 /\ IsFrame(Top) /\ pc.func.kind \in {"b", "i"}
      /\ pc.func.fn \in DOMAIN Program /\ pc.func \in Emitted(pc.func.fn) /\ pc.free = NoFree
      /\ pc.func.index \in Nat /\ pc.step \in Nat /\ pc.step > pc.func.index /\ WellFormed(code)
      /\ pc.step \in DOMAIN code /\ pc.step <= Len(code)
  BY PieceFacts
<1>2. StackOK /\ stack' = Write(stack, Slot(Depth, r), v) /\ DOMAIN pc = {"func", "step", "free"}
  BY DEF GeneratedInv, GoOn, PcOK
<1>3. /\ StackOK' /\ Depth' = Depth /\ Alike(Top, Top') /\ Top'.from = Top.from
      /\ Top'.entry = Top.entry /\ Top'.regs = Ssa!Defined(Top.regs, r, v)
  BY <1>1, <1>2, TopWritten
<1>4. /\ pc'.func = pc.func /\ pc'.step = pc.step + 1 /\ pc'.free = NoFree
      /\ DOMAIN pc' = {"func", "step", "free"} /\ prev' = prev
  BY <1>1, <1>2 DEF GoOn
<1>5. stack' # <<>>
  BY <1>1, <1>3, NotEmpty DEF StackOK, Depth
<1>6. CodeOK'
  BY <1>1, <1>3, <1>4, <1>5 DEF GeneratedInv, CodeOK, Alike
<1>7. PcOK'
  <2>1. pc.step # Len(code)
    BY <1>1 DEF WellFormed, Current, Instr
  <2>2. Len(code) \in Nat
    BY <1>1 DEF WellFormed, IsSequence
  <2> QED
    BY <1>1, <1>4, <2>1, <2>2 DEF PcOK
<1>8. RuntimeOK'
  BY <1>1, <1>4 DEF RuntimeOK
<1>9. PhisOK'
  <2>1. ASSUME pc.func.kind = "b", NEW q \in Registers,
               \A k \in 1 .. pc.step : /\ Instr(pc.func.fn, pc.func.block, k).kind = "Phi"
                                       /\ Instr(pc.func.fn, pc.func.block, k).dest # q
        PROVE  Top'.regs[q] = Top'.entry[q]
    <3>1. Current.kind = "Phi" /\ Current.dest # q /\ r = Current.dest
      BY <1>1, <2>1 DEF Current
    <3>2. Top'.regs[q] = Top.regs[q]
      BY <1>1, <1>3, <3>1 DEF Ssa!Defined, IsFrame
    <3>3. \A k \in 1 .. pc.step - 1 : /\ Instr(pc.func.fn, pc.func.block, k).kind = "Phi"
                                      /\ Instr(pc.func.fn, pc.func.block, k).dest # q
      BY <1>1, <2>1
    <3>4. Top.regs[q] = Top.entry[q]
      BY <2>1, <3>3 DEF GeneratedInv, PhisOK
    <3> QED
      BY <1>3, <3>2, <3>4
  <2>2. pc'.step - 1 = pc.step
    BY <1>1, <1>4
  <2>3. pc.func.kind = "b" => IF Top.from = 0 THEN prev.kind = "f"
                              ELSE prev = latestNameMap(pc.func.fn, Top.from)
    BY DEF GeneratedInv, PhisOK
  <2> QED
    BY <1>1, <1>3, <1>4, <2>1, <2>2, <2>3 DEF PhisOK
<1> QED
  BY <1>3, <1>6, <1>7, <1>8, <1>9 DEF GeneratedInv

LEMMA EnterFunctionKeeps ==
  ASSUME GeneratedInv, EnterFunction
  PROVE  GeneratedInv'
<1>1. StackOK /\ pc.func.kind = "f" /\ Top.fn = pc.func.fn /\ ~Top.wrapper /\ stack # <<>>
  BY DEF GeneratedInv, EnterFunction, Invoking, CodeOK
<1>2. Depth \in Nat /\ Depth > 0
  BY <1>1, StackFacts
<1>3. /\ stack' = Prepared /\ prev' = pc.func /\ UNCHANGED runtime
      /\ pc' = [func |-> createBasicBlockName(pc.func.fn, 1), step |-> 0, free |-> NoFree]
  BY DEF EnterFunction, Goto
<1>4. /\ IsSequence(stack') /\ Len(stack') = Depth
      /\ \A d \in 1 .. Depth : Alike(stack[d], stack'[d])
      /\ stack'[Depth].from = Top.from /\ stack'[Depth].entry = Top.entry
      /\ stack'[Depth].regs = Top.regs
  BY <1>1, <1>2, <1>3, PreparedFacts
<1>5. StackOK'
  BY <1>1, <1>4, StackKept
<1>6. Depth' = Depth /\ Top' = stack'[Depth] /\ Alike(Top, Top')
  BY <1>2, <1>4 DEF Depth, Top
<1>7. stack' # <<>>
  BY <1>2, <1>4, NotEmpty
<1>8. CodeOK'
  BY <1>1, <1>3, <1>6, <1>7 DEF CodeOK, Alike, createBasicBlockName, Code
<1>9. PcOK' /\ RuntimeOK'
  BY <1>3 DEF PcOK, RuntimeOK, createBasicBlockName, Code
<1>10. PhisOK'
  <2>1. Top.from = 0 /\ Top.regs = Top.entry
    BY <1>1 DEF GeneratedInv, PhisOK
  <2> QED
    BY <1>1, <1>3, <1>4, <1>6, <2>1 DEF PhisOK, createBasicBlockName, Code
<1> QED
  BY <1>5, <1>8, <1>9, <1>10 DEF GeneratedInv

LEMMA EnterPieceKeeps ==
  ASSUME GeneratedInv, EnterPiece
  PROVE  GeneratedInv'
<1>1. CASE UNCHANGED <<stack, pc, prev, runtime>>
  BY <1>1, Unmoved
<1>2. CASE /\ stack' = Prepared
           /\ pc' = [pc EXCEPT !.step = pc.func.index + 1, !.free = NoFree]
           /\ UNCHANGED <<prev, runtime>>
  <2> DEFINE c == pc.func
             code == Block(c.fn, c.block).instrs
  <2>1. /\ StackOK /\ c.kind \in {"b", "i"} /\ Top.fn = c.fn /\ ~Top.wrapper /\ stack # <<>>
        /\ c.fn \in DOMAIN Program /\ c \in Emitted(c.fn) /\ pc.step = 0 /\ pc.free = NoFree
        /\ DOMAIN pc = {"func", "step", "free"}
    BY DEF GeneratedInv, EnterPiece, Invoking, CodeOK, PcOK
  <2>2. Depth \in Nat /\ Depth > 0
    BY <2>1, StackFacts
  <2>3. stack' = stack /\ pc'.func = c /\ pc'.step = c.index + 1 /\ pc'.free = NoFree
        /\ DOMAIN pc' = {"func", "step", "free"}
    BY <1>2, <2>1 DEF Prepared
  <2>4. StackOK'
    BY <2>1, <2>3 DEF StackOK, FrameOK, ReturnsToCall, ReturnsToWrapper, Depth
  <2>5. Top' = Top
    BY <2>3 DEF Top, Depth
  <2>6. CodeOK'
    BY <2>1, <2>3, <2>5 DEF GeneratedInv, CodeOK
  <2>7. c.index + 1 <= Len(code) /\ c.index \in Nat /\ Len(code) \in Nat
    <3>1. /\ WellFormed(code)
          /\ c.kind = "b" => c.index = 0
          /\ c.kind = "i" => c.index \in DOMAIN code /\ requireSwitchFunction(Instr(c.fn, c.block, c.index))
      BY <2>1, EmittedFacts
    <3>2. Len(code) \in Nat /\ Len(code) > 0 /\ DOMAIN code = 1 .. Len(code)
      BY <3>1, SequenceFacts DEF WellFormed
    <3>3. CASE c.kind = "b"
      BY <3>1, <3>2, <3>3
    <3>4. CASE c.kind = "i"
      <4>1. Instr(c.fn, c.block, c.index).kind \notin Enders
        BY <3>1, <3>4 DEF requireSwitchFunction, AlwaysSwitch, Enders
      <4>2. c.index # Len(code)
        BY <3>1, <3>4, <4>1 DEF WellFormed, Instr
      <4> QED
        BY <3>1, <3>2, <3>4, <4>2
    <3> QED
      BY <2>1, <3>3, <3>4
  <2>8. PcOK'
    BY <2>1, <2>3, <2>7 DEF PcOK
  <2>9. RuntimeOK'
    BY <2>1, <2>3 DEF RuntimeOK
  <2>10. PhisOK'
    <3>1. CASE c.kind = "b"
      <4>1. c.index = 0
        BY <2>1, <3>1, EmittedFacts
      <4>2. (pc.step - 1 = -1) /\ pc'.step - 1 = 0
        BY <2>1, <2>3, <4>1
      <4>3. /\ IF Top.from = 0 THEN prev.kind = "f" ELSE prev = latestNameMap(c.fn, Top.from)
            /\ \A r \in Registers : Top.regs[r] = Top.entry[r]
        BY <3>1, <4>2 DEF GeneratedInv, PhisOK
      <4> QED
        BY <1>2, <2>3, <2>5, <3>1, <4>2, <4>3 DEF PhisOK
    <3>2. CASE c.kind = "i"
      BY <2>3, <3>2 DEF PhisOK
    <3> QED
      BY <2>1, <3>1, <3>2
  <2> QED
    BY <2>4, <2>6, <2>8, <2>9, <2>10 DEF GeneratedInv
<1> QED
  BY <1>1, <1>2 DEF EnterPiece, Abort

LEMMA FrameFacts ==
  ASSUME NEW f, NEW wrapper, NEW params, NEW resume, NEW slot
  PROVE  LET x == Frame(f, wrapper, params, resume, slot)
         IN  /\ IsFrame(x) /\ x.fn = f /\ x.wrapper = wrapper /\ x.params = params /\ x.free = NoFree
             /\ x.resume = resume /\ x.slot = slot /\ x.from = 0
             /\ x.regs = Undefined /\ x.entry = Undefined
BY DEF Frame, IsFrame, FrameFields, Undefined

\* A frame x that is pushed returns to the top frame.
ReturnsToTop(x) ==
  \/ /\ ~Top.wrapper /\ x.resume = createInstructionName(Top.fn, x.resume.block, x.resume.index)
     /\ x.slot = Slot(Depth, Instr(x.resume.fn, x.resume.block, x.resume.index).dest)
  \/ Top.wrapper /\ ~x.wrapper /\ x.resume = BoundReturnName(Top.fn) /\ x.slot = Top.slot

LEMMA Pushed ==
  ASSUME StackOK, Depth > 0, NEW base, IsSequence(base), Len(base) = Depth,
         \A d \in 1 .. Depth : Alike(stack[d], base[d]),
         NEW x, IsFrame(x), stack' = Append(base, x), ReturnsToTop(x)
  PROVE  /\ StackOK' /\ Depth' = Depth + 1 /\ stack' # <<>> /\ Top' = x
         /\ \A d \in 1 .. Depth : stack'[d] = base[d]
<1>1. Depth \in Nat /\ Depth \in 1 .. Depth
  BY StackFacts
<1>2. /\ IsSequence(stack') /\ Len(stack') = Depth + 1 /\ stack'[Depth + 1] = x
      /\ \A d \in 1 .. Depth : stack'[d] = base[d]
  BY Appending
<1>3. PICK n \in Nat : n = Depth
  BY <1>1
<1>4. Alike(Top, stack'[n])
  BY <1>1, <1>2, <1>3 DEF Top
<1>5. FrameOK(n + 1)'
  <2>1. n + 1 # 1 /\ (n + 1) - 1 = n /\ stack'[n + 1] = x
    BY <1>1, <1>2, <1>3
  <2>2. /\ stack'[n].wrapper = Top.wrapper /\ stack'[n].fn = Top.fn /\ stack'[n].slot = Top.slot
    BY <1>4 DEF Alike
  <2>3. ReturnsToCall(n + 1)' \/ ReturnsToWrapper(n + 1)'
    BY <1>3, <2>1, <2>2 DEF ReturnsToTop, ReturnsToCall, ReturnsToWrapper
  <2> QED
    BY <2>1, <2>3 DEF FrameOK, IsFrame
<1>6. StackOK'
  BY <1>2, <1>3, <1>5, StackPushed
<1>7. Depth' = Depth + 1 /\ Top' = x
  BY <1>2 DEF Depth, Top
<1> QED
  BY <1>1, <1>2, <1>6, <1>7, NotEmpty

\* The C function of a new frame is invoked.
LEMMA Entered ==
  ASSUME StackOK', stack' # <<>>,
         NEW f, NEW wrapper, NEW params, NEW resume, NEW slot, NEW free,
         Top' = Frame(f, wrapper, params, resume, slot),
         pc' = [func |-> IF wrapper THEN BoundName(f) ELSE createFunctionName(f),
                step |-> 0, free |-> free]
  PROVE  GeneratedInv'
<1>1. /\ Top'.fn = f /\ Top'.wrapper = wrapper /\ Top'.from = 0 /\ Top'.regs = Top'.entry
  BY FrameFacts
<1>2. CodeOK'
  BY <1>1 DEF CodeOK, createFunctionName, BoundName, Code
<1>3. PcOK' /\ RuntimeOK' /\ PhisOK'
  BY <1>1 DEF PcOK, RuntimeOK, PhisOK, createFunctionName, BoundName, Code
<1> QED
  BY <1>2, <1>3 DEF GeneratedInv

LEMMA BoundCallKeeps ==
  ASSUME GeneratedInv, BoundCall
  PROVE  GeneratedInv'
<1>1. CASE Prepared[Depth].free = NoFree
  BY <1>1, Unmoved DEF BoundCall, Abort
<1>2. CASE Prepared[Depth].free # NoFree
  <2> DEFINE f       == pc.func.fn
             wrapper == Prepared[Depth]
             params  == wrapper.free \o wrapper.params
             x       == Frame(f, FALSE, params, BoundReturnName(f), wrapper.slot)
  <2>1. StackOK /\ stack # <<>> /\ Top.fn = f /\ Top.wrapper
    BY DEF GeneratedInv, BoundCall, Invoking, CodeOK
  <2>2. Depth \in Nat /\ Depth > 0
    BY <2>1, StackFacts
  <2>3. /\ stack' = Append(Prepared, x)
        /\ pc' = [func |-> createFunctionName(f), step |-> 0, free |-> NoFree]
    BY <1>2 DEF BoundCall, Goto
  <2>4. /\ IsSequence(Prepared) /\ Len(Prepared) = Depth
        /\ \A d \in 1 .. Depth : Alike(stack[d], Prepared[d])
    BY <2>1, <2>2, PreparedFacts
  <2>5. wrapper.slot = Top.slot
    BY <2>2, <2>4 DEF Alike, Top
  <2> HIDE DEF params, wrapper
  <2>6. IsFrame(x) /\ x.wrapper = FALSE /\ x.resume = BoundReturnName(f) /\ x.slot = wrapper.slot
    BY DEF Frame, IsFrame, FrameFields, Undefined
  <2> HIDE DEF x
  <2>7. ReturnsToTop(x)
    BY <2>1, <2>5, <2>6 DEF ReturnsToTop
  <2>8. StackOK' /\ stack' # <<>> /\ Top' = x
    BY <2>1, <2>2, <2>3, <2>4, <2>6, <2>7, Pushed
  <2> QED
    BY <2>3, <2>8, Entered DEF x
<1> QED
  BY <1>1, <1>2

LEMMA CallFunctionKeeps ==
  ASSUME GeneratedInv, CallFunction
  PROVE  GeneratedInv'
<1> DEFINE callee == ValueOf(Current.callee, Top)
           params == Values(Current.args, Top)
           x      == Frame(callee.fn, callee.wrapper, params, Here, Slot(Depth, Current.dest))
<1>1. StackOK /\ InPiece
  BY DEF GeneratedInv, CallFunction
<1>2. Depth \in Nat /\ Depth > 0 /\ Top.fn = pc.func.fn /\ ~Top.wrapper
  BY <1>1, PieceFacts
<1>3. /\ stack' = Append(stack, x)
      /\ pc' = [func |-> IF callee.wrapper THEN BoundName(callee.fn) ELSE createFunctionName(callee.fn),
                step |-> 0, free |-> callee.free]
  BY DEF CallFunction, Goto
<1>4. /\ Here = createInstructionName(Top.fn, Here.block, Here.index)
      /\ Instr(Here.fn, Here.block, Here.index) = Current
  BY <1>2 DEF Here, createInstructionName, Code, Current
<1>5. IsSequence(stack) /\ Len(stack) = Depth /\ \A d \in 1 .. Depth : Alike(stack[d], stack[d])
  BY <1>1, StackFacts DEF Depth
<1> HIDE DEF callee, params
<1>6. IsFrame(x) /\ ReturnsToTop(x)
  BY <1>2, <1>4, FrameFacts DEF ReturnsToTop
<1> HIDE DEF x
<1>7. StackOK' /\ stack' # <<>> /\ Top' = x
  BY <1>1, <1>2, <1>3, <1>5, <1>6, Pushed
<1> QED
  BY <1>3, <1>7, Entered DEF x

LEMMA RunInvokeKeeps ==
  ASSUME GeneratedInv, RunInvoke
  PROVE  GeneratedInv'
<1> DEFINE method == MethodOf(runtime.args[1], runtime.call.method)
           params == <<runtime.args[1].value>> \o Tail(runtime.args)
           at     == runtime.resume
           x      == Frame(method, FALSE, params, at, runtime.slot)
<1>1. /\ StackOK /\ stack # <<>> /\ ~Top.wrapper
      /\ at = createInstructionName(Top.fn, at.block, at.index)
      /\ runtime.slot = Slot(Depth, Instr(at.fn, at.block, at.index).dest)
  BY DEF GeneratedInv, RunInvoke, Invoking, CodeOK, RuntimeOK
<1>2. Depth \in Nat /\ Depth > 0 /\ IsSequence(stack) /\ Len(stack) = Depth
      /\ \A d \in 1 .. Depth : Alike(stack[d], stack[d])
  BY <1>1, StackFacts DEF Depth
<1>3. CASE method = None
  BY <1>3, Unmoved DEF RunInvoke, Abort
<1>4. CASE method # None
  <2>1. /\ stack' = Append(stack, x)
        /\ pc' = [func |-> createFunctionName(method), step |-> 0, free |-> NoFree]
    BY <1>4 DEF RunInvoke, Goto
  <2> HIDE DEF method, params, at
  <2>2. IsFrame(x) /\ x.resume = at /\ x.slot = runtime.slot
    BY DEF Frame, IsFrame, FrameFields, Undefined
  <2> HIDE DEF x
  <2>3. ReturnsToTop(x)
    BY <1>1, <2>2 DEF ReturnsToTop, at
  <2>4. StackOK' /\ stack' # <<>> /\ Top' = x
    BY <1>1, <1>2, <2>1, <2>2, <2>3, Pushed
  <2> QED
    BY <2>1, <2>4, Entered DEF x
<1> QED
  BY <1>3, <1>4

LEMMA PhiStepKeeps ==
  ASSUME GeneratedInv, PhiStep
  PROVE  GeneratedInv'
<1>1. InPiece /\ Current.kind = "Phi" /\ Current.kind \notin Enders
  BY DEF PhiStep, Executing, Enders
<1>2. CASE UNCHANGED <<stack, pc, prev, runtime>>
  BY <1>2, Unmoved
<1>3. CASE (\E v : GoOn(Current.dest, v)) /\ UNCHANGED runtime
  BY <1>1, <1>3, GoOnKeeps
<1> QED
  BY <1>2, <1>3 DEF PhiStep, Abort

LEMMA ComputeKeeps ==
  ASSUME GeneratedInv, Compute
  PROVE  GeneratedInv'
<1>1. InPiece /\ Current.kind # "Phi" /\ Current.kind \notin Enders /\ UNCHANGED runtime
  BY DEF Compute, Computing, Leaves, Enders
<1>2. CASE UNCHANGED <<stack, pc, prev>>
  BY <1>1, <1>2, Unmoved
<1>3. CASE \E v : GoOn(Current.dest, v)
  BY <1>1, <1>3, GoOnKeeps
<1> QED
  BY <1>2, <1>3 DEF Compute

LEMMA AllocLocalKeeps ==
  ASSUME GeneratedInv, AllocLocal
  PROVE  GeneratedInv'
<1>1. InPiece /\ Current.kind # "Phi" /\ Current.kind \notin Enders /\ UNCHANGED runtime
  BY DEF AllocLocal, Executing, Enders
<1>2. GoOn(Current.dest, Local(Depth, Current.dest))
  BY DEF AllocLocal
<1> QED
  BY <1>1, <1>2, GoOnKeeps

LEMMA StoreStepKeeps ==
  ASSUME GeneratedInv, StoreStep
  PROVE  GeneratedInv'
<1>1. InPiece /\ Current.kind # "Phi" /\ Current.kind \notin Enders /\ UNCHANGED runtime
  BY DEF StoreStep, Executing, Enders
<1>2. GoOn(NoReg, Garbage)
  BY DEF StoreStep
<1> QED
  BY <1>1, <1>2, GoOnKeeps

LEMMA CallRuntimeKeeps ==
  ASSUME GeneratedInv, CallRuntime
  PROVE  GeneratedInv'
<1>1. /\ InPiece /\ EmittedFunction(Current) # None /\ Current.kind # "Panic"
      /\ pc' = [func |-> RuntimeName(EmittedFunction(Current)), step |-> 0, free |-> NoFree]
      /\ runtime'.call = Current /\ runtime'.args = Values(Current.args, Top)
      /\ runtime'.resume = Here /\ runtime'.slot = Slot(Depth, Current.dest)
      /\ UNCHANGED stack
  BY DEF CallRuntime, Goto
<1>2. Depth \in Nat /\ Depth > 0 /\ Top.fn = pc.func.fn /\ ~Top.wrapper
  BY <1>1, PieceFacts
<1>3. StackOK'
  BY <1>1 DEF GeneratedInv, StackOK, FrameOK, ReturnsToCall, ReturnsToWrapper, Depth
<1>4. Top' = Top /\ Depth' = Depth
  BY <1>1 DEF Top, Depth
<1>5. CodeOK'
  <2>1. stack' # <<>>
    BY <1>1, <1>2, StackFacts DEF GeneratedInv
  <2> QED
    BY <1>1, <1>2, <1>4, <2>1 DEF CodeOK, RuntimeName, Code
<1>6. PcOK' /\ PhisOK'
  BY <1>1 DEF PcOK, PhisOK, RuntimeName, Code
<1>7. RuntimeOK'
  <2>1. /\ Here = createInstructionName(Top.fn, Here.block, Here.index)
        /\ Instr(Here.fn, Here.block, Here.index) = Current
    BY <1>2 DEF Here, createInstructionName, Code, Current
  <2>2. \A i : Values(i.args, Top)' = Values(i.args, Top)
    BY <1>4 DEF Values, ValueOf
  <2> QED
    BY <1>1, <1>4, <2>1, <2>2 DEF RuntimeOK
<1> QED
  BY <1>3, <1>5, <1>6, <1>7 DEF GeneratedInv

\* The program goes back to the piece of code c of the top frame.
LEMMA Resumed ==
  ASSUME StackOK', stack' # <<>>, ~Top'.wrapper,
         NEW c, c = createInstructionName(Top'.fn, c.block, c.index),
         pc' = [func |-> c, step |-> 0, free |-> NoFree]
  PROVE  GeneratedInv'
<1>1. c = Code(c.kind, c.fn, c.block, c.index) /\ c.kind = "i" /\ c.fn = Top'.fn
  BY DEF createInstructionName, Code
<1>2. CodeOK'
  BY <1>1 DEF CodeOK
<1>3. PcOK' /\ RuntimeOK' /\ PhisOK'
  BY <1>1 DEF PcOK, RuntimeOK, PhisOK
<1> QED
  BY <1>2, <1>3 DEF GeneratedInv

LEMMA RunRuntimeKeeps ==
  ASSUME GeneratedInv, RunRuntime
  PROVE  GeneratedInv'
<1> DEFINE answer == Runtime(runtime.call, runtime.args, mem)
           at     == runtime.resume
<1>1. CASE answer = Trap
  BY <1>1, Unmoved DEF RunRuntime, Abort
<1>2. CASE answer # Trap
  <2>1. /\ StackOK /\ stack # <<>> /\ ~Top.wrapper
        /\ at = createInstructionName(Top.fn, at.block, at.index)
        /\ runtime.slot = Slot(Depth, runtime.call.dest)
    BY DEF GeneratedInv, RunRuntime, Invoking, CodeOK, RuntimeOK
  <2>2. /\ stack' = Write(stack, Slot(Depth, runtime.call.dest), answer.value)
        /\ pc' = [func |-> at, step |-> 0, free |-> NoFree]
    BY <1>2, <2>1 DEF RunRuntime, Goto
  <2>3. Depth \in Nat /\ Depth > 0
    BY <2>1, StackFacts
  <2>4. StackOK' /\ Depth' = Depth /\ Alike(Top, Top')
    BY <2>1, <2>2, <2>3, TopWritten
  <2>5. stack' # <<>>
    BY <2>3, <2>4, NotEmpty DEF StackOK, Depth
  <2>6. ~Top'.wrapper /\ at = createInstructionName(Top'.fn, at.block, at.index)
    BY <2>1, <2>4 DEF Alike
  <2> HIDE DEF at
  <2> QED
    BY <2>2, <2>4, <2>5, <2>6, Resumed
<1> QED
  BY <1>1, <1>2

\* The function that leaves a block is its last piece.
LEMMA LastPiece ==
  ASSUME GeneratedInv, InPiece, Current.kind \in Enders
  PROVE  pc.func = latestNameMap(pc.func.fn, pc.func.block)
<1> DEFINE f    == pc.func.fn
           b    == pc.func.block
           code == Block(f, b).instrs
           cuts == {k \in DOMAIN code : requireSwitchFunction(Instr(f, b, k))}
<1>1. /\ f \in DOMAIN Program /\ pc.func \in Emitted(f) /\ pc.func.kind \in {"b", "i"}
      /\ WellFormed(code) /\ pc.step \in DOMAIN code
      /\ pc.func.index \in Nat /\ pc.step \in Nat /\ pc.step > pc.func.index
  BY PieceFacts
<1>2. pc.step = Len(code) /\ DOMAIN code = 1 .. Len(code) /\ Len(code) \in Nat
  <2>1. DOMAIN code = 1 .. Len(code) /\ Len(code) \in Nat
    BY <1>1, SequenceFacts DEF WellFormed
  <2> QED
    BY <1>1, <2>1 DEF WellFormed, Current, Instr
<1>3. \A k \in cuts : k <= pc.func.index
  <2>1. ~requireSwitchFunction(Current)
    BY DEF requireSwitchFunction, AlwaysSwitch, Enders
  <2>2. \A k \in pc.func.index + 1 .. pc.step - 1 : ~requireSwitchFunction(Instr(f, b, k))
    BY DEF InPiece, Passed
  <2> QED
    BY <1>1, <1>2, <2>1, <2>2 DEF Current
<1>4. CASE pc.func.kind = "b"
  <2>1. pc.func = createBasicBlockName(f, b) /\ pc.func.index = 0
    BY <1>1, <1>4, EmittedFacts
  <2>2. cuts = {}
    BY <1>2, <1>3, <2>1
  <2> QED
    BY <2>1, <2>2 DEF latestNameMap
<1>5. CASE pc.func.kind = "i"
  <2>1. pc.func = createInstructionName(f, b, pc.func.index) /\ pc.func.index \in cuts
    BY <1>1, <1>5, EmittedFacts
  <2>2. \A k \in cuts : k \in Nat
    BY <1>2
  <2> HIDE DEF cuts
  <2>3. pc.func.index = CHOOSE k \in cuts : \A j \in cuts : j <= k
    <3>1. \A k \in cuts : (\A j \in cuts : j <= k) => k = pc.func.index
      BY <1>3, <2>1, <2>2
    <3> QED
      BY <1>3, <2>1, <3>1
  <2> QED
    BY <2>1, <2>3 DEF latestNameMap, cuts
<1> QED
  BY <1>1, <1>4, <1>5

LEMMA JumpStepKeeps ==
  ASSUME GeneratedInv, JumpStep
  PROVE  GeneratedInv'
<1> DEFINE x == [Top EXCEPT !.from = pc.func.block, !.entry = Top.regs]
<1>1. InPiece /\ Current.kind \in Enders /\ StackOK /\ UNCHANGED runtime
  BY DEF JumpStep, Executing, Enders, GeneratedInv
<1>2. /\ Depth \in Nat /\ Depth > 0 /\ IsFrame(Top) /\ pc.func.kind \in {"b", "i"}
      /\ Top.fn = pc.func.fn /\ ~Top.wrapper /\ pc.func.block \in Nat /\ pc.func.block > 0
  BY <1>1, PieceFacts
<1>3. stack' = Replaced(stack, Depth, x) /\ prev' = pc.func
  BY DEF JumpStep, Goto, Replaced, Top
<1>4. PICK b : pc' = [func |-> createBasicBlockName(pc.func.fn, b), step |-> 0, free |-> NoFree]
  BY DEF JumpStep, Goto
<1>5. Alike(Top, x) /\ x.from = pc.func.block /\ x.entry = Top.regs /\ x.regs = Top.regs
  BY <1>2 DEF Alike, IsFrame, FrameFields
<1> HIDE DEF x
<1>6. /\ IsSequence(stack') /\ Len(stack') = Depth /\ stack'[Depth] = x
      /\ \A d \in 1 .. Depth : Alike(stack[d], stack'[d])
  <2>1. /\ IsSequence(stack) /\ Depth = Len(stack) /\ Depth \in 1 .. Len(stack)
        /\ \A d \in 1 .. Depth : Alike(stack[d], stack[d])
    BY <1>1, <1>2, StackFacts DEF Depth
  <2>2. /\ IsSequence(stack') /\ Len(stack') = Depth
        /\ \A d \in 1 .. Depth : stack'[d] = IF d = Depth THEN x ELSE stack[d]
    BY <1>3, <2>1, Replacing
  <2> QED
    BY <1>2, <1>5, <2>1, <2>2 DEF Top
<1>7. StackOK'
  BY <1>1, <1>6, StackKept
<1>8. Top' = x /\ Depth' = Depth /\ stack' # <<>>
  BY <1>2, <1>6, NotEmpty DEF Top, Depth
<1>9. CodeOK'
  BY <1>2, <1>4, <1>5, <1>8 DEF CodeOK, Alike, createBasicBlockName, Code
<1>10. PcOK' /\ RuntimeOK'
  BY <1>4 DEF PcOK, RuntimeOK, createBasicBlockName, Code
<1>11. PhisOK'
  <2>1. pc.func = latestNameMap(pc.func.fn, pc.func.block)
    BY <1>1, LastPiece
  <2>2. x.from # 0
    BY <1>2, <1>5
  <2>3. prev' = latestNameMap(pc'.func.fn, x.from) /\ pc'.func.kind = "b"
    BY <1>3, <1>4, <1>5, <2>1 DEF createBasicBlockName, Code
  <2> QED
    BY <1>5, <1>8, <2>2, <2>3 DEF PhisOK
<1> QED
  BY <1>7, <1>9, <1>10, <1>11 DEF GeneratedInv

\* Where the frames return to.
LEMMA Returning ==
  ASSUME StackOK, NEW d \in 1 .. Depth
  PROVE  /\ d = 1 => stack[d].resume = Terminate /\ stack[d].slot = Slot(0, NoReg) /\ ~stack[d].wrapper
         /\ d > 1 => ReturnsToCall(d) \/ ReturnsToWrapper(d)
         /\ stack[d].wrapper => d > 1 /\ ReturnsToCall(d)
<1>1. FrameOK(d) /\ d \in Nat /\ d >= 1
  BY StackFacts
<1> QED
  BY <1>1 DEF FrameOK, ReturnsToWrapper

\* The stack after the top frame was popped and its result written.
LEMMA Popped ==
  ASSUME StackOK, Depth > 0, NEW m \in 0 .. Depth - 1, NEW r, NEW v,
         stack' = Write(Shortened(stack), Slot(m, r), v)
  PROVE  /\ StackOK' /\ Depth' = Depth - 1
         /\ \A d \in 1 .. Depth - 1 :
              /\ stack'[d] = IF d = m THEN Defining(stack[d], r, v) ELSE stack[d]
              /\ Alike(stack[d], stack'[d])
<1>1. IsSequence(stack) /\ Depth = Len(stack) /\ Depth \in Nat
  BY StackFacts DEF Depth
<1>2. /\ IsSequence(Shortened(stack)) /\ Len(Shortened(stack)) = Depth - 1
      /\ \A d \in 1 .. Depth - 1 : Shortened(stack)[d] = stack[d]
  BY <1>1, Shortening
<1>3. /\ IsSequence(stack') /\ Len(stack') = Depth - 1
      /\ \A d \in 1 .. Depth - 1 : stack'[d] = IF d = m THEN Defining(stack[d], r, v) ELSE stack[d]
  BY <1>2, Writing
<1>4. \A d \in 1 .. Depth - 1 : IsFrame(stack[d]) /\ Alike(stack[d], stack[d])
  BY <1>1, StackFacts
<1>5. \A d \in 1 .. Depth - 1 : Alike(stack[d], stack'[d])
  BY <1>3, <1>4, DefiningFacts
<1>6. StackOK'
  BY <1>3, <1>5, StackPopped
<1> QED
  BY <1>3, <1>5, <1>6 DEF Depth

LEMMA BoundReturnKeeps ==
  ASSUME GeneratedInv, BoundReturn
  PROVE  GeneratedInv'
<1>1. CASE Top.free = NoFree
  BY <1>1, Unmoved DEF BoundReturn, Abort
<1>2. CASE Top.free # NoFree
  <2> DEFINE at == Top.resume
  <2>1. StackOK /\ Top.wrapper /\ stack # <<>>
    BY DEF GeneratedInv, BoundReturn, Invoking, CodeOK
  <2>2. /\ stack' = Shortened(stack)
        /\ pc' = [func |-> at, step |-> 0, free |-> NoFree]
    BY <1>2 DEF BoundReturn, Goto, Shortened, Depth
  <2>3. Depth \in Nat /\ Depth > 0 /\ Depth \in 1 .. Depth
    BY <2>1, StackFacts
  <2>4. Depth > 1 /\ ReturnsToCall(Depth)
    BY <2>1, <2>3, Returning DEF Top
  <2>5. stack' = Write(Shortened(stack), Slot(0, NoReg), Garbage) /\ 0 \in 0 .. Depth - 1
    BY <2>2, <2>3 DEF Write, Slot
  <2>6. StackOK' /\ Depth' = Depth - 1 /\ \A d \in 1 .. Depth - 1 : Alike(stack[d], stack'[d])
    BY <2>1, <2>3, <2>5, Popped
  <2>7. Top' = stack'[Depth - 1] /\ Alike(stack[Depth - 1], Top') /\ stack' # <<>>
    BY <2>3, <2>4, <2>6, NotEmpty DEF Top, StackOK, Depth
  <2>8. ~Top'.wrapper /\ at = createInstructionName(Top'.fn, at.block, at.index)
    BY <2>4, <2>7 DEF ReturnsToCall, Alike, Top
  <2> HIDE DEF at
  <2> QED
    BY <2>2, <2>6, <2>7, <2>8, Resumed
<1> QED
  BY <1>1, <1>2

LEMMA ReturnStepKeeps ==
  ASSUME GeneratedInv, ReturnStep
  PROVE  GeneratedInv'
<1> DEFINE at == Top.resume
           v  == Returned(Values(Current.args, Top))
<1>1. /\ InPiece /\ StackOK
      /\ stack' = Write(Shortened(stack), Top.slot, v)
      /\ pc' = [func |-> at, step |-> 0, free |-> NoFree]
  BY DEF ReturnStep, Executing, Goto, GeneratedInv, Shortened, Depth
<1>2. Depth \in Nat /\ Depth > 0 /\ ~Top.wrapper /\ Depth \in 1 .. Depth
  BY <1>1, PieceFacts
<1> HIDE DEF v
<1>3. CASE Depth = 1
  <2>1. at = Terminate /\ Top.slot = Slot(0, NoReg)
    BY <1>1, <1>2, <1>3, Returning DEF Top
  <2>2. StackOK' /\ Depth' = 0
    BY <1>1, <1>2, <1>3, <2>1, Popped
  <2>3. stack' = <<>>
    BY <2>2, NotEmpty DEF StackOK, Depth
  <2>4. CodeOK'
    BY <1>1, <2>1, <2>3 DEF CodeOK, Terminate, Code
  <2>5. PcOK' /\ RuntimeOK' /\ PhisOK'
    BY <1>1, <2>1 DEF PcOK, RuntimeOK, PhisOK, Terminate, Code
  <2> QED
    BY <2>2, <2>4, <2>5 DEF GeneratedInv
<1>4. CASE Depth > 1 /\ ReturnsToCall(Depth)
  <2>1. PICK r : Top.slot = Slot(Depth - 1, r)
    BY <1>4 DEF ReturnsToCall, Top
  <2>2. Depth - 1 \in 0 .. Depth - 1
    BY <1>2
  <2>3. StackOK' /\ Depth' = Depth - 1 /\ \A d \in 1 .. Depth - 1 : Alike(stack[d], stack'[d])
    BY <1>1, <1>2, <2>1, <2>2, Popped
  <2>4. Top' = stack'[Depth - 1] /\ Alike(stack[Depth - 1], Top') /\ stack' # <<>>
    BY <1>2, <1>4, <2>3, NotEmpty DEF Top, StackOK, Depth
  <2>5. ~Top'.wrapper /\ at = createInstructionName(Top'.fn, at.block, at.index)
    BY <1>4, <2>4 DEF ReturnsToCall, Alike, Top
  <2> HIDE DEF at
  <2> QED
    BY <1>1, <2>3, <2>4, <2>5, Resumed
<1>5. CASE Depth > 1 /\ ReturnsToWrapper(Depth)
  <2>1. /\ Depth - 1 \in 1 .. Depth /\ stack[Depth - 1].wrapper
        /\ at = BoundReturnName(stack[Depth - 1].fn) /\ Top.slot = stack[Depth - 1].slot
    BY <1>2, <1>5 DEF ReturnsToWrapper, Top
  <2>2. Depth - 1 > 1 /\ ReturnsToCall(Depth - 1)
    BY <1>1, <2>1, Returning
  <2>3. PICK r : Top.slot = Slot(Depth - 1 - 1, r)
    BY <2>1, <2>2 DEF ReturnsToCall
  <2>4. Depth - 1 - 1 \in 0 .. Depth - 1
    BY <1>2, <2>2
  <2>5. StackOK' /\ Depth' = Depth - 1 /\ \A d \in 1 .. Depth - 1 : Alike(stack[d], stack'[d])
    BY <1>1, <1>2, <2>3, <2>4, Popped
  <2>6. Top' = stack'[Depth - 1] /\ Alike(stack[Depth - 1], Top') /\ stack' # <<>>
    BY <1>2, <2>2, <2>5, NotEmpty DEF Top, StackOK, Depth
  <2>7. Top'.wrapper /\ at = BoundReturnName(Top'.fn)
    BY <2>1, <2>6 DEF Alike
  <2>8. CodeOK'
    BY <1>1, <2>6, <2>7 DEF CodeOK, BoundReturnName, Code
  <2>9. PcOK' /\ RuntimeOK' /\ PhisOK'
    BY <1>1, <2>7 DEF PcOK, RuntimeOK, PhisOK, BoundReturnName, Code
  <2> QED
    BY <2>5, <2>8, <2>9 DEF GeneratedInv
<1> QED
  BY <1>1, <1>2, <1>3, <1>4, <1>5, Returning

LEMMA InitKeeps ==
  ASSUME Init
  PROVE  GeneratedInv
<1>1. PICK f \in Entries :
        /\ stack = <<Frame(f, FALSE, <<>>, Terminate, Slot(0, NoReg))>>
        /\ pc = [func |-> createFunctionName(f), step |-> 0, free |-> NoFree]
  BY DEF Init
<1> DEFINE x == Frame(f, FALSE, <<>>, Terminate, Slot(0, NoReg))
<1>2. /\ IsFrame(x) /\ x.fn = f /\ ~x.wrapper /\ x.resume = Terminate /\ x.slot = Slot(0, NoReg)
      /\ x.from = 0 /\ x.regs = x.entry
  BY DEF Frame, IsFrame, FrameFields, Undefined
<1>3. stack = <<x>>
  BY <1>1
<1> HIDE DEF x
<1>4. IsSequence(stack) /\ Depth = 1 /\ Top = x /\ stack[1] = x /\ stack # <<>>
  BY <1>3 DEF IsSequence, Depth, Top
<1>5. StackOK
  BY <1>2, <1>4 DEF StackOK, FrameOK, IsFrame
<1>6. CodeOK
  BY <1>1, <1>2, <1>4 DEF CodeOK, createFunctionName, Code
<1>7. PcOK /\ RuntimeOK /\ PhisOK
  BY <1>1, <1>2, <1>4 DEF PcOK, RuntimeOK, PhisOK, createFunctionName, Code
<1> QED
  BY <1>5, <1>6, <1>7 DEF GeneratedInv

LEMMA StepKeeps ==
  ASSUME GeneratedInv, [Next]_vars
  PROVE  GeneratedInv'
<1>1. CASE EnterFunction
  BY <1>1, EnterFunctionKeeps
<1>2. CASE EnterPiece
  BY <1>2, EnterPieceKeeps
<1>3. CASE BoundCall
  BY <1>3, BoundCallKeeps
<1>4. CASE BoundReturn
  BY <1>4, BoundReturnKeeps
<1>5. CASE Finish
  BY <1>5, Unmoved DEF Finish
<1>6. CASE PhiStep
  BY <1>6, PhiStepKeeps
<1>7. CASE Compute
  BY <1>7, ComputeKeeps
<1>8. CASE AllocLocal
  BY <1>8, AllocLocalKeeps
<1>9. CASE StoreStep
  BY <1>9, StoreStepKeeps
<1>10. CASE CallRuntime
  BY <1>10, CallRuntimeKeeps
<1>11. CASE RunRuntime
  BY <1>11, RunRuntimeKeeps
<1>12. CASE RunInvoke
  BY <1>12, RunInvokeKeeps
<1>13. CASE CallFunction
  BY <1>13, CallFunctionKeeps
<1>14. CASE JumpStep
  BY <1>14, JumpStepKeeps
<1>15. CASE ReturnStep
  BY <1>15, ReturnStepKeeps
<1>16. CASE UNCHANGED vars
  BY <1>16, Unmoved DEF vars
<1> QED
  BY <1>1, <1>2, <1>3, <1>4, <1>5, <1>6, <1>7, <1>8, <1>9, <1>10, <1>11, <1>12, <1>13, <1>14, <1>15,
     <1>16 DEF Next, Step, Ended

\* In every state of compiled code (src/cgen/main.go) a frame returns to the frame
\* below it, the C function that runs belongs to the top frame, a function of the
\* runtime goes back behind the instruction that called it, and the phi nodes of a
\* block see the registers it was entered with and the block it was entered from.
THEOREM GeneratedInvariant == Spec => []GeneratedInv
<1>1. Init => GeneratedInv
  BY InitKeeps
<1>2. GeneratedInv /\ [Next]_vars => GeneratedInv'
  BY StepKeeps
<1> QED
  BY <1>1, <1>2, PTL DEF Spec

-----------------------------------------------------------------------------
(* The refinement: the activations of a state and of the next one.         *)

LEMMA Listed ==
  ASSUME NEW n \in Nat, NEW s, s = [d \in 1 .. n |-> s[d]]
  PROVE  IsSequence(s) /\ Len(s) = n
<1> DEFINE S == {s[d] : d \in 1 .. n}
<1>1. s \in [1 .. n -> S]
  OBVIOUS
<1>2. s \in UNION {[1 .. m -> S] : m \in Nat}
  BY <1>1
<1>3. s \in Seq(S) /\ DOMAIN s = 1 .. n
  BY <1>1, <1>2, SeqDef
<1>4. Len(s) = n
  <2> HIDE DEF S
  <2> QED
    BY <1>3, LenProperties
<1> QED
  BY <1>4 DEF IsSequence

LEMMA Acts ==
  ASSUME NEW n \in Nat, Visible = n
  PROVE  /\ IsSequence(Activations) /\ Len(Activations) = n
         /\ \A d \in 1 .. n : Activations[d] = ActivationAt(d)
<1>1. Activations = [d \in 1 .. n |-> ActivationAt(d)]
  BY DEF Activations
<1> DEFINE s == Activations
<1>2. s = [d \in 1 .. n |-> s[d]]
  BY <1>1
<1> HIDE DEF s
<1>3. IsSequence(s) /\ Len(s) = n
  BY <1>2, Listed
<1> QED
  BY <1>1, <1>3 DEF s

LEMMA NextActs ==
  ASSUME NEW n \in Nat, Visible' = n
  PROVE  /\ IsSequence(Activations') /\ Len(Activations') = n
         /\ \A d \in 1 .. n : Activations'[d] = ActivationAt(d)'
<1>1. Activations' = [d \in 1 .. n |-> ActivationAt(d)']
  BY DEF Activations
<1> DEFINE s == Activations'
<1>2. s = [d \in 1 .. n |-> s[d]]
  BY <1>1
<1> HIDE DEF s
<1>3. IsSequence(s) /\ Len(s) = n
  BY <1>2, Listed
<1> QED
  BY <1>1, <1>3 DEF s

\* An activation below the top one is where the frame above it returns to.
LEMMA LowerKept ==
  ASSUME NEW m \in Nat, Depth \in Nat, Depth' \in Nat, m < Visible, m < Visible',
         \A d \in 1 .. m : stack'[d] = stack[d],
         \A d \in 2 .. m + 1 : stack'[d].resume = stack[d].resume
  PROVE  \A d \in 1 .. m : ActivationAt(d)' = ActivationAt(d)
<1> TAKE d \in 1 .. m
<1>1. d < Visible /\ d < Visible' /\ d < Depth /\ d < Depth'
  <2>1. /\ Visible = Depth \/ Visible = Depth - 1
        /\ Visible' = Depth' \/ Visible' = Depth' - 1
    BY DEF Visible
  <2> HIDE DEF Visible, Depth
  <2> QED
    BY <2>1
<1>2. stack'[d] = stack[d] /\ stack'[d + 1].resume = stack[d + 1].resume
  OBVIOUS
<1>3. Place(d)' = Place(d)
  BY <1>1, <1>2 DEF Place
<1>4. d # Depth /\ d # Depth'
  BY <1>1
<1> QED
  BY <1>2, <1>3, <1>4 DEF ActivationAt

LEMMA SsaStutters ==
  ASSUME Activations' = Activations, stack' = <<>> <=> stack = <<>>, mem' = mem, result' = result
  PROVE  UNCHANGED Ssa!ssaVars
BY DEF Ssa!ssaVars

LEMMA UnmovedStutters ==
  ASSUME UNCHANGED <<stack, pc, runtime, mem, result>>
  PROVE  UNCHANGED Ssa!ssaVars
<1>1. Depth' = Depth /\ Visible' = Visible
  BY DEF Depth, Visible
<1>2. \A d : Place(d)' = Place(d)
  BY <1>1 DEF Place, Top, Depth
<1>3. \A d : ActivationAt(d)' = ActivationAt(d)
  BY <1>1, <1>2 DEF ActivationAt
<1>4. Activations' = Activations
  BY <1>1, <1>3 DEF Activations
<1> QED
  BY <1>4, SsaStutters

\* SsaMachine reads instructions as GeneratedCode does.
LEMMA SameInstructions ==
  /\ Ssa!None = None /\ Ssa!NoReg = NoReg /\ Ssa!NoFree = NoFree /\ Ssa!Undefined = Undefined
  /\ \A f, b, k : Ssa!Instr(f, b, k) = Instr(f, b, k)
  /\ \A f, b : Ssa!Block(f, b) = Block(f, b)
  /\ \A d, r : Ssa!Local(d, r) = Local(d, r)
  /\ \A xs : Ssa!Returned(xs) = Returned(xs)
  /\ \A i : Ssa!IsCall(i) <=> IsCall(i)
BY DEF Ssa!None, None, Ssa!NoReg, NoReg, Ssa!NoFree, NoFree, Ssa!Undefined, Undefined, Ssa!Instr, Instr,
       Ssa!Block, Block, Ssa!Local, Local, Ssa!Returned, Returned, Ssa!IsCall, IsCall

LEMMA SameEmitted ==
  ASSUME NEW i
  PROVE  Ssa!EmittedFunction(i) = EmittedFunction(i)
<1>1. \A b, t : Ssa!BuiltinFunction(b, t) = BuiltinFunction(b, t)
  BY DEF Ssa!BuiltinFunction, BuiltinFunction, Ssa!LengthFunction, LengthFunction
<1>2. \A s, t : Ssa!ConvertFunction(s, t) = ConvertFunction(s, t)
  BY DEF Ssa!ConvertFunction, ConvertFunction, Ssa!SlicesOfText, SlicesOfText, Ssa!None, None
<1>3. \A k, t : Ssa!TypedFunction(k, t) = TypedFunction(k, t)
  BY DEF Ssa!TypedFunction, TypedFunction, Ssa!None, None
<1>4. Ssa!PlainFunction = PlainFunction
  BY DEF Ssa!PlainFunction, PlainFunction
<1> QED
  BY <1>1, <1>2, <1>3, <1>4 DEF Ssa!EmittedFunction, EmittedFunction, Ssa!None, None

\* The operands of an instruction have the values they have in SSA form.
LEMMA SameValues ==
  ASSUME NEW f, NEW a, a.regs = f.regs, a.params = f.params, a.free = f.free
  PROVE  /\ \A x : Ssa!ValueOf(x, a) = ValueOf(x, f)
         /\ \A xs : Ssa!Values(xs, a) = Values(xs, f)
<1>1. \A x : Ssa!ValueOf(x, a) = ValueOf(x, f)
  BY DEF Ssa!ValueOf, ValueOf
<1> QED
  BY <1>1 DEF Ssa!Values, Values

-----------------------------------------------------------------------------
(* Steps the SSA form does not see.                                        *)

LEMMA SameActs ==
  ASSUME NEW n \in Nat, Visible = n, Visible' = n,
         \A d \in 1 .. n : ActivationAt(d)' = ActivationAt(d)
  PROVE  Activations' = Activations
BY DEF Activations

\* A step that leaves all but the free variables of the top frame as it is, and the
\* top activation where it stands, is a stutter.
LEMMA TopStutters ==
  ASSUME Depth \in Nat, Depth > 0, Visible = Depth, Visible' = Depth, Depth' = Depth,
         stack # <<>>, stack' # <<>>,
         \A d \in 1 .. Depth : Alike(stack[d], stack'[d]),
         \A d \in 1 .. Depth - 1 : stack'[d] = stack[d],
         NEW n, n = Depth, ActivationAt(n)' = ActivationAt(n), UNCHANGED <<mem, result>>
  PROVE  UNCHANGED Ssa!ssaVars
<1>1. n - 1 \in Nat /\ n - 1 < Visible /\ n - 1 < Visible' /\ Depth' \in Nat
  OBVIOUS
<1>2. (\A d \in 1 .. n - 1 : stack'[d] = stack[d])
      /\ (\A d \in 2 .. (n - 1) + 1 : stack'[d].resume = stack[d].resume)
  BY DEF Alike
<1> DEFINE m == n - 1
<1> HIDE DEF m
<1>3. \A d \in 1 .. m : ActivationAt(d)' = ActivationAt(d)
  BY <1>1, <1>2, LowerKept DEF m
<1>4. \A d \in 1 .. n : ActivationAt(d)' = ActivationAt(d)
  BY <1>3 DEF m
<1>5. Activations' = Activations
  BY <1>4, SameActs
<1> QED
  BY <1>5, SsaStutters

LEMMA EnterFunctionStutters ==
  ASSUME GeneratedInv, EnterFunction
  PROVE  UNCHANGED Ssa!ssaVars
<1>1. StackOK /\ stack # <<>> /\ pc.func.kind = "f"
  BY DEF GeneratedInv, EnterFunction, Invoking, CodeOK
<1>2. PICK n \in Nat : n = Depth /\ n > 0
  BY <1>1, StackFacts
<1>3. /\ stack' = Prepared
      /\ pc' = [func |-> createBasicBlockName(pc.func.fn, 1), step |-> 0, free |-> NoFree]
      /\ UNCHANGED <<mem, result>>
  BY DEF EnterFunction, Goto
<1>4. /\ IsSequence(stack') /\ Len(stack') = n
      /\ \A d \in 1 .. n : Alike(stack[d], stack'[d])
      /\ \A d \in 1 .. n - 1 : stack'[d] = stack[d]
      /\ stack'[n].free = IF pc.free = NoFree THEN stack[n].free ELSE pc.free
      /\ stack'[n].from = stack[n].from
      /\ stack'[n].entry = stack[n].entry /\ stack'[n].regs = stack[n].regs
      /\ Alike(stack[n], stack'[n])
  BY <1>1, <1>2, <1>3, PreparedFacts DEF Top
<1>5. Depth' = n /\ stack' # <<>>
  BY <1>2, <1>4, NotEmpty DEF Depth
<1>6. Visible = n /\ Visible' = n
  BY <1>1, <1>2, <1>3, <1>5 DEF Visible, createBasicBlockName, Code
<1>7. Place(n) = [block |-> 1, index |-> 1] /\ Place(n)' = [block |-> 1, index |-> 1]
  BY <1>1, <1>2, <1>3, <1>5, <1>6 DEF Place, createBasicBlockName, Code
<1>8. ActivationAt(n)' = ActivationAt(n)
  BY <1>2, <1>3, <1>4, <1>5, <1>7 DEF ActivationAt, Alike
<1> QED
  BY <1>1, <1>2, <1>3, <1>4, <1>5, <1>6, <1>8, TopStutters

LEMMA EnterPieceStutters ==
  ASSUME GeneratedInv, EnterPiece
  PROVE  UNCHANGED Ssa!ssaVars
<1>1. CASE UNCHANGED <<stack, pc, runtime, mem, result>>
  BY <1>1, UnmovedStutters
<1>2. CASE /\ stack' = Prepared
           /\ pc' = [pc EXCEPT !.step = pc.func.index + 1, !.free = NoFree]
           /\ UNCHANGED <<mem, result>>
  <2>1. /\ StackOK /\ stack # <<>> /\ pc.func.kind \in {"b", "i"} /\ pc.step = 0 /\ pc.free = NoFree
        /\ DOMAIN pc = {"func", "step", "free"}
        /\ pc.func.fn \in DOMAIN Program /\ pc.func \in Emitted(pc.func.fn)
    BY DEF GeneratedInv, EnterPiece, Invoking, CodeOK, PcOK
  <2>2. PICK n \in Nat : n = Depth /\ n > 0
    BY <2>1, StackFacts
  <2>3. stack' = stack /\ pc'.func = pc.func /\ pc'.step = pc.func.index + 1 /\ pc'.free = NoFree
    BY <1>2, <2>1 DEF Prepared
  <2>4. Depth' = n /\ stack' # <<>> /\ \A d \in 1 .. n : Alike(stack[d], stack'[d])
    BY <2>1, <2>2, <2>3, StackFacts DEF Depth
  <2>5. Visible = n /\ Visible' = n
    BY <2>1, <2>2, <2>3, <2>4 DEF Visible
  <2>6. pc.func.index \in Nat
    <3>1. pc.func.kind = "b" => pc.func.index = 0
      BY <2>1, EmittedFacts
    <3>2. pc.func.kind = "i" => pc.func.index \in Nat
      <4>1. /\ pc.func.kind = "i" => pc.func.index \in DOMAIN Block(pc.func.fn, pc.func.block).instrs
            /\ WellFormed(Block(pc.func.fn, pc.func.block).instrs)
        BY <2>1, EmittedFacts
      <4>2. DOMAIN Block(pc.func.fn, pc.func.block).instrs
              = 1 .. Len(Block(pc.func.fn, pc.func.block).instrs)
        BY <4>1, SequenceFacts DEF WellFormed
      <4> QED
        BY <4>1, <4>2
    <3> QED
      BY <2>1, <3>1, <3>2
  <2>7. Place(n)' = Place(n)
    BY <2>1, <2>2, <2>3, <2>4, <2>5, <2>6 DEF Place
  <2>8. ActivationAt(n)' = ActivationAt(n)
    BY <2>1, <2>2, <2>3, <2>4, <2>7 DEF ActivationAt
  <2> QED
    BY <1>2, <2>1, <2>2, <2>3, <2>4, <2>5, <2>8, TopStutters
<1> QED
  BY <1>1, <1>2 DEF EnterPiece, Abort

LEMMA CallRuntimeStutters ==
  ASSUME GeneratedInv, CallRuntime
  PROVE  UNCHANGED Ssa!ssaVars
<1>1. /\ InPiece /\ pc'.func = RuntimeName(EmittedFunction(Current)) /\ pc'.free = NoFree
      /\ runtime'.resume = Here /\ UNCHANGED <<stack, mem, result>> /\ pc.step > 0
  BY DEF CallRuntime, Goto, InPiece
<1>2. PICK n \in Nat : n = Depth /\ n > 0
  BY <1>1, PieceFacts
<1>3. pc.func.kind \in {"b", "i"} /\ pc.free = NoFree /\ pc.step \in Nat
  BY <1>1, PieceFacts
<1>4. StackOK /\ stack # <<>>
  BY <1>2, StackFacts DEF GeneratedInv
<1>5. Depth' = n /\ stack' # <<>> /\ \A d \in 1 .. n : Alike(stack[d], stack'[d])
  BY <1>1, <1>2, <1>4, StackFacts DEF Depth
<1>6. Visible = n /\ Visible' = n
  BY <1>1, <1>2, <1>3, <1>5 DEF Visible, RuntimeName, Code
<1>7. Place(n) = [block |-> pc.func.block, index |-> pc.step]
  BY <1>1, <1>2, <1>3, <1>6 DEF Place
<1>8. Place(n)' = [block |-> pc.func.block, index |-> pc.step]
  BY <1>1, <1>5, <1>6 DEF Place, RuntimeName, Here, createInstructionName, Code
<1>9. ActivationAt(n)' = ActivationAt(n)
  BY <1>1, <1>2, <1>3, <1>5, <1>7, <1>8 DEF ActivationAt
<1> QED
  BY <1>1, <1>2, <1>4, <1>5, <1>6, <1>9, TopStutters

\* The wrapper of a bound method is gone when its method has returned.
LEMMA BoundReturnStutters ==
  ASSUME GeneratedInv, BoundReturn
  PROVE  UNCHANGED Ssa!ssaVars
<1>1. CASE UNCHANGED <<stack, pc, runtime, mem, result>>
  BY <1>1, UnmovedStutters
<1>2. CASE ~UNCHANGED <<stack, pc, runtime, mem, result>>
  <2>1. /\ StackOK /\ Top.wrapper /\ stack # <<>> /\ pc.func.kind = "return" /\ pc.free = NoFree
        /\ stack' = Shortened(stack)
        /\ pc' = [func |-> Top.resume, step |-> 0, free |-> NoFree] /\ UNCHANGED <<mem, result>>
    BY <1>2 DEF GeneratedInv, BoundReturn, Invoking, CodeOK, PcOK, Abort, Goto, Shortened, Depth
  <2>2. PICK n \in Nat : n = Depth /\ n > 0
    BY <2>1, StackFacts
  <2>3. n > 1 /\ ReturnsToCall(n)
    BY <2>1, <2>2, Returning DEF Top
  <2>4. PICK m \in Nat : m = n - 1
    BY <2>2
  <2>5. IsSequence(stack') /\ Len(stack') = m /\ \A d \in 1 .. m : stack'[d] = stack[d]
    BY <2>1, <2>2, <2>4, StackFacts, Shortening DEF Depth
  <2>6. Depth' = m /\ stack' # <<>>
    BY <2>3, <2>4, <2>5, NotEmpty DEF Depth
  <2>7. pc'.func.kind = "i" /\ pc'.func = Top.resume
    BY <2>1, <2>2, <2>3 DEF ReturnsToCall, createInstructionName, Code, Top
  <2>8. Visible = m /\ Visible' = m
    BY <2>1, <2>2, <2>4, <2>6, <2>7 DEF Visible
  <2>9. Place(m) = [block |-> Top.resume.block, index |-> Top.resume.index + 1]
    BY <2>2, <2>4, <2>8 DEF Place
  <2>10. Place(m)' = [block |-> Top.resume.block, index |-> Top.resume.index + 1]
    BY <2>1, <2>6, <2>7, <2>8 DEF Place
  <2>11. ActivationAt(m)' = ActivationAt(m)
    BY <2>1, <2>2, <2>3, <2>4, <2>5, <2>6, <2>9, <2>10 DEF ActivationAt
  <2>12. \A d \in 1 .. m - 1 : ActivationAt(d)' = ActivationAt(d)
    <3> DEFINE l == m - 1
    <3>1. l \in Nat /\ l < Visible /\ l < Visible' /\ Depth \in Nat /\ Depth' \in Nat
      BY <2>2, <2>3, <2>4, <2>6, <2>8
    <3>2. (\A d \in 1 .. l : stack'[d] = stack[d])
          /\ (\A d \in 2 .. l + 1 : stack'[d].resume = stack[d].resume)
      BY <2>5
    <3> HIDE DEF l
    <3> QED
      BY <3>1, <3>2, LowerKept DEF l
  <2>13. \A d \in 1 .. m : ActivationAt(d)' = ActivationAt(d)
    BY <2>11, <2>12
  <2>14. Activations' = Activations
    BY <2>8, <2>13, SameActs
  <2> QED
    BY <2>1, <2>6, <2>14, SsaStutters
<1> QED
  BY <1>1, <1>2

-----------------------------------------------------------------------------
(* Steps of the SSA form.                                                  *)

\* The machine stands where the piece of code does.
LEMMA TopActivation ==
  ASSUME GeneratedInv, InPiece
  PROVE  /\ IsSequence(Activations) /\ Len(Activations) = Depth /\ Activations # <<>>
         /\ Visible = Depth /\ Depth \in Nat /\ Depth > 0
         /\ Ssa!Top = ActivationAt(Depth)
         /\ Ssa!Top.fn = pc.func.fn /\ Ssa!Top.block = pc.func.block /\ Ssa!Top.index = pc.step
         /\ Ssa!Top.from = Top.from /\ Ssa!Top.entry = Top.entry /\ Ssa!Top.regs = Top.regs
         /\ Ssa!Top.params = Top.params /\ Ssa!Top.free = Top.free
         /\ Ssa!Current = Current /\ Ssa!InProgram
         /\ \A x : Ssa!ValueOf(x, Ssa!Top) = ValueOf(x, Top)
         /\ \A xs : Ssa!Values(xs, Ssa!Top) = Values(xs, Top)
<1>1. PICK n \in Nat : n = Depth /\ n > 0
  BY PieceFacts
<1>2. /\ pc.func.kind \in {"b", "i"} /\ pc.free = NoFree /\ pc.step \in Nat /\ pc.step > 0
      /\ Top.fn = pc.func.fn /\ ~Top.wrapper
  BY PieceFacts DEF InPiece
<1>3. stack # <<>>
  BY <1>1, StackFacts DEF GeneratedInv
<1>4. Visible = n
  BY <1>1, <1>2 DEF Visible
<1>5. IsSequence(Activations) /\ Len(Activations) = n /\ Activations[n] = ActivationAt(n)
  BY <1>1, <1>4, Acts
<1>6. Activations # <<>>
  BY <1>1, <1>5, NotEmpty
<1>7. Ssa!Top = ActivationAt(n)
  BY <1>5 DEF Ssa!Top
<1>8. Place(n) = [block |-> pc.func.block, index |-> pc.step]
  BY <1>1, <1>2, <1>4 DEF Place
<1> DEFINE a == ActivationAt(n)
<1>9. /\ a.fn = pc.func.fn /\ a.block = pc.func.block /\ a.index = pc.step
      /\ a.from = Top.from /\ a.entry = Top.entry /\ a.regs = Top.regs
      /\ a.params = Top.params /\ a.free = Top.free /\ ~a.wrapper
  BY <1>1, <1>2, <1>8 DEF ActivationAt, Top
<1> HIDE DEF a
<1>10. Ssa!Current = Current
  BY <1>7, <1>9, SameInstructions DEF Ssa!Current, Current, a
<1>11. Ssa!InProgram
  BY <1>3, <1>6, <1>7, <1>9 DEF Ssa!InProgram, a
<1>12. (\A x : Ssa!ValueOf(x, a) = ValueOf(x, Top)) /\ (\A xs : Ssa!Values(xs, a) = Values(xs, Top))
  BY <1>9, SameValues
<1> QED
  BY <1>1, <1>4, <1>5, <1>6, <1>7, <1>9, <1>10, <1>11, <1>12 DEF a

\* An activation as a record, and what it is when it has gone on.
Record(f, w, p, e, b, k, from, entry, regs) ==
  [fn |-> f, wrapper |-> w, params |-> p, free |-> e, block |-> b, index |-> k,
   from |-> from, entry |-> entry, regs |-> regs]

LEMMA Moved ==
  ASSUME NEW f, NEW w, NEW p, NEW e, NEW b, NEW k, NEW from, NEW entry, NEW regs, NEW r, NEW v
  PROVE  Ssa!GoneOn(Record(f, w, p, e, b, k, from, entry, regs), r, v)
           = Record(f, w, p, e, b, k + 1, from, entry, Ssa!Defined(regs, r, v))
<1> DEFINE a     == Record(f, w, p, e, b, k, from, entry, regs)
           regs2 == Ssa!Defined(regs, r, v)
           k2    == k + 1
           y     == [a EXCEPT !.regs = regs2]
<1>1. a.regs = regs /\ a.index = k
  BY DEF Record
<1>2. Ssa!GoneOn(a, r, v) = [y EXCEPT !.index = k2]
  BY <1>1 DEF Ssa!GoneOn
<1> HIDE DEF regs2, k2
<1>3. y = Record(f, w, p, e, b, k, from, entry, regs2)
  BY DEF Record
<1> HIDE DEF y
<1>4. [y EXCEPT !.index = k2] = Record(f, w, p, e, b, k2, from, entry, regs2)
  BY <1>3 DEF Record
<1> QED
  BY <1>2, <1>4 DEF regs2, k2

\* A write to a register of the top frame, and a step forward.
LEMMA RegisterWritten ==
  ASSUME StackOK, NEW n \in Nat, n = Depth, n > 0, NEW r, NEW v,
         stack' = Write(stack, Slot(Depth, r), v),
         Visible = n, pc'.func.kind # "return", pc.free = NoFree, pc'.free = NoFree,
         Place(n)' = [block |-> Place(n).block, index |-> Place(n).index + 1]
  PROVE  Ssa!GoOn(r, v) /\ stack # <<>> /\ stack' # <<>>
<1>1. /\ StackOK' /\ Depth' = n
      /\ \A d \in 1 .. n - 1 : stack'[d] = stack[d]
      /\ Alike(stack[n], stack'[n]) /\ stack'[n].free = stack[n].free
      /\ stack'[n].from = stack[n].from /\ stack'[n].entry = stack[n].entry
      /\ stack'[n].regs = Ssa!Defined(stack[n].regs, r, v)
      /\ \A d \in 1 .. n : Alike(stack[d], stack'[d])
  BY TopWritten DEF Top
<1>2. Visible' = n
  BY <1>1 DEF Visible
<1>3. IsSequence(Activations) /\ Len(Activations) = n /\ \A d \in 1 .. n : Activations[d] = ActivationAt(d)
  BY Acts
<1>4. /\ IsSequence(Activations') /\ Len(Activations') = n
      /\ \A d \in 1 .. n : Activations'[d] = ActivationAt(d)'
  BY <1>2, NextActs
<1>5. \A d \in 1 .. n - 1 : ActivationAt(d)' = ActivationAt(d)
  <2> DEFINE l == n - 1
  <2>1. l \in Nat /\ l < Visible /\ l < Visible' /\ Depth \in Nat /\ Depth' \in Nat
    BY <1>1, <1>2
  <2>2. (\A d \in 1 .. l : stack'[d] = stack[d])
        /\ (\A d \in 2 .. l + 1 : stack'[d].resume = stack[d].resume)
    BY <1>1 DEF Alike
  <2> HIDE DEF l
  <2> QED
    BY <2>1, <2>2, LowerKept DEF l
<1> DEFINE x == Ssa!GoneOn(ActivationAt(n), r, v)
<1>6. ActivationAt(n)' = x
  <2>1. ActivationAt(n)
          = Record(stack[n].fn, stack[n].wrapper, stack[n].params, stack[n].free, Place(n).block,
                   Place(n).index, stack[n].from, stack[n].entry, stack[n].regs)
    BY DEF ActivationAt, Record
  <2>2. ActivationAt(n)'
          = Record(stack[n].fn, stack[n].wrapper, stack[n].params, stack[n].free, Place(n).block,
                   Place(n).index + 1, stack[n].from, stack[n].entry, Ssa!Defined(stack[n].regs, r, v))
    BY <1>1 DEF ActivationAt, Record, Alike
  <2> QED
    BY <2>1, <2>2, Moved
<1>7. x = Ssa!GoneOn(Ssa!Top, r, v)
  BY <1>3 DEF Ssa!Top
<1> HIDE DEF x
<1>8. Activations' = Replaced(Activations, n, x)
  <2>1. /\ IsSequence(Replaced(Activations, n, x)) /\ Len(Replaced(Activations, n, x)) = n
        /\ \A d \in 1 .. n : Replaced(Activations, n, x)[d] = IF d = n THEN x ELSE Activations[d]
    <3> DEFINE s == Activations
    <3>1. n \in 1 .. Len(s) /\ IsSequence(s) /\ Len(s) = n
      BY <1>3
    <3> HIDE DEF s
    <3>2. /\ IsSequence(Replaced(s, n, x)) /\ Len(Replaced(s, n, x)) = Len(s)
          /\ \A d \in 1 .. Len(s) : Replaced(s, n, x)[d] = IF d = n THEN x ELSE s[d]
      BY <3>1, Replacing
    <3> QED
      BY <3>1, <3>2 DEF s
  <2>2. \A d \in 1 .. n : Activations'[d] = Replaced(Activations, n, x)[d]
    BY <1>3, <1>4, <1>5, <1>6, <2>1
  <2> QED
    BY <1>4, <2>1, <2>2, SameSequence
<1>9. Ssa!GoOn(r, v)
  BY <1>3, <1>7, <1>8 DEF Ssa!GoOn, Replaced
<1> QED
  BY <1>1, <1>9, StackFacts, NotEmpty DEF StackOK, Depth

LEMMA GoOnRefines ==
  ASSUME GeneratedInv, InPiece, NEW r, NEW v, GoOn(r, v)
  PROVE  Ssa!GoOn(r, v) /\ stack # <<>> /\ stack' # <<>>
<1>1. PICK n \in Nat : n = Depth /\ n > 0 /\ Visible = n
  BY TopActivation
<1>2. pc.func.kind \in {"b", "i"} /\ pc.free = NoFree /\ pc.step \in Nat /\ pc.step > 0
  BY PieceFacts DEF InPiece
<1>3. StackOK /\ DOMAIN pc = {"func", "step", "free"} /\ stack' = Write(stack, Slot(Depth, r), v)
  BY DEF GeneratedInv, PcOK, GoOn
<1>4. pc'.func = pc.func /\ pc'.step = pc.step + 1 /\ pc'.free = NoFree
  BY <1>2, <1>3 DEF GoOn
<1>5. Depth' = n
  BY <1>1, <1>3, TopWritten
<1>6. Visible' = n
  BY <1>2, <1>4, <1>5 DEF Visible
<1>7. Place(n) = [block |-> pc.func.block, index |-> pc.step]
  BY <1>1, <1>2 DEF Place
<1>8. Place(n)' = [block |-> pc.func.block, index |-> pc.step + 1]
  BY <1>2, <1>4, <1>5, <1>6 DEF Place
<1>9. Place(n)' = [block |-> Place(n).block, index |-> Place(n).index + 1]
  BY <1>7, <1>8
<1>10. pc'.func.kind # "return"
  BY <1>2, <1>4
<1> QED
  BY <1>1, <1>2, <1>3, <1>4, <1>9, <1>10, RegisterWritten

LEMMA ComputeRefines ==
  ASSUME GeneratedInv, Compute, ComputesAsMeant
  PROVE  [Ssa!SsaNext]_(Ssa!ssaVars)
<1> DEFINE v == Computed(Current, Values(Current.args, Top), mem)
<1>1. InPiece /\ UNCHANGED <<runtime, mem, result>> /\ ~Leaves(Current)
      /\ Current.kind \notin {"Phi", "Alloc", "Store", "Panic"}
  BY DEF Compute, Computing
<1>2. CASE v = Trap
  BY <1>1, <1>2, UnmovedStutters DEF Compute
<1>3. CASE v # Trap
  <2>1. GoOn(Current.dest, v)
    BY <1>3 DEF Compute
  <2>2. Ssa!GoOn(Current.dest, v) /\ stack # <<>> /\ stack' # <<>>
    BY <1>1, <2>1, GoOnRefines
  <2>3. Ssa!Current = Current /\ Ssa!InProgram
        /\ Ssa!Values(Current.args, Ssa!Top) = Values(Current.args, Top)
    BY <1>1, TopActivation
  <2>4. Ssa!IsComputed(Current)
    BY <1>1, SameInstructions, SameEmitted DEF Ssa!IsComputed, Leaves
  <2>5. v = Meaning(Current, Values(Current.args, Top), mem)
    BY <1>3 DEF ComputesAsMeant, Compute
  <2> HIDE DEF v
  <2>6. Ssa!SsaCompute
    BY <1>1, <1>3, <2>2, <2>3, <2>4, <2>5 DEF Ssa!SsaCompute
  <2> QED
    BY <2>6 DEF Ssa!SsaNext
<1> QED
  BY <1>2, <1>3

LEMMA AllocLocalRefines ==
  ASSUME GeneratedInv, AllocLocal
  PROVE  Ssa!SsaNext
<1>1. /\ InPiece /\ Current.kind = "Alloc" /\ ~Current.heap
      /\ GoOn(Current.dest, Local(Depth, Current.dest))
      /\ mem' = Stored(Local(Depth, Current.dest), Current.zero, mem) /\ UNCHANGED result
  BY DEF AllocLocal, Executing
<1>2. Ssa!GoOn(Current.dest, Local(Depth, Current.dest)) /\ stack # <<>> /\ stack' # <<>>
  BY <1>1, GoOnRefines
<1>3. Ssa!Current = Current /\ Ssa!InProgram /\ Len(Activations) = Depth
  BY <1>1, TopActivation
<1>4. Ssa!Local(Depth, Current.dest) = Local(Depth, Current.dest)
  BY SameInstructions
<1>5. Ssa!SsaAlloc
  BY <1>1, <1>2, <1>3, <1>4 DEF Ssa!SsaAlloc, Ssa!Running
<1> QED
  BY <1>5 DEF Ssa!SsaNext

LEMMA StoreStepRefines ==
  ASSUME GeneratedInv, StoreStep
  PROVE  Ssa!SsaNext
<1>1. /\ InPiece /\ Current.kind = "Store" /\ GoOn(NoReg, Garbage) /\ UNCHANGED result
      /\ mem' = Stored(ValueOf(Current.args[1], Top), ValueOf(Current.args[2], Top), mem)
  BY DEF StoreStep, Executing
<1>2. Ssa!GoOn(NoReg, Garbage) /\ stack # <<>> /\ stack' # <<>>
  BY <1>1, GoOnRefines
<1>3. Ssa!Current = Current /\ Ssa!InProgram /\ \A x : Ssa!ValueOf(x, Ssa!Top) = ValueOf(x, Top)
  BY <1>1, TopActivation
<1>4. Ssa!NoReg = NoReg
  BY SameInstructions
<1>5. Ssa!SsaStore
  BY <1>1, <1>2, <1>3, <1>4 DEF Ssa!SsaStore, Ssa!Running
<1> QED
  BY <1>5 DEF Ssa!SsaNext

\* Only one predecessor of a block ends in a given C function.
LEMMA LatestName ==
  ASSUME NEW f, NEW b
  PROVE  latestNameMap(f, b).block = b /\ latestNameMap(f, b).kind \in {"b", "i"}
BY DEF latestNameMap, createBasicBlockName, createInstructionName, Code

\* The phi nodes of a block run in its first piece.
LEMMA PhiInFirstPiece ==
  ASSUME GeneratedInv, InPiece, Current.kind = "Phi"
  PROVE  /\ pc.func.kind = "b"
         /\ \A j \in 1 .. pc.step - 1 : Instr(pc.func.fn, pc.func.block, j).kind = "Phi"
<1> DEFINE f    == pc.func.fn
           b    == pc.func.block
           code == Block(f, b).instrs
<1>1. /\ f \in DOMAIN Program /\ pc.func \in Emitted(f) /\ pc.func.kind \in {"b", "i"}
      /\ WellFormed(code) /\ pc.step \in DOMAIN code
      /\ pc.func.index \in Nat /\ pc.step \in Nat /\ pc.step > pc.func.index
  BY PieceFacts
<1>2. \A j \in 1 .. pc.step - 1 : Instr(f, b, j).kind = "Phi"
  BY <1>1 DEF WellFormed, Current, Instr
<1>3. CASE pc.func.kind = "i"
  <2>1. pc.func.index \in DOMAIN code /\ requireSwitchFunction(Instr(f, b, pc.func.index))
    BY <1>1, <1>3, EmittedFacts
  <2>2. DOMAIN code = 1 .. Len(code)
    BY <1>1, SequenceFacts DEF WellFormed
  <2>3. pc.func.index \in 1 .. pc.step - 1
    BY <1>1, <2>1, <2>2
  <2>4. Instr(f, b, pc.func.index).kind = "Phi"
    BY <1>2, <2>3
  <2> QED
    BY <2>1, <2>4 DEF requireSwitchFunction, AlwaysSwitch
<1> QED
  BY <1>1, <1>2, <1>3

LEMMA PhiStepRefines ==
  ASSUME GeneratedInv, PhiStep
  PROVE  [Ssa!SsaNext]_(Ssa!ssaVars)
<1> DEFINE f    == pc.func.fn
           b    == pc.func.block
           code == Block(f, b).instrs
<1>1. InPiece /\ Current.kind = "Phi" /\ UNCHANGED <<runtime, mem, result>>
  BY DEF PhiStep, Executing, Abort
<1>2. CASE Edges = {}
  BY <1>2, UnmovedStutters DEF PhiStep, Abort
<1>3. CASE Edges # {}
  <2>1. PICK k \in Edges : GoOn(Current.dest, ValueOf(Current.args[k], Top))
    BY <1>3 DEF PhiStep
  <2> DEFINE x   == Current.args[k]
             a   == Ssa!Top
             old == [a EXCEPT !.regs = a.entry]
  <2>2. k \in DOMAIN Current.args /\ prev = latestNameMap(f, Block(f, b).preds[k])
    BY <2>1 DEF Edges
  <2>3. /\ pc.func.kind = "b"
        /\ \A j \in 1 .. pc.step - 1 : Instr(f, b, j).kind = "Phi"
    BY <1>1, PhiInFirstPiece
  <2>4. Block(f, b).preds[k] = Top.from
    <3>1. IF Top.from = 0 THEN prev.kind = "f" ELSE prev = latestNameMap(f, Top.from)
      BY <2>3 DEF GeneratedInv, PhisOK
    <3> QED
      BY <2>2, <3>1, LatestName
  <2>5. /\ a.fn = f /\ a.block = b /\ a.from = Top.from /\ a.entry = Top.entry /\ a.regs = Top.regs
        /\ a.params = Top.params /\ a.free = Top.free
        /\ Ssa!Current = Current /\ Ssa!InProgram /\ a = ActivationAt(Depth)
    BY <1>1, TopActivation
  <2>6. old.regs = Top.entry /\ old.params = Top.params /\ old.free = Top.free
    <3>1. DOMAIN a = {"fn", "wrapper", "params", "free", "block", "index", "from", "entry", "regs"}
      BY <2>5 DEF ActivationAt
    <3> HIDE DEF a
    <3> QED
      BY <2>5, <3>1
  <2>7. Ssa!ValueOf(x, old) = ValueOf(x, Top)
    <3>1. CASE x.at = "reg"
      <4>1. /\ WellFormed(code) /\ pc.step \in DOMAIN code /\ code[pc.step] = Current
        BY <1>1, PieceFacts DEF Current, Instr
      <4>2. x.name \in Registers /\ \A j \in 1 .. pc.step - 1 : x.name # code[j].dest
        BY <1>1, <2>2, <3>1, <4>1 DEF WellFormed
      <4>3. \A j \in 1 .. pc.step - 1 : Instr(f, b, j).kind = "Phi" /\ Instr(f, b, j).dest # x.name
        BY <2>3, <4>2 DEF Instr
      <4>4. Top.regs[x.name] = Top.entry[x.name]
        BY <2>3, <4>2, <4>3 DEF GeneratedInv, PhisOK
      <4> HIDE DEF old, x
      <4> QED
        BY <2>6, <3>1, <4>4 DEF Ssa!ValueOf, ValueOf
    <3>2. CASE x.at # "reg"
      <4> HIDE DEF old, x
      <4> QED
        BY <2>6, <3>2 DEF Ssa!ValueOf, ValueOf
    <3> QED
      BY <3>1, <3>2
  <2>8. Ssa!GoOn(Current.dest, ValueOf(x, Top)) /\ stack # <<>> /\ stack' # <<>>
    BY <1>1, <2>1, GoOnRefines
  <2>9. Ssa!GoOn(Current.dest, Ssa!ValueOf(x, old))
    BY <2>7, <2>8
  <2>10. Ssa!Block(a.fn, a.block).preds[k] = a.from
    BY <2>4, <2>5, SameInstructions
  <2>11. Ssa!SsaPhi
    BY <1>1, <2>2, <2>5, <2>8, <2>9, <2>10 DEF Ssa!SsaPhi, Ssa!Running
  <2> QED
    BY <2>11 DEF Ssa!SsaNext
<1> QED
  BY <1>2, <1>3

LEMMA RunRuntimeRefines ==
  ASSUME GeneratedInv, RunRuntime
  PROVE  [Ssa!SsaNext]_(Ssa!ssaVars)
<1> DEFINE answer == Runtime(runtime.call, runtime.args, mem)
           at     == runtime.resume
           call   == runtime.call
<1>1. CASE answer = Trap
  BY <1>1, UnmovedStutters DEF RunRuntime, Abort
<1>2. CASE answer # Trap
  <2>1. /\ StackOK /\ stack # <<>> /\ ~Top.wrapper /\ pc.func.kind = "runtime" /\ pc.free = NoFree
        /\ at = createInstructionName(Top.fn, at.block, at.index)
        /\ call = Instr(at.fn, at.block, at.index)
        /\ EmittedFunction(call) # None /\ call.kind # "Panic" /\ call.kind # "Invoke"
        /\ runtime.args = Values(call.args, Top)
        /\ runtime.slot = Slot(Depth, call.dest)
    BY DEF GeneratedInv, RunRuntime, Invoking, CodeOK, RuntimeOK, PcOK
  <2>2. /\ stack' = Write(stack, Slot(Depth, call.dest), answer.value) /\ mem' = answer.mem
        /\ pc' = [func |-> at, step |-> 0, free |-> NoFree] /\ UNCHANGED result
    BY <1>2, <2>1 DEF RunRuntime, Goto
  <2>3. PICK n \in Nat : n = Depth /\ n > 0
    BY <2>1, StackFacts
  <2>4. at.kind = "i" /\ at.fn = Top.fn
    BY <2>1 DEF createInstructionName, Code
  <2>5. Depth' = n
    BY <2>1, <2>2, <2>3, TopWritten
  <2>6. Visible = n /\ Visible' = n
    BY <2>1, <2>2, <2>3, <2>4, <2>5 DEF Visible
  <2>7. Place(n) = [block |-> at.block, index |-> at.index]
    BY <2>1, <2>3, <2>6 DEF Place
  <2>8. Place(n)' = [block |-> at.block, index |-> at.index + 1]
    BY <2>2, <2>4, <2>5, <2>6 DEF Place
  <2>9. Ssa!GoOn(call.dest, answer.value) /\ stack # <<>> /\ stack' # <<>>
    <3>1. /\ pc'.func.kind # "return" /\ pc'.free = NoFree
          /\ Place(n)' = [block |-> Place(n).block, index |-> Place(n).index + 1]
      BY <2>2, <2>4, <2>7, <2>8
    <3> HIDE DEF answer, call
    <3> QED
      BY <2>1, <2>2, <2>3, <2>6, <3>1, RegisterWritten
  <2>10. IsSequence(Activations) /\ Len(Activations) = n /\ Activations[n] = ActivationAt(n)
    BY <2>3, <2>6, Acts
  <2> DEFINE a == ActivationAt(n)
  <2>11. /\ a.fn = Top.fn /\ a.block = at.block /\ a.index = at.index /\ ~a.wrapper
         /\ a.regs = Top.regs /\ a.params = Top.params /\ a.free = Top.free
    BY <2>1, <2>3, <2>7 DEF ActivationAt, Top
  <2>12. Ssa!Top = a /\ Activations # <<>>
    BY <2>3, <2>10, NotEmpty DEF Ssa!Top
  <2> HIDE DEF a
  <2>13. Ssa!Current = call
    BY <2>1, <2>4, <2>11, <2>12, SameInstructions DEF Ssa!Current
  <2>14. Ssa!InProgram
    BY <2>1, <2>11, <2>12 DEF Ssa!InProgram
  <2>15. Ssa!Values(call.args, Ssa!Top) = Values(call.args, Top)
    BY <2>11, <2>12, SameValues
  <2>16. answer = Runtime(Ssa!Current, Ssa!Values(Ssa!Current.args, Ssa!Top), mem)
    BY <2>1, <2>13, <2>15
  <2>17. Ssa!EmittedFunction(Ssa!Current) # Ssa!None
    BY <2>1, <2>13, SameEmitted, SameInstructions
  <2> HIDE DEF answer, call
  <2>18. Ssa!SsaRuntime
    BY <1>2, <2>1, <2>2, <2>9, <2>13, <2>14, <2>16, <2>17 DEF Ssa!SsaRuntime
  <2> QED
    BY <2>18 DEF Ssa!SsaNext
<1> QED
  BY <1>1, <1>2

\* A function starts: the activation of its frame.
LEMMA FreshActivation ==
  ASSUME NEW n \in Nat, n = Depth',
         NEW f, NEW wrapper, NEW params, NEW resume, NEW slot, NEW free,
         stack'[n] = Frame(f, wrapper, params, resume, slot),
         pc' = [func |-> IF wrapper THEN BoundName(f) ELSE createFunctionName(f),
                step |-> 0, free |-> free]
  PROVE  Visible' = n /\ ActivationAt(n)' = Ssa!Activation(f, wrapper, params, free)
<1>1. Visible' = n
  BY DEF Visible, BoundName, createFunctionName, Code
<1>2. Place(n)' = [block |-> IF wrapper THEN 0 ELSE 1, index |-> IF wrapper THEN 0 ELSE 1]
  BY <1>1 DEF Place, BoundName, createFunctionName, Code
<1>3. /\ stack'[n].fn = f /\ stack'[n].wrapper = wrapper /\ stack'[n].params = params
      /\ stack'[n].free = NoFree /\ stack'[n].from = 0
      /\ stack'[n].regs = Undefined /\ stack'[n].entry = Undefined
  BY FrameFacts
<1>4. pc'.free = free
  OBVIOUS
<1>5. Ssa!Undefined = Undefined
  BY SameInstructions
<1> QED
  BY <1>1, <1>2, <1>3, <1>4, <1>5 DEF ActivationAt, Ssa!Activation

\* A call: the machine below is as it was.
LEMMA ActsPushed ==
  ASSUME NEW n \in Nat, n > 0, n = Depth, Depth' = n + 1, Visible = n, Visible' = n + 1,
         \A d \in 1 .. n : Alike(stack[d], stack'[d]),
         \A d \in 1 .. n - 1 : stack'[d] = stack[d],
         ActivationAt(n)' = ActivationAt(n),
         NEW x, ActivationAt(n + 1)' = x
  PROVE  Activations' = Append(Activations, x)
<1>1. \A d \in 1 .. n - 1 : ActivationAt(d)' = ActivationAt(d)
  <2> DEFINE l == n - 1
  <2>1. l \in Nat /\ l < Visible /\ l < Visible' /\ Depth \in Nat /\ Depth' \in Nat
    OBVIOUS
  <2>2. (\A d \in 1 .. l : stack'[d] = stack[d])
        /\ (\A d \in 2 .. l + 1 : stack'[d].resume = stack[d].resume)
    BY DEF Alike
  <2> HIDE DEF l
  <2> QED
    BY <2>1, <2>2, LowerKept DEF l
<1>2. IsSequence(Activations) /\ Len(Activations) = n /\ \A d \in 1 .. n : Activations[d] = ActivationAt(d)
  BY Acts
<1> DEFINE m == n + 1
<1>3. m \in Nat /\ Visible' = m
  OBVIOUS
<1> HIDE DEF m
<1>4. /\ IsSequence(Activations') /\ Len(Activations') = m
      /\ \A d \in 1 .. m : Activations'[d] = ActivationAt(d)'
  BY <1>3, NextActs
<1> DEFINE t == Append(Activations, x)
<1>5. IsSequence(t) /\ Len(t) = m /\ t[m] = x /\ \A d \in 1 .. n : t[d] = Activations[d]
  BY <1>2, Appending DEF m
<1> HIDE DEF t
<1>6. \A d \in 1 .. m : Activations'[d] = t[d]
  <2> TAKE d \in 1 .. m
  <2>1. CASE d = m
    BY <1>4, <1>5, <2>1 DEF m
  <2>2. CASE d = n
    BY <1>2, <1>4, <1>5, <2>2
  <2>3. CASE d \in 1 .. n - 1
    BY <1>1, <1>2, <1>4, <1>5, <2>3
  <2> QED
    BY <2>1, <2>2, <2>3 DEF m
<1> QED
  BY <1>4, <1>5, <1>6, SameSequence DEF t

LEMMA CallFunctionRefines ==
  ASSUME GeneratedInv, CallFunction
  PROVE  Ssa!SsaNext
<1> DEFINE callee == ValueOf(Current.callee, Top)
           params == Values(Current.args, Top)
           slot   == Slot(Depth, Current.dest)
           x      == Frame(callee.fn, callee.wrapper, params, Here, slot)
           y      == Ssa!Activation(callee.fn, callee.wrapper, params, callee.free)
<1>1. /\ StackOK /\ InPiece /\ IsCall(Current) /\ stack' = Append(stack, x)
      /\ pc' = [func |-> IF callee.wrapper THEN BoundName(callee.fn) ELSE createFunctionName(callee.fn),
                step |-> 0, free |-> callee.free]
      /\ UNCHANGED <<mem, result>>
  BY DEF GeneratedInv, CallFunction, Goto
<1>2. PICK n \in Nat : n = Depth /\ n > 0
  BY <1>1, PieceFacts
<1>3. /\ pc.func.kind \in {"b", "i"} /\ pc.free = NoFree /\ pc.step \in Nat /\ pc.step > 0
  BY <1>1, PieceFacts DEF InPiece
<1> HIDE DEF callee, params, slot
<1>4. /\ Len(stack') = n + 1 /\ stack'[n + 1] = x /\ \A d \in 1 .. n : stack'[d] = stack[d]
      /\ stack # <<>> /\ stack' # <<>> /\ \A d \in 1 .. n : Alike(stack[d], stack'[d])
  BY <1>1, <1>2, StackFacts, Appending, NotEmpty DEF Depth
<1>5. Depth' = n + 1 /\ Visible = n
  BY <1>2, <1>3, <1>4 DEF Depth, Visible
<1>6. x.resume = Here
  BY FrameFacts
<1>7. n + 1 \in Nat /\ Visible' = n + 1 /\ ActivationAt(n + 1)' = y
  BY <1>1, <1>4, <1>5, FreshActivation
<1> HIDE DEF x
<1>8. Place(n) = [block |-> pc.func.block, index |-> pc.step]
  BY <1>2, <1>3, <1>5 DEF Place
<1>9. Place(n)' = [block |-> pc.func.block, index |-> pc.step]
  BY <1>4, <1>5, <1>6, <1>7 DEF Place, Here, createInstructionName, Code
<1>10. ActivationAt(n)' = ActivationAt(n)
  BY <1>2, <1>3, <1>4, <1>5, <1>8, <1>9 DEF ActivationAt
<1> HIDE DEF y
<1>11. Activations' = Append(Activations, y)
  BY <1>2, <1>4, <1>5, <1>7, <1>10, ActsPushed
<1>12. /\ Ssa!Current = Current /\ Ssa!InProgram
       /\ Ssa!ValueOf(Current.callee, Ssa!Top) = callee
       /\ Ssa!Values(Current.args, Ssa!Top) = params
  BY <1>1, TopActivation DEF callee, params
<1>13. Ssa!IsCall(Ssa!Current)
  BY <1>1, <1>12, SameInstructions
<1>14. Ssa!SsaCall
  BY <1>1, <1>4, <1>11, <1>12, <1>13 DEF Ssa!SsaCall, y
<1> QED
  BY <1>14 DEF Ssa!SsaNext

LEMMA RunInvokeRefines ==
  ASSUME GeneratedInv, RunInvoke
  PROVE  [Ssa!SsaNext]_(Ssa!ssaVars)
<1> DEFINE method == MethodOf(runtime.args[1], runtime.call.method)
           params == <<runtime.args[1].value>> \o Tail(runtime.args)
           at     == runtime.resume
           call   == runtime.call
           w      == FALSE
           x      == Frame(method, w, params, at, runtime.slot)
           y      == Ssa!Activation(method, w, params, NoFree)
<1>1. CASE method = None
  BY <1>1, UnmovedStutters DEF RunInvoke, Abort
<1>2. CASE method # None
  <2>1. /\ StackOK /\ stack # <<>> /\ ~Top.wrapper /\ pc.func.kind = "runtime" /\ pc.free = NoFree
        /\ at = createInstructionName(Top.fn, at.block, at.index)
        /\ call = Instr(at.fn, at.block, at.index) /\ call.kind = "Invoke"
        /\ runtime.args = Values(call.args, Top)
    BY DEF GeneratedInv, RunInvoke, Invoking, CodeOK, RuntimeOK, PcOK
  <2>2. /\ stack' = Append(stack, x) /\ UNCHANGED <<mem, result>>
        /\ pc' = [func |-> IF w THEN BoundName(method) ELSE createFunctionName(method),
                  step |-> 0, free |-> NoFree]
    BY <1>2 DEF RunInvoke, Goto
  <2>3. PICK n \in Nat : n = Depth /\ n > 0
    BY <2>1, StackFacts
  <2>4. at.kind = "i" /\ at.fn = Top.fn
    BY <2>1 DEF createInstructionName, Code
  <2> HIDE DEF method, params, w
  <2>5. /\ Len(stack') = n + 1 /\ stack'[n + 1] = x /\ \A d \in 1 .. n : stack'[d] = stack[d]
        /\ stack' # <<>> /\ \A d \in 1 .. n : Alike(stack[d], stack'[d])
    BY <2>1, <2>2, <2>3, StackFacts, Appending, NotEmpty DEF Depth
  <2>6. Depth' = n + 1 /\ Visible = n
    BY <2>1, <2>3, <2>5 DEF Depth, Visible
  <2>7. x.resume = at
    BY FrameFacts
  <2>8. n + 1 \in Nat /\ Visible' = n + 1 /\ ActivationAt(n + 1)' = y
    BY <2>2, <2>5, <2>6, FreshActivation
  <2> HIDE DEF x
  <2>9. Place(n) = [block |-> at.block, index |-> at.index]
    BY <2>1, <2>3, <2>6 DEF Place
  <2>10. Place(n)' = [block |-> at.block, index |-> at.index]
    BY <2>5, <2>6, <2>7, <2>8 DEF Place
  <2>11. ActivationAt(n)' = ActivationAt(n)
    BY <2>1, <2>3, <2>5, <2>6, <2>9, <2>10 DEF ActivationAt
  <2> HIDE DEF y
  <2>12. Activations' = Append(Activations, y)
    BY <2>3, <2>5, <2>6, <2>8, <2>11, ActsPushed
  <2>13. IsSequence(Activations) /\ Len(Activations) = n /\ Activations[n] = ActivationAt(n)
    BY <2>3, <2>6, Acts
  <2> DEFINE a == ActivationAt(n)
  <2>14. /\ a.fn = Top.fn /\ a.block = at.block /\ a.index = at.index /\ ~a.wrapper
         /\ a.regs = Top.regs /\ a.params = Top.params /\ a.free = Top.free
    BY <2>1, <2>3, <2>9 DEF ActivationAt, Top
  <2>15. Ssa!Top = a /\ Activations # <<>>
    BY <2>3, <2>13, NotEmpty DEF Ssa!Top
  <2> HIDE DEF a
  <2>16. Ssa!Current = call
    BY <2>1, <2>4, <2>14, <2>15, SameInstructions DEF Ssa!Current
  <2>17. Ssa!InProgram
    BY <2>1, <2>14, <2>15 DEF Ssa!InProgram
  <2>18. Ssa!Values(Ssa!Current.args, Ssa!Top) = runtime.args
    BY <2>1, <2>14, <2>15, <2>16, SameValues
  <2>19. Ssa!NoFree = NoFree
    BY SameInstructions
  <2>20. Activations' = Append(Activations,
                          Ssa!Activation(MethodOf(runtime.args[1], Ssa!Current.method), FALSE,
                                         <<runtime.args[1].value>> \o Tail(runtime.args), Ssa!NoFree))
    BY <2>12, <2>16, <2>19 DEF y, method, params, w
  <2>21. Ssa!SsaInvoke
    BY <2>1, <2>2, <2>5, <2>16, <2>17, <2>18, <2>20 DEF Ssa!SsaInvoke, Ssa!Running
  <2> QED
    BY <2>21 DEF Ssa!SsaNext
<1> QED
  BY <1>1, <1>2

LEMMA BoundCallRefines ==
  ASSUME GeneratedInv, BoundCall
  PROVE  [Ssa!SsaNext]_(Ssa!ssaVars)
<1>1. CASE Prepared[Depth].free = NoFree
  BY <1>1, UnmovedStutters DEF BoundCall, Abort
<1>2. CASE Prepared[Depth].free # NoFree
  <2> DEFINE f       == pc.func.fn
             wrapper == Prepared[Depth]
             params  == wrapper.free \o wrapper.params
             w       == FALSE
             x       == Frame(f, w, params, BoundReturnName(f), wrapper.slot)
             y       == Ssa!Activation(f, w, params, NoFree)
  <2>1. StackOK /\ stack # <<>> /\ Top.fn = f /\ Top.wrapper /\ pc.func.kind = "bound"
    BY DEF GeneratedInv, BoundCall, Invoking, CodeOK
  <2>2. PICK n \in Nat : n = Depth /\ n > 0
    BY <2>1, StackFacts
  <2>3. /\ stack' = Append(Prepared, x) /\ UNCHANGED <<mem, result>>
        /\ pc' = [func |-> IF w THEN BoundName(f) ELSE createFunctionName(f), step |-> 0,
                  free |-> NoFree]
    BY <1>2 DEF BoundCall, Goto
  <2>4. /\ IsSequence(Prepared) /\ Len(Prepared) = n
        /\ \A d \in 1 .. n : Alike(stack[d], Prepared[d])
        /\ \A d \in 1 .. n - 1 : Prepared[d] = stack[d]
        /\ Prepared[n].free = IF pc.free = NoFree THEN stack[n].free ELSE pc.free
        /\ Prepared[n].from = stack[n].from
        /\ Prepared[n].entry = stack[n].entry /\ Prepared[n].regs = stack[n].regs
    BY <2>1, <2>2, PreparedFacts DEF Top
  <2>5. Alike(stack[n], Prepared[n]) /\ wrapper = Prepared[n]
    BY <2>2, <2>4
  <2> HIDE DEF params, w
  <2>6. /\ IsSequence(stack') /\ Len(stack') = n + 1 /\ stack'[n + 1] = x
        /\ \A d \in 1 .. n : stack'[d] = Prepared[d]
    BY <2>3, <2>4, Appending
  <2>7. Depth' = n + 1 /\ Visible = n /\ stack' # <<>>
    BY <2>1, <2>2, <2>6, NotEmpty DEF Depth, Visible
  <2>8. x.resume = BoundReturnName(f)
    BY FrameFacts
  <2>9. n + 1 \in Nat /\ Visible' = n + 1 /\ ActivationAt(n + 1)' = y
    BY <2>3, <2>6, <2>7, FreshActivation
  <2> HIDE DEF x
  <2>10. Place(n) = [block |-> 0, index |-> 0]
    BY <2>1, <2>2, <2>7 DEF Place
  <2>11. Place(n)' = [block |-> 0, index |-> 0]
    BY <2>6, <2>7, <2>8, <2>9 DEF Place, BoundReturnName, Code
  <2>12. stack'[n] = Prepared[n] /\ pc'.free = NoFree
    BY <2>2, <2>3, <2>6
  <2>13. ActivationAt(n)' = ActivationAt(n)
    BY <2>2, <2>4, <2>5, <2>7, <2>10, <2>11, <2>12 DEF ActivationAt, Alike
  <2> HIDE DEF y
  <2>14. /\ \A d \in 1 .. n : Alike(stack[d], stack'[d])
         /\ \A d \in 1 .. n - 1 : stack'[d] = stack[d]
    <3>1. ASSUME NEW d \in 1 .. n
          PROVE  stack'[d] = Prepared[d] /\ Alike(stack[d], Prepared[d])
      BY <2>4, <2>6
    <3>2. ASSUME NEW d \in 1 .. n - 1
          PROVE  stack'[d] = stack[d]
      BY <2>2, <2>4, <3>1
    <3> QED
      BY <3>1, <3>2
  <2>15. Activations' = Append(Activations, y)
    BY <2>2, <2>7, <2>9, <2>13, <2>14, ActsPushed
  <2>16. IsSequence(Activations) /\ Len(Activations) = n /\ Activations[n] = ActivationAt(n)
    BY <2>2, <2>7, Acts
  <2> DEFINE a == ActivationAt(n)
  <2>17. a.fn = f /\ a.wrapper /\ a.params = wrapper.params /\ a.free = wrapper.free
    BY <2>1, <2>2, <2>4, <2>5 DEF ActivationAt, Top, Alike
  <2>18. Ssa!Top = a /\ Activations # <<>>
    BY <2>2, <2>16, NotEmpty DEF Ssa!Top
  <2> HIDE DEF a, wrapper
  <2>19. Ssa!NoFree = NoFree
    BY SameInstructions
  <2>20. Activations' = Append(Activations,
                          Ssa!Activation(Ssa!Top.fn, FALSE, Ssa!Top.free \o Ssa!Top.params, Ssa!NoFree))
    BY <2>15, <2>17, <2>18, <2>19 DEF y, params, w
  <2>21. Ssa!SsaBound
    BY <2>1, <2>3, <2>7, <2>17, <2>18, <2>20 DEF Ssa!SsaBound
  <2> QED
    BY <2>21 DEF Ssa!SsaNext
<1> QED
  BY <1>1, <1>2

\* An activation that has jumped from block b to block b2.
JumpedTo(a, b2, b, regs) == [a EXCEPT !.block = b2, !.index = 1, !.from = b, !.entry = regs]
LEMMA Jumped ==
  ASSUME NEW f, NEW w, NEW p, NEW e, NEW b, NEW k, NEW from, NEW entry, NEW regs, NEW b2
  PROVE  JumpedTo(Record(f, w, p, e, b, k, from, entry, regs), b2, b, regs)
           = Record(f, w, p, e, b2, 1, b, regs, regs)
<1> DEFINE a  == Record(f, w, p, e, b, k, from, entry, regs)
           a1 == [a EXCEPT !.block = b2]
           a2 == [a1 EXCEPT !.index = 1]
           a3 == [a2 EXCEPT !.from = b]
<1>1. JumpedTo(a, b2, b, regs) = [a3 EXCEPT !.entry = regs]
  BY DEF JumpedTo
<1>2. a1 = Record(f, w, p, e, b2, k, from, entry, regs)
  BY DEF Record
<1> HIDE DEF a1
<1>3. a2 = Record(f, w, p, e, b2, 1, from, entry, regs)
  BY <1>2 DEF Record
<1> HIDE DEF a2
<1>4. a3 = Record(f, w, p, e, b2, 1, b, entry, regs)
  BY <1>3 DEF Record
<1> HIDE DEF a3
<1>5. [a3 EXCEPT !.entry = regs] = Record(f, w, p, e, b2, 1, b, regs, regs)
  BY <1>4 DEF Record
<1> QED
  BY <1>1, <1>5

LEMMA JumpStepRefines ==
  ASSUME GeneratedInv, JumpStep
  PROVE  Ssa!SsaNext
<1> DEFINE target == Current.succs[IF Current.kind = "Jump" \/ ValueOf(Current.args[1], Top) = TRUE
                                   THEN 1 ELSE 2]
           x      == [Top EXCEPT !.from = pc.func.block, !.entry = Top.regs]
           y      == [Ssa!Top EXCEPT !.block = target, !.index = 1, !.from = Ssa!Top.block,
                                     !.entry = Ssa!Top.regs]
<1>1. /\ InPiece /\ Current.kind \in {"Jump", "If"} /\ StackOK /\ UNCHANGED <<mem, result>>
      /\ pc' = [func |-> createBasicBlockName(pc.func.fn, target), step |-> 0, free |-> NoFree]
      /\ stack' = Replaced(stack, Depth, x)
  BY DEF JumpStep, Executing, GeneratedInv, Goto, Replaced, Top
<1>2. PICK n \in Nat : n = Depth /\ n > 0
  BY <1>1, PieceFacts
<1>3. /\ IsFrame(Top) /\ pc.free = NoFree
  BY <1>1, PieceFacts
<1> HIDE DEF target
<1>4. /\ Alike(Top, x) /\ x.from = pc.func.block /\ x.entry = Top.regs /\ x.regs = Top.regs
      /\ x.free = Top.free
  BY <1>3 DEF Alike, IsFrame, FrameFields
<1> HIDE DEF x
<1>5. /\ IsSequence(stack') /\ Len(stack') = n /\ stack'[n] = x /\ stack # <<>>
      /\ \A d \in 1 .. n - 1 : stack'[d] = stack[d]
  <2>1. IsSequence(stack) /\ n = Len(stack) /\ n \in 1 .. Len(stack) /\ stack # <<>>
    BY <1>1, <1>2, StackFacts DEF Depth
  <2>2. stack' = Replaced(stack, n, x)
    BY <1>1, <1>2
  <2>3. /\ IsSequence(stack') /\ Len(stack') = n
        /\ \A d \in 1 .. n : stack'[d] = IF d = n THEN x ELSE stack[d]
    BY <2>1, <2>2, Replacing
  <2> QED
    BY <2>1, <2>3
<1>6. Depth' = n /\ stack' # <<>>
  BY <1>2, <1>5, NotEmpty DEF Depth
<1>7. Visible = n /\ Visible' = n
  <2>1. pc'.func.kind = "b"
    BY <1>1 DEF createBasicBlockName, Code
  <2> QED
    BY <1>1, <1>2, <1>6, <2>1, TopActivation DEF Visible
<1>8. Place(n)' = [block |-> target, index |-> 1]
  BY <1>1, <1>6, <1>7 DEF Place, createBasicBlockName, Code
<1>9. ActivationAt(n)' = y
  <2> DEFINE a == Ssa!Top
  <2>1. a = ActivationAt(n) /\ a.block = pc.func.block /\ a.regs = Top.regs
    BY <1>1, <1>2, TopActivation
  <2>2. a = Record(stack[n].fn, stack[n].wrapper, stack[n].params, stack[n].free, pc.func.block,
                   Place(n).index, stack[n].from, stack[n].entry, Top.regs)
    <3>1. Place(n).block = pc.func.block
      BY <2>1 DEF ActivationAt
    <3> QED
      BY <1>2, <1>3, <2>1, <3>1 DEF ActivationAt, Record, Top
  <2> HIDE DEF a
  <2>3. JumpedTo(a, target, pc.func.block, Top.regs)
          = Record(stack[n].fn, stack[n].wrapper, stack[n].params, stack[n].free, target, 1,
                   pc.func.block, Top.regs, Top.regs)
    BY <2>2, Jumped
  <2>4. y = JumpedTo(a, target, pc.func.block, Top.regs)
    BY <2>1 DEF a, JumpedTo
  <2>5. ActivationAt(n)' = Record(stack[n].fn, stack[n].wrapper, stack[n].params, stack[n].free,
                                  target, 1, pc.func.block, Top.regs, Top.regs)
    BY <1>1, <1>2, <1>4, <1>5, <1>8 DEF ActivationAt, Record, Alike, Top
  <2> QED
    BY <2>3, <2>4, <2>5
<1> HIDE DEF y
<1>10. \A d \in 1 .. n - 1 : ActivationAt(d)' = ActivationAt(d)
  <2> DEFINE l == n - 1
  <2>1. l \in Nat /\ l < Visible /\ l < Visible' /\ Depth \in Nat /\ Depth' \in Nat
    BY <1>2, <1>6, <1>7
  <2>2. (\A d \in 1 .. l : stack'[d] = stack[d])
        /\ (\A d \in 2 .. l + 1 : stack'[d].resume = stack[d].resume)
    BY <1>2, <1>4, <1>5 DEF Alike, Top
  <2> HIDE DEF l
  <2> QED
    BY <2>1, <2>2, LowerKept DEF l
<1>11. Activations' = Replaced(Activations, n, y)
  <2> DEFINE s == Activations
  <2>1. /\ IsSequence(s) /\ Len(s) = n /\ n \in 1 .. Len(s)
        /\ \A d \in 1 .. n : s[d] = ActivationAt(d)
    BY <1>2, <1>7, Acts
  <2>2. /\ IsSequence(s') /\ Len(s') = n
        /\ \A d \in 1 .. n : s'[d] = ActivationAt(d)'
    BY <1>7, NextActs
  <2> HIDE DEF s
  <2>3. /\ IsSequence(Replaced(s, n, y)) /\ Len(Replaced(s, n, y)) = n
        /\ \A d \in 1 .. n : Replaced(s, n, y)[d] = IF d = n THEN y ELSE s[d]
    BY <2>1, Replacing
  <2>4. \A d \in 1 .. n : s'[d] = Replaced(s, n, y)[d]
    BY <1>9, <1>10, <2>1, <2>2, <2>3
  <2> QED
    BY <2>2, <2>3, <2>4, SameSequence DEF s
<1>12. /\ Len(Activations) = n /\ Ssa!Current = Current /\ Ssa!InProgram
       /\ Ssa!ValueOf(Current.args[1], Ssa!Top) = ValueOf(Current.args[1], Top)
  BY <1>1, <1>2, TopActivation
<1>13. Ssa!SsaJump
  BY <1>1, <1>5, <1>6, <1>11, <1>12 DEF Ssa!SsaJump, Ssa!Running, Replaced, y, target
<1> QED
  BY <1>13 DEF Ssa!SsaNext

LEMMA Prefix ==
  ASSUME NEW s, IsSequence(s), NEW n \in Nat, n <= Len(s)
  PROVE  /\ IsSequence(SubSeq(s, 1, n)) /\ Len(SubSeq(s, 1, n)) = n
         /\ \A k \in 1 .. n : SubSeq(s, 1, n)[k] = s[k]
<1> DEFINE S == {s[k] : k \in 1 .. Len(s)}
<1>1. s \in Seq(S) /\ Len(s) \in Nat
  BY SequenceFacts
<1> HIDE DEF S
<1>2. \A k \in 1 .. n : s[k] \in S
  BY <1>1, ElementOfSeq
<1>3. /\ SubSeq(s, 1, n) \in Seq(S)
      /\ Len(SubSeq(s, 1, n)) = IF 1 <= n THEN n - 1 + 1 ELSE 0
      /\ \A k \in 1 .. n - 1 + 1 : SubSeq(s, 1, n)[k] = s[1 + k - 1]
  BY <1>1, <1>2, SubSeqProperties
<1>4. Len(SubSeq(s, 1, n)) = n /\ \A k \in 1 .. n : SubSeq(s, 1, n)[k] = s[k]
  BY <1>1, <1>3
<1> QED
  BY <1>3, <1>4, TypedSequence

\* The last activation returns: the machine has ended.
LEMMA LastReturnRefines ==
  ASSUME GeneratedInv, ReturnStep, Depth = 1
  PROVE  Ssa!SsaNext
<1> DEFINE v == Returned(Values(Current.args, Top))
<1>1. /\ InPiece /\ StackOK /\ Current.kind = "Return" /\ UNCHANGED mem
      /\ stack' = Write(Shortened(stack), Top.slot, v)
      /\ result' = IF Top.slot.depth = 0 THEN v ELSE result
  BY DEF ReturnStep, Executing, GeneratedInv, Shortened, Depth
<1>2. Top.slot = Slot(0, NoReg)
  BY <1>1, Returning DEF Top
<1>3. stack' = <<>>
  <2>1. StackOK' /\ Depth' = 0
    BY <1>1, <1>2, Popped
  <2> QED
    BY <2>1, NotEmpty DEF StackOK, Depth
<1>4. pc'.func = Terminate
  BY <1>1, Returning DEF ReturnStep, Goto, Top
<1>5. Visible' = 0
  BY <1>3, <1>4 DEF Visible, Depth, Terminate, Code
<1>6. Activations' = <<>>
  <2>1. 0 \in Nat
    OBVIOUS
  <2>2. IsSequence(Activations') /\ Len(Activations') = 0
    BY <1>5, <2>1, NextActs
  <2> QED
    BY <2>2, NotEmpty
<1>7. result' = v
  BY <1>1, <1>2 DEF Slot
<1>8. /\ Len(Activations) = 1 /\ Ssa!Current = Current /\ Ssa!InProgram
      /\ Ssa!Values(Current.args, Ssa!Top) = Values(Current.args, Top)
  BY <1>1, TopActivation
<1>9. Ssa!Caller = 0
  BY <1>8 DEF Ssa!Caller
<1>10. Ssa!Returned(Ssa!Values(Ssa!Current.args, Ssa!Top)) = v
  BY <1>8, SameInstructions
<1> HIDE DEF v
<1>11. Ssa!SsaReturn
  BY <1>1, <1>3, <1>6, <1>7, <1>8, <1>9, <1>10 DEF Ssa!SsaReturn, Ssa!Running
<1> QED
  BY <1>11 DEF Ssa!SsaNext

\* The result goes to the activation m that called the function, or its wrapper.
LEMMA ReturnToRefines ==
  ASSUME GeneratedInv, ReturnStep, NEW n \in Nat, n = Depth, NEW m \in Nat, m > 0, m < n,
         ReturnsToCall(m + 1), Top.slot = stack[m + 1].slot,
         Visible' = m, pc'.free = NoFree,
         Place(m)' = [block |-> stack[m + 1].resume.block, index |-> stack[m + 1].resume.index + 1],
         Ssa!Caller = m
  PROVE  Ssa!SsaNext
<1> DEFINE v    == Returned(Values(Current.args, Top))
           at   == stack[m + 1].resume
           dest == Instr(at.fn, at.block, at.index).dest
<1>1. /\ InPiece /\ StackOK /\ Current.kind = "Return" /\ UNCHANGED mem
      /\ stack' = Write(Shortened(stack), Top.slot, v)
      /\ result' = IF Top.slot.depth = 0 THEN v ELSE result
  BY DEF ReturnStep, Executing, GeneratedInv, Shortened, Depth
<1>2. /\ at.fn = stack[m].fn /\ ~stack[m].wrapper /\ Top.slot = Slot(m, dest)
  BY DEF ReturnsToCall, createInstructionName, Code
<1>3. Visible = n /\ Len(Activations) = n /\ Ssa!Current = Current /\ Ssa!InProgram
      /\ Ssa!Values(Current.args, Ssa!Top) = Values(Current.args, Top)
  BY <1>1, TopActivation
<1> HIDE DEF v, dest
<1>4. /\ StackOK' /\ Depth' = n - 1
      /\ \A d \in 1 .. n - 1 : stack'[d] = IF d = m THEN Defining(stack[d], dest, v) ELSE stack[d]
      /\ \A d \in 1 .. n - 1 : Alike(stack[d], stack'[d])
  <2>1. m \in 0 .. Depth - 1 /\ Depth > 0
    OBVIOUS
  <2> QED
    BY <1>1, <1>2, <2>1, Popped
<1>5. stack # <<>> /\ stack' # <<>>
  BY <1>1, <1>4, NotEmpty DEF StackOK, Depth
<1>6. result' = result
  BY <1>1, <1>2 DEF Slot
<1>7. Place(m) = [block |-> at.block, index |-> at.index]
  BY <1>3 DEF Place
<1> DEFINE x == Ssa!GoneOn(ActivationAt(m), dest, v)
<1>8. ActivationAt(m)' = x
  <2>1. ActivationAt(m)
          = Record(stack[m].fn, stack[m].wrapper, stack[m].params, stack[m].free, at.block,
                   at.index, stack[m].from, stack[m].entry, stack[m].regs)
    BY <1>7 DEF ActivationAt, Record
  <2>2. stack'[m] = Defining(stack[m], dest, v) /\ IsFrame(stack[m])
    <3>1. m \in 1 .. n - 1 /\ m \in 1 .. Depth
      OBVIOUS
    <3> QED
      BY <1>1, <1>4, <3>1, StackFacts
  <2>3. /\ Alike(stack[m], stack'[m]) /\ stack'[m].free = stack[m].free
        /\ stack'[m].from = stack[m].from /\ stack'[m].entry = stack[m].entry
        /\ stack'[m].regs = Ssa!Defined(stack[m].regs, dest, v)
    BY <2>2, DefiningFacts
  <2>4. ActivationAt(m)'
          = Record(stack[m].fn, stack[m].wrapper, stack[m].params, stack[m].free, at.block,
                   at.index + 1, stack[m].from, stack[m].entry, Ssa!Defined(stack[m].regs, dest, v))
    BY <2>3 DEF ActivationAt, Record, Alike
  <2> QED
    BY <2>1, <2>4, Moved
<1>9. \A d \in 1 .. m - 1 : ActivationAt(d)' = ActivationAt(d)
  <2> DEFINE l == m - 1
  <2>1. l \in Nat /\ l < Visible /\ l < Visible' /\ Depth \in Nat /\ Depth' \in Nat
    BY <1>3, <1>4
  <2>2. ASSUME NEW d \in 1 .. l
        PROVE  stack'[d] = stack[d]
    BY <1>4
  <2>3. ASSUME NEW d \in 2 .. l + 1
        PROVE  stack'[d].resume = stack[d].resume
    <3>1. d \in 1 .. n - 1
      OBVIOUS
    <3> QED
      BY <1>4, <3>1 DEF Alike
  <2> HIDE DEF l
  <2> QED
    BY <2>1, <2>2, <2>3, LowerKept DEF l
<1> DEFINE s == Activations
           t == SubSeq(s, 1, m)
<1>10. IsSequence(s) /\ Len(s) = n /\ \A d \in 1 .. n : s[d] = ActivationAt(d)
  BY <1>3, Acts
<1>11. IsSequence(s') /\ Len(s') = m /\ \A d \in 1 .. m : s'[d] = ActivationAt(d)'
  BY NextActs
<1> HIDE DEF s
<1>12. IsSequence(t) /\ Len(t) = m /\ \A d \in 1 .. m : t[d] = ActivationAt(d)
  BY <1>10, Prefix
<1> HIDE DEF t, x
<1>13. s' = Replaced(t, m, x)
  <2>1. /\ IsSequence(Replaced(t, m, x)) /\ Len(Replaced(t, m, x)) = m
        /\ \A d \in 1 .. m : Replaced(t, m, x)[d] = IF d = m THEN x ELSE t[d]
    BY <1>12, Replacing
  <2>2. \A d \in 1 .. m : s'[d] = Replaced(t, m, x)[d]
    BY <1>8, <1>9, <1>11, <1>12, <2>1
  <2> QED
    BY <1>11, <2>1, <2>2, SameSequence
<1> DEFINE caller == ActivationAt(m)
<1>14. Activations[m] = caller
  BY <1>10 DEF s
<1>15. Ssa!Instr(caller.fn, caller.block, caller.index).dest = dest
  BY <1>2, <1>7, SameInstructions DEF ActivationAt, dest
<1>16. Ssa!Returned(Ssa!Values(Ssa!Current.args, Ssa!Top)) = v
  BY <1>3, SameInstructions DEF v
<1> HIDE DEF caller
<1>17. Activations' = [SubSeq(Activations, 1, Ssa!Caller) EXCEPT
                         ![Ssa!Caller] = Ssa!GoneOn(Activations[Ssa!Caller], dest, v)]
  BY <1>13, <1>14 DEF Replaced, s, t, x, caller
<1>18. Ssa!SsaReturn
  BY <1>1, <1>3, <1>5, <1>6, <1>14, <1>15, <1>16, <1>17 DEF Ssa!SsaReturn, Ssa!Running
<1> QED
  BY <1>18 DEF Ssa!SsaNext

LEMMA ReturnStepRefines ==
  ASSUME GeneratedInv, ReturnStep
  PROVE  Ssa!SsaNext
<1> DEFINE at == Top.resume
<1>1. /\ InPiece /\ StackOK
      /\ stack' = Write(Shortened(stack), Top.slot, Returned(Values(Current.args, Top)))
      /\ pc' = [func |-> at, step |-> 0, free |-> NoFree]
  BY DEF ReturnStep, Executing, Goto, GeneratedInv, Shortened, Depth
<1>2. PICK n \in Nat : n = Depth /\ n > 0
  BY <1>1, PieceFacts
<1>3. ~Top.wrapper /\ Visible = n
  BY <1>1, <1>2, PieceFacts, TopActivation
<1>4. /\ Len(Activations) = n /\ \A d \in 1 .. n : Activations[d] = ActivationAt(d)
      /\ \A d \in 1 .. n : Activations[d].wrapper = stack[d].wrapper
  <2>1. Len(Activations) = n /\ \A d \in 1 .. n : Activations[d] = ActivationAt(d)
    BY <1>3, Acts
  <2>2. \A d : ActivationAt(d).wrapper = stack[d].wrapper
    BY DEF ActivationAt
  <2> QED
    BY <2>1, <2>2
<1>5. CASE n = 1
  BY <1>2, <1>5, LastReturnRefines
<1>6. CASE n > 1 /\ ReturnsToCall(n)
  <2>1. PICK m \in Nat : m = n - 1
    BY <1>6
  <2>2. m > 0 /\ m < n /\ m + 1 = n /\ m \in 1 .. n
    BY <1>6, <2>1
  <2>3. at.kind = "i" /\ ~stack[m].wrapper
    BY <1>2, <1>6, <2>1 DEF ReturnsToCall, createInstructionName, Code, Top
  <2>4. Depth' = m
    <3>1. PICK r : Top.slot = Slot(m, r)
      BY <1>2, <1>6, <2>1 DEF ReturnsToCall, Top
    <3> QED
      BY <1>1, <1>2, <2>1, <2>2, <3>1, Popped
  <2>5. Visible' = m
    BY <1>1, <2>3, <2>4 DEF Visible
  <2>6. Place(m)' = [block |-> stack[m + 1].resume.block, index |-> stack[m + 1].resume.index + 1]
    BY <1>1, <1>2, <2>2, <2>3, <2>4, <2>5 DEF Place, Top
  <2>7. Ssa!Caller = m
    BY <1>4, <2>1, <2>2, <2>3 DEF Ssa!Caller
  <2> QED
    BY <1>1, <1>2, <1>6, <2>2, <2>5, <2>6, <2>7, ReturnToRefines DEF Top
<1>7. CASE n > 1 /\ ReturnsToWrapper(n)
  <2>1. /\ n - 1 \in 1 .. Depth /\ stack[n - 1].wrapper
        /\ at = BoundReturnName(stack[n - 1].fn) /\ Top.slot = stack[n - 1].slot
    BY <1>2, <1>7 DEF ReturnsToWrapper, Top
  <2>2. n - 1 > 1 /\ ReturnsToCall(n - 1)
    BY <1>1, <2>1, Returning
  <2>3. PICK m \in Nat : m = n - 2
    BY <2>2
  <2>4. m > 0 /\ m < n /\ m + 1 = n - 1 /\ n - 1 \in 1 .. n /\ m \in 0 .. Depth - 1
    BY <1>2, <2>2, <2>3
  <2>5. /\ Depth' = n - 1 /\ Alike(stack[n - 1], stack'[n - 1])
    <3>1. PICK r : Top.slot = Slot(m, r)
      BY <2>1, <2>2, <2>4 DEF ReturnsToCall
    <3>2. Depth' = Depth - 1 /\ \A d \in 1 .. Depth - 1 : Alike(stack[d], stack'[d])
      BY <1>1, <1>2, <2>4, <3>1, Popped
    <3>3. n - 1 \in 1 .. Depth - 1
      BY <1>2, <2>2
    <3> QED
      BY <1>2, <3>2, <3>3
  <2>6. pc'.func.kind = "return"
    BY <1>1, <2>1 DEF BoundReturnName, Code
  <2>7. Visible' = m /\ m < Depth'
    BY <2>3, <2>4, <2>5, <2>6 DEF Visible
  <2>8. Top'.resume = stack[m + 1].resume
    BY <2>4, <2>5 DEF Alike, Top
  <2>9. Place(m)' = [block |-> stack[m + 1].resume.block, index |-> stack[m + 1].resume.index + 1]
    BY <2>7, <2>8 DEF Place
  <2>10. Ssa!Caller = m
    BY <1>4, <2>1, <2>2, <2>3, <2>4 DEF Ssa!Caller
  <2>11. ReturnsToCall(m + 1) /\ Top.slot = stack[m + 1].slot /\ pc'.free = NoFree
    BY <1>1, <2>1, <2>2, <2>4
  <2> QED
    BY <1>2, <2>4, <2>7, <2>9, <2>10, <2>11, ReturnToRefines
<1> QED
  BY <1>1, <1>2, <1>5, <1>6, <1>7, Returning

LEMMA InitRefines ==
  ASSUME Init
  PROVE  Ssa!SsaInit
<1>1. PICK f \in Entries :
        /\ stack = <<Frame(f, FALSE, <<>>, Terminate, Slot(0, NoReg))>>
        /\ pc = [func |-> createFunctionName(f), step |-> 0, free |-> NoFree]
  BY DEF Init
<1> DEFINE x == Frame(f, FALSE, <<>>, Terminate, Slot(0, NoReg))
<1>2. stack = <<x>>
  BY <1>1
<1>3. /\ x.fn = f /\ x.wrapper = FALSE /\ x.params = <<>> /\ x.free = NoFree /\ x.from = 0
      /\ x.regs = Undefined /\ x.entry = Undefined
  BY DEF Frame
<1> HIDE DEF x
<1>4. Depth = 1 /\ stack[1] = x /\ stack # <<>>
  BY <1>2 DEF Depth
<1>5. Visible = 1
  BY <1>1, <1>4 DEF Visible, createFunctionName, Code
<1>6. Place(1) = [block |-> 1, index |-> 1]
  BY <1>1, <1>4, <1>5 DEF Place, createFunctionName, Code
<1> DEFINE y == Ssa!Activation(f, FALSE, <<>>, Ssa!NoFree)
<1>7. ActivationAt(1) = y
  <2>1. y = [fn |-> f, wrapper |-> FALSE, params |-> <<>>, free |-> NoFree, block |-> 1, index |-> 1,
             from |-> 0, entry |-> Undefined, regs |-> Undefined]
    <3>1. Ssa!NoFree = NoFree /\ Ssa!Undefined = Undefined
      BY SameInstructions
    <3> HIDE DEF Undefined
    <3> QED
      BY <3>1 DEF Ssa!Activation
  <2>2. pc.free = NoFree
    BY <1>1
  <2>3. ActivationAt(1) = [fn |-> f, wrapper |-> FALSE, params |-> <<>>, free |-> NoFree,
                           block |-> 1, index |-> 1,
                           from |-> 0, entry |-> Undefined, regs |-> Undefined]
    <3>1. ActivationAt(1) = [fn |-> x.fn, wrapper |-> x.wrapper, params |-> x.params,
                             free |-> x.free, block |-> Place(1).block, index |-> Place(1).index,
                             from |-> x.from, entry |-> x.entry, regs |-> x.regs]
      BY <1>4, <2>2 DEF ActivationAt
    <3>2. Place(1).block = 1 /\ Place(1).index = 1
      BY <1>6
    <3> HIDE DEF Undefined, NoFree
    <3> QED
      BY <1>3, <3>1, <3>2
  <2> QED
    BY <2>1, <2>3
<1> HIDE DEF y
<1>8. Activations = <<y>>
  <2>1. IsSequence(Activations) /\ Len(Activations) = 1 /\ Activations[1] = y
    BY <1>5, <1>7, Acts
  <2>2. IsSequence(<<y>>) /\ Len(<<y>>) = 1 /\ <<y>>[1] = y
    BY DEF IsSequence
  <2> QED
    BY <2>1, <2>2, SameSequence
<1> QED
  BY <1>1, <1>4, <1>8 DEF Init, Ssa!SsaInit, y

LEMMA StepRefines ==
  ASSUME GeneratedInv, [Next]_vars, ComputesAsMeant
  PROVE  [Ssa!SsaNext]_(Ssa!ssaVars)
<1>1. CASE EnterFunction
  BY <1>1, EnterFunctionStutters
<1>2. CASE EnterPiece
  BY <1>2, EnterPieceStutters
<1>3. CASE BoundCall
  BY <1>3, BoundCallRefines
<1>4. CASE BoundReturn
  BY <1>4, BoundReturnStutters
<1>5. CASE Finish
  BY <1>5, UnmovedStutters DEF Finish
<1>6. CASE PhiStep
  BY <1>6, PhiStepRefines
<1>7. CASE Compute
  BY <1>7, ComputeRefines
<1>8. CASE AllocLocal
  BY <1>8, AllocLocalRefines
<1>9. CASE StoreStep
  BY <1>9, StoreStepRefines
<1>10. CASE CallRuntime
  BY <1>10, CallRuntimeStutters
<1>11. CASE RunRuntime
  BY <1>11, RunRuntimeRefines
<1>12. CASE RunInvoke
  BY <1>12, RunInvokeRefines
<1>13. CASE CallFunction
  BY <1>13, CallFunctionRefines
<1>14. CASE JumpStep
  BY <1>14, JumpStepRefines
<1>15. CASE ReturnStep
  BY <1>15, ReturnStepRefines
<1>16. CASE UNCHANGED vars
  BY <1>16, UnmovedStutters DEF vars
<1> QED
  BY <1>1, <1>2, <1>3, <1>4, <1>5, <1>6, <1>7, <1>8, <1>9, <1>10, <1>11, <1>12, <1>13, <1>14, <1>15,
     <1>16 DEF Next, Step, Ended

\* A compiled program (src/cgen/main.go) does what its SSA form says, whatever its
\* functions are, wherever they are cut, and for every call, method call, bound
\* method, closure, call of the runtime, phi node and return: in every run in which
\* the C expressions it reaches have, of the operands they are reached with, the
\* value Go gives them or end the process, and if the phi nodes of a block do not
\* read each other (ProgramAssumption).
THEOREM CompiledCodeImplements == Spec /\ []ComputesAsMeant => Implements
<1>1. Init => Ssa!SsaInit
  BY InitRefines
<1>2. GeneratedInv /\ ComputesAsMeant /\ [Next]_vars => [Ssa!SsaNext]_(Ssa!ssaVars)
  BY StepRefines
<1> QED
  BY <1>1, <1>2, GeneratedInvariant, PTL DEF Spec, Implements, Ssa!SsaSpec
=============================================================================
