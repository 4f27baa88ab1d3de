---------------------------- MODULE GeneratedCode -----------------------------
(***************************************************************************)
(* Compiled functions as src/cgen/main.go emits them, under the loop of     *)
(* execute (src/src/lib.rs).  A function becomes one C function for its     *)
(* entry ("f"), one for every basic block ("b") and one for what follows    *)
(* every instruction that leaves for another function ("i").  Each returns  *)
(* the next one; arguments, results and registers live in frames.           *)
(*                                                                         *)
(* pc.func is the C function running or about to be invoked (step = 0),     *)
(* pc.free the free variables its FunctionObject carries, prev the C        *)
(* function that ran before it (ctx->prev_func).  The fields from and       *)
(* entry of a frame are history: the block it came from, and its registers  *)
(* when it entered the block.                                              *)
(***************************************************************************)
EXTENDS Instructions, FiniteSets

CONSTANTS
  Program, Entries, Registers, Garbage, Trap, NoMemory,
  Meaning(_, _, _), Stored(_, _, _), Runtime(_, _, _), MethodOf(_, _),
  Computed(_, _, _)  \* what the C expression computes, or Trap

VARIABLES pc, outcome, prev, stack, runtime, mem, result

vars == <<pc, outcome, prev, stack, runtime, mem, result>>

\* Names of C functions.
Code(kind, f, b, k) == [kind |-> kind, fn |-> f, block |-> b, index |-> k]
createFunctionName(f)          == Code("f", f, 0, 0)
createBasicBlockName(f, b)     == Code("b", f, b, 0)
createInstructionName(f, b, k) == Code("i", f, b, k)
BoundName(f)                   == Code("bound", f, 0, 0)
BoundReturnName(f)             == Code("return", f, 0, 0)
RuntimeName(function)          == Code("runtime", function, 0, 0)
Terminate                      == Code("terminate", None, 0, 0)

NoFree == <<>>
NoFrame == [function |-> None]

Block(f, b)    == Program[f].blocks[b]
Instr(f, b, k) == Block(f, b).instrs[k]

\* Mutant: a block is known by its name, whatever it calls.
BlockOnly(f, b) == createBasicBlockName(f, b)

\* The last C function a block runs: the one its jumps leave from.
latestNameMap(f, b) ==
  LET cuts == {k \in DOMAIN Block(f, b).instrs : requireSwitchFunction(Instr(f, b, k))}
  IN  IF cuts = {} THEN createBasicBlockName(f, b)
      ELSE createInstructionName(f, b, CHOOSE k \in cuts : \A j \in cuts : j <= k)

\* The C functions there are.
Emitted(f) ==
  {createFunctionName(f), BoundName(f), BoundReturnName(f)}
    \cup {createBasicBlockName(f, b) : b \in DOMAIN Program[f].blocks}
    \cup UNION {{createInstructionName(f, b, k) :
                   k \in {j \in DOMAIN Block(f, b).instrs : requireSwitchFunction(Instr(f, b, j))}} :
                b \in DOMAIN Program[f].blocks}

\* What the SSA form guarantees of a block: it ends with its only jump, return or
\* panic, and its phi nodes come first.  That no phi node reads what an earlier
\* one defines is an assumption on programs.
Enders == {"Jump", "If", "Return", "Panic"}
IsSequence(s) == Len(s) \in Nat /\ s = [k \in 1 .. Len(s) |-> s[k]]
WellFormed(code) ==
  /\ IsSequence(code) /\ Len(code) > 0
  /\ \A k \in DOMAIN code : code[k].kind \in Enders <=> k = Len(code)
  /\ \A k \in DOMAIN code : code[k].kind = "Phi" =>
       /\ \A j \in 1 .. k - 1 : code[j].kind = "Phi"
       /\ \A e \in DOMAIN code[k].args :
            code[k].args[e].at = "reg" =>
              /\ code[k].args[e].name \in Registers
              /\ \A j \in 1 .. k - 1 : code[k].args[e].name # code[j].dest

ASSUME ProgramAssumption ==
  \A f \in DOMAIN Program :
    /\ IsSequence(Program[f].blocks)
    /\ \A b \in DOMAIN Program[f].blocks : WellFormed(Block(f, b).instrs)

Undefined == [r \in Registers |-> Garbage]

\* A frame: what a caller fills in, and the registers above it.
Frame(f, wrapper, params, resume, slot) ==
  [fn |-> f, wrapper |-> wrapper, params |-> params, free |-> NoFree, resume |-> resume,
   slot |-> slot, regs |-> Undefined, entry |-> Undefined, from |-> 0]

Slot(d, r) == [depth |-> d, reg |-> r]

-----------------------------------------------------------------------------
Depth   == Len(stack)
Top     == stack[Depth]
Current == Instr(pc.func.fn, pc.func.block, pc.step)

\* createValueRelName: where generated code finds a value.
ValueOf(x, frame) ==
  CASE x.at = "reg"   -> frame.regs[x.name]
    [] x.at = "param" -> frame.params[x.name]
    [] x.at = "free"  -> frame.free[x.name]
    [] OTHER          -> x.name

Values(xs, frame) == [k \in DOMAIN xs |-> ValueOf(xs[k], frame)]

\* Mutant of Goto: the function that ran before is noted after the new one.
GotoFirst(code, free) ==
  /\ pc' = [func |-> code, step |-> 0, free |-> free]
  /\ prev' = code

\* The program returns FunctionObject code, with free, to the loop of execute.
Goto(code, free) ==
  /\ pc' = [func |-> code, step |-> 0, free |-> free]
  /\ prev' = pc.func

\* A store of v through a result pointer; the first frame's points at result.
Write(frames, slot, v) ==
  IF slot.depth = 0 \/ slot.reg = NoReg THEN frames
  ELSE [frames EXCEPT ![slot.depth].regs[slot.reg] = v]

\* The current piece of code goes on to its next instruction.
GoOn(r, v) ==
  /\ stack' = Write(stack, Slot(Depth, r), v)
  /\ pc' = [pc EXCEPT !.step = @ + 1]
  /\ UNCHANGED prev

\* An instruction of this piece that was to leave it has been passed: the C
\* function has come to its end without a return.
Passed == \E k \in pc.func.index + 1 .. pc.step - 1 :
            requireSwitchFunction(Instr(pc.func.fn, pc.func.block, k))

InPiece         == outcome = "running" /\ pc.step > 0 /\ ~Passed
Executing(kinds) == InPiece /\ Current.kind \in kinds

Abort == outcome' = "aborted" /\ UNCHANGED <<stack, pc, prev, runtime, mem, result>>

Init ==
  /\ \E f \in Entries :
       /\ stack = <<Frame(f, FALSE, <<>>, Terminate, Slot(0, NoReg))>>
       /\ pc = [func |-> createFunctionName(f), step |-> 0, free |-> NoFree]
  /\ prev = Terminate
  /\ runtime = NoFrame
  /\ mem = NoMemory
  /\ outcome = "running"
  /\ result = Garbage

-----------------------------------------------------------------------------
(* execute: prepare_user_function and the entry of a C function.           *)

\* The free variables of a closure are put in the frame just before it runs.
Prepared == IF pc.free = NoFree THEN stack
            ELSE [stack EXCEPT ![Depth] = [@ EXCEPT !.free = pc.free]]

Invoking(kinds) == outcome = "running" /\ pc.step = 0 /\ pc.func.kind \in kinds

EnterFunction ==
  /\ Invoking({"f"})
  /\ stack' = Prepared
  /\ Goto(createBasicBlockName(pc.func.fn, 1), NoFree)
  /\ UNCHANGED <<runtime, mem, outcome, result>>

\* The prologue asserts that there are free variables if the function has any.
EnterPiece ==
  /\ Invoking({"b", "i"})
  /\ pc.func.fn \in DOMAIN Program /\ pc.func \in Emitted(pc.func.fn)
  /\ IF (Prepared[Depth].free = NoFree) # (Program[pc.func.fn].free = 0) THEN Abort
     ELSE /\ stack' = Prepared
          /\ pc' = [pc EXCEPT !.step = pc.func.index + 1, !.free = NoFree]
          /\ UNCHANGED <<prev, runtime, mem, outcome, result>>

\* Mutant of BoundCall: the result stays in the frame of the wrapper.
BoundCallKeepsResult ==
  /\ Invoking({"bound"})
  /\ IF Prepared[Depth].free = NoFree THEN Abort
     ELSE /\ LET wrapper == Prepared[Depth]
                 f       == pc.func.fn
             IN  /\ stack' = Append(Prepared, Frame(f, FALSE, wrapper.free \o wrapper.params,
                                                    BoundReturnName(f), Slot(Depth, wrapper.slot.reg)))
                 /\ Goto(createFunctionName(f), NoFree)
          /\ UNCHANGED <<runtime, mem, outcome, result>>

\* f$bound: the receiver is the free variable; the result pointer is passed on.
BoundCall ==
  /\ Invoking({"bound"})
  /\ IF Prepared[Depth].free = NoFree THEN Abort
     ELSE /\ LET wrapper == Prepared[Depth]
                 f       == pc.func.fn
             IN  /\ stack' = Append(Prepared, Frame(f, FALSE, wrapper.free \o wrapper.params,
                                                    BoundReturnName(f), wrapper.slot))
                 /\ Goto(createFunctionName(f), NoFree)
          /\ UNCHANGED <<runtime, mem, outcome, result>>

BoundReturn ==
  /\ Invoking({"return"})
  /\ IF Top.free = NoFree THEN Abort
     ELSE /\ stack' = SubSeq(stack, 1, Depth - 1)
          /\ Goto(Top.resume, NoFree)
          /\ UNCHANGED <<runtime, mem, outcome, result>>

Finish ==
  /\ Invoking({"terminate"})
  /\ outcome' = "returned"
  /\ UNCHANGED <<stack, pc, prev, runtime, mem, result>>

-----------------------------------------------------------------------------
(* Instructions that stay in their piece of code.                          *)

IsCall(i) == i.kind = "Call" /\ i.builtin = None
Leaves(i) == IsCall(i) \/ EmittedFunction(i) # None \/ i.kind \in {"Jump", "If", "Return"}

\* One assignment per phi node, in their order; the edge is found by the C
\* function that ran last.
Edges == {k \in DOMAIN Current.args :
            prev = latestNameMap(pc.func.fn, Block(pc.func.fn, pc.func.block).preds[k])}

PhiStep ==
  /\ Executing({"Phi"})
  /\ IF Edges = {} THEN Abort
     ELSE /\ \E k \in Edges : /\ \A j \in Edges : k <= j
                            /\ GoOn(Current.dest, ValueOf(Current.args[k], Top))
          /\ UNCHANGED <<runtime, mem, outcome, result>>

\* The next instruction is one that a C expression computes.
Computing ==
  /\ InPiece
  /\ ~Leaves(Current) /\ Current.kind \notin {"Phi", "Alloc", "Store", "Panic"}

Compute ==
  /\ Computing
  /\ LET v == Computed(Current, Values(Current.args, Top), mem)
     IN  IF v = Trap
         THEN outcome' = "trapped" /\ UNCHANGED <<stack, pc, prev>>
         ELSE GoOn(Current.dest, v) /\ UNCHANGED outcome
  /\ UNCHANGED <<runtime, mem, result>>

\* Its buffer lies in the frame.
Local(depth, r) == <<"local", depth, r>>

AllocLocal ==
  /\ Executing({"Alloc"}) /\ ~Current.heap
  /\ GoOn(Current.dest, Local(Depth, Current.dest))
  /\ mem' = Stored(Local(Depth, Current.dest), Current.zero, mem)
  /\ UNCHANGED <<runtime, outcome, result>>

StoreStep ==
  /\ Executing({"Store"})
  /\ GoOn(NoReg, Garbage)
  /\ mem' = Stored(ValueOf(Current.args[1], Top), ValueOf(Current.args[2], Top), mem)
  /\ UNCHANGED <<runtime, outcome, result>>

-----------------------------------------------------------------------------
(* Instructions that leave it.                                             *)

Here == createInstructionName(pc.func.fn, pc.func.block, pc.step)

\* switchFunctionToCallRuntimeApi
CallRuntime ==
  /\ InPiece
  /\ EmittedFunction(Current) # None /\ Current.kind # "Panic"
  /\ runtime' = [function |-> EmittedFunction(Current), call |-> Current,
                 args |-> Values(Current.args, Top), resume |-> Here,
                 slot |-> Slot(Depth, Current.dest)]
  /\ Goto(RuntimeName(EmittedFunction(Current)), NoFree)
  /\ UNCHANGED <<stack, mem, outcome, result>>

\* The handler: its effect, the result through the pointer, pop_frame.
RunRuntime ==
  /\ Invoking({"runtime"}) /\ runtime.call.kind # "Invoke"
  /\ LET answer == Runtime(runtime.call, runtime.args, mem)
     IN  IF answer = Trap THEN Abort
         ELSE /\ stack' = Write(stack, runtime.slot, answer.value)
              /\ mem' = answer.mem
              /\ Goto(runtime.resume, NoFree)
              /\ runtime' = NoFrame
              /\ UNCHANGED <<outcome, result>>

\* gox5_interface_invoke: the frame of the method takes the place of its own.
RunInvoke ==
  /\ Invoking({"runtime"}) /\ runtime.call.kind = "Invoke"
  /\ LET method == MethodOf(runtime.args[1], runtime.call.method)
     IN  IF method = None THEN Abort
         ELSE /\ stack' = Append(stack, Frame(method, FALSE,
                                              <<runtime.args[1].value>> \o Tail(runtime.args),
                                              runtime.resume, runtime.slot))
              /\ Goto(createFunctionName(method), NoFree)
              /\ runtime' = NoFrame
              /\ UNCHANGED <<mem, outcome, result>>

\* switchFunction
CallFunction ==
  /\ InPiece /\ IsCall(Current)
  /\ LET callee == ValueOf(Current.callee, Top)
     IN  /\ stack' = Append(stack, Frame(callee.fn, callee.wrapper, Values(Current.args, Top),
                                         Here, Slot(Depth, Current.dest)))
         /\ Goto(IF callee.wrapper THEN BoundName(callee.fn) ELSE createFunctionName(callee.fn),
                 callee.free)
  /\ UNCHANGED <<runtime, mem, outcome, result>>

JumpStep ==
  /\ Executing({"Jump", "If"})
  /\ LET target == Current.succs[IF Current.kind = "Jump" \/ ValueOf(Current.args[1], Top) = TRUE
                                 THEN 1 ELSE 2]
     IN  Goto(createBasicBlockName(pc.func.fn, target), NoFree)
  /\ stack' = [stack EXCEPT ![Depth] = [@ EXCEPT !.from = pc.func.block, !.entry = Top.regs]]
  /\ UNCHANGED <<runtime, mem, outcome, result>>

Returned(xs) == IF Len(xs) = 1 THEN xs[1] ELSE xs

ReturnStep ==
  /\ Executing({"Return"})
  /\ LET v == Returned(Values(Current.args, Top))
     IN  /\ stack' = Write(SubSeq(stack, 1, Depth - 1), Top.slot, v)
         /\ result' = IF Top.slot.depth = 0 THEN v ELSE result
  /\ Goto(Top.resume, NoFree)
  /\ UNCHANGED <<runtime, mem, outcome>>

\* The process has ended.
Ended == outcome # "running" /\ UNCHANGED vars

Step ==
  \/ EnterFunction \/ EnterPiece \/ BoundCall \/ BoundReturn \/ Finish
  \/ PhiStep \/ Compute \/ AllocLocal \/ StoreStep
  \/ CallRuntime \/ RunRuntime \/ RunInvoke \/ CallFunction \/ JumpStep \/ ReturnStep

Next == Step \/ Ended

Spec     == Init /\ [][Next]_vars
FairSpec == Spec /\ WF_vars(Step)

-----------------------------------------------------------------------------
(* The inductive invariant: what a C function may expect of the stack and of *)
(* the function that ran before it.                                        *)

FrameFields == {"fn", "wrapper", "params", "free", "resume", "slot", "regs", "entry", "from"}

\* A frame returns to the frame below: behind the call that made it, with the
\* result in the register of that call; or to the wrapper of its bound method,
\* with the result where the wrapper's goes.
ReturnsToCall(d) ==
  LET at == stack[d].resume
  IN  /\ ~stack[d - 1].wrapper
      /\ at = createInstructionName(stack[d - 1].fn, at.block, at.index)
      /\ stack[d].slot = Slot(d - 1, Instr(at.fn, at.block, at.index).dest)

ReturnsToWrapper(d) ==
  /\ stack[d - 1].wrapper /\ ~stack[d].wrapper
  /\ stack[d].resume = BoundReturnName(stack[d - 1].fn)
  /\ stack[d].slot = stack[d - 1].slot

FrameOK(d) ==
  /\ DOMAIN stack[d] = FrameFields /\ DOMAIN stack[d].regs = Registers
  /\ IF d = 1 THEN stack[d].resume = Terminate /\ stack[d].slot = Slot(0, NoReg) /\ ~stack[d].wrapper
     ELSE ReturnsToCall(d) \/ ReturnsToWrapper(d)

StackOK == IsSequence(stack) /\ \A d \in 1 .. Depth : FrameOK(d)

\* The C function belongs to the top frame.
CodeOK ==
  LET c == pc.func
  IN  /\ c = Code(c.kind, c.fn, c.block, c.index)
      /\ c.kind \in {"f", "b", "i", "bound", "return", "runtime", "terminate"}
      /\ c.kind = "terminate" <=> stack = <<>>
      /\ c.kind \in {"f", "b", "i", "bound", "return"} =>
           c.fn = Top.fn /\ (Top.wrapper <=> c.kind \in {"bound", "return"})
      /\ c.kind = "b" => c.index = 0
      /\ c.kind = "runtime" => ~Top.wrapper

PcOK ==
  /\ DOMAIN pc = {"func", "step", "free"}
  /\ pc.free # NoFree => pc.func.kind \in {"f", "bound"}
  /\ pc.step = 0
     \/ /\ pc.func.kind \in {"b", "i"}
        /\ pc.func.fn \in DOMAIN Program /\ pc.func \in Emitted(pc.func.fn)
        /\ pc.step \in pc.func.index + 1 .. Len(Block(pc.func.fn, pc.func.block).instrs)

\* A function of the runtime was called by the instruction in front of the code it
\* goes back to, and its arguments are still what they were.
RuntimeOK ==
  pc.func.kind = "runtime" =>
    LET at == runtime.resume
    IN  /\ at = createInstructionName(Top.fn, at.block, at.index)
        /\ runtime.call = Instr(at.fn, at.block, at.index)
        /\ EmittedFunction(runtime.call) # None /\ runtime.call.kind # "Panic"
        /\ runtime.args = Values(runtime.call.args, Top)
        /\ runtime.slot = Slot(Depth, runtime.call.dest)

\* Until a block is left for the first time, prev is the last piece of the block it
\* was entered from, and while only phi nodes have run, every register that none of
\* them defines is as it was.
PhisOK ==
  /\ pc.func.kind = "f" => Top.from = 0 /\ Top.regs = Top.entry
  /\ pc.func.kind = "b" =>
       /\ IF Top.from = 0 THEN prev.kind = "f" ELSE prev = latestNameMap(pc.func.fn, Top.from)
       /\ \A r \in Registers :
            (\A k \in 1 .. pc.step - 1 :
               /\ Instr(pc.func.fn, pc.func.block, k).kind = "Phi"
               /\ Instr(pc.func.fn, pc.func.block, k).dest # r)
              => Top.regs[r] = Top.entry[r]

GeneratedInv == StackOK /\ CodeOK /\ PcOK /\ RuntimeOK /\ PhisOK

\* C computes of the operands an instruction is reached with what Go does, or ends
\* the process.  A program may do otherwise: it compares interface values of
\* different dynamic types, for one (main.go:2309-2331).
ComputesAsMeant ==
  Computing =>
    LET xs == Values(Current.args, Top)
    IN  Computed(Current, xs, mem) \in {Trap, Meaning(Current, xs, mem)}

-----------------------------------------------------------------------------
(* The refinement mapping.                                                 *)

\* The frame of f$bound is gone as soon as the method has returned.
Visible == IF pc.func.kind = "return" THEN Depth - 1 ELSE Depth

\* Where the activation of frame d stands: in front of the call of the frame
\* above it, behind it once that one has returned.
Place(d) ==
  CASE d < Visible -> [block |-> stack[d + 1].resume.block, index |-> stack[d + 1].resume.index]
    [] d = Visible /\ d < Depth ->
         [block |-> Top.resume.block, index |-> Top.resume.index + 1]
    [] d = Depth /\ pc.func.kind = "runtime" ->
         [block |-> runtime.resume.block, index |-> runtime.resume.index]
    [] d = Depth /\ pc.func.kind = "f" -> [block |-> 1, index |-> 1]
    [] d = Depth /\ pc.func.kind \in {"b", "i"} ->
         [block |-> pc.func.block, index |-> IF pc.step = 0 THEN pc.func.index + 1 ELSE pc.step]
    [] OTHER -> [block |-> 0, index |-> 0]

ActivationAt(d) ==
  [fn |-> stack[d].fn, wrapper |-> stack[d].wrapper, params |-> stack[d].params,
   free |-> IF d = Depth /\ pc.free # NoFree THEN pc.free ELSE stack[d].free,
   block |-> Place(d).block, index |-> Place(d).index,
   from |-> stack[d].from, entry |-> stack[d].entry, regs |-> stack[d].regs]

Activations == [d \in 1 .. Visible |-> ActivationAt(d)]

Ssa == INSTANCE SsaMachine WITH
  acts    <- Activations,
  outcome <- IF stack = <<>> THEN "returned" ELSE "running"

\* Compiled code does what its SSA form says.
Implements == Ssa!SsaSpec
=============================================================================
