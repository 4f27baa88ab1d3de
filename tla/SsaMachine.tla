------------------------------ MODULE SsaMachine ------------------------------
(***************************************************************************)
(* What a program in SSA form means: the machine GeneratedCode implements.  *)
(* An activation stands at one instruction of one block.  The phi nodes of  *)
(* a block all read the registers as they were when the block was entered   *)
(* (entry); a call of the runtime and a call of a bound method are single   *)
(* steps.  A trapping operation stops the machine.                          *)
(***************************************************************************)
EXTENDS Instructions

CONSTANTS
  Program,           \* its functions: their free variables, and blocks of [instrs, preds]
  Entries,           \* the functions, without parameters, a run may start with
  Registers,         \* the registers of all functions
  Garbage,           \* what a register holds before it is defined
  Trap,              \* the value of an operation that stops the program
  NoMemory,          \* the memory a program starts with
  Meaning(_, _, _),  \* Meaning(i, xs, m): the value i defines, of operands xs, in memory m
  Stored(_, _, _),   \* Stored(a, x, m): memory m with x stored at a
  Runtime(_, _, _),  \* Runtime(i, xs, m): value and memory after the runtime's function, or Trap
  MethodOf(_, _)     \* MethodOf(v, name): the method an interface value v has under that name

VARIABLES acts, mem, outcome, result

ssaVars == <<acts, mem, outcome, result>>

\* A function value is [fn, wrapper, free]: plain, closure (free variables) or bound
\* method (wrapper).
NoFree == <<>>

Block(f, b)    == Program[f].blocks[b]
Instr(f, b, k) == Block(f, b).instrs[k]

ValueOf(x, a) ==
  CASE x.at = "reg"   -> a.regs[x.name]
    [] x.at = "param" -> a.params[x.name]
    [] x.at = "free"  -> a.free[x.name]
    [] OTHER          -> x.name

Values(xs, a) == [k \in DOMAIN xs |-> ValueOf(xs[k], a)]

Undefined == [r \in Registers |-> Garbage]

\* An activation of f, or of the wrapper that calls it as a bound method.
Activation(f, wrapper, params, free) ==
  [fn |-> f, wrapper |-> wrapper, params |-> params, free |-> free,
   block |-> IF wrapper THEN 0 ELSE 1, index |-> IF wrapper THEN 0 ELSE 1,
   from |-> 0, entry |-> Undefined, regs |-> Undefined]

Defined(regs, r, v) == IF r = NoReg THEN regs ELSE [regs EXCEPT ![r] = v]

\* The address of a variable of the activation at that level.
Local(level, r) == <<"local", level, r>>

IsCall(i)     == i.kind = "Call" /\ i.builtin = None
IsComputed(i) ==
  /\ i.kind \notin {"Phi", "Alloc", "Store", "Jump", "If", "Return", "Panic"}
  /\ ~IsCall(i) /\ EmittedFunction(i) = None

\* What a function returns: nothing, a value, or a tuple.
Returned(xs) == IF Len(xs) = 1 THEN xs[1] ELSE xs

SsaInit ==
  /\ \E f \in Entries : acts = <<Activation(f, FALSE, <<>>, NoFree)>>
  /\ mem = NoMemory
  /\ outcome = "running"
  /\ result = Garbage

-----------------------------------------------------------------------------
Top     == acts[Len(acts)]
Current == Instr(Top.fn, Top.block, Top.index)

\* An activation gives r the value v and goes on to its next instruction.
GoneOn(a, r, v) == [a EXCEPT !.regs = Defined(a.regs, r, v), !.index = a.index + 1]

GoOn(r, v) == acts' = [acts EXCEPT ![Len(acts)] = GoneOn(Top, r, v)]

InProgram == outcome = "running" /\ acts # <<>> /\ ~Top.wrapper

Running(kinds) == InProgram /\ Current.kind \in kinds

SsaPhi ==
  /\ Running({"Phi"})
  /\ \E k \in DOMAIN Current.args :
       /\ Block(Top.fn, Top.block).preds[k] = Top.from
       /\ GoOn(Current.dest, ValueOf(Current.args[k], [Top EXCEPT !.regs = Top.entry]))
  /\ UNCHANGED <<mem, outcome, result>>

SsaCompute ==
  /\ InProgram /\ IsComputed(Current)
  /\ LET v == Meaning(Current, Values(Current.args, Top), mem)
     IN  v # Trap /\ GoOn(Current.dest, v)
  /\ UNCHANGED <<mem, outcome, result>>

\* A variable that does not escape: it is zero again whenever it is reached.
SsaAlloc ==
  /\ Running({"Alloc"}) /\ ~Current.heap
  /\ GoOn(Current.dest, Local(Len(acts), Current.dest))
  /\ mem' = Stored(Local(Len(acts), Current.dest), Current.zero, mem)
  /\ UNCHANGED <<outcome, result>>

SsaStore ==
  /\ Running({"Store"})
  /\ GoOn(NoReg, Garbage)
  /\ mem' = Stored(ValueOf(Current.args[1], Top), ValueOf(Current.args[2], Top), mem)
  /\ UNCHANGED <<outcome, result>>

SsaRuntime ==
  /\ InProgram /\ EmittedFunction(Current) # None /\ Current.kind \notin {"Invoke", "Panic"}
  /\ LET answer == Runtime(Current, Values(Current.args, Top), mem)
     IN  answer # Trap /\ GoOn(Current.dest, answer.value) /\ mem' = answer.mem
  /\ UNCHANGED <<outcome, result>>

SsaCall ==
  /\ InProgram /\ IsCall(Current)
  /\ LET callee == ValueOf(Current.callee, Top)
     IN  acts' = Append(acts, Activation(callee.fn, callee.wrapper,
                                         Values(Current.args, Top), callee.free))
  /\ UNCHANGED <<mem, outcome, result>>

\* A method call on an interface value; the receiver is what the value holds.
SsaInvoke ==
  /\ Running({"Invoke"})
  /\ LET xs == Values(Current.args, Top)
     IN  acts' = Append(acts, Activation(MethodOf(xs[1], Current.method), FALSE,
                                         <<xs[1].value>> \o Tail(xs), NoFree))
  /\ UNCHANGED <<mem, outcome, result>>

\* The wrapper of a bound method calls it with the receiver it carries.
SsaBound ==
  /\ outcome = "running" /\ acts # <<>> /\ Top.wrapper
  /\ acts' = Append(acts, Activation(Top.fn, FALSE, Top.free \o Top.params, NoFree))
  /\ UNCHANGED <<mem, outcome, result>>

SsaJump ==
  /\ Running({"Jump", "If"})
  /\ LET target == Current.succs[IF Current.kind = "Jump" \/ ValueOf(Current.args[1], Top) = TRUE
                                 THEN 1 ELSE 2]
     IN  acts' = [acts EXCEPT ![Len(acts)] =
                   [Top EXCEPT !.block = target, !.index = 1, !.from = Top.block, !.entry = Top.regs]]
  /\ UNCHANGED <<mem, outcome, result>>

\* The activation a return of the top one goes back to: a wrapper returns at once.
Caller == IF Len(acts) > 1 /\ acts[Len(acts) - 1].wrapper THEN Len(acts) - 2 ELSE Len(acts) - 1

SsaReturn ==
  /\ Running({"Return"})
  /\ LET v    == Returned(Values(Current.args, Top))
         call == Instr(acts[Caller].fn, acts[Caller].block, acts[Caller].index)
     IN  IF Caller = 0
         THEN acts' = <<>> /\ outcome' = "returned" /\ result' = v
         ELSE /\ acts' = [SubSeq(acts, 1, Caller) EXCEPT
                           ![Caller] = GoneOn(acts[Caller], call.dest, v)]
              /\ UNCHANGED <<outcome, result>>
  /\ UNCHANGED mem

SsaNext ==
  \/ SsaPhi \/ SsaCompute \/ SsaAlloc \/ SsaStore
  \/ SsaRuntime \/ SsaCall \/ SsaInvoke \/ SsaBound \/ SsaJump \/ SsaReturn

SsaSpec == SsaInit /\ [][SsaNext]_ssaVars
=============================================================================
