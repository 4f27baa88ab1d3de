# A TLA+ development of gogogogogo

gogogogogo compiles Go programs to C (`src/cgen/main.go`, over Go's SSA form)
and links them with a runtime written in Rust (`src/src/`). This directory
models the runtime, checks the models with TLC and proves the most important
properties with TLAPS.

## 1. The system

One OS thread runs everything. A goroutine is a *light weight thread*: a stack,
an id and a few flags. Compiled code is a set of small C functions, split at
every call; each returns the function to run next, and the loop `execute` keeps
invoking them until the thread raises its "suspended" flag. There is no
preemption: a goroutine gives the processor back when it calls `Gosched`, when
it spawns, when it ends, and when a channel operation cannot complete. A blocked
operation is not parked. It suspends with itself as the function to resume, so
it is **issued again from the start on each turn** until it completes.

| component | source | state | operations |
|---|---|---|---|
| scheduler | `lib.rs`, `global_context.rs`, `light_weight_thread.rs` | run queue, number of threads created, control flags | `main` loop, `execute`, `suspend`, `resume`, `terminate` |
| goroutine API | `api/lwt.rs` | none of its own | `gox5_lwt_spawn`, `_spawn_invoke`, `_yield` |
| channel object | `object/channel.rs` | ring buffer, or a five-state rendezvous cell; closed flag | `send`, `receive`, `can_complete_*`, `close` |
| channel API | `api/channel.rs` | the runtime frame on the stack | `gox5_channel_new`, `_send`, `_receive`, `_close`, `_select` |
| thread stack | `light_weight_thread.rs`, `cgen/main.go` | frames linked by `prev_stack_pointer` | `push_frame`, `pop_frame`, call, return |
| defer and panic | `api/defer.rs`, `api/panic.rs`, `defer_stack.rs` | one list of deferred calls per frame, panic flag and value | register, execute, raise, recover |
| slices | `api/slice.rs`, `object/slice.rs`, `cgen/main.go` | pointer, size, capacity | slice expression, append, copy |
| maps | `api/map.rs`, `object/map.rs` | hash map of copied keys and values | get, set, delete, next |
| strings | `api/string.rs`, `object/string.rs` | NUL-terminated bytes | append, substr, next, conversions |
| interfaces | `api/interface.rs`, `object/interface.rs`, `type_id.rs` | receiver and type | new, convert, invoke |
| closures, `new`, word chunks | `api/closure.rs`, `api/new.rs`, `word_chunk.rs` | none | allocate and copy |
| allocator | `lib.rs` | none (nothing is freed) | `mmap`, leaked vectors |
| code generator | `cgen/main.go`, `cgen/predefined.h` | name tables; of the generated code: the current and the previous C function, frames with parameters, registers and result pointers | instruction emission, continuation names, equality and hash functions |

How they interact: generated code pushes the frame of a runtime function above
its own and jumps to it; the handler reads its arguments from the frame, works
on the objects the arguments point to, writes the result through a pointer in
the frame, pops it and returns the caller's continuation. Channels are the only
objects two goroutines meet at with a protocol; because a turn is never
interrupted, the hard interleavings are those *between turns*, and above all
between the attempts of one blocked operation.

### What makes each component correct

* *Scheduler*: every thread created and not terminated is in the queue exactly
  once or running; nobody runs twice while another waits; the loop never
  dispatches into an empty queue.
* *Channels*: values arrive exactly once and in order; `closed` is reported only
  when nothing is left; an unbuffered send and its receive complete together; a
  registration in the cell never outlives the operation that made it; a pair
  that waits for each other meets.
* *Thread stack, defer, panic*: deferred calls run once, newest first, also when
  a panic removes the frames they were registered in; a function a panic has
  left runs nothing more; unwinding ends.
* *Slices*: windows stay inside their arrays; append keeps its first operand and
  brings the second; growth is invisible to slices that share the old array;
  copy behaves as if everything moved at once.
* *Maps*: equal keys share one entry; a lookup finds what was last set; a range
  over a map that nobody changes meets every entry once. *Strings*:
  positions are bytes everywhere, and what a string is cut from or joined to stays
  readable. *Interfaces*: the method found
  is that of the dynamic type. *Code generator*: a continuation resumes where
  the call left off, with its locals.

### What is hard here

* The rendezvous cell remembers half-finished hand-offs between turns of the
  two parties, while other goroutines send, receive, close and select on it.
* `select` polls its channels in two loops. The second one **registers** its
  goroutine as a receiver and nothing ever takes the registration back.
* `select` asks `can_complete_*` and then unwraps `send`/`receive`: two matches
  written apart that must agree.
* The spawner queues its child from inside its own turn and is then queued
  behind it.
* The ring buffer's arithmetic modulo the capacity.
* Deferred calls run by a handler that re-enters itself, panics that start
  while other panics unwind.
* Slices that share an array and are appended to in place.
* A function is cut at every call, by a table kept apart from the code that
  emits the calls; phi nodes find their edge by the C function that ran last,
  and are assigned one after the other.
* Go's integer arithmetic on C's: promotions, overflow that ends the process,
  shifts that C leaves undefined.
* Strings end at a NUL and are cut at bytes, but iterated by characters.
* A range over a map that keeps only a position in a hash table which the body
  of the loop may change; hash and equality functions that are generated apart.

`PROJECT.json` lists these hazards line by line, with the properties that cover
each one.

## 2. Modules

| module | models | kind |
|---|---|---|
| `Scheduler` | the loop of `main`, thread states | specification |
| `SchedulerTurns` | the same with a history of turns | specification + properties |
| `ChannelObject` | `object/channel.rs` as operators on one channel record | pure algorithm |
| `ChannelRuntime` | `api/channel.rs` and `api/lwt.rs` on top of the scheduler; EXTENDS the two above | specification |
| `ChannelSafety` | type and safety invariants, action properties, the inductive invariant, progress | properties |
| `AbstractChannel` | a channel as a bounded FIFO queue | abstract specification |
| `Handoff` | an unbuffered channel as a synchronous rendezvous | abstract specification |
| `ChannelRefinement` | the refinement mappings to both | refinement |
| `ChannelHistory` | the runtime with what was sent and received so far | specification + properties |
| `ChannelRounds` | the runtime with who was turned away since a value last passed | specification + properties |
| `Slices` | `api/slice.rs`, `object/slice.rs` and the slice instructions of `cgen/main.go` | specification + properties |
| `Unwinding` | the stack of one goroutine: call, return, defer, panic, recover | specification |
| `UnwindingSafety` | its properties and its inductive invariant | properties |
| `Maps` | `api/map.rs`, `object/map.rs` and the map instructions of `cgen/main.go` | specification + properties |
| `AbstractMap` | maps as associations | abstract specification |
| `Instructions` | the SSA instructions `cgen/main.go` accepts, the runtime function each calls, `requireSwitchFunction` | operators |
| `SsaMachine` | what a program in SSA form means | abstract specification |
| `GeneratedCode` | the C functions `cgen/main.go` emits, under `execute`; the refinement mapping to `SsaMachine` | specification |
| `Arithmetic` | integer operators: Go's, and the emitted C | pure algorithm |
| `CompiledValues` | values, memory, the instructions that compute, the answers of the runtime functions | operators |
| `Strings` | `api/string.rs`, `object/string.rs` and the conversions of `api/slice.rs` on sequences of bytes | pure algorithm |
| `ProgramText`, `TestsControl`, `TestsFunctions`, `TestsInterfaces`, `TestsMemory`, `TestsNumbers`, `TestsStrings`, `TestsSlices` | the tests of `src/xtests` in SSA form, with their results | instances |
| `LoopPrograms` | loops with phi nodes in every position (not code of the repository) | instances |
| `StringPrograms` | questions about strings, with Go's answers (not code of the repository) | instances |
| `MCGenerated` | all of these as one program | model checking |
| `MCChannels`, `MCRounds`, `MCHistory`, `MCSlices`, `MCUnwinding`, `MCMaps` | the instances TLC runs | model checking |
| `SchedulerProofs`, `ChannelRuntimeProofs`, `ChannelHistoryProofs`, `SlicesProofs`, `UnwindingProofs`, `MapsProofs`, `GeneratedCodeProofs`, `ArithmeticProofs` | theorems | proofs |

### From the code to the model

*Scheduler.* `runQueue` is `GlobalContext.run_queue` with each context replaced
by its id; `running` is the context `execute` holds. `Dispatch` is an iteration
of the `while let` up to the first invocation (pop, assertion, `resume`);
`Requeue` the rest of it, after `execute` has returned. `process` says how the
process ended, if it has. A context is its id because its stack matters to the
scheduler only through what the thread does next, and that is left open.

*ChannelObject.* A channel is a record; `capacity` picks the enum variant. Each
method is an operator that returns the new channel and the outcome (`done` for
`Some(())`, `status` for `ReceiveStatus`). The arms of the matches are the arms
of the CASEs, guards included.

*ChannelRuntime.* `frame[t]` is the runtime frame on top of `t`'s stack,
`UserCode` when `t` is in compiled code. `Call` is the push generated code does;
each handler is one action, because nothing can run between its lines. It ends
in `Finish` (pop, store the result) or `Block` (suspend, stay). User code is
arbitrary: it issues any call of `UserCalls` that names a channel it has made,
in any order, and ends when it likes. It is not assumed to respect Go's rules
for closed channels; the properties that need them (`LegalSpec`) say so.
In the code, the scheduler and the handlers touch the shared context only
under a mutex; with one OS thread it is never contended and is not modelled.

`turnedAway` of `ChannelRounds` is a history variable: which kinds of operation have
blocked on a channel since a value, or the news of one, last got through it.

`SelectPoll` replaces the second loop by a set of polls. That receiving twice on
one channel changes nothing the second time is `PollTwice`, proved in
`ChannelRuntimeProofs`.

*Slices.* `heap` is the sequence of the arrays allocated so far, `slice` the
value of each slice variable: array, offset, size and capacity stand for the
pointer, size and capacity of `SliceObject`. Lengths are in elements, since
every byte length in the code is a multiple of the element size. `AsBytes` is
`as_bytes`, which covers the *capacity*; `ReallocateSlice` is
`reallocate_slice` with both its branches and `duplicate_extend`'s assertion.
Where the code copies plain data between overlapping ranges with
`clone_from_slice` (a `memcpy`), the outcome is chosen from `MemcpyOutcomes`.
The generated code tests no bounds, so the model's program keeps to Go's.

*Unwinding.* Goroutines share neither stack nor panic flag, so one is modelled.
A frame is a record at its place in `stack`; `Prev` is `prev_stack_pointer`, and
place 0 is the memory below the first frame, where `main` and `spawn` reserve
the words of the result. `next` is `current_func`. `Popped` is `pop_frame` and
`resume` the `resume_func` it returns. User code is arbitrary again: any
sequence of calls, `defer`, `panic` and `recover` from anywhere, and a return,
which in a function with defer statements comes after `RunDefers`. `dead` is a
history variable: a panic has passed through this activation.

*Maps.* `table[m]` is the sequence of the entries of the `HashMap` in the order
its iterator yields them. The library is external: `Inserted` is followed by an
arbitrary `Reordered`, since a full table is rehashed, which `insert` does
before it has looked for the key; `Without` keeps the order, since `remove`
leaves the other buckets alone. `Positions` compares hashes, then calls the
generated equality, as the library does through `Key`. `range[r]` is the
`IterObject` of generated code (`map`, `count`), `over` says that the loop was
told "not found", and `answer` is what the last call stored through the pointers
of its frame. `met` and `changed` are history: which ranges have met an entry,
and what happened to the map since a range began. Two things the models contain
without a document to hold them against: reading, setting and ranging over the
nil map reach `unimplemented!()`, and reading a missing key without the comma-ok
form fails an assertion (`MapGet`); a range skips an entry when the body deletes
one it has already met.

*Generated code.* A function becomes one C function for its entry (`kind = "f"`),
one for each basic block (`"b"`) and one for what follows each instruction that
leaves for another function (`"i"`); a bound method adds its wrapper and the
wrapper's continuation. `pc` is the C function that runs and its next
instruction (0: not entered yet), `prev` is `ctx->prev_func`, `stack` the frames:
parameters, free variables, `resume_func`, result pointer (`slot`: a register of a
frame) and registers. `runtime` is the frame of a runtime function, which is gone
before anything else runs. `from` and `entry` of a frame are history: the block
it came from and its registers at that moment. Nothing leaves a piece in the
middle: an instruction that was to leave but went on (`Passed`) is the end of a
C function without a return, and the model stops there, which the run reports as
a deadlock. `ProgramAssumption` is what the package `ssa` guarantees of a block (one
jump, return or panic, at its end, and phi nodes first), and one thing it does not
guarantee: no phi node reads what an earlier one of its block defines (see Findings).
Handlers of the runtime are single steps because nothing runs between
their lines; what they answer is in `CompiledValues`, where a struct, an array and
a tuple are sequences and a pointer is a variable or a place in one.

`SsaMachine` is the meaning of the same program: one step per instruction, phi
nodes that all read the registers as they were when the block was entered, and
calls of bound methods without wrappers that linger. `Implements` maps the pieces back
to places in blocks (`Place`), and says that each step of compiled code is a step of
that machine, or none.

The programs in the `Tests...` modules are the SSA form of the tests, derived by hand
from the Go source the way `golang.org/x/tools/go/ssa` builds it: local variables
whose address is taken are `Alloc`s, the others are registers and phi nodes. Each
test is an entry of the run and must return what its function in `src/xtests` is
to return. `ProgramText` has the shapes they share.

*Strings.* A string is the sequence of its bytes before the NUL, which `CString`
cuts off and `ByteAt` still finds. Each function of `api/string.rs` is an operator
that answers with its result, or with `Trap` where an assertion, an `unwrap` or
the bounds check of a slice ends the process; `CompiledValues` calls them from the
instructions that call the runtime. The iterator of a range is a count of
characters (`IterObject`). Characters and UTF-8 are Rust's (external), written out
because the hazards are about their bytes.

Each question of `StringPrograms` is a small function that cuts, joins, indexes,
converts or ranges over a string and returns what it got; with it come Go's answer,
written from the language and not from the runtime, and `same`: whether the
runtime gives that answer. `TestsReturn` demands it exactly where `same` holds,
so the run fixes both where strings behave as in Go and where they do not:

* the index of a range counts characters, and is right only while those before it
  are ASCII; a range over a string cut inside a character aborts (Go yields U+FFFD);
* `[]rune(s)` has as many elements as `s` has bytes, zeros at the end
  (`string([]rune(s))` is still `s`: the first of them ends it);
* `string(b)` aborts when the slice has capacity to spare;
* `string(r)` aborts on a number that is no character, and is empty for NUL;
* `s[len(s)]` reads the NUL, and a lower bound of -1 counts as left out.

## 3. Runs

Every passing run explores the whole state space of its instance.

| run | instance | question |
|---|---|---|
| `scheduler` | 4 goroutines that suspend, spawn, exit, panic; fair | is a goroutine ever lost, queued twice, overtaken? does the loop fall through? does every live goroutine run again? |
| `rounds` | 3 goroutines, one channel with 0 or 2 slots, 2 values, plain calls and 2 selects that block, illegal programs included | can a send and a receive keep missing each other? ring arithmetic, refinement of the FIFO queue; do the handlers use the scheduler as specified? |
| `select` | 2 goroutines, an unbuffered and a one-slot channel, plain calls and 8 selects | the inductive invariant (which has the sender's registration in the cell), `select`'s asserts and dropped values; is whoever was accepted told so on its next turn? |
| `handoff` | 4 goroutines, plain sends and receives (no select), fair | does a waiting pair meet? is an accepted party told? |
| `history_plain` | 3 goroutines, 0 or 2 slots, 5 numbered values, no select, legal programs | exactly once, in order; "closed" is not reported early; does the receiver's registration outlive its receive? refinement of the synchronous rendezvous by the unbuffered channel |
| `self_rendezvous` | 2 goroutines, the select of `xtests/channel.go` Test13 | expected to fail: see Findings |
| `slices` | 2 variables, 2 arrays of up to 4 elements, 2 element values | the inductive invariant (bounds), what append keeps and brings, who sees growth, overlapping copies |
| `append_values`, `append_length` | the same | expected to fail: see Findings |
| `maps` | one map and nil, one range, 3 entries, floating point keys 0, -0, 0.5 and NaN, 2 values | the inductive invariant: one entry per key, ranges in their place; every answer that of an association; what does a range meet, and how often? |
| `generated` | 217 tests of `src/xtests`, 108 loops, 1988 integer expressions, 315 questions about strings; fair | does every test return its result? where do strings answer as in Go? does compiled code do what its SSA form says? the inductive invariant; does each C expression it reaches compute what Go says, and which end the process? |
| `unwinding` | main or a goroutine spawned with any layout of result, 2 calls, 3 deferred calls, 2 panics; fair | the inductive invariant; are deferred calls run once and newest first? do dead functions stay dead, and live ones on the stack? does every step use up something? is every panic settled? when does one look below the first frame? |

**Bounds.** `MaxThreads` caps the goroutines created in one behaviour. Three is
what the cell needs: it names at most one party, so a hand-off involves two
goroutines and a third that interferes; `handoff` uses four, so that two pairs
compete. `select` uses two goroutines because each already plays both roles in
it; the theorems cover the rest. Two slots let the ring wrap with any mixture of
full, half and empty; five values wrap it twice. The calls a program may issue
are not bounded: behaviours are infinite, except in the history runs where each
value is sent once.

`MaxArrays = 2` gives an append an array to leave and one to move to, with two
variables that share the first; `MaxMade = 2` and `MaxLength = 4` let append
fit, grow, double and abort, and overlap by one element.

`MaxEntries = 3` puts an entry before, at and behind the position of a range
while others come and go, and lets the table be reordered in every way. The four
keys are equal with different bits (0, -0), collide (0, 0.5), and differ from
themselves (NaN). Maps, and ranges over one map, do not affect each other except
through the table; the theorems hold for any number of them.

`MaxCalls = 2`, `MaxDefers = 3` and `MaxPanics = 2` put a panic inside a
deferred call inside a panic, with deferred calls left in two functions below,
and let the first frame, a caller and a callee all defer. `Layouts` has every kind
of word that `panic_raise_body` may meet where it looks for the deferred calls of a
frame below the first one, which is not there. A goroutine without a result never
gets there; one word of result without a closure, and four words, leave a null word. A closure
with a word of result, and two or three words of result, leave something that is
taken for an entry (`outcome = "undefined"`; the model stops there). The code does misread
in these. `OnlyTheLostLookBelow` says when: nobody has recovered the panic, every
deferred call has been run, and no function is left to go on; `EveryPanicSettles`
allows no other way for a panic to end but recovery and the end of the process.

The programs of `generated` are deterministic and finite. Loops cover a phi node at
each position of an edge: behind a plain block, behind a block cut by a call or by
the runtime, in a block that is its own predecessor, each with two rounds.
Widths are scaled down (8-bit types to 2 bits, C's `int` to 8, 64-bit types to
16): what matters to promotions is which types are narrower than `int`, and to
shifts that counts reach below, at and above the width. Operands are the ends of
each type, the values next to them, and -1, 0, 1 and 2. The strings
have up to two characters of one to three bytes and are cut at every byte; numbers are
 converted at both sides of every limit of `char`. Left out: programs that
panic or defer (`Unwinding` has them), numeric Test18 (floating point), and
programs in which a phi node reads an earlier phi of its block (see Findings).

**Fairness.** `FairTurns` (with `SchedulerFairness`) and `FairRuntime` assume
weak fairness of the loop (it never idles: `while let`), of a handler that was
entered (it is straight-line code), and of user code, which is taken to reach
its next runtime call or its end. The last one is an assumption on programs, not
on the runtime: nothing preempts a goroutine that computes for ever, and then
nobody else runs. `FairUnwinding` assumes the same of one goroutine: the loop of
`execute` goes on to the next function. That user code makes finitely many
calls, registrations and panics is the bound of the run. `FairSpec` of
`GeneratedCode` is the same assumption again: `execute` invokes the next function.

**Deadlock.** It is checked in every run: after the process, or the goroutine,
has ended the models stutter explicitly.

## 4. Proofs

All theorems hold for every value of the constants that satisfies the named
assumptions: at least one goroutine (`MaxThreadsAssumption`), constants of
the expected kinds (`ProgramAssumption`; `ConstantsAssumption`: the frames of `UserCalls` are runtime
frames, `NoData` and `NotMade` are neither values nor channels;
`SliceConstants`, `UnwindingConstants`, `MapConstants`: bounds are natural
numbers, literals sequences of elements; `KeyType`: equality of keys is
symmetric and transitive and equal keys have equal hashes).

*Scheduler.* `Placement` is inductive once it is joined with typing and
`MainAlive`: the main goroutine has terminated only if the process has ended,
which is why the queue can never be found empty. `NeverUnreachable` follows.
`Overtaken` is inductive on top of it, and `NoSecondTurn` is its consequence for
a dispatch.

*Channel object.* `CanCompleteSendAgrees` and `CanCompleteReceiveAgrees`: the
tests agree with the operations in every well-formed state, for every id.
`PollTwice` justifies the set of polls.

*Channel runtime.* The inductive invariant `RuntimeInv` (also an invariant of
the run `select`) has six parts: the scheduler's invariant; types; channels are
well formed and hold sent values only (`ChannelsOK`); a frame names channels
that exist (`FramesOK`), because channels are never destroyed; the frame of
`make` is executed in the turn that pushed it (`NewOK`), so no two threads make
one channel; and the sender that a cell names is still in its send with that
value (`SenderRegistrationLive`). The last one needs the others and is the one
that carries the protocol: a thread in `select` or `receive` can never be named
as a sender, because only `gox5_channel_send` offers and it stays until it is
acknowledged. From the invariant: `RingInBounds`, `AbortOnlyOnDoubleClose`
(with the two agreement theorems), `PollDropsNothing`, `EveryChannelIsFifo`
(step by step), and `RuntimeImplementsScheduler`, which is how the scheduler's
theorems apply to the runtime.

*Hand-offs.* `AcceptedHandoffsAreTold`: when one party of a rendezvous has been accepted
and does not know it yet, whatever the others send, receive, poll or close, the cell
is left only by the step in which that party returns, with the very value; and its
operation, issued again, does not block any more. Each way to touch a cell in one of the
two accepted states is shown to keep it, or to be its owner's (`PollKeepsHandoff` for
the polls of a select). `AtMostOneSideWaits` (`OneSideWaits`) is over
`ChannelRounds`: a send and a receive do not both block on a channel with nothing
passing in between, except while an acceptance waits to be told. It says that each
side leaves something for the other to find. `RoundOK` is what is inductive: after a
send was turned away the ring is full, or the cell holds an offer; after a receive, the
ring is empty, or the cell holds a receiver; so it cannot have been both. Both theorems
hold for any program, with selects, closes and illegal calls. They are the part of
`HandoffCompletes` and `PairMeets` that holds step by step, as `NoSecondTurn` is of
`EventuallyRuns`: what fairness adds is only that turns come.

*Programs without select.* Two runs leave select out because the properties they
check fail with it (see Findings), and the theorems say so: `NoSelect` is a
condition on the constant `UserCalls`. `ReceiversLive`: without select, the
receiver that an open channel names is still in its receive, since nobody but
`gox5_channel_receive` registers one and it stays until it is served or the channel is
closed. `NobodyMeetsItself`: then no goroutine completes an operation against its own
registration, which is the property that the run `self_rendezvous` shows to fail with
a select.

*Legal programs.* `LegalSpec` restricts the calls to those that Go's rules for closed
channels allow. That a thread may rely on what was true when it made its call
is what `LegalInv` says: a close runs in the turn in which it was called (`CloseOK`),
and a closed channel has no sender but the one whose value was already taken
(`ClosedQuiet`, `TakenBeforeClose`); a receiver that has been served is still in its
receive, also when the channel was closed meanwhile (`ServedLive`). With it,
`LegalProgramsNeverAbort`: no assertion of the channels or the scheduler fails.

*Synchronous channels.* `UnbufferedChannelsAreSynchronous` is a step-by-step
refinement of `Handoff`, for a program with one channel (`OnlyChannel`: results do
not say which channel they came from) and any number of goroutines. The two
parties of a rendezvous return on different turns; the refinement mapping
(`CallOf`) has them meet in the step that fills the cell, so the return of the
second is a stutter, and so is the yield, the registration and each retry. What has to be
shown is that the party named in the cell still is in its operation with that
value when the other arrives, which is `LegalInv`. `SendCell` and `ReceiveCell` list
what the operations do to the cell; `SyncStutter`, `SyncMeet`, `SyncTold`,
`SyncBegin` and `SyncClosing` are the steps of `Handoff`, with what each asks for.
The proof corrected the mapping: the arms of `CallOf` overlapped for a buffered
channel, and which of them a CASE takes is left open by TLA+ although TLC
takes the first.

*History.* `ValuesAreConserved`: `Conservation` is a balance, kept by every step,
between what is sent, what a channel holds or owes, and what is received. `Move` is
the way a step may change the two sides of the balance; each arm of send and receive is
one, and a handler that logs nothing moves nothing. It holds for any program, with
selects and illegal calls. `NothingReceivedTwice` adds what makes values
distinguishable (`FreshInv`): a value is offered by one call (`PendingApart`), and a
call that has not returned has not been logged (`PendingUnsent`), so a value that
channels hold for a select that chose another entry is received from one of
them only. `ClosedComesLast` combines the balance with `LegalInv`: at the return
that reports "closed" the ring is empty, and an offer in the cell would contradict
`ClosedQuiet`.

*Slices.* `SlicesInBounds` is inductive with the types: `MayExtend`'s assertion
is what keeps it in the append that fits, and lengths of arrays never change.
What append and copy do to elements follows from it for each step, cell by cell:
`AppendsKeepTheirOperand` and `AppendsBringTheirElements` for the array an append
leaves or moves to, `CopiesAreSimultaneous` for overlapping windows, and
`GrowthStaysPrivate` because a step writes an array or allocates one, never both.
They state what the findings about append leave true: the cells are right, the size
is not.

*Unwinding.* What the frames below a frame must be like depends on who returns
to them and how, so the invariant is stated from the frame's side. `StackOK`
gives every frame `FrameOK`: *if* the frame may still return (`Open`: no panic
has left the one below, or its unwinding is what it returns to), the one below
is `Ready` for the resume function. A panic falsifies `Open` for one frame at a
time, which is why `dead` does not invalidate the promises made further down.
`NextOK` says the same of the top frame and `next`, with one more case,
`Leaving`: a panic passes through the frame of `defer_execute`, where there is
nothing to run. `ReturningOK` and `Sorted` (deferred calls wait in the order of
their registration, across frames) give `DefersConserved` and `NewestFirst`;
`PanicCovered` keeps a first function from returning during a panic and so gives
`EndsSettled`. The proof has a lemma per action and rests on what a step keeps:
`FrameKept` for frames that stay, `FunctionReturns` for return and recovery,
`NewestTaken` for the start of a deferred call.

`StackInv` adds two parts to that. `RaisedDead`: where `panic_raise_body` runs, or will
run when the frame above returns, the panic has left the function it looks into.
`MainAlone`: when `main.main` is about to be entered the stack is empty.
`Leaving` and `RaisedDead` together give `OnlyLostPanicsLookBelow` (`OnlyTheLostLookBelow`),
whatever results goroutines are started with: a panic that looks below the first frame
has passed through it, so that nothing waits there.
With them, `LiveFunctionsStay` (`NoLiveFunctionDropped`) says what a recovery
must not do: it pops frames without looking at them (`panic.rs:48`), and
it never pops one of a function that is to go on. `GoroutinesAdvance`
(`EveryStepAdvances`) is the argument that unwinding comes
to an end, without fairness: `StepsLeft` is a natural number and every step lowers it. It adds up
what the bounds still allow (calls, panics, registrations) and the deferred calls
that wait (`Owed`), the frames on the stack, with those of functions that have
still to return counting three times (`Held`), and how far the goroutine is (`Stage`).
The weights make each of them worth more than what using it up adds to the others: a
deferred call counts 4 while it waits, and the frame its start pushes counts 3. A recovery
within a panic within a deferred call uses up something like any other step. The
counting rests on the library's theorems about cardinality.

*Maps.* `OneEntryPerKey` and `RangeKeepsItsPlace` are inductive with the types
and `EmptyUntilMade` (making a map disturbs no range, as it was empty). The
lemmas about sequences of entries carry the proof: a reordering is a bijection,
an insertion looks before it appends, a removal moves entries to smaller
positions only. `ContentIs` says that a lookup finds at most one entry, by
symmetry and transitivity of `Equal`; with it `InsertedContent` and
`RemovedContent` give the association after each change, and
`MapsImplementAssociations` is a step-by-step refinement. The run checks
`KeyType` for the floating point types; `MapsProofs` needs nothing else of a key
type, so what remains to be seen for another type is that its generated hash
function respects its generated equality.

*Generated code.* `CompiledCodeImplements`: for every program that satisfies
`ProgramAssumption`, each step of the C functions maps to one step of `SsaMachine`
or to none, in every run that satisfies `[]ComputesAsMeant`: each C expression it
reaches, of the operands it is reached with, computes what Go says or ends the
process. That is a condition on the program and not on C, which disagrees with Go
elsewhere: `equal_Interface` compares values of different dynamic types
(`main.go:2309-2331`). The run checks it of its own programs at every step
(`GoOrOverflow`), and `ArithmeticProofs` proves it of all integer expressions. What the
functions of the runtime answer is the same operator on both sides, and so is what
no operator computes (`Plain`, the bounds of slices included): `Implements` does not see
where these differ from Go. `GeneratedInv` (also an invariant of
the run) is what the step-by-step argument needs and no single piece of C shows.
A frame goes back to the piece behind its call and stores its result in the register
of that call, or to its wrapper (`StackOK`); the frame of a runtime
function still matches the instruction that made it (`RuntimeOK`); and while a block
executes its phi nodes, `prev_func` is still the last piece of the block it came
from and no register has changed except those of the phi nodes before
(`PhisOK`), so that assigning them one after the other is assigning them together.
The last part is where `ProgramAssumption` is used. The refinement then has a lemma
per action: pieces entered, parameters copied and wrappers removed are stutters.

*Integers.* `IntegersAreGo` and `NegationIsGo` close the gap that the scaled widths of the
run leave: for types of any width, what C computes after its promotions and what the
emitted shifts compute is what Go says, or the process ends. `TrapsOnOverflow` says
where it ends although Go goes on: in an arithmetic operation of a signed type whose
result (for a remainder, the quotient) has no place in C's type, or in a product of unsigned operands
narrower than `int`. The argument is that two numbers that differ by a multiple of
2^w are cut to the same value of width w (`CutCongruent`), also through a wider
type (`CutTwice`). `WidthsOK` is what it needs of the widths: each type has two bits at
least, and one that is narrower than `int` has at most half its bits. With 32 and 16
that is just enough for the left shift: `Unsigned(x, t) * 2^y` stays below 2^31.
`DisjointBitsAdd(Nat)` is what it needs of C's `|`, whose definition in
`Bitwise` is recursive and so out of the prover's reach. The run checks both (`WidthsAssumption`,
`BitsAssumption`), the second up to 8 bits. The prover knows nothing of powers
either; `PowerOfSum` is proved by counting: 2^n is the number of subsets of
`1 .. n`, and a subset of `1 .. m + n` is a pair of subsets.

Proved without a run of their own: `Overtaken` (`scheduler` checks the action property that
follows from it); `RingInBounds`, `SenderRegistrationLive` and `RuntimeTypeOK`,
`SlicesInBounds`, `OneEntryPerKey`, `RangeKeepsItsPlace` and `EndsSettled`, which are parts of the
inductive invariants the runs check (`RuntimeInv`, `SlicesInv`, `MapsInv`,
`StackInv`) or follow from them. `EveryChannelIsFifo` and `OneSideWaits` are
checked on one channel; the theorems have any number of them.

Only model-checked: everything about liveness (`EventuallyRuns`, `PairMeets`,
`HandoffCompletes`, `EveryPanicSettles`, `TestsReturn`), which the prover does not do (the
theorems on turns, hand-offs and `StepsLeft` are the part of it that holds step by step);
and `GoOrOverflow` as it stands, which is about the expressions of its run, in a
module that reaches `Bitwise`; `IntegersAreGo`, `NegationIsGo` and `TrapsOnOverflow` are its general
form for integers. Every other property
of a passing run is stated by a theorem.

## 5. Findings

*`self_rendezvous`.* A goroutine blocked in
`select { case ch0 <- 42: case <-ch0: case <-ch1: }` registers itself as a
receiver of `ch0` in its first turn (`api/channel.rs:152`); in its second turn
its own send case completes against that registration
(`object/channel.rs:138`). `xtests/channel.go:219` expects that case never to be
chosen, and passes only because `ch1` is closed before the first turn. For the
same reason `ReceiverRegistrationLive` is stated of programs without select.

*`append_values`.* An append that fits extends the operand by the operand's own
size instead of what was appended (`api/slice.rs:81`): appending to an empty
slice with room leaves it empty, and appending one element to a slice of two
gives four, or aborts in `object/slice.rs:20`. The tests
(`xtests/slice.go:318-320`) append to slices of one element, where both agree.

*`append_length`.* `append(x, y...)` takes its second operand to its capacity
and not to its size (`api/slice.rs:108`, `object/slice.rs:39`), so the result is
longer than the sum `xtests/slice.go:481-486` expects. `copy` reads its source
the same way (`api/slice.rs:181`).

*Phi nodes.* Without a run of its own, because no document or test of the
repository states what such a program does: the phi nodes of a block are emitted
as assignments one after the other (`cgen/main.go:1019-1025`), so that a loop
around `a, b = b, a` gives both variables the same value. `Implements` fails on
it; none of the repository's tests swaps in a loop.

*Equality of interfaces.* `equal_Interface` (`cgen/main.go:2309-2331`) compares the
values with the equality function of the left operand's type and never the two
types; the model has it (`Equal`).

Two more things the models contain without a document to hold them against: a
`recover` in a deferred call of a callee ends the panic of the outer function,
as there is one flag per goroutine; an unrecovered panic with a value other than
`nil` fails an assertion in `panic_print` and aborts.

## 6. Not modelled

Floating point and complex arithmetic, the order of strings (`<` compares addresses
in the emitted C), printing, `reflect` and `unsafe`, the names of C
types and the order of their declarations are left out: text generation
without state, or data whose widths are out of TLC's reach. Defer and panic are in
`Unwinding` and not in `GeneratedCode`, so results after a recovery are in neither.
The allocator frees nothing and has no protocol. Exhaustion of stacks and memory,
and the C compiler, are out of scope. `PROJECT.json` gives a reason for each part.

## 7. Plan

Done: the scheduler, goroutines and channels; slices; the thread stack with
defer, panic and recover; maps; generated code: pieces, phi nodes, calls,
closures, interfaces, integer operators, strings. What is left, in this order:

1. Type names, and the order in which types that contain each other are declared.
2. Proofs: what the functions of `Strings` answer on ASCII, where the run shows
   them to be Go's; pieces of compiled code with a defer or a panic.
