------------------------------ MODULE Scheduler ------------------------------
(***************************************************************************)
(* The cooperative scheduler of the runtime.  One OS thread runs the loop  *)
(* of src/src/lib.rs `main`: it pops a light weight thread (a goroutine)   *)
(* off the front of the run queue, executes it until it raises its own     *)
(* "suspended" flag, and pushes it to the back unless it has terminated.   *)
(*                                                                         *)
(* What a goroutine does between two suspensions is left open here: it may *)
(* suspend (gox5_lwt_yield, a blocked channel operation), spawn, exit or   *)
(* bring the process down.  ChannelRuntime gives those steps their content.*)
(***************************************************************************)
EXTENDS Integers, Sequences, FiniteSets, Functions

CONSTANT MaxThreads     \* bound: goroutines created in one behaviour

ASSUME MaxThreadsAssumption == MaxThreads \in Nat \ {0}

VARIABLES
  runQueue,     \* GlobalContext.run_queue, ids in queue order
  running,      \* the id `execute` holds, or NoThread between two iterations
  created,      \* GlobalContext.created_light_weight_thread_count
  suspended,    \* ids whose control_flags have bit 0b1
  terminated,   \* ids whose control_flags have bit 0b10
  process       \* "running", "exit0" (main returned), "exit1" (panic), "abort"

schedVars == <<runQueue, running, created, suspended, terminated, process>>

MainId == 0
NoThread == -1
Threads == 0 .. MaxThreads - 1
Created == 0 .. created - 1
Live == Created \ terminated

\* `main` creates thread 0 and pushes it before it enters the loop.
SchedulerInit ==
  /\ runQueue = <<MainId>>
  /\ running = NoThread
  /\ created = 1
  /\ suspended = {}
  /\ terminated = {}
  /\ process = "running"

-----------------------------------------------------------------------------
(* The loop of `main`.                                                     *)

\* Mutant of Dispatch: pop_back.
DispatchFromTheBack ==
  /\ process = "running"
  /\ running = NoThread
  /\ runQueue # <<>>
  /\ running' = runQueue[Len(runQueue)]
  /\ runQueue' = SubSeq(runQueue, 1, Len(runQueue) - 1)
  /\ suspended' = suspended \ {running'}
  /\ UNCHANGED <<created, terminated, process>>

\* `while let Some(ctx) = pop_front`: an empty queue falls through to
\* `unreachable!()`; a terminated head trips the assertion of `execute`.
Dispatch ==
  /\ process = "running"
  /\ running = NoThread
  /\ IF runQueue = <<>> \/ Head(runQueue) \in terminated
     THEN /\ process' = "abort"
          /\ UNCHANGED <<runQueue, running, suspended>>
     ELSE /\ running' = Head(runQueue)
          /\ runQueue' = Tail(runQueue)
          /\ suspended' = suspended \ {Head(runQueue)}
          /\ UNCHANGED process
  /\ UNCHANGED <<created, terminated>>

\* Mutant of Requeue: push_front.
RequeueAtTheFront ==
  /\ process = "running"
  /\ running \in suspended
  /\ runQueue' = IF running \in terminated THEN runQueue
                                           ELSE <<running>> \o runQueue
  /\ running' = NoThread
  /\ UNCHANGED <<created, suspended, terminated, process>>

\* Mutant of Requeue: no test of is_terminated.
RequeueAlways ==
  /\ process = "running"
  /\ running \in suspended
  /\ runQueue' = Append(runQueue, running)
  /\ running' = NoThread
  /\ UNCHANGED <<created, suspended, terminated, process>>

\* `execute` has returned: back of the queue, unless terminated (then dropped).
Requeue ==
  /\ process = "running"
  /\ running \in suspended
  /\ runQueue' = IF running \in terminated THEN runQueue
                                           ELSE Append(runQueue, running)
  /\ running' = NoThread
  /\ UNCHANGED <<created, suspended, terminated, process>>

-----------------------------------------------------------------------------
(* Steps of the running thread.  The loop of `execute` invokes the next    *)
(* function only while the suspended flag is down.                         *)

MayStep(t) ==
  /\ process = "running"
  /\ running = t
  /\ t \notin suspended

\* ctx.suspend()
Suspend(t) ==
  /\ MayStep(t)
  /\ suspended' = suspended \cup {t}
  /\ UNCHANGED <<runQueue, running, created, terminated, process>>

\* Mutant of SpawnThread: the id is issued twice.
SpawnIssuesTwoIds(t) ==
  /\ MayStep(t)
  /\ created < MaxThreads
  /\ created' = created + 2
  /\ runQueue' = Append(runQueue, created)
  /\ suspended' = suspended \cup {t}
  /\ UNCHANGED <<running, terminated, process>>

\* api/lwt.rs `spawn`: the new thread is queued ahead of its spawner, which
\* then suspends itself.
SpawnThread(t) ==
  /\ MayStep(t)
  /\ created < MaxThreads
  /\ created' = created + 1
  /\ runQueue' = Append(runQueue, created)
  /\ suspended' = suspended \cup {t}
  /\ UNCHANGED <<running, terminated, process>>

\* Mutant of Exit: no test of is_main.
ExitLeavesProcess(t) ==
  /\ MayStep(t)
  /\ suspended' = suspended \cup {t}
  /\ terminated' = terminated \cup {t}
  /\ UNCHANGED <<runQueue, running, created, process>>

\* lib.rs `terminate`: reached when the goroutine's bottom frame is popped.
Exit(t) ==
  /\ MayStep(t)
  /\ suspended' = suspended \cup {t}
  /\ terminated' = terminated \cup {t}
  /\ process' = IF t = MainId THEN "exit0" ELSE process
  /\ UNCHANGED <<runQueue, running, created>>

\* An unrecovered panic (process::exit(1)) or a failed assertion of the runtime.
Halt(t, code) ==
  /\ MayStep(t)
  /\ process' = code
  /\ UNCHANGED <<runQueue, running, created, suspended, terminated>>

\* The process has ended; nothing happens any more.
Ended ==
  /\ process # "running"
  /\ UNCHANGED schedVars

ThreadStep(t) ==
  \/ Suspend(t)
  \/ SpawnThread(t)
  \/ Exit(t)
  \/ \E code \in {"exit1", "abort"} : Halt(t, code)

SchedulerNext ==
  \/ Dispatch
  \/ Requeue
  \/ \E t \in Threads : ThreadStep(t)
  \/ Ended

SchedulerSpec == SchedulerInit /\ [][SchedulerNext]_schedVars

\* The loop never idles, and a goroutine is assumed to reach, again and
\* again, a point where it gives the processor back: nothing preempts it.
SchedulerFairness ==
  /\ WF_schedVars(Dispatch)
  /\ WF_schedVars(Requeue)
  /\ \A t \in Threads : WF_schedVars(ThreadStep(t))

-----------------------------------------------------------------------------
(* Properties.                                                             *)

\* Every scheduler variable has its type.
SchedulerTypeOK ==
  /\ runQueue \in Seq(Threads)
  /\ running \in Threads \cup {NoThread}
  /\ created \in 1 .. MaxThreads
  /\ suspended \subseteq Threads
  /\ terminated \subseteq Threads
  /\ process \in {"running", "exit0", "exit1", "abort"}

Queued == Range(runQueue)

\* A context is moved out of the queue, run, and moved back (lib.rs:261-270):
\* each live goroutine is in exactly one of the two places, exactly once, and
\* no goroutine that has terminated is ever queued again.
Placement ==
  /\ IsInjective(runQueue)
  /\ running \notin Queued
  /\ Live \subseteq Queued \cup {running}
  /\ Queued \subseteq Live
  /\ running = NoThread \/ running \in Created

\* The loop of `main` neither falls through to `unreachable!()` (lib.rs:272)
\* nor pops a terminated context into the assertion of `execute` (lib.rs:231).
NeverUnreachable ==
  process = "running" /\ running = NoThread =>
    runQueue # <<>> /\ Head(runQueue) \notin terminated

\* The main goroutine ends only together with the process (lib.rs:141), and
\* only goroutines that were created terminate: with Placement, the inductive
\* invariant of the scheduler.
MainAlive ==
  /\ terminated \subseteq Created
  /\ process = "running" => MainId \notin terminated

SchedulerInv == SchedulerTypeOK /\ Placement /\ MainAlive

\* No goroutine is lost: one that is still alive runs again, unless the
\* process ends first.
EventuallyRuns ==
  \A t \in Threads : t \in Live ~> (running = t \/ process # "running")
=============================================================================
