--------------------------- MODULE SchedulerTurns ----------------------------
(***************************************************************************)
(* The scheduler with a history of turns, to say how long a goroutine can  *)
(* be kept waiting.  passed[t] is the set of goroutines that got a turn    *)
(* since t last gave the processor back (or was created).                  *)
(***************************************************************************)
EXTENDS Scheduler

VARIABLE passed

turnVars == <<schedVars, passed>>

\* Which threads enter the queue in this step, and which one leaves it.
Entering == {t \in Threads : running = t /\ running' = NoThread}
              \cup {t \in Threads : t = created /\ created' = created + 1}
Starting == {t \in Threads : running = NoThread /\ running' = t}

TurnsInit == SchedulerInit /\ passed = [t \in Threads |-> {}]

TurnsNext ==
  /\ SchedulerNext
  /\ passed' = [t \in Threads |->
                  IF t \in Entering THEN {} ELSE passed[t] \cup Starting]

TurnsSpec == TurnsInit /\ [][TurnsNext]_turnVars

\* passed only records: the fairness is the scheduler's.
FairTurns == TurnsSpec /\ SchedulerFairness

TurnsTypeOK == SchedulerTypeOK /\ passed \in [Threads -> SUBSET Threads]

\* a is ahead of b in the run queue.
Ahead(a, b) ==
  \E i, j \in 1 .. Len(runQueue) :
    i < j /\ runQueue[i] = a /\ runQueue[j] = b

\* Round robin: while a goroutine waits in the queue, one that already had a
\* turn in the meantime is behind it ...
Overtaken ==
  \A t \in Queued : \A u \in passed[t] :
    u # t /\ (u \in Queued => Ahead(t, u))

\* ... so none gets a second turn before it: spawning puts the child in front
\* of its parent but never in front of somebody who was already waiting
\* (push_back in api/lwt.rs:33 and lib.rs:267, pop_front in lib.rs:262).
NoSecondTurn ==
  [][\A t \in Queued : \A u \in passed[t] :
       ~(running = NoThread /\ running' = u)]_turnVars
=============================================================================
