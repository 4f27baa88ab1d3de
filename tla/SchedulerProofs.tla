--------------------------- MODULE SchedulerProofs ----------------------------
(***************************************************************************)
(* Theorems about the scheduler, for any number of goroutines: each is in   *)
(* one place, the loop never falls through, and turns go round.  (The      *)
(* history of turns is used in the last part only.)                        *)
(***************************************************************************)
EXTENDS SchedulerTurns, SequenceTheorems, TLAPS

\* Pushing a new element at the back of a queue (push_back).
LEMMA AppendToQueue ==
  ASSUME NEW S, NEW q \in Seq(S), NEW e \in S
  PROVE  /\ Append(q, e) \in Seq(S)
         /\ Range(Append(q, e)) = Range(q) \cup {e}
         /\ IsInjective(q) /\ e \notin Range(q) => IsInjective(Append(q, e))
<1> DEFINE r == Append(q, e)
<1>1. /\ r \in Seq(S)
      /\ Len(r) = Len(q) + 1
      /\ DOMAIN r = 1 .. Len(q) + 1
      /\ DOMAIN q = 1 .. Len(q)
      /\ Len(q) \in Nat
      /\ \A i \in 1 .. Len(q) : r[i] = q[i]
      /\ r[Len(q) + 1] = e
  OBVIOUS
<1>2. Range(r) = Range(q) \cup {e}
  <2>1. ASSUME NEW x \in Range(r) PROVE x \in Range(q) \cup {e}
    BY <1>1 DEF Range
  <2>2. ASSUME NEW x \in Range(q) PROVE x \in Range(r)
    BY <1>1 DEF Range
  <2>3. e \in Range(r)
    BY <1>1 DEF Range
  <2> QED BY <2>1, <2>2, <2>3
<1>3. ASSUME IsInjective(q), e \notin Range(q) PROVE IsInjective(r)
  BY <1>1, <1>3 DEF IsInjective, Range
<1> QED BY <1>1, <1>2, <1>3

\* Taking the front element of a queue (pop_front).
LEMMA TailOfQueue ==
  ASSUME NEW S, NEW q \in Seq(S), q # <<>>
  PROVE  /\ Head(q) \in S
         /\ Tail(q) \in Seq(S)
         /\ Range(q) = Range(Tail(q)) \cup {Head(q)}
         /\ IsInjective(q) => IsInjective(Tail(q)) /\ Head(q) \notin Range(Tail(q))
<1> DEFINE r == Tail(q)
<1>1. /\ r \in Seq(S)
      /\ Head(q) \in S
      /\ Head(q) = q[1]
      /\ Len(q) \in Nat \ {0}
      /\ DOMAIN q = 1 .. Len(q)
      /\ DOMAIN r = 1 .. Len(q) - 1
      /\ \A i \in 1 .. Len(q) - 1 : r[i] = q[i + 1]
  BY HeadTailProperties, EmptySeq
<1>2. Range(q) = Range(r) \cup {Head(q)}
  <2>1. ASSUME NEW i \in DOMAIN q PROVE q[i] \in Range(r) \cup {Head(q)}
    <3>1. CASE i = 1
      BY <1>1, <3>1
    <3>2. CASE i # 1
      <4>1. i - 1 \in DOMAIN r /\ r[i - 1] = q[i]
        BY <1>1, <3>2
      <4> QED BY <4>1 DEF Range
    <3> QED BY <3>1, <3>2
  <2>2. ASSUME NEW i \in DOMAIN r PROVE r[i] \in Range(q)
    BY <1>1 DEF Range
  <2>3. Head(q) \in Range(q)
    BY <1>1 DEF Range
  <2> QED BY <2>1, <2>2, <2>3 DEF Range
<1>3. ASSUME IsInjective(q) PROVE IsInjective(r) /\ Head(q) \notin Range(r)
  BY <1>1, <1>3 DEF IsInjective, Range
<1> QED BY <1>1, <1>2, <1>3

-----------------------------------------------------------------------------
(* The inductive invariant.                                                *)

\* The invariant holds when the loop is entered: thread 0 alone, queued.
LEMMA InitInv == SchedulerInit => SchedulerInv
<1> SUFFICES ASSUME SchedulerInit PROVE SchedulerInv
  OBVIOUS
<1> USE MaxThreadsAssumption DEF SchedulerInit
<1>1. runQueue \in Seq(Threads) /\ Range(runQueue) = {0} /\ IsInjective(runQueue)
  BY DEF Threads, MainId, Range, IsInjective
<1>2. SchedulerTypeOK
  BY <1>1 DEF SchedulerTypeOK, Threads, NoThread
<1>3. Created = {0}
  BY DEF Created
<1>4. Placement
  BY <1>1, <1>3 DEF Placement, Queued, Live, NoThread
<1>5. MainAlive
  BY DEF MainAlive
<1> QED BY <1>2, <1>4, <1>5 DEF SchedulerInv

\* Every step of the loop and of a goroutine preserves it.
LEMMA NextInv == SchedulerInv /\ [SchedulerNext]_schedVars => SchedulerInv'
<1> SUFFICES ASSUME SchedulerInv, [SchedulerNext]_schedVars PROVE SchedulerInv'
  OBVIOUS
<1> USE MaxThreadsAssumption
<1>a. /\ SchedulerTypeOK
      /\ Placement
      /\ MainAlive
  BY DEF SchedulerInv
<1>b. NoThread \notin Threads /\ NoThread \notin Created /\ Created \subseteq Threads
  BY <1>a DEF SchedulerTypeOK, Created, NoThread, Threads
<1>1. CASE Dispatch
  <2>1. CASE runQueue = <<>> \/ Head(runQueue) \in terminated
    BY <1>a, <1>1, <2>1 DEF Dispatch, SchedulerInv, SchedulerTypeOK, Placement, MainAlive,
                            Queued, Live, Created
  <2>2. CASE runQueue # <<>> /\ Head(runQueue) \notin terminated
    <3> DEFINE h == Head(runQueue)
    <3>1. /\ runQueue' = Tail(runQueue) /\ running' = h /\ running = NoThread
          /\ suspended' = suspended \ {h}
          /\ UNCHANGED <<created, terminated, process>>
      BY <1>1, <2>2 DEF Dispatch
    <3>2. /\ h \in Threads /\ Tail(runQueue) \in Seq(Threads)
          /\ Queued = Queued' \cup {h} /\ h \notin Queued' /\ IsInjective(runQueue')
      BY <1>a, <2>2, <3>1, TailOfQueue DEF SchedulerTypeOK, Placement, Queued
    <3>3. SchedulerTypeOK'
      BY <1>a, <3>1, <3>2 DEF SchedulerTypeOK
    <3>4. Live' = Live /\ Created' = Created
      BY <3>1 DEF Live, Created
    <3>5. Placement'
      BY <1>a, <1>b, <3>1, <3>2, <3>4 DEF Placement, Live
    <3>6. MainAlive'
      BY <1>a, <3>1, <3>4 DEF MainAlive
    <3> QED BY <3>3, <3>5, <3>6 DEF SchedulerInv
  <2> QED BY <2>1, <2>2
<1>2. CASE Requeue
  <2>1. /\ running' = NoThread
        /\ UNCHANGED <<created, suspended, terminated, process>>
        /\ running \in Threads
    BY <1>2, <1>a, <1>b DEF Requeue, SchedulerTypeOK
  <2>2. Live' = Live /\ Created' = Created
    BY <2>1 DEF Live, Created
  <2>3. MainAlive'
    BY <1>a, <2>1, <2>2 DEF MainAlive
  <2>4. CASE running \in terminated
    <3>1. runQueue' = runQueue /\ Queued' = Queued
      BY <1>2, <2>4 DEF Requeue, Queued
    <3>2. SchedulerTypeOK'
      BY <1>a, <2>1, <3>1 DEF SchedulerTypeOK
    <3>3. Placement'
      BY <1>a, <1>b, <2>1, <2>2, <2>4, <3>1 DEF Placement, Live
    <3> QED BY <2>3, <3>2, <3>3 DEF SchedulerInv
  <2>5. CASE running \notin terminated
    <3>1. runQueue' = Append(runQueue, running)
      BY <1>2, <2>5 DEF Requeue
    <3>2. /\ runQueue' \in Seq(Threads)
          /\ Queued' = Queued \cup {running} /\ IsInjective(runQueue')
      BY <1>a, <2>1, <3>1, AppendToQueue DEF SchedulerTypeOK, Placement, Queued
    <3>3. SchedulerTypeOK'
      BY <1>a, <2>1, <3>2 DEF SchedulerTypeOK
    <3>4. Placement'
      BY <1>a, <1>b, <2>1, <2>2, <2>5, <3>2 DEF Placement, Live
    <3> QED BY <2>3, <3>3, <3>4 DEF SchedulerInv
  <2> QED BY <2>4, <2>5
<1>3. ASSUME NEW t \in Threads, Suspend(t) PROVE SchedulerInv'
  BY <1>3, <1>a DEF Suspend, SchedulerInv, SchedulerTypeOK, Placement, MainAlive, Queued, Live,
                    Created
<1>4. ASSUME NEW t \in Threads, SpawnThread(t) PROVE SchedulerInv'
  <2>1. /\ created' = created + 1 /\ created < MaxThreads
        /\ runQueue' = Append(runQueue, created)
        /\ suspended' = suspended \cup {t}
        /\ UNCHANGED <<running, terminated, process>>
        /\ created \in Threads
    BY <1>4, <1>a DEF SpawnThread, SchedulerTypeOK, Threads
  <2>2. Created' = Created \cup {created} /\ created \notin Created
    BY <1>a, <2>1 DEF Created, SchedulerTypeOK
  <2>3. Live' = Live \cup {created}
    BY <1>a, <2>1, <2>2 DEF Live, MainAlive
  <2>4. created \notin Queued /\ created # running
    BY <1>a, <1>b, <2>1, <2>2 DEF Placement, Live
  <2>5. /\ runQueue' \in Seq(Threads)
        /\ Queued' = Queued \cup {created} /\ IsInjective(runQueue')
    BY <1>a, <2>1, <2>4, AppendToQueue DEF SchedulerTypeOK, Placement, Queued
  <2>6. SchedulerTypeOK'
    BY <1>a, <2>1, <2>5 DEF SchedulerTypeOK
  <2>7. Placement'
    BY <1>a, <2>1, <2>2, <2>3, <2>4, <2>5 DEF Placement
  <2>8. MainAlive'
    BY <1>a, <2>1, <2>2 DEF MainAlive
  <2> QED BY <2>6, <2>7, <2>8 DEF SchedulerInv
<1>5. ASSUME NEW t \in Threads, Exit(t) PROVE SchedulerInv'
  <2>1. /\ running = t /\ terminated' = terminated \cup {t}
        /\ suspended' = suspended \cup {t}
        /\ process' = IF t = MainId THEN "exit0" ELSE process
        /\ UNCHANGED <<runQueue, running, created>>
        /\ t \in Created
    BY <1>5, <1>a, <1>b DEF Exit, MayStep, Placement
  <2>2. Created' = Created /\ Live' = Live \ {t} /\ Queued' = Queued
    BY <2>1 DEF Created, Live, Queued
  <2>3. SchedulerTypeOK'
    BY <1>a, <2>1 DEF SchedulerTypeOK
  <2>4. Placement'
    BY <1>a, <2>1, <2>2 DEF Placement, Live
  <2>5. MainAlive'
    BY <1>a, <2>1, <2>2 DEF MainAlive
  <2> QED BY <2>3, <2>4, <2>5 DEF SchedulerInv
<1>6. ASSUME NEW t \in Threads, NEW code \in {"exit1", "abort"}, Halt(t, code)
      PROVE  SchedulerInv'
  BY <1>6, <1>a DEF Halt, SchedulerInv, SchedulerTypeOK, Placement, MainAlive, Queued, Live,
                    Created
<1>7. CASE UNCHANGED schedVars
  BY <1>7, <1>a DEF schedVars, SchedulerInv, SchedulerTypeOK, Placement, MainAlive, Queued, Live,
                    Created
<1> QED
  BY <1>1, <1>2, <1>3, <1>4, <1>5, <1>6, <1>7 DEF SchedulerNext, ThreadStep, Ended

\* The scheduler's inductive invariant holds in every reachable state.
THEOREM SchedulerInvariant == SchedulerSpec => []SchedulerInv
<1> QED BY InitInv, NextInv, PTL DEF SchedulerSpec

\* Every live goroutine is in exactly one place, exactly once, whatever the
\* goroutines do and however many there are.
THEOREM PlacementHolds == SchedulerSpec => []Placement
<1>1. SchedulerInv => Placement
  BY DEF SchedulerInv
<1> QED BY <1>1, SchedulerInvariant, PTL

\* The queue is never empty and its head has not terminated whenever the loop
\* of `main` looks at it: the main goroutine is alive, hence queued.
LEMMA SchedulerInvNeverUnreachable == SchedulerInv => NeverUnreachable
<1> SUFFICES ASSUME SchedulerInv, process = "running", running = NoThread
             PROVE  runQueue # <<>> /\ Head(runQueue) \notin terminated
  BY DEF NeverUnreachable
<1>1. MainId \in Live
  BY DEF SchedulerInv, SchedulerTypeOK, MainAlive, Live, Created, MainId
<1>2. MainId \in Queued
  BY <1>1 DEF SchedulerInv, Placement, NoThread, MainId
<1>3. runQueue # <<>>
  BY <1>2 DEF Queued, Range
<1>4. Head(runQueue) \in Queued
  BY <1>3, TailOfQueue DEF SchedulerInv, SchedulerTypeOK, Queued
<1> QED BY <1>3, <1>4 DEF SchedulerInv, Placement, Live

\* Neither `unreachable!()` (lib.rs:272) nor the assertion of `execute`
\* (lib.rs:231) is ever reached.
THEOREM NeverUnreachableHolds == SchedulerSpec => []NeverUnreachable
<1> QED BY SchedulerInvNeverUnreachable, SchedulerInvariant, PTL

-----------------------------------------------------------------------------
(* Round robin: nobody gets two turns while somebody else waits.            *)

\* Order in a queue survives a push at the back, and everybody is ahead of
\* the element pushed.
LEMMA AppendOrder ==
  ASSUME runQueue \in Seq(Threads), NEW e \in Threads,
         runQueue' = Append(runQueue, e)
  PROVE  /\ \A a, b : Ahead(a, b) => Ahead(a, b)'
         /\ \A a \in Queued : Ahead(a, e)'
<1>1. /\ Len(runQueue) \in Nat
      /\ Len(runQueue') = Len(runQueue) + 1
      /\ DOMAIN runQueue = 1 .. Len(runQueue)
      /\ \A i \in 1 .. Len(runQueue) : runQueue'[i] = runQueue[i]
      /\ runQueue'[Len(runQueue) + 1] = e
  OBVIOUS
<1>2. ASSUME NEW a, NEW b, Ahead(a, b) PROVE Ahead(a, b)'
  <2>1. PICK i, j \in 1 .. Len(runQueue) : i < j /\ runQueue[i] = a /\ runQueue[j] = b
    BY <1>2 DEF Ahead
  <2>2. i \in 1 .. Len(runQueue') /\ j \in 1 .. Len(runQueue')
    BY <1>1
  <2> QED BY <1>1, <2>1, <2>2 DEF Ahead
<1>3. ASSUME NEW a \in Queued PROVE Ahead(a, e)'
  <2>1. PICK i \in 1 .. Len(runQueue) : runQueue[i] = a
    BY <1>1 DEF Queued, Range
  <2>2. i < Len(runQueue') /\ i \in 1 .. Len(runQueue') /\ Len(runQueue') \in 1 .. Len(runQueue')
    BY <1>1
  <2> QED BY <1>1, <2>1, <2>2 DEF Ahead
<1> QED BY <1>2, <1>3

\* Order survives a pop at the front, among those that stay.
LEMMA TailOrder ==
  ASSUME runQueue \in Seq(Threads), runQueue # <<>>, IsInjective(runQueue),
         runQueue' = Tail(runQueue)
  PROVE  /\ \A a, b : Ahead(a, b) /\ a # Head(runQueue) => Ahead(a, b)'
         /\ \A a : ~Ahead(a, Head(runQueue))
<1>1. /\ Len(runQueue) \in Nat \ {0}
      /\ Len(runQueue') = Len(runQueue) - 1
      /\ DOMAIN runQueue = 1 .. Len(runQueue)
      /\ Head(runQueue) = runQueue[1]
      /\ \A i \in 1 .. Len(runQueue) - 1 : runQueue'[i] = runQueue[i + 1]
  BY HeadTailProperties, EmptySeq
<1>2. ASSUME NEW a, NEW b, Ahead(a, b), a # Head(runQueue) PROVE Ahead(a, b)'
  <2>1. PICK i, j \in 1 .. Len(runQueue) : i < j /\ runQueue[i] = a /\ runQueue[j] = b
    BY <1>2 DEF Ahead
  <2>2. i # 1
    BY <1>1, <1>2, <2>1
  <2>3. /\ i - 1 \in 1 .. Len(runQueue') /\ j - 1 \in 1 .. Len(runQueue') /\ i - 1 < j - 1
        /\ runQueue'[i - 1] = a /\ runQueue'[j - 1] = b
    BY <1>1, <2>1, <2>2
  <2> QED BY <2>3 DEF Ahead
<1>3. ASSUME NEW a, Ahead(a, Head(runQueue)) PROVE FALSE
  <2>1. PICK i, j \in 1 .. Len(runQueue) :
          i < j /\ runQueue[i] = a /\ runQueue[j] = Head(runQueue)
    BY <1>3 DEF Ahead
  <2>2. j # 1 /\ 1 \in DOMAIN runQueue /\ j \in DOMAIN runQueue /\ runQueue[j] = runQueue[1]
    BY <1>1, <2>1
  <2> QED BY <2>2 DEF IsInjective
<1> QED BY <1>2, <1>3

-----------------------------------------------------------------------------

TurnsInv == SchedulerInv /\ passed \in [Threads -> SUBSET Threads] /\ Overtaken

\* Nobody has had a turn when the loop is entered.
LEMMA TurnsInitInv == TurnsInit => TurnsInv
<1> SUFFICES ASSUME TurnsInit PROVE TurnsInv
  OBVIOUS
<1>1. SchedulerInv
  BY InitInv DEF TurnsInit
<1>2. Queued \subseteq Threads
  BY <1>1, LenProperties, ElementOfSeq DEF SchedulerInv, SchedulerTypeOK, Queued, Range
<1> QED BY <1>1, <1>2 DEF TurnsInit, TurnsInv, Overtaken

\* Dispatching, requeueing and spawning keep those overtaken behind.
LEMMA TurnsNextInv == TurnsInv /\ [TurnsNext]_turnVars => TurnsInv'
<1> SUFFICES ASSUME TurnsInv, [TurnsNext]_turnVars PROVE TurnsInv'
  OBVIOUS
<1> USE MaxThreadsAssumption
<1>a. /\ SchedulerInv
      /\ SchedulerTypeOK
      /\ Placement
      /\ passed \in [Threads -> SUBSET Threads]
      /\ Overtaken
  BY DEF TurnsInv, SchedulerInv
<1>b. SchedulerInv'
  BY <1>a, NextInv DEF TurnsNext, turnVars
<1>c. Queued \subseteq Threads /\ Queued' \subseteq Threads
  BY <1>a, <1>b, LenProperties, ElementOfSeq DEF SchedulerInv, SchedulerTypeOK, Queued, Range
<1>d. Created \subseteq Threads /\ NoThread \notin Threads
  BY <1>a DEF SchedulerTypeOK, Created, Threads, NoThread
<1>1. CASE UNCHANGED turnVars
  BY <1>1, <1>a, <1>b DEF turnVars, schedVars, TurnsInv, Overtaken, Queued, Ahead
<1>2. CASE TurnsNext
  <2>1. /\ SchedulerNext
        /\ passed' = [t \in Threads |->
                        IF t \in Entering THEN {} ELSE passed[t] \cup Starting]
    BY <1>2 DEF TurnsNext
  <2>2. passed' \in [Threads -> SUBSET Threads]
    BY <1>a, <2>1 DEF Starting
  <2>3. CASE Dispatch
    <3>1. CASE runQueue = <<>> \/ Head(runQueue) \in terminated
      <4>1. UNCHANGED <<runQueue, running, created>>
        BY <2>3, <3>1 DEF Dispatch
      <4>2. Starting = {} /\ Entering = {}
        BY <1>a, <4>1, <1>d DEF Starting, Entering, SchedulerTypeOK
      <4>3. passed' = passed
        BY <1>a, <2>1, <4>2
      <4> QED BY <1>a, <1>b, <2>2, <4>1, <4>3 DEF TurnsInv, Overtaken, Queued, Ahead
    <3>2. CASE runQueue # <<>> /\ Head(runQueue) \notin terminated
      <4> DEFINE h == Head(runQueue)
      <4>1. /\ runQueue' = Tail(runQueue) /\ running' = h /\ running = NoThread
            /\ created' = created
        BY <2>3, <3>2 DEF Dispatch
      <4>2. /\ h \in Threads
            /\ Queued = Queued' \cup {h} /\ h \notin Queued'
        BY <1>a, <3>2, <4>1, TailOfQueue DEF SchedulerTypeOK, Placement, Queued
      <4>3. Entering = {} /\ Starting = {h}
        BY <1>a, <1>d, <4>1, <4>2 DEF Entering, Starting, SchedulerTypeOK
      <4>4. ASSUME NEW t \in Queued', NEW u \in passed'[t]
            PROVE  u # t /\ (u \in Queued' => Ahead(t, u)')
        <5>1. t \in Threads /\ t \in Queued /\ t # h /\ passed'[t] = passed[t] \cup {h}
          BY <1>c, <2>1, <4>2, <4>3, <4>4
        <5>2. CASE u = h
          BY <4>2, <5>1, <5>2
        <5>3. CASE u \in passed[t]
          <6>1. u # t /\ (u \in Queued => Ahead(t, u))
            BY <1>a, <5>1, <5>3 DEF Overtaken
          <6>2. Ahead(t, u) => Ahead(t, u)'
            BY <1>a, <3>2, <4>1, <5>1, TailOrder DEF SchedulerTypeOK, Placement
          <6> QED BY <4>2, <6>1, <6>2
        <5> QED BY <4>4, <5>1, <5>2, <5>3
      <4> QED BY <1>b, <2>2, <4>4 DEF TurnsInv, Overtaken
    <3> QED BY <3>1, <3>2
  <2>4. ASSUME NEW e \in Threads, runQueue' = Append(runQueue, e), e \notin Queued,
               e \in Entering, Starting = {}
        PROVE  TurnsInv'
    <3>1. Queued' = Queued \cup {e}
      BY <1>a, <2>4, AppendToQueue DEF SchedulerTypeOK, Queued
    <3>2. /\ \A a, b : Ahead(a, b) => Ahead(a, b)'
          /\ \A a \in Queued : Ahead(a, e)'
      BY <1>a, <2>4, AppendOrder DEF SchedulerTypeOK
    <3>3. ASSUME NEW t \in Queued', NEW u \in passed'[t]
          PROVE  u # t /\ (u \in Queued' => Ahead(t, u)')
      <4>1. t \in Threads /\ t \notin Entering /\ t \in Queued /\ u \in passed[t]
        BY <1>a, <1>c, <2>1, <2>4, <3>1, <3>3
      <4>2. u # t /\ (u \in Queued => Ahead(t, u))
        BY <1>a, <4>1 DEF Overtaken
      <4> QED BY <3>1, <3>2, <4>1, <4>2
    <3> QED BY <1>b, <2>2, <3>3 DEF TurnsInv, Overtaken
  <2>5. ASSUME runQueue' = runQueue, Starting = {} PROVE TurnsInv'
    <3>1. Queued' = Queued /\ \A a, b : Ahead(a, b)' <=> Ahead(a, b)
      BY <2>5 DEF Queued, Ahead
    <3>2. \A t \in Threads : passed'[t] \subseteq passed[t]
      BY <1>a, <2>1, <2>5
    <3>3. Overtaken'
      BY <1>a, <1>c, <3>1, <3>2 DEF Overtaken
    <3> QED BY <1>b, <2>2, <3>3 DEF TurnsInv
  <2>6. CASE Requeue
    <3>1. /\ running \in Threads /\ running \in suspended /\ running' = NoThread
          /\ runQueue' = runQueue \/ runQueue' = Append(runQueue, running)
      BY <1>a, <1>d, <2>6 DEF Requeue, SchedulerTypeOK
    <3>2. Starting = {} /\ running \in Entering /\ running \notin Queued
      BY <1>a, <1>d, <3>1 DEF Starting, Entering, Placement
    <3> QED BY <2>4, <2>5, <3>1, <3>2
  <2>7. ASSUME NEW t \in Threads, SpawnThread(t) PROVE TurnsInv'
    <3>1. /\ runQueue' = Append(runQueue, created) /\ running' = running
          /\ created' = created + 1 /\ created \in Threads /\ running = t
      BY <1>a, <2>7 DEF SpawnThread, MayStep, SchedulerTypeOK, Threads
    <3>2. created \notin Queued
      BY <1>a DEF Placement, Live, Created, SchedulerTypeOK
    <3>3. Starting = {} /\ created \in Entering
      BY <1>d, <3>1 DEF Starting, Entering
    <3> QED BY <2>4, <3>1, <3>2, <3>3
  <2>8. ASSUME UNCHANGED <<runQueue, running>> PROVE TurnsInv'
    BY <1>d, <2>5, <2>8 DEF Starting
  <2>9. CASE \E t \in Threads : Suspend(t) \/ Exit(t) \/ \E code \in {"exit1", "abort"} : Halt(t, code)
    BY <2>8, <2>9 DEF Suspend, Exit, Halt
  <2>10. CASE Ended
    BY <2>8, <2>10 DEF Ended, schedVars
  <2> QED BY <2>1, <2>3, <2>6, <2>7, <2>9, <2>10 DEF SchedulerNext, ThreadStep
<1> QED BY <1>1, <1>2 DEF TurnsNext

\* While a goroutine waits, those that had a turn in the meantime are behind it.
THEOREM OvertakenHolds == TurnsSpec => []Overtaken
<1>1. TurnsInv => Overtaken
  BY DEF TurnsInv
<1> QED BY <1>1, TurnsInitInv, TurnsNextInv, PTL DEF TurnsSpec

\* Bounded waiting: between two turns of one goroutine every other gets at
\* most one, so a goroutine waits for at most as many turns as there are
\* others, whoever spawns, yields, blocks or exits meanwhile.
THEOREM RoundRobin == TurnsSpec => NoSecondTurn
<1>1. TurnsInv /\ [TurnsNext]_turnVars =>
        [\A t \in Queued : \A u \in passed[t] : ~(running = NoThread /\ running' = u)]_turnVars
  <2> SUFFICES ASSUME TurnsInv, TurnsNext, NEW t \in Queued, NEW u \in passed[t],
                      running = NoThread, running' = u
               PROVE  FALSE
    BY DEF turnVars
  <2>1. SchedulerTypeOK /\ Placement /\ Overtaken /\ passed \in [Threads -> SUBSET Threads]
    BY DEF TurnsInv, SchedulerInv
  <2>2. t \in Threads /\ u \in Threads /\ NoThread \notin Threads
    <3>1. Queued \subseteq Threads
      BY <2>1, LenProperties, ElementOfSeq DEF SchedulerTypeOK, Queued, Range
    <3> QED BY <2>1, <3>1 DEF Threads, NoThread
  <2>3. running' # running
    BY <2>2
  <2>4. Dispatch
    BY <2>2, <2>3 DEF TurnsNext, SchedulerNext, ThreadStep, Requeue, Suspend, SpawnThread, Exit,
                      Halt, Ended, schedVars
  <2>5. runQueue # <<>> /\ u = Head(runQueue) /\ runQueue' = Tail(runQueue)
    BY <2>3, <2>4 DEF Dispatch
  <2>6. u \in Queued
    BY <2>1, <2>5, TailOfQueue DEF SchedulerTypeOK, Queued
  <2>7. Ahead(t, u)
    BY <2>1, <2>6 DEF Overtaken
  <2> QED BY <2>1, <2>5, <2>7, TailOrder DEF SchedulerTypeOK, Placement
<1> QED BY <1>1, TurnsInitInv, TurnsNextInv, PTL DEF TurnsSpec, NoSecondTurn
=============================================================================
