---------------------------- MODULE ChannelRuntime ----------------------------
(***************************************************************************)
(* Goroutines that communicate over channels: the handlers of              *)
(* src/src/api/channel.rs and src/src/api/lwt.rs on top of the scheduler.  *)
(*                                                                         *)
(* Compiled user code pushes the frame of a runtime function and jumps to  *)
(* it; the handler works on that frame, and either pops it, storing the    *)
(* result, or raises the suspended flag and names itself as the function   *)
(* to resume: a blocked operation is ISSUED AGAIN on the thread's next     *)
(* turn.  frame[t] is the runtime frame on top of t's stack (UserCode when *)
(* there is none), result[t] what the last finished call stored.           *)
(***************************************************************************)
EXTENDS Scheduler, ChannelObject

CONSTANTS
  Chans,        \* the channels a program may make
  Payload,      \* the values it sends
  MaxCapacity,  \* bound: the largest capacity it asks for
  UserCalls,    \* the frames its goroutines may push
  NotMade       \* chans[c] before `make`

VARIABLES chans, frame, result

vars == <<schedVars, chans, frame, result>>

UserCode           == [op |-> "none"]
NewFrame(c, n)     == [op |-> "new", channel |-> c, capacity |-> n]
SendFrame(c, d)    == [op |-> "send", channel |-> c, data |-> d]
ReceiveFrame(c)    == [op |-> "receive", channel |-> c]
CloseFrame(c)      == [op |-> "close", channel |-> c]
SelectFrame(es, b) == [op |-> "select", entries |-> es, needBlock |-> b]
SpawnFrame         == [op |-> "spawn"]
YieldFrame         == [op |-> "yield"]

\* SelectEntry: exactly one of send_data and receive_data is non-null.
SendEntry(c, d)    == [dir |-> "send", channel |-> c, data |-> d]
ReceiveEntry(c)    == [dir |-> "receive", channel |-> c, data |-> NoData]

Entries == [dir : {"send"}, channel : Chans, data : Payload]
             \cup [dir : {"receive"}, channel : Chans, data : {NoData}]

Frames ==
  {UserCode, SpawnFrame, YieldFrame}
    \cup [op : {"new"}, channel : Chans, capacity : 0 .. MaxCapacity]
    \cup [op : {"send"}, channel : Chans, data : Payload]
    \cup [op : {"receive"}, channel : Chans]
    \cup [op : {"close"}, channel : Chans]
    \cup [op : {"select"}, entries : Seq(Entries), needBlock : BOOLEAN]

ASSUME ConstantsAssumption ==
  /\ MaxCapacity \in Nat
  /\ UserCalls \subseteq Frames \ {UserCode}
  /\ NoData \notin Payload
  /\ NotMade \notin Channel(Threads, Payload, 0 .. MaxCapacity)

\* What a call stored: index is the position of the chosen select entry (from
\* 1; the code counts from 0), 0 for a plain operation and for -1 (default).
Result(s, i, d) == [status |-> s, index |-> i, data |-> d]
NoResult        == Result("None", 0, NoData)

Results == [status : {"None", "Sent", "Value", "Closed", "Default"},
            index : Nat, data : Payload \cup {NoData}]

RuntimeInit ==
  /\ SchedulerInit
  /\ chans = [c \in Chans |-> NotMade]
  /\ frame = [t \in Threads |-> UserCode]
  /\ result = [t \in Threads |-> NoResult]

-----------------------------------------------------------------------------
(* Entering and leaving a runtime function.                                *)

Used(f) ==
  CASE f.op \in {"send", "receive", "close"} -> {f.channel}
    [] f.op = "select" -> {f.entries[i].channel : i \in 1 .. Len(f.entries)}
    [] OTHER -> {}

\* User code calls only on channels it has made, and a made channel is not
\* made again: `make` returns a fresh object.
Callable(f) ==
  /\ \A c \in Used(f) : chans[c] # NotMade
  /\ f.op = "new" => chans[f.channel] = NotMade
  /\ f.op = "spawn" => created < MaxThreads

\* emitCallCommon / switchFunctionToCallRuntimeApi: push the frame.
Call(t, f) ==
  /\ MayStep(t)
  /\ frame[t] = UserCode
  /\ Callable(f)
  /\ frame' = [frame EXCEPT ![t] = f]
  /\ result' = [result EXCEPT ![t] = NoResult]
  /\ UNCHANGED <<schedVars, chans>>

In(t, op) == MayStep(t) /\ frame[t].op = op

\* ctx.pop_frame() with the results stored
Return(t, r) ==
  /\ frame' = [frame EXCEPT ![t] = UserCode]
  /\ result' = [result EXCEPT ![t] = r]

Finish(t, r) == Return(t, r) /\ UNCHANGED schedVars

\* Mutant of Block: the frame is popped all the same.
BlockPopsFrame(t) == Suspend(t) /\ Return(t, NoResult)

\* ctx.suspend(), and the handler names itself: the frame stays.
Block(t) == Suspend(t) /\ UNCHANGED <<frame, result>>

\* A failed assertion or unwrap in an `extern "C"` function aborts.
Abort(t) == Halt(t, "abort") /\ UNCHANGED <<chans, frame, result>>

-----------------------------------------------------------------------------
(* The handlers.                                                           *)

ChannelNew(t) ==
  /\ In(t, "new")
  /\ chans' = [chans EXCEPT ![frame[t].channel] = NewChannel(frame[t].capacity)]
  /\ Finish(t, NoResult)

ChannelSend(t) ==
  /\ In(t, "send")
  /\ LET c == frame[t].channel
         s == Send(chans[c], t, frame[t].data)
     IN  /\ chans' = [chans EXCEPT ![c] = s.chan]
         /\ IF s.done THEN Finish(t, Result("Sent", 0, NoData)) ELSE Block(t)

ChannelReceive(t) ==
  /\ In(t, "receive")
  /\ LET c == frame[t].channel
         r == Receive(chans[c], t)
     IN  /\ chans' = [chans EXCEPT ![c] = r.chan]
         /\ IF r.status = "Blocked" THEN Block(t)
                                    ELSE Finish(t, Result(r.status, 0, r.data))

ChannelClose(t) ==
  /\ In(t, "close")
  /\ LET c == frame[t].channel
     IN  IF chans[c].isClosed
         THEN Abort(t)
         ELSE /\ chans' = [chans EXCEPT ![c] = CloseChannel(@)]
              /\ Finish(t, NoResult)

\* First loop of gox5_channel_select: the first entry that can complete now.
Ready(t, e) ==
  IF e.dir = "send" THEN CanCompleteSend(chans[e.channel], t)
                    ELSE CanCompleteReceive(chans[e.channel], t)

ReadyEntries(t) ==
  {i \in 1 .. Len(frame[t].entries) : Ready(t, frame[t].entries[i])}

SelectReady(t) ==
  /\ In(t, "select")
  /\ \E i \in ReadyEntries(t) :
       /\ \A j \in ReadyEntries(t) : i <= j
       /\ LET e == frame[t].entries[i]
              s == Send(chans[e.channel], t, e.data)
              r == Receive(chans[e.channel], t)
          IN  IF e.dir = "send"
              THEN IF s.done     \* .unwrap()
                   THEN /\ chans' = [chans EXCEPT ![e.channel] = s.chan]
                        /\ Finish(t, Result("Sent", i, NoData))
                   ELSE Abort(t)
              ELSE IF r.status = "Value"     \* else unreachable!()
                   THEN /\ chans' = [chans EXCEPT ![e.channel] = r.chan]
                        /\ Finish(t, Result("Value", i, r.data))
                   ELSE Abort(t)

\* Second loop: receive on every receive entry in turn, up to the first that
\* reports Closed.  A value obtained here would be dropped; every entry that
\* blocks leaves its thread registered in the channel.  (Receiving twice on
\* one channel changes nothing the second time, so the loop is a set of polls:
\* ChannelRuntimeProofs, PollTwice.)
Polls(t) ==
  {i \in 1 .. Len(frame[t].entries) : frame[t].entries[i].dir = "receive"}

ClosedEntries(t) ==
  {i \in Polls(t) :
     Receive(chans[frame[t].entries[i].channel], t).status = "Closed"}

Polled(t) ==
  {frame[t].entries[i].channel :
     i \in {j \in Polls(t) : \A k \in ClosedEntries(t) : j <= k}}

SelectPoll(t) ==
  /\ In(t, "select")
  /\ ReadyEntries(t) = {}
  /\ chans' = [c \in Chans |-> IF c \in Polled(t) THEN Receive(chans[c], t).chan
                                                  ELSE chans[c]]
  /\ \/ /\ ClosedEntries(t) = {}
        /\ frame[t].needBlock
        /\ Block(t)
     \/ /\ ClosedEntries(t) = {}
        /\ ~frame[t].needBlock
        /\ Finish(t, Result("Default", 0, NoData))
     \/ \E i \in ClosedEntries(t) :
          /\ \A j \in ClosedEntries(t) : i <= j
          /\ Finish(t, Result("Closed", i, NoData))

ChannelSelect(t) == SelectReady(t) \/ SelectPoll(t)

\* Mutant of LwtSpawn: the spawner is not suspended.
SpawnAndGoOn(t) ==
  /\ In(t, "spawn")
  /\ created < MaxThreads
  /\ created' = created + 1
  /\ runQueue' = Append(runQueue, created)
  /\ Return(t, NoResult)
  /\ UNCHANGED <<running, suspended, terminated, process, chans>>

LwtSpawn(t) ==
  /\ In(t, "spawn")
  /\ SpawnThread(t)
  /\ Return(t, NoResult)
  /\ UNCHANGED chans

LwtYield(t) ==
  /\ In(t, "yield")
  /\ Suspend(t)
  /\ Return(t, NoResult)
  /\ UNCHANGED chans

\* The goroutine's function has returned to the bottom of its stack.
Terminate(t) ==
  /\ frame[t] = UserCode
  /\ Exit(t)
  /\ UNCHANGED <<chans, frame, result>>

-----------------------------------------------------------------------------

Handler(t) ==
  \/ ChannelNew(t)
  \/ ChannelSend(t)
  \/ ChannelReceive(t)
  \/ ChannelClose(t)
  \/ ChannelSelect(t)
  \/ LwtSpawn(t)
  \/ LwtYield(t)

UserStep(t) ==
  \/ \E f \in UserCalls : Call(t, f)
  \/ Terminate(t)

Loop == (Dispatch \/ Requeue) /\ UNCHANGED <<chans, frame, result>>

RuntimeNext ==
  \/ Loop
  \/ \E t \in Threads : Handler(t) \/ UserStep(t)
  \/ Ended /\ UNCHANGED <<chans, frame, result>>

RuntimeSpec == RuntimeInit /\ [][RuntimeNext]_vars

\* The loop and a handler that was entered always go on; so does user code,
\* which is assumed to reach its next runtime call or its end.
FairRuntime ==
  /\ RuntimeSpec
  /\ WF_vars(Loop)
  /\ \A t \in Threads : WF_vars(Handler(t)) /\ WF_vars(UserStep(t))

-----------------------------------------------------------------------------
\* The call user code makes in this step, if any.
Calling == {f \in UserCalls : \E t \in Threads :
              t = running /\ frame[t] = UserCode /\ frame'[t] = f}

\* Programs that respect Go's rules for close: no close of a closed channel,
\* no send on one, no close while a send is pending.
LegalCall(f) ==
  /\ f.op \in {"send", "close"} => ~chans[f.channel].isClosed
  /\ f.op = "close" =>
       \A t \in Threads : frame[t].op = "send" /\ frame[t].channel = f.channel =>
         chans[f.channel].state = SenderReachedReceiverAccepted(t)

LegalStep == \A f \in Calling : LegalCall(f)

LegalSpec == RuntimeInit /\ [][RuntimeNext /\ LegalStep]_vars
=============================================================================
