---------------------------- MODULE ChannelObject -----------------------------
(***************************************************************************)
(* The channel object of the runtime, src/src/object/channel.rs: a ring    *)
(* buffer when the capacity is positive, otherwise a rendezvous cell with  *)
(* five states.  No operation blocks: one that cannot complete says so, and *)
(* the caller (ChannelRuntime) issues it again on its next turn, so what an *)
(* operation leaves behind when it does NOT complete matters.              *)
(*                                                                         *)
(* A channel is one record.  capacity selects the variant: the fields of   *)
(* the ring (buffer, head, size) are idle in a rendezvous channel, and the *)
(* field state is idle, at Initial, in a buffered one.                     *)
(***************************************************************************)
EXTENDS Naturals, Sequences

CONSTANT NoData      \* the null ObjectPtr: a slot not written, no value returned

Initial == [tag |-> "Initial"]
SenderReached(s, d) == [tag |-> "SenderReached", sender |-> s, data |-> d]
ReceiverReached(r) == [tag |-> "ReceiverReached", receiver |-> r]

SenderReachedReceiverAccepted(s) ==
  [tag |-> "SenderReachedReceiverAccepted", sender |-> s]

ReceiverReachedSenderAccepted(r, d) ==
  [tag |-> "ReceiverReachedSenderAccepted", receiver |-> r, data |-> d]

RendezvousState(Ids, Data) ==
  {Initial}
    \cup [tag : {"SenderReached"}, sender : Ids, data : Data]
    \cup [tag : {"SenderReachedReceiverAccepted"}, sender : Ids]
    \cup [tag : {"ReceiverReached"}, receiver : Ids]
    \cup [tag : {"ReceiverReachedSenderAccepted"}, receiver : Ids, data : Data]

Channel(Ids, Data, Caps) ==
  {c \in [capacity : Caps,
          buffer   : UNION {[0 .. n - 1 -> Data \cup {NoData}] : n \in Caps},
          head     : Nat,
          size     : Nat,
          state    : RendezvousState(Ids, Data),
          isClosed : BOOLEAN] : DOMAIN c.buffer = 0 .. c.capacity - 1}

NewChannel(n) ==
  [capacity |-> n,
   buffer   |-> [i \in 0 .. n - 1 |-> NoData],
   head     |-> 0,
   size     |-> 0,
   state    |-> Initial,
   isClosed |-> FALSE]

IsBuffered(c) == c.capacity > 0

-----------------------------------------------------------------------------
(* BufferedChannel                                                         *)

\* Mutant of CanSend: <= for <.
CanSendOneTooMany(c) == c.size <= c.capacity

CanSend(c) == c.size < c.capacity
CanReceive(c) == c.size > 0

\* Mutant of BufferedSend: the offset is not taken from the head.
BufferedSendFromZero(c, d) ==
  IF CanSend(c)
  THEN [chan |-> [c EXCEPT !.buffer[c.size % c.capacity] = d, !.size = @ + 1],
        done |-> TRUE]
  ELSE [chan |-> c, done |-> FALSE]

BufferedSend(c, d) ==
  IF CanSend(c)
  THEN [chan |-> [c EXCEPT !.buffer[(c.head + c.size) % c.capacity] = d,
                           !.size = @ + 1],
        done |-> TRUE]
  ELSE [chan |-> c, done |-> FALSE]

\* Mutant of BufferedReceive: the head does not move.
BufferedReceiveKeepsHead(c) ==
  IF CanReceive(c)
  THEN [chan |-> [c EXCEPT !.size = @ - 1], done |-> TRUE, data |-> c.buffer[c.head]]
  ELSE [chan |-> c, done |-> FALSE, data |-> NoData]

\* The slot that was read keeps its pointer; only head and size move.
BufferedReceive(c) ==
  IF CanReceive(c)
  THEN [chan |-> [c EXCEPT !.head = (@ + 1) % c.capacity, !.size = @ - 1],
        done |-> TRUE,
        data |-> c.buffer[c.head]]
  ELSE [chan |-> c, done |-> FALSE, data |-> NoData]

-----------------------------------------------------------------------------
(* RendezvousChannel.  The guards of the match arms are asymmetric: a     *)
(* sender completes against ANY registered receiver (itself included), and *)
(* a receiver against ANY registered sender, but an accepted hand-off can  *)
(* be finished only by the thread whose id it carries.                     *)

\* Mutant of Served: the id is not compared.
AnyReceiverServed(st, id) == st.tag = "ReceiverReachedSenderAccepted"

Acknowledged(st, id) == st.tag = "SenderReachedReceiverAccepted" /\ st.sender = id
Served(st, id) == st.tag = "ReceiverReachedSenderAccepted" /\ st.receiver = id

\* Mutant of RendezvousCanCompleteSend: a guard that `send` has is missing.
CanCompleteForAnySender(st, id) ==
  st.tag \in {"SenderReachedReceiverAccepted", "ReceiverReached"}

RendezvousCanCompleteSend(st, id) ==
  Acknowledged(st, id) \/ st.tag = "ReceiverReached"

\* Mutant of RendezvousCanCompleteReceive: the second arm is missing.
CanCompleteOffersOnly(st, id) == st.tag = "SenderReached"

RendezvousCanCompleteReceive(st, id) ==
  st.tag = "SenderReached" \/ Served(st, id)

\* Mutant of RendezvousSend: a waiting receiver is not noticed.
SendMissesReceiver(st, id, d) ==
  CASE st.tag = "Initial" ->
         [state |-> SenderReached(id, d), done |-> FALSE]
    [] Acknowledged(st, id) ->
         [state |-> Initial, done |-> TRUE]
    [] OTHER ->
         [state |-> st, done |-> FALSE]

RendezvousSend(st, id, d) ==
  CASE st.tag = "Initial" ->
         [state |-> SenderReached(id, d), done |-> FALSE]
    [] Acknowledged(st, id) ->
         [state |-> Initial, done |-> TRUE]
    [] st.tag = "ReceiverReached" ->
         [state |-> ReceiverReachedSenderAccepted(st.receiver, d), done |-> TRUE]
    [] OTHER ->
         [state |-> st, done |-> FALSE]

\* Mutant of RendezvousReceive: the cell is not reset when its value is taken.
ReceiveForgetsReset(st, id) ==
  CASE st.tag = "SenderReached" ->
         [state |-> SenderReachedReceiverAccepted(st.sender),
          done |-> TRUE, data |-> st.data]
    [] st.tag = "Initial" ->
         [state |-> ReceiverReached(id), done |-> FALSE, data |-> NoData]
    [] Served(st, id) ->
         [state |-> st, done |-> TRUE, data |-> st.data]
    [] OTHER ->
         [state |-> st, done |-> FALSE, data |-> NoData]

RendezvousReceive(st, id) ==
  CASE st.tag = "SenderReached" ->
         [state |-> SenderReachedReceiverAccepted(st.sender),
          done |-> TRUE, data |-> st.data]
    [] st.tag = "Initial" ->
         [state |-> ReceiverReached(id), done |-> FALSE, data |-> NoData]
    [] Served(st, id) ->
         [state |-> Initial, done |-> TRUE, data |-> st.data]
    [] OTHER ->
         [state |-> st, done |-> FALSE, data |-> NoData]

-----------------------------------------------------------------------------
(* ChannelObject                                                           *)

CanCompleteSend(c, id) ==
  IF IsBuffered(c) THEN CanSend(c) ELSE RendezvousCanCompleteSend(c.state, id)

CanCompleteReceive(c, id) ==
  IF IsBuffered(c) THEN CanReceive(c)
                   ELSE RendezvousCanCompleteReceive(c.state, id)

\* The closed flag is not consulted.
Send(c, id, d) ==
  IF IsBuffered(c)
  THEN BufferedSend(c, d)
  ELSE LET s == RendezvousSend(c.state, id, d)
       IN  [chan |-> [c EXCEPT !.state = s.state], done |-> s.done]

\* Mutant of ReceiveStatus: the flag is tested first.
ClosedFirst(done, closed) ==
  IF closed THEN "Closed" ELSE IF done THEN "Value" ELSE "Blocked"

ReceiveStatus(done, closed) ==
  IF done THEN "Value" ELSE IF closed THEN "Closed" ELSE "Blocked"

\* The flag decides only how "no value" is reported: a receive that reports
\* Closed has registered its thread in the cell like one that blocks.
Receive(c, id) ==
  LET r == IF IsBuffered(c)
           THEN BufferedReceive(c)
           ELSE LET s == RendezvousReceive(c.state, id)
                IN  [chan |-> [c EXCEPT !.state = s.state],
                     done |-> s.done, data |-> s.data]
  IN  [chan |-> r.chan, status |-> ReceiveStatus(r.done, c.isClosed), data |-> r.data]

\* The caller checks the assertion of `close` (~isClosed) first.
CloseChannel(c) == [c EXCEPT !.isClosed = TRUE]

-----------------------------------------------------------------------------
(* What the channel holds, for the properties: the values that have been   *)
(* accepted from (or are offered by) senders and not yet given to a        *)
(* receiver, oldest first.                                                 *)

Contents(c) ==
  IF IsBuffered(c)
  THEN [i \in 1 .. c.size |-> c.buffer[(c.head + i - 1) % c.capacity]]
  ELSE IF c.state.tag \in {"SenderReached", "ReceiverReachedSenderAccepted"}
       THEN <<c.state.data>>
       ELSE <<>>

\* The ring indices are in bounds; what the variant does not use is idle.
WellFormed(c) ==
  IF IsBuffered(c)
  THEN c.head < c.capacity /\ c.size <= c.capacity /\ c.state = Initial
  ELSE c.size = 0
=============================================================================
