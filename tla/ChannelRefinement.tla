-------------------------- MODULE ChannelRefinement ---------------------------
(***************************************************************************)
(* The runtime implements the two abstract channels.                       *)
(***************************************************************************)
EXTENDS ChannelSafety

-----------------------------------------------------------------------------
(* Every channel is a bounded FIFO queue, for any user program.            *)

QueueOf(c) == IF c \in Made THEN Contents(chans[c]) ELSE <<>>
SlotsOf(c) == IF c \notin Made THEN 0
              ELSE IF IsBuffered(chans[c]) THEN chans[c].capacity ELSE 1
ClosedOf(c) == c \in Made /\ chans[c].isClosed

Fifo(c) == INSTANCE AbstractChannel
             WITH Values <- Payload, queue <- QueueOf(c),
                  slots <- SlotsOf(c), closed <- ClosedOf(c)

\* Ring arithmetic, retried sends, selects that give up and closes never lose,
\* repeat, reorder or invent a value (channel.rs:61-83 and :125-168).
\* (This is \A c \in Chans : Fifo(c)!ChannelSpec, with the quantifier moved
\* inside the box, where TLC accepts it.)
EveryChannelIsFifo ==
  /\ \A c \in Chans : Fifo(c)!ChannelInit
  /\ [][\A c \in Chans : [Fifo(c)!ChannelNext]_(Fifo(c)!channelVars)]_vars

-----------------------------------------------------------------------------
(* An unbuffered channel hands values over synchronously.  The two halves   *)
(* of a hand-off end on different turns of the two goroutines; the mapping  *)
(* says when it counts: as soon as the cell names the partner.              *)

Unbuffered(c) == c \in Made => ~IsBuffered(chans[c])

CallOf(t, c) ==
  LET f  == frame[t]
      st == IF c \in Made THEN chans[c].state ELSE Initial
  IN  IF ~Unbuffered(c) THEN [at |-> "idle"]
      ELSE CASE f.op = "send" /\ f.channel = c ->
                  IF st = SenderReachedReceiverAccepted(t) THEN [at |-> "sent"]
                  ELSE [at |-> "sending", value |-> f.data]
             [] f.op = "receive" /\ f.channel = c ->
                  IF st.tag = "ReceiverReachedSenderAccepted" /\ st.receiver = t
                  THEN [at |-> "got", value |-> st.data]
                  ELSE [at |-> "receiving"]
             [] OTHER ->
                  IF result[t].status = "Sent" THEN [at |-> "sent"]
                  ELSE IF result[t].status = "Value"
                       THEN [at |-> "got", value |-> result[t].data]
                  ELSE IF result[t].status = "Closed" THEN [at |-> "closed"]
                  ELSE [at |-> "idle"]

Sync(c) == INSTANCE Handoff
             WITH Workers <- Threads, Values <- Payload,
                  call <- [t \in Threads |-> CallOf(t, c)],
                  closed <- ClosedOf(c)

\* For a program with one channel, used by plain sends, receives and closes
\* only (results do not say which channel they came from): if it is unbuffered,
\* every completed send is paired with one completed receive of its value, by
\* two DIFFERENT goroutines that were in their operations at the same time.
UnbufferedIsSynchronous ==
  /\ \A c \in Chans : Sync(c)!HandoffInit
  /\ [][\A c \in Chans : [Sync(c)!HandoffNext]_(Sync(c)!handoffVars)]_vars
=============================================================================
