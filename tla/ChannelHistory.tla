---------------------------- MODULE ChannelHistory ----------------------------
(***************************************************************************)
(* The runtime with its past: which values each channel has accepted from   *)
(* senders and given to receivers, in the order the calls returned.  Every  *)
(* send uses a new value, so that a value tells which send it came from.    *)
(***************************************************************************)
EXTENDS ChannelSafety, SequencesExt

VARIABLES
  offered,    \* how many values user code has passed to send or select
  sent,       \* sent[c]: values of the sends that returned, in that order
  received    \* received[c]: values the receives returned, in that order

historyVars == <<vars, offered, sent, received>>

ASSUME NumberedPayload == Payload = 1 .. Cardinality(Payload)

DataOf(f) ==
  CASE f.op = "send" -> {f.data}
    [] f.op = "select" -> {f.entries[i].data : i \in 1 .. Len(f.entries)} \ {NoData}
    [] OTHER -> {}

\* The value of the operation that a frame and its result belong to.
Value(f, r)  == IF r.status = "Value" THEN r.data
                ELSE IF f.op = "select" THEN f.entries[r.index].data ELSE f.data

Log(log, status) ==
  [c \in Chans |->
     IF \E t \in Threads : t = running /\ Returns(t, c, status)
     THEN Append(log[c], Value(frame[running], result'[running]))
     ELSE log[c]]

HistoryInit ==
  /\ RuntimeInit
  /\ offered = 0
  /\ sent = [c \in Chans |-> <<>>]
  /\ received = [c \in Chans |-> <<>>]

HistoryNext ==
  /\ RuntimeNext
  /\ LET new == UNION {DataOf(f) : f \in Calling}
     IN  /\ new = offered + 1 .. offered + Cardinality(new)
         /\ offered' = offered + Cardinality(new)
  /\ sent' = Log(sent, "Sent")
  /\ received' = Log(received, "Value")

HistorySpec == HistoryInit /\ [][HistoryNext]_historyVars

\* The same for programs that respect Go's rules for close.
LegalHistorySpec == HistoryInit /\ [][HistoryNext /\ LegalStep]_historyVars

-----------------------------------------------------------------------------
(* Values a sender has got rid of that no receive has returned yet, and     *)
(* values a receive has returned whose sender does not know it yet.         *)

Owed(c) ==
  IF c \in Made /\ (\/ IsBuffered(chans[c])
                    \/ chans[c].state.tag = "ReceiverReachedSenderAccepted")
  THEN Contents(chans[c]) ELSE <<>>

Unacknowledged(c) ==
  IF c \in Made /\ chans[c].state.tag = "SenderReachedReceiverAccepted"
  THEN <<frame[chans[c].state.sender].data>> ELSE <<>>

\* Exactly once and in order: up to what is owed or unacknowledged at this
\* moment, the receives of a channel returned the very sequence of values
\* whose sends returned, although a blocked send or receive is run again from
\* the start on each turn.  Holds for every program, illegal ones included.
Conservation ==
  \A c \in Chans : received[c] \o Owed(c) = sent[c] \o Unacknowledged(c)

\* No value is received twice, on any channel.
NoDuplicates ==
  \A c, d \in Chans : \A i \in DOMAIN received[c], j \in DOMAIN received[d] :
    received[c][i] = received[d][j] => c = d /\ i = j

\* In a legal program without select, a receive is told "closed" only when
\* every value whose send has returned has been received, or is being received
\* by another goroutine that is blocked for it (channel.rs:220-232).
ClosedAfterDrain ==
  [][\A t \in Threads, c \in Chans : Returns(t, c, "Closed") =>
       \/ IsPrefix(sent[c], received[c])
       \/ /\ ~IsBuffered(chans[c])
          /\ Owed(c) # <<>>
          /\ chans[c].state.receiver # t
          /\ Inside(chans[c].state.receiver, "receive", c)]_historyVars
=============================================================================
