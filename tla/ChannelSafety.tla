---------------------------- MODULE ChannelSafety -----------------------------
(***************************************************************************)
(* What a correct channel runtime must keep true, whatever its user        *)
(* program does; and what it keeps only for programs without select.       *)
(***************************************************************************)
EXTENDS ChannelRuntime

\* Every variable has its type.
RuntimeTypeOK ==
  /\ SchedulerTypeOK
  /\ chans \in [Chans -> Channel(Threads, Payload, 0 .. MaxCapacity) \cup {NotMade}]
  /\ frame \in [Threads -> Frames]
  /\ result \in [Threads -> Results]

Made == {c \in Chans : chans[c] # NotMade}

\* t is inside runtime function op on channel c: its frame is on the stack.
Inside(t, op, c) == frame[t].op = op /\ frame[t].channel = c

\* The channel of the operation that a frame and its result belong to.
Target(f, r) == IF f.op = "select" THEN f.entries[r.index].channel ELSE f.channel

\* In this step t's operation on c returns and reports this status.
Returns(t, c, status) ==
  /\ frame[t].op \in {"send", "receive", "select"}
  /\ frame'[t] = UserCode
  /\ result'[t].status = status
  /\ Target(frame[t], result'[t]) = c

\* The ring arithmetic stays in bounds after any number of wraps (the
\* assertion of can_send, channel.rs:45, and the indexing in at/at_mut), and
\* only slots that were written can be read.
RingInBounds ==
  \A c \in Made : IsBuffered(chans[c]) =>
    /\ chans[c].head < chans[c].capacity
    /\ chans[c].size <= chans[c].capacity
    /\ \A i \in 1 .. chans[c].size : Contents(chans[c])[i] # NoData

\* A sender's offer is backed by that sender: the thread named in
\* SenderReached is still in gox5_channel_send on this channel with that very
\* value, and the one named in SenderReachedReceiverAccepted still waits to
\* learn that its value was taken (channel.rs:127-137).  No offer outlives its
\* operation, whatever selects, closes and other senders do in between.
SenderRegistrationLive ==
  \A c \in Made :
    LET st == chans[c].state
    IN  st.tag \in {"SenderReached", "SenderReachedReceiverAccepted"} =>
          /\ Inside(st.sender, "send", c)
          /\ st.tag = "SenderReached" => frame[st.sender].data = st.data

\* The same for receivers: true of plain receives on open channels, and the
\* reason a completed send has somebody to take its value.  It is what select
\* breaks (api/channel.rs:152), so it is stated of programs without select.
ReceiverRegistrationLive ==
  \A c \in Made :
    LET st == chans[c].state
    IN  /\ ~chans[c].isClosed
        /\ st.tag \in {"ReceiverReached", "ReceiverReachedSenderAccepted"}
        => Inside(st.receiver, "receive", c)

\* The only runtime assertion user code can trip is the one against closing
\* twice (channel.rs:195): the `unwrap` and `unreachable!` of select
\* (api/channel.rs:127 and :142) agree with the can_complete tests before them,
\* and the scheduler's own (lib.rs:231, :272) never fail.
AbortOnlyOnDoubleClose ==
  [][process' = "abort" /\ process = "running" =>
       \E t \in Threads : /\ In(t, "close")
                          /\ chans[frame[t].channel].isClosed]_vars

\* The second loop of select throws away what it receives
\* (`Value(_) => ()`, api/channel.rs:153): it never receives anything.
PollDropsNothing ==
  \A t \in Threads : In(t, "select") /\ ReadyEntries(t) = {} =>
    \A c \in Polled(t) : Contents(Receive(chans[c], t).chan) = Contents(chans[c])

\* A goroutine never hands a value to itself: a send on an unbuffered channel
\* does not complete against the sender's own receive.  (It can: select
\* registers its receive entries before it retries its send entries, and
\* RendezvousState::ReceiverReached accepts any sender, channel.rs:108, :138.)
NoSelfRendezvous ==
  [][\A c \in Made, t \in Threads :
       t = running /\ chans[c].state = ReceiverReached(t) =>
         chans'[c].state.tag # "ReceiverReachedSenderAccepted"]_vars

-----------------------------------------------------------------------------
(* The inductive invariant of the runtime: types, well-formed channels that *)
(* hold sent values only, frames that name made channels only, and live     *)
(* offers.                                                                 *)

ChannelsOK ==
  \A c \in Made : WellFormed(chans[c]) /\ Contents(chans[c]) \in Seq(Payload)

FramesOK == \A t \in Threads : Used(frame[t]) \subseteq Made

\* gox5_channel_new runs right after its frame is pushed.
NewOK ==
  \A t \in Threads : frame[t].op = "new" =>
    running = t /\ t \notin suspended /\ frame[t].channel \notin Made

\* What every handler relies on when it is entered and re-establishes.
RuntimeInv ==
  /\ SchedulerInv
  /\ RuntimeTypeOK
  /\ ChannelsOK
  /\ FramesOK
  /\ NewOK
  /\ SenderRegistrationLive

-----------------------------------------------------------------------------
(* Progress of an unbuffered channel used by plain operations.             *)

Handing(c) ==
  c \in Made /\ chans[c].state.tag \in {"SenderReachedReceiverAccepted",
                                      "ReceiverReachedSenderAccepted"}

\* When a sender and a receiver are in their operations on the same channel,
\* some sender and some receiver meet, although both only ever retry
\* (lib.rs:261-270): the retries cannot keep missing each other.
PairMeets ==
  \A c \in Chans : \A s, r \in Threads :
    Inside(s, "send", c) /\ Inside(r, "receive", c)
      ~> (Handing(c) \/ process # "running")

\* The partner of goroutine t has accepted its value, or left it one.
Accepted(c, t) ==
  /\ c \in Made
  /\ \/ chans[c].state = SenderReachedReceiverAccepted(t)
     \/ /\ chans[c].state.tag = "ReceiverReachedSenderAccepted"
        /\ chans[c].state.receiver = t

\* The goroutine whose partner has already accepted is told so on a later
\* turn; until then nobody else gets through the cell (channel.rs:134, :159).
HandoffCompletes ==
  \A c \in Chans : \A t \in Threads :
    Accepted(c, t) ~> (frame[t] = UserCode \/ process # "running")

\* What this step tells t of the hand-off on c that waits for it.
IsTold(t, c) ==
  LET st == chans[c].state
  IN  /\ frame'[t] = UserCode
      /\ IF st.tag = "SenderReachedReceiverAccepted"
         THEN result'[t].status = "Sent"
         ELSE result'[t].status = "Value" /\ result'[t].data = st.data

\* A hand-off that one side has accepted is not lost, stolen or mixed up before
\* the other side learns of it: whatever anybody sends, receives, polls with a
\* select or closes in between, the cell is left only by the step in which that
\* other side returns, with the very value it was left; and that side's own
\* operation on the channel, issued again, never blocks any more.
AcceptedIsTold ==
  [][\A c \in Chans, t \in Threads : Accepted(c, t) =>
       /\ chans'[c].state # chans[c].state => t = running /\ IsTold(t, c)
       /\ LET op == IF chans[c].state.tag = "SenderReachedReceiverAccepted"
                    THEN "send" ELSE "receive"
          IN  Inside(t, op, c) /\ MayStep(t) => t \notin suspended']_vars
=============================================================================
