------------------------- MODULE ChannelRuntimeProofs -------------------------
(***************************************************************************)
(* Theorems about the channel runtime, for any number of goroutines and     *)
(* channels, any capacities, any values and any user program.  The first    *)
(* part is about the operations of one channel (ChannelObject) and needs    *)
(* nothing of the runtime; the last ones are about programs without select. *)
(***************************************************************************)
EXTENDS ChannelRefinement, ChannelRounds, SchedulerProofs

-----------------------------------------------------------------------------
(* Index arithmetic of the ring.                                           *)

\* One wrap at most: (head + k) % capacity is head + k or that minus capacity.
LEMMA Wrap ==
  ASSUME NEW n \in Nat, n > 0, NEW h \in 0 .. n - 1, NEW k \in 0 .. n
  PROVE  (h + k) % n = IF h + k < n THEN h + k ELSE h + k - n
<1> DEFINE x == h + k
           q == x \div n
           r == x % n
<1>1. x \in Nat /\ x < 2 * n
  OBVIOUS
<1>2. q \in Int /\ r \in 0 .. n - 1 /\ x = n * q + r
  BY <1>1
<1>3. q = 0 \/ q = 1
  <2>1. ASSUME q >= 2 PROVE FALSE
    <3>1. n * q >= n * 2
      BY <1>2, <2>1
    <3> QED BY <1>1, <1>2, <3>1
  <2>2. ASSUME q <= -1 PROVE FALSE
    <3>1. n * q <= n * (-1)
      BY <1>2, <2>2
    <3> QED BY <1>1, <1>2, <3>1
  <2> QED BY <1>2, <2>1, <2>2
<1> QED BY <1>1, <1>2, <1>3

-----------------------------------------------------------------------------
(* can_complete_* and the operation itself agree.                          *)

\* Hence the `unwrap` of select (api/channel.rs:127) cannot fail.
THEOREM CanCompleteSendAgrees ==
  ASSUME NEW Ids, NEW Data, NEW Caps, NEW c \in Channel(Ids, Data, Caps), NEW id, NEW d
  PROVE  Send(c, id, d).done <=> CanCompleteSend(c, id)
BY DEF Channel, RendezvousState, Send, CanCompleteSend, BufferedSend, RendezvousSend,
       RendezvousCanCompleteSend, Initial, Acknowledged

\* Hence the `unreachable!()` of select (api/channel.rs:142) is unreachable.
THEOREM CanCompleteReceiveAgrees ==
  ASSUME NEW Ids, NEW Data, NEW Caps, NEW c \in Channel(Ids, Data, Caps), NEW id
  PROVE  (Receive(c, id).status = "Value") <=> CanCompleteReceive(c, id)
BY DEF Channel, RendezvousState, Receive, CanCompleteReceive, BufferedReceive,
       RendezvousReceive, RendezvousCanCompleteReceive, Initial, Served, ReceiveStatus

\* Receiving again what could not be received changes nothing: the second
\* loop of select may meet one channel in several entries.
THEOREM PollTwice ==
  ASSUME NEW Ids, NEW Data, NEW Caps, NEW c \in Channel(Ids, Data, Caps), NEW id \in Ids,
         ~CanCompleteReceive(c, id)
  PROVE  Receive(Receive(c, id).chan, id) = Receive(c, id)
<1>1. CASE IsBuffered(c)
  BY <1>1 DEF Receive, BufferedReceive, CanCompleteReceive, ReceiveStatus
<1>2. CASE ~IsBuffered(c)
  <2> DEFINE s == RendezvousReceive(c.state, id)
             u == RendezvousReceive(s.state, id)
  <2>1. ~RendezvousCanCompleteReceive(c.state, id)
    BY <1>2 DEF CanCompleteReceive
  <2>2. /\ s.done = FALSE /\ s.data = NoData
        /\ s.state = ReceiverReached(id) \/ s.state = c.state
        /\ c.state.tag = "Initial" => s.state = ReceiverReached(id)
    BY <2>1 DEF RendezvousReceive, RendezvousCanCompleteReceive, Served
  <2>3. u.done = FALSE /\ u.data = NoData /\ u.state = s.state
    BY <2>1, <2>2 DEF RendezvousReceive, RendezvousCanCompleteReceive, ReceiverReached, Served
  <2> DEFINE e == [c EXCEPT !.state = s.state]
  <2>4. e.state = s.state /\ e.isClosed = c.isClosed /\ e.capacity = c.capacity
    BY DEF Channel
  <2>5. [e EXCEPT !.state = u.state] = e
    BY <2>3, <2>4 DEF Channel
  <2>6. Receive(c, id) = [chan |-> e,
                          status |-> IF c.isClosed THEN "Closed" ELSE "Blocked",
                          data |-> NoData]
    BY <1>2, <2>2 DEF Receive, ReceiveStatus
  <2>7. Receive(e, id) = [chan |-> [e EXCEPT !.state = u.state],
                          status |-> IF e.isClosed THEN "Closed" ELSE "Blocked",
                          data |-> NoData]
    BY <1>2, <2>3, <2>4 DEF Receive, IsBuffered, ReceiveStatus
  <2> QED BY <2>4, <2>5, <2>6, <2>7
<1> QED BY <1>1, <1>2

-----------------------------------------------------------------------------
(* Typing.                                                                 *)

\* The fields of a channel, and what may replace those of the ring.
LEMMA Fields ==
  ASSUME NEW Ids, NEW Data, NEW Caps \in SUBSET Nat, NEW c \in Channel(Ids, Data, Caps)
  PROVE  /\ c.capacity \in Caps /\ c.capacity \in Nat
         /\ c.head \in Nat /\ c.size \in Nat
         /\ c.buffer \in [0 .. c.capacity - 1 -> Data \cup {NoData}]
         /\ c.state \in RendezvousState(Ids, Data)
         /\ c.isClosed \in BOOLEAN
<1>1. /\ c.capacity \in Caps /\ c.head \in Nat /\ c.size \in Nat
      /\ c.state \in RendezvousState(Ids, Data) /\ c.isClosed \in BOOLEAN
      /\ c.buffer \in UNION {[0 .. n - 1 -> Data \cup {NoData}] : n \in Caps}
      /\ DOMAIN c.buffer = 0 .. c.capacity - 1
  BY DEF Channel
<1>2. PICK n \in Caps : c.buffer \in [0 .. n - 1 -> Data \cup {NoData}]
  BY <1>1
<1>3. c.buffer \in [0 .. c.capacity - 1 -> Data \cup {NoData}]
  BY <1>1, <1>2
<1> QED BY <1>1, <1>3

SetRing(c, b, h, s) == [c EXCEPT !.buffer = b, !.head = h, !.size = s]

\* A channel stays one when its ring fields are replaced by typed ones.
LEMMA WithRing ==
  ASSUME NEW Ids, NEW Data, NEW Caps \in SUBSET Nat, NEW c \in Channel(Ids, Data, Caps),
         NEW b \in [0 .. c.capacity - 1 -> Data \cup {NoData}], NEW h \in Nat, NEW s \in Nat
  PROVE  SetRing(c, b, h, s) \in Channel(Ids, Data, Caps)
<1> DEFINE e == [c EXCEPT !.buffer = b, !.head = h, !.size = s]
           B == UNION {[0 .. n - 1 -> Data \cup {NoData}] : n \in Caps}
           R == [capacity : Caps, buffer : B, head : Nat, size : Nat,
                 state : RendezvousState(Ids, Data), isClosed : BOOLEAN]
<1>1. c \in R
  BY DEF Channel
<1>2. b \in B
  <2>1. c.capacity \in Caps
    BY Fields
  <2> QED BY <2>1
<1>3. e \in R
  <2> HIDE DEF B
  <2> QED BY <1>1, <1>2
<1>4. e.buffer = b /\ e.capacity = c.capacity
  <2> HIDE DEF B
  <2> QED BY <1>1
<1>5. DOMAIN e.buffer = 0 .. e.capacity - 1
  BY <1>4
<1> QED BY <1>3, <1>5 DEF Channel, SetRing

\* A new channel is well-typed, empty and open.
LEMMA NewType ==
  ASSUME NEW Ids, NEW Data, NEW Caps \in SUBSET Nat, NEW n \in Caps
  PROVE  /\ NewChannel(n) \in Channel(Ids, Data, Caps)
         /\ WellFormed(NewChannel(n))
         /\ Contents(NewChannel(n)) = <<>>
         /\ ~NewChannel(n).isClosed
<1>1. [i \in 0 .. n - 1 |-> NoData] \in [0 .. n - 1 -> Data \cup {NoData}]
  OBVIOUS
<1>2. NewChannel(n) \in Channel(Ids, Data, Caps)
  BY <1>1 DEF NewChannel, Channel, RendezvousState
<1> QED BY <1>2 DEF NewChannel, WellFormed, IsBuffered, Contents, Initial

\* A send keeps the channel a well-formed channel of its capacity.
LEMMA SendType ==
  ASSUME NEW Ids, NEW Data, NEW Caps \in SUBSET Nat, NEW c \in Channel(Ids, Data, Caps),
         NEW id \in Ids, NEW d \in Data, WellFormed(c)
  PROVE  /\ Send(c, id, d).chan \in Channel(Ids, Data, Caps)
         /\ WellFormed(Send(c, id, d).chan)
         /\ Send(c, id, d).done \in BOOLEAN
         /\ Send(c, id, d).chan.capacity = c.capacity
         /\ Send(c, id, d).chan.isClosed = c.isClosed
<1> DEFINE e == Send(c, id, d).chan
<1>1. CASE IsBuffered(c)
  <2>1. CASE ~CanSend(c)
    BY <1>1, <2>1 DEF Send, BufferedSend
  <2>2. CASE CanSend(c)
    <3> DEFINE k == (c.head + c.size) % c.capacity
           b == [c.buffer EXCEPT ![k] = d]
    <3>1. e = [c EXCEPT !.buffer = b, !.size = @ + 1] /\ Send(c, id, d).done = TRUE
      BY <1>1, <2>2 DEF Send, BufferedSend
    <3>2. c.capacity \in Nat /\ c.size \in Nat /\ c.head \in Nat
      BY Fields
    <3>3. e = SetRing(c, b, c.head, c.size + 1)
      BY <3>1 DEF Channel, SetRing
    <3>4. b \in [0 .. c.capacity - 1 -> Data \cup {NoData}]
      BY Fields
    <3>5. e \in Channel(Ids, Data, Caps)
      <4>1. c.head \in Nat /\ c.size + 1 \in Nat
        BY <3>2
      <4>2. SetRing(c, b, c.head, c.size + 1) \in Channel(Ids, Data, Caps)
        <5> HIDE DEF b
        <5> QED BY <3>4, <4>1, WithRing
      <4> QED BY <3>3, <4>2
    <3>6. /\ e.capacity = c.capacity /\ e.head = c.head /\ e.size = c.size + 1
          /\ e.state = c.state /\ e.isClosed = c.isClosed
      BY <3>1 DEF Channel
    <3>7. WellFormed(e)
      BY <1>1, <2>2, <3>2, <3>6 DEF WellFormed, IsBuffered, CanSend
    <3> QED BY <3>1, <3>5, <3>6, <3>7
  <2> QED BY <2>1, <2>2
<1>2. CASE ~IsBuffered(c)
  <2> DEFINE s == RendezvousSend(c.state, id, d)
  <2>1. s.state \in RendezvousState(Ids, Data) /\ s.done \in BOOLEAN
    BY DEF Channel, RendezvousState, RendezvousSend, Initial, SenderReached,
           ReceiverReachedSenderAccepted, Acknowledged
  <2>2. e = [c EXCEPT !.state = s.state] /\ Send(c, id, d).done = s.done
    BY <1>2 DEF Send
  <2>3. e \in Channel(Ids, Data, Caps)
    BY <2>1, <2>2 DEF Channel
  <2>4. e.capacity = c.capacity /\ e.size = c.size /\ e.isClosed = c.isClosed
    BY <2>2 DEF Channel
  <2> QED BY <1>2, <2>1, <2>2, <2>3, <2>4 DEF WellFormed, IsBuffered
<1> QED BY <1>1, <1>2

\* A receive does too, and returns a typed value or none.
LEMMA ReceiveType ==
  ASSUME NEW Ids, NEW Data, NEW Caps \in SUBSET Nat, NEW c \in Channel(Ids, Data, Caps),
         NEW id \in Ids, WellFormed(c)
  PROVE  /\ Receive(c, id).chan \in Channel(Ids, Data, Caps)
         /\ WellFormed(Receive(c, id).chan)
         /\ Receive(c, id).status \in {"Value", "Closed", "Blocked"}
         /\ Receive(c, id).data \in Data \cup {NoData}
         /\ Receive(c, id).chan.capacity = c.capacity
         /\ Receive(c, id).chan.isClosed = c.isClosed
<1> DEFINE r == Receive(c, id)
           e == r.chan
<1>0. r.status \in {"Value", "Closed", "Blocked"}
  BY DEF Receive, ReceiveStatus
<1>1. CASE IsBuffered(c)
  <2>1. CASE ~CanReceive(c)
    BY <1>0, <1>1, <2>1 DEF Receive, BufferedReceive, ReceiveStatus
  <2>2. CASE CanReceive(c)
    <3>1. /\ e = [c EXCEPT !.head = (@ + 1) % c.capacity, !.size = @ - 1]
          /\ r.data = c.buffer[c.head]
      BY <1>1, <2>2 DEF Receive, BufferedReceive, ReceiveStatus
    <3>2. /\ c.capacity \in Nat /\ c.capacity > 0 /\ c.size \in Nat \ {0}
          /\ c.head \in 0 .. c.capacity - 1
          /\ c.buffer \in [0 .. c.capacity - 1 -> Data \cup {NoData}]
      BY <1>1, <2>2, Fields DEF WellFormed, IsBuffered, CanReceive
    <3>3. (c.head + 1) % c.capacity \in 0 .. c.capacity - 1
      BY <3>2, Wrap
    <3>4. c.buffer[c.head] \in Data \cup {NoData}
      BY <3>2
    <3>5. e \in Channel(Ids, Data, Caps)
      <4>1. e = SetRing(c, c.buffer, (c.head + 1) % c.capacity, c.size - 1)
        BY <3>1 DEF Channel, SetRing
      <4>2. (c.head + 1) % c.capacity \in Nat /\ c.size - 1 \in Nat
        BY <3>2, <3>3
      <4> QED BY <3>2, <4>1, <4>2, WithRing
    <3>6. /\ e.capacity = c.capacity /\ e.head = (c.head + 1) % c.capacity
          /\ e.size = c.size - 1 /\ e.state = c.state /\ e.isClosed = c.isClosed
      BY <3>1 DEF Channel
    <3> QED BY <1>0, <1>1, <3>1, <3>2, <3>3, <3>4, <3>5, <3>6 DEF WellFormed, IsBuffered
  <2> QED BY <2>1, <2>2
<1>2. CASE ~IsBuffered(c)
  <2> DEFINE s == RendezvousReceive(c.state, id)
  <2>1. s.state \in RendezvousState(Ids, Data) /\ s.data \in Data \cup {NoData}
    BY DEF Channel, RendezvousState, RendezvousReceive, Initial, ReceiverReached,
           SenderReachedReceiverAccepted, Served
  <2>2. e = [c EXCEPT !.state = s.state] /\ r.data = s.data
    BY <1>2 DEF Receive, ReceiveStatus
  <2>3. e \in Channel(Ids, Data, Caps)
    BY <2>1, <2>2 DEF Channel
  <2>4. e.capacity = c.capacity /\ e.size = c.size /\ e.isClosed = c.isClosed
    BY <2>2 DEF Channel
  <2> QED BY <1>0, <1>2, <2>1, <2>2, <2>3, <2>4 DEF WellFormed, IsBuffered
<1> QED BY <1>1, <1>2

\* Closing touches the flag only.
LEMMA CloseKeeps ==
  ASSUME NEW Ids, NEW Data, NEW Caps, NEW c \in Channel(Ids, Data, Caps)
  PROVE  /\ CloseChannel(c) \in Channel(Ids, Data, Caps)
         /\ WellFormed(CloseChannel(c)) <=> WellFormed(c)
         /\ Contents(CloseChannel(c)) = Contents(c)
         /\ CloseChannel(c).capacity = c.capacity
         /\ CloseChannel(c).state = c.state
         /\ CloseChannel(c).isClosed
<1> DEFINE e == CloseChannel(c)
<1>1. /\ e.capacity = c.capacity /\ e.buffer = c.buffer /\ e.head = c.head
      /\ e.size = c.size /\ e.state = c.state /\ e.isClosed = TRUE
  BY DEF CloseChannel, Channel
<1>2. e \in Channel(Ids, Data, Caps)
  BY <1>1 DEF CloseChannel, Channel
<1>3. Contents(e) = Contents(c)
  <2> HIDE DEF e
  <2> QED BY <1>1 DEF Contents, IsBuffered
<1>4. WellFormed(e) <=> WellFormed(c)
  <2> HIDE DEF e
  <2> QED BY <1>1 DEF WellFormed, IsBuffered
<1> QED BY <1>1, <1>2, <1>3, <1>4

-----------------------------------------------------------------------------
(* A channel is a bounded queue.                                           *)

\* What the ring or the cell holds is a sequence of sent values, at most as
\* long as there are slots.
Slots(c) == IF IsBuffered(c) THEN c.capacity ELSE 1

\* The contents are a sequence no longer than the slots; in a ring, of length size.
LEMMA ContentsLength ==
  ASSUME NEW Ids, NEW Data, NEW Caps \in SUBSET Nat, NEW c \in Channel(Ids, Data, Caps),
         WellFormed(c)
  PROVE  /\ Contents(c) \in Seq(Data \cup {NoData})
         /\ Len(Contents(c)) <= Slots(c)
         /\ IsBuffered(c) => Len(Contents(c)) = c.size
<1>1. CASE IsBuffered(c)
  <2>1. /\ c.capacity \in Nat /\ c.capacity > 0 /\ c.size \in Nat
        /\ c.head \in 0 .. c.capacity - 1
        /\ c.buffer \in [0 .. c.capacity - 1 -> Data \cup {NoData}]
        /\ c.size <= c.capacity
    BY <1>1, Fields DEF WellFormed, IsBuffered
  <2>2. ASSUME NEW i \in 1 .. c.size
        PROVE  c.buffer[(c.head + i - 1) % c.capacity] \in Data \cup {NoData}
    <3>1. /\ i - 1 \in 0 .. c.capacity
          /\ c.head + i - 1 = c.head + (i - 1)
      BY <2>1
    <3>2. (c.head + i - 1) % c.capacity \in 0 .. c.capacity - 1
      BY <2>1, <3>1, Wrap
    <3> QED BY <2>1, <3>2
  <2>3. Contents(c) = [i \in 1 .. c.size |-> c.buffer[(c.head + i - 1) % c.capacity]]
    BY <1>1 DEF Contents
  <2>4. Contents(c) \in Seq(Data \cup {NoData}) /\ Len(Contents(c)) = c.size
    <3> DEFINE f(i) == c.buffer[(c.head + i - 1) % c.capacity]
    <3>1. \A i \in 1 .. c.size : f(i) \in Data \cup {NoData}
      BY <2>2
    <3>2. Contents(c) = [i \in 1 .. c.size |-> f(i)]
      BY <2>3
    <3> HIDE DEF f
    <3> QED BY <2>1, <3>1, <3>2
  <2> QED BY <1>1, <2>1, <2>4 DEF Slots
<1>2. CASE ~IsBuffered(c)
  <2>1. \/ Contents(c) = <<>>
        \/ \E d \in Data : Contents(c) = <<d>>
    BY <1>2, Fields DEF Contents, RendezvousState, Initial
  <2>2. ASSUME Contents(c) = <<>>
        PROVE  Contents(c) \in Seq(Data \cup {NoData}) /\ Len(Contents(c)) = 0
    BY <2>2
  <2>3. ASSUME NEW d \in Data, Contents(c) = <<d>>
        PROVE  Contents(c) \in Seq(Data \cup {NoData}) /\ Len(Contents(c)) = 1
    BY <2>3
  <2>4. Slots(c) = 1
    BY <1>2 DEF Slots
  <2>5. Contents(c) \in Seq(Data \cup {NoData}) /\ (Len(Contents(c)) = 0 \/ Len(Contents(c)) = 1)
    BY <2>1, <2>2, <2>3
  <2>6. Len(Contents(c)) <= Slots(c)
    <3>1. \A n, m : (n = 0 \/ n = 1) /\ m = 1 => n <= m
      OBVIOUS
    <3> QED BY <2>4, <2>5, <3>1
  <2> QED BY <1>2, <2>5, <2>6
<1> QED BY <1>1, <1>2

\* The slot at distance k from the head, for k = 0 .. size.
At(c, k) == (c.head + k) % c.capacity

\* Two different distances from the head below capacity are two slots.
LEMMA SlotsDiffer ==
  ASSUME NEW n \in Nat, n > 0, NEW h \in 0 .. n - 1, NEW j \in 0 .. n - 1, NEW k \in 0 .. n - 1
  PROVE  /\ (h + j) % n \in 0 .. n - 1
         /\ (h + j) % n = (h + k) % n => j = k
<1>1. (h + j) % n = IF h + j < n THEN h + j ELSE h + j - n
  BY Wrap
<1>2. (h + k) % n = IF h + k < n THEN h + k ELSE h + k - n
  BY Wrap
<1> QED BY <1>1, <1>2

\* The fields of a well-formed ring, in the ranges its arithmetic needs.
LEMMA BufferedFields ==
  ASSUME NEW Ids, NEW Data, NEW Caps \in SUBSET Nat, NEW c \in Channel(Ids, Data, Caps),
         WellFormed(c), IsBuffered(c)
  PROVE  /\ c.capacity \in Nat /\ c.capacity > 0
         /\ c.head \in 0 .. c.capacity - 1 /\ c.size \in 0 .. c.capacity
         /\ Contents(c) \in Seq(Data \cup {NoData})
         /\ Len(Contents(c)) = c.size
<1>1. /\ c.capacity \in Nat /\ c.capacity > 0
      /\ c.head \in 0 .. c.capacity - 1 /\ c.size \in 0 .. c.capacity
  BY Fields DEF WellFormed, IsBuffered
<1> QED BY <1>1, ContentsLength

\* The i-th oldest value of a ring is i - 1 slots after its head.
LEMMA ContentsAt ==
  ASSUME NEW Ids, NEW Data, NEW Caps \in SUBSET Nat, NEW c \in Channel(Ids, Data, Caps),
         WellFormed(c), IsBuffered(c), NEW i \in 1 .. c.size
  PROVE  Contents(c)[i] = c.buffer[At(c, i - 1)]
<1>1. c.head + (i - 1) = c.head + i - 1
  BY Fields
<1> QED BY <1>1 DEF Contents, At

\* A send either leaves the queue as it is or puts its value at the end,
\* within the slots there are.
LEMMA SendIsPut ==
  ASSUME NEW Ids, NEW Data, NEW Caps \in SUBSET Nat, NEW c \in Channel(Ids, Data, Caps),
         WellFormed(c), NEW id \in Ids, NEW d \in Data
  PROVE  \/ Contents(Send(c, id, d).chan) = Contents(c)
         \/ /\ Len(Contents(c)) < Slots(c)
            /\ Contents(Send(c, id, d).chan) = Append(Contents(c), d)
<1> DEFINE e == Send(c, id, d).chan
<1>1. CASE IsBuffered(c) /\ CanSend(c)
  <2>0. IsBuffered(c)
    BY <1>1
  <2>1. /\ e = [c EXCEPT !.buffer[At(c, c.size)] = d, !.size = @ + 1]
    BY <1>1 DEF Send, BufferedSend, At
  <2>2. /\ e.capacity = c.capacity /\ e.head = c.head /\ e.size = c.size + 1
        /\ e.buffer = [c.buffer EXCEPT ![At(c, c.size)] = d]
    BY <2>1 DEF Channel
  <2>3. /\ e \in Channel(Ids, Data, Caps) /\ WellFormed(e) /\ IsBuffered(e)
    BY <1>1, <2>2, SendType DEF IsBuffered
  <2>4. /\ c.capacity \in Nat /\ c.capacity > 0
        /\ c.head \in 0 .. c.capacity - 1 /\ c.size \in 0 .. c.capacity - 1
        /\ c.buffer \in [0 .. c.capacity - 1 -> Data \cup {NoData}]
    <3>1. /\ c.capacity \in Nat /\ c.capacity > 0
          /\ c.head \in 0 .. c.capacity - 1 /\ c.size \in 0 .. c.capacity
      BY <2>0, BufferedFields
    <3>2. c.buffer \in [0 .. c.capacity - 1 -> Data \cup {NoData}]
      BY Fields
    <3> QED BY <1>1, <3>1, <3>2 DEF CanSend
  <2>5. At(c, c.size) \in 0 .. c.capacity - 1
    BY <2>4, SlotsDiffer DEF At
  <2>6. /\ Contents(c) \in Seq(Data \cup {NoData}) /\ Contents(e) \in Seq(Data \cup {NoData})
        /\ Len(Contents(c)) = c.size /\ Len(Contents(e)) = c.size + 1
    <3>1. Contents(c) \in Seq(Data \cup {NoData}) /\ Len(Contents(c)) = c.size
      BY <2>0, BufferedFields
    <3>2. Contents(e) \in Seq(Data \cup {NoData}) /\ Len(Contents(e)) = e.size
      BY <2>3, BufferedFields
    <3> QED BY <2>2, <3>1, <3>2
  <2>7. ASSUME NEW i \in 1 .. c.size PROVE Contents(e)[i] = Contents(c)[i]
    <3>1. /\ Contents(e)[i] = e.buffer[At(e, i - 1)]
          /\ Contents(c)[i] = c.buffer[At(c, i - 1)]
      <4>1. i \in 1 .. e.size
        BY <2>2, <2>4
      <4>2. Contents(e)[i] = e.buffer[At(e, i - 1)]
        BY <2>3, <4>1, ContentsAt
      <4>3. Contents(c)[i] = c.buffer[At(c, i - 1)]
        BY <2>0, ContentsAt
      <4> QED BY <4>2, <4>3
    <3>2. At(e, i - 1) = At(c, i - 1)
      BY <2>2 DEF At
    <3>3. i - 1 \in 0 .. c.capacity - 1 /\ i - 1 # c.size
      BY <2>4
    <3>4. At(c, i - 1) # At(c, c.size) /\ At(c, i - 1) \in 0 .. c.capacity - 1
      BY <2>4, <3>3, SlotsDiffer DEF At
    <3> QED BY <2>2, <2>4, <3>1, <3>2, <3>4
  <2>8. Contents(e)[c.size + 1] = d
    <3>1. c.size + 1 \in 1 .. e.size /\ (c.size + 1) - 1 = c.size
      BY <2>2, <2>4
    <3>2. Contents(e)[c.size + 1] = e.buffer[At(e, (c.size + 1) - 1)]
      BY <2>3, <3>1, ContentsAt
    <3>3. At(e, c.size) = At(c, c.size)
      BY <2>2 DEF At
    <3> QED BY <2>2, <2>4, <2>5, <3>1, <3>2, <3>3
  <2>9. Contents(e) = Append(Contents(c), d)
    <3> DEFINE p == Contents(e)
               q == Append(Contents(c), d)
               D == Data \cup {NoData}
    <3>1. q \in Seq(D) /\ Len(q) = c.size + 1
      BY <2>6
    <3>2. ASSUME NEW i \in 1 .. c.size + 1 PROVE p[i] = q[i]
      BY <2>4, <2>6, <2>7, <2>8
    <3> QED BY <2>4, <2>6, <3>1, <3>2, SeqEqual
  <2>10. Len(Contents(c)) < Slots(c)
    <3>1. Slots(c) = c.capacity
      BY <1>1 DEF Slots
    <3> QED BY <2>4, <2>6, <3>1
  <2> QED BY <2>9, <2>10
<1>2. CASE IsBuffered(c) /\ ~CanSend(c)
  BY <1>2 DEF Send, BufferedSend
<1>3. CASE ~IsBuffered(c)
  <2> DEFINE s == RendezvousSend(c.state, id, d)
  <2>1. e = [c EXCEPT !.state = s.state] /\ e.state = s.state /\ ~IsBuffered(e)
    BY <1>3 DEF Send, Channel, IsBuffered
  <2>2. c.state \in RendezvousState(Ids, Data)
    BY Fields
  <2>3. CASE c.state.tag \in {"Initial", "ReceiverReached"}
    <3>1. Contents(c) = <<>> /\ Contents(e) = <<d>>
      BY <1>3, <2>1, <2>3 DEF RendezvousSend, SenderReached, ReceiverReachedSenderAccepted,
                              Contents, Acknowledged
    <3>2. Slots(c) = 1
      BY <1>3 DEF Slots
    <3> QED BY <3>1, <3>2
  <2>4. CASE c.state.tag = "SenderReachedReceiverAccepted"
    BY <1>3, <2>1, <2>4 DEF RendezvousSend, Initial, Contents, Acknowledged
  <2>5. CASE c.state.tag \in {"SenderReached", "ReceiverReachedSenderAccepted"}
    BY <1>3, <2>1, <2>5 DEF RendezvousSend, Contents, Acknowledged
  <2> QED BY <2>2, <2>3, <2>4, <2>5 DEF RendezvousState, Initial
<1> QED BY <1>1, <1>2, <1>3

\* A receive either reports no value and leaves the queue as it is, or takes
\* the oldest value.
LEMMA ReceiveIsTake ==
  ASSUME NEW Ids, NEW Data, NEW Caps \in SUBSET Nat, NEW c \in Channel(Ids, Data, Caps),
         WellFormed(c), NEW id \in Ids
  PROVE  \/ /\ Receive(c, id).status # "Value"
            /\ Contents(Receive(c, id).chan) = Contents(c)
         \/ /\ Receive(c, id).status = "Value"
            /\ Contents(c) # <<>>
            /\ Receive(c, id).data = Head(Contents(c))
            /\ Contents(Receive(c, id).chan) = Tail(Contents(c))
<1> DEFINE r == Receive(c, id)
           e == r.chan
<1>1. CASE IsBuffered(c) /\ CanReceive(c)
  <2>0. IsBuffered(c)
    BY <1>1
  <2>1. /\ e = [c EXCEPT !.head = (@ + 1) % c.capacity, !.size = @ - 1]
        /\ r.data = c.buffer[c.head] /\ r.status = "Value"
    BY <1>1 DEF Receive, BufferedReceive, ReceiveStatus
  <2>2. /\ e.capacity = c.capacity /\ e.head = At(c, 1) /\ e.size = c.size - 1
        /\ e.buffer = c.buffer
    BY <2>1 DEF Channel, At
  <2>3. e \in Channel(Ids, Data, Caps) /\ WellFormed(e) /\ IsBuffered(e)
    BY <1>1, <2>2, ReceiveType DEF IsBuffered
  <2>4. /\ c.capacity \in Nat /\ c.capacity > 0
        /\ c.head \in 0 .. c.capacity - 1 /\ c.size \in 1 .. c.capacity
    <3>1. /\ c.capacity \in Nat /\ c.capacity > 0
          /\ c.head \in 0 .. c.capacity - 1 /\ c.size \in 0 .. c.capacity
      BY <2>0, BufferedFields
    <3> QED BY <1>1, <3>1 DEF CanReceive
  <2>5. /\ Contents(c) \in Seq(Data \cup {NoData}) /\ Contents(e) \in Seq(Data \cup {NoData})
        /\ Len(Contents(c)) = c.size /\ Len(Contents(e)) = c.size - 1
    <3>1. Contents(c) \in Seq(Data \cup {NoData}) /\ Len(Contents(c)) = c.size
      BY <2>0, BufferedFields
    <3>2. Contents(e) \in Seq(Data \cup {NoData}) /\ Len(Contents(e)) = e.size
      BY <2>3, BufferedFields
    <3> QED BY <2>2, <3>1, <3>2
  <2>6. Contents(c) # <<>>
    BY <2>4, <2>5
  <2>7. r.data = Head(Contents(c))
    <3>1. At(c, 0) = c.head
      BY <2>4, Wrap DEF At
    <3>2. Contents(c)[1] = c.buffer[At(c, 0)]
      <4>1. 1 \in 1 .. c.size /\ 1 - 1 = 0
        BY <2>4
      <4>2. Contents(c)[1] = c.buffer[At(c, 1 - 1)]
        BY <2>0, <4>1, ContentsAt
      <4> QED BY <4>1, <4>2
    <3> QED BY <2>1, <2>5, <2>6, <3>1, <3>2
  <2>8. ASSUME NEW i \in 1 .. c.size - 1 PROVE Contents(e)[i] = Contents(c)[i + 1]
    <3>1. i \in 1 .. e.size /\ i + 1 \in 1 .. c.size /\ (i + 1) - 1 = i
      BY <2>2, <2>4
    <3>2. Contents(e)[i] = c.buffer[At(e, i - 1)]
      BY <2>2, <2>3, <3>1, ContentsAt
    <3>3. Contents(c)[i + 1] = c.buffer[At(c, i)]
      <4>1. Contents(c)[i + 1] = c.buffer[At(c, (i + 1) - 1)]
        BY <2>0, <3>1, ContentsAt
      <4> QED BY <3>1, <4>1
    <3>4. At(e, i - 1) = At(c, i)
      <4> DEFINE n == c.capacity
                 h == c.head
      <4>1. /\ i \in 0 .. n /\ i - 1 \in 0 .. n /\ 1 \in 0 .. n /\ e.head \in 0 .. n - 1
        <5>1. e.head \in 0 .. e.capacity - 1
          BY <2>3, BufferedFields
        <5> QED BY <2>2, <2>4, <5>1
      <4>2. e.head = IF h + 1 < n THEN h + 1 ELSE h + 1 - n
        BY <2>2, <2>4, <4>1, Wrap DEF At
      <4>3. At(c, i) = IF h + i < n THEN h + i ELSE h + i - n
        BY <2>4, <4>1, Wrap DEF At
      <4>4. At(e, i - 1) = IF e.head + (i - 1) < n THEN e.head + (i - 1) ELSE e.head + (i - 1) - n
        BY <2>2, <2>4, <4>1, Wrap DEF At
      <4> QED BY <2>4, <4>1, <4>2, <4>3, <4>4
    <3> QED BY <3>2, <3>3, <3>4
  <2>9. Contents(e) = Tail(Contents(c))
    <3> DEFINE p == Contents(e)
               q == Tail(Contents(c))
               D == Data \cup {NoData}
    <3>1. /\ q \in Seq(D) /\ Len(q) = c.size - 1
          /\ \A i \in 1 .. c.size - 1 : q[i] = Contents(c)[i + 1]
      BY <2>4, <2>5, <2>6, HeadTailProperties
    <3>2. ASSUME NEW i \in 1 .. c.size - 1 PROVE p[i] = q[i]
      BY <2>8, <3>1
    <3> QED BY <2>4, <2>5, <3>1, <3>2, SeqEqual
  <2> QED BY <2>1, <2>6, <2>7, <2>9
<1>2. CASE IsBuffered(c) /\ ~CanReceive(c)
  BY <1>2 DEF Receive, BufferedReceive, ReceiveStatus
<1>3. CASE ~IsBuffered(c)
  <2> DEFINE s == RendezvousReceive(c.state, id)
  <2>1. /\ e = [c EXCEPT !.state = s.state] /\ e.state = s.state /\ ~IsBuffered(e)
        /\ r.data = s.data /\ (r.status = "Value" <=> s.done)
    BY <1>3 DEF Receive, Channel, IsBuffered, ReceiveStatus
  <2>2. c.state \in RendezvousState(Ids, Data)
    BY Fields
  <2>3. CASE c.state.tag \in {"Initial", "ReceiverReached", "SenderReachedReceiverAccepted"}
    <3>1. Contents(c) = <<>> /\ Contents(e) = <<>> /\ s.done = FALSE
      BY <1>3, <2>1, <2>3 DEF RendezvousReceive, ReceiverReached, Contents, Served
    <3> QED BY <2>1, <3>1
  <2>4. CASE \/ c.state.tag = "SenderReached"
             \/ c.state.tag = "ReceiverReachedSenderAccepted" /\ c.state.receiver = id
    <3>1. Contents(c) = <<c.state.data>> /\ Contents(e) = <<>> /\ s.done = TRUE
      BY <1>3, <2>1, <2>4 DEF RendezvousReceive, Initial, SenderReachedReceiverAccepted, Contents, Served
    <3>2. s.data = c.state.data
      BY <2>4 DEF RendezvousReceive, Served
    <3> QED BY <2>1, <3>1, <3>2
  <2>5. CASE c.state.tag = "ReceiverReachedSenderAccepted" /\ c.state.receiver # id
    <3>1. Contents(e) = Contents(c) /\ s.done = FALSE
      BY <1>3, <2>1, <2>5 DEF RendezvousReceive, Contents, Served
    <3> QED BY <2>1, <3>1
  <2> QED BY <2>2, <2>3, <2>4, <2>5 DEF RendezvousState, Initial
<1> QED BY <1>1, <1>2, <1>3

-----------------------------------------------------------------------------
(* Who is registered in a rendezvous cell after an operation.              *)

Offering(st) == st.tag \in {"SenderReached", "SenderReachedReceiverAccepted"}

\* A send that completes leaves no sender registered; one that does not either
\* changes nothing or registers itself in an empty cell.
LEMMA SendState ==
  ASSUME NEW Ids, NEW Data, NEW Caps \in SUBSET Nat, NEW c \in Channel(Ids, Data, Caps),
         WellFormed(c), NEW id, NEW d
  PROVE  \/ Send(c, id, d).done /\ ~Offering(Send(c, id, d).chan.state)
         \/ ~Send(c, id, d).done /\ Send(c, id, d).chan.state = c.state
         \/ ~Send(c, id, d).done /\ Send(c, id, d).chan.state = SenderReached(id, d)
<1>1. CASE IsBuffered(c)
  <2>1. c.state = Initial
    BY <1>1 DEF WellFormed
  <2>2. Send(c, id, d).chan.state = c.state /\ Send(c, id, d).done \in BOOLEAN
    BY <1>1 DEF Send, BufferedSend, Channel
  <2> QED BY <2>1, <2>2 DEF Offering, Initial
<1>2. CASE ~IsBuffered(c)
  <2> DEFINE s == RendezvousSend(c.state, id, d)
  <2>1. Send(c, id, d).chan.state = s.state /\ Send(c, id, d).done = s.done
    BY <1>2 DEF Send, Channel
  <2>2. \/ s.done = TRUE /\ ~Offering(s.state)
        \/ s.done = FALSE /\ s.state = c.state
        \/ s.done = FALSE /\ s.state = SenderReached(id, d)
    BY DEF RendezvousSend, Offering, Initial, ReceiverReachedSenderAccepted, Acknowledged
  <2> QED BY <2>1, <2>2
<1> QED BY <1>1, <1>2

\* A receive registers no sender, and keeps the one that was there.
LEMMA ReceiveState ==
  ASSUME NEW Ids, NEW Data, NEW Caps \in SUBSET Nat, NEW c \in Channel(Ids, Data, Caps),
         WellFormed(c), NEW id, Offering(Receive(c, id).chan.state)
  PROVE  /\ Offering(c.state)
         /\ Receive(c, id).chan.state.sender = c.state.sender
         /\ Receive(c, id).chan.state.tag = "SenderReached" =>
              Receive(c, id).chan.state = c.state
<1>1. CASE IsBuffered(c)
  <2>1. Receive(c, id).chan.state = c.state
    BY <1>1 DEF Receive, BufferedReceive, Channel, ReceiveStatus
  <2> QED BY <2>1
<1>2. CASE ~IsBuffered(c)
  <2> DEFINE s == RendezvousReceive(c.state, id)
  <2>1. Receive(c, id).chan.state = s.state
    BY <1>2 DEF Receive, Channel, ReceiveStatus
  <2>2. \/ s.state = c.state
        \/ s.state = Initial \/ s.state = ReceiverReached(id)
        \/ c.state.tag = "SenderReached" /\ s.state = SenderReachedReceiverAccepted(c.state.sender)
    BY DEF RendezvousReceive, Served
  <2>3. ~Offering(Initial) /\ ~Offering(ReceiverReached(id))
    BY DEF Offering, Initial, ReceiverReached
  <2>4. CASE s.state = c.state
    BY <2>1, <2>4
  <2>5. CASE c.state.tag = "SenderReached" /\ s.state = SenderReachedReceiverAccepted(c.state.sender)
    <3>1. Offering(c.state)
      BY <2>5 DEF Offering
    <3>2. s.state.sender = c.state.sender /\ s.state.tag = "SenderReachedReceiverAccepted"
      BY <2>5 DEF SenderReachedReceiverAccepted
    <3> QED BY <2>1, <3>1, <3>2
  <2> QED BY <2>1, <2>2, <2>3, <2>4, <2>5
<1> QED BY <1>1, <1>2

Waiting(st) == st.tag \in {"ReceiverReached", "ReceiverReachedSenderAccepted"}

\* A send registers no receiver, and keeps the one that was there.
LEMMA SendWaiting ==
  ASSUME NEW Ids, NEW Data, NEW Caps \in SUBSET Nat, NEW c \in Channel(Ids, Data, Caps),
         WellFormed(c), NEW id, NEW d, Waiting(Send(c, id, d).chan.state)
  PROVE  Waiting(c.state) /\ Send(c, id, d).chan.state.receiver = c.state.receiver
<1>1. CASE IsBuffered(c)
  <2>1. Send(c, id, d).chan.state = c.state
    BY <1>1 DEF Send, BufferedSend, Channel
  <2> QED BY <2>1
<1>2. CASE ~IsBuffered(c)
  <2> DEFINE s == RendezvousSend(c.state, id, d)
  <2>1. Send(c, id, d).chan.state = s.state
    BY <1>2 DEF Send, Channel
  <2>2. \/ s.state = SenderReached(id, d) \/ s.state = Initial \/ s.state = c.state
        \/ /\ c.state.tag = "ReceiverReached"
           /\ s.state = ReceiverReachedSenderAccepted(c.state.receiver, d)
    BY DEF RendezvousSend, Acknowledged
  <2>3. ~Waiting(SenderReached(id, d)) /\ ~Waiting(Initial)
    BY DEF Waiting, SenderReached, Initial
  <2>4. CASE s.state = c.state
    BY <2>1, <2>4
  <2>5. CASE /\ c.state.tag = "ReceiverReached"
             /\ s.state = ReceiverReachedSenderAccepted(c.state.receiver, d)
    BY <2>1, <2>5 DEF Waiting, ReceiverReachedSenderAccepted
  <2> QED BY <2>1, <2>2, <2>3, <2>4, <2>5
<1> QED BY <1>1, <1>2

\* A receive that leaves a receiver registered has no value; it is itself the
\* one it registers, or keeps the other one that was there.
LEMMA ReceiveWaiting ==
  ASSUME NEW Ids, NEW Data, NEW Caps \in SUBSET Nat, NEW c \in Channel(Ids, Data, Caps),
         WellFormed(c), NEW id, Waiting(Receive(c, id).chan.state)
  PROVE  /\ Receive(c, id).status # "Value"
         /\ \/ Receive(c, id).chan.state = ReceiverReached(id)
            \/ /\ Receive(c, id).chan.state = c.state
               /\ ~Served(c.state, id)
<1>1. ~IsBuffered(c)
  <2>1. ASSUME IsBuffered(c) PROVE Receive(c, id).chan.state = Initial
    BY <2>1 DEF Receive, BufferedReceive, Channel, WellFormed
  <2> QED BY <2>1 DEF Waiting, Initial
<1> DEFINE s == RendezvousReceive(c.state, id)
<1>2. Receive(c, id).chan.state = s.state /\ (Receive(c, id).status = "Value" <=> s.done)
  BY <1>1 DEF Receive, Channel, ReceiveStatus
<1>3. CASE c.state.tag = "SenderReached"
  <2>1. s.state = SenderReachedReceiverAccepted(c.state.sender)
    BY <1>3 DEF RendezvousReceive, Served
  <2> QED BY <1>2, <2>1 DEF Waiting, SenderReachedReceiverAccepted
<1>4. CASE c.state.tag = "Initial"
  BY <1>2, <1>4 DEF RendezvousReceive, Served
<1>5. CASE Served(c.state, id)
  <2>1. s.state = Initial
    BY <1>5 DEF RendezvousReceive, Served
  <2> QED BY <1>2, <2>1 DEF Waiting, Initial
<1>6. CASE c.state.tag \notin {"SenderReached", "Initial"} /\ ~Served(c.state, id)
  BY <1>2, <1>6 DEF RendezvousReceive
<1> QED BY <1>3, <1>4, <1>5, <1>6

\* Only an accepted send or one that was accepted before leaves a value behind
\* for the receiver that waits.
LEMMA SendServes ==
  ASSUME NEW Ids, NEW Data, NEW Caps \in SUBSET Nat, NEW c \in Channel(Ids, Data, Caps),
         WellFormed(c), NEW id, NEW d,
         Send(c, id, d).chan.state.tag = "ReceiverReachedSenderAccepted"
  PROVE  \/ Send(c, id, d).chan.state = c.state
         \/ c.state.tag = "ReceiverReached"
<1>1. CASE IsBuffered(c)
  BY <1>1 DEF Send, BufferedSend, Channel
<1>2. CASE ~IsBuffered(c)
  <2> DEFINE s == RendezvousSend(c.state, id, d)
  <2>1. Send(c, id, d).chan.state = s.state
    BY <1>2 DEF Send, Channel
  <2>2. \/ s.state = SenderReached(id, d) \/ s.state = Initial \/ s.state = c.state
        \/ c.state.tag = "ReceiverReached"
    BY DEF RendezvousSend, Acknowledged
  <2>3. /\ SenderReached(id, d).tag # "ReceiverReachedSenderAccepted"
        /\ Initial.tag # "ReceiverReachedSenderAccepted"
    BY DEF SenderReached, Initial
  <2> QED BY <2>1, <2>2, <2>3
<1> QED BY <1>1, <1>2

\* The sender whose value was taken is told by its next try.
LEMMA SendTold ==
  ASSUME NEW Ids, NEW Data, NEW Caps \in SUBSET Nat, NEW c \in Channel(Ids, Data, Caps),
         WellFormed(c), NEW id, NEW d, c.state = SenderReachedReceiverAccepted(id)
  PROVE  Send(c, id, d).done /\ Send(c, id, d).chan.state = Initial
<1>1. ~IsBuffered(c)
  BY DEF WellFormed, Initial, SenderReachedReceiverAccepted
<1>2. Acknowledged(c.state, id) /\ c.state.tag \notin {"Initial", "ReceiverReached"}
  BY DEF Acknowledged, SenderReachedReceiverAccepted
<1> DEFINE s == RendezvousSend(c.state, id, d)
<1>3. s.state = Initial /\ s.done = TRUE
  BY <1>2 DEF RendezvousSend
<1>4. Send(c, id, d).chan.state = s.state /\ Send(c, id, d).done = s.done
  BY <1>1 DEF Send, Channel
<1> QED BY <1>3, <1>4

\* Until then no receive gets through the cell.
LEMMA ReceiveWaitsForAck ==
  ASSUME NEW Ids, NEW Data, NEW Caps \in SUBSET Nat, NEW c \in Channel(Ids, Data, Caps),
         WellFormed(c), NEW id, NEW s, c.state = SenderReachedReceiverAccepted(s)
  PROVE  Receive(c, id).chan.state = c.state
<1>1. ~IsBuffered(c)
  BY DEF WellFormed, Initial, SenderReachedReceiverAccepted
<1>2. c.state.tag = "SenderReachedReceiverAccepted"
  BY DEF SenderReachedReceiverAccepted
<1> QED BY <1>1, <1>2 DEF Receive, RendezvousReceive, Served, Channel

\* The four things a send does to a cell.
LEMMA SendCell ==
  ASSUME NEW Ids, NEW Data, NEW Caps \in SUBSET Nat, NEW c \in Channel(Ids, Data, Caps),
         WellFormed(c), ~IsBuffered(c), NEW id, NEW d
  PROVE  LET s == Send(c, id, d)
         IN  \/ /\ c.state = Initial /\ s.chan.state = SenderReached(id, d) /\ ~s.done
             \/ /\ c.state = SenderReachedReceiverAccepted(id)
                /\ s.chan.state = Initial /\ s.done
             \/ /\ c.state.tag = "ReceiverReached" /\ s.done
                /\ s.chan.state = ReceiverReachedSenderAccepted(c.state.receiver, d)
             \/ /\ c.state # SenderReachedReceiverAccepted(id)
                /\ s.chan.state = c.state /\ ~s.done
<1> DEFINE s == RendezvousSend(c.state, id, d)
<1>1. c.state \in RendezvousState(Ids, Data)
  BY Fields
<1>2. Send(c, id, d).chan.state = s.state /\ Send(c, id, d).done = s.done
  BY DEF Send, Channel
<1>3. CASE c.state.tag = "Initial"
  <2>1. c.state = Initial
    BY <1>1, <1>3 DEF RendezvousState
  <2>2. s.state = SenderReached(id, d) /\ s.done = FALSE
    BY <1>3 DEF RendezvousSend, Acknowledged
  <2> QED BY <1>2, <2>1, <2>2
<1>4. CASE Acknowledged(c.state, id)
  <2>1. c.state = SenderReachedReceiverAccepted(id)
    BY <1>1, <1>4 DEF RendezvousState, Acknowledged, SenderReachedReceiverAccepted, Initial
  <2>2. s.state = Initial /\ s.done = TRUE
    BY <1>4 DEF RendezvousSend, Acknowledged
  <2> QED BY <1>2, <2>1, <2>2
<1>5. CASE c.state.tag = "ReceiverReached"
  BY <1>2, <1>5 DEF RendezvousSend, Acknowledged
<1>6. CASE c.state.tag \notin {"Initial", "ReceiverReached"} /\ ~Acknowledged(c.state, id)
  <2>1. c.state # SenderReachedReceiverAccepted(id)
    BY <1>6 DEF Acknowledged, SenderReachedReceiverAccepted
  <2>2. s.state = c.state /\ s.done = FALSE
    BY <1>6 DEF RendezvousSend
  <2> QED BY <1>2, <2>1, <2>2
<1> QED BY <1>3, <1>4, <1>5, <1>6

\* The four things a receive does to one.
LEMMA ReceiveCell ==
  ASSUME NEW Ids, NEW Data, NEW Caps \in SUBSET Nat, NEW c \in Channel(Ids, Data, Caps),
         WellFormed(c), ~IsBuffered(c), NEW id
  PROVE  LET r == Receive(c, id)
         IN  \/ /\ c.state.tag = "SenderReached" /\ r.status = "Value" /\ r.data = c.state.data
                /\ r.chan.state = SenderReachedReceiverAccepted(c.state.sender)
             \/ /\ Served(c.state, id) /\ r.status = "Value" /\ r.data = c.state.data
                /\ r.chan.state = Initial
             \/ /\ ~Served(c.state, id)
                /\ r.status = IF c.isClosed THEN "Closed" ELSE "Blocked"
                /\ \/ c.state = Initial /\ r.chan.state = ReceiverReached(id)
                   \/ r.chan.state = c.state
<1> DEFINE s == RendezvousReceive(c.state, id)
<1>1. c.state \in RendezvousState(Ids, Data)
  BY Fields
<1>2. /\ Receive(c, id).chan.state = s.state /\ Receive(c, id).data = s.data
      /\ Receive(c, id).status = ReceiveStatus(s.done, c.isClosed)
  BY DEF Receive, Channel
<1>3. CASE c.state.tag = "Initial"
  <2>1. c.state = Initial
    BY <1>1, <1>3 DEF RendezvousState
  <2>2. s.state = ReceiverReached(id) /\ s.done = FALSE
    BY <1>3 DEF RendezvousReceive, Served
  <2>3. ~Served(c.state, id)
    BY <1>3 DEF Served
  <2> QED BY <1>2, <2>1, <2>2, <2>3 DEF ReceiveStatus
<1>4. CASE c.state.tag = "SenderReached"
  <2>1. /\ s.state = SenderReachedReceiverAccepted(c.state.sender)
        /\ s.done = TRUE /\ s.data = c.state.data
    BY <1>4 DEF RendezvousReceive, Served
  <2> QED BY <1>2, <1>4, <2>1 DEF ReceiveStatus
<1>5. CASE Served(c.state, id)
  <2>1. s.state = Initial /\ s.done = TRUE /\ s.data = c.state.data
    BY <1>5 DEF RendezvousReceive, Served
  <2> QED BY <1>2, <1>5, <2>1 DEF ReceiveStatus
<1>6. CASE c.state.tag \notin {"Initial", "SenderReached"} /\ ~Served(c.state, id)
  <2>1. s.state = c.state /\ s.done = FALSE
    BY <1>6 DEF RendezvousReceive
  <2> QED BY <1>2, <1>6, <2>1 DEF ReceiveStatus
<1> QED BY <1>3, <1>4, <1>5, <1>6

-----------------------------------------------------------------------------
(* What has changed hands.  A rendezvous cell that only offers a value has  *)
(* not accepted it yet.                                                    *)

Acknowledging(c) == c.state.tag = "SenderReachedReceiverAccepted"

\* The values accepted from a sender and not yet given to a receiver.
Held(c) ==
  IF IsBuffered(c) \/ c.state.tag = "ReceiverReachedSenderAccepted"
  THEN Contents(c) ELSE <<>>

\* A send that does not complete accepts nothing; one that does has its value
\* accepted now, or learns that it has been received already.
LEMMA SendHolds ==
  ASSUME NEW Ids, NEW Data, NEW Caps \in SUBSET Nat, NEW c \in Channel(Ids, Data, Caps),
         WellFormed(c), NEW id \in Ids, NEW d \in Data
  PROVE  LET e == Send(c, id, d).chan
         IN  \/ /\ ~Send(c, id, d).done
                /\ Held(e) = Held(c)
                /\ Acknowledging(c) \/ Acknowledging(e) => e.state = c.state
             \/ /\ Send(c, id, d).done
                /\ ~Acknowledging(c) /\ ~Acknowledging(e)
                /\ Held(e) = Append(Held(c), d)
             \/ /\ Send(c, id, d).done
                /\ c.state = SenderReachedReceiverAccepted(id)
                /\ ~Acknowledging(e)
                /\ Held(c) = <<>> /\ Held(e) = <<>>
<1> DEFINE e == Send(c, id, d).chan
<1>1. CASE IsBuffered(c)
  <2>1. e.state = c.state /\ c.state = Initial /\ IsBuffered(e)
    BY <1>1, SendType DEF Send, BufferedSend, Channel, WellFormed, IsBuffered
  <2>2. Held(c) = Contents(c) /\ Held(e) = Contents(e)
    BY <1>1, <2>1 DEF Held
  <2>3. ~Acknowledging(c) /\ ~Acknowledging(e)
    BY <2>1 DEF Acknowledging, Initial
  <2>4. CASE CanSend(c)
    <3>1. Send(c, id, d).done /\ Contents(e) = Append(Contents(c), d)
      <4>1. Send(c, id, d).done /\ e.size = c.size + 1
        BY <1>1, <2>4 DEF Send, BufferedSend, Channel
      <4>2. Len(Contents(c)) = c.size /\ Len(Contents(e)) = e.size /\ c.size \in Nat
        <5>1. e \in Channel(Ids, Data, Caps) /\ WellFormed(e)
          BY SendType
        <5> HIDE DEF e
        <5>2. Len(Contents(c)) = c.size
          BY <1>1, ContentsLength
        <5>3. Len(Contents(e)) = e.size
          BY <2>1, <5>1, ContentsLength
        <5>4. c.size \in Nat
          BY Fields
        <5> QED BY <5>2, <5>3, <5>4
      <4>3. Contents(e) # Contents(c)
        BY <4>1, <4>2
      <4> QED BY <4>1, <4>3, SendIsPut
    <3> QED BY <2>2, <2>3, <3>1
  <2>5. CASE ~CanSend(c)
    BY <1>1, <2>5 DEF Send, BufferedSend
  <2> QED BY <2>4, <2>5
<1>2. CASE ~IsBuffered(c)
  <2> DEFINE s == RendezvousSend(c.state, id, d)
  <2>1. e.state = s.state /\ ~IsBuffered(e) /\ Send(c, id, d).done = s.done
    BY <1>2 DEF Send, Channel, IsBuffered
  <2>2. c.state \in RendezvousState(Ids, Data)
    BY Fields
  <2>3. CASE c.state.tag = "Initial"
    BY <1>2, <2>1, <2>3 DEF RendezvousSend, SenderReached, Held, Acknowledging, Acknowledged
  <2>4. CASE Acknowledged(c.state, id)
    <3>1. s.state = Initial /\ s.done
      BY <2>4 DEF RendezvousSend, Acknowledged
    <3>2. c.state = SenderReachedReceiverAccepted(id)
      BY <2>2, <2>4 DEF RendezvousState, Acknowledged, SenderReachedReceiverAccepted, Initial
    <3> QED BY <1>2, <2>1, <3>1, <3>2 DEF Held, Acknowledging, Initial,
                                          SenderReachedReceiverAccepted
  <2>5. CASE c.state.tag = "ReceiverReached"
    <3>1. s.state = ReceiverReachedSenderAccepted(c.state.receiver, d) /\ s.done
      BY <2>5 DEF RendezvousSend, Acknowledged
    <3>2. Held(c) = <<>> /\ Held(e) = <<d>> /\ Append(<<>>, d) = <<d>>
      BY <1>2, <2>1, <2>5, <3>1 DEF Held, Contents, ReceiverReachedSenderAccepted
    <3> QED BY <2>1, <2>5, <3>1, <3>2 DEF Acknowledging, ReceiverReachedSenderAccepted
  <2>6. CASE /\ c.state.tag \notin {"Initial", "ReceiverReached"}
             /\ ~Acknowledged(c.state, id)
    <3>1. s.state = c.state /\ s.done = FALSE
      BY <2>6 DEF RendezvousSend
    <3>2. Held(e) = Held(c)
      BY <1>2, <2>1, <3>1 DEF Held, Contents
    <3> QED BY <2>1, <3>1, <3>2
  <2> QED BY <2>3, <2>4, <2>5, <2>6
<1> QED BY <1>1, <1>2

\* A receive without a value accepts nothing; one with a value takes the
\* oldest accepted one, or accepts and takes the one a sender offers.
LEMMA ReceiveHolds ==
  ASSUME NEW Ids, NEW Data, NEW Caps \in SUBSET Nat, NEW c \in Channel(Ids, Data, Caps),
         WellFormed(c), NEW id \in Ids
  PROVE  LET r == Receive(c, id)
             e == r.chan
         IN  \/ /\ r.status # "Value"
                /\ Held(e) = Held(c)
                /\ Acknowledging(c) \/ Acknowledging(e) => e.state = c.state
             \/ /\ r.status = "Value"
                /\ ~Acknowledging(c) /\ ~Acknowledging(e)
                /\ Held(c) # <<>> /\ r.data = Head(Held(c)) /\ Held(e) = Tail(Held(c))
             \/ /\ r.status = "Value"
                /\ c.state.tag = "SenderReached" /\ r.data = c.state.data
                /\ e.state = SenderReachedReceiverAccepted(c.state.sender)
                /\ Held(c) = <<>> /\ Held(e) = <<>>
<1> DEFINE r == Receive(c, id)
           e == r.chan
<1>1. CASE IsBuffered(c)
  <2>1. e.state = c.state /\ c.state = Initial /\ IsBuffered(e)
    BY <1>1, ReceiveType DEF Receive, BufferedReceive, Channel, WellFormed, IsBuffered
  <2>2. Held(c) = Contents(c) /\ Held(e) = Contents(e)
    BY <1>1, <2>1 DEF Held
  <2>3. ~Acknowledging(c) /\ ~Acknowledging(e)
    BY <2>1 DEF Acknowledging, Initial
  <2> QED BY <2>2, <2>3, ReceiveIsTake
<1>2. CASE ~IsBuffered(c)
  <2> DEFINE s == RendezvousReceive(c.state, id)
  <2>1. /\ e.state = s.state /\ ~IsBuffered(e)
        /\ r.data = s.data /\ (r.status = "Value" <=> s.done)
    BY <1>2 DEF Receive, Channel, IsBuffered, ReceiveStatus
  <2>2. c.state \in RendezvousState(Ids, Data)
    BY Fields
  <2>3. CASE c.state.tag = "Initial"
    BY <1>2, <2>1, <2>3 DEF RendezvousReceive, ReceiverReached, Held, Acknowledging, Served
  <2>4. CASE c.state.tag = "SenderReached"
    <3>1. /\ s.state = SenderReachedReceiverAccepted(c.state.sender)
          /\ s.done = TRUE /\ s.data = c.state.data
      BY <2>4 DEF RendezvousReceive, Served
    <3> QED BY <1>2, <2>1, <2>4, <3>1 DEF Held, SenderReachedReceiverAccepted
  <2>5. CASE Served(c.state, id)
    <3>1. s.state = Initial /\ s.done = TRUE /\ s.data = c.state.data
      BY <2>5 DEF RendezvousReceive, Served
    <3>2. Held(c) = <<c.state.data>> /\ Held(e) = <<>>
      BY <1>2, <2>1, <2>5, <3>1 DEF Held, Contents, Initial, Served
    <3>3. Held(c) # <<>> /\ Head(Held(c)) = c.state.data /\ Tail(Held(c)) = <<>>
      BY <3>2
    <3> QED BY <2>1, <2>5, <3>1, <3>2, <3>3 DEF Acknowledging, Served, Initial
  <2>6. CASE c.state.tag \notin {"Initial", "SenderReached"} /\ ~Served(c.state, id)
    <3>1. s.state = c.state /\ s.done = FALSE
      BY <2>6 DEF RendezvousReceive
    <3>2. Held(e) = Held(c)
      BY <1>2, <2>1, <3>1 DEF Held, Contents
    <3> QED BY <2>1, <3>1, <3>2
  <2> QED BY <2>3, <2>4, <2>5, <2>6
<1> QED BY <1>1, <1>2

\* What is held is part of what the channel contains.
LEMMA HeldType ==
  ASSUME NEW c, NEW Data, Contents(c) \in Seq(Data)
  PROVE  Held(c) \in Seq(Data)
BY EmptySeq DEF Held

-----------------------------------------------------------------------------
(* The runtime and its channels.                                            *)

Caps == 0 .. MaxCapacity
AnyChannel == Channel(Threads, Payload, Caps)

-----------------------------------------------------------------------------
(* Frames.                                                                 *)

\* A frame has the fields its handler reads.
LEMMA FrameFields ==
  ASSUME NEW f \in Frames
  PROVE  /\ f.op \in {"send", "receive", "close", "new"} => f.channel \in Chans
         /\ f.op = "send" => f.data \in Payload
         /\ f.op = "new" => f.capacity \in Caps
         /\ f.op = "select" => f.entries \in Seq(Entries)
BY DEF Frames, UserCode, SpawnFrame, YieldFrame, Caps

\* So has a select entry.
LEMMA EntryFields ==
  ASSUME NEW e \in Entries
  PROVE  /\ e.channel \in Chans
         /\ e.dir \in {"send", "receive"}
         /\ e.dir = "send" => e.data \in Payload
BY DEF Entries

\* The entries of a select frame are entries, on channels the frame uses.
LEMMA EntryOf ==
  ASSUME NEW f \in Frames, f.op = "select", NEW i \in 1 .. Len(f.entries)
  PROVE  f.entries[i] \in Entries /\ f.entries[i].channel \in Used(f)
<1>1. f.entries \in Seq(Entries)
  BY FrameFields
<1>2. f.entries[i] \in Entries
  BY <1>1, ElementOfSeq
<1> QED BY <1>2 DEF Used

-----------------------------------------------------------------------------
(* The inductive invariant (ChannelSafety, RuntimeInv).                     *)

\* The invariant holds before the first step: no channel, no frame.
LEMMA RuntimeInitInv == RuntimeInit => RuntimeInv
<1> SUFFICES ASSUME RuntimeInit PROVE RuntimeInv
  OBVIOUS
<1>1. SchedulerInv
  BY InitInv DEF RuntimeInit
<1>2. Made = {}
  BY DEF RuntimeInit, Made
<1>3. RuntimeTypeOK
  BY <1>1 DEF RuntimeInit, RuntimeTypeOK, SchedulerInv, Frames, Results, NoResult, Result, UserCode
<1>4. FramesOK /\ NewOK
  BY DEF RuntimeInit, FramesOK, NewOK, Used, UserCode
<1> QED BY <1>1, <1>2, <1>3, <1>4 DEF RuntimeInv, ChannelsOK, SenderRegistrationLive

-----------------------------------------------------------------------------
(* What one step does to the scheduler and to the channels.                *)

\* Every handler is one of the scheduler's thread steps or leaves it alone.
LEMMA SchedulerStep == RuntimeNext => [SchedulerNext]_schedVars
<1> SUFFICES ASSUME RuntimeNext PROVE [SchedulerNext]_schedVars
  OBVIOUS
<1>1. CASE Loop
  BY <1>1 DEF Loop, SchedulerNext
<1>2. ASSUME NEW t \in Threads, Handler(t) \/ UserStep(t) PROVE [SchedulerNext]_schedVars
  <2>1. \/ Suspend(t) \/ SpawnThread(t) \/ Exit(t) \/ Halt(t, "abort")
        \/ UNCHANGED schedVars
    BY <1>2 DEF Handler, UserStep, Call, ChannelNew, ChannelSend, ChannelReceive, ChannelClose,
                ChannelSelect, SelectReady, SelectPoll, LwtSpawn, LwtYield, Terminate,
                Finish, Block, Abort
  <2> QED BY <2>1 DEF SchedulerNext, ThreadStep
<1>3. CASE Ended
  BY <1>3 DEF Ended
<1> QED BY <1>1, <1>2, <1>3 DEF RuntimeNext

\* The ways one channel can change in a step of thread t.
ChannelStep(t, c) ==
  \/ UNCHANGED chans[c]
  \/ c \notin Made /\ \E n \in Caps : chans'[c] = NewChannel(n)
  \/ c \in Made /\ \E d \in Payload : chans'[c] = Send(chans[c], t, d).chan
  \/ c \in Made /\ chans'[c] = Receive(chans[c], t).chan
  \/ c \in Made /\ ~chans[c].isClosed /\ chans'[c] = CloseChannel(chans[c])

\* The ways a frame and the stored result can change in a step of thread t.
FrameStep(t) ==
  \/ UNCHANGED <<frame, result>>
  \/ /\ MayStep(t)
     /\ \E r \in Results : result' = [result EXCEPT ![t] = r]
     /\ \/ frame' = [frame EXCEPT ![t] = UserCode]
        \/ \E f \in UserCalls : /\ frame[t] = UserCode /\ Callable(f)
                                /\ frame' = [frame EXCEPT ![t] = f]
                                /\ UNCHANGED <<schedVars, chans>>

\* What the handlers store is a result.
LEMMA ResultType ==
  ASSUME NEW s \in {"None", "Sent", "Value", "Closed", "Default"}, NEW i \in Nat,
         NEW d \in Payload \cup {NoData}
  PROVE  Result(s, i, d) \in Results
BY DEF Result, Results

\* A made channel is a well-formed channel.
LEMMA MadeType ==
  ASSUME RuntimeTypeOK, ChannelsOK, NEW c \in Made
  PROVE  c \in Chans /\ chans[c] \in AnyChannel /\ WellFormed(chans[c])
BY DEF RuntimeTypeOK, ChannelsOK, Made, AnyChannel, Caps

\* The capacities are numbers, in the form the channel lemmas ask for.
LEMMA Typed ==
  /\ Caps \in SUBSET Nat
  /\ AnyChannel = Channel(Threads, Payload, Caps)
BY ConstantsAssumption DEF Caps, AnyChannel

\* In every step some thread t changes channels, frames and results in one of
\* these ways.
LEMMA Steps ==
  ASSUME RuntimeInv, [RuntimeNext]_vars
  PROVE  /\ chans' = [c \in Chans |-> chans'[c]]
         /\ \E t \in Threads : FrameStep(t) /\ \A c \in Chans : ChannelStep(t, c)
<1> USE DEF RuntimeInv
<1>a. /\ chans = [c \in Chans |-> chans[c]]
      /\ frame \in [Threads -> Frames]
      /\ \A t \in Threads : Used(frame[t]) \subseteq Made
  BY DEF RuntimeTypeOK, FramesOK
<1>b. 0 \in Threads
  BY MaxThreadsAssumption DEF Threads
<1>1. CASE UNCHANGED <<chans, frame, result>>
  <2>1. FrameStep(0) /\ \A c \in Chans : ChannelStep(0, c)
    BY <1>1 DEF FrameStep, ChannelStep
  <2> QED BY <1>1, <1>a, <1>b, <2>1
<1> DEFINE Goal == /\ chans' = [c \in Chans |-> chans'[c]]
                   /\ \E t \in Threads : FrameStep(t) /\ \A c \in Chans : ChannelStep(t, c)
<1>2. ASSUME NEW t \in Threads, NEW f \in UserCalls, Call(t, f) PROVE Goal
  <2>1. NoResult \in Results
    BY DEF NoResult, Result, Results
  <2>2. FrameStep(t)
    BY <1>2, <2>1 DEF Call, FrameStep
  <2>3. chans' = chans
    BY <1>2 DEF Call
  <2> QED BY <1>a, <2>2, <2>3 DEF ChannelStep
<1>3. ASSUME NEW t \in Threads, NEW r \in Results, MayStep(t), Return(t, r) PROVE FrameStep(t)
  BY <1>3 DEF Return, FrameStep
<1>4. ASSUME NEW t \in Threads, ChannelNew(t) PROVE Goal
  <2> DEFINE c == frame[t].channel
             n == frame[t].capacity
  <2>1. /\ MayStep(t) /\ frame[t].op = "new"
        /\ chans' = [chans EXCEPT ![c] = NewChannel(n)]
        /\ Return(t, NoResult)
    BY <1>4 DEF ChannelNew, In, Finish
  <2>2. c \in Chans /\ n \in Caps /\ c \notin Made
    BY <1>a, <2>1, FrameFields DEF NewOK
  <2>3. NoResult \in Results
    BY DEF NoResult, Result, Results
  <2>4. \A e \in Chans : ChannelStep(t, e)
    BY <1>a, <2>1, <2>2 DEF ChannelStep
  <2> QED BY <1>3, <1>a, <2>1, <2>3, <2>4
<1>5. ASSUME NEW t \in Threads, ChannelSend(t) PROVE Goal
  <2> DEFINE c == frame[t].channel
             d == frame[t].data
  <2>1. /\ MayStep(t) /\ frame[t].op = "send"
        /\ chans' = [chans EXCEPT ![c] = Send(chans[c], t, d).chan]
        /\ Return(t, Result("Sent", 0, NoData)) \/ UNCHANGED <<frame, result>>
    BY <1>5 DEF ChannelSend, In, Finish, Block
  <2>2. c \in Chans /\ d \in Payload /\ c \in Made
    BY <1>a, <2>1, FrameFields DEF Used
  <2>3. FrameStep(t)
    BY <1>3, <2>1, ResultType DEF FrameStep
  <2>4. \A e \in Chans : ChannelStep(t, e)
    BY <1>a, <2>1, <2>2 DEF ChannelStep
  <2> QED BY <1>a, <2>1, <2>3, <2>4
<1>6. ASSUME NEW t \in Threads, ChannelReceive(t) PROVE Goal
  <2> DEFINE c == frame[t].channel
             r == Receive(chans[c], t)
  <2>1. /\ MayStep(t) /\ frame[t].op = "receive"
        /\ chans' = [chans EXCEPT ![c] = r.chan]
        /\ Return(t, Result(r.status, 0, r.data)) \/ UNCHANGED <<frame, result>>
        /\ r.status = "Blocked" => UNCHANGED <<frame, result>>
    BY <1>6 DEF ChannelReceive, In, Finish, Block
  <2>2. c \in Chans /\ c \in Made
    BY <1>a, <2>1, FrameFields DEF Used
  <2>3. r.status \in {"Value", "Closed", "Blocked"} /\ r.data \in Payload \cup {NoData}
    <3>1. chans[c] \in AnyChannel /\ WellFormed(chans[c])
      BY <2>2, MadeType
    <3> HIDE DEF c
    <3> QED BY <3>1, Typed, ReceiveType
  <2>4. FrameStep(t)
    <3>1. CASE r.status = "Blocked"
      BY <2>1, <3>1 DEF FrameStep
    <3>2. CASE r.status # "Blocked"
      <4>1. Result(r.status, 0, r.data) \in Results
        BY <2>3, <3>2, ResultType
      <4> QED BY <1>3, <2>1, <4>1 DEF FrameStep
    <3> QED BY <3>1, <3>2
  <2>5. \A e \in Chans : ChannelStep(t, e)
    BY <1>a, <2>1, <2>2 DEF ChannelStep
  <2> QED BY <1>a, <2>1, <2>4, <2>5
<1>7. ASSUME NEW t \in Threads, ChannelClose(t) PROVE Goal
  <2> DEFINE c == frame[t].channel
  <2>1. MayStep(t) /\ frame[t].op = "close"
    BY <1>7 DEF ChannelClose, In
  <2>2. c \in Chans /\ c \in Made
    BY <1>a, <2>1, FrameFields DEF Used
  <2>3. CASE chans[c].isClosed
    BY <1>1, <1>7, <2>3 DEF ChannelClose, Abort
  <2>4. CASE ~chans[c].isClosed
    <3>1. chans' = [chans EXCEPT ![c] = CloseChannel(chans[c])] /\ Return(t, NoResult)
      BY <1>7, <2>4 DEF ChannelClose, Finish
    <3>2. NoResult \in Results
      BY DEF NoResult, Result, Results
    <3>3. \A e \in Chans : ChannelStep(t, e)
      BY <1>a, <2>2, <2>4, <3>1 DEF ChannelStep
    <3> QED BY <1>3, <1>a, <2>1, <3>1, <3>2, <3>3
  <2> QED BY <2>3, <2>4
<1>8. ASSUME NEW t \in Threads, SelectReady(t) PROVE Goal
  <2>1. MayStep(t) /\ frame[t].op = "select"
    BY <1>8 DEF SelectReady, In
  <2>2. PICK i \in ReadyEntries(t) :
          LET e == frame[t].entries[i]
              s == Send(chans[e.channel], t, e.data)
              r == Receive(chans[e.channel], t)
          IN  IF e.dir = "send"
              THEN IF s.done
                   THEN /\ chans' = [chans EXCEPT ![e.channel] = s.chan]
                        /\ Finish(t, Result("Sent", i, NoData))
                   ELSE Abort(t)
              ELSE IF r.status = "Value"
                   THEN /\ chans' = [chans EXCEPT ![e.channel] = r.chan]
                        /\ Finish(t, Result("Value", i, r.data))
                   ELSE Abort(t)
    BY <1>8 DEF SelectReady
  <2> DEFINE e == frame[t].entries[i]
             s == Send(chans[e.channel], t, e.data)
             r == Receive(chans[e.channel], t)
  <2>3. i \in 1 .. Len(frame[t].entries) /\ i \in Nat
    BY <1>a, <2>1, FrameFields DEF ReadyEntries
  <2>4. e \in Entries /\ e.channel \in Chans /\ e.channel \in Made
    BY <1>a, <2>1, <2>3, EntryOf, EntryFields
  <2>5. CASE Abort(t)
    BY <1>1, <2>5 DEF Abort
  <2>6. CASE /\ e.dir = "send" /\ chans' = [chans EXCEPT ![e.channel] = s.chan]
             /\ Finish(t, Result("Sent", i, NoData))
    <3>1. e.data \in Payload /\ Result("Sent", i, NoData) \in Results
      BY <2>3, <2>4, <2>6, EntryFields, ResultType
    <3>2. FrameStep(t)
      BY <1>3, <2>1, <2>6, <3>1 DEF Finish
    <3>3. \A c \in Chans : ChannelStep(t, c)
      BY <1>a, <2>4, <2>6, <3>1 DEF ChannelStep
    <3> QED BY <1>a, <2>6, <3>2, <3>3
  <2>7. CASE /\ chans' = [chans EXCEPT ![e.channel] = r.chan]
             /\ Finish(t, Result("Value", i, r.data))
    <3>1. r.data \in Payload \cup {NoData}
      <4>1. chans[e.channel] \in AnyChannel /\ WellFormed(chans[e.channel])
        BY <2>4, MadeType
      <4> HIDE DEF e
      <4> QED BY <4>1, Typed, ReceiveType
    <3>2. Result("Value", i, r.data) \in Results
      BY <2>3, <3>1, ResultType
    <3>3. FrameStep(t)
      BY <1>3, <2>1, <2>7, <3>2 DEF Finish
    <3>4. \A c \in Chans : ChannelStep(t, c)
      BY <1>a, <2>4, <2>7 DEF ChannelStep
    <3> QED BY <1>a, <2>7, <3>3, <3>4
  <2> QED BY <2>2, <2>5, <2>6, <2>7
<1>9. ASSUME NEW t \in Threads, SelectPoll(t) PROVE Goal
  <2>1. /\ MayStep(t) /\ frame[t].op = "select"
        /\ chans' = [c \in Chans |-> IF c \in Polled(t) THEN Receive(chans[c], t).chan
                                                       ELSE chans[c]]
    BY <1>9 DEF SelectPoll, In
  <2>2. Polled(t) \subseteq Made
    BY <1>a, <2>1, EntryOf DEF Polled, Polls
  <2>3. \A c \in Chans : ChannelStep(t, c)
    BY <2>1, <2>2 DEF ChannelStep
  <2>4. FrameStep(t)
    <3>1. CASE Block(t)
      BY <3>1 DEF Block, FrameStep
    <3>2. CASE Finish(t, Result("Default", 0, NoData))
      BY <1>3, <2>1, <3>2, ResultType DEF Finish
    <3>3. ASSUME NEW i \in ClosedEntries(t), Finish(t, Result("Closed", i, NoData))
          PROVE  FrameStep(t)
      <4>1. i \in Nat
        BY <1>a, <2>1, FrameFields DEF ClosedEntries, Polls
      <4> QED BY <1>3, <2>1, <3>3, <4>1, ResultType DEF Finish
    <3> QED BY <1>9, <3>1, <3>2, <3>3 DEF SelectPoll
  <2> QED BY <2>1, <2>3, <2>4
<1>10. ASSUME NEW t \in Threads, LwtSpawn(t) \/ LwtYield(t) PROVE Goal
  <2>1. /\ MayStep(t) /\ Return(t, NoResult) /\ chans' = chans
    BY <1>10 DEF LwtSpawn, LwtYield, In
  <2>2. NoResult \in Results
    BY DEF NoResult, Result, Results
  <2>3. FrameStep(t)
    BY <1>3, <2>1, <2>2
  <2> QED BY <1>a, <2>1, <2>3 DEF ChannelStep
<1>11. ASSUME NEW t \in Threads, Terminate(t) PROVE Goal
  BY <1>1, <1>11 DEF Terminate
<1>12. CASE Loop \/ (Ended /\ UNCHANGED <<chans, frame, result>>) \/ UNCHANGED vars
  BY <1>1, <1>12 DEF Loop, vars
<1> QED
  BY <1>2, <1>4, <1>5, <1>6, <1>7, <1>8, <1>9, <1>10, <1>11, <1>12
     DEF RuntimeNext, Handler, UserStep, ChannelSelect

-----------------------------------------------------------------------------
(* Preservation, channel by channel.                                       *)

\* One channel keeps its type, its well-formedness and its sent values, and a
\* made channel stays made.
LEMMA OneChannel ==
  ASSUME RuntimeInv, NEW t \in Threads, NEW c \in Chans, ChannelStep(t, c)
  PROVE  /\ chans'[c] \in AnyChannel \cup {NotMade}
         /\ c \in Made => chans'[c] # NotMade
         /\ chans'[c] # NotMade =>
              WellFormed(chans'[c]) /\ Contents(chans'[c]) \in Seq(Payload)
<1> DEFINE Good(x) == /\ x \in AnyChannel
                      /\ x # NotMade
                      /\ WellFormed(x) /\ Contents(x) \in Seq(Payload)
<1>1. ASSUME NEW x \in AnyChannel PROVE x # NotMade
  BY ConstantsAssumption DEF AnyChannel, Caps
<1>2. c \in Made => Good(chans[c])
  BY <1>1, MadeType DEF RuntimeInv, ChannelsOK
<1>3. CASE UNCHANGED chans[c]
  <2>1. chans[c] \in AnyChannel \cup {NotMade}
    BY DEF RuntimeInv, RuntimeTypeOK, AnyChannel, Caps
  <2> QED BY <1>2, <1>3, <2>1 DEF Made
<1>4. ASSUME c \notin Made, NEW n \in Caps, chans'[c] = NewChannel(n) PROVE Good(chans'[c])
  <2>1. /\ NewChannel(n) \in AnyChannel /\ WellFormed(NewChannel(n))
        /\ Contents(NewChannel(n)) = <<>>
    BY Typed, NewType
  <2> QED BY <1>1, <1>4, <2>1
<1>5. ASSUME c \in Made, NEW d \in Payload, chans'[c] = Send(chans[c], t, d).chan
      PROVE  Good(chans'[c])
  <2>1. /\ chans[c] \in AnyChannel /\ WellFormed(chans[c])
        /\ Contents(chans[c]) \in Seq(Payload)
    BY <1>2, <1>5
  <2>2. chans'[c] \in AnyChannel /\ WellFormed(chans'[c])
    BY <1>5, <2>1, Typed, SendType
  <2>3. \/ Contents(chans'[c]) = Contents(chans[c])
        \/ Contents(chans'[c]) = Append(Contents(chans[c]), d)
    BY <1>5, <2>1, Typed, SendIsPut
  <2>4. Contents(chans'[c]) \in Seq(Payload)
    BY <2>1, <2>3, AppendProperties
  <2> QED BY <1>1, <2>2, <2>4
<1>6. ASSUME c \in Made, chans'[c] = Receive(chans[c], t).chan PROVE Good(chans'[c])
  <2>1. /\ chans[c] \in AnyChannel /\ WellFormed(chans[c])
        /\ Contents(chans[c]) \in Seq(Payload)
    BY <1>2, <1>6
  <2>2. chans'[c] \in AnyChannel /\ WellFormed(chans'[c])
    BY <1>6, <2>1, Typed, ReceiveType
  <2>3. \/ Contents(chans'[c]) = Contents(chans[c])
        \/ Contents(chans[c]) # <<>> /\ Contents(chans'[c]) = Tail(Contents(chans[c]))
    BY <1>6, <2>1, Typed, ReceiveIsTake
  <2>4. Contents(chans'[c]) \in Seq(Payload)
    BY <2>1, <2>3, HeadTailProperties
  <2> QED BY <1>1, <2>2, <2>4
<1>7. ASSUME c \in Made, chans'[c] = CloseChannel(chans[c]) PROVE Good(chans'[c])
  BY <1>1, <1>2, <1>7, CloseKeeps, Typed
<1> QED BY <1>3, <1>4, <1>5, <1>6, <1>7 DEF ChannelStep

\* The channel half of the type invariant, and ChannelsOK.
LEMMA ChannelsNext ==
  ASSUME RuntimeInv, [RuntimeNext]_vars
  PROVE  /\ chans' \in [Chans -> AnyChannel \cup {NotMade}]
         /\ Made \subseteq Made'
         /\ ChannelsOK'
<1>1. PICK t \in Threads : \A c \in Chans : ChannelStep(t, c)
  BY Steps
<1>2. chans' = [c \in Chans |-> chans'[c]]
  BY Steps
<1>3. \A c \in Chans :
        /\ chans'[c] \in AnyChannel \cup {NotMade}
        /\ c \in Made => chans'[c] # NotMade
        /\ chans'[c] # NotMade =>
             WellFormed(chans'[c]) /\ Contents(chans'[c]) \in Seq(Payload)
  BY <1>1, OneChannel
<1>4. chans' \in [Chans -> AnyChannel \cup {NotMade}]
  BY <1>2, <1>3
<1>5. Made \subseteq Made'
  BY <1>3 DEF Made
<1>6. ChannelsOK'
  BY <1>3 DEF ChannelsOK, Made
<1> QED BY <1>4, <1>5, <1>6

\* The frames keep their types and go on naming made channels only.
LEMMA FramesNext ==
  ASSUME RuntimeInv, [RuntimeNext]_vars
  PROVE  frame' \in [Threads -> Frames] /\ result' \in [Threads -> Results] /\ FramesOK'
<1> USE DEF RuntimeInv
<1>1. PICK t \in Threads : FrameStep(t)
  BY Steps
<1>2. /\ frame \in [Threads -> Frames] /\ result \in [Threads -> Results]
      /\ \A u \in Threads : Used(frame[u]) \subseteq Made
      /\ Made \subseteq Made'
  BY ChannelsNext DEF RuntimeTypeOK, FramesOK
<1>3. UserCode \in Frames /\ Used(UserCode) = {}
  BY DEF Frames, UserCode, Used
<1>4. CASE UNCHANGED <<frame, result>>
  BY <1>2, <1>4 DEF FramesOK
<1>5. ASSUME NEW f \in Frames, frame' = [frame EXCEPT ![t] = f], Used(f) \subseteq Made',
             \E r \in Results : result' = [result EXCEPT ![t] = r]
      PROVE  frame' \in [Threads -> Frames] /\ result' \in [Threads -> Results] /\ FramesOK'
  BY <1>2, <1>5 DEF FramesOK
<1>6. ASSUME NEW f \in UserCalls, Callable(f) PROVE f \in Frames /\ Used(f) \subseteq Made
  <2>1. f \in Frames
    BY ConstantsAssumption
  <2>2. Used(f) \subseteq Chans
    BY <2>1, FrameFields, EntryOf, EntryFields DEF Used
  <2> QED BY <1>6, <2>1, <2>2 DEF Callable, Made
<1> QED BY <1>1, <1>2, <1>3, <1>4, <1>5, <1>6 DEF FrameStep

\* The frame of gox5_channel_new is pushed by the running thread for a channel
\* that does not exist, and nobody else moves until it is popped.
LEMMA NewNext ==
  ASSUME RuntimeInv, [RuntimeNext]_vars
  PROVE  NewOK'
<1> SUFFICES ASSUME NEW u \in Threads, frame'[u].op = "new"
             PROVE  running' = u /\ u \notin suspended' /\ frame'[u].channel \notin Made'
  BY DEF NewOK, Threads
<1>1. frame \in [Threads -> Frames] /\ UserCode.op = "none"
  BY DEF RuntimeInv, RuntimeTypeOK, UserCode
<1>2. CASE frame[u].op = "new"
  <2>1. running = u /\ u \notin suspended /\ frame[u].channel \notin Made
    BY <1>2 DEF RuntimeInv, NewOK
  <2>2. CASE Loop
    <3>1. running # NoThread /\ running \notin suspended
      BY <2>1 DEF Threads, NoThread
    <3> QED BY <2>2, <3>1 DEF Loop, Dispatch, Requeue
  <2>3. ASSUME NEW t \in Threads, Handler(t) \/ UserStep(t) PROVE FALSE
    <3>1. MayStep(t)
      BY <2>3 DEF Handler, UserStep, Call, ChannelNew, ChannelSend, ChannelReceive, ChannelClose,
                  ChannelSelect, SelectReady, SelectPoll, LwtSpawn, LwtYield, Terminate,
                  In, Exit
    <3>2. t = u
      BY <2>1, <3>1 DEF MayStep
    <3>3. ChannelNew(u)
      BY <1>1, <1>2, <2>3, <3>2 DEF Handler, UserStep, Call, ChannelSend, ChannelReceive,
             ChannelClose, ChannelSelect, SelectReady, SelectPoll, LwtSpawn, LwtYield,
             Terminate, In
    <3>4. frame'[u] = UserCode
      BY <1>1, <3>3 DEF ChannelNew, Finish, Return
    <3> QED BY <1>1, <3>4
  <2>4. CASE (Ended /\ UNCHANGED <<chans, frame, result>>) \/ UNCHANGED vars
    BY <2>1, <2>4 DEF Ended, vars, schedVars, Made
  <2> QED BY <2>2, <2>3, <2>4 DEF RuntimeNext
<1>3. CASE frame[u].op # "new"
  <2>1. PICK t \in Threads : FrameStep(t)
    BY Steps
  <2>2. PICK f \in UserCalls : /\ MayStep(t) /\ Callable(f)
                               /\ frame' = [frame EXCEPT ![t] = f]
                               /\ UNCHANGED <<schedVars, chans>>
    BY <1>1, <1>3, <2>1 DEF FrameStep
  <2>3. t = u /\ frame'[u] = f
    BY <1>1, <1>3, <2>2
  <2>4. chans[f.channel] = NotMade
    BY <2>2, <2>3 DEF Callable
  <2> QED BY <2>2, <2>3, <2>4 DEF MayStep, schedVars, Made
<1> QED BY <1>2, <1>3

-----------------------------------------------------------------------------
(* Live senders.                                                           *)

\* What SenderRegistrationLive says of one channel.
SenderLive(c) ==
  Offering(chans[c].state) =>
    /\ Inside(chans[c].state.sender, "send", c)
    /\ chans[c].state.tag = "SenderReached" =>
         frame[chans[c].state.sender].data = chans[c].state.data

\* Channel c gains no offer in this step, and loses none of one it keeps.
NoNewOffer(c) ==
  Offering(chans'[c].state) =>
    /\ c \in Made
    /\ Offering(chans[c].state)
    /\ chans'[c].state.sender = chans[c].state.sender
    /\ chans'[c].state.tag = "SenderReached" => chans'[c].state = chans[c].state

\* SenderRegistrationLive, one channel at a time.
LEMMA SenderLiveEach ==
  SenderRegistrationLive <=> \A c \in Made : SenderLive(c)
BY DEF SenderRegistrationLive, SenderLive, Offering

\* Receiving, making and closing give a channel no new offer, and neither does
\* a send that completes.
LEMMA QuietStep ==
  ASSUME RuntimeInv, NEW t \in Threads, NEW c \in Chans,
         \/ c \in Made /\ UNCHANGED chans[c]
         \/ \E n \in Caps : chans'[c] = NewChannel(n)
         \/ c \in Made /\ \E d \in Payload : /\ Send(chans[c], t, d).done
                                             /\ chans'[c] = Send(chans[c], t, d).chan
         \/ c \in Made /\ chans'[c] = Receive(chans[c], t).chan
         \/ c \in Made /\ chans'[c] = CloseChannel(chans[c])
  PROVE  NoNewOffer(c)
<1>1. c \in Made => chans[c] \in AnyChannel /\ WellFormed(chans[c])
  BY MadeType DEF RuntimeInv
<1>2. CASE c \in Made /\ UNCHANGED chans[c]
  BY <1>2 DEF NoNewOffer
<1>3. ASSUME NEW n \in Caps, chans'[c] = NewChannel(n) PROVE NoNewOffer(c)
  BY <1>3 DEF NoNewOffer, NewChannel, Initial, Offering
<1>4. ASSUME c \in Made, NEW d \in Payload, Send(chans[c], t, d).done,
             chans'[c] = Send(chans[c], t, d).chan
      PROVE  NoNewOffer(c)
  <2>1. chans[c] \in AnyChannel /\ WellFormed(chans[c])
    BY <1>1, <1>4
  <2>2. ~Offering(Send(chans[c], t, d).chan.state)
    BY <1>4, <2>1, Typed, SendState
  <2> QED BY <1>4, <2>2 DEF NoNewOffer
<1>5. ASSUME c \in Made, chans'[c] = Receive(chans[c], t).chan PROVE NoNewOffer(c)
  <2>1. chans[c] \in AnyChannel /\ WellFormed(chans[c])
    BY <1>1, <1>5
  <2>2. ASSUME Offering(Receive(chans[c], t).chan.state)
        PROVE  /\ Offering(chans[c].state)
               /\ Receive(chans[c], t).chan.state.sender = chans[c].state.sender
               /\ Receive(chans[c], t).chan.state.tag = "SenderReached" =>
                    Receive(chans[c], t).chan.state = chans[c].state
    BY <2>1, <2>2, Typed, ReceiveState
  <2> QED BY <1>5, <2>2 DEF NoNewOffer
<1>6. ASSUME c \in Made, chans'[c] = CloseChannel(chans[c]) PROVE NoNewOffer(c)
  BY <1>1, <1>6, Typed, CloseKeeps DEF NoNewOffer
<1> QED BY <1>2, <1>3, <1>4, <1>5, <1>6

\* The thread an offer names is a thread.
LEMMA SenderType ==
  ASSUME RuntimeInv, NEW c \in Made, Offering(chans[c].state)
  PROVE  chans[c].state.sender \in Threads
<1>1. chans[c] \in Channel(Threads, Payload, Caps)
  BY MadeType, Typed DEF RuntimeInv
<1>2. chans[c].state \in RendezvousState(Threads, Payload)
  BY <1>1, Typed, Fields
<1> QED BY <1>2 DEF RendezvousState, Offering, Initial

\* An offer stays live when its channel gains none and its sender keeps its
\* frame.
LEMMA StaysLive ==
  ASSUME RuntimeInv, NEW c \in Made', NoNewOffer(c),
         \A u \in Threads : Inside(u, "send", c) => frame'[u] = frame[u]
  PROVE  SenderLive(c)'
<1> SUFFICES ASSUME Offering(chans'[c].state)
             PROVE  /\ frame'[chans'[c].state.sender].op = "send"
                    /\ frame'[chans'[c].state.sender].channel = c
                    /\ chans'[c].state.tag = "SenderReached" =>
                         frame'[chans'[c].state.sender].data = chans'[c].state.data
  BY DEF SenderLive, Inside, Offering
<1>1. /\ c \in Made /\ Offering(chans[c].state)
      /\ chans'[c].state.sender = chans[c].state.sender
      /\ chans'[c].state.tag = "SenderReached" => chans'[c].state = chans[c].state
  BY DEF NoNewOffer
<1> DEFINE s == chans[c].state.sender
<1>2. /\ Inside(s, "send", c)
      /\ chans[c].state.tag = "SenderReached" => frame[s].data = chans[c].state.data
  BY <1>1, SenderLiveEach DEF RuntimeInv, SenderLive
<1>3. frame'[s] = frame[s]
  BY <1>1, <1>2, SenderType
<1> QED BY <1>1, <1>2, <1>3 DEF Inside

\* A blocked send is the only step that leaves an offer behind, and it keeps
\* its frame; the others disturb no sender.
LEMMA SendersNext ==
  ASSUME RuntimeInv, [RuntimeNext]_vars
  PROVE  SenderRegistrationLive'
<1> USE DEF RuntimeInv
<1>a. /\ chans = [c \in Chans |-> chans[c]]
      /\ frame \in [Threads -> Frames]
      /\ \A t \in Threads : Used(frame[t]) \subseteq Made
      /\ Made \subseteq Chans /\ Made' \subseteq Chans
  BY DEF RuntimeTypeOK, FramesOK, Made
<1> DEFINE Others(t) == \A u \in Threads : u # t => frame'[u] = frame[u]
           Goal == SenderRegistrationLive'
<1>0. ASSUME NEW t \in Threads, frame[t].op # "send", Others(t) \/ frame' = frame,
             \A c \in Made' : NoNewOffer(c)
      PROVE  Goal
  <2>1. ASSUME NEW c \in Made' PROVE SenderLive(c)'
    <3>1. \A u \in Threads : Inside(u, "send", c) => frame'[u] = frame[u]
      BY <1>0 DEF Inside
    <3>2. NoNewOffer(c)
      BY <1>0
    <3> QED BY <3>1, <3>2, StaysLive
  <2> QED BY <2>1, SenderLiveEach DEF SenderRegistrationLive, SenderLive, Offering
<1>1. CASE UNCHANGED <<chans, frame>>
  BY <1>1 DEF SenderRegistrationLive, Inside, Made
<1>2. ASSUME NEW t \in Threads, NEW r, Return(t, r) PROVE Others(t)
  BY <1>2, <1>a DEF Return
<1>3. ASSUME NEW t \in Threads, NEW f \in UserCalls, Call(t, f) PROVE Goal
  <2>1. /\ frame[t] = UserCode /\ frame' = [frame EXCEPT ![t] = f] /\ chans' = chans
    BY <1>3 DEF Call
  <2>2. frame[t].op # "send" /\ Others(t)
    BY <1>a, <2>1 DEF UserCode
  <2>3. \A c \in Made' : NoNewOffer(c)
    BY <2>1 DEF NoNewOffer, Made
  <2> QED BY <1>0, <2>2, <2>3
<1>4. ASSUME NEW t \in Threads, NEW e \in Chans, chans' = [chans EXCEPT ![e] = chans'[e]],
             \/ \E n \in Caps : chans'[e] = NewChannel(n)
             \/ e \in Made /\ \E d \in Payload : /\ Send(chans[e], t, d).done
                                                 /\ chans'[e] = Send(chans[e], t, d).chan
             \/ e \in Made /\ chans'[e] = Receive(chans[e], t).chan
             \/ e \in Made /\ chans'[e] = CloseChannel(chans[e])
      PROVE  \A c \in Made' : NoNewOffer(c)
  <2>1. NoNewOffer(e)
    BY <1>4, QuietStep
  <2>2. ASSUME NEW c \in Made', c # e PROVE NoNewOffer(c)
    <3>1. chans'[c] = chans[c] /\ c \in Made
      BY <1>4, <1>a, <2>2 DEF Made
    <3> QED BY <3>1 DEF NoNewOffer
  <2> QED BY <2>1, <2>2
<1>5. ASSUME NEW t \in Threads, ChannelNew(t) PROVE Goal
  <2>1. /\ frame[t].op = "new"
        /\ chans' = [chans EXCEPT ![frame[t].channel] = NewChannel(frame[t].capacity)]
        /\ Others(t)
    BY <1>5, <1>2 DEF ChannelNew, In, Finish
  <2>2. frame[t].channel \in Chans /\ frame[t].capacity \in Caps
    BY <1>a, <2>1, FrameFields
  <2>3. \A c \in Made' : NoNewOffer(c)
    <3>1. chans'[frame[t].channel] = NewChannel(frame[t].capacity)
      BY <1>a, <2>1, <2>2
    <3> QED BY <1>4, <2>1, <2>2, <3>1
  <2> QED BY <1>0, <2>1, <2>3
<1>6. ASSUME NEW t \in Threads, ChannelReceive(t) PROVE Goal
  <2> DEFINE c == frame[t].channel
  <2>1. /\ frame[t].op = "receive"
        /\ chans' = [chans EXCEPT ![c] = Receive(chans[c], t).chan]
        /\ Others(t) \/ frame' = frame
    BY <1>6, <1>2 DEF ChannelReceive, In, Finish, Block
  <2>2. c \in Chans /\ c \in Made
    BY <1>a, <2>1, FrameFields DEF Used
  <2>3. \A x \in Made' : NoNewOffer(x)
    <3>1. chans'[c] = Receive(chans[c], t).chan
      BY <1>a, <2>1, <2>2
    <3> HIDE DEF c
    <3> QED BY <1>4, <2>1, <2>2, <3>1
  <2> QED BY <1>0, <2>1, <2>3
<1>7. ASSUME NEW t \in Threads, ChannelClose(t) PROVE Goal
  <2> DEFINE c == frame[t].channel
  <2>1. CASE chans[c].isClosed
    BY <1>1, <1>7, <2>1 DEF ChannelClose, Abort
  <2>2. CASE ~chans[c].isClosed
    <3>1. /\ frame[t].op = "close"
          /\ chans' = [chans EXCEPT ![c] = CloseChannel(chans[c])]
          /\ Others(t)
      BY <1>7, <1>2, <2>2 DEF ChannelClose, In, Finish
    <3>2. c \in Chans /\ c \in Made
      BY <1>a, <3>1, FrameFields DEF Used
    <3>3. \A x \in Made' : NoNewOffer(x)
      <4>1. chans'[c] = CloseChannel(chans[c])
        BY <1>a, <3>1, <3>2
      <4> HIDE DEF c
      <4> QED BY <1>4, <3>1, <3>2, <4>1
    <3> QED BY <1>0, <3>1, <3>3
  <2> QED BY <2>1, <2>2
<1>8. ASSUME NEW t \in Threads, ChannelSend(t) PROVE Goal
  <2>0. PICK c, d : c = frame[t].channel /\ d = frame[t].data
    OBVIOUS
  <2> DEFINE s == Send(chans[c], t, d)
  <2>1. /\ frame[t].op = "send"
        /\ chans' = [chans EXCEPT ![c] = s.chan]
        /\ Others(t) \/ frame' = frame
        /\ ~s.done => frame' = frame
    BY <1>8, <1>2, <2>0 DEF ChannelSend, In, Finish, Block
  <2>2. c \in Chans /\ c \in Made /\ d \in Payload
    BY <1>a, <2>0, <2>1, FrameFields DEF Used
  <2>3. chans[c] \in AnyChannel /\ WellFormed(chans[c]) /\ chans'[c] = s.chan
    BY <1>a, <2>1, <2>2, MadeType
  <2>4. ASSUME NEW x \in Made', x # c PROVE SenderLive(x)'
    <3>1. chans'[x] = chans[x] /\ x \in Made
      BY <1>a, <2>1, <2>4 DEF Made
    <3>2. NoNewOffer(x)
      BY <3>1 DEF NoNewOffer
    <3>3. \A u \in Threads : Inside(u, "send", x) => frame'[u] = frame[u]
      BY <2>0, <2>1, <2>4 DEF Inside
    <3> QED BY <3>2, <3>3, StaysLive
  <2>5. ASSUME c \in Made' PROVE SenderLive(c)'
    <3>1. CASE s.done /\ ~Offering(s.chan.state)
      BY <2>3, <3>1 DEF SenderLive, Offering
    <3>2. CASE ~s.done /\ s.chan.state = chans[c].state
      <4>1. NoNewOffer(c)
        BY <2>2, <2>3, <3>2 DEF NoNewOffer
      <4>2. \A u \in Threads : Inside(u, "send", c) => frame'[u] = frame[u]
        BY <2>1, <3>2
      <4> QED BY <2>5, <4>1, <4>2, StaysLive
    <3>3. CASE ~s.done /\ s.chan.state = SenderReached(t, d)
      <4>1. frame'[t] = frame[t] /\ chans'[c].state = SenderReached(t, d)
        BY <2>1, <2>3, <3>3
      <4>2. Inside(t, "send", c)'
        BY <2>0, <2>1, <4>1 DEF Inside
      <4>3. chans'[c].state.sender = t /\ chans'[c].state.data = d
        BY <4>1 DEF SenderReached
      <4>4. frame'[t].data = d
        BY <2>0, <4>1
      <4> QED BY <4>2, <4>3, <4>4 DEF SenderLive
    <3> QED
      <4> QED BY <2>3, <3>1, <3>2, <3>3, Typed, SendState
  <2>6. \A x \in Made' : SenderLive(x)'
    BY <2>4, <2>5
  <2> QED BY <2>6 DEF SenderRegistrationLive, SenderLive, Offering
<1>9. ASSUME NEW t \in Threads, SelectReady(t) PROVE Goal
  <2>1. frame[t].op = "select"
    BY <1>9 DEF SelectReady, In
  <2>2. PICK i \in ReadyEntries(t) :
          LET e == frame[t].entries[i]
              s == Send(chans[e.channel], t, e.data)
              r == Receive(chans[e.channel], t)
          IN  IF e.dir = "send"
              THEN IF s.done
                   THEN /\ chans' = [chans EXCEPT ![e.channel] = s.chan]
                        /\ Finish(t, Result("Sent", i, NoData))
                   ELSE Abort(t)
              ELSE IF r.status = "Value"
                   THEN /\ chans' = [chans EXCEPT ![e.channel] = r.chan]
                        /\ Finish(t, Result("Value", i, r.data))
                   ELSE Abort(t)
    BY <1>9 DEF SelectReady
  <2> DEFINE e == frame[t].entries[i]
             c == e.channel
             s == Send(chans[c], t, e.data)
             r == Receive(chans[c], t)
  <2>3. i \in 1 .. Len(frame[t].entries)
    BY DEF ReadyEntries
  <2>4. e \in Entries /\ c \in Chans /\ c \in Made
    BY <1>a, <2>1, <2>3, EntryOf, EntryFields
  <2>5. CASE Abort(t)
    BY <1>1, <2>5 DEF Abort
  <2>6. CASE /\ e.dir = "send" /\ s.done /\ chans' = [chans EXCEPT ![c] = s.chan]
             /\ Finish(t, Result("Sent", i, NoData))
    <3>1. e.data \in Payload /\ chans'[c] = s.chan /\ Others(t)
      BY <1>a, <1>2, <2>4, <2>6, EntryFields DEF Finish
    <3>2. \A x \in Made' : NoNewOffer(x)
      <4> HIDE DEF c
      <4> QED BY <1>4, <2>4, <2>6, <3>1
    <3> QED BY <1>0, <2>1, <3>1, <3>2
  <2>7. CASE /\ chans' = [chans EXCEPT ![c] = r.chan]
             /\ Finish(t, Result("Value", i, r.data))
    <3>1. chans'[c] = r.chan /\ Others(t)
      BY <1>a, <1>2, <2>4, <2>7 DEF Finish
    <3>2. \A x \in Made' : NoNewOffer(x)
      <4> HIDE DEF c
      <4> QED BY <1>4, <2>4, <2>7, <3>1
    <3> QED BY <1>0, <2>1, <3>1, <3>2
  <2> QED BY <2>2, <2>5, <2>6, <2>7
<1>10. ASSUME NEW t \in Threads, SelectPoll(t) PROVE Goal
  <2>1. /\ frame[t].op = "select"
        /\ chans' = [c \in Chans |-> IF c \in Polled(t) THEN Receive(chans[c], t).chan
                                                       ELSE chans[c]]
        /\ Others(t) \/ frame' = frame
    BY <1>10, <1>2 DEF SelectPoll, In, Finish, Block
  <2>2. Polled(t) \subseteq Made
    BY <1>a, <2>1, EntryOf DEF Polled, Polls
  <2>3. ASSUME NEW c \in Made' PROVE NoNewOffer(c)
    <3>1. CASE c \in Polled(t)
      <4>1. c \in Made /\ c \in Chans /\ chans'[c] = Receive(chans[c], t).chan
        BY <1>a, <2>1, <2>2, <3>1
      <4> QED BY <4>1, QuietStep
    <3>2. CASE c \notin Polled(t)
      <4>1. chans'[c] = chans[c] /\ c \in Made
        BY <1>a, <2>1, <3>2 DEF Made
      <4> QED BY <4>1 DEF NoNewOffer
    <3> QED BY <3>1, <3>2
  <2> QED BY <1>0, <2>1, <2>3
<1>11. ASSUME NEW t \in Threads, LwtSpawn(t) \/ LwtYield(t) PROVE Goal
  <2>1. /\ frame[t].op # "send" /\ Others(t) /\ chans' = chans
    BY <1>11, <1>2 DEF LwtSpawn, LwtYield, In
  <2>2. \A c \in Made' : NoNewOffer(c)
    BY <2>1 DEF NoNewOffer, Made
  <2> QED BY <1>0, <2>1, <2>2
<1>12. CASE \/ Loop \/ UNCHANGED vars \/ (Ended /\ UNCHANGED <<chans, frame, result>>)
            \/ \E t \in Threads : Terminate(t)
  BY <1>1, <1>12 DEF Loop, vars, Terminate
<1> QED
  BY <1>3, <1>5, <1>6, <1>7, <1>8, <1>9, <1>10, <1>11, <1>12
     DEF RuntimeNext, Handler, UserStep, ChannelSelect

-----------------------------------------------------------------------------
(* The theorems.                                                           *)

\* Every step preserves the inductive invariant.
LEMMA RuntimeNextInv == RuntimeInv /\ [RuntimeNext]_vars => RuntimeInv'
<1> SUFFICES ASSUME RuntimeInv, [RuntimeNext]_vars PROVE RuntimeInv'
  OBVIOUS
<1>1. SchedulerInv'
  <2>1. [SchedulerNext]_schedVars
    BY SchedulerStep DEF vars
  <2> QED BY <2>1, NextInv DEF RuntimeInv
<1>2. RuntimeTypeOK'
  BY <1>1, ChannelsNext, FramesNext DEF RuntimeTypeOK, SchedulerInv, AnyChannel, Caps
<1> QED BY <1>1, <1>2, ChannelsNext, FramesNext, NewNext, SendersNext DEF RuntimeInv

\* The inductive invariant of the channel runtime holds in every reachable
\* state, for every user program: types, well-formed channels of sent values,
\* frames that name made channels only, live offers.
THEOREM RuntimeInvariant == RuntimeSpec => []RuntimeInv
<1> QED BY RuntimeInitInv, RuntimeNextInv, PTL DEF RuntimeSpec

\* The runtime is type correct.
THEOREM RuntimeTypes == RuntimeSpec => []RuntimeTypeOK
<1>1. RuntimeInv => RuntimeTypeOK
  BY DEF RuntimeInv
<1> QED BY <1>1, RuntimeInvariant, PTL

\* The handlers of api/channel.rs and api/lwt.rs use the scheduler only as
\* the scheduler allows, so its theorems (NeverUnreachableHolds, RoundRobin)
\* hold of the whole runtime.
THEOREM RuntimeImplementsScheduler == RuntimeSpec => SchedulerSpec
<1>1. RuntimeInit => SchedulerInit
  BY DEF RuntimeInit
<1>2. [RuntimeNext]_vars => [SchedulerNext]_schedVars
  BY SchedulerStep DEF vars
<1> QED BY <1>1, <1>2, PTL DEF RuntimeSpec, SchedulerSpec

\* No offer outlives the send it belongs to, whatever selects, closes and
\* other senders do in between.
THEOREM SendersLive == RuntimeSpec => []SenderRegistrationLive
<1>1. RuntimeInv => SenderRegistrationLive
  BY DEF RuntimeInv
<1> QED BY <1>1, RuntimeInvariant, PTL

\* The ring indices stay in bounds, and only written slots can be read.
THEOREM RingStaysInBounds == RuntimeSpec => []RingInBounds
<1>1. RuntimeInv => RingInBounds
  <2> SUFFICES ASSUME RuntimeInv, NEW c \in Made, IsBuffered(chans[c])
               PROVE  /\ chans[c].head < chans[c].capacity
                      /\ chans[c].size <= chans[c].capacity
                      /\ \A i \in 1 .. chans[c].size : Contents(chans[c])[i] # NoData
    BY DEF RingInBounds
  <2>1. chans[c] \in AnyChannel /\ WellFormed(chans[c])
    BY MadeType DEF RuntimeInv
  <2>2. Contents(chans[c]) \in Seq(Payload) /\ Len(Contents(chans[c])) = chans[c].size
    BY <2>1, Typed, ContentsLength DEF RuntimeInv, ChannelsOK
  <2>3. \A i \in 1 .. chans[c].size : Contents(chans[c])[i] \in Payload
    BY <2>2, ElementOfSeq
  <2> QED BY <2>1, <2>3, ConstantsAssumption DEF WellFormed
<1> QED BY <1>1, RuntimeInvariant, PTL

-----------------------------------------------------------------------------
(* Which runtime assertions can fail.                                      *)

\* A select that found an entry ready never fails its unwrap or reaches its
\* unreachable!().
LEMMA SelectNeverAborts ==
  ASSUME RuntimeInv, NEW t \in Threads, SelectReady(t)
  PROVE  UNCHANGED process
<1>1. frame[t].op = "select" /\ frame[t] \in Frames /\ Used(frame[t]) \subseteq Made
  BY DEF SelectReady, In, RuntimeInv, RuntimeTypeOK, FramesOK
<1>2. PICK i \in ReadyEntries(t) :
        LET e == frame[t].entries[i]
            s == Send(chans[e.channel], t, e.data)
            r == Receive(chans[e.channel], t)
        IN  IF e.dir = "send"
            THEN IF s.done
                 THEN /\ chans' = [chans EXCEPT ![e.channel] = s.chan]
                      /\ Finish(t, Result("Sent", i, NoData))
                 ELSE Abort(t)
            ELSE IF r.status = "Value"
                 THEN /\ chans' = [chans EXCEPT ![e.channel] = r.chan]
                      /\ Finish(t, Result("Value", i, r.data))
                 ELSE Abort(t)
  BY DEF SelectReady
<1> DEFINE e == frame[t].entries[i]
           s == Send(chans[e.channel], t, e.data)
           r == Receive(chans[e.channel], t)
<1>3. i \in 1 .. Len(frame[t].entries) /\ Ready(t, e)
  BY DEF ReadyEntries
<1>4. e.channel \in Made
  BY <1>1, <1>3, EntryOf
<1>5. chans[e.channel] \in AnyChannel
  BY <1>4, MadeType DEF RuntimeInv
<1>6. ASSUME NEW x, Finish(t, x) PROVE UNCHANGED process
  BY <1>6 DEF Finish, schedVars
<1>7. CASE e.dir = "send"
  <2>1. CanCompleteSend(chans[e.channel], t)
    BY <1>3, <1>7 DEF Ready
  <2>2. s.done
    <3> HIDE DEF e
    <3> QED BY <1>5, <2>1, Typed, CanCompleteSendAgrees
  <2> QED BY <1>2, <1>6, <1>7, <2>2
<1>8. CASE e.dir # "send"
  <2>1. CanCompleteReceive(chans[e.channel], t)
    BY <1>3, <1>8 DEF Ready
  <2>2. r.status = "Value"
    <3> HIDE DEF e
    <3> QED BY <1>5, <2>1, Typed, CanCompleteReceiveAgrees
  <2> QED BY <1>2, <1>6, <1>8, <2>2
<1> QED BY <1>7, <1>8

\* Closing twice is the only way for user code to trip an assertion of the
\* scheduler, of the channels or of select.
THEOREM AbortsOnlyOnDoubleClose == RuntimeSpec => AbortOnlyOnDoubleClose
<1>1. RuntimeInv /\ [RuntimeNext]_vars =>
        [process' = "abort" /\ process = "running" =>
           \E t \in Threads : /\ In(t, "close")
                              /\ chans[frame[t].channel].isClosed]_vars
  <2> SUFFICES ASSUME RuntimeInv, [RuntimeNext]_vars,
                      process' = "abort", process = "running"
               PROVE  \E t \in Threads : In(t, "close") /\ chans[frame[t].channel].isClosed
    OBVIOUS
  <2>1. CASE Loop
    <3>1. NeverUnreachable
      BY SchedulerInvNeverUnreachable DEF RuntimeInv
    <3> QED BY <2>1, <3>1 DEF Loop, Dispatch, Requeue, NeverUnreachable
  <2>2. ASSUME NEW t \in Threads, ChannelClose(t)
        PROVE  In(t, "close") /\ chans[frame[t].channel].isClosed
    BY <2>2 DEF ChannelClose, Finish, schedVars
  <2>3. ASSUME NEW t \in Threads,
               \/ ChannelNew(t) \/ ChannelSend(t) \/ ChannelReceive(t) \/ SelectPoll(t)
               \/ LwtSpawn(t) \/ LwtYield(t) \/ UserStep(t)
        PROVE  FALSE
    BY <2>3 DEF ChannelNew, ChannelSend, ChannelReceive, SelectPoll, LwtSpawn, LwtYield, UserStep,
                Call, Terminate, Finish, Block, Suspend, SpawnThread, Exit, schedVars
  <2>4. ASSUME NEW t \in Threads, SelectReady(t) PROVE FALSE
    BY <2>4, SelectNeverAborts
  <2>5. CASE Ended \/ UNCHANGED vars
    BY <2>5 DEF Ended, vars, schedVars
  <2> QED BY <2>1, <2>2, <2>3, <2>4, <2>5 DEF RuntimeNext, Handler, ChannelSelect
<1> QED BY <1>1, RuntimeInvariant, PTL DEF RuntimeSpec, AbortOnlyOnDoubleClose

\* The second loop of select never takes a value out of a channel.
THEOREM SelectDropsNothing == RuntimeSpec => []PollDropsNothing
<1>1. RuntimeInv => PollDropsNothing
  <2> SUFFICES ASSUME RuntimeInv, NEW t \in Threads, In(t, "select"), ReadyEntries(t) = {},
                      NEW c \in Polled(t)
               PROVE  Contents(Receive(chans[c], t).chan) = Contents(chans[c])
    BY DEF PollDropsNothing
  <2>1. frame[t].op = "select" /\ frame[t] \in Frames /\ Used(frame[t]) \subseteq Made
    BY DEF In, RuntimeInv, RuntimeTypeOK, FramesOK
  <2>2. PICK i \in Polls(t) : c = frame[t].entries[i].channel
    BY DEF Polled
  <2>3. /\ i \in 1 .. Len(frame[t].entries) /\ frame[t].entries[i].dir = "receive"
        /\ i \notin ReadyEntries(t)
    BY <2>2 DEF Polls
  <2>4. ~CanCompleteReceive(chans[c], t)
    BY <2>2, <2>3 DEF ReadyEntries, Ready
  <2>5. c \in Made
    BY <2>1, <2>2, <2>3, EntryOf
  <2>6. chans[c] \in AnyChannel /\ WellFormed(chans[c])
    BY <2>5, MadeType DEF RuntimeInv
  <2>7. Receive(chans[c], t).status # "Value"
    BY <2>4, <2>6, Typed, CanCompleteReceiveAgrees
  <2> QED BY <2>6, <2>7, Typed, ReceiveIsTake
<1> QED BY <1>1, RuntimeInvariant, PTL

-----------------------------------------------------------------------------
(* A hand-off that has been accepted is told to its partner.                *)

HandingState(st) ==
  st.tag \in {"SenderReachedReceiverAccepted", "ReceiverReachedSenderAccepted"}

\* A send goes through a cell in hand-off only if it is the one that is waited
\* for; any other leaves the cell alone and does not complete.
LEMMA SendInHandoff ==
  ASSUME NEW Ids, NEW Data, NEW Capacities \in SUBSET Nat,
         NEW c \in Channel(Ids, Data, Capacities),
         WellFormed(c), HandingState(c.state), NEW id, NEW d
  PROVE  /\ Send(c, id, d).done <=> c.state = SenderReachedReceiverAccepted(id)
         /\ Send(c, id, d).chan.state # c.state => Send(c, id, d).done
<1>1. ~IsBuffered(c)
  BY DEF WellFormed, HandingState, Initial
<1>2. c.state # Initial /\ c.state.tag # "ReceiverReached"
  BY DEF HandingState, Initial
<1> QED BY <1>1, <1>2, SendCell

\* So does a receive, and it returns the value it was left.
LEMMA ReceiveInHandoff ==
  ASSUME NEW Ids, NEW Data, NEW Capacities \in SUBSET Nat,
         NEW c \in Channel(Ids, Data, Capacities),
         WellFormed(c), HandingState(c.state), NEW id
  PROVE  /\ Receive(c, id).status = "Value" <=> Served(c.state, id)
         /\ Receive(c, id).status = "Value" => Receive(c, id).data = c.state.data
         /\ Receive(c, id).chan.state # c.state => Receive(c, id).status = "Value"
<1>1. ~IsBuffered(c)
  BY DEF WellFormed, HandingState, Initial
<1>2. c.state # Initial /\ c.state.tag # "SenderReached"
  BY DEF HandingState, Initial
<1> QED BY <1>1, <1>2, ReceiveCell

\* Who a hand-off waits for, by the direction in which the value goes.
LEMMA AcceptedIs ==
  ASSUME NEW c, NEW u, Accepted(c, u)
  PROVE  /\ c \in Made /\ HandingState(chans[c].state)
         /\ \/ /\ chans[c].state = SenderReachedReceiverAccepted(u)
               /\ chans[c].state.tag = "SenderReachedReceiverAccepted"
            \/ /\ Served(chans[c].state, u)
               /\ chans[c].state.tag = "ReceiverReachedSenderAccepted"
         /\ \A w : chans[c].state = SenderReachedReceiverAccepted(w) \/ Served(chans[c].state, w)
                   => w = u
BY DEF Accepted, HandingState, Served, SenderReachedReceiverAccepted

\* What AcceptedIsTold says of one channel and one goroutine.
ToldWhenLeft(c, u) ==
  chans'[c].state # chans[c].state => u = running /\ IsTold(u, c)

NeverTurnedAway(c, u) ==
  LET op == IF chans[c].state.tag = "SenderReachedReceiverAccepted" THEN "send" ELSE "receive"
  IN  Inside(u, op, c) /\ MayStep(u) => u \notin suspended'

\* A return that finds the cell as it waits for u is u's own.
LEMMA ReturnTells ==
  ASSUME RuntimeInv, NEW c, NEW u, Accepted(c, u), NEW t \in Threads, NEW i, NEW x,
         running = t, Return(t, Result(x, i, IF x = "Value" THEN chans[c].state.data ELSE NoData)),
         \/ x = "Sent" /\ chans[c].state = SenderReachedReceiverAccepted(t)
         \/ x = "Value" /\ Served(chans[c].state, t)
  PROVE  ToldWhenLeft(c, u)
<1>1. t = u
  BY AcceptedIs
<1>2. /\ frame'[t] = UserCode
      /\ result'[t] = Result(x, i, IF x = "Value" THEN chans[c].state.data ELSE NoData)
  BY DEF Return, RuntimeInv, RuntimeTypeOK
<1>3. /\ result'[t].status = x
      /\ x = "Value" => result'[t].data = chans[c].state.data
  BY <1>2 DEF Result
<1>4. chans[c].state.tag = "SenderReachedReceiverAccepted" <=> x = "Sent"
  BY DEF SenderReachedReceiverAccepted, Served
<1> QED BY <1>1, <1>2, <1>3, <1>4 DEF ToldWhenLeft, IsTold

\* A plain send tells its own goroutine or leaves the cell as it was.
LEMMA SendTells ==
  ASSUME RuntimeInv, NEW c, NEW u, Accepted(c, u), NEW t \in Threads, ChannelSend(t)
  PROVE  ToldWhenLeft(c, u) /\ NeverTurnedAway(c, u)
<1> DEFINE e == frame[t].channel
           d == frame[t].data
           s == Send(chans[e], t, d)
<1>1. /\ MayStep(t) /\ running = t /\ frame[t].op = "send"
      /\ chans' = [chans EXCEPT ![e] = s.chan]
      /\ IF s.done THEN Finish(t, Result("Sent", 0, NoData)) ELSE Block(t)
  BY DEF ChannelSend, In, MayStep
<1>2. /\ c \in Made /\ c \in Chans /\ chans = [x \in Chans |-> chans[x]]
      /\ chans[c] \in AnyChannel /\ WellFormed(chans[c]) /\ HandingState(chans[c].state)
  BY AcceptedIs, MadeType DEF RuntimeInv, RuntimeTypeOK
<1>3. CASE e # c
  <2>1. chans'[c] = chans[c]
    BY <1>1, <1>2, <1>3
  <2> QED BY <1>1, <1>3, <2>1 DEF ToldWhenLeft, NeverTurnedAway, MayStep, Inside
<1>4. CASE e = c
  <2>1. /\ s.done <=> chans[c].state = SenderReachedReceiverAccepted(t)
        /\ s.chan.state # chans[c].state => s.done
    BY <1>2, <1>4, Typed, SendInHandoff
  <2>2. chans'[c] = s.chan
    BY <1>1, <1>2, <1>4
  <2>3. CASE s.done
    <3>1. Return(t, Result("Sent", 0, NoData)) /\ suspended' = suspended
      BY <1>1, <2>3 DEF Finish, schedVars
    <3>2. ToldWhenLeft(c, u)
      BY <1>1, <2>1, <2>3, <3>1, ReturnTells
    <3> QED BY <3>1, <3>2 DEF NeverTurnedAway, MayStep
  <2>4. CASE ~s.done
    <3>1. t # u \/ chans[c].state.tag # "SenderReachedReceiverAccepted"
      BY <2>1, <2>4, AcceptedIs
    <3> QED BY <1>1, <2>1, <2>2, <2>4, <3>1 DEF ToldWhenLeft, NeverTurnedAway, MayStep, Inside
  <2> QED BY <2>3, <2>4
<1> QED BY <1>3, <1>4

\* So does a plain receive.
LEMMA ReceiveTells ==
  ASSUME RuntimeInv, NEW c, NEW u, Accepted(c, u), NEW t \in Threads, ChannelReceive(t)
  PROVE  ToldWhenLeft(c, u) /\ NeverTurnedAway(c, u)
<1> DEFINE e == frame[t].channel
           r == Receive(chans[e], t)
<1>1. /\ MayStep(t) /\ running = t /\ frame[t].op = "receive"
      /\ chans' = [chans EXCEPT ![e] = r.chan]
      /\ IF r.status = "Blocked" THEN Block(t) ELSE Finish(t, Result(r.status, 0, r.data))
  BY DEF ChannelReceive, In, MayStep
<1>2. /\ c \in Made /\ c \in Chans /\ chans = [x \in Chans |-> chans[x]]
      /\ chans[c] \in AnyChannel /\ WellFormed(chans[c]) /\ HandingState(chans[c].state)
  BY AcceptedIs, MadeType DEF RuntimeInv, RuntimeTypeOK
<1>3. CASE e # c
  <2>1. chans'[c] = chans[c]
    BY <1>1, <1>2, <1>3
  <2> QED BY <1>1, <1>3, <2>1 DEF ToldWhenLeft, NeverTurnedAway, MayStep, Inside
<1>4. CASE e = c
  <2>1. /\ r.status = "Value" <=> Served(chans[c].state, t)
        /\ r.status = "Value" => r.data = chans[c].state.data
        /\ r.chan.state # chans[c].state => r.status = "Value"
    BY <1>2, <1>4, Typed, ReceiveInHandoff
  <2>2. chans'[c] = r.chan
    BY <1>1, <1>2, <1>4
  <2>3. CASE r.status = "Value"
    <3>1. Return(t, Result("Value", 0, chans[c].state.data)) /\ suspended' = suspended
      BY <1>1, <2>1, <2>3 DEF Finish, schedVars
    <3>2. ToldWhenLeft(c, u)
      BY <1>1, <2>1, <2>3, <3>1, ReturnTells
    <3> QED BY <3>1, <3>2 DEF NeverTurnedAway, MayStep
  <2>4. CASE r.status # "Value"
    <3>1. t # u \/ chans[c].state.tag = "SenderReachedReceiverAccepted"
      BY <2>1, <2>4, AcceptedIs
    <3> QED BY <1>1, <2>1, <2>2, <2>4, <3>1 DEF ToldWhenLeft, NeverTurnedAway, MayStep, Inside
  <2> QED BY <2>3, <2>4
<1> QED BY <1>3, <1>4

\* A select that finds an entry ready completes the hand-off only if it is its
\* own goroutine that is waited for.
LEMMA SelectTells ==
  ASSUME RuntimeInv, NEW c, NEW u, Accepted(c, u), NEW t \in Threads, SelectReady(t)
  PROVE  ToldWhenLeft(c, u)
<1>1. /\ frame[t].op = "select" /\ frame[t] \in Frames /\ Used(frame[t]) \subseteq Made
      /\ running = t
  BY DEF SelectReady, In, MayStep, RuntimeInv, RuntimeTypeOK, FramesOK
<1>2. PICK i \in ReadyEntries(t) :
        LET e == frame[t].entries[i]
            s == Send(chans[e.channel], t, e.data)
            r == Receive(chans[e.channel], t)
        IN  IF e.dir = "send"
            THEN IF s.done
                 THEN /\ chans' = [chans EXCEPT ![e.channel] = s.chan]
                      /\ Finish(t, Result("Sent", i, NoData))
                 ELSE Abort(t)
            ELSE IF r.status = "Value"
                 THEN /\ chans' = [chans EXCEPT ![e.channel] = r.chan]
                      /\ Finish(t, Result("Value", i, r.data))
                 ELSE Abort(t)
  BY DEF SelectReady
<1> DEFINE e == frame[t].entries[i]
           s == Send(chans[e.channel], t, e.data)
           r == Receive(chans[e.channel], t)
<1>3. /\ c \in Made /\ c \in Chans /\ chans = [x \in Chans |-> chans[x]]
      /\ chans[c] \in AnyChannel /\ WellFormed(chans[c]) /\ HandingState(chans[c].state)
  BY AcceptedIs, MadeType DEF RuntimeInv, RuntimeTypeOK
<1>4. SUFFICES ASSUME chans'[c].state # chans[c].state PROVE ToldWhenLeft(c, u)
  BY DEF ToldWhenLeft
<1>5. CASE /\ e.dir = "send" /\ s.done /\ chans' = [chans EXCEPT ![e.channel] = s.chan]
           /\ Finish(t, Result("Sent", i, NoData))
  <2>1. e.channel = c /\ chans'[c] = s.chan
    BY <1>3, <1>4, <1>5
  <2>2. chans[c].state = SenderReachedReceiverAccepted(t)
    <3> HIDE DEF e
    <3> QED BY <1>3, <1>5, <2>1, Typed, SendInHandoff
  <2> QED BY <1>1, <1>5, <2>2, ReturnTells DEF Finish
<1>6. CASE /\ r.status = "Value" /\ chans' = [chans EXCEPT ![e.channel] = r.chan]
           /\ Finish(t, Result("Value", i, r.data))
  <2>1. e.channel = c /\ chans'[c] = r.chan
    BY <1>3, <1>4, <1>6
  <2>2. Served(chans[c].state, t) /\ r.data = chans[c].state.data
    <3> HIDE DEF e
    <3> QED BY <1>3, <1>6, <2>1, Typed, ReceiveInHandoff
  <2> QED BY <1>1, <1>6, <2>2, ReturnTells DEF Finish
<1>7. CASE Abort(t)
  BY <1>4, <1>7 DEF Abort
<1> QED BY <1>2, <1>5, <1>6, <1>7

\* The second loop of select does not touch a cell in hand-off.
LEMMA PollKeepsHandoff ==
  ASSUME RuntimeInv, NEW c, NEW u, Accepted(c, u), NEW t \in Threads, SelectPoll(t)
  PROVE  chans'[c].state = chans[c].state
<1>1. /\ frame[t].op = "select" /\ ReadyEntries(t) = {}
      /\ chans' = [x \in Chans |-> IF x \in Polled(t) THEN Receive(chans[x], t).chan
                                                      ELSE chans[x]]
  BY DEF SelectPoll, In
<1>2. /\ c \in Chans /\ chans[c] \in AnyChannel /\ WellFormed(chans[c])
      /\ HandingState(chans[c].state)
  BY AcceptedIs, MadeType DEF RuntimeInv
<1>3. CASE c \notin Polled(t)
  BY <1>1, <1>2, <1>3
<1>4. CASE c \in Polled(t)
  <2>1. PICK i \in Polls(t) : c = frame[t].entries[i].channel
    BY <1>4 DEF Polled
  <2>2. ~CanCompleteReceive(chans[c], t)
    BY <1>1, <2>1 DEF Polls, ReadyEntries, Ready
  <2>3. Receive(chans[c], t).status # "Value"
    BY <1>2, <2>2, Typed, CanCompleteReceiveAgrees
  <2>4. Receive(chans[c], t).chan.state = chans[c].state
    BY <1>2, <2>3, Typed, ReceiveInHandoff
  <2> QED BY <1>1, <1>2, <1>4, <2>4
<1> QED BY <1>3, <1>4

\* A value that was accepted, or left, reaches the goroutine it waits for, and
\* nobody else, in any program: with the round robin of the scheduler (Overtaken)
\* this is what makes hand-offs complete.
THEOREM AcceptedHandoffsAreTold == RuntimeSpec => AcceptedIsTold
<1>1. ASSUME RuntimeInv, [RuntimeNext]_vars, NEW c \in Chans, NEW u \in Threads, Accepted(c, u)
      PROVE  ToldWhenLeft(c, u) /\ NeverTurnedAway(c, u)
  <2>1. /\ c \in Made /\ chans[c] \in AnyChannel
        /\ chans = [x \in Chans |-> chans[x]] /\ frame \in [Threads -> Frames]
    BY <1>1, AcceptedIs, MadeType DEF RuntimeInv, RuntimeTypeOK
  <2>2. ASSUME chans' = chans, suspended' \subseteq suspended
        PROVE  ToldWhenLeft(c, u) /\ NeverTurnedAway(c, u)
    BY <2>2 DEF ToldWhenLeft, NeverTurnedAway, MayStep
  <2>3. ASSUME NEW t \in Threads, MayStep(t), frame[t].op \notin {"send", "receive"}
        PROVE  NeverTurnedAway(c, u)
    BY <2>3 DEF NeverTurnedAway, MayStep, Inside
  <2>4. ASSUME NEW t \in Threads, ChannelNew(t)
        PROVE  ToldWhenLeft(c, u) /\ NeverTurnedAway(c, u)
    <3>1. /\ MayStep(t) /\ frame[t].op = "new"
          /\ chans' = [chans EXCEPT ![frame[t].channel] = NewChannel(frame[t].capacity)]
      BY <2>4 DEF ChannelNew, In
    <3>2. frame[t].channel \notin Made
      BY <1>1, <3>1 DEF RuntimeInv, NewOK
    <3>3. chans'[c] = chans[c]
      BY <2>1, <3>1, <3>2
    <3> QED BY <2>3, <3>1, <3>3 DEF ToldWhenLeft
  <2>5. ASSUME NEW t \in Threads, ChannelClose(t)
        PROVE  ToldWhenLeft(c, u) /\ NeverTurnedAway(c, u)
    <3>1. /\ MayStep(t) /\ frame[t].op = "close"
          /\ chans' = chans \/ chans' = [chans EXCEPT ![frame[t].channel] = CloseChannel(@)]
      BY <2>5 DEF ChannelClose, In, Abort
    <3>2. CloseChannel(chans[c]).state = chans[c].state
      BY <2>1, Typed, CloseKeeps
    <3>3. chans'[c].state = chans[c].state
      BY <2>1, <3>1, <3>2
    <3> QED BY <2>3, <3>1, <3>3 DEF ToldWhenLeft
  <2>6. ASSUME NEW t \in Threads, ChannelSelect(t)
        PROVE  ToldWhenLeft(c, u) /\ NeverTurnedAway(c, u)
    <3>1. MayStep(t) /\ frame[t].op = "select"
      BY <2>6 DEF ChannelSelect, SelectReady, SelectPoll, In
    <3>2. ToldWhenLeft(c, u)
      BY <1>1, <2>6, SelectTells, PollKeepsHandoff DEF ChannelSelect, ToldWhenLeft
    <3> QED BY <2>3, <3>1, <3>2
  <2>7. ASSUME NEW t \in Threads, LwtSpawn(t) \/ LwtYield(t) \/ Terminate(t)
        PROVE  ToldWhenLeft(c, u) /\ NeverTurnedAway(c, u)
    <3>1. /\ MayStep(t) /\ frame[t].op \notin {"send", "receive"} /\ chans' = chans
      BY <2>7 DEF LwtSpawn, LwtYield, Terminate, Exit, In, UserCode
    <3> QED BY <2>3, <3>1 DEF ToldWhenLeft
  <2>8. ASSUME NEW t \in Threads, NEW f \in UserCalls, Call(t, f)
        PROVE  ToldWhenLeft(c, u) /\ NeverTurnedAway(c, u)
    BY <2>2, <2>8 DEF Call, schedVars
  <2>9. CASE Loop \/ UNCHANGED vars \/ (Ended /\ UNCHANGED <<chans, frame, result>>)
    BY <2>2, <2>9 DEF Loop, Dispatch, Requeue, Ended, vars, schedVars
  <2> QED BY <1>1, <2>4, <2>5, <2>6, <2>7, <2>8, <2>9, SendTells, ReceiveTells
          DEF RuntimeNext, Handler, UserStep
<1>2. RuntimeInv /\ [RuntimeNext]_vars =>
        [\A c \in Chans, t \in Threads : Accepted(c, t) =>
           /\ chans'[c].state # chans[c].state => t = running /\ IsTold(t, c)
           /\ LET op == IF chans[c].state.tag = "SenderReachedReceiverAccepted"
                        THEN "send" ELSE "receive"
              IN  Inside(t, op, c) /\ MayStep(t) => t \notin suspended']_vars
  BY <1>1 DEF ToldWhenLeft, NeverTurnedAway
<1> QED BY <1>2, RuntimeInvariant, PTL DEF RuntimeSpec, AcceptedIsTold

-----------------------------------------------------------------------------
(* Senders and receivers cannot keep missing each other.                    *)

\* Who can have blocked on c in the present round: senders on a full ring or on
\* somebody's offer, receivers on an empty ring or behind another receiver.
RoundOK(c) ==
  /\ c \notin Made => turnedAway[c] = {}
  /\ c \in Made /\ IsBuffered(chans[c]) =>
       /\ "send" \in turnedAway[c] => chans[c].size = chans[c].capacity
       /\ "receive" \in turnedAway[c] => chans[c].size = 0
  /\ c \in Made /\ ~IsBuffered(chans[c]) /\ ~HandingState(chans[c].state) =>
       /\ "send" \in turnedAway[c] => chans[c].state.tag = "SenderReached"
       /\ "receive" \in turnedAway[c] => chans[c].state.tag = "ReceiverReached"

RoundInv ==
  /\ RuntimeInv
  /\ DOMAIN turnedAway = Chans
  /\ \A c \in Chans : RoundOK(c)

\* The round of c after a step in which the operations in `kinds` blocked on it.
RoundStep(c) ==
  turnedAway'[c] = IF GetsThrough(c) THEN {}
                   ELSE turnedAway[c] \cup {op \in {"send", "receive"} : Blocked(op, c)}

\* What c is after a send that cannot complete, and after a receive that has no
\* value to return.
LeftBySend(c, after) ==
  IF IsBuffered(c)
  THEN after = c /\ c.size = c.capacity
  ELSE /\ after.capacity = c.capacity
       /\ \/ c.state.tag = "Initial" /\ after.state.tag = "SenderReached"
          \/ /\ after.state = c.state
             /\ HandingState(c.state) \/ c.state.tag = "SenderReached"

LeftByReceive(c, after) ==
  IF IsBuffered(c)
  THEN after = c /\ c.size = 0
  ELSE /\ after.capacity = c.capacity
       /\ \/ c.state.tag = "Initial" /\ after.state.tag = "ReceiverReached"
          \/ /\ after.state = c.state
             /\ HandingState(c.state) \/ c.state.tag = "ReceiverReached"

\* A send that cannot complete finds the ring full, or an offer or a hand-off in
\* the cell, or leaves its own offer there.
LEMMA SendBlocks ==
  ASSUME NEW Ids, NEW Data, NEW Capacities \in SUBSET Nat,
         NEW c \in Channel(Ids, Data, Capacities), WellFormed(c), NEW id, NEW d,
         ~Send(c, id, d).done
  PROVE  LeftBySend(c, Send(c, id, d).chan)
<1> USE DEF LeftBySend
<1>1. CASE IsBuffered(c)
  <2>1. c.size \in Nat /\ c.capacity \in Nat /\ c.size <= c.capacity
    BY <1>1, Fields DEF WellFormed
  <2>2. ~CanSend(c)
    BY <1>1 DEF Send, BufferedSend
  <2> QED BY <1>1, <2>1, <2>2 DEF Send, BufferedSend, CanSend
<1>2. CASE ~IsBuffered(c)
  <2>1. c.state \in RendezvousState(Ids, Data)
    BY Fields
  <2>2. c.state.tag # "ReceiverReached"
    <3>1. ~CanCompleteSend(c, id)
      BY CanCompleteSendAgrees
    <3> QED BY <1>2, <3>1 DEF CanCompleteSend, RendezvousCanCompleteSend
  <2>3. Send(c, id, d).chan.capacity = c.capacity
    BY <1>2 DEF Send, Channel
  <2>4. \/ c.state.tag \in {"Initial", "SenderReached"}
        \/ HandingState(c.state)
    BY <2>1, <2>2 DEF RendezvousState, HandingState, Initial
  <2>5. \/ c.state = Initial /\ Send(c, id, d).chan.state = SenderReached(id, d)
        \/ /\ c.state # SenderReachedReceiverAccepted(id)
           /\ Send(c, id, d).chan.state = c.state
    BY <1>2, SendCell
  <2>6. c.state.tag = "Initial" => c.state = Initial
    BY <2>1 DEF RendezvousState
  <2>7. c.state.tag = "Initial" => Send(c, id, d).chan.state = SenderReached(id, d)
    <3> SUFFICES ASSUME c.state.tag = "Initial"
                 PROVE  RendezvousSend(c.state, id, d).state = SenderReached(id, d)
      BY <1>2 DEF Send, Channel
    <3> QED BY DEF RendezvousSend, Acknowledged
  <2> QED BY <1>2, <2>3, <2>4, <2>5, <2>6, <2>7 DEF Initial, SenderReached
<1> QED BY <1>1, <1>2

\* A receive that has no value to return finds the ring empty, or a receiver or
\* a hand-off in the cell, or registers itself there.
LEMMA ReceiveBlocks ==
  ASSUME NEW Ids, NEW Data, NEW Capacities \in SUBSET Nat,
         NEW c \in Channel(Ids, Data, Capacities), WellFormed(c), NEW id,
         Receive(c, id).status # "Value"
  PROVE  LeftByReceive(c, Receive(c, id).chan)
<1> USE DEF LeftByReceive
<1>1. CASE IsBuffered(c)
  <2>1. c.size \in Nat
    BY Fields
  <2>2. ~CanReceive(c)
    BY <1>1 DEF Receive, BufferedReceive, ReceiveStatus
  <2> QED BY <1>1, <2>1, <2>2 DEF Receive, BufferedReceive, ReceiveStatus, CanReceive
<1>2. CASE ~IsBuffered(c)
  <2>1. c.state \in RendezvousState(Ids, Data)
    BY Fields
  <2>2. c.state.tag # "SenderReached"
    <3>1. ~CanCompleteReceive(c, id)
      BY CanCompleteReceiveAgrees
    <3> QED BY <1>2, <3>1 DEF CanCompleteReceive, RendezvousCanCompleteReceive
  <2>3. Receive(c, id).chan.capacity = c.capacity
    BY <1>2 DEF Receive, Channel
  <2>4. \/ c.state.tag \in {"Initial", "ReceiverReached"}
        \/ HandingState(c.state)
    BY <2>1, <2>2 DEF RendezvousState, HandingState, Initial
  <2>5. \/ c.state = Initial /\ Receive(c, id).chan.state = ReceiverReached(id)
        \/ Receive(c, id).chan.state = c.state
    BY <1>2, <2>2, ReceiveCell
  <2>6. c.state.tag = "Initial" => Receive(c, id).chan.state = ReceiverReached(id)
    <3> SUFFICES ASSUME c.state.tag = "Initial"
                 PROVE  RendezvousReceive(c.state, id).state = ReceiverReached(id)
      BY <1>2 DEF Receive, Channel
    <3> QED BY DEF RendezvousReceive, Served
  <2> QED BY <1>2, <2>3, <2>4, <2>5, <2>6 DEF Initial, ReceiverReached
<1> QED BY <1>1, <1>2

\* A channel that is left as it is, or closed, keeps what is known of its round.
LEMMA RoundKept ==
  ASSUME NEW c, RoundOK(c), turnedAway'[c] \subseteq turnedAway[c], c \in Made <=> c \in Made',
         c \in Made => /\ chans'[c].capacity = chans[c].capacity
                       /\ chans'[c].size = chans[c].size
                       /\ chans'[c].state = chans[c].state
  PROVE  RoundOK(c)'
BY DEF RoundOK, IsBuffered

\* So does one on which a send blocks ...
LEMMA RoundSend ==
  ASSUME RuntimeInv, NEW c \in Made, c \in Made', RoundOK(c), NEW t, NEW d,
         ~Send(chans[c], t, d).done, chans'[c] = Send(chans[c], t, d).chan,
         turnedAway'[c] \subseteq turnedAway[c] \cup {"send"}
  PROVE  RoundOK(c)'
<1>1. chans[c] \in AnyChannel /\ WellFormed(chans[c])
  BY MadeType DEF RuntimeInv
<1>2. Caps \in SUBSET Nat /\ chans[c] \in Channel(Threads, Payload, Caps)
  BY <1>1, Typed
<1>3. LeftBySend(chans[c], Send(chans[c], t, d).chan)
  BY <1>1, <1>2, SendBlocks
<1>4. LeftBySend(chans[c], chans'[c])
  BY <1>3
<1>5. CASE IsBuffered(chans[c])
  BY <1>4, <1>5 DEF RoundOK, LeftBySend
<1>6. CASE ~IsBuffered(chans[c])
  <2>1. ~IsBuffered(chans'[c])
    BY <1>4, <1>6 DEF IsBuffered, LeftBySend
  <2> QED BY <1>4, <1>6, <2>1 DEF RoundOK, HandingState, LeftBySend
<1> QED BY <1>5, <1>6

\* ... and one that has no value for a receive or a select that polls it.
LEMMA RoundReceive ==
  ASSUME RuntimeInv, NEW c \in Made, c \in Made', RoundOK(c), NEW t,
         Receive(chans[c], t).status # "Value", chans'[c] = Receive(chans[c], t).chan,
         turnedAway'[c] \subseteq turnedAway[c] \cup {"receive"}
  PROVE  RoundOK(c)'
<1>1. chans[c] \in AnyChannel /\ WellFormed(chans[c])
  BY MadeType DEF RuntimeInv
<1>2. Caps \in SUBSET Nat /\ chans[c] \in Channel(Threads, Payload, Caps)
  BY <1>1, Typed
<1>3. LeftByReceive(chans[c], Receive(chans[c], t).chan)
  BY <1>1, <1>2, ReceiveBlocks
<1>4. LeftByReceive(chans[c], chans'[c])
  BY <1>3
<1>5. CASE IsBuffered(chans[c])
  BY <1>4, <1>5 DEF RoundOK, LeftByReceive
<1>6. CASE ~IsBuffered(chans[c])
  <2>1. ~IsBuffered(chans'[c])
    BY <1>4, <1>6 DEF IsBuffered, LeftByReceive
  <2> QED BY <1>4, <1>6, <2>1 DEF RoundOK, HandingState, LeftByReceive
<1> QED BY <1>5, <1>6

\* Only the goroutine that takes the step blocks in it.
LEMMA TurnedAwayBy ==
  ASSUME NEW c, RoundStep(c), NEW t, running = t
  PROVE  /\ ~Inside(t, "send", c) /\ ~Inside(t, "receive", c) =>
              turnedAway'[c] \subseteq turnedAway[c]
         /\ Inside(t, "send", c) => turnedAway'[c] \subseteq turnedAway[c] \cup {"send"}
         /\ Inside(t, "receive", c) => turnedAway'[c] \subseteq turnedAway[c] \cup {"receive"}
<1>1. \A op : Blocked(op, c) => Inside(t, op, c)
  BY DEF Blocked, MayStep
<1>2. ~(Inside(t, "send", c) /\ Inside(t, "receive", c))
  BY DEF Inside
<1> QED BY <1>1, <1>2 DEF RoundStep

\* An operation that returns with a value, or rid of one, ends the round.
LEMMA RoundOver ==
  ASSUME RuntimeInv, NEW c, RoundStep(c), NEW t \in Threads, running = t,
         NEW x \in {"Sent", "Value"}, NEW i, NEW d, Return(t, Result(x, i, d)),
         \/ frame[t].op \in {"send", "receive"} /\ frame[t].channel = c
         \/ frame[t].op = "select" /\ frame[t].entries[i].channel = c
  PROVE  RoundOK(c)'
<1>1. frame'[t] = UserCode /\ result'[t] = Result(x, i, d)
  BY DEF Return, RuntimeInv, RuntimeTypeOK
<1>2. result'[t].status = x /\ result'[t].index = i
  BY <1>1 DEF Result
<1>3. Returns(t, c, x)
  BY <1>1, <1>2 DEF Returns, Target
<1>4. turnedAway'[c] = {}
  BY <1>3 DEF RoundStep, GetsThrough
<1> QED BY <1>4 DEF RoundOK

\* One channel through one step.
LEMMA RoundNext ==
  ASSUME RoundInv, [RuntimeNext]_vars, NEW c \in Chans,
         RoundStep(c) \/ (UNCHANGED vars /\ turnedAway' = turnedAway)
  PROVE  RoundOK(c)'
<1>1. /\ RuntimeInv /\ RoundOK(c)
      /\ chans = [x \in Chans |-> chans[x]] /\ frame \in [Threads -> Frames]
      /\ \A t \in Threads : Used(frame[t]) \subseteq Made
      /\ Made \subseteq Chans
  BY DEF RoundInv, RuntimeInv, RuntimeTypeOK, FramesOK, Made
<1>2. c \in Made => c \in Made'
  BY <1>1, ChannelsNext
<1>3. ASSUME chans'[c] = chans[c], turnedAway'[c] \subseteq turnedAway[c] PROVE RoundOK(c)'
  BY <1>1, <1>3, RoundKept DEF Made
<1>4. CASE UNCHANGED vars /\ turnedAway' = turnedAway
  BY <1>3, <1>4 DEF vars
<1>5. SUFFICES ASSUME RoundStep(c) PROVE RoundOK(c)'
  BY <1>4
<1>6. ASSUME NEW t \in Threads, MayStep(t), ~Inside(t, "send", c), ~Inside(t, "receive", c)
      PROVE  turnedAway'[c] \subseteq turnedAway[c]
  BY <1>5, <1>6, TurnedAwayBy DEF MayStep
<1>7. ASSUME NEW t \in Threads, ChannelNew(t) PROVE RoundOK(c)'
  <2>1. /\ MayStep(t) /\ frame[t].op = "new"
        /\ chans' = [chans EXCEPT ![frame[t].channel] = NewChannel(frame[t].capacity)]
    BY <1>7 DEF ChannelNew, In
  <2>2. turnedAway'[c] \subseteq turnedAway[c]
    BY <1>6, <2>1 DEF Inside
  <2>3. CASE frame[t].channel = c
    <3>1. c \notin Made
      BY <1>1, <2>1, <2>3 DEF RuntimeInv, NewOK
    <3>2. turnedAway'[c] = {}
      BY <1>1, <2>2, <3>1 DEF RoundOK
    <3> QED BY <3>2 DEF RoundOK
  <2>4. CASE frame[t].channel # c
    BY <1>1, <1>3, <2>1, <2>2, <2>4
  <2> QED BY <2>3, <2>4
<1>8. ASSUME NEW t \in Threads, ChannelSend(t) PROVE RoundOK(c)'
  <2> DEFINE s == Send(chans[frame[t].channel], t, frame[t].data)
  <2>1. /\ MayStep(t) /\ running = t /\ frame[t].op = "send"
        /\ chans' = [chans EXCEPT ![frame[t].channel] = s.chan]
        /\ IF s.done THEN Finish(t, Result("Sent", 0, NoData)) ELSE Block(t)
    BY <1>8 DEF ChannelSend, In, MayStep
  <2>2. CASE frame[t].channel # c
    <3>1. turnedAway'[c] \subseteq turnedAway[c]
      BY <1>6, <2>1, <2>2 DEF Inside
    <3> QED BY <1>1, <1>3, <2>1, <2>2, <3>1
  <2>3. CASE frame[t].channel = c /\ s.done
    BY <1>1, <1>5, <2>1, <2>3, RoundOver DEF Finish
  <2>4. CASE frame[t].channel = c /\ ~s.done
    <3>1. c \in Made
      BY <1>1, <2>1, <2>4 DEF Used
    <3>2. turnedAway'[c] \subseteq turnedAway[c] \cup {"send"}
      BY <1>5, <2>1, <2>4, TurnedAwayBy DEF Inside
    <3>3. chans'[c] = Send(chans[c], t, frame[t].data).chan /\ ~Send(chans[c], t, frame[t].data).done
      BY <1>1, <2>1, <2>4
    <3> QED BY <1>1, <1>2, <3>1, <3>2, <3>3, RoundSend
  <2> QED BY <2>2, <2>3, <2>4
<1>9. ASSUME NEW t \in Threads, ChannelReceive(t) PROVE RoundOK(c)'
  <2> DEFINE r == Receive(chans[frame[t].channel], t)
  <2>1. /\ MayStep(t) /\ running = t /\ frame[t].op = "receive"
        /\ chans' = [chans EXCEPT ![frame[t].channel] = r.chan]
        /\ IF r.status = "Blocked" THEN Block(t) ELSE Finish(t, Result(r.status, 0, r.data))
    BY <1>9 DEF ChannelReceive, In, MayStep
  <2>2. CASE frame[t].channel # c
    <3>1. turnedAway'[c] \subseteq turnedAway[c]
      BY <1>6, <2>1, <2>2 DEF Inside
    <3> QED BY <1>1, <1>3, <2>1, <2>2, <3>1
  <2>3. CASE frame[t].channel = c /\ r.status = "Value"
    BY <1>1, <1>5, <2>1, <2>3, RoundOver DEF Finish
  <2>4. CASE frame[t].channel = c /\ r.status # "Value"
    <3>1. c \in Made
      BY <1>1, <2>1, <2>4 DEF Used
    <3>2. turnedAway'[c] \subseteq turnedAway[c] \cup {"receive"}
      BY <1>5, <2>1, <2>4, TurnedAwayBy DEF Inside
    <3>3. chans'[c] = Receive(chans[c], t).chan /\ Receive(chans[c], t).status # "Value"
      BY <1>1, <2>1, <2>4
    <3> QED BY <1>1, <1>2, <3>1, <3>2, <3>3, RoundReceive
  <2> QED BY <2>2, <2>3, <2>4
<1>10. ASSUME NEW t \in Threads, ChannelClose(t) PROVE RoundOK(c)'
  <2>1. /\ MayStep(t) /\ frame[t].op = "close"
        /\ chans' = chans \/ chans' = [chans EXCEPT ![frame[t].channel] = CloseChannel(@)]
        /\ frame[t].channel \in Made
    BY <1>1, <1>10 DEF ChannelClose, In, Abort, Used
  <2>2. turnedAway'[c] \subseteq turnedAway[c]
    BY <1>6, <2>1 DEF Inside
  <2>3. CASE chans'[c] = chans[c]
    BY <1>3, <2>2, <2>3
  <2>4. CASE chans'[c] # chans[c]
    <3>1. c \in Made /\ chans'[c] = CloseChannel(chans[c])
      BY <1>1, <2>1, <2>4
    <3>2. chans[c] \in AnyChannel
      BY <1>1, <3>1, MadeType DEF RuntimeInv
    <3>3. /\ chans'[c].capacity = chans[c].capacity /\ chans'[c].size = chans[c].size
          /\ chans'[c].state = chans[c].state
      BY <3>1, <3>2 DEF CloseChannel, AnyChannel, Channel
    <3> QED BY <1>1, <1>2, <2>2, <3>1, <3>3, RoundKept
  <2> QED BY <2>3, <2>4
<1>11. ASSUME NEW t \in Threads, SelectReady(t) PROVE RoundOK(c)'
  <2>1. MayStep(t) /\ running = t /\ frame[t].op = "select"
    BY <1>11 DEF SelectReady, In, MayStep
  <2>2. PICK i \in ReadyEntries(t) :
          LET e == frame[t].entries[i]
              s == Send(chans[e.channel], t, e.data)
              r == Receive(chans[e.channel], t)
          IN  IF e.dir = "send"
              THEN IF s.done
                   THEN /\ chans' = [chans EXCEPT ![e.channel] = s.chan]
                        /\ Finish(t, Result("Sent", i, NoData))
                   ELSE Abort(t)
              ELSE IF r.status = "Value"
                   THEN /\ chans' = [chans EXCEPT ![e.channel] = r.chan]
                        /\ Finish(t, Result("Value", i, r.data))
                   ELSE Abort(t)
    BY <1>11 DEF SelectReady
  <2> DEFINE e == frame[t].entries[i]
             r == Receive(chans[e.channel], t)
  <2>3. turnedAway'[c] \subseteq turnedAway[c]
    BY <1>6, <2>1 DEF Inside
  <2>4. CASE e.channel # c \/ Abort(t)
    <3>1. chans'[c] = chans[c]
      BY <1>1, <2>2, <2>4 DEF Abort
    <3> QED BY <1>3, <2>3, <3>1
  <2>5. CASE e.channel = c /\ Finish(t, Result("Sent", i, NoData))
    BY <1>1, <1>5, <2>1, <2>5, RoundOver DEF Finish
  <2>6. CASE e.channel = c /\ Finish(t, Result("Value", i, r.data))
    <3> HIDE DEF r
    <3> QED BY <1>1, <1>5, <2>1, <2>6, RoundOver DEF Finish
  <2> QED BY <2>2, <2>4, <2>5, <2>6
<1>12. ASSUME NEW t \in Threads, SelectPoll(t) PROVE RoundOK(c)'
  <2>1. /\ MayStep(t) /\ frame[t].op = "select" /\ ReadyEntries(t) = {}
        /\ chans' = [x \in Chans |-> IF x \in Polled(t) THEN Receive(chans[x], t).chan
                                                       ELSE chans[x]]
    BY <1>12 DEF SelectPoll, In
  <2>2. turnedAway'[c] \subseteq turnedAway[c]
    BY <1>6, <2>1 DEF Inside
  <2>3. CASE c \notin Polled(t)
    BY <1>3, <2>1, <2>2, <2>3
  <2>4. CASE c \in Polled(t)
    <3>1. PICK i \in Polls(t) : c = frame[t].entries[i].channel
      BY <2>4 DEF Polled
    <3>2. ~CanCompleteReceive(chans[c], t)
      BY <2>1, <3>1 DEF Polls, ReadyEntries, Ready
    <3>3. c \in Made
      BY <1>1, <2>1, <3>1, EntryOf DEF Polls
    <3>4. Receive(chans[c], t).status # "Value"
      BY <1>1, <3>2, <3>3, MadeType, Typed, CanCompleteReceiveAgrees DEF RuntimeInv
    <3>5. chans'[c] = Receive(chans[c], t).chan
      BY <2>1, <2>4
    <3> QED BY <1>1, <1>2, <2>2, <3>3, <3>4, <3>5, RoundReceive
  <2> QED BY <2>3, <2>4
<1>13. ASSUME NEW t \in Threads,
              LwtSpawn(t) \/ LwtYield(t) \/ Terminate(t) \/ \E f \in UserCalls : Call(t, f)
       PROVE  RoundOK(c)'
  <2>1. /\ MayStep(t) /\ frame[t].op \notin {"send", "receive"} /\ chans' = chans
    BY <1>13 DEF LwtSpawn, LwtYield, Terminate, Exit, Call, In, UserCode
  <2>2. turnedAway'[c] \subseteq turnedAway[c]
    BY <1>6, <2>1 DEF Inside
  <2> QED BY <1>3, <2>1, <2>2
<1>14. CASE Loop \/ UNCHANGED vars \/ (Ended /\ UNCHANGED <<chans, frame, result>>)
  <2>1. chans' = chans /\ suspended' \subseteq suspended
    BY <1>14 DEF Loop, Dispatch, Requeue, Ended, vars, schedVars
  <2>2. \A op : ~Blocked(op, c)
    BY <2>1 DEF Blocked, MayStep
  <2>3. turnedAway'[c] \subseteq turnedAway[c]
    BY <1>5, <2>2 DEF RoundStep
  <2> QED BY <1>3, <2>1, <2>3
<1> QED BY <1>7, <1>8, <1>9, <1>10, <1>11, <1>12, <1>13, <1>14
        DEF RuntimeNext, Handler, UserStep, ChannelSelect

\* Between two operations that get through, at most one side of a channel is
\* turned away, in any program.
THEOREM AtMostOneSideWaits == RoundsSpec => []OneSideWaits
<1>1. RoundsInit => RoundInv
  <2> SUFFICES ASSUME RoundsInit PROVE RoundInv
    OBVIOUS
  <2>1. RuntimeInv
    BY RuntimeInitInv DEF RoundsInit
  <2>2. \A c \in Chans : turnedAway[c] = {}
    BY DEF RoundsInit
  <2> QED BY <2>1, <2>2 DEF RoundsInit, RoundInv, RoundOK
<1>2. RoundInv /\ [RoundsNext]_roundVars => RoundInv'
  <2> SUFFICES ASSUME RoundInv, [RoundsNext]_roundVars PROVE RoundInv'
    OBVIOUS
  <2>1. [RuntimeNext]_vars
    BY DEF RoundsNext, roundVars
  <2>2. RuntimeInv'
    BY <2>1, RuntimeNextInv DEF RoundInv
  <2>3. DOMAIN turnedAway' = Chans
    BY DEF RoundInv, RoundsNext, roundVars
  <2>4. \A c \in Chans : RoundStep(c) \/ (UNCHANGED vars /\ turnedAway' = turnedAway)
    BY DEF RoundsNext, roundVars, RoundStep
  <2>5. \A c \in Chans : RoundOK(c)'
    BY <2>1, <2>4, RoundNext
  <2> QED BY <2>2, <2>3, <2>5 DEF RoundInv
<1>3. RoundInv => OneSideWaits
  <2> SUFFICES ASSUME RoundInv, NEW c \in Chans, turnedAway[c] = {"send", "receive"}
               PROVE  Handing(c)
    BY DEF OneSideWaits
  <2>1. RoundOK(c) /\ RuntimeInv
    BY DEF RoundInv
  <2>2. c \in Made
    BY <2>1 DEF RoundOK
  <2>3. chans[c] \in AnyChannel /\ WellFormed(chans[c])
    BY <2>1, <2>2, MadeType DEF RuntimeInv
  <2>4. ~IsBuffered(chans[c])
    <3>1. ASSUME IsBuffered(chans[c]) PROVE FALSE
      <4>1. chans[c].size = chans[c].capacity /\ chans[c].size = 0 /\ chans[c].capacity > 0
        BY <2>1, <2>2, <3>1 DEF RoundOK, IsBuffered
      <4> QED BY <4>1
    <3> QED BY <3>1
  <2>5. HandingState(chans[c].state)
    <3>1. ASSUME ~HandingState(chans[c].state) PROVE FALSE
      <4>1. chans[c].state.tag = "SenderReached" /\ chans[c].state.tag = "ReceiverReached"
        BY <2>1, <2>2, <2>4, <3>1 DEF RoundOK
      <4> QED BY <4>1
    <3> QED BY <3>1
  <2> QED BY <2>2, <2>5 DEF Handing, HandingState
<1> QED BY <1>1, <1>2, <1>3, PTL DEF RoundsSpec

-----------------------------------------------------------------------------
(* Every channel refines the bounded queue.                                *)

\* Each way a channel can change is an abstract put, take, make, close or stutter.
LEMMA ChannelStepIsFifo ==
  ASSUME RuntimeInv, NEW t \in Threads, NEW c \in Chans, ChannelStep(t, c)
  PROVE  [Fifo(c)!ChannelNext]_(Fifo(c)!channelVars)
<1> DEFINE Goal == [Fifo(c)!ChannelNext]_(Fifo(c)!channelVars)
<1>0. c \in Made => /\ chans[c] \in AnyChannel /\ WellFormed(chans[c])
                    /\ Contents(chans[c]) \in Seq(Payload)
  BY MadeType DEF RuntimeInv, ChannelsOK
<1>a. c \in Made' <=> chans'[c] # NotMade
  BY DEF Made
<1>b. c \in Made => c \in Made'
  BY <1>a, OneChannel
<1>1. CASE UNCHANGED chans[c]
  <2>1. c \in Made' <=> c \in Made
    BY <1>1 DEF Made
  <2> QED BY <1>1, <2>1 DEF Fifo!channelVars, QueueOf, SlotsOf, ClosedOf
<1>2. ASSUME c \notin Made, NEW n \in Caps, chans'[c] = NewChannel(n) PROVE Goal
  <2>1. /\ NewChannel(n) \in AnyChannel /\ Contents(NewChannel(n)) = <<>>
        /\ ~NewChannel(n).isClosed /\ NewChannel(n).capacity = n /\ n \in Nat
    BY Typed, NewType DEF NewChannel
  <2>2. c \in Made'
    BY <1>2, <1>a, <2>1, ConstantsAssumption DEF AnyChannel, Caps
  <2>3. QueueOf(c) = <<>> /\ SlotsOf(c) = 0 /\ ClosedOf(c) = FALSE
    BY <1>2 DEF QueueOf, SlotsOf, ClosedOf
  <2>4. QueueOf(c)' = <<>> /\ SlotsOf(c)' \in Nat \ {0} /\ ClosedOf(c)' = FALSE
    BY <1>2, <2>1, <2>2 DEF QueueOf, SlotsOf, ClosedOf, IsBuffered
  <2> QED BY <2>3, <2>4 DEF Fifo!ChannelNext, Fifo!Make
<1>3. ASSUME c \in Made PROVE
        /\ QueueOf(c) = Contents(chans[c]) /\ QueueOf(c)' = Contents(chans'[c])
        /\ SlotsOf(c) = Slots(chans[c]) /\ SlotsOf(c)' = Slots(chans'[c])
        /\ ClosedOf(c) = chans[c].isClosed /\ ClosedOf(c)' = chans'[c].isClosed
  <2>1. /\ c \in Made'
        /\ chans[c] \in AnyChannel
        /\ chans'[c] \in AnyChannel
    BY <1>0, <1>3, <1>a, <1>b, OneChannel
  <2>2. chans[c].isClosed \in BOOLEAN /\ chans'[c].isClosed \in BOOLEAN
    BY <2>1 DEF AnyChannel, Channel
  <2> QED BY <1>3, <2>1, <2>2 DEF QueueOf, SlotsOf, ClosedOf, Slots
<1>4. ASSUME c \in Made, NEW d \in Payload, chans'[c] = Send(chans[c], t, d).chan PROVE Goal
  <2>1. \/ Contents(chans'[c]) = Contents(chans[c])
        \/ /\ Len(Contents(chans[c])) < Slots(chans[c])
           /\ Contents(chans'[c]) = Append(Contents(chans[c]), d)
    BY <1>0, <1>4, Typed, SendIsPut
  <2>2. chans'[c].capacity = chans[c].capacity /\ chans'[c].isClosed = chans[c].isClosed
    BY <1>0, <1>4, Typed, SendType
  <2>3. Slots(chans'[c]) = Slots(chans[c])
    BY <2>2 DEF Slots, IsBuffered
  <2> QED BY <1>3, <1>4, <2>1, <2>2, <2>3 DEF Fifo!ChannelNext, Fifo!Put, Fifo!channelVars
<1>5. ASSUME c \in Made, chans'[c] = Receive(chans[c], t).chan PROVE Goal
  <2>1. \/ Contents(chans'[c]) = Contents(chans[c])
        \/ /\ Contents(chans[c]) # <<>>
           /\ Contents(chans'[c]) = Tail(Contents(chans[c]))
    BY <1>0, <1>5, Typed, ReceiveIsTake
  <2>2. chans'[c].capacity = chans[c].capacity /\ chans'[c].isClosed = chans[c].isClosed
    BY <1>0, <1>5, Typed, ReceiveType
  <2>3. Slots(chans'[c]) = Slots(chans[c])
    BY <2>2 DEF Slots, IsBuffered
  <2> QED BY <1>3, <1>5, <2>1, <2>2, <2>3 DEF Fifo!ChannelNext, Fifo!Take, Fifo!channelVars
<1>6. ASSUME c \in Made, ~chans[c].isClosed, chans'[c] = CloseChannel(chans[c]) PROVE Goal
  <2>1. /\ Contents(chans'[c]) = Contents(chans[c])
        /\ chans'[c].capacity = chans[c].capacity
        /\ chans'[c].isClosed = TRUE
        /\ chans[c].isClosed = FALSE
    <3>1. chans[c] \in Channel(Threads, Payload, Caps)
      BY <1>0, <1>6, Typed
    <3>2. chans[c].isClosed \in BOOLEAN
      BY <3>1, Typed, Fields
    <3>3. CloseChannel(chans[c]).isClosed = TRUE
      BY <3>1 DEF CloseChannel, Channel
    <3> QED BY <1>6, <3>1, <3>2, <3>3, CloseKeeps
  <2>2. Slots(chans'[c]) = Slots(chans[c])
    BY <2>1 DEF Slots, IsBuffered
  <2>3. Slots(chans[c]) > 0
    BY <1>0, <1>6, Typed, Fields DEF Slots, IsBuffered
  <2> QED BY <1>3, <1>6, <2>1, <2>2, <2>3 DEF Fifo!ChannelNext, Fifo!CloseIt
<1> QED BY <1>1, <1>2, <1>4, <1>5, <1>6 DEF ChannelStep

\* Every channel is a bounded FIFO queue: ring arithmetic, retried sends,
\* selects that give up and closes never lose, repeat, reorder or invent a value.
THEOREM ChannelsAreFifo == RuntimeSpec => EveryChannelIsFifo
<1>1. RuntimeInit => \A c \in Chans : Fifo(c)!ChannelInit
  <2> SUFFICES ASSUME RuntimeInit, NEW c \in Chans PROVE Fifo(c)!ChannelInit
    OBVIOUS
  <2>1. c \notin Made
    BY DEF RuntimeInit, Made
  <2> QED BY <2>1 DEF Fifo!ChannelInit, QueueOf, SlotsOf, ClosedOf
<1>2. RuntimeInv /\ [RuntimeNext]_vars =>
        \A c \in Chans : [Fifo(c)!ChannelNext]_(Fifo(c)!channelVars)
  <2> SUFFICES ASSUME RuntimeInv, [RuntimeNext]_vars, NEW c \in Chans
               PROVE  [Fifo(c)!ChannelNext]_(Fifo(c)!channelVars)
    OBVIOUS
  <2> QED BY Steps, ChannelStepIsFifo
<1> QED BY <1>1, <1>2, RuntimeInvariant, PTL DEF RuntimeSpec, EveryChannelIsFifo

-----------------------------------------------------------------------------
(* Programs without select: receivers are live as senders are.              *)

NoSelect == \A f \in UserCalls : f.op # "select"
NoSelectFrame == \A t \in Threads : frame[t].op # "select"

\* What ReceiverRegistrationLive says of one channel.
ReceiverLive(c) ==
  ~chans[c].isClosed /\ Waiting(chans[c].state) =>
    Inside(chans[c].state.receiver, "receive", c)

LEMMA ReceiverLiveEach ==
  ReceiverRegistrationLive <=> \A c \in Made : ReceiverLive(c)
BY DEF ReceiverRegistrationLive, ReceiverLive, Waiting

\* The thread a registration names is a thread.
LEMMA ReceiverType ==
  ASSUME RuntimeInv, NEW c \in Made, Waiting(chans[c].state)
  PROVE  chans[c].state.receiver \in Threads
<1>1. chans[c] \in Channel(Threads, Payload, Caps)
  BY MadeType, Typed DEF RuntimeInv
<1>2. chans[c].state \in RendezvousState(Threads, Payload)
  BY <1>1, Typed, Fields
<1> QED BY <1>2 DEF RendezvousState, Waiting, Initial

\* Where a step of t can happen in a program without select, seen from the
\* channels and the frames.
PlainStep(t) ==
  \/ chans' = chans /\ frame' = frame
  \/ /\ chans' = chans /\ frame[t].op \in {"spawn", "yield"}
     /\ frame' = [frame EXCEPT ![t] = UserCode]
  \/ \E f \in UserCalls : Call(t, f)
  \/ /\ frame[t].op = "new" /\ frame[t].channel \in Chans \ Made
     /\ \E n \in Caps : chans' = [chans EXCEPT ![frame[t].channel] = NewChannel(n)]
     /\ frame' = [frame EXCEPT ![t] = UserCode]
  \/ /\ frame[t].op = "send" /\ frame[t].channel \in Made
     /\ chans' = [chans EXCEPT ![frame[t].channel] = Send(@, t, frame[t].data).chan]
     /\ frame' = IF Send(chans[frame[t].channel], t, frame[t].data).done
                 THEN [frame EXCEPT ![t] = UserCode] ELSE frame
  \/ /\ frame[t].op = "receive" /\ frame[t].channel \in Made
     /\ chans' = [chans EXCEPT ![frame[t].channel] = Receive(@, t).chan]
     /\ frame' = IF Receive(chans[frame[t].channel], t).status = "Blocked"
                 THEN frame ELSE [frame EXCEPT ![t] = UserCode]
  \/ /\ frame[t].op = "close" /\ frame[t].channel \in Made
     /\ ~chans[frame[t].channel].isClosed
     /\ chans' = [chans EXCEPT ![frame[t].channel] = CloseChannel(@)]
     /\ frame' = [frame EXCEPT ![t] = UserCode]

LEMMA PlainSteps ==
  ASSUME RuntimeInv, NoSelectFrame, [RuntimeNext]_vars
  PROVE  \E t \in Threads : PlainStep(t)
<1>1. frame \in [Threads -> Frames] /\ UserCode \in Frames /\ UserCode.op = "none"
  BY DEF RuntimeInv, RuntimeTypeOK, Frames, UserCode
<1>2. \A t \in Threads : Used(frame[t]) \subseteq Made
  BY DEF RuntimeInv, FramesOK
<1>3. ASSUME NEW t \in Threads, NEW f \in UserCalls, Call(t, f) PROVE PlainStep(t)
  BY <1>3 DEF PlainStep
<1>4. ASSUME NEW t \in Threads, ChannelNew(t) PROVE PlainStep(t)
  <2>1. /\ frame[t].op = "new" /\ frame' = [frame EXCEPT ![t] = UserCode]
        /\ chans' = [chans EXCEPT ![frame[t].channel] = NewChannel(frame[t].capacity)]
    BY <1>4 DEF ChannelNew, In, Finish, Return
  <2>2. frame[t].channel \in Chans \ Made /\ frame[t].capacity \in Caps
    BY <1>1, <2>1, FrameFields DEF RuntimeInv, NewOK
  <2> QED BY <2>1, <2>2 DEF PlainStep
<1>5. ASSUME NEW t \in Threads, ChannelSend(t) PROVE PlainStep(t)
  <2>1. /\ frame[t].op = "send" /\ frame[t].channel \in Made
        /\ chans' = [chans EXCEPT ![frame[t].channel] = Send(@, t, frame[t].data).chan]
        /\ frame' = IF Send(chans[frame[t].channel], t, frame[t].data).done
                    THEN [frame EXCEPT ![t] = UserCode] ELSE frame
    BY <1>2, <1>5 DEF ChannelSend, In, Finish, Return, Block, Used
  <2> QED BY <2>1 DEF PlainStep
<1>6. ASSUME NEW t \in Threads, ChannelReceive(t) PROVE PlainStep(t)
  <2>1. /\ frame[t].op = "receive" /\ frame[t].channel \in Made
        /\ chans' = [chans EXCEPT ![frame[t].channel] = Receive(@, t).chan]
        /\ frame' = IF Receive(chans[frame[t].channel], t).status = "Blocked"
                    THEN frame ELSE [frame EXCEPT ![t] = UserCode]
    BY <1>2, <1>6 DEF ChannelReceive, In, Finish, Return, Block, Used
  <2> QED BY <2>1 DEF PlainStep
<1>7. ASSUME NEW t \in Threads, ChannelClose(t) PROVE PlainStep(t)
  <2>1. frame[t].op = "close" /\ frame[t].channel \in Made
    BY <1>2, <1>7 DEF ChannelClose, In, Used
  <2>2. CASE chans[frame[t].channel].isClosed
    BY <1>7, <2>2 DEF ChannelClose, Abort, PlainStep
  <2>3. CASE ~chans[frame[t].channel].isClosed
    BY <1>7, <2>1, <2>3 DEF ChannelClose, Finish, Return, PlainStep
  <2> QED BY <2>2, <2>3
<1>8. ASSUME NEW t \in Threads, LwtSpawn(t) \/ LwtYield(t) PROVE PlainStep(t)
  BY <1>1, <1>8 DEF LwtSpawn, LwtYield, In, Return, PlainStep
<1>9. CASE \/ Loop \/ UNCHANGED vars \/ (Ended /\ UNCHANGED <<chans, frame, result>>)
           \/ \E t \in Threads : Terminate(t)
  <2>1. PlainStep(0)
    BY <1>9 DEF Loop, vars, Terminate, PlainStep
  <2> QED BY <2>1, MaxThreadsAssumption DEF Threads
<1>10. ~\E t \in Threads : ChannelSelect(t)
  BY DEF ChannelSelect, SelectReady, SelectPoll, In, NoSelectFrame
<1> QED BY <1>3, <1>4, <1>5, <1>6, <1>7, <1>8, <1>9, <1>10 DEF RuntimeNext, Handler, UserStep

\* A program without select has no frame of one.
LEMMA NoSelectNext ==
  ASSUME NoSelect, RuntimeInv, NoSelectFrame, [RuntimeNext]_vars
  PROVE  NoSelectFrame'
<1>1. frame \in [Threads -> Frames] /\ UserCode.op = "none"
  BY DEF RuntimeInv, RuntimeTypeOK, UserCode
<1>2. PICK t \in Threads : FrameStep(t)
  BY Steps
<1> QED BY <1>1, <1>2 DEF FrameStep, NoSelectFrame, NoSelect

\* A registration stays live when its channel keeps it and its receiver keeps
\* its frame.
LEMMA StaysReceiverLive ==
  ASSUME RuntimeInv, ReceiverRegistrationLive, NEW c \in Made', c \in Made,
         ~chans'[c].isClosed => ~chans[c].isClosed,
         Waiting(chans'[c].state) =>
           /\ Waiting(chans[c].state)
           /\ chans'[c].state.receiver = chans[c].state.receiver,
         \A u \in Threads : Inside(u, "receive", c) => frame'[u] = frame[u]
  PROVE  ReceiverLive(c)'
<1> SUFFICES ASSUME ~chans'[c].isClosed, Waiting(chans'[c].state)
             PROVE  /\ frame'[chans'[c].state.receiver].op = "receive"
                    /\ frame'[chans'[c].state.receiver].channel = c
  BY DEF ReceiverLive, Inside, Waiting
<1> DEFINE r == chans[c].state.receiver
<1>1. Inside(r, "receive", c) /\ r \in Threads
  BY ReceiverLiveEach, ReceiverType DEF ReceiverLive
<1>2. frame'[r] = frame[r]
  BY <1>1
<1> QED BY <1>1, <1>2 DEF Inside

\* A blocked receive is the only step that leaves a receiver registered, and it
\* keeps its frame; the others disturb no receiver.
LEMMA ReceiversNext ==
  ASSUME RuntimeInv, NoSelectFrame, ReceiverRegistrationLive, [RuntimeNext]_vars
  PROVE  ReceiverRegistrationLive'
<1>a. /\ chans = [c \in Chans |-> chans[c]] /\ Made \subseteq Chans
      /\ frame \in [Threads -> Frames]
  BY DEF RuntimeInv, RuntimeTypeOK, Made
<1> SUFFICES ASSUME NEW c \in Made' PROVE ReceiverLive(c)'
  BY DEF ReceiverRegistrationLive, ReceiverLive, Waiting
<1>1. PICK t \in Threads : PlainStep(t)
  BY PlainSteps
<1>2. ASSUME frame[t].op # "receive" \/ frame[t].channel # c,
             \A u \in Threads : u # t => frame'[u] = frame[u]
      PROVE  \A u \in Threads : Inside(u, "receive", c) => frame'[u] = frame[u]
  BY <1>2 DEF Inside
<1>3. ASSUME chans'[c] = chans[c],
             \A u \in Threads : Inside(u, "receive", c) => frame'[u] = frame[u]
      PROVE  ReceiverLive(c)'
  <2>1. c \in Made
    BY <1>3 DEF Made
  <2> QED BY <1>3, <2>1, StaysReceiverLive
<1>4. c \in Made => chans[c] \in AnyChannel /\ WellFormed(chans[c])
  BY MadeType DEF RuntimeInv
<1>5. CASE chans' = chans /\ frame' = frame
  BY <1>3, <1>5
<1>6. CASE \/ /\ chans' = chans /\ frame[t].op \in {"spawn", "yield"}
              /\ frame' = [frame EXCEPT ![t] = UserCode]
           \/ \E f \in UserCalls : Call(t, f)
  <2>1. /\ chans' = chans /\ frame[t].op # "receive"
        /\ \A u \in Threads : u # t => frame'[u] = frame[u]
    BY <1>a, <1>6 DEF Call, UserCode
  <2> QED BY <1>2, <1>3, <2>1
<1>7. CASE /\ frame[t].op = "new" /\ frame[t].channel \in Chans \ Made
           /\ \E n \in Caps : chans' = [chans EXCEPT ![frame[t].channel] = NewChannel(n)]
           /\ frame' = [frame EXCEPT ![t] = UserCode]
  <2>1. \A u \in Threads : u # t => frame'[u] = frame[u]
    BY <1>a, <1>7
  <2>2. CASE c = frame[t].channel
    <3>1. ~Waiting(chans'[c].state)
      BY <1>a, <1>7, <2>2 DEF NewChannel, Initial, Waiting
    <3> QED BY <3>1 DEF ReceiverLive, Waiting
  <2>3. CASE c # frame[t].channel
    <3>1. chans'[c] = chans[c]
      BY <1>a, <1>7, <2>3 DEF Made
    <3> QED BY <1>2, <1>3, <1>7, <2>1, <3>1
  <2> QED BY <2>2, <2>3
<1>8. CASE /\ frame[t].op = "send" /\ frame[t].channel \in Made
           /\ chans' = [chans EXCEPT ![frame[t].channel] = Send(@, t, frame[t].data).chan]
           /\ frame' = IF Send(chans[frame[t].channel], t, frame[t].data).done
                       THEN [frame EXCEPT ![t] = UserCode] ELSE frame
  <2>1. \A u \in Threads : u # t => frame'[u] = frame[u]
    BY <1>a, <1>8
  <2>2. CASE c = frame[t].channel
    <3>1. PICK d \in Payload : chans'[c] = Send(chans[c], t, d).chan
      BY <1>a, <1>8, <2>2, FrameFields
    <3>2. c \in Made /\ chans[c] \in AnyChannel /\ WellFormed(chans[c])
      BY <1>4, <1>8, <2>2
    <3>3. Waiting(chans'[c].state) =>
             /\ Waiting(chans[c].state)
             /\ chans'[c].state.receiver = chans[c].state.receiver
      BY <3>1, <3>2, Typed, SendWaiting
    <3>4. chans'[c].isClosed = chans[c].isClosed
      BY <3>1, <3>2, Typed, SendType
    <3> QED BY <1>2, <1>8, <2>1, <3>2, <3>3, <3>4, StaysReceiverLive
  <2>3. CASE c # frame[t].channel
    <3>1. chans'[c] = chans[c]
      BY <1>a, <1>8, <2>3 DEF Made
    <3> QED BY <1>2, <1>3, <1>8, <2>1, <3>1
  <2> QED BY <2>2, <2>3
<1>9. CASE /\ frame[t].op = "receive" /\ frame[t].channel \in Made
           /\ chans' = [chans EXCEPT ![frame[t].channel] = Receive(@, t).chan]
           /\ frame' = IF Receive(chans[frame[t].channel], t).status = "Blocked"
                       THEN frame ELSE [frame EXCEPT ![t] = UserCode]
  <2>1. \A u \in Threads : u # t => frame'[u] = frame[u]
    BY <1>a, <1>9
  <2>2. CASE c = frame[t].channel
    <3>1. c \in Made /\ chans[c] \in AnyChannel /\ WellFormed(chans[c])
      BY <1>4, <1>9, <2>2
    <3>2. chans'[c] = Receive(chans[c], t).chan
      BY <1>a, <1>9, <2>2, <3>1
    <3>3. chans'[c].isClosed = chans[c].isClosed
      BY <3>1, <3>2, Typed, ReceiveType
    <3> SUFFICES ASSUME ~chans[c].isClosed, Waiting(chans'[c].state) PROVE ReceiverLive(c)'
      BY <3>3 DEF ReceiverLive, Waiting
    <3>4. /\ Receive(chans[c], t).status # "Value"
          /\ \/ chans'[c].state = ReceiverReached(t)
             \/ chans'[c].state = chans[c].state
      BY <3>1, <3>2, Typed, ReceiveWaiting
    <3>5. Receive(chans[c], t).status = "Blocked"
      BY <3>4 DEF Receive, ReceiveStatus
    <3>6. frame' = frame
      BY <1>9, <2>2, <3>5
    <3>7. CASE chans'[c].state = ReceiverReached(t)
      <4>1. chans'[c].state.receiver = t
        BY <3>7 DEF ReceiverReached
      <4>2. frame'[t].op = "receive" /\ frame'[t].channel = c
        BY <1>9, <2>2, <3>6
      <4> QED BY <4>1, <4>2 DEF ReceiverLive, Inside
    <3>8. CASE chans'[c].state = chans[c].state
      BY <3>1, <3>6, <3>8, StaysReceiverLive
    <3> QED BY <3>4, <3>7, <3>8
  <2>3. CASE c # frame[t].channel
    <3>1. chans'[c] = chans[c]
      BY <1>a, <1>9, <2>3 DEF Made
    <3> QED BY <1>2, <1>3, <2>1, <2>3, <3>1
  <2> QED BY <2>2, <2>3
<1>10. CASE /\ frame[t].op = "close" /\ frame[t].channel \in Made
            /\ ~chans[frame[t].channel].isClosed
            /\ chans' = [chans EXCEPT ![frame[t].channel] = CloseChannel(@)]
            /\ frame' = [frame EXCEPT ![t] = UserCode]
  <2>1. \A u \in Threads : u # t => frame'[u] = frame[u]
    BY <1>a, <1>10
  <2>2. CASE c = frame[t].channel
    <3>1. chans[c] \in AnyChannel /\ chans'[c] = CloseChannel(chans[c])
      BY <1>4, <1>a, <1>10, <2>2
    <3>2. chans'[c].isClosed
      BY <3>1, Typed, CloseKeeps
    <3> QED BY <3>2 DEF ReceiverLive
  <2>3. CASE c # frame[t].channel
    <3>1. chans'[c] = chans[c]
      BY <1>a, <1>10, <2>3 DEF Made
    <3> QED BY <1>2, <1>3, <1>10, <2>1, <3>1
  <2> QED BY <2>2, <2>3
<1> QED BY <1>1, <1>5, <1>6, <1>7, <1>8, <1>9, <1>10 DEF PlainStep

\* Without select, the receiver an open channel names is still in its receive:
\* a send that completes against it has somebody to take its value.
THEOREM ReceiversLive ==
  ASSUME NoSelect
  PROVE  RuntimeSpec => []ReceiverRegistrationLive
<1> DEFINE Inv == RuntimeInv /\ NoSelectFrame /\ ReceiverRegistrationLive
<1>1. RuntimeInit => Inv
  <2>1. RuntimeInit => NoSelectFrame /\ ReceiverRegistrationLive
    BY DEF RuntimeInit, NoSelectFrame, UserCode, ReceiverRegistrationLive, Made
  <2> QED BY <2>1, RuntimeInitInv
<1>2. Inv /\ [RuntimeNext]_vars => Inv'
  BY RuntimeNextInv, NoSelectNext, ReceiversNext
<1> QED BY <1>1, <1>2, PTL DEF RuntimeSpec

-----------------------------------------------------------------------------
(* Programs that respect Go's rules for close, without select.              *)

\* The receiver a value waits for is in its receive, on a closed channel too.
ServedLive ==
  \A c \in Made : chans[c].state.tag = "ReceiverReachedSenderAccepted" =>
    Inside(chans[c].state.receiver, "receive", c)

\* A send that is on a closed channel is one whose value was taken before.
TakenBeforeClose(c) ==
  \A u \in Threads : Inside(u, "send", c) =>
    chans[c].state = SenderReachedReceiverAccepted(u)

ClosedQuiet == \A c \in Made : chans[c].isClosed => TakenBeforeClose(c)

\* gox5_channel_close runs right after its frame is pushed, so the channel is
\* still as it was when the program was entitled to close it.
CloseOK ==
  \A t \in Threads : frame[t].op = "close" =>
    /\ running = t /\ t \notin suspended
    /\ ~chans[frame[t].channel].isClosed
    /\ TakenBeforeClose(frame[t].channel)

LegalInv ==
  /\ RuntimeInv /\ NoSelectFrame /\ ReceiverRegistrationLive
  /\ ServedLive /\ ClosedQuiet /\ CloseOK

\* Everybody but the thread that takes the step keeps its frame.
LEMMA OnlyOneFrame ==
  ASSUME RuntimeInv, NEW t \in Threads, PlainStep(t)
  PROVE  \A u \in Threads : u # t => frame'[u] = frame[u]
BY DEF PlainStep, Call, RuntimeInv, RuntimeTypeOK

\* What a step of a plain program does to one channel c: nothing, or the one
\* thing its frame says.
LEMMA PlainChannel ==
  ASSUME RuntimeInv, NEW t \in Threads, PlainStep(t), NEW c \in Made', chans'[c] # chans[c]
  PROVE  /\ frame[t].channel = c
         /\ \/ frame[t].op = "new" /\ \E n \in Caps : chans'[c] = NewChannel(n)
            \/ /\ frame[t].op = "send" /\ c \in Made /\ frame[t].data \in Payload
               /\ chans'[c] = Send(chans[c], t, frame[t].data).chan
               /\ frame' = IF Send(chans[c], t, frame[t].data).done
                           THEN [frame EXCEPT ![t] = UserCode] ELSE frame
            \/ /\ frame[t].op = "receive" /\ c \in Made
               /\ chans'[c] = Receive(chans[c], t).chan
               /\ frame' = IF Receive(chans[c], t).status = "Blocked"
                           THEN frame ELSE [frame EXCEPT ![t] = UserCode]
            \/ /\ frame[t].op = "close" /\ c \in Made /\ ~chans[c].isClosed
               /\ chans'[c] = CloseChannel(chans[c])
               /\ frame' = [frame EXCEPT ![t] = UserCode]
<1>1. /\ chans = [e \in Chans |-> chans[e]] /\ Made \subseteq Chans /\ Made' \subseteq Chans
      /\ frame \in [Threads -> Frames]
  BY DEF RuntimeInv, RuntimeTypeOK, Made
<1>2. frame[t].op = "send" => frame[t].data \in Payload
  BY <1>1, FrameFields
<1> QED BY <1>1, <1>2 DEF PlainStep, Call

\* A value that waits for a receiver was left by a send to one that is there:
\* nobody sends on a closed channel, where a registration may be stale.
LEMMA ServedNext ==
  ASSUME LegalInv, [RuntimeNext]_vars
  PROVE  ServedLive'
<1> USE DEF LegalInv
<1>1. PICK t \in Threads : PlainStep(t)
  BY PlainSteps
<1> SUFFICES ASSUME NEW c \in Made', chans'[c].state.tag = "ReceiverReachedSenderAccepted"
             PROVE  /\ frame'[chans'[c].state.receiver].op = "receive"
                    /\ frame'[chans'[c].state.receiver].channel = c
  BY DEF ServedLive, Inside
<1>2. c \in Made => /\ chans[c] \in AnyChannel /\ WellFormed(chans[c])
                    /\ Waiting(chans[c].state) => chans[c].state.receiver \in Threads
  BY MadeType, ReceiverType DEF RuntimeInv
<1>3. ASSUME c \in Made, chans'[c].state = chans[c].state,
             t # chans[c].state.receiver \/ frame' = frame
      PROVE  /\ frame'[chans'[c].state.receiver].op = "receive"
             /\ frame'[chans'[c].state.receiver].channel = c
  <2> DEFINE r == chans[c].state.receiver
  <2>1. Inside(r, "receive", c) /\ r \in Threads
    BY <1>2, <1>3 DEF ServedLive, Waiting
  <2>2. frame'[r] = frame[r]
    BY <1>1, <1>3, <2>1, OnlyOneFrame
  <2> QED BY <1>3, <2>1, <2>2 DEF Inside
<1>4. CASE chans'[c] = chans[c]
  <2>1. c \in Made
    BY <1>4 DEF Made
  <2> DEFINE r == chans[c].state.receiver
  <2>2. Inside(r, "receive", c)
    BY <1>4, <2>1 DEF ServedLive
  <2>3. CASE t = r
    <3>1. frame[t].op = "receive" /\ frame[t].channel = c
      BY <2>2, <2>3 DEF Inside
    <3>2. Receive(chans[c], t).chan = chans[c] \/ frame' = frame
      BY <1>1, <1>4, <2>1, <3>1 DEF PlainStep, Call, UserCode, RuntimeInv, RuntimeTypeOK, Made
    <3>3. Receive(chans[c], t).chan # chans[c]
      <4>1. Served(chans[c].state, t) /\ Waiting(chans[c].state)
        BY <1>4, <2>3 DEF Served, Waiting
      <4>2. ASSUME Receive(chans[c], t).chan = chans[c] PROVE FALSE
        <5>1. Waiting(Receive(chans[c], t).chan.state)
          BY <4>1, <4>2
        <5>2. Receive(chans[c], t).chan.state = ReceiverReached(t)
          BY <1>2, <2>1, <4>1, <5>1, Typed, ReceiveWaiting
        <5> QED BY <1>4, <4>2, <5>2 DEF ReceiverReached
      <4> QED BY <4>2
    <3>4. frame' = frame
      BY <3>2, <3>3
    <3> QED BY <1>3, <1>4, <2>1, <3>4
  <2>4. CASE t # r
    BY <1>3, <1>4, <2>1, <2>4
  <2> QED BY <2>3, <2>4
<1>5. ASSUME frame[t].op = "new", NEW n \in Caps, chans'[c] = NewChannel(n) PROVE FALSE
  BY <1>5 DEF NewChannel, Initial
<1>6. ASSUME frame[t].op = "send", frame[t].channel = c, c \in Made, frame[t].data \in Payload,
             chans'[c] = Send(chans[c], t, frame[t].data).chan
      PROVE  /\ frame'[chans'[c].state.receiver].op = "receive"
             /\ frame'[chans'[c].state.receiver].channel = c
  <2> DEFINE r == chans[c].state.receiver
  <2>1. /\ chans'[c].state = chans[c].state \/ chans[c].state.tag = "ReceiverReached"
        /\ Waiting(chans[c].state) /\ chans'[c].state.receiver = r
    <3>1. chans'[c].state = chans[c].state \/ chans[c].state.tag = "ReceiverReached"
      BY <1>2, <1>6, Typed, SendServes
    <3>2. Waiting(chans[c].state) /\ chans'[c].state.receiver = r
      BY <1>2, <1>6, Typed, SendWaiting DEF Waiting
    <3> QED BY <3>1, <3>2
  <2>2. Inside(r, "receive", c) /\ r \in Threads
    <3>1. CASE chans'[c].state = chans[c].state
      BY <1>2, <1>6, <2>1, <3>1 DEF ServedLive
    <3>2. CASE chans[c].state.tag = "ReceiverReached"
      <4>1. ~chans[c].isClosed
        <5>1. Inside(t, "send", c)
          BY <1>6 DEF Inside
        <5>2. chans[c].isClosed => chans[c].state = SenderReachedReceiverAccepted(t)
          BY <1>6, <5>1 DEF ClosedQuiet, TakenBeforeClose
        <5>3. chans[c].state # SenderReachedReceiverAccepted(t)
          BY <3>2 DEF SenderReachedReceiverAccepted
        <5> QED BY <5>2, <5>3
      <4> QED BY <1>2, <1>6, <2>1, <4>1, ReceiverLiveEach DEF ReceiverLive
    <3> QED BY <2>1, <3>1, <3>2
  <2>3. r # t
    BY <1>6, <2>2 DEF Inside
  <2>4. frame'[r] = frame[r]
    BY <1>1, <2>2, <2>3, OnlyOneFrame
  <2> QED BY <2>1, <2>2, <2>4 DEF Inside
<1>7. ASSUME frame[t].op = "receive", c \in Made, chans'[c] = Receive(chans[c], t).chan
      PROVE  /\ frame'[chans'[c].state.receiver].op = "receive"
             /\ frame'[chans'[c].state.receiver].channel = c
  <2>1. Waiting(chans'[c].state)
    BY DEF Waiting
  <2>2. \/ chans'[c].state = ReceiverReached(t)
        \/ chans'[c].state = chans[c].state /\ ~Served(chans[c].state, t)
    BY <1>2, <1>7, <2>1, Typed, ReceiveWaiting
  <2>3. chans'[c].state = chans[c].state /\ chans[c].state.receiver # t
    BY <2>2 DEF ReceiverReached, Served
  <2> QED BY <1>3, <1>7, <2>3
<1>8. ASSUME frame[t].op = "close", c \in Made, chans'[c] = CloseChannel(chans[c])
      PROVE  /\ frame'[chans'[c].state.receiver].op = "receive"
             /\ frame'[chans'[c].state.receiver].channel = c
  <2>1. chans'[c].state = chans[c].state
    BY <1>2, <1>8, Typed, CloseKeeps
  <2>2. Inside(chans[c].state.receiver, "receive", c)
    BY <1>8, <2>1 DEF ServedLive
  <2>3. t # chans[c].state.receiver
    BY <1>8, <2>2 DEF Inside
  <2> QED BY <1>3, <1>8, <2>1, <2>3
<1> QED BY <1>1, <1>4, <1>5, <1>6, <1>7, <1>8, PlainChannel

\* No send and no receive opens or closes a channel.
LEMMA SendKeepsClosed ==
  ASSUME RuntimeInv, NEW c \in Made, NEW t \in Threads, NEW d \in Payload
  PROVE  Send(chans[c], t, d).chan.isClosed = chans[c].isClosed
<1>1. chans[c] \in AnyChannel /\ WellFormed(chans[c])
  BY MadeType DEF RuntimeInv
<1> QED BY <1>1, Typed, SendType

LEMMA ReceiveKeepsClosed ==
  ASSUME RuntimeInv, NEW c \in Made, NEW t \in Threads
  PROVE  Receive(chans[c], t).chan.isClosed = chans[c].isClosed
<1>1. chans[c] \in AnyChannel /\ WellFormed(chans[c])
  BY MadeType DEF RuntimeInv
<1> QED BY <1>1, Typed, ReceiveType

\* Nobody enters a send on a closed channel, and the receives that come after
\* the close leave the acknowledgement for the sender that waits for it.
LEMMA QuietNext ==
  ASSUME LegalInv, RuntimeInv', [RuntimeNext /\ LegalStep]_vars
  PROVE  ClosedQuiet'
<1> USE DEF LegalInv
<1>1. PICK t \in Threads : PlainStep(t)
  BY PlainSteps
<1> SUFFICES ASSUME NEW c \in Made', chans'[c].isClosed, NEW u \in Threads,
                    frame'[u].op = "send", frame'[u].channel = c
             PROVE  chans'[c].state = SenderReachedReceiverAccepted(u)
  BY DEF ClosedQuiet, TakenBeforeClose, Inside
<1>2. c \in Made => chans[c] \in AnyChannel /\ WellFormed(chans[c])
  BY MadeType DEF RuntimeInv
<1>3. frame \in [Threads -> Frames] /\ UserCode.op = "none"
  BY DEF RuntimeInv, RuntimeTypeOK, UserCode
<1>4. CASE chans'[c] = chans[c]
  <2>1. c \in Made /\ chans[c].isClosed
    BY <1>4 DEF Made
  <2>2. CASE frame'[u] = frame[u]
    BY <1>4, <2>1, <2>2 DEF ClosedQuiet, TakenBeforeClose, Inside
  <2>3. CASE frame'[u] # frame[u]
    <3>1. PICK f \in UserCalls : Call(t, f) /\ u = t
      BY <1>1, <1>3, <2>3, OnlyOneFrame DEF PlainStep
    <3>2. frame'[t] = f /\ running = t /\ frame[t] = UserCode
      BY <1>3, <3>1 DEF Call, MayStep
    <3>3. f \in Calling
      BY <3>2 DEF Calling
    <3>4. LegalCall(f)
      BY <1>3, <2>3, <3>3 DEF LegalStep, vars
    <3> QED BY <2>1, <3>1, <3>2, <3>4 DEF LegalCall
  <2> QED BY <2>2, <2>3
<1>5. ASSUME frame[t].op = "new", NEW n \in Caps, chans'[c] = NewChannel(n) PROVE FALSE
  BY <1>5 DEF NewChannel
<1>6. ASSUME frame[t].op = "send", frame[t].channel = c, c \in Made, frame[t].data \in Payload,
             chans'[c] = Send(chans[c], t, frame[t].data).chan,
             frame' = IF Send(chans[c], t, frame[t].data).done
                      THEN [frame EXCEPT ![t] = UserCode] ELSE frame
      PROVE  FALSE
  <2>1. chans[c].isClosed
    BY <1>6, SendKeepsClosed
  <2>2. chans[c].state = SenderReachedReceiverAccepted(t)
    BY <1>6, <2>1 DEF ClosedQuiet, TakenBeforeClose, Inside
  <2>3. Send(chans[c], t, frame[t].data).done
    BY <1>2, <1>6, <2>2, Typed, SendTold
  <2>4. u # t /\ frame'[u] = frame[u]
    BY <1>3, <1>6, <2>3
  <2>5. chans[c].state = SenderReachedReceiverAccepted(u)
    BY <1>6, <2>1, <2>4 DEF ClosedQuiet, TakenBeforeClose, Inside
  <2> QED BY <2>2, <2>4, <2>5 DEF SenderReachedReceiverAccepted
<1>7. ASSUME frame[t].op = "receive", c \in Made, chans'[c] = Receive(chans[c], t).chan,
             frame' = IF Receive(chans[c], t).status = "Blocked"
                      THEN frame ELSE [frame EXCEPT ![t] = UserCode]
      PROVE  chans'[c].state = SenderReachedReceiverAccepted(u)
  <2>1. chans[c].isClosed
    BY <1>7, ReceiveKeepsClosed
  <2>2. frame'[u] = frame[u]
    BY <1>3, <1>7
  <2>3. chans[c].state = SenderReachedReceiverAccepted(u)
    BY <1>7, <2>1, <2>2 DEF ClosedQuiet, TakenBeforeClose, Inside
  <2> QED BY <1>2, <1>7, <2>3, Typed, ReceiveWaitsForAck
<1>8. ASSUME frame[t].op = "close", frame[t].channel = c, c \in Made,
             chans'[c] = CloseChannel(chans[c]), frame' = [frame EXCEPT ![t] = UserCode]
      PROVE  chans'[c].state = SenderReachedReceiverAccepted(u)
  <2>1. frame'[u] = frame[u]
    BY <1>3, <1>8
  <2>2. chans[c].state = SenderReachedReceiverAccepted(u)
    BY <1>8, <2>1 DEF CloseOK, TakenBeforeClose, Inside
  <2> QED BY <1>2, <1>8, <2>2, Typed, CloseKeeps
<1> QED BY <1>1, <1>4, <1>5, <1>6, <1>7, <1>8, PlainChannel

\* The frame of a close is executed before anybody else moves.
LEMMA CloseNext ==
  ASSUME LegalInv, [RuntimeNext /\ LegalStep]_vars
  PROVE  CloseOK'
<1> USE DEF LegalInv
<1>1. frame \in [Threads -> Frames] /\ UserCode.op = "none"
  BY DEF RuntimeInv, RuntimeTypeOK, UserCode
<1> SUFFICES ASSUME NEW u \in Threads, frame'[u].op = "close"
             PROVE  /\ running' = u /\ u \notin suspended'
                    /\ ~chans'[frame'[u].channel].isClosed
                    /\ \A w \in Threads :
                         frame'[w].op = "send" /\ frame'[w].channel = frame'[u].channel =>
                           chans'[frame'[u].channel].state = SenderReachedReceiverAccepted(w)
  BY DEF CloseOK, TakenBeforeClose, Inside
<1>2. CASE frame[u].op = "close"
  <2>1. /\ running = u /\ u \notin suspended
        /\ ~chans[frame[u].channel].isClosed
        /\ TakenBeforeClose(frame[u].channel)
    BY <1>2 DEF CloseOK
  <2>2. CASE Loop
    <3>1. running # NoThread /\ running \notin suspended
      BY <2>1 DEF Threads, NoThread
    <3> QED BY <2>2, <3>1 DEF Loop, Dispatch, Requeue
  <2>3. ASSUME NEW t \in Threads, Handler(t) \/ UserStep(t) PROVE FALSE
    <3>1. MayStep(t)
      BY <2>3 DEF Handler, UserStep, Call, ChannelNew, ChannelSend, ChannelReceive, ChannelClose,
                  ChannelSelect, SelectReady, SelectPoll, LwtSpawn, LwtYield, Terminate,
                  In, Exit
    <3>2. t = u
      BY <2>1, <3>1 DEF MayStep
    <3>3. ChannelClose(u)
      BY <1>1, <1>2, <2>3, <3>2 DEF Handler, UserStep, Call, ChannelNew, ChannelSend,
             ChannelReceive, ChannelSelect, SelectReady, SelectPoll, LwtSpawn, LwtYield,
             Terminate, In
    <3>4. frame'[u] = UserCode
      BY <1>1, <2>1, <3>3 DEF ChannelClose, Finish, Return
    <3> QED BY <1>1, <3>4
  <2>4. CASE (Ended /\ UNCHANGED <<chans, frame, result>>) \/ UNCHANGED vars
    <3>1. UNCHANGED <<running, suspended, chans, frame>>
      BY <2>4 DEF Ended, vars, schedVars
    <3> QED BY <2>1, <3>1 DEF TakenBeforeClose, Inside
  <2> QED BY <2>2, <2>3, <2>4 DEF RuntimeNext
<1>3. CASE frame[u].op # "close"
  <2>1. PICK t \in Threads : PlainStep(t)
    BY PlainSteps
  <2>2. PICK f \in UserCalls : Call(t, f) /\ u = t
    BY <1>1, <1>3, <2>1, OnlyOneFrame DEF PlainStep
  <2>3. /\ frame' = [frame EXCEPT ![t] = f] /\ frame'[t] = f /\ frame[t] = UserCode
        /\ running = t /\ t \notin suspended /\ UNCHANGED <<running, suspended, chans>>
    BY <1>1, <2>2 DEF Call, MayStep, schedVars
  <2>4. f \in Calling
    BY <2>3 DEF Calling
  <2>5. LegalCall(f)
    BY <1>3, <2>2, <2>3, <2>4 DEF LegalStep, vars
  <2>6. /\ ~chans[f.channel].isClosed
        /\ \A w \in Threads : frame[w].op = "send" /\ frame[w].channel = f.channel =>
             chans[f.channel].state = SenderReachedReceiverAccepted(w)
    BY <2>2, <2>3, <2>5 DEF LegalCall
  <2>7. \A w \in Threads : frame'[w].op = "send" => frame'[w] = frame[w]
    BY <1>1, <2>2, <2>3
  <2> QED BY <2>2, <2>3, <2>6, <2>7
<1> QED BY <1>2, <1>3

\* The invariant of legal programs without select.
LEMMA LegalInitInv == RuntimeInit => LegalInv
<1>1. RuntimeInit => /\ NoSelectFrame /\ ReceiverRegistrationLive
                     /\ ServedLive /\ ClosedQuiet /\ CloseOK
  BY DEF RuntimeInit, NoSelectFrame, UserCode, ReceiverRegistrationLive, Made, ServedLive,
         ClosedQuiet, CloseOK
<1> QED BY <1>1, RuntimeInitInv DEF LegalInv

LEMMA LegalNextInv ==
  ASSUME NoSelect, LegalInv, [RuntimeNext /\ LegalStep]_vars
  PROVE  LegalInv'
<1>1. RuntimeInv'
  BY RuntimeNextInv DEF LegalInv
<1> QED BY <1>1, NoSelectNext, ReceiversNext, ServedNext, QuietNext, CloseNext DEF LegalInv

LEMMA LegalInvariant ==
  ASSUME NoSelect
  PROVE  LegalSpec => []LegalInv
<1>1. LegalInv /\ [RuntimeNext /\ LegalStep]_vars => LegalInv'
  BY LegalNextInv
<1> QED BY <1>1, LegalInitInv, PTL DEF LegalSpec

NoAbort == process # "abort"

\* Only a running process aborts.
LEMMA AbortsFromRunning ==
  ASSUME RuntimeInv, [RuntimeNext]_vars, process # "running"
  PROVE  process' = process
<1>1. CASE Loop
  BY <1>1 DEF Loop, Dispatch, Requeue
<1>2. ASSUME NEW t \in Threads, Handler(t) PROVE process' = process
  BY <1>2 DEF Handler, ChannelNew, ChannelSend, ChannelReceive, ChannelClose, ChannelSelect,
              SelectReady, SelectPoll, LwtSpawn, LwtYield, In, MayStep
<1>3. ASSUME NEW t \in Threads, UserStep(t) PROVE process' = process
  BY <1>3 DEF UserStep, Call, Terminate, Exit, MayStep
<1> QED BY <1>1, <1>2, <1>3 DEF RuntimeNext, Ended, vars, schedVars

\* A program that keeps Go's rules for closed channels and uses no select cannot
\* make an assertion of the channels or of the scheduler fail, whatever the
\* order in which its goroutines take their turns: the rules constrain the call
\* of gox5_channel_close, and nothing comes between that call and the assertion
\* (channel.rs:195).
THEOREM LegalProgramsNeverAbort ==
  ASSUME NoSelect
  PROVE  LegalSpec => []NoAbort
<1>1. RuntimeInit => NoAbort
  BY DEF RuntimeInit, SchedulerInit, NoAbort
<1>2. /\ LegalInv /\ NoAbort /\ [RuntimeNext]_vars
      /\ [process' = "abort" /\ process = "running" =>
            \E t \in Threads : /\ In(t, "close")
                               /\ chans[frame[t].channel].isClosed]_vars
      => NoAbort'
  <2> SUFFICES ASSUME LegalInv, NoAbort, [RuntimeNext]_vars, process' = "abort",
                      process' = "abort" /\ process = "running" =>
                        \E t \in Threads : In(t, "close") /\ chans[frame[t].channel].isClosed
               PROVE  FALSE
    BY DEF NoAbort, vars, schedVars
  <2>1. process = "running"
    BY AbortsFromRunning DEF LegalInv, NoAbort
  <2>2. PICK t \in Threads : In(t, "close") /\ chans[frame[t].channel].isClosed
    BY <2>1
  <2> QED BY <2>2 DEF LegalInv, CloseOK, In
<1>3. LegalSpec => RuntimeSpec
  BY PTL DEF LegalSpec, RuntimeSpec
<1>4. LegalSpec => []LegalInv
  BY LegalInvariant
<1> QED BY <1>1, <1>2, <1>3, <1>4, AbortsOnlyOnDoubleClose, PTL
        DEF LegalSpec, RuntimeSpec, AbortOnlyOnDoubleClose

-----------------------------------------------------------------------------
(* One channel: if it is unbuffered, it hands values over synchronously.    *)

\* The only channel there is, so that results are about it.
OnlyChannel == \A c, d \in Chans : c = d

\* A goroutine that is in the runtime has no result yet, and nobody has one
\* before there is a channel.
BusyUntold == \A t \in Threads : frame[t] # UserCode => result[t].status = "None"
NothingTold ==
  Made = {} => \A t \in Threads : result[t].status \notin {"Sent", "Value", "Closed"}

SyncInv == LegalInv /\ BusyUntold /\ NothingTold

\* A step of t in a program without select, with its result.
WholeStep(t) ==
  \/ UNCHANGED <<chans, frame, result>>
  \/ frame[t].op \in {"spawn", "yield"} /\ Return(t, NoResult) /\ chans' = chans
  \/ \E f \in UserCalls : Call(t, f)
  \/ ChannelNew(t)
  \/ ChannelSend(t)
  \/ ChannelReceive(t)
  \/ ChannelClose(t)

LEMMA WholeSteps ==
  ASSUME NoSelectFrame, [RuntimeNext]_vars
  PROVE  \E t \in Threads : WholeStep(t)
<1>1. CASE Loop \/ UNCHANGED vars \/ (Ended /\ UNCHANGED <<chans, frame, result>>)
  <2>1. WholeStep(0)
    BY <1>1 DEF Loop, vars, WholeStep
  <2> QED BY <2>1, MaxThreadsAssumption DEF Threads
<1>2. ASSUME NEW t \in Threads, Handler(t) PROVE WholeStep(t)
  <2>1. ~ChannelSelect(t)
    BY DEF ChannelSelect, SelectReady, SelectPoll, In, NoSelectFrame
  <2>2. LwtSpawn(t) \/ LwtYield(t) =>
          frame[t].op \in {"spawn", "yield"} /\ Return(t, NoResult) /\ chans' = chans
    BY DEF LwtSpawn, LwtYield, In
  <2> QED BY <1>2, <2>1, <2>2 DEF Handler, WholeStep
<1>3. ASSUME NEW t \in Threads, UserStep(t) PROVE WholeStep(t)
  BY <1>3 DEF UserStep, Terminate, WholeStep
<1> QED BY <1>1, <1>2, <1>3 DEF RuntimeNext

\* No goroutine hands a value to itself, in a program that keeps Go's rules for
\* closed channels and uses no select: whoever is registered as a receiver is
\* still in its receive, so it cannot be in a send as well.  The hypothesis is
\* needed: the run self_rendezvous shows the select that breaks it.
THEOREM NobodyMeetsItself ==
  ASSUME NoSelect
  PROVE  LegalSpec => NoSelfRendezvous
<1>1. LegalInv /\ [RuntimeNext]_vars =>
        [\A c \in Made, t \in Threads :
           t = running /\ chans[c].state = ReceiverReached(t) =>
             chans'[c].state.tag # "ReceiverReachedSenderAccepted"]_vars
  <2> SUFFICES ASSUME LegalInv, [RuntimeNext]_vars, NEW c \in Made,
                      chans[c].state = ReceiverReached(running),
                      chans'[c].state.tag = "ReceiverReachedSenderAccepted"
               PROVE  FALSE
    OBVIOUS
  <2>1. /\ RuntimeInv /\ NoSelectFrame /\ ReceiverRegistrationLive /\ ClosedQuiet
        /\ chans[c].state.tag = "ReceiverReached" /\ chans[c].state.receiver = running
        /\ chans[c].state # SenderReachedReceiverAccepted(running)
    BY DEF LegalInv, ReceiverReached, SenderReachedReceiverAccepted
  <2>2. /\ chans[c] \in AnyChannel /\ WellFormed(chans[c]) /\ c \in Chans
        /\ chans = [e \in Chans |-> chans[e]]
    BY <2>1, MadeType DEF RuntimeInv, RuntimeTypeOK
  <2>3. ~Inside(running, "send", c)
    <3>1. CASE chans[c].isClosed
      <4>1. running \in Threads
        BY <2>1, ReceiverType DEF Waiting
      <4>2. TakenBeforeClose(c)
        BY <2>1, <3>1 DEF ClosedQuiet
      <4> QED BY <2>1, <4>1, <4>2 DEF TakenBeforeClose
    <3>2. CASE ~chans[c].isClosed
      BY <2>1, <3>2 DEF ReceiverRegistrationLive, Inside
    <3> QED BY <3>1, <3>2
  <2>4. chans'[c] # chans[c]
    BY <2>1
  <2>5. PICK t \in Threads : WholeStep(t)
    BY <2>1, WholeSteps
  <2>6. CASE ChannelNew(t)
    <3>1. chans' = [chans EXCEPT ![frame[t].channel] = NewChannel(frame[t].capacity)]
      BY <2>6 DEF ChannelNew
    <3>2. chans'[c] = NewChannel(frame[t].capacity)
      BY <2>2, <2>4, <3>1
    <3> QED BY <3>2 DEF NewChannel, Initial
  <2>7. CASE ChannelSend(t)
    <3>1. /\ In(t, "send")
          /\ chans' = [chans EXCEPT ![frame[t].channel] = Send(@, t, frame[t].data).chan]
      BY <2>7 DEF ChannelSend
    <3>2. Inside(t, "send", c) /\ t = running
      BY <2>2, <2>4, <3>1 DEF In, MayStep, Inside
    <3> QED BY <2>3, <3>2
  <2>8. CASE ChannelReceive(t)
    <3>1. chans' = [chans EXCEPT ![frame[t].channel] = Receive(@, t).chan]
      BY <2>8 DEF ChannelReceive
    <3>2. chans'[c] = Receive(chans[c], t).chan
      BY <2>2, <2>4, <3>1
    <3>3. \/ Receive(chans[c], t).chan.state = ReceiverReached(t)
          \/ Receive(chans[c], t).chan.state = chans[c].state
      BY <2>2, <3>2, Typed, ReceiveWaiting DEF Waiting
    <3> QED BY <2>1, <3>2, <3>3 DEF ReceiverReached
  <2>9. CASE ChannelClose(t)
    <3>1. \/ chans' = chans
          \/ chans' = [chans EXCEPT ![frame[t].channel] = CloseChannel(@)]
      BY <2>9 DEF ChannelClose, Abort
    <3>2. chans'[c] = CloseChannel(chans[c])
      BY <2>2, <2>4, <3>1
    <3> QED BY <2>1, <2>2, <3>2, Typed, CloseKeeps
  <2> QED BY <2>4, <2>5, <2>6, <2>7, <2>8, <2>9 DEF WholeStep, Call
<1> QED BY <1>1, LegalInvariant, PTL DEF LegalSpec, NoSelfRendezvous

\* Whoever returns to user code is told at the same time, and only by a channel.
LEMMA ToldNext ==
  ASSUME SyncInv, [RuntimeNext]_vars
  PROVE  BusyUntold' /\ NothingTold'
<1>1. RuntimeInv /\ NoSelectFrame /\ BusyUntold /\ NothingTold
  BY DEF SyncInv, LegalInv
<1>2. /\ frame \in [Threads -> Frames] /\ result \in [Threads -> Results]
      /\ UserCode.op = "none" /\ NoResult.status = "None"
  BY <1>1 DEF RuntimeInv, RuntimeTypeOK, UserCode, NoResult, Result
<1>3. PICK t \in Threads : WholeStep(t)
  BY <1>1, WholeSteps
<1>4. Made \subseteq Made'
  BY <1>1, ChannelsNext
<1>5. ASSUME NEW r, Return(t, r) PROVE BusyUntold'
  BY <1>1, <1>2, <1>5 DEF Return, BusyUntold
<1>6. ASSUME Made' = {}, Return(t, NoResult) PROVE NothingTold'
  BY <1>1, <1>2, <1>4, <1>6 DEF Return, NothingTold
<1>7. CASE UNCHANGED <<chans, frame, result>>
  BY <1>1, <1>7 DEF BusyUntold, NothingTold, Made
<1>8. CASE frame[t].op \in {"spawn", "yield"} /\ Return(t, NoResult) /\ chans' = chans
  BY <1>5, <1>6, <1>8 DEF NothingTold
<1>9. ASSUME NEW f \in UserCalls, Call(t, f) PROVE BusyUntold' /\ NothingTold'
  BY <1>1, <1>2, <1>9 DEF Call, BusyUntold, NothingTold, Made
<1>10. CASE ChannelNew(t)
  BY <1>5, <1>6, <1>10 DEF ChannelNew, Finish, NothingTold
<1>11. frame[t].op \in {"send", "receive", "close"} => Made # {} /\ Made' # {}
  BY <1>1, <1>4 DEF RuntimeInv, FramesOK, Used
<1>12. CASE ChannelSend(t) \/ ChannelReceive(t) \/ ChannelClose(t)
  <2>1. NothingTold'
    BY <1>11, <1>12 DEF ChannelSend, ChannelReceive, ChannelClose, In, NothingTold
  <2>2. (\E r : Return(t, r)) \/ UNCHANGED <<frame, result>>
    BY <1>12 DEF ChannelSend, ChannelReceive, ChannelClose, Finish, Block, Abort
  <2>3. UNCHANGED <<frame, result>> => BusyUntold'
    BY <1>1 DEF BusyUntold
  <2> QED BY <1>5, <2>1, <2>2, <2>3
<1> QED BY <1>3, <1>7, <1>8, <1>9, <1>10, <1>12 DEF WholeStep

\* What a result says of an operation that is over.
Told(r) ==
  CASE r.status = "Sent"   -> [at |-> "sent"]
    [] r.status = "Value"  -> [at |-> "got", value |-> r.data]
    [] r.status = "Closed" -> [at |-> "closed"]
    [] OTHER               -> [at |-> "idle"]

\* The abstract call of u on c, by where u is.
CallIs(u, c) ==
  /\ ~Unbuffered(c) => CallOf(u, c) = [at |-> "idle"]
  /\ Unbuffered(c) /\ Inside(u, "send", c) /\ c \in Made =>
       CallOf(u, c) = IF chans[c].state = SenderReachedReceiverAccepted(u)
                      THEN [at |-> "sent"] ELSE [at |-> "sending", value |-> frame[u].data]
  /\ Unbuffered(c) /\ Inside(u, "receive", c) /\ c \in Made =>
       CallOf(u, c) = IF Served(chans[c].state, u)
                      THEN [at |-> "got", value |-> chans[c].state.data]
                      ELSE [at |-> "receiving"]
  /\ Unbuffered(c) /\ ~Inside(u, "send", c) /\ ~Inside(u, "receive", c) =>
       CallOf(u, c) = Told(result[u])

\* CallOf with its alternatives spelled out, and the same of any cell and frame.
CallAs(unbuffered, st, f, r, u, c) ==
  IF ~unbuffered THEN [at |-> "idle"]
  ELSE CASE f.op = "send" /\ f.channel = c ->
         IF st = SenderReachedReceiverAccepted(u) THEN [at |-> "sent"]
         ELSE [at |-> "sending", value |-> f.data]
    [] f.op = "receive" /\ f.channel = c ->
         IF st.tag = "ReceiverReachedSenderAccepted" /\ st.receiver = u
         THEN [at |-> "got", value |-> st.data] ELSE [at |-> "receiving"]
    [] OTHER -> IF r.status = "Sent" THEN [at |-> "sent"]
                ELSE IF r.status = "Value" THEN [at |-> "got", value |-> r.data]
                ELSE IF r.status = "Closed" THEN [at |-> "closed"]
                ELSE [at |-> "idle"]

LEMMA CallCases ==
  ASSUME NEW unbuffered \in BOOLEAN, NEW st, NEW f, NEW r, NEW u, NEW c
  PROVE  LET call   == CallAs(unbuffered, st, f, r, u, c)
             send    == f.op = "send" /\ f.channel = c
             receive == f.op = "receive" /\ f.channel = c
         IN  /\ ~unbuffered => call = [at |-> "idle"]
             /\ unbuffered /\ send =>
                  call = IF st = SenderReachedReceiverAccepted(u) THEN [at |-> "sent"]
                         ELSE [at |-> "sending", value |-> f.data]
             /\ unbuffered /\ receive =>
                  call = IF Served(st, u) THEN [at |-> "got", value |-> st.data]
                         ELSE [at |-> "receiving"]
             /\ unbuffered /\ ~send /\ ~receive => call = Told(r)
<1>1. CASE ~unbuffered
  BY <1>1 DEF CallAs
<1>2. CASE unbuffered /\ f.op = "send" /\ f.channel = c
  BY <1>2 DEF CallAs
<1>3. CASE unbuffered /\ f.op = "receive" /\ f.channel = c
  BY <1>3 DEF CallAs, Served
<1>4. CASE unbuffered /\ ~(f.op = "send" /\ f.channel = c) /\ ~(f.op = "receive" /\ f.channel = c)
  <2>1. CallAs(unbuffered, st, f, r, u, c) =
          IF r.status = "Sent" THEN [at |-> "sent"]
          ELSE IF r.status = "Value" THEN [at |-> "got", value |-> r.data]
          ELSE IF r.status = "Closed" THEN [at |-> "closed"]
          ELSE [at |-> "idle"]
    BY <1>4 DEF CallAs
  <2> QED BY <1>4, <2>1 DEF Told
<1> QED BY <1>1, <1>2, <1>3, <1>4

LEMMA CallsAre == \A u \in Threads, c \in Chans : CallIs(u, c) /\ CallIs(u, c)'
<1>1. ASSUME NEW u \in Threads, NEW c \in Chans PROVE CallIs(u, c)
  <2> DEFINE st == IF c \in Made THEN chans[c].state ELSE Initial
  <2>1. CallOf(u, c) = CallAs(Unbuffered(c), st, frame[u], result[u], u, c)
    BY DEF CallOf, CallAs
  <2>2. Unbuffered(c) \in BOOLEAN
    BY DEF Unbuffered
  <2>3. c \in Made => st = chans[c].state
    OBVIOUS
  <2> HIDE DEF st
  <2> QED BY <2>1, <2>2, <2>3, CallCases DEF CallIs, Inside
<1>2. ASSUME NEW u \in Threads, NEW c \in Chans PROVE CallIs(u, c)'
  <2> DEFINE st == IF c \in Made' THEN chans'[c].state ELSE Initial
  <2>1. CallOf(u, c)' = CallAs(Unbuffered(c)', st, frame'[u], result'[u], u, c)
    BY DEF CallOf, CallAs
  <2>2. Unbuffered(c)' \in BOOLEAN
    BY DEF Unbuffered
  <2>3. c \in Made' => st = chans'[c].state
    OBVIOUS
  <2> HIDE DEF st
  <2> QED BY <2>1, <2>2, <2>3, CallCases DEF CallIs, Inside
<1> QED BY <1>1, <1>2

\* A thread that stays where it is keeps its call when the cell says no more and
\* no less of it.
SameFor(u, c) ==
  /\ Inside(u, "send", c) =>
       (chans'[c].state = SenderReachedReceiverAccepted(u) <=>
        chans[c].state = SenderReachedReceiverAccepted(u))
  /\ Inside(u, "receive", c) =>
       /\ Served(chans'[c].state, u) <=> Served(chans[c].state, u)
       /\ Served(chans[c].state, u) => chans'[c].state.data = chans[c].state.data

LEMMA SameCall ==
  ASSUME NEW u \in Threads, NEW c \in Chans, c \in Made, c \in Made',
         Unbuffered(c), Unbuffered(c)',
         frame'[u] = frame[u], result'[u] = result[u], SameFor(u, c)
  PROVE  CallOf(u, c)' = CallOf(u, c)
<1>1. CallIs(u, c) /\ CallIs(u, c)'
  BY CallsAre
<1>2. /\ Inside(u, "send", c)' <=> Inside(u, "send", c)
      /\ Inside(u, "receive", c)' <=> Inside(u, "receive", c)
  BY DEF Inside
<1> QED BY <1>1, <1>2 DEF CallIs, SameFor, Told

-----------------------------------------------------------------------------
(* The steps of a synchronous channel, in the terms of the runtime.         *)

SyncStep(c) == [Sync(c)!HandoffNext]_(Sync(c)!handoffVars)

\* Nothing happens, or the channel is closed.
LEMMA SyncStutter ==
  ASSUME NEW c \in Chans, \A u \in Threads : CallOf(u, c)' = CallOf(u, c),
         ClosedOf(c)' = ClosedOf(c)
  PROVE  SyncStep(c)
BY DEF SyncStep, Sync!HandoffNext, Sync!handoffVars

LEMMA SyncClosing ==
  ASSUME NEW c \in Chans, \A u \in Threads : CallOf(u, c)' = CallOf(u, c),
         ~ClosedOf(c), ClosedOf(c)'
  PROVE  SyncStep(c)
<1>1. ClosedOf(c)' = TRUE
  BY DEF ClosedOf
<1>2. Sync(c)!Closing
  BY <1>1 DEF Sync!Closing
<1> QED BY <1>2 DEF SyncStep, Sync!HandoffNext

\* One thread begins something.
LEMMA SyncBegin ==
  ASSUME NEW c \in Chans, NEW t \in Threads,
         CallOf(t, c).at \notin {"sending", "receiving"},
         \/ CallOf(t, c)' = [at |-> "idle"]
         \/ CallOf(t, c)' = [at |-> "receiving"]
         \/ \E v \in Payload : CallOf(t, c)' = [at |-> "sending", value |-> v],
         \A u \in Threads \ {t} : CallOf(u, c)' = CallOf(u, c),
         ClosedOf(c)' = ClosedOf(c)
  PROVE  SyncStep(c)
<1> DEFINE call == [u \in Threads |-> CallOf(u, c)]
<1>1. call' = [call EXCEPT ![t] = CallOf(t, c)']
  OBVIOUS
<1>2. Sync(c)!Begin(t)
  BY <1>1 DEF Sync!Begin, Sync!Pending, Sync!Idle, Sync!Receiving, Sync!Sending
<1> QED BY <1>2 DEF SyncStep, Sync!HandoffNext

\* A sender and a receiver meet.
LEMMA SyncMeet ==
  ASSUME NEW c \in Chans, NEW s \in Threads, NEW r \in Threads, s # r, NEW v,
         CallOf(s, c) = [at |-> "sending", value |-> v], CallOf(s, c)' = [at |-> "sent"],
         CallOf(r, c) = [at |-> "receiving"], CallOf(r, c)' = [at |-> "got", value |-> v],
         \A u \in Threads \ {s, r} : CallOf(u, c)' = CallOf(u, c),
         ClosedOf(c)' = ClosedOf(c)
  PROVE  SyncStep(c)
<1> DEFINE call == [u \in Threads |-> CallOf(u, c)]
<1>1. call' = [call EXCEPT ![s] = [at |-> "sent"], ![r] = [at |-> "got", value |-> v]]
  OBVIOUS
<1>2. call[s].at = "sending" /\ call[s].value = v /\ call[r].at = "receiving"
  OBVIOUS
<1>3. Sync(c)!Rendezvous(s, r)
  <2> HIDE DEF call
  <2>1. Sync(c)!HasSent = [at |-> "sent"] /\ Sync(c)!Got(v) = [at |-> "got", value |-> v]
    BY DEF Sync!HasSent, Sync!Got
  <2>2. /\ call[s].at = "sending" /\ call[r].at = "receiving"
        /\ call' = [call EXCEPT ![s] = Sync(c)!HasSent, ![r] = Sync(c)!Got(call[s].value)]
    BY <1>1, <1>2, <2>1
  <2> QED BY <2>2 DEF Sync!Rendezvous, call
<1> QED BY <1>3 DEF SyncStep, Sync!HandoffNext

\* A receiver is told that the channel is closed.
LEMMA SyncTold ==
  ASSUME NEW c \in Chans, NEW r \in Threads, ClosedOf(c),
         CallOf(r, c) = [at |-> "receiving"], CallOf(r, c)' = [at |-> "closed"],
         \A u \in Threads \ {r} : CallOf(u, c)' = CallOf(u, c),
         ClosedOf(c)' = ClosedOf(c)
  PROVE  SyncStep(c)
<1> DEFINE call == [u \in Threads |-> CallOf(u, c)]
<1>1. call' = [call EXCEPT ![r] = [at |-> "closed"]]
  OBVIOUS
<1>2. Sync(c)!ReceiveClosed(r)
  BY <1>1 DEF Sync!ReceiveClosed, Sync!ToldClosed
<1> QED BY <1>2 DEF SyncStep, Sync!HandoffNext

-----------------------------------------------------------------------------
(* The runtime's steps are steps of a synchronous channel.                  *)

\* A thread and a channel that are left alone have the same call.
LEMMA StillCall ==
  ASSUME NEW u, NEW c, chans'[c] = chans[c], frame'[u] = frame[u], result'[u] = result[u]
  PROVE  CallOf(u, c)' = CallOf(u, c)
<1>1. c \in Made' <=> c \in Made
  BY DEF Made
<1> QED BY <1>1 DEF CallOf, Unbuffered

\* What the invariant says of the threads and the only channel.
LEMMA SyncFacts ==
  ASSUME SyncInv, NEW c \in Chans
  PROVE  /\ frame \in [Threads -> Frames] /\ result \in [Threads -> Results]
         /\ chans = [e \in Chans |-> chans[e]]
         /\ UserCode.op = "none" /\ NoResult.status = "None"
         /\ \A u \in Threads : Inside(u, "send", c) \/ Inside(u, "receive", c) => c \in Made
         /\ c \in Made => /\ chans[c] \in AnyChannel /\ WellFormed(chans[c])
                          /\ SenderLive(c) /\ ReceiverLive(c)
<1>1. RuntimeInv /\ ReceiverRegistrationLive
  BY DEF SyncInv, LegalInv
<1>2. \A u \in Threads : Inside(u, "send", c) \/ Inside(u, "receive", c) => c \in Made
  BY <1>1 DEF RuntimeInv, FramesOK, Used, Inside
<1>3. c \in Made => chans[c] \in AnyChannel /\ WellFormed(chans[c])
  BY <1>1, MadeType DEF RuntimeInv
<1>4. c \in Made => SenderLive(c) /\ ReceiverLive(c)
  BY <1>1, SenderLiveEach, ReceiverLiveEach DEF RuntimeInv
<1> QED BY <1>1, <1>2, <1>3, <1>4
        DEF RuntimeInv, RuntimeTypeOK, UserCode, NoResult, Result

\* A thread that is outside the channel and keeps what it was told.
LEMMA OutsideCall ==
  ASSUME NEW u \in Threads, NEW c \in Chans, Unbuffered(c), Unbuffered(c)',
         ~Inside(u, "send", c), ~Inside(u, "receive", c),
         ~Inside(u, "send", c)', ~Inside(u, "receive", c)',
         Told(result'[u]) = Told(result[u])
  PROVE  CallOf(u, c)' = CallOf(u, c)
<1>1. CallIs(u, c) /\ CallIs(u, c)'
  BY CallsAre
<1> QED BY <1>1 DEF CallIs, Told

\* gox5_lwt_spawn and gox5_lwt_yield leave no result.
LEMMA YieldSyncs ==
  ASSUME SyncInv, NEW c \in Chans, NEW t \in Threads, chans' = chans,
         frame[t].op \in {"spawn", "yield"}, Return(t, NoResult)
  PROVE  SyncStep(c)
<1>1. \A u \in Threads \ {t} : frame'[u] = frame[u] /\ result'[u] = result[u]
  BY SyncFacts DEF Return
<1>2. frame'[t] = UserCode /\ result'[t] = NoResult /\ UserCode.op = "none"
  BY SyncFacts DEF Return
<1>3. result[t].status = "None"
  BY DEF SyncInv, BusyUntold, UserCode
<1>4. CallOf(t, c)' = CallOf(t, c)
  <2>1. CASE Unbuffered(c)
    <3>1. Told(result'[t]) = Told(result[t])
      BY <1>2, <1>3 DEF Told, NoResult, Result
    <3>2. Unbuffered(c)' /\ ~Inside(t, "send", c) /\ ~Inside(t, "receive", c)
      BY <2>1 DEF Unbuffered, Made, Inside
    <3>3. ~Inside(t, "send", c)' /\ ~Inside(t, "receive", c)'
      BY <1>2 DEF Inside
    <3> QED BY <2>1, <3>1, <3>2, <3>3, OutsideCall
  <2>2. CASE ~Unbuffered(c)
    <3>1. ~Unbuffered(c)'
      BY <2>2 DEF Unbuffered, Made
    <3> QED BY <2>2, <3>1, CallsAre DEF CallIs
  <2> QED BY <2>1, <2>2
<1>5. \A u \in Threads : CallOf(u, c)' = CallOf(u, c)
  BY <1>1, <1>4, StillCall
<1> QED BY <1>5, SyncStutter DEF ClosedOf, Made

\* A call into the runtime begins an operation, or something else: no earlier
\* hand-off is taken for its own.
LEMMA CallSyncs ==
  ASSUME SyncInv, NEW c \in Chans, NEW t \in Threads, NEW f \in UserCalls, Call(t, f)
  PROVE  SyncStep(c)
<1>1. /\ \A u \in Threads \ {t} : frame'[u] = frame[u] /\ result'[u] = result[u]
      /\ frame'[t] = f /\ result'[t] = NoResult /\ chans' = chans /\ frame[t] = UserCode
  BY SyncFacts DEF Call
<1>2. ~Inside(t, "send", c) /\ ~Inside(t, "receive", c)
  BY <1>1, SyncFacts DEF Inside
<1>3. CallOf(t, c).at \notin {"sending", "receiving"}
  BY <1>2, CallsAre DEF CallIs, Told
<1>4. Unbuffered(c)' <=> Unbuffered(c)
  BY <1>1 DEF Unbuffered, Made
<1>5. c \in Made' <=> c \in Made
  BY <1>1 DEF Made
<1>6. \/ CallOf(t, c)' = [at |-> "idle"]
      \/ CallOf(t, c)' = [at |-> "receiving"]
      \/ \E v \in Payload : CallOf(t, c)' = [at |-> "sending", value |-> v]
  <2>1. CASE ~Unbuffered(c)
    BY <1>4, <2>1, CallsAre DEF CallIs
  <2>2. CASE Unbuffered(c) /\ f.op = "send" /\ f.channel = c
    <3>1. c \in Made /\ f.data \in Payload
      <4>1. f \in Frames
        BY ConstantsAssumption
      <4>2. c \in Made
        BY <2>2 DEF Call, Callable, Used, Made
      <4> QED BY <2>2, <4>1, <4>2, FrameFields
    <3>2. chans[c].state # SenderReachedReceiverAccepted(t)
      BY <1>2, <3>1, SyncFacts DEF SenderLive, Offering, SenderReachedReceiverAccepted
    <3>3. Inside(t, "send", c)'
      BY <1>1, <2>2 DEF Inside
    <3>4. CallOf(t, c)' = [at |-> "sending", value |-> f.data]
      BY <1>1, <1>4, <1>5, <2>2, <3>1, <3>2, <3>3, CallsAre DEF CallIs
    <3> QED BY <3>1, <3>4
  <2>3. CASE Unbuffered(c) /\ f.op = "receive" /\ f.channel = c
    <3>1. c \in Made
      BY <2>3 DEF Call, Callable, Used, Made
    <3>2. ~Served(chans[c].state, t)
      BY <1>2, <3>1 DEF Served, SyncInv, LegalInv, ServedLive
    <3>3. Inside(t, "receive", c)'
      BY <1>1, <2>3 DEF Inside
    <3> QED BY <1>1, <1>4, <1>5, <2>3, <3>1, <3>2, <3>3, CallsAre DEF CallIs
  <2>4. CASE Unbuffered(c) /\ ~(f.op = "send" /\ f.channel = c) /\ ~(f.op = "receive" /\ f.channel = c)
    <3>1. ~Inside(t, "send", c)' /\ ~Inside(t, "receive", c)'
      BY <1>1, <2>4 DEF Inside
    <3>2. CallOf(t, c)' = Told(NoResult)
      BY <1>1, <1>4, <2>4, <3>1, CallsAre DEF CallIs
    <3> QED BY <3>2 DEF Told, NoResult, Result
  <2> QED BY <2>1, <2>2, <2>3, <2>4
<1>7. \A u \in Threads \ {t} : CallOf(u, c)' = CallOf(u, c)
  BY <1>1, StillCall
<1>8. ClosedOf(c)' = ClosedOf(c)
  BY <1>1 DEF ClosedOf, Made
<1> QED BY <1>3, <1>6, <1>7, <1>8, SyncBegin

\* The channel is made before anybody has used it.
LEMMA NewSyncs ==
  ASSUME SyncInv, OnlyChannel, NEW c \in Chans, NEW t \in Threads, ChannelNew(t)
  PROVE  SyncStep(c)
<1>1. /\ frame' = [frame EXCEPT ![t] = UserCode] /\ result' = [result EXCEPT ![t] = NoResult]
      /\ chans' = [chans EXCEPT ![frame[t].channel] = NewChannel(frame[t].capacity)]
      /\ frame[t].op = "new"
  BY DEF ChannelNew, In, Finish, Return
<1>2. frame[t].channel \in Chans /\ frame[t].channel \notin Made
  BY <1>1, SyncFacts, FrameFields DEF SyncInv, LegalInv, RuntimeInv, NewOK
<1>3. frame[t].channel = c /\ Made = {}
  BY <1>2 DEF OnlyChannel, Made
<1>4. chans'[c] = NewChannel(frame[t].capacity)
  BY <1>1, <1>3, SyncFacts
<1>5. \A u \in Threads : /\ Told(result[u]) = [at |-> "idle"]
                         /\ Told(result'[u]) = [at |-> "idle"]
  <2>1. \A u \in Threads : Told(result[u]) = [at |-> "idle"]
    BY <1>3 DEF SyncInv, NothingTold, Told
  <2>2. Told(NoResult) = [at |-> "idle"]
    BY DEF Told, NoResult, Result
  <2>3. \A u \in Threads : result'[u] = NoResult \/ result'[u] = result[u]
    BY <1>1, SyncFacts
  <2> QED BY <2>1, <2>2, <2>3
<1>6. \A u \in Threads : /\ ~Inside(u, "send", c) /\ ~Inside(u, "receive", c)
                         /\ ~Inside(u, "send", c)' /\ ~Inside(u, "receive", c)'
  <2>1. \A u \in Threads : ~Inside(u, "send", c) /\ ~Inside(u, "receive", c)
    BY <1>3, SyncFacts
  <2>2. \A u \in Threads : frame'[u] = UserCode \/ frame'[u] = frame[u]
    BY <1>1, SyncFacts
  <2> QED BY <2>1, <2>2, SyncFacts DEF Inside
<1>7. \A u \in Threads : CallOf(u, c) = [at |-> "idle"]
  BY <1>3, <1>5, <1>6, CallsAre DEF CallIs, Unbuffered
<1>8. \A u \in Threads : CallOf(u, c)' = [at |-> "idle"]
  BY <1>5, <1>6, CallsAre DEF CallIs
<1>9. ClosedOf(c) = FALSE /\ ClosedOf(c)' = FALSE
  BY <1>3, <1>4 DEF ClosedOf, NewChannel
<1> QED BY <1>7, <1>8, <1>9, SyncStutter

\* A send or a receive on a buffered channel is none of this.
LEMMA BufferedSyncs ==
  ASSUME NEW c \in Chans, ~Unbuffered(c), ~Unbuffered(c)', ClosedOf(c)' = ClosedOf(c)
  PROVE  SyncStep(c)
<1>1. \A u \in Threads : CallOf(u, c)' = CallOf(u, c)
  BY CallsAre DEF CallIs
<1> QED BY <1>1, SyncStutter

\* A send: it offers its value, learns that it was taken, or meets the receiver
\* that waits; that one is another goroutine, still in its receive.
LEMMA SendSyncs ==
  ASSUME SyncInv, OnlyChannel, NEW c \in Chans, NEW t \in Threads, ChannelSend(t)
  PROVE  SyncStep(c)
<1>0. frame[t].op = "send" /\ frame[t] \in Frames
  BY SyncFacts DEF ChannelSend, In
<1>1. frame[t].channel = c /\ frame[t].data \in Payload /\ Inside(t, "send", c) /\ c \in Made
  BY <1>0, FrameFields, SyncFacts DEF OnlyChannel, Inside
<1>2. PICK d \in Payload : d = frame[t].data
  BY <1>1
<1>3. /\ chans[c] \in AnyChannel /\ WellFormed(chans[c])
      /\ SenderLive(c) /\ ReceiverLive(c)
  BY <1>1, SyncFacts
<1>4. PICK q : q = Send(chans[c], t, d)
  OBVIOUS
<1>5. /\ chans'[c] = q.chan
      /\ ~q.done => frame' = frame /\ result' = result
      /\ q.done => Return(t, Result("Sent", 0, NoData))
  BY <1>1, <1>2, <1>4, SyncFacts DEF ChannelSend, Finish, Block
<1>6. q.chan \in AnyChannel /\ q.chan.capacity = chans[c].capacity /\ q.chan.isClosed = chans[c].isClosed
  BY <1>3, <1>4, Typed, SendType
<1>7. /\ c \in Made' /\ ClosedOf(c)' = ClosedOf(c)
      /\ Unbuffered(c)' <=> Unbuffered(c)
  BY <1>1, <1>5, <1>6, ConstantsAssumption
     DEF Made, ClosedOf, Unbuffered, IsBuffered, AnyChannel, Caps
<1>8. \A u \in Threads \ {t} : frame'[u] = frame[u] /\ result'[u] = result[u]
  BY <1>5, SyncFacts DEF Return
<1>9. CASE ~Unbuffered(c)
  BY <1>7, <1>9, BufferedSyncs
<1>10. CASE Unbuffered(c)
  <2>1. \/ /\ chans[c].state = Initial /\ q.chan.state = SenderReached(t, d) /\ ~q.done
        \/ /\ chans[c].state = SenderReachedReceiverAccepted(t)
           /\ q.chan.state = Initial /\ q.done
        \/ /\ chans[c].state.tag = "ReceiverReached" /\ q.done
           /\ q.chan.state = ReceiverReachedSenderAccepted(chans[c].state.receiver, d)
        \/ /\ chans[c].state # SenderReachedReceiverAccepted(t)
           /\ q.chan.state = chans[c].state /\ ~q.done
    <3>1. ~IsBuffered(chans[c])
      BY <1>1, <1>10 DEF Unbuffered
    <3> QED BY <1>3, <1>4, <3>1, Typed, SendCell
  <2>2. \A u \in Threads : frame'[u] = frame[u] /\ result'[u] = result[u] /\ SameFor(u, c) =>
          CallOf(u, c)' = CallOf(u, c)
    BY <1>1, <1>7, <1>10, SameCall
  <2>3. CASE /\ chans[c].state = Initial /\ q.chan.state = SenderReached(t, d) /\ ~q.done
    <3>1. \A u \in Threads : SameFor(u, c)
      BY <1>5, <2>3 DEF SameFor, Initial, SenderReached, SenderReachedReceiverAccepted, Served
    <3> QED BY <1>5, <1>7, <2>2, <2>3, <3>1, SyncStutter
  <2>4. CASE /\ chans[c].state = SenderReachedReceiverAccepted(t)
             /\ q.chan.state = Initial /\ q.done
    <3>1. \A u \in Threads \ {t} : SameFor(u, c)
      BY <1>5, <2>4 DEF SameFor, Initial, SenderReachedReceiverAccepted, Served
    <3>2. CallOf(t, c) = [at |-> "sent"]
      BY <1>1, <1>10, <2>4, CallsAre DEF CallIs
    <3>3. frame'[t] = UserCode /\ result'[t] = Result("Sent", 0, NoData)
      BY <1>5, <2>4, SyncFacts DEF Return
    <3>4. CallOf(t, c)' = Told(Result("Sent", 0, NoData))
      BY <1>7, <1>10, <3>3, CallsAre, SyncFacts DEF CallIs, Inside
    <3>5. CallOf(t, c)' = [at |-> "sent"]
      BY <3>4 DEF Told, Result
    <3>6. \A u \in Threads : CallOf(u, c)' = CallOf(u, c)
      BY <1>8, <2>2, <3>1, <3>2, <3>5
    <3> QED BY <1>7, <3>6, SyncStutter
  <2>5. CASE /\ chans[c].state.tag = "ReceiverReached" /\ q.done
             /\ q.chan.state = ReceiverReachedSenderAccepted(chans[c].state.receiver, d)
    <3>0. PICK r : r = chans[c].state.receiver
      OBVIOUS
    <3>1. ~chans[c].isClosed
      <4>1. chans[c].isClosed => chans[c].state = SenderReachedReceiverAccepted(t)
        BY <1>1 DEF SyncInv, LegalInv, ClosedQuiet, TakenBeforeClose
      <4> QED BY <2>5, <4>1 DEF SenderReachedReceiverAccepted
    <3>2. Inside(r, "receive", c) /\ r \in Threads /\ r # t
      <4>1. Waiting(chans[c].state)
        BY <2>5 DEF Waiting
      <4> QED BY <1>1, <1>3, <3>0, <3>1, <4>1, ReceiverType
              DEF ReceiverLive, Inside, SyncInv, LegalInv
    <3>3. CallOf(t, c) = [at |-> "sending", value |-> d]
      <4>1. chans[c].state # SenderReachedReceiverAccepted(t)
        BY <2>5 DEF SenderReachedReceiverAccepted
      <4> QED BY <1>1, <1>2, <1>10, <4>1, CallsAre DEF CallIs
    <3>4. CallOf(t, c)' = [at |-> "sent"]
      <4>1. frame'[t] = UserCode /\ result'[t] = Result("Sent", 0, NoData)
        BY <1>5, <2>5, SyncFacts DEF Return
      <4>2. CallOf(t, c)' = Told(Result("Sent", 0, NoData))
        BY <1>7, <1>10, <4>1, CallsAre, SyncFacts DEF CallIs, Inside
      <4> QED BY <4>2 DEF Told, Result
    <3>5. CallOf(r, c) = [at |-> "receiving"]
      <4>1. ~Served(chans[c].state, r)
        BY <2>5 DEF Served
      <4> QED BY <1>1, <1>10, <3>2, <4>1, CallsAre DEF CallIs
    <3>6. CallOf(r, c)' = [at |-> "got", value |-> d]
      <4>1. Inside(r, "receive", c)'
        BY <1>8, <3>2 DEF Inside
      <4>2. Served(chans'[c].state, r) /\ chans'[c].state.data = d
        BY <1>5, <2>5, <3>0 DEF Served, ReceiverReachedSenderAccepted
      <4> QED BY <1>7, <1>10, <3>2, <4>1, <4>2, CallsAre DEF CallIs
    <3>7. \A u \in Threads \ {t, r} : SameFor(u, c)
      BY <1>5, <2>5, <3>0 DEF SameFor, Served, SenderReachedReceiverAccepted,
                              ReceiverReachedSenderAccepted
    <3>8. \A u \in Threads \ {t, r} : CallOf(u, c)' = CallOf(u, c)
      BY <1>8, <2>2, <3>7
    <3> QED BY <1>7, <3>2, <3>3, <3>4, <3>5, <3>6, <3>8, SyncMeet
  <2>6. CASE q.chan.state = chans[c].state /\ ~q.done
    <3>1. \A u \in Threads : SameFor(u, c)
      BY <1>5, <2>6 DEF SameFor
    <3> QED BY <1>5, <1>7, <2>2, <2>6, <3>1, SyncStutter
  <2> QED BY <2>1, <2>3, <2>4, <2>5, <2>6
<1> QED BY <1>9, <1>10

\* A receive: it meets the sender whose offer it finds, fetches what it was
\* handed, registers itself, or is told that the channel is closed.
LEMMA ReceiveSyncs ==
  ASSUME SyncInv, OnlyChannel, NEW c \in Chans, NEW t \in Threads, ChannelReceive(t)
  PROVE  SyncStep(c)
<1>0. frame[t].op = "receive" /\ frame[t] \in Frames
  BY SyncFacts DEF ChannelReceive, In
<1>1. frame[t].channel = c /\ Inside(t, "receive", c) /\ c \in Made
  BY <1>0, FrameFields, SyncFacts DEF OnlyChannel, Inside
<1>3. /\ chans[c] \in AnyChannel /\ WellFormed(chans[c])
      /\ SenderLive(c) /\ ReceiverLive(c)
  BY <1>1, SyncFacts
<1>4. PICK q : q = Receive(chans[c], t)
  OBVIOUS
<1>5. /\ chans'[c] = q.chan
      /\ q.status = "Blocked" => frame' = frame /\ result' = result
      /\ q.status # "Blocked" => Return(t, Result(q.status, 0, q.data))
  BY <1>1, <1>4, SyncFacts DEF ChannelReceive, Finish, Block
<1>6. q.chan \in AnyChannel /\ q.chan.capacity = chans[c].capacity /\ q.chan.isClosed = chans[c].isClosed
  <2>1. /\ Receive(chans[c], t).chan \in AnyChannel
        /\ Receive(chans[c], t).chan.capacity = chans[c].capacity
        /\ Receive(chans[c], t).chan.isClosed = chans[c].isClosed
    BY <1>3, Typed, ReceiveType
  <2> QED BY <1>4, <2>1
<1>7. /\ c \in Made' /\ ClosedOf(c)' = ClosedOf(c)
      /\ Unbuffered(c)' <=> Unbuffered(c)
  BY <1>1, <1>5, <1>6, ConstantsAssumption
     DEF Made, ClosedOf, Unbuffered, IsBuffered, AnyChannel, Caps
<1>8. \A u \in Threads \ {t} : frame'[u] = frame[u] /\ result'[u] = result[u]
  BY <1>5, SyncFacts DEF Return
<1>9. CASE ~Unbuffered(c)
  BY <1>7, <1>9, BufferedSyncs
<1>10. CASE Unbuffered(c)
  <2>1. \/ /\ chans[c].state.tag = "SenderReached" /\ q.status = "Value"
           /\ q.data = chans[c].state.data
           /\ q.chan.state = SenderReachedReceiverAccepted(chans[c].state.sender)
        \/ /\ Served(chans[c].state, t) /\ q.status = "Value"
           /\ q.data = chans[c].state.data /\ q.chan.state = Initial
        \/ /\ ~Served(chans[c].state, t)
           /\ q.status = IF chans[c].isClosed THEN "Closed" ELSE "Blocked"
           /\ \/ chans[c].state = Initial /\ q.chan.state = ReceiverReached(t)
              \/ q.chan.state = chans[c].state
    <3>1. ~IsBuffered(chans[c])
      BY <1>1, <1>10 DEF Unbuffered
    <3> QED BY <1>3, <1>4, <3>1, Typed, ReceiveCell
  <2>2. \A u \in Threads : frame'[u] = frame[u] /\ result'[u] = result[u] /\ SameFor(u, c) =>
          CallOf(u, c)' = CallOf(u, c)
    BY <1>1, <1>7, <1>10, SameCall
  <2>3. q.status # "Blocked" => CallOf(t, c)' = Told(Result(q.status, 0, q.data))
    <3> SUFFICES ASSUME q.status # "Blocked"
                 PROVE  CallOf(t, c)' = Told(Result(q.status, 0, q.data))
      OBVIOUS
    <3>1. frame'[t] = UserCode /\ result'[t] = Result(q.status, 0, q.data)
      BY <1>5, SyncFacts DEF Return
    <3> QED BY <1>7, <1>10, <3>1, CallsAre, SyncFacts DEF CallIs, Inside
  <2>4. CASE /\ chans[c].state.tag = "SenderReached" /\ q.status = "Value"
             /\ q.data = chans[c].state.data
             /\ q.chan.state = SenderReachedReceiverAccepted(chans[c].state.sender)
    <3>0. PICK s, v : s = chans[c].state.sender /\ v = chans[c].state.data
      OBVIOUS
    <3>1. Inside(s, "send", c) /\ s \in Threads /\ frame[s].data = v /\ s # t
      <4>1. Offering(chans[c].state)
        BY <2>4 DEF Offering
      <4>2. s \in Threads
        BY <1>1, <1>3, <3>0, <4>1, SenderType DEF SyncInv, LegalInv
      <4> QED BY <1>1, <1>3, <2>4, <3>0, <4>1, <4>2 DEF SenderLive, Inside
    <3>2. CallOf(s, c) = [at |-> "sending", value |-> v]
      <4>1. chans[c].state # SenderReachedReceiverAccepted(s)
        BY <2>4 DEF SenderReachedReceiverAccepted
      <4> QED BY <1>1, <1>10, <3>1, <4>1, CallsAre DEF CallIs
    <3>3. CallOf(s, c)' = [at |-> "sent"]
      <4>1. Inside(s, "send", c)'
        BY <1>8, <3>1 DEF Inside
      <4> QED BY <1>5, <1>7, <1>10, <2>4, <3>0, <3>1, <4>1, CallsAre DEF CallIs
    <3>4. CallOf(t, c) = [at |-> "receiving"]
      <4>1. ~Served(chans[c].state, t)
        BY <2>4 DEF Served
      <4> QED BY <1>1, <1>10, <4>1, CallsAre DEF CallIs
    <3>5. CallOf(t, c)' = [at |-> "got", value |-> v]
      BY <2>3, <2>4, <3>0 DEF Told, Result
    <3>6. \A u \in Threads \ {s, t} : SameFor(u, c)
      BY <1>5, <2>4, <3>0 DEF SameFor, Served, SenderReachedReceiverAccepted
    <3>7. \A u \in Threads \ {s, t} : CallOf(u, c)' = CallOf(u, c)
      BY <1>8, <2>2, <3>6
    <3> QED BY <1>7, <3>1, <3>2, <3>3, <3>4, <3>5, <3>7, SyncMeet
  <2>5. CASE /\ Served(chans[c].state, t) /\ q.status = "Value"
             /\ q.data = chans[c].state.data /\ q.chan.state = Initial
    <3>1. CallOf(t, c) = [at |-> "got", value |-> chans[c].state.data]
      BY <1>1, <1>10, <2>5, CallsAre DEF CallIs
    <3>2. CallOf(t, c)' = [at |-> "got", value |-> chans[c].state.data]
      BY <2>3, <2>5 DEF Told, Result
    <3>3. \A u \in Threads \ {t} : SameFor(u, c)
      BY <1>5, <2>5 DEF SameFor, Served, SenderReachedReceiverAccepted, Initial
    <3>4. \A u \in Threads : CallOf(u, c)' = CallOf(u, c)
      BY <1>8, <2>2, <3>1, <3>2, <3>3
    <3> QED BY <1>7, <3>4, SyncStutter
  <2>6. CASE /\ ~Served(chans[c].state, t)
             /\ q.status = IF chans[c].isClosed THEN "Closed" ELSE "Blocked"
             /\ \/ chans[c].state = Initial /\ q.chan.state = ReceiverReached(t)
                \/ q.chan.state = chans[c].state
    <3>1. \A u \in Threads : SameFor(u, c)
      BY <1>5, <2>6 DEF SameFor, Served, SenderReachedReceiverAccepted, Initial, ReceiverReached
    <3>2. CASE q.status = "Blocked"
      BY <1>5, <1>7, <2>2, <3>1, <3>2, SyncStutter
    <3>3. CASE q.status = "Closed"
      <4>1. ClosedOf(c)
        BY <1>1, <2>6, <3>3 DEF ClosedOf
      <4>2. CallOf(t, c) = [at |-> "receiving"]
        BY <1>1, <1>10, <2>6, CallsAre DEF CallIs
      <4>3. CallOf(t, c)' = [at |-> "closed"]
        BY <2>3, <3>3 DEF Told, Result
      <4>4. \A u \in Threads \ {t} : CallOf(u, c)' = CallOf(u, c)
        BY <1>8, <2>2, <3>1
      <4> QED BY <1>7, <4>1, <4>2, <4>3, <4>4, SyncTold
    <3> QED BY <2>6, <3>2, <3>3
  <2> QED BY <2>1, <2>4, <2>5, <2>6
<1> QED BY <1>9, <1>10

\* A close changes nobody's call.
LEMMA CloseSyncs ==
  ASSUME SyncInv, OnlyChannel, NEW c \in Chans, NEW t \in Threads, ChannelClose(t)
  PROVE  SyncStep(c)
<1>0. frame[t].op = "close" /\ frame[t] \in Frames
  BY SyncFacts DEF ChannelClose, In
<1>1. frame[t].channel = c /\ c \in Made
  <2>1. frame[t].channel \in Made /\ frame[t].channel \in Chans
    BY <1>0, FrameFields DEF SyncInv, LegalInv, RuntimeInv, FramesOK, Used
  <2> QED BY <2>1 DEF OnlyChannel
<1>2. ~chans[c].isClosed
  BY <1>0, <1>1 DEF SyncInv, LegalInv, CloseOK
<1>3. chans'[c] = CloseChannel(chans[c]) /\ Return(t, NoResult)
  BY <1>1, <1>2, SyncFacts DEF ChannelClose, Finish
<1>4. /\ CloseChannel(chans[c]) \in AnyChannel /\ CloseChannel(chans[c]).isClosed
      /\ CloseChannel(chans[c]).capacity = chans[c].capacity
      /\ CloseChannel(chans[c]).state = chans[c].state
  <2>1. chans[c] \in AnyChannel
    BY <1>1, SyncFacts
  <2> QED BY <2>1, Typed, CloseKeeps
<1>5. /\ c \in Made' /\ ~ClosedOf(c) /\ ClosedOf(c)'
      /\ Unbuffered(c)' <=> Unbuffered(c)
  BY <1>1, <1>2, <1>3, <1>4, ConstantsAssumption
     DEF Made, ClosedOf, Unbuffered, IsBuffered, AnyChannel, Caps
<1>6. \A u \in Threads \ {t} : frame'[u] = frame[u] /\ result'[u] = result[u]
  BY <1>3, SyncFacts DEF Return
<1>7. frame'[t] = UserCode /\ result'[t] = NoResult
  BY <1>3, SyncFacts DEF Return
<1>8. CASE ~Unbuffered(c)
  <2>1. \A u \in Threads : CallOf(u, c)' = CallOf(u, c)
    BY <1>5, <1>8, CallsAre DEF CallIs
  <2> QED BY <1>5, <2>1, SyncClosing
<1>9. CASE Unbuffered(c)
  <2>1. CallOf(t, c)' = CallOf(t, c)
    <3>1. Told(result[t]) = [at |-> "idle"] /\ Told(NoResult) = [at |-> "idle"]
      BY <1>0, SyncFacts DEF SyncInv, BusyUntold, Told
    <3>2. /\ ~Inside(t, "send", c) /\ ~Inside(t, "receive", c)
          /\ ~Inside(t, "send", c)' /\ ~Inside(t, "receive", c)'
      BY <1>0, <1>7, SyncFacts DEF Inside
    <3> QED BY <1>5, <1>7, <1>9, <3>1, <3>2, OutsideCall
  <2>2. \A u \in Threads : SameFor(u, c)
    BY <1>3, <1>4 DEF SameFor
  <2>3. \A u \in Threads \ {t} : CallOf(u, c)' = CallOf(u, c)
    BY <1>1, <1>5, <1>6, <1>9, <2>2, SameCall
  <2> QED BY <1>5, <2>1, <2>3, SyncClosing
<1> QED BY <1>8, <1>9

\* An unbuffered channel that plain sends, receives and closes share with no
\* other channel is synchronous: every completed send is paired with one
\* completed receive of its value, by two different goroutines that were both in
\* their operations, although the two learn of it on different turns.
THEOREM UnbufferedChannelsAreSynchronous ==
  ASSUME NoSelect, OnlyChannel
  PROVE  LegalSpec => UnbufferedIsSynchronous
<1>1. RuntimeInit => SyncInv /\ \A c \in Chans : Sync(c)!HandoffInit
  <2> SUFFICES ASSUME RuntimeInit
               PROVE  SyncInv /\ \A c \in Chans : Sync(c)!HandoffInit
    OBVIOUS
  <2>1. Made = {} /\ \A t \in Threads : frame[t] = UserCode /\ result[t] = NoResult
    BY DEF RuntimeInit, Made
  <2>2. Told(NoResult) = [at |-> "idle"] /\ NoResult.status = "None" /\ UserCode.op = "none"
    BY DEF Told, NoResult, Result, UserCode
  <2>3. SyncInv
    BY <2>1, <2>2, LegalInitInv DEF SyncInv, BusyUntold, NothingTold
  <2>4. ASSUME NEW c \in Chans PROVE Sync(c)!HandoffInit
    <3>1. \A t \in Threads : CallOf(t, c) = [at |-> "idle"]
      BY <2>1, <2>2, CallsAre DEF CallIs, Unbuffered, Inside
    <3> QED BY <2>1, <3>1 DEF Sync!HandoffInit, Sync!Idle, ClosedOf
  <2> QED BY <2>3, <2>4
<1>2. SyncInv /\ [RuntimeNext /\ LegalStep]_vars => SyncInv'
  BY LegalNextInv, ToldNext DEF SyncInv
<1>3. SyncInv /\ [RuntimeNext /\ LegalStep]_vars => \A c \in Chans : SyncStep(c)
  <2> SUFFICES ASSUME SyncInv, [RuntimeNext]_vars, NEW c \in Chans PROVE SyncStep(c)
    OBVIOUS
  <2>1. PICK t \in Threads : WholeStep(t)
    BY WholeSteps DEF SyncInv, LegalInv
  <2>2. UNCHANGED <<chans, frame, result>> => SyncStep(c)
    <3> SUFFICES ASSUME UNCHANGED <<chans, frame, result>> PROVE SyncStep(c)
      OBVIOUS
    <3>1. \A u \in Threads : CallOf(u, c)' = CallOf(u, c)
      BY StillCall
    <3> QED BY <3>1, SyncStutter DEF ClosedOf, Made
  <2> QED BY <2>1, <2>2, YieldSyncs, CallSyncs, NewSyncs, SendSyncs, ReceiveSyncs, CloseSyncs
          DEF WholeStep
<1> QED BY <1>1, <1>2, <1>3, PTL DEF LegalSpec, UnbufferedIsSynchronous, SyncStep
=============================================================================
