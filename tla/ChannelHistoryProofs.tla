-------------------------- MODULE ChannelHistoryProofs --------------------------
(***************************************************************************)
(* Theorems about what channels have accepted and delivered over a whole    *)
(* behaviour, for any number of goroutines and channels, any capacities,    *)
(* any values and any user program, select included; the last section is    *)
(* about programs without select.                                          *)
(***************************************************************************)
EXTENDS ChannelHistory, ChannelRuntimeProofs, FiniteSetTheorems

\* The two logs are sequences of sent values.
HistoryTypeOK ==
  /\ sent \in [Chans -> Seq(Payload)]
  /\ received \in [Chans -> Seq(Payload)]

-----------------------------------------------------------------------------
(* Sequences.                                                              *)

\* Taking the head of h moves it to the end of r.
LEMMA TakeKeepsConcat ==
  ASSUME NEW S, NEW r \in Seq(S), NEW h \in Seq(S), h # <<>>
  PROVE  /\ Head(h) \in S /\ Tail(h) \in Seq(S)
         /\ Append(r, Head(h)) \o Tail(h) = r \o h
<1>1. /\ Head(h) \in S /\ Tail(h) \in Seq(S) /\ Len(Tail(h)) = Len(h) - 1
      /\ \A i \in 1 .. Len(Tail(h)) : Tail(h)[i] = h[i + 1]
      /\ Head(h) = h[1] /\ Len(h) \in Nat \ {0}
  BY HeadTailProperties, EmptySeq
<1> DEFINE x == Head(h)
           k == Tail(h)
           a == Append(r, x)
<1>2. /\ a \in Seq(S) /\ Len(a) = Len(r) + 1 /\ Len(r) \in Nat
      /\ \A i \in 1 .. Len(r) : a[i] = r[i]
      /\ a[Len(r) + 1] = x
  BY <1>1, AppendProperties
<1> HIDE DEF x, k, a
<1>3. /\ k \in Seq(S) /\ Len(k) = Len(h) - 1 /\ x = h[1]
      /\ \A i \in 1 .. Len(k) : k[i] = h[i + 1]
  BY <1>1 DEF k, x
<1>4. /\ a \o k \in Seq(S) /\ Len(a \o k) = Len(a) + Len(k)
      /\ \A i \in 1 .. Len(a) + Len(k) :
           (a \o k)[i] = IF i <= Len(a) THEN a[i] ELSE k[i - Len(a)]
  BY <1>2, <1>3, ConcatProperties
<1>5. /\ r \o h \in Seq(S) /\ Len(r \o h) = Len(r) + Len(h)
      /\ \A i \in 1 .. Len(r) + Len(h) :
           (r \o h)[i] = IF i <= Len(r) THEN r[i] ELSE h[i - Len(r)]
  BY ConcatProperties
<1>6. Len(a \o k) = Len(r \o h)
  BY <1>1, <1>2, <1>3, <1>4, <1>5
<1>7. ASSUME NEW i \in 1 .. Len(r) + Len(h) PROVE (a \o k)[i] = (r \o h)[i]
  <2>1. Len(a) + Len(k) = Len(r) + Len(h) /\ Len(a) = Len(r) + 1
    BY <1>1, <1>2, <1>3
  <2>2. CASE i <= Len(r)
    BY <1>2, <1>4, <1>5, <2>1, <2>2
  <2>3. CASE i = Len(r) + 1
    <3>1. i <= Len(a) /\ i - Len(r) = 1 /\ ~(i <= Len(r))
      BY <1>2, <2>1, <2>3
    <3> QED BY <1>2, <1>3, <1>4, <1>5, <2>1, <2>3, <3>1
  <2>4. CASE i > Len(r) + 1
    <3>1. /\ ~(i <= Len(a)) /\ ~(i <= Len(r)) /\ i - Len(a) \in 1 .. Len(k)
          /\ (i - Len(a)) + 1 = i - Len(r)
      BY <1>1, <1>2, <1>3, <2>1, <2>4
    <3> QED BY <1>3, <1>4, <1>5, <2>1, <3>1
  <2>5. i <= Len(r) \/ i = Len(r) + 1 \/ i > Len(r) + 1
    BY <1>1, <1>2
  <2> QED BY <2>2, <2>3, <2>4, <2>5
<1>8. a \o k = r \o h
  BY <1>4, <1>5, <1>6, <1>7, SeqEqual
<1> QED BY <1>1, <1>8 DEF a, k, x

\* Putting at the end of h is putting at the end of the whole.
LEMMA PutKeepsConcat ==
  ASSUME NEW S, NEW r \in Seq(S), NEW h \in Seq(S), NEW d \in S
  PROVE  r \o Append(h, d) = Append(r \o h, d)
<1>1. /\ Append(h, d) = h \o <<d>> /\ r \o h \in Seq(S) /\ <<d>> \in Seq(S)
  BY AppendIsConcat, ConcatProperties
<1>2. Append(r \o h, d) = (r \o h) \o <<d>>
  BY <1>1, AppendIsConcat
<1> QED BY <1>1, <1>2, ConcatAssociative

\* What appending d to r, h or s does to their concatenations.
LEMMA Appended ==
  ASSUME NEW S, NEW r \in Seq(S), NEW h \in Seq(S), NEW s \in Seq(S), NEW d \in S
  PROVE  /\ Append(s, d) \in Seq(S) /\ Append(r, d) \in Seq(S)
         /\ Append(r, d) \o <<>> = Append(r, d)
         /\ Append(s, d) \o <<>> = Append(s, d)
         /\ s \o <<d>> = Append(s, d)
         /\ r \o Append(h, d) = Append(r \o h, d)
<1>1. Append(s, d) \in Seq(S) /\ Append(r, d) \in Seq(S)
  BY AppendProperties
<1>2. Append(r, d) \o <<>> = Append(r, d) /\ Append(s, d) \o <<>> = Append(s, d)
  BY <1>1, ConcatEmptySeq
<1>3. s \o <<d>> = Append(s, d)
  BY AppendIsConcat
<1>4. r \o Append(h, d) = Append(r \o h, d)
  BY PutKeepsConcat
<1> QED BY <1>1, <1>2, <1>3, <1>4

-----------------------------------------------------------------------------
(* How the past of one channel can change in a step.                       *)

\* What the channel owes and what it has not acknowledged are as before.
Kept(c) ==
  /\ Owed(c)' = Owed(c)
  /\ Unacknowledged(c)' = Unacknowledged(c)

\* A send returns because its value d has been accepted.
AcceptedNow(c, d) ==
  /\ Unacknowledged(c) = <<>> /\ Unacknowledged(c)' = <<>>
  /\ Owed(c)' = Append(Owed(c), d)

\* A send returns whose value d had been received before.
ToldNow(c, d) ==
  /\ Owed(c) = <<>> /\ Owed(c)' = <<>>
  /\ Unacknowledged(c) = <<d>> /\ Unacknowledged(c)' = <<>>

\* A receive returns d, the oldest value owed.
TakenNow(c, d) ==
  /\ Unacknowledged(c) = <<>> /\ Unacknowledged(c)' = <<>>
  /\ Owed(c) # <<>> /\ d = Head(Owed(c)) /\ Owed(c)' = Tail(Owed(c))

\* A receive returns d, which a sender only offered.
HandedNow(c, d) ==
  /\ Owed(c) = <<>> /\ Owed(c)' = <<>>
  /\ Unacknowledged(c) = <<>> /\ Unacknowledged(c)' = <<d>>

Move(c) ==
  \/ Kept(c) /\ sent'[c] = sent[c] /\ received'[c] = received[c]
  \/ \E d \in Payload :
       \/ /\ AcceptedNow(c, d) \/ ToldNow(c, d)
          /\ sent'[c] = Append(sent[c], d) /\ received'[c] = received[c]
       \/ /\ TakenNow(c, d) \/ HandedNow(c, d)
          /\ sent'[c] = sent[c] /\ received'[c] = Append(received[c], d)

\* Owed in the terms of one channel.
LEMMA OwedIsHeld ==
  /\ \A c : Owed(c) = IF c \in Made THEN Held(chans[c]) ELSE <<>>
  /\ \A c : Owed(c)' = IF c \in Made' THEN Held(chans'[c]) ELSE <<>>
  /\ \A c : (c \in Made /\ Acknowledging(chans[c])) \/ Unacknowledged(c) = <<>>
  /\ \A c : (c \in Made' /\ Acknowledging(chans'[c])) \/ Unacknowledged(c)' = <<>>
BY DEF Owed, Held, Unacknowledged, Acknowledging

\* What is owed and what is not acknowledged are values.
LEMMA OwedType ==
  ASSUME RuntimeInv, NEW c \in Chans
  PROVE  Owed(c) \in Seq(Payload) /\ Unacknowledged(c) \in Seq(Payload)
<1>1. Owed(c) \in Seq(Payload)
  <2>1. CASE c \in Made
    <3>1. Contents(chans[c]) \in Seq(Payload)
      BY <2>1 DEF RuntimeInv, ChannelsOK
    <3> QED BY <2>1, <3>1, OwedIsHeld, HeldType
  <2>2. CASE c \notin Made
    BY <2>2, OwedIsHeld, EmptySeq
  <2> QED BY <2>1, <2>2
<1>2. Unacknowledged(c) \in Seq(Payload)
  <2>1. CASE c \in Made /\ Acknowledging(chans[c])
    <3> DEFINE u == chans[c].state.sender
    <3>1. u \in Threads /\ Inside(u, "send", c)
      BY <2>1, SenderType, SenderLiveEach DEF RuntimeInv, SenderLive, Acknowledging, Offering
    <3>2. frame[u].data \in Payload
      BY <3>1, FrameFields DEF RuntimeInv, RuntimeTypeOK, Inside
    <3>3. Unacknowledged(c) = <<frame[u].data>>
      BY <2>1 DEF Unacknowledged, Acknowledging
    <3> QED BY <3>2, <3>3
  <2>2. CASE ~(c \in Made /\ Acknowledging(chans[c]))
    BY <2>2, OwedIsHeld, EmptySeq
  <2> QED BY <2>1, <2>2
<1> QED BY <1>1, <1>2

\* What appending a value to the logs of a channel, or to what it owes, does.
LEMMA AppendedLogs ==
  ASSUME RuntimeInv, HistoryTypeOK, NEW c \in Chans, NEW d \in Payload
  PROVE  /\ Append(sent[c], d) \in Seq(Payload) /\ Append(received[c], d) \in Seq(Payload)
         /\ Append(received[c], d) \o <<>> = Append(received[c], d)
         /\ Append(sent[c], d) \o <<>> = Append(sent[c], d)
         /\ sent[c] \o <<d>> = Append(sent[c], d)
         /\ received[c] \o Append(Owed(c), d) = Append(received[c] \o Owed(c), d)
<1>1. \A r, h, s \in Seq(Payload) :
         /\ Append(s, d) \in Seq(Payload) /\ Append(r, d) \in Seq(Payload)
         /\ Append(r, d) \o <<>> = Append(r, d)
         /\ Append(s, d) \o <<>> = Append(s, d)
         /\ s \o <<d>> = Append(s, d)
         /\ r \o Append(h, d) = Append(r \o h, d)
  BY Appended
<1>2. received[c] \in Seq(Payload) /\ Owed(c) \in Seq(Payload) /\ sent[c] \in Seq(Payload)
  BY OwedType DEF HistoryTypeOK
<1> QED BY <1>1, <1>2, Zenon

\* A move keeps what has gone in equal to what has come out.
LEMMA MoveBalances ==
  ASSUME RuntimeInv, HistoryTypeOK, NEW c \in Chans, Move(c),
         received[c] \o Owed(c) = sent[c] \o Unacknowledged(c)
  PROVE  /\ received'[c] \o Owed(c)' = sent'[c] \o Unacknowledged(c)'
         /\ sent'[c] \in Seq(Payload) /\ received'[c] \in Seq(Payload)
<1> DEFINE r == received[c]
           h == Owed(c)
           s == sent[c]
           u == Unacknowledged(c)
<1>1. /\ r \in Seq(Payload) /\ s \in Seq(Payload)
      /\ h \in Seq(Payload) /\ u \in Seq(Payload)
      /\ r \o h = s \o u
  BY OwedType DEF HistoryTypeOK
<1>2. r \o <<>> = r /\ s \o <<>> = s
  BY <1>1, ConcatEmptySeq
<1>3. ASSUME NEW d \in Payload
      PROVE  /\ Append(s, d) \in Seq(Payload) /\ Append(r, d) \in Seq(Payload)
             /\ Append(r, d) \o <<>> = Append(r, d)
             /\ Append(s, d) \o <<>> = Append(s, d)
             /\ s \o <<d>> = Append(s, d)
             /\ r \o Append(h, d) = Append(r \o h, d)
  BY AppendedLogs
<1>4. CASE Kept(c) /\ sent'[c] = sent[c] /\ received'[c] = received[c]
  BY <1>1, <1>4 DEF Kept
<1>5. ASSUME NEW d \in Payload, AcceptedNow(c, d),
             sent'[c] = Append(sent[c], d), received'[c] = received[c]
      PROVE  /\ received'[c] \o Owed(c)' = sent'[c] \o Unacknowledged(c)'
             /\ sent'[c] \in Seq(Payload) /\ received'[c] \in Seq(Payload)
  BY <1>1, <1>2, <1>3, <1>5 DEF AcceptedNow
<1>6. ASSUME NEW d \in Payload, ToldNow(c, d),
             sent'[c] = Append(sent[c], d), received'[c] = received[c]
      PROVE  /\ received'[c] \o Owed(c)' = sent'[c] \o Unacknowledged(c)'
             /\ sent'[c] \in Seq(Payload) /\ received'[c] \in Seq(Payload)
  BY <1>1, <1>2, <1>3, <1>6 DEF ToldNow
<1>7. ASSUME NEW d \in Payload, TakenNow(c, d),
             sent'[c] = sent[c], received'[c] = Append(received[c], d)
      PROVE  /\ received'[c] \o Owed(c)' = sent'[c] \o Unacknowledged(c)'
             /\ sent'[c] \in Seq(Payload) /\ received'[c] \in Seq(Payload)
  <2>1. h # <<>> /\ d = Head(h) /\ Owed(c)' = Tail(h)
    BY <1>7 DEF TakenNow
  <2>2. Append(r, d) \o Tail(h) = r \o h
    BY <1>1, <2>1, TakeKeepsConcat
  <2> QED BY <1>1, <1>2, <1>3, <1>7, <2>1, <2>2 DEF TakenNow
<1>8. ASSUME NEW d \in Payload, HandedNow(c, d),
             sent'[c] = sent[c], received'[c] = Append(received[c], d)
      PROVE  /\ received'[c] \o Owed(c)' = sent'[c] \o Unacknowledged(c)'
             /\ sent'[c] \in Seq(Payload) /\ received'[c] \in Seq(Payload)
  BY <1>1, <1>2, <1>3, <1>8 DEF HandedNow
<1> QED BY <1>4, <1>5, <1>6, <1>7, <1>8 DEF Move


-----------------------------------------------------------------------------
(* What a step writes to the logs.                                         *)

Talks == {"send", "receive", "select"}

\* A step that keeps the frames, or that is taken by a thread that is not in a
\* send, receive or select, logs nothing.
LEMMA NothingReturns ==
  ASSUME NEW log \in [Chans -> Seq(Payload)], NEW status,
         frame' = frame \/ frame[running].op \notin Talks
  PROVE  Log(log, status) = log
<1>1. ASSUME NEW t \in Threads, NEW c \in Chans, t = running, Returns(t, c, status) PROVE FALSE
  BY <1>1 DEF Returns, Talks, UserCode
<1>2. Log(log, status) = [c \in Chans |-> log[c]]
  BY <1>1 DEF Log
<1> QED BY <1>2

\* A send, receive or select that returns is logged once, under its status, its
\* channel and its value.
LEMMA ReturnLogged ==
  ASSUME RuntimeInv, NEW t \in Threads, running = t, frame[t].op \in Talks,
         NEW r, Return(t, r), NEW e \in Chans, Target(frame[t], r) = e,
         NEW log \in [Chans -> Seq(Payload)], NEW status
  PROVE  Log(log, status) = IF r.status = status
                            THEN [log EXCEPT ![e] = Append(@, Value(frame[t], r))]
                            ELSE log
<1>1. frame'[t] = UserCode /\ result'[t] = r
  BY DEF Return, RuntimeInv, RuntimeTypeOK
<1>2. ASSUME NEW c \in Chans
      PROVE  (\E u \in Threads : u = running /\ Returns(u, c, status))
               <=> r.status = status /\ c = e
  BY <1>1 DEF Returns, Talks
<1>3. Log(log, status) = [c \in Chans |-> IF r.status = status /\ c = e
                                          THEN Append(log[c], Value(frame[t], r)) ELSE log[c]]
  BY <1>1, <1>2 DEF Log
<1>4. CASE r.status = status
  BY <1>3, <1>4
<1>5. CASE r.status # status
  BY <1>3, <1>5
<1> QED BY <1>4, <1>5

-----------------------------------------------------------------------------
(* Channels a step leaves alone, or touches without moving a value.         *)

\* The senders of channel c keep their frames.
SendersStay(c) == \A u \in Threads : Inside(u, "send", c) => frame'[u] = frame[u]

LEMMA KeptChannel ==
  ASSUME RuntimeInv, NEW c \in Chans, SendersStay(c), c \in Made => c \in Made',
         c \in Made => /\ Held(chans'[c]) = Held(chans[c])
                       /\ Acknowledging(chans[c]) \/ Acknowledging(chans'[c]) =>
                            chans'[c].state = chans[c].state,
         c \in Made' \ Made => Held(chans'[c]) = <<>> /\ ~Acknowledging(chans'[c])
  PROVE  Kept(c)
<1>1. Owed(c)' = Owed(c)
  BY OwedIsHeld
<1>2. CASE c \in Made /\ Acknowledging(chans[c])
  <2> DEFINE u == chans[c].state.sender
  <2>1. u \in Threads /\ Inside(u, "send", c)
    BY <1>2, SenderType, SenderLiveEach DEF RuntimeInv, SenderLive, Acknowledging, Offering
  <2>2. frame'[u] = frame[u]
    BY <2>1 DEF SendersStay
  <2>3. chans'[c].state = chans[c].state /\ c \in Made'
    BY <1>2
  <2>4. Unacknowledged(c) = <<frame[u].data>>
    BY <1>2 DEF Unacknowledged, Acknowledging
  <2>5. Unacknowledged(c)' = <<frame'[u].data>>
    BY <1>2, <2>3 DEF Unacknowledged, Acknowledging
  <2> QED BY <1>1, <2>2, <2>4, <2>5 DEF Kept
<1>3. CASE ~(c \in Made /\ Acknowledging(chans[c]))
  <2>1. ~(c \in Made' /\ Acknowledging(chans'[c]))
    BY <1>3 DEF Acknowledging
  <2> QED BY <1>1, <1>3, <2>1, OwedIsHeld DEF Kept
<1> QED BY <1>2, <1>3

\* In particular one that does not change at all.
LEMMA UntouchedChannel ==
  ASSUME RuntimeInv, NEW c \in Chans, SendersStay(c), chans'[c] = chans[c]
  PROVE  Kept(c)
<1>1. c \in Made' <=> c \in Made
  BY DEF Made
<1> QED BY <1>1, KeptChannel

\* The only frame that changes is that of t, which is not sending on c.
LEMMA OthersStay ==
  ASSUME RuntimeInv, NEW t \in Threads, NEW f, frame' = [frame EXCEPT ![t] = f],
         NEW c, ~Inside(t, "send", c)
  PROVE  SendersStay(c)
BY DEF SendersStay, RuntimeInv, RuntimeTypeOK

-----------------------------------------------------------------------------
(* Sends and receives that complete, plain or chosen by a select.           *)

\* t returns from a send of d on e.
LEMMA SendMoves ==
  ASSUME RuntimeInv, HistoryTypeOK, NEW t \in Threads, NEW e \in Made, e \in Chans,
         NEW d \in Payload, Send(chans[e], t, d).done,
         chans' = [chans EXCEPT ![e] = Send(chans[e], t, d).chan],
         frame' = [frame EXCEPT ![t] = UserCode],
         frame[t].op = "select" \/ (Inside(t, "send", e) /\ frame[t].data = d),
         sent' = [sent EXCEPT ![e] = Append(@, d)], received' = received
  PROVE  \A c \in Chans : Move(c)
<1>0. chans = [c \in Chans |-> chans[c]]
  BY DEF RuntimeInv, RuntimeTypeOK
<1>1. ASSUME NEW c \in Chans, c # e PROVE Move(c)
  <2>1. ~Inside(t, "send", c)
    BY <1>1 DEF Inside
  <2>2. chans'[c] = chans[c]
    BY <1>0, <1>1
  <2>3. Kept(c)
    BY <2>1, <2>2, OthersStay, UntouchedChannel
  <2>4. sent'[c] = sent[c] /\ received'[c] = received[c]
    BY <1>1 DEF HistoryTypeOK
  <2> QED BY <2>3, <2>4 DEF Move
<1>2. Move(e)
  <2> DEFINE x == Send(chans[e], t, d).chan
  <2>1. chans[e] \in AnyChannel /\ WellFormed(chans[e])
    BY MadeType DEF RuntimeInv
  <2>2. chans'[e] = x /\ e \in Made'
    <3>1. chans'[e] = x
      BY <1>0
    <3>2. x \in AnyChannel
      BY <2>1, Typed, SendType
    <3> QED BY <3>1, <3>2, ConstantsAssumption DEF Made, AnyChannel, Caps
  <2>3. sent'[e] = Append(sent[e], d) /\ received'[e] = received[e]
    BY DEF HistoryTypeOK
  <2>4. \/ /\ ~Acknowledging(chans[e]) /\ ~Acknowledging(x)
           /\ Held(x) = Append(Held(chans[e]), d)
        \/ /\ chans[e].state = SenderReachedReceiverAccepted(t)
           /\ ~Acknowledging(x)
           /\ Held(chans[e]) = <<>> /\ Held(x) = <<>>
    BY <2>1, Typed, SendHolds
  <2>5. CASE /\ ~Acknowledging(chans[e]) /\ ~Acknowledging(x)
             /\ Held(x) = Append(Held(chans[e]), d)
    <3>1. AcceptedNow(e, d)
      BY <2>2, <2>5, OwedIsHeld DEF AcceptedNow
    <3> QED BY <2>3, <3>1 DEF Move
  <2>6. CASE /\ chans[e].state = SenderReachedReceiverAccepted(t)
             /\ ~Acknowledging(x)
             /\ Held(chans[e]) = <<>> /\ Held(x) = <<>>
    <3>1. Acknowledging(chans[e]) /\ chans[e].state.sender = t
      BY <2>6 DEF Acknowledging, SenderReachedReceiverAccepted
    <3>2. Inside(t, "send", e)
      BY <3>1, SenderLiveEach DEF RuntimeInv, SenderLive, Acknowledging, Offering
    <3>3. Unacknowledged(e) = <<d>>
      BY <3>1, <3>2 DEF Unacknowledged, Acknowledging, Inside
    <3>4. ToldNow(e, d)
      BY <2>2, <2>6, <3>3, OwedIsHeld DEF ToldNow
    <3> QED BY <2>3, <3>4 DEF Move
  <2> QED BY <2>4, <2>5, <2>6
<1> QED BY <1>1, <1>2

\* t returns from a receive on e with a value.
LEMMA ReceiveMoves ==
  ASSUME RuntimeInv, HistoryTypeOK, NEW t \in Threads, NEW e \in Made, e \in Chans,
         Receive(chans[e], t).status = "Value",
         chans' = [chans EXCEPT ![e] = Receive(chans[e], t).chan],
         frame' = [frame EXCEPT ![t] = UserCode], frame[t].op # "send",
         sent' = sent,
         received' = [received EXCEPT ![e] = Append(@, Receive(chans[e], t).data)]
  PROVE  \A c \in Chans : Move(c)
<1>0. chans = [c \in Chans |-> chans[c]]
  BY DEF RuntimeInv, RuntimeTypeOK
<1>1. \A c \in Chans : SendersStay(c)
  BY OthersStay DEF Inside
<1>2. ASSUME NEW c \in Chans, c # e PROVE Move(c)
  <2>1. chans'[c] = chans[c]
    BY <1>0, <1>2
  <2>2. Kept(c)
    BY <1>1, <2>1, UntouchedChannel
  <2>3. sent'[c] = sent[c] /\ received'[c] = received[c]
    BY <1>2 DEF HistoryTypeOK
  <2> QED BY <2>2, <2>3 DEF Move
<1>3. Move(e)
  <2> DEFINE r == Receive(chans[e], t)
             x == r.chan
             d == r.data
  <2>1. chans[e] \in AnyChannel /\ WellFormed(chans[e])
    BY MadeType DEF RuntimeInv
  <2>2. chans'[e] = x /\ e \in Made'
    <3>1. chans'[e] = x
      BY <1>0
    <3>2. x \in AnyChannel
      BY <2>1, Typed, ReceiveType
    <3> QED BY <3>1, <3>2, ConstantsAssumption DEF Made, AnyChannel, Caps
  <2>3. sent'[e] = sent[e] /\ received'[e] = Append(received[e], d)
    BY DEF HistoryTypeOK
  <2>4. \/ /\ ~Acknowledging(chans[e]) /\ ~Acknowledging(x)
           /\ Held(chans[e]) # <<>> /\ d = Head(Held(chans[e]))
           /\ Held(x) = Tail(Held(chans[e]))
        \/ /\ chans[e].state.tag = "SenderReached" /\ d = chans[e].state.data
           /\ x.state = SenderReachedReceiverAccepted(chans[e].state.sender)
           /\ Held(chans[e]) = <<>> /\ Held(x) = <<>>
    BY <2>1, Typed, ReceiveHolds
  <2> HIDE DEF r
  <2>5. CASE /\ ~Acknowledging(chans[e]) /\ ~Acknowledging(x)
             /\ Held(chans[e]) # <<>> /\ d = Head(Held(chans[e]))
             /\ Held(x) = Tail(Held(chans[e]))
    <3>1. TakenNow(e, d)
      BY <2>2, <2>5, OwedIsHeld DEF TakenNow
    <3>2. Owed(e) \in Seq(Payload) /\ Owed(e) # <<>> /\ d = Head(Owed(e))
      BY <3>1, OwedType DEF TakenNow
    <3>3. d \in Payload
      BY <3>2, TakeKeepsConcat
    <3> QED BY <2>3, <3>1, <3>3 DEF Move
  <2>6. CASE /\ chans[e].state.tag = "SenderReached" /\ d = chans[e].state.data
             /\ x.state = SenderReachedReceiverAccepted(chans[e].state.sender)
             /\ Held(chans[e]) = <<>> /\ Held(x) = <<>>
    <3> DEFINE u == chans[e].state.sender
    <3>1. u \in Threads /\ Inside(u, "send", e) /\ frame[u].data = d
      BY <2>6, SenderType, SenderLiveEach DEF RuntimeInv, SenderLive, Offering
    <3>2. frame'[u] = frame[u] /\ d \in Payload
      BY <1>1, <3>1, FrameFields DEF SendersStay, RuntimeInv, RuntimeTypeOK, Inside
    <3>3. x.state.tag = "SenderReachedReceiverAccepted" /\ x.state.sender = u
      BY <2>6 DEF SenderReachedReceiverAccepted
    <3>4. Unacknowledged(e)' = <<frame'[u].data>>
      BY <2>2, <3>3 DEF Unacknowledged
    <3>5. Unacknowledged(e) = <<>>
      BY <2>6 DEF Unacknowledged
    <3>6. HandedNow(e, d)
      BY <2>2, <2>6, <3>1, <3>2, <3>4, <3>5, OwedIsHeld DEF HandedNow
    <3> QED BY <2>3, <3>2, <3>6 DEF Move
  <2> QED BY <2>4, <2>5, <2>6
<1> QED BY <1>2, <1>3

-----------------------------------------------------------------------------
(* Every step moves at most one value, through one channel.                *)

\* The logs as one step writes them.
Logging == sent' = Log(sent, "Sent") /\ received' = Log(received, "Value")

\* A step that returns from no send, receive or select moves nothing.
LEMMA QuietMoves ==
  ASSUME HistoryTypeOK, Logging, frame' = frame \/ frame[running].op \notin Talks,
         \A c \in Chans : Kept(c)
  PROVE  \A c \in Chans : Move(c)
<1>1. Log(sent, "Sent") = sent /\ Log(received, "Value") = received
  BY NothingReturns DEF HistoryTypeOK
<1> QED BY <1>1 DEF Logging, Move

\* A step of t that leaves the channels alone, apart from those in E, which it
\* touches without moving a value, keeps what every channel owes.
LEMMA KeptApart ==
  ASSUME RuntimeInv, NEW t \in Threads, NEW f,
         frame' = frame \/ (frame' = [frame EXCEPT ![t] = f] /\ frame[t].op # "send"),
         NEW E,
         \A c \in Chans \ E : chans'[c] = chans[c],
         \A c \in E \cap Made :
           /\ chans'[c] # NotMade
           /\ Held(chans'[c]) = Held(chans[c])
           /\ Acknowledging(chans[c]) \/ Acknowledging(chans'[c]) =>
                chans'[c].state = chans[c].state,
         \A c \in E \ Made : Held(chans'[c]) = <<>> /\ ~Acknowledging(chans'[c])
  PROVE  \A c \in Chans : Kept(c)
<1>1. \A c \in Chans : SendersStay(c)
  <2>1. CASE frame' = frame
    BY <2>1 DEF SendersStay
  <2>2. CASE frame' = [frame EXCEPT ![t] = f] /\ frame[t].op # "send"
    BY <2>2, OthersStay DEF Inside
  <2> QED BY <2>1, <2>2
<1> TAKE c \in Chans
<1>2. CASE c \notin E
  BY <1>1, <1>2, UntouchedChannel
<1>3. CASE c \in E
  <2>1. c \in Made => c \in Made'
    BY <1>3 DEF Made
  <2> QED BY <1>1, <1>3, <2>1, KeptChannel
<1> QED BY <1>2, <1>3

\* In particular a step that touches no channel.
LEMMA KeptAll ==
  ASSUME RuntimeInv, NEW t \in Threads, NEW f,
         frame' = frame \/ (frame' = [frame EXCEPT ![t] = f] /\ frame[t].op # "send"),
         chans' = chans
  PROVE  \A c \in Chans : Kept(c)
<1>1. \A c \in Chans : SendersStay(c)
  <2>1. CASE frame' = frame
    BY <2>1 DEF SendersStay
  <2>2. CASE frame' = [frame EXCEPT ![t] = f] /\ frame[t].op # "send"
    BY <2>2, OthersStay DEF Inside
  <2> QED BY <2>1, <2>2
<1> QED BY <1>1, UntouchedChannel

\* Calls, returns to the loop, spawns, yields and ends move nothing.
LEMMA OtherMoves ==
  ASSUME RuntimeInv, HistoryTypeOK, Logging,
         \/ \E t \in Threads : \E f \in UserCalls : Call(t, f)
         \/ \E t \in Threads : LwtSpawn(t) \/ LwtYield(t) \/ Terminate(t)
         \/ Loop \/ (Ended /\ UNCHANGED <<chans, frame, result>>)
  PROVE  \A c \in Chans : Move(c)
<1>1. ASSUME NEW t \in Threads, NEW f \in UserCalls, Call(t, f) PROVE \A c \in Chans : Move(c)
  <2>1. /\ running = t /\ frame[t] = UserCode /\ frame' = [frame EXCEPT ![t] = f]
        /\ chans' = chans
    BY <1>1 DEF Call, MayStep
  <2>2. frame[t].op \notin Talks /\ frame[t].op # "send"
    BY <2>1 DEF UserCode, Talks
  <2>3. \A c \in Chans : Kept(c)
    BY <2>1, <2>2, KeptAll
  <2> QED BY <2>1, <2>2, <2>3, QuietMoves
<1>2. ASSUME NEW t \in Threads, LwtSpawn(t) \/ LwtYield(t) PROVE \A c \in Chans : Move(c)
  <2>1. /\ running = t /\ frame[t].op \in {"spawn", "yield"}
        /\ frame' = [frame EXCEPT ![t] = UserCode] /\ chans' = chans
    BY <1>2 DEF LwtSpawn, LwtYield, In, MayStep, Return
  <2>2. frame[t].op \notin Talks /\ frame[t].op # "send"
    BY <2>1 DEF Talks
  <2>3. \A c \in Chans : Kept(c)
    BY <2>1, <2>2, KeptAll
  <2> QED BY <2>1, <2>2, <2>3, QuietMoves
<1>3. CASE \/ \E t \in Threads : Terminate(t)
           \/ Loop \/ (Ended /\ UNCHANGED <<chans, frame, result>>)
  <2>1. frame' = frame /\ chans' = chans
    BY <1>3 DEF Terminate, Loop
  <2>2. \A c \in Chans : Kept(c)
    BY <2>1, UntouchedChannel DEF SendersStay
  <2> QED BY <2>1, <2>2, QuietMoves
<1> QED BY <1>1, <1>2, <1>3

\* Making a channel moves nothing: it starts empty.
LEMMA NewMoves ==
  ASSUME RuntimeInv, HistoryTypeOK, Logging, NEW t \in Threads, ChannelNew(t)
  PROVE  \A c \in Chans : Move(c)
<1> DEFINE e == frame[t].channel
           n == frame[t].capacity
<1>1. /\ running = t /\ frame[t].op = "new" /\ frame[t] \in Frames
      /\ chans' = [chans EXCEPT ![e] = NewChannel(n)]
      /\ frame' = [frame EXCEPT ![t] = UserCode]
  BY DEF ChannelNew, In, MayStep, Finish, Return, RuntimeInv, RuntimeTypeOK
<1>2. e \in Chans /\ n \in Caps /\ e \notin Made
  BY <1>1, FrameFields DEF RuntimeInv, NewOK
<1>3. chans'[e] = NewChannel(n) /\ \A c \in Chans \ {e} : chans'[c] = chans[c]
  BY <1>1, <1>2 DEF RuntimeInv, RuntimeTypeOK
<1>4. Held(NewChannel(n)) = <<>> /\ ~Acknowledging(NewChannel(n))
  BY <1>2, Typed, NewType DEF Held, Acknowledging, NewChannel, Initial
<1>5. \A c \in Chans : Kept(c)
  <2>1. \A c \in {e} \cap Made :
           /\ chans'[c] # NotMade
           /\ Held(chans'[c]) = Held(chans[c])
           /\ Acknowledging(chans[c]) \/ Acknowledging(chans'[c]) =>
                chans'[c].state = chans[c].state
    BY <1>2
  <2>2. \A c \in {e} \ Made : Held(chans'[c]) = <<>> /\ ~Acknowledging(chans'[c])
    BY <1>3, <1>4
  <2>3. frame[t].op # "send"
    BY <1>1
  <2> HIDE DEF e, n
  <2> QED BY <1>1, <1>3, <2>1, <2>2, <2>3, KeptApart
<1>6. frame[running].op \notin Talks
  BY <1>1 DEF Talks
<1> QED BY <1>5, <1>6, QuietMoves

\* Neither does closing one.
LEMMA CloseMoves ==
  ASSUME RuntimeInv, HistoryTypeOK, Logging, NEW t \in Threads, ChannelClose(t)
  PROVE  \A c \in Chans : Move(c)
<1> DEFINE e == frame[t].channel
<1>1. /\ running = t /\ frame[t].op = "close" /\ frame[t] \in Frames
  BY DEF ChannelClose, In, MayStep, RuntimeInv, RuntimeTypeOK
<1>2. e \in Made /\ e \in Chans
  BY <1>1, FrameFields DEF RuntimeInv, FramesOK, Used
<1>3. frame[running].op \notin Talks /\ frame[t].op # "send"
  BY <1>1 DEF Talks
<1>4. CASE chans[e].isClosed
  <2>1. chans' = chans /\ frame' = frame
    BY <1>4 DEF ChannelClose, Abort
  <2>2. \A c \in Chans : Kept(c)
    BY <2>1, UntouchedChannel DEF SendersStay
  <2> QED BY <1>3, <2>2, QuietMoves
<1>5. CASE ~chans[e].isClosed
  <2>1. /\ chans' = [chans EXCEPT ![e] = CloseChannel(chans[e])]
        /\ frame' = [frame EXCEPT ![t] = UserCode]
    BY <1>5 DEF ChannelClose, Finish, Return
  <2>2. chans'[e] = CloseChannel(chans[e]) /\ \A c \in Chans \ {e} : chans'[c] = chans[c]
    BY <1>2, <2>1 DEF RuntimeInv, RuntimeTypeOK
  <2>3. /\ chans'[e] # NotMade
        /\ Held(chans'[e]) = Held(chans[e])
        /\ chans'[e].state = chans[e].state
    <3>1. chans[e] \in AnyChannel
      BY <1>2, MadeType DEF RuntimeInv
    <3> HIDE DEF e
    <3>2. CloseChannel(chans[e]) \in AnyChannel
      BY <3>1, Typed, CloseKeeps
    <3>3. Held(CloseChannel(chans[e])) = Held(chans[e])
      BY <3>1, Typed, CloseKeeps DEF Held, IsBuffered
    <3>4. CloseChannel(chans[e]).state = chans[e].state
      BY <3>1, Typed, CloseKeeps
    <3> QED BY <2>2, <3>2, <3>3, <3>4, ConstantsAssumption DEF AnyChannel, Caps
  <2>4. \A c \in Chans : Kept(c)
    <3>1. \A c \in {e} \cap Made :
             /\ chans'[c] # NotMade
             /\ Held(chans'[c]) = Held(chans[c])
             /\ Acknowledging(chans[c]) \/ Acknowledging(chans'[c]) =>
                  chans'[c].state = chans[c].state
      BY <2>3
    <3>2. {e} \ Made = {}
      BY <1>2
    <3> HIDE DEF e
    <3> QED BY <1>3, <2>1, <2>2, <3>1, <3>2, KeptApart
  <2> QED BY <1>3, <2>4, QuietMoves
<1> QED BY <1>4, <1>5

\* Both logs after a return.
LEMMA BothLogs ==
  ASSUME RuntimeInv, HistoryTypeOK, NEW t \in Threads, running = t, frame[t].op \in Talks,
         NEW r, Return(t, r), NEW e \in Chans, Target(frame[t], r) = e,
         NEW v, Value(frame[t], r) = v
  PROVE  /\ r.status = "Sent" =>
              /\ Log(sent, "Sent") = [sent EXCEPT ![e] = Append(@, v)]
              /\ Log(received, "Value") = received
         /\ r.status = "Value" =>
              /\ Log(received, "Value") = [received EXCEPT ![e] = Append(@, v)]
              /\ Log(sent, "Sent") = sent
         /\ r.status \notin {"Sent", "Value"} =>
              Log(sent, "Sent") = sent /\ Log(received, "Value") = received
<1>1. Log(sent, "Sent") = IF r.status = "Sent"
                          THEN [sent EXCEPT ![e] = Append(@, v)] ELSE sent
  <2>1. sent \in [Chans -> Seq(Payload)]
    BY DEF HistoryTypeOK
  <2>2. Log(sent, "Sent") = IF r.status = "Sent"
                            THEN [sent EXCEPT ![e] = Append(@, Value(frame[t], r))] ELSE sent
    BY <2>1, ReturnLogged
  <2> QED BY <2>2
<1>2. Log(received, "Value") = IF r.status = "Value"
                               THEN [received EXCEPT ![e] = Append(@, v)] ELSE received
  <2>1. received \in [Chans -> Seq(Payload)]
    BY DEF HistoryTypeOK
  <2>2. Log(received, "Value") = IF r.status = "Value"
                                 THEN [received EXCEPT ![e] = Append(@, Value(frame[t], r))]
                                 ELSE received
    BY <2>1, ReturnLogged
  <2> QED BY <2>2
<1> QED BY <1>1, <1>2

\* A plain send: accepted, told, or tried again later.
LEMMA SendStepMoves ==
  ASSUME RuntimeInv, HistoryTypeOK, Logging, NEW t \in Threads, ChannelSend(t)
  PROVE  \A c \in Chans : Move(c)
<1>0. PICK e, d : e = frame[t].channel /\ d = frame[t].data
  OBVIOUS
<1> DEFINE s == Send(chans[e], t, d)
           q == Result("Sent", 0, NoData)
<1>1. /\ running = t /\ frame[t].op = "send" /\ frame[t] \in Frames
      /\ chans' = [chans EXCEPT ![e] = s.chan]
      /\ IF s.done THEN Return(t, q) ELSE frame' = frame
  BY <1>0 DEF ChannelSend, In, MayStep, Finish, Block, RuntimeInv, RuntimeTypeOK
<1>2. e \in Made /\ e \in Chans /\ d \in Payload
  BY <1>0, <1>1, FrameFields DEF RuntimeInv, FramesOK, Used
<1>3. CASE s.done
  <2>1. Target(frame[t], q) = e /\ Value(frame[t], q) = d /\ q.status = "Sent"
    BY <1>0, <1>1 DEF Target, Value, Result
  <2>2. frame[t].op \in Talks /\ Return(t, q)
    BY <1>1, <1>3 DEF Talks
  <2>3. Log(sent, "Sent") = [sent EXCEPT ![e] = Append(@, d)] /\ Log(received, "Value") = received
    <3> HIDE DEF q
    <3> QED BY <1>1, <1>2, <2>1, <2>2, BothLogs
  <2>4. Inside(t, "send", e) /\ frame[t].data = d
    BY <1>0, <1>1 DEF Inside
  <2>5. frame' = [frame EXCEPT ![t] = UserCode]
    BY <2>2 DEF Return
  <2> QED BY <1>1, <1>2, <1>3, <2>3, <2>4, <2>5, SendMoves DEF Logging
<1>4. CASE ~s.done
  <2>1. frame' = frame
    BY <1>1, <1>4
  <2>2. chans'[e] = s.chan /\ \A c \in Chans \ {e} : chans'[c] = chans[c]
    BY <1>1, <1>2 DEF RuntimeInv, RuntimeTypeOK
  <2>3. /\ chans'[e] # NotMade
        /\ Held(chans'[e]) = Held(chans[e])
        /\ Acknowledging(chans[e]) \/ Acknowledging(chans'[e]) =>
             chans'[e].state = chans[e].state
    <3>1. chans[e] \in AnyChannel /\ WellFormed(chans[e])
      BY <1>2, MadeType DEF RuntimeInv
    <3>2. s.chan \in AnyChannel
      BY <1>2, <3>1, Typed, SendType
    <3>3. /\ Held(s.chan) = Held(chans[e])
          /\ Acknowledging(chans[e]) \/ Acknowledging(s.chan) =>
               s.chan.state = chans[e].state
      BY <1>2, <1>4, <3>1, Typed, SendHolds
    <3> QED BY <2>2, <3>2, <3>3, ConstantsAssumption DEF AnyChannel, Caps
  <2>4. \A c \in Chans : Kept(c)
    <3>1. \A c \in {e} \cap Made :
             /\ chans'[c] # NotMade
             /\ Held(chans'[c]) = Held(chans[c])
             /\ Acknowledging(chans[c]) \/ Acknowledging(chans'[c]) =>
                  chans'[c].state = chans[c].state
      BY <2>3
    <3>2. {e} \ Made = {}
      BY <1>2
    <3> QED BY <2>1, <2>2, <3>1, <3>2, KeptApart
  <2> QED BY <2>1, <2>4, QuietMoves
<1> QED BY <1>3, <1>4

\* What receiving does to a channel when no value comes of it.
LEMMA EmptyReceive ==
  ASSUME RuntimeInv, NEW t \in Threads, NEW e \in Made,
         Receive(chans[e], t).status # "Value",
         chans'[e] = Receive(chans[e], t).chan
  PROVE  /\ chans'[e] # NotMade
         /\ Held(chans'[e]) = Held(chans[e])
         /\ Acknowledging(chans[e]) \/ Acknowledging(chans'[e]) =>
              chans'[e].state = chans[e].state
<1> DEFINE r == Receive(chans[e], t)
<1>1. chans[e] \in AnyChannel /\ WellFormed(chans[e])
  BY MadeType DEF RuntimeInv
<1>2. r.chan \in AnyChannel
  BY <1>1, Typed, ReceiveType
<1>3. /\ Held(r.chan) = Held(chans[e])
      /\ Acknowledging(chans[e]) \/ Acknowledging(r.chan) =>
           r.chan.state = chans[e].state
  BY <1>1, Typed, ReceiveHolds
<1> QED BY <1>2, <1>3, ConstantsAssumption DEF AnyChannel, Caps

\* A plain receive: a value, "closed", or tried again later.
LEMMA ReceiveStepMoves ==
  ASSUME RuntimeInv, HistoryTypeOK, Logging, NEW t \in Threads, ChannelReceive(t)
  PROVE  \A c \in Chans : Move(c)
<1>0. PICK e : e = frame[t].channel
  OBVIOUS
<1> DEFINE r == Receive(chans[e], t)
           q == Result(r.status, 0, r.data)
<1>1. /\ running = t /\ frame[t].op = "receive" /\ frame[t] \in Frames
      /\ chans' = [chans EXCEPT ![e] = r.chan]
      /\ IF r.status = "Blocked" THEN frame' = frame ELSE Return(t, q)
  BY <1>0 DEF ChannelReceive, In, MayStep, Finish, Block, RuntimeInv, RuntimeTypeOK
<1>2. e \in Made /\ e \in Chans
  BY <1>0, <1>1, FrameFields DEF RuntimeInv, FramesOK, Used
<1>3. Target(frame[t], q) = e /\ q.status = r.status /\ q.data = r.data
  BY <1>0, <1>1 DEF Target, Result
<1>4. CASE r.status = "Value"
  <2>1. Value(frame[t], q) = r.data
    BY <1>3, <1>4 DEF Value
  <2>2. frame[t].op \in Talks /\ Return(t, q)
    BY <1>1, <1>4 DEF Talks
  <2>3. /\ Log(received, "Value") = [received EXCEPT ![e] = Append(@, r.data)]
        /\ Log(sent, "Sent") = sent
    <3> HIDE DEF q, r
    <3> QED BY <1>1, <1>2, <1>3, <1>4, <2>1, <2>2, BothLogs
  <2>4. frame' = [frame EXCEPT ![t] = UserCode] /\ frame[t].op # "send"
    BY <1>1, <2>2 DEF Return
  <2> QED BY <1>1, <1>2, <1>4, <2>3, <2>4, ReceiveMoves DEF Logging
<1>5. CASE r.status # "Value"
  <2>1. r.status \in {"Closed", "Blocked"}
    BY <1>5 DEF Receive, ReceiveStatus
  <2>2. \A c \in Chans : Kept(c)
    <3>1. chans'[e] = r.chan /\ \A c \in Chans \ {e} : chans'[c] = chans[c]
      BY <1>1, <1>2 DEF RuntimeInv, RuntimeTypeOK
    <3>2. \A c \in {e} \cap Made :
             /\ chans'[c] # NotMade
             /\ Held(chans'[c]) = Held(chans[c])
             /\ Acknowledging(chans[c]) \/ Acknowledging(chans'[c]) =>
                  chans'[c].state = chans[c].state
      BY <1>2, <1>5, <3>1, EmptyReceive
    <3>3. {e} \ Made = {}
      BY <1>2
    <3>4. frame' = frame \/ (frame' = [frame EXCEPT ![t] = UserCode] /\ frame[t].op # "send")
      BY <1>1 DEF Return
    <3> HIDE DEF r
    <3> QED BY <3>1, <3>2, <3>3, <3>4, KeptApart
  <2>3. Log(received, "Value") = received /\ Log(sent, "Sent") = sent
    <3>1. CASE r.status = "Blocked"
      BY <1>1, <3>1, NothingReturns DEF HistoryTypeOK
    <3>2. CASE r.status = "Closed"
      <4>1. frame[t].op \in Talks /\ Return(t, q)
        BY <1>1, <3>2 DEF Talks
      <4> HIDE DEF q, r
      <4> QED BY <1>1, <1>2, <1>3, <3>2, <4>1, BothLogs
    <3> QED BY <2>1, <3>1, <3>2
  <2> QED BY <2>2, <2>3 DEF Logging, Move
<1> QED BY <1>4, <1>5

\* A select that finds an entry ready completes it: its unwrap and its
\* unreachable!() do not fail (SelectNeverAborts).
LEMMA SelectReadyMoves ==
  ASSUME RuntimeInv, HistoryTypeOK, Logging, NEW t \in Threads, SelectReady(t)
  PROVE  \A c \in Chans : Move(c)
<1>1. /\ running = t /\ process = "running"
      /\ frame[t].op = "select" /\ frame[t] \in Frames /\ frame[t].op \in Talks
  BY DEF SelectReady, In, MayStep, RuntimeInv, RuntimeTypeOK, Talks
<1>2. PICK i \in ReadyEntries(t) :
        LET e == frame[t].entries[i]
            s == Send(chans[e.channel], t, e.data)
            r == Receive(chans[e.channel], t)
        IN  IF e.dir = "send"
            THEN IF s.done
                 THEN /\ chans' = [chans EXCEPT ![e.channel] = s.chan]
                      /\ Finish(t, Result("Sent", i, NoData))
                 ELSE Abort(t)
            ELSE IF r.status = "Value"
                 THEN /\ chans' = [chans EXCEPT ![e.channel] = r.chan]
                      /\ Finish(t, Result("Value", i, r.data))
                 ELSE Abort(t)
  BY DEF SelectReady
<1>3. PICK entry : entry = frame[t].entries[i]
  OBVIOUS
<1>4. PICK e, d : e = entry.channel /\ d = entry.data
  OBVIOUS
<1> DEFINE s == Send(chans[e], t, d)
           r == Receive(chans[e], t)
<1>5. IF entry.dir = "send"
      THEN IF s.done
           THEN /\ chans' = [chans EXCEPT ![e] = s.chan]
                /\ Finish(t, Result("Sent", i, NoData))
           ELSE Abort(t)
      ELSE IF r.status = "Value"
           THEN /\ chans' = [chans EXCEPT ![e] = r.chan]
                /\ Finish(t, Result("Value", i, r.data))
           ELSE Abort(t)
  BY <1>2, <1>3, <1>4
<1>6. /\ i \in 1 .. Len(frame[t].entries) /\ entry \in Entries
      /\ e \in Chans /\ e \in Made
  <2>1. i \in 1 .. Len(frame[t].entries)
    BY DEF ReadyEntries
  <2>2. entry \in Entries /\ e \in Used(frame[t])
    BY <1>1, <1>3, <1>4, <2>1, EntryOf
  <2>3. e \in Chans
    BY <1>4, <2>2, EntryFields
  <2> QED BY <2>1, <2>2, <2>3 DEF RuntimeInv, FramesOK
<1>7. ~Abort(t)
  BY <1>1, SelectNeverAborts DEF Abort, Halt
<1>8. CASE entry.dir = "send"
  <2> DEFINE q == Result("Sent", i, NoData)
  <2>1. /\ s.done /\ chans' = [chans EXCEPT ![e] = s.chan] /\ Return(t, q)
    BY <1>5, <1>7, <1>8 DEF Finish
  <2>2. Target(frame[t], q) = e /\ Value(frame[t], q) = d /\ q.status = "Sent"
    BY <1>1, <1>3, <1>4 DEF Target, Value, Result
  <2>3. Log(sent, "Sent") = [sent EXCEPT ![e] = Append(@, d)] /\ Log(received, "Value") = received
    <3> HIDE DEF q
    <3> QED BY <1>1, <1>6, <2>1, <2>2, BothLogs
  <2>4. d \in Payload
    BY <1>4, <1>6, <1>8, EntryFields
  <2>5. frame' = [frame EXCEPT ![t] = UserCode]
    BY <2>1 DEF Return
  <2> QED BY <1>1, <1>6, <2>1, <2>3, <2>4, <2>5, SendMoves DEF Logging
<1>9. CASE entry.dir # "send"
  <2> DEFINE q == Result("Value", i, r.data)
  <2>1. /\ r.status = "Value" /\ chans' = [chans EXCEPT ![e] = r.chan] /\ Return(t, q)
    BY <1>5, <1>7, <1>9 DEF Finish
  <2>2. Target(frame[t], q) = e /\ Value(frame[t], q) = r.data /\ q.status = "Value"
    BY <1>1, <1>3, <1>4 DEF Target, Value, Result
  <2>3. /\ Log(received, "Value") = [received EXCEPT ![e] = Append(@, r.data)]
        /\ Log(sent, "Sent") = sent
    <3> HIDE DEF q, r
    <3> QED BY <1>1, <1>6, <2>1, <2>2, BothLogs
  <2>4. frame' = [frame EXCEPT ![t] = UserCode] /\ frame[t].op # "send"
    BY <1>1, <2>1 DEF Return
  <2> QED BY <1>6, <2>1, <2>3, <2>4, ReceiveMoves DEF Logging
<1> QED BY <1>8, <1>9

\* A channel the second loop polls has no value for its thread.
LEMMA PolledIsEmpty ==
  ASSUME RuntimeInv, NEW t \in Threads, In(t, "select"), ReadyEntries(t) = {},
         NEW c \in Polled(t)
  PROVE  c \in Made /\ Receive(chans[c], t).status # "Value"
<1>1. frame[t].op = "select" /\ frame[t] \in Frames /\ Used(frame[t]) \subseteq Made
  BY DEF In, RuntimeInv, RuntimeTypeOK, FramesOK
<1>2. PICK i \in Polls(t) : c = frame[t].entries[i].channel
  BY DEF Polled
<1>3. /\ i \in 1 .. Len(frame[t].entries) /\ frame[t].entries[i].dir = "receive"
      /\ i \notin ReadyEntries(t)
  BY <1>2 DEF Polls
<1>4. ~CanCompleteReceive(chans[c], t)
  BY <1>2, <1>3 DEF ReadyEntries, Ready
<1>5. c \in Made
  BY <1>1, <1>2, <1>3, EntryOf
<1>6. chans[c] \in AnyChannel
  BY <1>5, MadeType DEF RuntimeInv
<1> QED BY <1>4, <1>5, <1>6, Typed, CanCompleteReceiveAgrees

\* A select that finds no entry ready moves nothing, whatever it polls and
\* whatever it reports.
LEMMA SelectPollMoves ==
  ASSUME RuntimeInv, HistoryTypeOK, Logging, NEW t \in Threads, SelectPoll(t)
  PROVE  \A c \in Chans : Move(c)
<1>1. /\ running = t /\ In(t, "select") /\ ReadyEntries(t) = {}
      /\ frame[t].op = "select" /\ frame[t] \in Frames /\ frame[t].op \in Talks
      /\ chans' = [c \in Chans |-> IF c \in Polled(t) THEN Receive(chans[c], t).chan
                                                      ELSE chans[c]]
  BY DEF SelectPoll, In, MayStep, RuntimeInv, RuntimeTypeOK, Talks
<1>2. \/ frame' = frame
      \/ Return(t, Result("Default", 0, NoData))
      \/ \E i \in ClosedEntries(t) : Return(t, Result("Closed", i, NoData))
  BY DEF SelectPoll, Block, Finish
<1>3. \A c \in Chans : Kept(c)
  <2>1. \A c \in Chans \ Polled(t) : chans'[c] = chans[c]
    BY <1>1
  <2>2. ASSUME NEW c \in Polled(t)
        PROVE  /\ c \in Made
               /\ chans'[c] # NotMade
               /\ Held(chans'[c]) = Held(chans[c])
               /\ Acknowledging(chans[c]) \/ Acknowledging(chans'[c]) =>
                    chans'[c].state = chans[c].state
    <3>1. c \in Made /\ c \in Chans /\ Receive(chans[c], t).status # "Value"
      BY <1>1, PolledIsEmpty DEF Made
    <3>2. chans'[c] = Receive(chans[c], t).chan
      BY <1>1, <3>1
    <3> QED BY <3>1, <3>2, EmptyReceive
  <2>3. \A c \in Polled(t) \cap Made :
          /\ chans'[c] # NotMade
          /\ Held(chans'[c]) = Held(chans[c])
          /\ Acknowledging(chans[c]) \/ Acknowledging(chans'[c]) =>
               chans'[c].state = chans[c].state
    BY <2>2
  <2>4. Polled(t) \ Made = {}
    BY <2>2
  <2>5. frame' = frame \/ (frame' = [frame EXCEPT ![t] = UserCode] /\ frame[t].op # "send")
    BY <1>1, <1>2 DEF Return
  <2> QED BY <2>1, <2>3, <2>4, <2>5, KeptApart
<1>4. Log(sent, "Sent") = sent /\ Log(received, "Value") = received
  <2>1. CASE frame' = frame
    BY <2>1, NothingReturns DEF HistoryTypeOK
  <2>2. ASSUME NEW st, st \notin {"Sent", "Value"}, NEW status,
               NEW log \in [Chans -> Seq(Payload)], status \in {"Sent", "Value"},
               NEW i, Return(t, Result(st, i, NoData))
        PROVE  Log(log, status) = log
    <3>1. result'[t].status = st
      BY <2>2 DEF Return, Result, RuntimeInv, RuntimeTypeOK
    <3>2. ASSUME NEW c \in Chans
          PROVE  ~\E u \in Threads : u = running /\ Returns(u, c, status)
      BY <1>1, <2>2, <3>1 DEF Returns
    <3>3. Log(log, status) = [c \in Chans |-> log[c]]
      BY <3>2 DEF Log
    <3> QED BY <3>3
  <2>3. ASSUME NEW st \in {"Default", "Closed"}, NEW i, Return(t, Result(st, i, NoData))
        PROVE  Log(sent, "Sent") = sent /\ Log(received, "Value") = received
    <3>1. Log(sent, "Sent") = sent
      BY <2>2, <2>3 DEF HistoryTypeOK
    <3>2. Log(received, "Value") = received
      BY <2>2, <2>3 DEF HistoryTypeOK
    <3> QED BY <3>1, <3>2
  <2> QED BY <1>2, <2>1, <2>3
<1> QED BY <1>3, <1>4 DEF Logging, Move

\* Every step moves at most one value in or out of each channel.
LEMMA Moves ==
  ASSUME RuntimeInv, HistoryTypeOK, HistoryNext
  PROVE  \A c \in Chans : Move(c)
<1>1. Logging /\ RuntimeNext
  BY DEF HistoryNext, Logging
<1>2. ASSUME NEW t \in Threads, Handler(t) PROVE \A c \in Chans : Move(c)
  BY <1>1, <1>2, NewMoves, CloseMoves, SendStepMoves, ReceiveStepMoves, SelectReadyMoves,
     SelectPollMoves, OtherMoves DEF Handler, ChannelSelect
<1> QED BY <1>1, <1>2, OtherMoves DEF RuntimeNext, UserStep

-----------------------------------------------------------------------------
(* Conservation.                                                           *)

\* The runtime's invariant, the types of the logs, and the balance.
HistoryInv == RuntimeInv /\ HistoryTypeOK /\ Conservation

\* It holds at the start: no channel has accepted or delivered anything.
LEMMA HistoryInitInv == HistoryInit => HistoryInv
<1> SUFFICES ASSUME HistoryInit PROVE HistoryInv
  OBVIOUS
<1>1. RuntimeInv
  BY RuntimeInitInv DEF HistoryInit
<1>2. HistoryTypeOK
  BY EmptySeq DEF HistoryInit, HistoryTypeOK
<1>3. ASSUME NEW c \in Chans
      PROVE  Owed(c) = <<>> /\ Unacknowledged(c) = <<>>
             /\ sent[c] = <<>> /\ received[c] = <<>>
  BY DEF HistoryInit, RuntimeInit, Owed, Unacknowledged, Made
<1> QED BY <1>1, <1>2, <1>3 DEF HistoryInv, Conservation

\* Every step preserves it.
LEMMA HistoryNextInv == HistoryInv /\ [HistoryNext]_historyVars => HistoryInv'
<1> SUFFICES ASSUME HistoryInv, [HistoryNext]_historyVars PROVE HistoryInv'
  OBVIOUS
<1>1. RuntimeInv'
  <2>1. [RuntimeNext]_vars
    BY DEF HistoryNext, historyVars
  <2> QED BY <2>1, RuntimeNextInv DEF HistoryInv
<1>2. CASE UNCHANGED historyVars
  BY <1>1, <1>2 DEF HistoryInv, HistoryTypeOK, Conservation, Owed, Unacknowledged, Made,
                    historyVars, vars
<1>3. CASE HistoryNext
  <2>1. \A c \in Chans : Move(c)
    BY <1>3, Moves DEF HistoryInv
  <2>2. \A c \in Chans : received[c] \o Owed(c) = sent[c] \o Unacknowledged(c)
    BY DEF HistoryInv, Conservation
  <2>3. ASSUME NEW c \in Chans
        PROVE  /\ received'[c] \o Owed(c)' = sent'[c] \o Unacknowledged(c)'
               /\ sent'[c] \in Seq(Payload) /\ received'[c] \in Seq(Payload)
    BY <2>1, <2>2, MoveBalances DEF HistoryInv
  <2>4. /\ sent' = [c \in Chans |-> sent'[c]]
        /\ received' = [c \in Chans |-> received'[c]]
    BY <1>3 DEF HistoryNext, Log
  <2>5. HistoryTypeOK'
    BY <2>3, <2>4 DEF HistoryTypeOK
  <2>6. Conservation'
    BY <2>3 DEF Conservation
  <2> QED BY <1>1, <2>5, <2>6 DEF HistoryInv
<1> QED BY <1>2, <1>3

\* The inductive invariant of the history holds in every reachable state.
LEMMA HistoryInvariant == HistorySpec => []HistoryInv
<1> QED BY HistoryInitInv, HistoryNextInv, PTL DEF HistorySpec

\* Exactly once and in order: up to what a channel owes and what it has not
\* acknowledged, its receives returned the very sequence of values whose sends
\* returned, whatever retries, selects, closes and illegal calls there are.
THEOREM ValuesAreConserved == HistorySpec => []Conservation
<1>1. HistoryInv => Conservation
  BY DEF HistoryInv
<1> QED BY <1>1, HistoryInvariant, PTL

-----------------------------------------------------------------------------
(* No value is received twice.                                             *)

\* The values that may still be sent, each once: no two logged sends have the
\* same value, none is logged that is still in a frame, no two frames have one
\* in common, and all have been offered.
SentOnce ==
  \A c, d \in Chans : \A i \in DOMAIN sent[c], j \in DOMAIN sent[d] :
    sent[c][i] = sent[d][j] => c = d /\ i = j

PendingUnsent ==
  \A t \in Threads, c \in Chans : \A i \in DOMAIN sent[c] : sent[c][i] \notin DataOf(frame[t])

PendingApart ==
  \A t, u \in Threads : t # u => DataOf(frame[t]) \cap DataOf(frame[u]) = {}

AllOffered ==
  /\ offered \in Nat
  /\ \A t \in Threads : DataOf(frame[t]) \subseteq 1 .. offered
  /\ \A c \in Chans : \A i \in DOMAIN sent[c] : sent[c][i] \in 1 .. offered

FreshInv == SentOnce /\ PendingUnsent /\ PendingApart /\ AllOffered

\* A frame has finitely many values.
LEMMA DataFinite ==
  ASSUME NEW f \in Frames
  PROVE  Cardinality(DataOf(f)) \in Nat
<1>1. CASE f.op = "send"
  BY <1>1, FS_Singleton DEF DataOf
<1>2. CASE f.op = "select"
  <2> DEFINE S == 1 .. Len(f.entries)
             T == {f.entries[i].data : i \in S}
             g == [i \in S |-> f.entries[i].data]
  <2>1. IsFiniteSet(S)
    <3>1. Len(f.entries) \in Nat
      BY <1>2, FrameFields
    <3> QED BY <3>1, FS_Interval
  <2>2. g \in Surjection(S, T)
    BY DEF Surjection
  <2>3. IsFiniteSet(T)
    <3> HIDE DEF S, T, g
    <3> QED BY <2>1, <2>2, FS_Surjection
  <2>4. IsFiniteSet(T \ {NoData})
    <3> HIDE DEF T
    <3> QED BY <2>3, FS_RemoveElement
  <2>5. DataOf(f) = T \ {NoData}
    BY <1>2 DEF DataOf
  <2> HIDE DEF T
  <2> QED BY <2>4, <2>5, FS_CardinalityType
<1>3. CASE f.op \notin {"send", "select"}
  BY <1>3, FS_EmptySet DEF DataOf
<1> QED BY <1>1, <1>2, <1>3

\* A call offers the values of its frame, new ones.
LEMMA CallOffers ==
  ASSUME RuntimeInv, HistoryTypeOK, HistoryNext, NEW t \in Threads, NEW f \in UserCalls,
         MayStep(t), frame[t] = UserCode, frame' = [frame EXCEPT ![t] = f]
  PROVE  /\ sent' = sent
         /\ DataOf(f) = offered + 1 .. offered'
         /\ Cardinality(DataOf(f)) \in Nat /\ offered' = offered + Cardinality(DataOf(f))
<1>1. running = t /\ f \in Frames
  BY ConstantsAssumption DEF MayStep
<1>2. frame'[t] = f
  BY <1>1 DEF RuntimeInv, RuntimeTypeOK
<1>3. Calling = {f}
  BY <1>1, <1>2 DEF Calling
<1>4. UNION {DataOf(g) : g \in Calling} = DataOf(f)
  BY <1>3
<1>5. /\ DataOf(f) = offered + 1 .. offered + Cardinality(DataOf(f))
      /\ offered' = offered + Cardinality(DataOf(f))
  BY <1>4 DEF HistoryNext
<1>6. frame[running].op \notin Talks
  BY <1>1 DEF Talks, UserCode
<1>7. sent' = sent
  BY <1>6, NothingReturns DEF HistoryNext, HistoryTypeOK
<1> QED BY <1>1, <1>5, <1>7, DataFinite

\* Any other step offers nothing.
LEMMA OthersOffer ==
  ASSUME HistoryNext, offered \in Nat, Calling = {}
  PROVE  offered' = offered
<1>1. UNION {DataOf(g) : g \in Calling} = {}
  OBVIOUS
<1>2. offered' = offered + Cardinality({})
  BY <1>1 DEF HistoryNext
<1> QED BY <1>2, FS_EmptySet

\* What a send or select reports as sent is one of the values of its frame.
LEMMA SentIsData ==
  ASSUME RuntimeInv, RuntimeNext, NEW t \in Threads, running = t, frame[t].op \in Talks,
         frame'[t] = UserCode, result'[t].status = "Sent"
  PROVE  Value(frame[t], result'[t]) \in DataOf(frame[t])
<1>1. frame[t] \in Frames /\ frame[t] # UserCode /\ frame' # frame
  BY DEF RuntimeInv, RuntimeTypeOK, Talks, UserCode
<1>2. \/ ChannelSend(t) \/ ChannelReceive(t) \/ SelectReady(t) \/ SelectPoll(t)
  <2>1. PICK u \in Threads : Handler(u) \/ UserStep(u)
    BY <1>1 DEF RuntimeNext, Loop
  <2>2. u = t
    BY <2>1 DEF Handler, UserStep, Call, ChannelNew, ChannelSend, ChannelReceive, ChannelClose,
                ChannelSelect, SelectReady, SelectPoll, LwtSpawn, LwtYield, Terminate,
                In, Exit, MayStep
  <2> QED BY <1>1, <2>1, <2>2 DEF Handler, UserStep, Call, ChannelNew, ChannelClose,
                ChannelSelect, LwtSpawn, LwtYield, Terminate, In, Talks, UserCode
<1>3. ASSUME NEW r, Return(t, r) PROVE result'[t] = r
  BY <1>3 DEF Return, RuntimeInv, RuntimeTypeOK
<1>4. CASE ChannelSend(t)
  <2>1. frame[t].op = "send" /\ result'[t] = Result("Sent", 0, NoData)
    BY <1>1, <1>3, <1>4 DEF ChannelSend, In, Finish, Block
  <2> QED BY <2>1 DEF Value, DataOf, Result
<1>5. CASE ChannelReceive(t)
  <2> DEFINE r == Receive(chans[frame[t].channel], t)
  <2>1. result'[t] = Result(r.status, 0, r.data)
    BY <1>1, <1>3, <1>5 DEF ChannelReceive, Finish, Block
  <2>2. r.status # "Sent"
    BY DEF Receive, ReceiveStatus
  <2> QED BY <2>1, <2>2 DEF Result
<1>6. CASE SelectReady(t)
  <2>0. frame[t].op = "select"
    BY <1>6 DEF SelectReady, In
  <2>1. PICK i \in ReadyEntries(t) :
          IF frame[t].entries[i].dir = "send"
          THEN Finish(t, Result("Sent", i, NoData)) \/ Abort(t)
          ELSE (\E d : Finish(t, Result("Value", i, d))) \/ Abort(t)
    BY <1>6 DEF SelectReady
  <2>2. ~Abort(t)
    BY <1>1 DEF Abort
  <2>3. frame[t].entries[i].dir = "send" /\ result'[t] = Result("Sent", i, NoData)
    <3>1. ASSUME NEW d, Finish(t, Result("Value", i, d)) PROVE FALSE
      BY <1>3, <3>1 DEF Finish, Result
    <3>2. ASSUME Finish(t, Result("Sent", i, NoData)) PROVE result'[t] = Result("Sent", i, NoData)
      BY <1>3, <3>2 DEF Finish
    <3> QED BY <2>1, <2>2, <3>1, <3>2
  <2>4. i \in 1 .. Len(frame[t].entries)
    BY DEF ReadyEntries
  <2>5. frame[t].entries[i] \in Entries
    BY <1>1, <2>0, <2>4, EntryOf
  <2>6. frame[t].entries[i].data \in Payload
    BY <2>3, <2>5, EntryFields
  <2>7. Value(frame[t], result'[t]) = frame[t].entries[i].data
    BY <2>0, <2>3 DEF Value, Result
  <2> QED BY <2>0, <2>4, <2>6, <2>7, ConstantsAssumption DEF DataOf
<1>7. CASE SelectPoll(t)
  <2>1. \E s \in {"Default", "Closed"} : \E i : Finish(t, Result(s, i, NoData))
    BY <1>1, <1>7 DEF SelectPoll, Block
  <2>2. PICK s \in {"Default", "Closed"} : \E i : Finish(t, Result(s, i, NoData))
    BY <2>1
  <2>3. \E i : result'[t] = Result(s, i, NoData)
    BY <1>3, <2>2 DEF Finish
  <2> QED BY <2>3 DEF Result
<1> QED BY <1>2, <1>4, <1>5, <1>6, <1>7

\* Every step offers new values, drops frames, or logs a value of a frame it
\* drops.
LEMMA FreshSteps ==
  ASSUME RuntimeInv, HistoryTypeOK, offered \in Nat, HistoryNext
  PROVE  \/ /\ sent' = sent
            /\ \E t \in Threads, f \in UserCalls :
                 /\ frame' = [frame EXCEPT ![t] = f]
                 /\ DataOf(f) = offered + 1 .. offered'
                 /\ offered' \in Nat /\ offered <= offered'
         \/ /\ sent' = sent /\ offered' = offered
            /\ \A u \in Threads : frame'[u] \in {frame[u], UserCode}
         \/ /\ offered' = offered
            /\ \E t \in Threads, e \in Chans : \E v \in DataOf(frame[t]) :
                 /\ frame' = [frame EXCEPT ![t] = UserCode]
                 /\ sent' = [sent EXCEPT ![e] = Append(@, v)]
<1>0. /\ frame \in [Threads -> Frames] /\ RuntimeNext
      /\ sent \in [Chans -> Seq(Payload)]
      /\ sent' = Log(sent, "Sent")
  BY DEF HistoryNext, HistoryTypeOK, RuntimeInv, RuntimeTypeOK
<1>1. PICK t \in Threads : FrameStep(t)
  BY <1>0, Steps
<1>2. ASSUME NEW f \in UserCalls, MayStep(t), frame[t] = UserCode,
             frame' = [frame EXCEPT ![t] = f]
      PROVE  /\ sent' = sent
             /\ DataOf(f) = offered + 1 .. offered'
             /\ offered' \in Nat /\ offered <= offered'
  <2>1. /\ sent' = sent /\ DataOf(f) = offered + 1 .. offered'
        /\ Cardinality(DataOf(f)) \in Nat /\ offered' = offered + Cardinality(DataOf(f))
    BY <1>2, CallOffers
  <2> QED BY <2>1
<1>3. ASSUME \A u \in Threads : frame'[u] \in {frame[u], UserCode} PROVE offered' = offered
  <2>1. Calling = {}
    BY <1>3, ConstantsAssumption DEF Calling
  <2> QED BY <2>1, OthersOffer
<1>4. CASE UNCHANGED <<frame, result>>
  <2>1. sent' = sent
    BY <1>0, <1>4, NothingReturns
  <2> QED BY <1>3, <1>4, <2>1
<1>5. CASE MayStep(t) /\ frame' = [frame EXCEPT ![t] = UserCode]
  <2>1. running = t /\ \A u \in Threads : frame'[u] \in {frame[u], UserCode}
    BY <1>0, <1>5 DEF MayStep
  <2>2. frame'[t] = UserCode /\ offered' = offered
    BY <1>0, <1>3, <1>5, <2>1
  <2>3. CASE frame[t].op \notin Talks
    <3>1. sent' = sent
      BY <1>0, <2>1, <2>3, NothingReturns
    <3> QED BY <2>1, <2>2, <3>1
  <2>4. CASE frame[t].op \in Talks /\ ~\E c \in Chans : Returns(t, c, "Sent")
    <3>1. sent' = [c \in Chans |-> sent[c]]
      BY <1>0, <2>1, <2>4 DEF Log
    <3> QED BY <1>0, <2>1, <2>2, <3>1
  <2>5. ASSUME frame[t].op \in Talks, NEW e \in Chans, Returns(t, e, "Sent")
        PROVE  /\ Value(frame[t], result'[t]) \in DataOf(frame[t])
               /\ sent' = [sent EXCEPT ![e] = Append(@, Value(frame[t], result'[t]))]
    <3>1. result'[t].status = "Sent" /\ Target(frame[t], result'[t]) = e
      BY <2>5 DEF Returns
    <3>2. Value(frame[t], result'[t]) \in DataOf(frame[t])
      BY <1>0, <2>1, <2>2, <2>5, <3>1, SentIsData
    <3>3. \A c \in Chans : (\E u \in Threads : u = running /\ Returns(u, c, "Sent")) <=> c = e
      BY <2>1, <2>5, <3>1 DEF Returns
    <3>4. sent' = [c \in Chans |-> IF c = e THEN Append(sent[c], Value(frame[t], result'[t]))
                                            ELSE sent[c]]
      BY <1>0, <2>1, <3>3 DEF Log
    <3> QED BY <1>0, <3>2, <3>4
  <2> QED BY <1>5, <2>2, <2>3, <2>4, <2>5
<1> QED BY <1>1, <1>2, <1>4, <1>5 DEF FrameStep

\* No frame, no value.
LEMMA UserCodeData == DataOf(UserCode) = {}
BY DEF DataOf, UserCode

\* The sends logged and the values pending stay apart in every step.
LEMMA FreshNext ==
  ASSUME RuntimeInv, HistoryTypeOK, FreshInv, [HistoryNext]_historyVars
  PROVE  FreshInv'
<1> USE DEF FreshInv
<1>0. /\ frame \in [Threads -> Frames] /\ sent \in [Chans -> Seq(Payload)]
      /\ offered \in Nat
  BY DEF RuntimeInv, RuntimeTypeOK, HistoryTypeOK, AllOffered
<1>1. CASE UNCHANGED historyVars
  BY <1>1 DEF historyVars, vars, SentOnce, PendingUnsent, PendingApart, AllOffered
<1>2. ASSUME sent' = sent, NEW t \in Threads, NEW f,
             frame' = [frame EXCEPT ![t] = f], DataOf(f) = offered + 1 .. offered',
             offered' \in Nat, offered <= offered'
      PROVE  FreshInv'
  <2>1. \A u \in Threads : frame'[u] = IF u = t THEN f ELSE frame[u]
    BY <1>0, <1>2
  <2>2. \A v \in 1 .. offered : v \in 1 .. offered' /\ v \notin DataOf(f)
    BY <1>0, <1>2
  <2>3. DataOf(f) \subseteq 1 .. offered'
    BY <1>0, <1>2
  <2>4. SentOnce'
    BY <1>2 DEF SentOnce
  <2>5. PendingUnsent'
    BY <1>2, <2>1, <2>2 DEF PendingUnsent, AllOffered
  <2>6. PendingApart'
    BY <2>1, <2>2 DEF PendingApart, AllOffered
  <2>7. AllOffered'
    BY <1>2, <2>1, <2>2, <2>3 DEF AllOffered
  <2> QED BY <2>4, <2>5, <2>6, <2>7
<1>3. ASSUME \A u \in Threads : frame'[u] \in {frame[u], UserCode}
      PROVE  \A u \in Threads : DataOf(frame'[u]) \subseteq DataOf(frame[u])
  BY <1>3, UserCodeData
<1>4. CASE sent' = sent /\ offered' = offered /\ \A u \in Threads : frame'[u] \in {frame[u], UserCode}
  <2>1. \A u \in Threads : DataOf(frame'[u]) \subseteq DataOf(frame[u])
    BY <1>3, <1>4
  <2>2. SentOnce' /\ PendingUnsent'
    BY <1>4, <2>1 DEF SentOnce, PendingUnsent
  <2>3. PendingApart' /\ AllOffered'
    BY <1>4, <2>1 DEF PendingApart, AllOffered
  <2> QED BY <2>2, <2>3
<1>5. ASSUME offered' = offered, NEW t \in Threads, NEW e \in Chans, NEW v \in DataOf(frame[t]),
             frame' = [frame EXCEPT ![t] = UserCode], sent' = [sent EXCEPT ![e] = Append(@, v)]
      PROVE  FreshInv'
  <2>1. \A u \in Threads : frame'[u] = IF u = t THEN UserCode ELSE frame[u]
    BY <1>0, <1>5
  <2>2. \A u \in Threads : DataOf(frame'[u]) \subseteq DataOf(frame[u]) /\ v \notin DataOf(frame'[u])
    BY <2>1, UserCodeData DEF PendingApart
  <2> DEFINE n == Len(sent[e]) + 1
  <2>3. ASSUME NEW c \in Chans, NEW i \in DOMAIN sent'[c]
        PROVE  \/ c = e /\ i = n /\ sent'[c][i] = v
               \/ i \in DOMAIN sent[c] /\ sent'[c][i] = sent[c][i]
    <3>1. CASE c # e
      BY <1>0, <1>5, <3>1
    <3>2. CASE c = e
      <4>1. sent'[e] = Append(sent[e], v) /\ sent[e] \in Seq(Payload)
        BY <1>0, <1>5
      <4>2. /\ DOMAIN sent'[e] = 1 .. n /\ DOMAIN sent[e] = 1 .. Len(sent[e])
            /\ \A j \in 1 .. Len(sent[e]) : sent'[e][j] = sent[e][j]
            /\ sent'[e][n] = v
            /\ Len(sent[e]) \in Nat
        BY <4>1
      <4> QED BY <3>2, <4>2
    <3> QED BY <3>1, <3>2
  <2>4. \A c \in Chans : \A i \in DOMAIN sent[c] : sent[c][i] # v
    BY DEF PendingUnsent
  <2> HIDE DEF n
  <2>5. SentOnce'
    <3> SUFFICES ASSUME NEW c \in Chans, NEW d \in Chans,
                        NEW i \in DOMAIN sent'[c], NEW j \in DOMAIN sent'[d],
                        sent'[c][i] = sent'[d][j]
                 PROVE  c = d /\ i = j
      BY DEF SentOnce
    <3> QED BY <2>3, <2>4 DEF SentOnce
  <2>6. PendingUnsent'
    <3> SUFFICES ASSUME NEW u \in Threads, NEW c \in Chans, NEW i \in DOMAIN sent'[c]
                 PROVE  sent'[c][i] \notin DataOf(frame'[u])
      BY DEF PendingUnsent
    <3> QED BY <2>2, <2>3 DEF PendingUnsent
  <2>7. PendingApart'
    BY <2>2 DEF PendingApart
  <2>8. AllOffered'
    <3>1. v \in 1 .. offered
      BY DEF AllOffered
    <3>2. \A c \in Chans : \A i \in DOMAIN sent'[c] : sent'[c][i] \in 1 .. offered
      BY <2>3, <3>1 DEF AllOffered
    <3> QED BY <1>5, <2>2, <3>2 DEF AllOffered
  <2> QED BY <2>5, <2>6, <2>7, <2>8
<1>6. CASE HistoryNext
  BY <1>0, <1>2, <1>4, <1>5, <1>6, FreshSteps
<1> QED BY <1>1, <1>6

\* A received value is one whose send has returned, at the same place of the
\* log, or the one that is not acknowledged yet and still in its sender's frame.
LEMMA ReceivedIs ==
  ASSUME HistoryInv, NEW c \in Chans, NEW i \in DOMAIN received[c]
  PROVE  \/ i \in DOMAIN sent[c] /\ received[c][i] = sent[c][i]
         \/ /\ i = Len(sent[c]) + 1
            /\ \E u \in Threads : Inside(u, "send", c) /\ received[c][i] \in DataOf(frame[u])
<1>1. /\ received[c] \in Seq(Payload) /\ sent[c] \in Seq(Payload)
      /\ Owed(c) \in Seq(Payload) /\ Unacknowledged(c) \in Seq(Payload)
  BY OwedType DEF HistoryInv, HistoryTypeOK
<1> DEFINE r == received[c]
           h == Owed(c)
           s == sent[c]
           a == Unacknowledged(c)
<1>2. r \o h = s \o a
  BY DEF HistoryInv, Conservation
<1>3. CASE c \in Made /\ Acknowledging(chans[c])
  <2> DEFINE u == chans[c].state.sender
  <2>1. u \in Threads /\ Inside(u, "send", c)
    BY <1>3, SenderType, SenderLiveEach
       DEF HistoryInv, RuntimeInv, SenderLive, Acknowledging, Offering
  <2>2. a = <<frame[u].data>> /\ frame[u].data \in DataOf(frame[u])
    BY <1>3, <2>1 DEF Unacknowledged, Acknowledging, Inside, DataOf
  <2>3. Len(a) = 1 /\ a[1] \in DataOf(frame[u])
    BY <2>2
  <2> HIDE DEF r, h, s, a, u
  <2>4. i \in 1 .. Len(r) /\ Len(r) \in Nat /\ Len(s) \in Nat /\ Len(h) \in Nat
    BY <1>1 DEF r, s, h
  <2>5. /\ Len(r \o h) = Len(r) + Len(h) /\ (r \o h)[i] = r[i]
    BY <1>1, <2>4, ConcatProperties DEF r, h
  <2>6. /\ Len(s \o a) = Len(s) + 1
        /\ \A j \in 1 .. Len(s) + 1 :
             (s \o a)[j] = IF j <= Len(s) THEN s[j] ELSE a[j - Len(s)]
    <3>1. s \in Seq(Payload) /\ a \in Seq(Payload)
      BY <1>1 DEF s, a
    <3>2. /\ Len(s \o a) = Len(s) + Len(a)
          /\ \A j \in 1 .. Len(s) + Len(a) :
               (s \o a)[j] = IF j <= Len(s) THEN s[j] ELSE a[j - Len(s)]
      BY <3>1, ConcatProperties
    <3> QED BY <2>3, <3>2
  <2>7. i \in 1 .. Len(s) + 1
    BY <1>2, <2>4, <2>5, <2>6
  <2>8. CASE i <= Len(s)
    <3>1. i \in DOMAIN s /\ r[i] = s[i]
      BY <1>1, <1>2, <2>4, <2>5, <2>6, <2>7, <2>8 DEF s
    <3> QED BY <3>1 DEF r, s
  <2>9. CASE i = Len(s) + 1
    <3>1. r[i] = a[1]
      BY <1>2, <2>4, <2>5, <2>6, <2>7, <2>9
    <3> QED BY <2>1, <2>3, <2>9, <3>1 DEF r, s
  <2> QED BY <2>4, <2>7, <2>8, <2>9
<1>4. CASE ~(c \in Made /\ Acknowledging(chans[c]))
  <2>1. a = <<>>
    BY <1>4, OwedIsHeld
  <2> HIDE DEF r, h, s, a
  <2>2. s \o a = s
    BY <1>1, <2>1, ConcatEmptySeq DEF s
  <2>3. i \in 1 .. Len(r) /\ Len(r) \in Nat /\ Len(h) \in Nat
    BY <1>1 DEF r, h
  <2>4. /\ Len(r \o h) = Len(r) + Len(h) /\ (r \o h)[i] = r[i]
    BY <1>1, <2>3, ConcatProperties DEF r, h
  <2>5. i \in 1 .. Len(s) /\ r[i] = s[i]
    BY <1>2, <2>2, <2>3, <2>4
  <2>6. i \in DOMAIN s
    BY <1>1, <2>5 DEF s
  <2> QED BY <2>5, <2>6 DEF r, s
<1> QED BY <1>3, <1>4

\* Nothing was sent, offered or pending at the start.
LEMMA FreshInit == HistoryInit => FreshInv
<1> SUFFICES ASSUME HistoryInit PROVE FreshInv
  OBVIOUS
<1>1. /\ \A c \in Chans : sent[c] = <<>>
      /\ \A t \in Threads : frame[t] = UserCode
      /\ offered = 0
  BY DEF HistoryInit, RuntimeInit
<1>2. \A c \in Chans : DOMAIN sent[c] = {}
  BY <1>1
<1> QED BY <1>1, <1>2, UserCodeData DEF FreshInv, SentOnce, PendingUnsent, PendingApart, AllOffered

\* What keeps every value unique: it is in at most one frame, or has been sent.
LEMMA FreshInvariant == HistorySpec => [](HistoryInv /\ FreshInv)
<1>1. HistoryInit => HistoryInv /\ FreshInv
  BY HistoryInitInv, FreshInit
<1>2. HistoryInv /\ FreshInv /\ [HistoryNext]_historyVars => HistoryInv' /\ FreshInv'
  BY HistoryNextInv, FreshNext DEF HistoryInv
<1> QED BY <1>1, <1>2, PTL DEF HistorySpec

\* No value is received twice, on any channel, although a blocked operation is
\* run again from the start on each turn and a select may offer a value on
\* several channels.
THEOREM NothingReceivedTwice == HistorySpec => []NoDuplicates
<1>1. HistoryInv /\ FreshInv => NoDuplicates
  <2> SUFFICES ASSUME HistoryInv, FreshInv, NEW c \in Chans, NEW d \in Chans,
                      NEW i \in DOMAIN received[c], NEW j \in DOMAIN received[d],
                      received[c][i] = received[d][j]
               PROVE  c = d /\ i = j
    BY DEF NoDuplicates
  <2>1. \/ i \in DOMAIN sent[c] /\ received[c][i] = sent[c][i]
        \/ /\ i = Len(sent[c]) + 1
           /\ \E u \in Threads : Inside(u, "send", c) /\ received[c][i] \in DataOf(frame[u])
    BY ReceivedIs
  <2>2. \/ j \in DOMAIN sent[d] /\ received[d][j] = sent[d][j]
        \/ /\ j = Len(sent[d]) + 1
           /\ \E u \in Threads : Inside(u, "send", d) /\ received[d][j] \in DataOf(frame[u])
    BY ReceivedIs
  <2>3. CASE i \in DOMAIN sent[c] /\ received[c][i] = sent[c][i]
    BY <2>2, <2>3 DEF FreshInv, SentOnce, PendingUnsent
  <2>4. CASE j \in DOMAIN sent[d] /\ received[d][j] = sent[d][j]
    BY <2>1, <2>4 DEF FreshInv, SentOnce, PendingUnsent
  <2>5. ASSUME i = Len(sent[c]) + 1, j = Len(sent[d]) + 1,
               NEW u \in Threads, Inside(u, "send", c), received[c][i] \in DataOf(frame[u]),
               NEW w \in Threads, Inside(w, "send", d), received[d][j] \in DataOf(frame[w])
        PROVE  c = d /\ i = j
    <3>1. u = w
      BY <2>5 DEF FreshInv, PendingApart
    <3> QED BY <2>5, <3>1 DEF Inside
  <2> QED BY <2>1, <2>2, <2>3, <2>4, <2>5
<1> QED BY <1>1, FreshInvariant, PTL

\* A legal program is a program: what holds of all of them holds of it.
THEOREM LegalHistoriesConserve == LegalHistorySpec => [](Conservation /\ NoDuplicates)
<1>1. LegalHistorySpec => HistorySpec
  <2>1. [HistoryNext /\ LegalStep]_historyVars => [HistoryNext]_historyVars
    OBVIOUS
  <2> QED BY <2>1, PTL DEF LegalHistorySpec, HistorySpec
<1> QED BY <1>1, ValuesAreConserved, NothingReceivedTwice, PTL

-----------------------------------------------------------------------------
(* Legal programs without select: what a receive that is told "closed" knows. *)

\* A sequence is a prefix of itself and of what continues it.
LEMMA PrefixOfConcat ==
  ASSUME NEW S, NEW s \in Seq(S), NEW u \in Seq(S)
  PROVE  IsPrefix(s, s \o u)
<1>1. Len(s) \in Nat /\ Len(u) \in Nat /\ Len(s \o u) = Len(s) + Len(u)
  BY LenProperties, ConcatProperties
<1>2. s \o u \in Seq(S)
  BY ConcatProperties
<1>3. \A i \in 1 .. Len(s) : (s \o u)[i] = s[i]
  BY <1>1, ConcatProperties
<1> QED BY <1>1, <1>2, <1>3 DEF IsPrefix

\* Only a receive is told "closed", by the channel it is called on.
LEMMA ToldClosed ==
  ASSUME RuntimeInv, NoSelectFrame, RuntimeNext,
         NEW t \in Threads, NEW c \in Chans, Returns(t, c, "Closed")
  PROVE  c \in Made /\ Receive(chans[c], t).status = "Closed"
<1>1. /\ frame \in [Threads -> Frames] /\ result \in [Threads -> Results]
      /\ frame[t].op \in {"send", "receive"} /\ frame'[t] = UserCode
      /\ frame[t] # UserCode /\ result'[t].status = "Closed"
      /\ frame[t].channel = c
  BY DEF RuntimeInv, RuntimeTypeOK, NoSelectFrame, Returns, Target, UserCode
<1>2. ASSUME NEW u \in Threads, Handler(u) \/ UserStep(u)
      PROVE  c \in Made /\ Receive(chans[c], t).status = "Closed"
  <2>1. u = t
    BY <1>1, <1>2 DEF Handler, UserStep, Call, ChannelNew, ChannelSend, ChannelReceive,
           ChannelClose, ChannelSelect, SelectReady, SelectPoll, LwtSpawn, LwtYield,
           Terminate, In, Exit, Finish, Return, Block, Abort
  <2>2. ChannelSend(t) \/ ChannelReceive(t)
    BY <1>1, <1>2, <2>1 DEF Handler, UserStep, Call, ChannelNew, ChannelClose, ChannelSelect,
           SelectReady, SelectPoll, LwtSpawn, LwtYield, Terminate, In
  <2>3. ~ChannelSend(t)
    BY <1>1 DEF ChannelSend, Finish, Return, Block, Result
  <2>4. ChannelReceive(t)
    BY <2>2, <2>3
  <2>5. frame[t].op = "receive"
    BY <2>4 DEF ChannelReceive, In
  <2>6. c \in Made
    BY <1>1, <2>5 DEF RuntimeInv, FramesOK, Used
  <2>7. Return(t, Result(Receive(chans[c], t).status, 0, Receive(chans[c], t).data))
    BY <1>1, <2>4 DEF ChannelReceive, Finish, Block
  <2>8. result'[t].status = Receive(chans[c], t).status
    BY <1>1, <2>7 DEF Return, Result
  <2> QED BY <1>1, <2>6, <2>8
<1>3. ~(Loop \/ (Ended /\ UNCHANGED <<chans, frame, result>>))
  BY <1>1 DEF Loop
<1> QED BY <1>2, <1>3 DEF RuntimeNext

\* A channel that answers "closed" holds nothing, except what another receiver
\* has been handed and has not fetched yet.
LEMMA ClosedHoldsNothing ==
  ASSUME RuntimeInv, NEW c \in Made, NEW t \in Threads,
         Receive(chans[c], t).status = "Closed"
  PROVE  \/ Owed(c) = <<>>
         \/ /\ ~IsBuffered(chans[c])
            /\ chans[c].state.tag = "ReceiverReachedSenderAccepted"
            /\ chans[c].state.receiver # t
            /\ Owed(c) # <<>>
<1>1. chans[c] \in AnyChannel /\ WellFormed(chans[c])
  BY MadeType DEF RuntimeInv
<1>2. CASE IsBuffered(chans[c])
  <2>1. ~CanReceive(chans[c])
    BY <1>2 DEF Receive, ReceiveStatus, BufferedReceive
  <2>2. chans[c].size = 0
    BY <1>1, <2>1 DEF CanReceive, AnyChannel, Channel
  <2>3. Contents(chans[c]) = <<>>
    BY <1>2, <2>2 DEF Contents
  <2> QED BY <1>2, <2>3 DEF Owed
<1>3. CASE ~IsBuffered(chans[c])
  <2>1. ~Served(chans[c].state, t)
    BY <1>3 DEF Receive, ReceiveStatus, RendezvousReceive, Served
  <2>2. CASE chans[c].state.tag = "ReceiverReachedSenderAccepted"
    <3>1. Owed(c) = <<chans[c].state.data>>
      BY <1>3, <2>2 DEF Owed, Contents
    <3> QED BY <1>3, <2>1, <2>2, <3>1 DEF Served
  <2>3. CASE chans[c].state.tag # "ReceiverReachedSenderAccepted"
    BY <1>3, <2>3 DEF Owed
  <2> QED BY <2>2, <2>3
<1> QED BY <1>2, <1>3

\* In a legal program without select, "closed" is the last word of a channel:
\* whoever is told it finds every value whose send returned already received,
\* or in the hands of a goroutine that is still in its receive.
THEOREM ClosedComesLast ==
  ASSUME NoSelect
  PROVE  LegalHistorySpec => ClosedAfterDrain
<1> DEFINE Drained == \A t \in Threads, c \in Chans : Returns(t, c, "Closed") =>
       \/ IsPrefix(sent[c], received[c])
       \/ /\ ~IsBuffered(chans[c])
          /\ Owed(c) # <<>>
          /\ chans[c].state.receiver # t
          /\ Inside(chans[c].state.receiver, "receive", c)
<1>1. HistoryInv /\ LegalInv /\ [HistoryNext /\ LegalStep]_historyVars => [Drained]_historyVars
  <2> SUFFICES ASSUME HistoryInv, LegalInv, HistoryNext,
                      NEW t \in Threads, NEW c \in Chans, Returns(t, c, "Closed")
               PROVE  \/ IsPrefix(sent[c], received[c])
                      \/ /\ ~IsBuffered(chans[c])
                         /\ Owed(c) # <<>>
                         /\ chans[c].state.receiver # t
                         /\ Inside(chans[c].state.receiver, "receive", c)
    OBVIOUS
  <2>1. RuntimeInv /\ NoSelectFrame /\ ServedLive /\ RuntimeNext
    BY DEF LegalInv, HistoryNext
  <2>2. c \in Made /\ Receive(chans[c], t).status = "Closed"
    BY <2>1, ToldClosed
  <2>3. CASE Owed(c) = <<>>
    <3>1. /\ received[c] \in Seq(Payload) /\ sent[c] \in Seq(Payload)
          /\ Unacknowledged(c) \in Seq(Payload)
      BY <2>1, OwedType DEF HistoryInv, HistoryTypeOK
    <3>2. received[c] \o <<>> = received[c]
      BY <3>1, ConcatEmptySeq
    <3>3. received[c] = sent[c] \o Unacknowledged(c)
      BY <2>3, <3>2 DEF HistoryInv, Conservation
    <3>4. IsPrefix(sent[c], sent[c] \o Unacknowledged(c))
      BY <3>1, PrefixOfConcat
    <3> QED BY <3>3, <3>4
  <2>4. CASE Owed(c) # <<>>
    BY <2>1, <2>2, <2>4, ClosedHoldsNothing DEF ServedLive
  <2> QED BY <2>3, <2>4
<1>2. HistoryInit => LegalInv
  BY LegalInitInv DEF HistoryInit
<1>3. LegalInv /\ [HistoryNext /\ LegalStep]_historyVars => LegalInv'
  <2>1. [HistoryNext /\ LegalStep]_historyVars => [RuntimeNext /\ LegalStep]_vars
    BY DEF HistoryNext, historyVars
  <2> QED BY <2>1, LegalNextInv
<1>4. LegalHistorySpec => HistorySpec
  <2>1. [HistoryNext /\ LegalStep]_historyVars => [HistoryNext]_historyVars
    OBVIOUS
  <2> QED BY <2>1, PTL DEF LegalHistorySpec, HistorySpec
<1>5. (HistoryInit /\ [][HistoryNext /\ LegalStep]_historyVars) => []LegalInv
  BY <1>2, <1>3, PTL
<1>6. HistorySpec => []HistoryInv
  BY HistoryInvariant
<1>7. LegalHistorySpec => [][Drained]_historyVars
  BY <1>1, <1>4, <1>5, <1>6, PTL DEF LegalHistorySpec
<1> QED BY <1>7 DEF ClosedAfterDrain
=============================================================================
