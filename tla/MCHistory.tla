------------------------------ MODULE MCHistory -------------------------------
(***************************************************************************)
(* The programs TLC runs the channel runtime with its history for.          *)
(***************************************************************************)
EXTENDS ChannelHistory, ChannelRefinement

CONSTANT c1

OneChan == {c1}
Values5 == 1 .. 5

PlainOps(c) == {SendFrame(c, d) : d \in Payload} \cup {ReceiveFrame(c), CloseFrame(c)}

\* One channel, unbuffered or with two slots; plain sends, receives, closes.
PlainProgram ==
  {NewFrame(c1, 0), NewFrame(c1, 2), SpawnFrame, YieldFrame} \cup PlainOps(c1)
=============================================================================
