------------------------------- MODULE MCRounds -------------------------------
(***************************************************************************)
(* The user program TLC runs the channel runtime with its rounds for: all   *)
(* there is to do with one channel.                                        *)
(***************************************************************************)
EXTENDS ChannelRounds, ChannelRefinement

CONSTANTS c1, v, w

OneChan   == {c1}
TwoValues == {v, w}

\* Unbuffered or with two slots; plain operations, and selects that block, in
\* one direction and in both.
RoundsProgram ==
  {NewFrame(c1, 0), NewFrame(c1, 2), SpawnFrame, YieldFrame, ReceiveFrame(c1), CloseFrame(c1)}
    \cup {SendFrame(c1, d) : d \in Payload}
    \cup {SelectFrame(es, TRUE) :
            es \in {<<ReceiveEntry(c1)>>, <<ReceiveEntry(c1), SendEntry(c1, v)>>}}
=============================================================================
