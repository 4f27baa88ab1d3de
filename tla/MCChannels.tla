------------------------------ MODULE MCChannels ------------------------------
(***************************************************************************)
(* The user programs TLC runs the channel runtime with: sets of calls any   *)
(* goroutine may issue in any order.                                       *)
(***************************************************************************)
EXTENDS ChannelRefinement

CONSTANTS c1, c2, v

OneChan  == {c1}
TwoChans == {c1, c2}
OneValue == {v}

PlainOps(c) == {SendFrame(c, d) : d \in Payload} \cup {ReceiveFrame(c), CloseFrame(c)}

\* An unbuffered and a one-slot channel, plain operations on both and selects
\* over both, with and without default, in both directions and both orders.
Selects ==
  {SelectFrame(es, b) : b \in BOOLEAN,
     es \in {<<ReceiveEntry(c1), ReceiveEntry(c2)>>,
             <<ReceiveEntry(c2), SendEntry(c1, v)>>,
             <<SendEntry(c1, v), ReceiveEntry(c1), ReceiveEntry(c2)>>,
             <<ReceiveEntry(c1), SendEntry(c2, v)>>}}

SelectProgram ==
  {NewFrame(c1, 0), NewFrame(c2, 1), SpawnFrame, YieldFrame}
    \cup PlainOps(c1) \cup PlainOps(c2) \cup Selects

\* Plain sends and receives that nobody interrupts with a close.
HandoffProgram ==
  {NewFrame(c1, 0), SpawnFrame, ReceiveFrame(c1)} \cup {SendFrame(c1, d) : d \in Payload}

\* The select of xtests/channel.go Test13, issued while c2 is still open; the
\* other goroutine closes c2.  Nobody else uses c1.
SelfProgram ==
  {NewFrame(c1, 0), NewFrame(c2, 0), SpawnFrame, YieldFrame, CloseFrame(c2),
   SelectFrame(<<SendEntry(c1, v), ReceiveEntry(c1), ReceiveEntry(c2)>>, TRUE)}
=============================================================================
