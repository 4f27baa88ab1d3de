--------------------------- MODULE AbstractChannel ----------------------------
(***************************************************************************)
(* What one channel of the runtime promises, with the ring buffer and the  *)
(* rendezvous cell forgotten: a queue of at most `slots` values, oldest     *)
(* taken first, and a flag that is raised once.  A rendezvous cell holds at *)
(* most one value, either offered by a sender or owed to a receiver.       *)
(***************************************************************************)
EXTENDS Naturals, Sequences

CONSTANT Values

VARIABLES queue, slots, closed

channelVars == <<queue, slots, closed>>

ChannelInit == queue = <<>> /\ slots = 0 /\ closed = FALSE

\* `make` fixes the number of slots, once.
Make == slots = 0 /\ slots' \in Nat \ {0} /\ UNCHANGED <<queue, closed>>

Put(v) ==
  /\ Len(queue) < slots
  /\ queue' = Append(queue, v)
  /\ UNCHANGED <<slots, closed>>

Take == queue # <<>> /\ queue' = Tail(queue) /\ UNCHANGED <<slots, closed>>

CloseIt == slots > 0 /\ ~closed /\ closed' = TRUE /\ UNCHANGED <<queue, slots>>

ChannelNext ==
  \/ Make
  \/ \E v \in Values : Put(v)
  \/ Take
  \/ CloseIt

ChannelSpec == ChannelInit /\ [][ChannelNext]_channelVars
=============================================================================
