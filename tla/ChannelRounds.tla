---------------------------- MODULE ChannelRounds -----------------------------
(***************************************************************************)
(* The runtime with a history of rounds, to say whether senders and        *)
(* receivers can keep missing each other.  A round of a channel lasts from *)
(* one operation that gets through it to the next; turnedAway[c] is the    *)
(* kinds of operation that blocked on c in the present round.              *)
(***************************************************************************)
EXTENDS ChannelSafety

VARIABLE turnedAway

roundVars == <<vars, turnedAway>>

\* A value or the news of one gets through c: to or from a select as well.
GetsThrough(c) ==
  \E t \in Threads : t = running /\ (Returns(t, c, "Sent") \/ Returns(t, c, "Value"))

\* The running goroutine gives up its turn inside operation op on c.
Blocked(op, c) ==
  \E t \in Threads : MayStep(t) /\ Inside(t, op, c) /\ t \in suspended'

RoundsInit == RuntimeInit /\ turnedAway = [c \in Chans |-> {}]

RoundsNext ==
  /\ RuntimeNext
  /\ turnedAway' = [c \in Chans |->
       IF GetsThrough(c) THEN {}
       ELSE turnedAway[c] \cup {op \in {"send", "receive"} : Blocked(op, c)}]

RoundsSpec == RoundsInit /\ [][RoundsNext]_roundVars

\* No lost meeting: if a send blocked on a channel and then a receive blocks on
\* it, or the other way round, something got through in between, or somebody
\* has just accepted and the channel waits for the partner to be told.  A
\* blocked operation is only ever issued again (lib.rs:261-270), so this is
\* what keeps senders and receivers from missing each other for ever: each
\* leaves the next of the other kind something to find.
OneSideWaits ==
  \A c \in Chans : turnedAway[c] = {"send", "receive"} => Handing(c)
=============================================================================
