------------------------------- MODULE Handoff --------------------------------
(***************************************************************************)
(* An unbuffered channel as Go programs see it: sending and receiving are   *)
(* synchronous.  One atomic step ends one pending send and one pending      *)
(* receive together and moves the value from the first to the second;       *)
(* neither ever ends alone, except that a receive on a closed channel ends  *)
(* with "closed".                                                          *)
(***************************************************************************)
EXTENDS Naturals

CONSTANTS Workers, Values

VARIABLES call, closed

handoffVars == <<call, closed>>

Idle       == [at |-> "idle"]
Sending(v) == [at |-> "sending", value |-> v]
Receiving  == [at |-> "receiving"]
HasSent    == [at |-> "sent"]
Got(v)     == [at |-> "got", value |-> v]
ToldClosed == [at |-> "closed"]

Pending(w) == call[w].at \in {"sending", "receiving"}

HandoffInit == call = [w \in Workers |-> Idle] /\ closed = FALSE

\* A worker that is not in the middle of an operation starts one, or leaves.
Begin(w) ==
  /\ ~Pending(w)
  /\ \/ \E v \in Values : call' = [call EXCEPT ![w] = Sending(v)]
     \/ call' = [call EXCEPT ![w] = Receiving]
     \/ call' = [call EXCEPT ![w] = Idle]
  /\ UNCHANGED closed

Rendezvous(s, r) ==
  /\ call[s].at = "sending"
  /\ call[r].at = "receiving"
  /\ call' = [call EXCEPT ![s] = HasSent, ![r] = Got(call[s].value)]
  /\ UNCHANGED closed

Closing == ~closed /\ closed' = TRUE /\ UNCHANGED call

ReceiveClosed(r) ==
  /\ closed
  /\ call[r].at = "receiving"
  /\ call' = [call EXCEPT ![r] = ToldClosed]
  /\ UNCHANGED closed

HandoffNext ==
  \/ \E w \in Workers : Begin(w) \/ ReceiveClosed(w)
  \/ \E s, r \in Workers : Rendezvous(s, r)
  \/ Closing

HandoffSpec == HandoffInit /\ [][HandoffNext]_handoffVars
=============================================================================
