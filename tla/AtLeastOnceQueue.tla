--------------------------- MODULE AtLeastOnceQueue ---------------------------
(***************************************************************************)
(* What a message queue of the broker promises its publishers and          *)
(* consumers, without files, offsets or counters.  Messages are delivered  *)
(* oldest first; a delivered message stays in flight until it is           *)
(* acknowledged; a restart puts the persistent messages that were in       *)
(* flight back in their old places and forgets the others.                 *)
(***************************************************************************)
EXTENDS Naturals

CONSTANTS
  Msgs,      \* the messages publishers may send
  Persistent \* those that must survive a restart

VARIABLES
  clock,    \* the number of messages accepted so far
  stamp,    \* 0, or the clock when the message was accepted
  settled,  \* acknowledged, deleted with the queue, or lost as not persistent
  inflight  \* delivered and not settled

vars == <<clock, stamp, settled, inflight>>

Accepted == {m \in Msgs : stamp[m] > 0}
Waiting == Accepted \ (settled \cup inflight)

Init ==
  /\ clock = 0 /\ stamp = [m \in Msgs |-> 0]
  /\ settled = {} /\ inflight = {}

Accept(m) ==
  /\ stamp[m] = 0
  /\ clock' = clock + 1
  /\ stamp' = [stamp EXCEPT ![m] = clock + 1]
  /\ UNCHANGED <<settled, inflight>>

Deliver(m) ==
  /\ m \in Waiting
  /\ \A n \in Waiting : stamp[m] <= stamp[n]
  /\ inflight' = inflight \cup {m}
  /\ UNCHANGED <<clock, stamp, settled>>

Settle(m) ==
  /\ m \in inflight
  /\ settled' = settled \cup {m}
  /\ inflight' = inflight \ {m}
  /\ UNCHANGED <<clock, stamp>>

Delete ==
  /\ settled' = settled \cup Accepted
  /\ inflight' = {}
  /\ UNCHANGED <<clock, stamp>>

Restart ==
  /\ settled' = settled \cup (Accepted \ Persistent)
  /\ inflight' = {}
  /\ UNCHANGED <<clock, stamp>>

Next ==
  \/ \E m \in Msgs : Accept(m) \/ Deliver(m) \/ Settle(m)
  \/ Delete
  \/ Restart

Spec == Init /\ [][Next]_vars

\* A server that has just started has the messages the last one left.
Resumed ==
  /\ clock \in Nat /\ stamp \in [Msgs -> 0..clock]
  /\ \A m, n \in Accepted : stamp[m] = stamp[n] => m = n
  /\ settled = {} /\ inflight = {}

ResumedSpec == Resumed /\ [][Next]_vars
=============================================================================
