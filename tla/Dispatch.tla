------------------------------- MODULE Dispatch -------------------------------
(***************************************************************************)
(* What the broker promises between the queue and its consumers while the  *)
(* server runs: the queue is that of AtLeastOnceQueue, and each message    *)
(* delivered from it is sent to one consumer at most, one that was         *)
(* registered when the message was assigned to it.  There are no workers,  *)
(* tasks or channels here.  The order in which messages leave the queue is *)
(* promised, the order in which they are sent is not, nor that a message   *)
(* nobody consumes is ever assigned again.                                 *)
(***************************************************************************)
EXTENDS AtLeastOnceQueue

CONSTANT Consumers \* records with a tag and what else tells consumers apart

VARIABLES
  consuming, \* the registered consumers, no two with one tag
  assigned,  \* messages on their way to a consumer: [msg, to]
  sent       \* messages that were sent

dispatchVars == <<vars, consuming, assigned, sent>>

DispatchInit ==
  /\ Resumed
  /\ consuming = {} /\ assigned = {} /\ sent = {}

\* The queue's own steps; only what was sent is acknowledged.
QueueStep ==
  /\ \/ \E m \in Msgs : Accept(m) \/ Deliver(m)
     \/ \E m \in sent : Settle(m)
     \/ Delete
  /\ UNCHANGED <<consuming, assigned, sent>>

Register(c) ==
  /\ \A d \in consuming : d.tag # c.tag
  /\ consuming' = consuming \cup {c}
  /\ UNCHANGED <<vars, assigned, sent>>

\* A consumer that cancels or whose channel is closed, by its tag.
Remove(tag) ==
  /\ consuming' = {d \in consuming : d.tag # tag}
  /\ UNCHANGED <<vars, assigned, sent>>

RemoveAll ==
  /\ consuming' = {}
  /\ UNCHANGED <<vars, assigned, sent>>

\* A delivered message is assigned while it may have been settled already, as
\* its queue may have been deleted.
Assign(m, c) ==
  /\ m \in Accepted \ Waiting
  /\ m \notin sent /\ \A a \in assigned : a.msg # m
  /\ assigned' = assigned \cup {[msg |-> m, to |-> c]}
  /\ UNCHANGED <<vars, consuming, sent>>

Send(a) ==
  /\ a.msg \notin sent
  /\ assigned' = assigned \ {a}
  /\ sent' = sent \cup {a.msg}
  /\ UNCHANGED <<vars, consuming>>

DispatchNext ==
  \/ QueueStep
  \/ \E c \in Consumers : Register(c) \/ Remove(c.tag)
  \/ RemoveAll
  \/ \E m \in Msgs, c \in consuming : Assign(m, c)
  \/ \E a \in assigned : Send(a)

DispatchSpec == DispatchInit /\ [][DispatchNext]_dispatchVars
=============================================================================
