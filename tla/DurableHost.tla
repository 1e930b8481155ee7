----------------------------- MODULE DurableHost -----------------------------
(***************************************************************************)
(* What a virtual host promises: exchanges, queues and bindings between    *)
(* them, of which a restart keeps the durable ones and nothing else.  No   *)
(* database, no managers and no half done request.  An exchange or a queue *)
(* goes only when nothing is bound to it any more.                         *)
(***************************************************************************)
CONSTANTS Exchanges, Queues, Types, Keys, None

VARIABLES
  exchanges, \* type and durable of each, or None
  queues,    \* durable or not, or None
  bound      \* the bindings: [exchange, queue, key]

vars == <<exchanges, queues, bound>>

Init ==
  /\ exchanges = [x \in Exchanges |-> None]
  /\ queues = [q \in Queues |-> None]
  /\ bound = {}

DeclareExchange(x) ==
  /\ exchanges[x] = None
  /\ \E type \in Types, durable \in BOOLEAN :
       exchanges' = [exchanges EXCEPT ![x] = [type |-> type, durable |-> durable]]
  /\ UNCHANGED <<queues, bound>>

DeclareQueue(q) ==
  /\ queues[q] = None
  /\ \E durable \in BOOLEAN : queues' = [queues EXCEPT ![q] = durable]
  /\ UNCHANGED <<exchanges, bound>>

DeleteExchange(x) ==
  /\ \A b \in bound : b.exchange # x
  /\ exchanges' = [exchanges EXCEPT ![x] = None]
  /\ UNCHANGED <<queues, bound>>

DeleteQueue(q) ==
  /\ \A b \in bound : b.queue # q
  /\ queues' = [queues EXCEPT ![q] = None]
  /\ UNCHANGED <<exchanges, bound>>

\* One binding for an exchange and a queue that exist, until it is undone.
Bind(x, q, key) ==
  /\ exchanges[x] # None /\ queues[q] # None
  /\ \A b \in bound : b.exchange # x \/ b.queue # q
  /\ bound' = bound \cup {[exchange |-> x, queue |-> q, key |-> key]}
  /\ UNCHANGED <<exchanges, queues>>

Unbind(x, q) ==
  /\ bound' = {b \in bound : b.exchange # x \/ b.queue # q}
  /\ UNCHANGED <<exchanges, queues>>

UnbindExchange(x) ==
  /\ bound' = {b \in bound : b.exchange # x}
  /\ UNCHANGED <<exchanges, queues>>

UnbindQueue(q) ==
  /\ bound' = {b \in bound : b.queue # q}
  /\ UNCHANGED <<exchanges, queues>>

DurableExchange(x) == exchanges[x] # None /\ exchanges[x].durable

Restart ==
  /\ exchanges' = [x \in Exchanges |-> IF DurableExchange(x) THEN exchanges[x] ELSE None]
  /\ queues' = [q \in Queues |-> IF queues[q] = TRUE THEN TRUE ELSE None]
  /\ bound' = {b \in bound : DurableExchange(b.exchange) /\ queues[b.queue] = TRUE}

Next ==
  \/ \E x \in Exchanges : DeclareExchange(x) \/ DeleteExchange(x) \/ UnbindExchange(x)
  \/ \E q \in Queues : DeclareQueue(q) \/ DeleteQueue(q) \/ UnbindQueue(q)
  \/ \E x \in Exchanges, q \in Queues : Unbind(x, q) \/ \E key \in Keys : Bind(x, q, key)
  \/ Restart

Spec == Init /\ [][Next]_vars
=============================================================================
