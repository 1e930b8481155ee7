------------------------------ MODULE Metadata ------------------------------
(***************************************************************************)
(* What a virtual host knows (MQServer/VirtualHost.hpp over Exchange.hpp,  *)
(* Queue.hpp, Binding.hpp): exchanges, queues and bindings, each a map in  *)
(* memory and a table of its durable part, and a message handle for each   *)
(* queue.  A request is a sequence of calls to the managers, each with one *)
(* SQL statement of its own; the process may be killed between any two,    *)
(* and no transaction covers them.                                         *)
(*                                                                         *)
(* Requests come from one thread, the event loop.  Of the messages only    *)
(* which queues hold some matters here: MessageStore is about the rest.    *)
(***************************************************************************)
EXTENDS Route

CONSTANTS
  Exchanges, Queues, \* the names
  Types,             \* the exchange types in use
  Keys,              \* routing and binding keys
  None,              \* no entry, no row
  MayFail            \* the SQL statements that may fail

Statements == {"insert exchange", "insert queue", "insert binding",
               "delete exchange", "delete queue", "delete binding"}

ASSUME MetadataAssumption ==
  /\ Types \subseteq ExchangeTypes
  /\ MayFail \subseteq Statements
  /\ None \notin Keys /\ None \notin BOOLEAN
  /\ None \notin [type : Types, durable : BOOLEAN]
  /\ None \notin [Queues -> Keys \cup {None}]

VARIABLES
  exchanges,      \* _exchanges: type and _durable of each, or None
  queues,         \* _queues: _durable of each, or None
  bindings,       \* _exchange_queue_map: the queues of an exchange, or None
  handles,        \* _queue_msgs: the queues with a QueueMessage
  held,           \* the queues whose QueueMessage holds messages
  exchange_table, queue_table, binding_table, \* the database
  data,           \* the queues with messages in their data files
  request,        \* what is left of the request being handled
  asked,          \* history: the bindings clients made, until they or a restart undo them
  fed             \* history: the queues published to, until they or their messages go

memory == <<exchanges, queues, bindings, handles, held>>
disk == <<exchange_table, queue_table, binding_table, data>>
vars == <<memory, disk, request, asked, fed>>

Idle == [step |-> "idle"]
Row == [exchange : Exchanges, queue : Queues, key : Keys]

Durable(x) == exchanges[x] # None /\ exchanges[x].durable

\* The binding key of a queue at an exchange, or None.
BoundKey(x, q) == IF bindings[x] = None THEN None ELSE bindings[x][q]

\* A delete statement whose result nobody looks at.
Deletes(table, rest, statement) ==
  table' = rest \/ (statement \in MayFail /\ table' = table)

Init ==
  /\ exchanges = [x \in Exchanges |-> None] /\ exchange_table = exchanges
  /\ queues = [q \in Queues |-> None] /\ queue_table = queues
  /\ bindings = [x \in Exchanges |-> None] /\ binding_table = {}
  /\ handles = {} /\ held = {} /\ data = {}
  /\ request = Idle /\ asked = {} /\ fed = {}

-----------------------------------------------------------------------------
(* Exchanges. *)

\* Faulty variant: the result of the insert is not looked at.
DeclareExchangeRegardless(x, type, durable) ==
  /\ request = Idle /\ exchanges[x] = None
  /\ LET exchange == [type |-> type, durable |-> durable] IN
       /\ exchanges' = [exchanges EXCEPT ![x] = exchange]
       /\ exchange_table' \in {exchange_table, [exchange_table EXCEPT ![x] = exchange]}
       /\ ~durable => exchange_table' = exchange_table
  /\ UNCHANGED <<queues, bindings, handles, held, queue_table, binding_table, data,
                 request, asked, fed>>

\* declareExchange(): an exchange that is durable is inserted in the table first,
\* and in memory when that worked; the name is the primary key.  If the
\* exchange exists nothing changes and the answer is ok.
DeclareExchange(x, type, durable) ==
  /\ request = Idle /\ exchanges[x] = None
  /\ LET exchange == [type |-> type, durable |-> durable] IN
       \/ /\ durable => exchange_table[x] = None
          /\ exchanges' = [exchanges EXCEPT ![x] = exchange]
          /\ exchange_table' = IF durable THEN [exchange_table EXCEPT ![x] = exchange]
                                          ELSE exchange_table
       \/ /\ durable
          /\ exchange_table[x] # None \/ "insert exchange" \in MayFail
          /\ UNCHANGED <<exchanges, exchange_table>>
  /\ UNCHANGED <<queues, bindings, handles, held, queue_table, binding_table, data,
                 request, asked, fed>>

\* deleteExchange(): its bindings first ...
UnbindByExchange(x) ==
  /\ request = Idle
  /\ request' = [step |-> "delete exchange", exchange |-> x]
  /\ \/ bindings[x] = None /\ UNCHANGED <<bindings, binding_table>>
     \/ /\ bindings[x] # None
        /\ bindings' = [bindings EXCEPT ![x] = None]
        /\ Deletes(binding_table, {row \in binding_table : row.exchange # x}, "delete binding")
  /\ UNCHANGED <<exchanges, queues, handles, held, exchange_table, queue_table, data, asked, fed>>

\* ... and then the exchange.
DeleteExchange(x) ==
  /\ request = [step |-> "delete exchange", exchange |-> x]
  /\ request' = Idle
  /\ exchanges' = [exchanges EXCEPT ![x] = None]
  /\ IF Durable(x)
     THEN Deletes(exchange_table, [exchange_table EXCEPT ![x] = None], "delete exchange")
     ELSE UNCHANGED exchange_table
  /\ asked' = {row \in asked : row.exchange # x}
  /\ UNCHANGED <<queues, bindings, handles, held, queue_table, binding_table, data, fed>>

-----------------------------------------------------------------------------
(* Queues. *)

\* declareQueue(): the message handle first, which recovers the data file ...
InitQueueMessage(q, durable) ==
  /\ request = Idle
  /\ request' = [step |-> "declare queue", queue |-> q, durable |-> durable]
  /\ handles' = handles \cup {q}
  /\ held' = IF q \in handles THEN held ELSE held \cup ({q} \cap data)
  /\ UNCHANGED <<exchanges, queues, bindings, disk, asked, fed>>

\* ... and then the queue, as an exchange.  When the insert fails the handle
\* stays.
DeclareQueue(q, durable) ==
  /\ request = [step |-> "declare queue", queue |-> q, durable |-> durable]
  /\ request' = Idle
  /\ \/ queues[q] # None /\ UNCHANGED <<queues, queue_table>>
     \/ /\ queues[q] = None
        /\ durable => queue_table[q] = None
        /\ queues' = [queues EXCEPT ![q] = durable]
        /\ queue_table' = IF durable THEN [queue_table EXCEPT ![q] = TRUE] ELSE queue_table
     \/ /\ queues[q] = None /\ durable
        /\ queue_table[q] # None \/ "insert queue" \in MayFail
        /\ UNCHANGED <<queues, queue_table>>
  /\ UNCHANGED <<exchanges, bindings, handles, held, exchange_table, binding_table, data, asked, fed>>

\* Faulty variant: the messages are left where they are.
KeepQueueMessage(q) ==
  /\ request = Idle
  /\ request' = [step |-> "unbind queue", queue |-> q]
  /\ handles' = handles \ {q} /\ held' = held \ {q}
  /\ UNCHANGED <<exchanges, queues, bindings, exchange_table, queue_table, binding_table,
                 data, asked, fed>>

\* deleteQueue(): the messages first ...
DestroyQueueMessage(q) ==
  /\ request = Idle
  /\ request' = [step |-> "unbind queue", queue |-> q]
  /\ handles' = handles \ {q} /\ held' = held \ {q}
  /\ data' = IF q \in handles THEN data \ {q} ELSE data
  /\ UNCHANGED <<exchanges, queues, bindings, exchange_table, queue_table, binding_table,
                 asked, fed>>

\* Faulty variant: only the map forgets the bindings.
UnbindInMemory(q) ==
  /\ request = [step |-> "unbind queue", queue |-> q]
  /\ request' = [step |-> "delete queue", queue |-> q]
  /\ bindings' = [x \in Exchanges |->
       IF bindings[x] = None THEN None ELSE [bindings[x] EXCEPT ![q] = None]]
  /\ UNCHANGED <<exchanges, queues, handles, held, disk, asked, fed>>

\* ... then its bindings, with one statement per exchange that has an entry in
\* the map: with none the table is not touched ...
UnbindByQueue(q) ==
  /\ request = [step |-> "unbind queue", queue |-> q]
  /\ request' = [step |-> "delete queue", queue |-> q]
  /\ bindings' = [x \in Exchanges |->
       IF bindings[x] = None THEN None ELSE [bindings[x] EXCEPT ![q] = None]]
  /\ IF \E x \in Exchanges : bindings[x] # None
     THEN Deletes(binding_table, {row \in binding_table : row.queue # q}, "delete binding")
     ELSE UNCHANGED binding_table
  /\ UNCHANGED <<exchanges, queues, handles, held, exchange_table, queue_table, data, asked, fed>>

\* ... and then the queue.
DeleteQueue(q) ==
  /\ request = [step |-> "delete queue", queue |-> q]
  /\ request' = Idle
  /\ queues' = [queues EXCEPT ![q] = None]
  /\ IF queues[q] = TRUE
     THEN Deletes(queue_table, [queue_table EXCEPT ![q] = None], "delete queue")
     ELSE UNCHANGED queue_table
  /\ asked' = {row \in asked : row.queue # q}
  /\ fed' = fed \ {q}
  /\ UNCHANGED <<exchanges, bindings, handles, held, exchange_table, binding_table, data>>

-----------------------------------------------------------------------------
(* Bindings. *)

Entry(x) == IF bindings[x] = None THEN [p \in Queues |-> None] ELSE bindings[x]

\* Faulty variant: the durability of the queue is not asked for.
BindAsExchange(x, q, key) ==
  /\ request = Idle /\ exchanges[x] # None /\ queues[q] # None /\ BoundKey(x, q) = None
  /\ bindings' = [bindings EXCEPT ![x] = [Entry(x) EXCEPT ![q] = key]]
  /\ binding_table' =
       IF exchanges[x].durable
       THEN binding_table \cup {[exchange |-> x, queue |-> q, key |-> key]} ELSE binding_table
  /\ asked' = asked \cup {[exchange |-> x, queue |-> q, key |-> key]}
  /\ UNCHANGED <<exchanges, queues, handles, held, exchange_table, queue_table, data,
                 request, fed>>

\* bind(): the exchange and the queue must exist; a second binding of the two
\* is answered ok and keeps the first key.  The row is inserted when both ends
\* are durable, and the result is not looked at.
Bind(x, q, key) ==
  /\ request = Idle /\ exchanges[x] # None /\ queues[q] # None /\ BoundKey(x, q) = None
  /\ LET row == [exchange |-> x, queue |-> q, key |-> key] IN
       /\ bindings' = [bindings EXCEPT ![x] = [Entry(x) EXCEPT ![q] = key]]
       /\ \/ exchanges[x].durable /\ queues[q] /\ binding_table' = binding_table \cup {row}
          \/ /\ exchanges[x].durable /\ queues[q] => "insert binding" \in MayFail
             /\ UNCHANGED binding_table
       /\ asked' = asked \cup {row}
  /\ UNCHANGED <<exchanges, queues, handles, held, exchange_table, queue_table, data,
                 request, fed>>

\* unbind(): the entry of the exchange stays, even when it is empty.
Unbind(x, q) ==
  /\ request = Idle /\ BoundKey(x, q) # None
  /\ bindings' = [bindings EXCEPT ![x][q] = None]
  /\ Deletes(binding_table, {row \in binding_table : row.exchange # x \/ row.queue # q},
             "delete binding")
  /\ asked' = {row \in asked : row.exchange # x \/ row.queue # q}
  /\ UNCHANGED <<exchanges, queues, handles, held, exchange_table, queue_table, data,
                 request, fed>>

-----------------------------------------------------------------------------
(* Publishing (Channel::basicPublish over VirtualHost::basicPublish). *)

Routed(x, routing_key) ==
  {q \in Queues : /\ BoundKey(x, q) # None
                  /\ Routes(exchanges[x].type, routing_key, BoundKey(x, q))}

\* The queues are worked out from the bindings of the exchange.
Publish(x, routing_key, persistent) ==
  /\ request = Idle /\ exchanges[x] # None
  /\ Routed(x, routing_key) # {}
  /\ request' = [step |-> "publish", to |-> Routed(x, routing_key), persistent |-> persistent]
  /\ UNCHANGED <<memory, disk, asked, fed>>

\* Faulty variant: the loop over the queues is not left.
InsertMessageForEver(q) ==
  /\ request.step = "publish" /\ q \in request.to
  /\ request' = [request EXCEPT !.to = @ \ {q}]
  /\ held' = held \cup {q} /\ fed' = fed \cup {q}
  /\ UNCHANGED <<exchanges, queues, bindings, handles, disk, asked>>

\* One of them gets the message, in the order of a hash map; a queue that does
\* not exist or has no handle is passed over.  A message is durable if the
\* client says so and the queue is.
InsertMessage(q) ==
  /\ request.step = "publish" /\ q \in request.to
  /\ request' = IF request.to = {q} THEN Idle ELSE [request EXCEPT !.to = @ \ {q}]
  /\ \/ /\ queues[q] # None /\ q \in handles
        /\ held' = held \cup {q}
        /\ data' = IF request.persistent /\ queues[q] THEN data \cup {q} ELSE data
        /\ fed' = fed \cup {q}
     \/ /\ queues[q] = None \/ q \notin handles
        /\ UNCHANGED <<held, data, fed>>
  /\ UNCHANGED <<exchanges, queues, bindings, handles, exchange_table, queue_table,
                 binding_table, asked>>

-----------------------------------------------------------------------------
(* The process is killed, at any time, and starts again. *)

\* What recover() may make of the rows of an exchange: of several rows for one
\* queue the first that is read counts, and the select names no order.
Found(x, q) == {row.key : row \in {r \in binding_table : r.exchange = x /\ r.queue = q}}
Recovered(x) ==
  IF \A q \in Queues : Found(x, q) = {} THEN {None}
  ELSE {keys \in [Queues -> Keys \cup {None}] :
          \A q \in Queues : keys[q] \in Found(x, q) \/ (Found(x, q) = {} /\ keys[q] = None)}

\* The constructors of the managers read their tables, and each queue found
\* gets its handle with the messages of its data file.
Restart ==
  /\ exchanges' = exchange_table
  /\ queues' = queue_table
  /\ bindings' \in {b \in [Exchanges -> UNION {Recovered(x) : x \in Exchanges}] :
                      \A x \in Exchanges : b[x] \in Recovered(x)}
  /\ handles' = {q \in Queues : queue_table[q] # None}
  /\ held' = handles' \cap data
  /\ request' = Idle
  /\ asked' = {row \in asked : Durable(row.exchange) /\ queues[row.queue] = TRUE}
  /\ fed' = fed \cap data
  /\ UNCHANGED disk

ExchangeRequest(x) ==
  \/ \E type \in Types, durable \in BOOLEAN : DeclareExchange(x, type, durable)
  \/ UnbindByExchange(x) \/ DeleteExchange(x)
  \/ \E key \in Keys, persistent \in BOOLEAN : Publish(x, key, persistent)

QueueRequest(q) ==
  \/ \E durable \in BOOLEAN : InitQueueMessage(q, durable) \/ DeclareQueue(q, durable)
  \/ DestroyQueueMessage(q) \/ UnbindByQueue(q) \/ DeleteQueue(q)
  \/ InsertMessage(q)

BindingRequest(x, q) == Unbind(x, q) \/ \E key \in Keys : Bind(x, q, key)

Next ==
  \/ \E x \in Exchanges : ExchangeRequest(x)
  \/ \E q \in Queues : QueueRequest(q)
  \/ \E x \in Exchanges, q \in Queues : BindingRequest(x, q)
  \/ Restart

Spec == Init /\ [][Next]_vars

-----------------------------------------------------------------------------
Exchange == [type : Types, durable : BOOLEAN]
Request ==
  {Idle}
  \cup [step : {"delete exchange"}, exchange : Exchanges]
  \cup [step : {"declare queue"}, queue : Queues, durable : BOOLEAN]
  \cup [step : {"unbind queue", "delete queue"}, queue : Queues]
  \cup [step : {"publish"}, to : (SUBSET Queues) \ {{}}, persistent : BOOLEAN]

TypeOK ==
  /\ exchanges \in [Exchanges -> Exchange \cup {None}]
  /\ exchange_table \in [Exchanges -> Exchange \cup {None}]
  /\ queues \in [Queues -> BOOLEAN \cup {None}]
  /\ queue_table \in [Queues -> BOOLEAN \cup {None}]
  /\ bindings \in [Exchanges -> [Queues -> Keys \cup {None}] \cup {None}]
  /\ binding_table \subseteq Row
  /\ handles \subseteq Queues /\ held \subseteq handles /\ data \subseteq Queues
  /\ request \in Request
  /\ asked \subseteq Row /\ fed \subseteq Queues

\* A binding is between an exchange and a queue that exist, whatever the
\* interleaving of deletions, declarations and kills; and between requests its
\* queue has a message handle, so a message that is routed is stored and not
\* dropped without a word (VirtualHost.hpp:44-49, :73-79, :91-107).
BindingsResolve ==
  \A x \in Exchanges, q \in Queues : BoundKey(x, q) # None =>
    /\ exchanges[x] # None
    /\ queues[q] # None
    /\ request.step \in {"idle", "publish"} => q \in handles

\* Nothing is bound that no client bound since the exchange and the queue were
\* declared, and with no other key: a name that is declared again, or a
\* restart, brings back no binding (Binding.hpp:193-235).
OnlyAskedBindings ==
  \A x \in Exchanges, q \in Queues : BoundKey(x, q) # None =>
    [exchange |-> x, queue |-> q, key |-> BoundKey(x, q)] \in asked

\* A queue that is declared again does not get the messages of the one before
\* it, not from its file either (VirtualHost.hpp:73-79).
OnlyFedQueuesHold == held \cup data \subseteq fed

\* After a restart there is what was declared durable and not deleted, with its
\* attributes, the bindings of it with their keys, and the messages; nothing else
\* (Exchange.hpp:130-160, Queue.hpp:186-236, Binding.hpp:162-191).
RestartKeepsTheDurable ==
  [][Restart =>
       /\ \A x \in Exchanges : exchanges'[x] = IF Durable(x) THEN exchanges[x] ELSE None
       /\ \A q \in Queues : queues'[q] = IF queues[q] = TRUE THEN TRUE ELSE None
       /\ \A x \in Exchanges, q \in Queues :
            BoundKey(x, q)' =
              IF Durable(x) /\ queues[q] = TRUE THEN BoundKey(x, q) ELSE None
       /\ held' = held \cap data]_vars

-----------------------------------------------------------------------------
(* The virtual host seen without its tables. *)

Host == INSTANCE DurableHost WITH
  bound <- {row \in Row : BoundKey(row.exchange, row.queue) = row.key}

\* Every call of a manager, and every kill between two of them, is one step of
\* a virtual host whose restart keeps exactly what is durable, or changes
\* nothing that can be seen (VirtualHost.hpp:22-111).
ImplementsHost == Host!Spec
=============================================================================
