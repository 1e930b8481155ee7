--------------------------- MODULE MetadataProofs ---------------------------
(***************************************************************************)
(* Proofs about Metadata, for every set of names and keys.                 *)
(*                                                                         *)
(* The code looks at the results of some SQL statements only, so the       *)
(* invariant has three layers, each resting on the ones before it.         *)
(* Whatever fails, Sound holds: maps and tables keep to their types,       *)
(* durable things have their rows, and messages go before their queue.     *)
(* When bindings can be deleted (UnbindSucceeds), so does Bound: a row     *)
(* of the binding table is a binding of memory, and bindings go before     *)
(* the ends they name.  When none of the statements fails whose result is  *)
(* ignored (IgnoredSucceed), the tables are the durable part of the        *)
(* memory (TablesAgree), which is what a restart needs to find.            *)
(***************************************************************************)
EXTENDS Metadata, TLAPS

UnbindSucceeds == "delete binding" \notin MayFail

IgnoredSucceed ==
  MayFail \cap {"insert binding", "delete exchange", "delete queue", "delete binding"} = {}

\* What is durable has its row, and rows are of durable things; a row whose
\* deletion failed may be of something that is gone.
RowsAreDurable ==
  /\ \A x \in Exchanges :
       /\ exchange_table[x] # None => exchange_table[x].durable
       /\ Durable(x) => exchange_table[x] = exchanges[x]
  /\ \A q \in Queues :
       /\ queue_table[q] \in {TRUE, None}
       /\ queues[q] = TRUE => queue_table[q] = TRUE

\* A queue has a handle unless it is being deleted, and only durable queues with
\* messages in memory have messages in their files.
MessagesFollow ==
  /\ \A q \in Queues : queues[q] # None =>
       \/ q \in handles
       \/ request.step \in {"unbind queue", "delete queue"} /\ request.queue = q
  /\ request.step = "declare queue" => request.queue \in handles
  /\ request.step \in {"unbind queue", "delete queue"} => request.queue \notin handles
  /\ data \subseteq held
  /\ \A q \in data : queues[q] = TRUE
  /\ held \subseteq fed

Sound == TypeOK /\ RowsAreDurable /\ MessagesFollow

\* The ends of a binding exist; what is being deleted has none left.
EndsExist ==
  /\ \A x \in Exchanges, q \in Queues : BoundKey(x, q) # None =>
       exchanges[x] # None /\ queues[q] # None
  /\ request.step = "delete exchange" => \A q \in Queues : BoundKey(request.exchange, q) = None
  /\ request.step = "delete queue" => \A x \in Exchanges : BoundKey(x, request.queue) = None

\* A row of the binding table is a binding of durable ends.
RowsAreBound ==
  \A row \in binding_table :
    /\ Durable(row.exchange) /\ queues[row.queue] = TRUE
    /\ BoundKey(row.exchange, row.queue) = row.key

Bound == EndsExist /\ RowsAreBound /\ OnlyAskedBindings

\* The tables hold the durable part of what memory holds, after every call.
ExchangesAgree ==
  \A x \in Exchanges : exchange_table[x] = IF Durable(x) THEN exchanges[x] ELSE None
QueuesAgree ==
  \A q \in Queues : queue_table[q] = IF queues[q] = TRUE THEN TRUE ELSE None
BindingsAgree ==
  \A row \in Row :
    row \in binding_table <=>
      /\ Durable(row.exchange) /\ queues[row.queue] = TRUE
      /\ BoundKey(row.exchange, row.queue) = row.key
TablesAgree == ExchangesAgree /\ QueuesAgree /\ BindingsAgree

IInv == Sound /\ Bound /\ TablesAgree

-----------------------------------------------------------------------------
(* What each call does to the keys of the bindings. *)

\* The key of a binding is a key.
LEMMA BoundKeyType ==
  ASSUME TypeOK, NEW x \in Exchanges, NEW q \in Queues
  PROVE  BoundKey(x, q) \in Keys \cup {None}
<1>1. bindings[x] \in [Queues -> Keys \cup {None}] \cup {None}
  BY DEF TypeOK
<1> QED
  BY <1>1 DEF BoundKey

LEMMA UnbindByExchangeKeys ==
  ASSUME TypeOK, NEW x \in Exchanges, UnbindByExchange(x)
  PROVE  \A y \in Exchanges, q \in Queues :
           BoundKey(y, q)' = IF y = x THEN None ELSE BoundKey(y, q)
BY DEF UnbindByExchange, TypeOK, BoundKey

LEMMA UnbindByQueueKeys ==
  ASSUME TypeOK, NEW q \in Queues, UnbindByQueue(q)
  PROVE  /\ bindings' \in [Exchanges -> [Queues -> Keys \cup {None}] \cup {None}]
         /\ \A x \in Exchanges, p \in Queues :
              BoundKey(x, p)' = IF p = q THEN None ELSE BoundKey(x, p)
<1> USE MetadataAssumption
<1>1. bindings' = [x \in Exchanges |->
        IF bindings[x] = None THEN None ELSE [bindings[x] EXCEPT ![q] = None]]
  BY DEF UnbindByQueue
<1>2. \A x \in Exchanges : bindings[x] # None => bindings[x] \in [Queues -> Keys \cup {None}]
  BY DEF TypeOK
<1>3. \A x \in Exchanges : bindings'[x] \in [Queues -> Keys \cup {None}] \cup {None}
  BY <1>1, <1>2
<1>4. ASSUME NEW x \in Exchanges, NEW p \in Queues
      PROVE  BoundKey(x, p)' = IF p = q THEN None ELSE BoundKey(x, p)
  <2>1. CASE bindings[x] = None
    BY <1>1, <2>1 DEF BoundKey
  <2>2. CASE bindings[x] # None
    <3>1. bindings'[x] = [bindings[x] EXCEPT ![q] = None] /\ bindings'[x] # None
      BY <1>1, <1>2, <2>2
    <3> QED
      BY <1>2, <2>2, <3>1 DEF BoundKey
  <2> QED
    BY <2>1, <2>2
<1> QED
  BY <1>1, <1>3, <1>4

LEMMA BindKeys ==
  ASSUME TypeOK, NEW x \in Exchanges, NEW q \in Queues, NEW key \in Keys, Bind(x, q, key)
  PROVE  /\ bindings' \in [Exchanges -> [Queues -> Keys \cup {None}] \cup {None}]
         /\ \A y \in Exchanges, p \in Queues :
              BoundKey(y, p)' = IF y = x /\ p = q THEN key ELSE BoundKey(y, p)
<1> USE MetadataAssumption
<1>1. bindings' = [bindings EXCEPT ![x] = [Entry(x) EXCEPT ![q] = key]]
  BY DEF Bind
<1>2. Entry(x) \in [Queues -> Keys \cup {None}]
  <2>1. bindings[x] # None => bindings[x] \in [Queues -> Keys \cup {None}]
    BY DEF TypeOK
  <2> QED
    BY <2>1 DEF Entry
<1>3. bindings' \in [Exchanges -> [Queues -> Keys \cup {None}] \cup {None}]
  BY <1>1, <1>2 DEF TypeOK
<1>4. ASSUME NEW y \in Exchanges, NEW p \in Queues
      PROVE  BoundKey(y, p)' = IF y = x /\ p = q THEN key ELSE BoundKey(y, p)
  <2>1. CASE y # x
    <3>1. bindings'[y] = bindings[y]
      BY <1>1, <2>1 DEF TypeOK
    <3> QED
      BY <2>1, <3>1 DEF BoundKey
  <2>2. CASE y = x
    <3>1. bindings'[x] = [Entry(x) EXCEPT ![q] = key] /\ bindings'[x] # None
      BY <1>1, <1>2 DEF TypeOK
    <3>2. BoundKey(x, p) = Entry(x)[p]
      BY DEF BoundKey, Entry
    <3>3. BoundKey(x, p)' = [Entry(x) EXCEPT ![q] = key][p]
      BY <3>1 DEF BoundKey
    <3> QED
      BY <1>2, <2>2, <3>2, <3>3
  <2> QED
    BY <2>1, <2>2
<1> QED
  BY <1>3, <1>4

LEMMA UnbindKeys ==
  ASSUME TypeOK, NEW x \in Exchanges, NEW q \in Queues, Unbind(x, q)
  PROVE  /\ bindings' \in [Exchanges -> [Queues -> Keys \cup {None}] \cup {None}]
         /\ \A y \in Exchanges, p \in Queues :
              BoundKey(y, p)' = IF y = x /\ p = q THEN None ELSE BoundKey(y, p)
<1> USE MetadataAssumption
<1>1. bindings' = [bindings EXCEPT ![x][q] = None]
  BY DEF Unbind
<1>2. bindings[x] # None /\ bindings[x] \in [Queues -> Keys \cup {None}]
  BY DEF Unbind, TypeOK, BoundKey
<1>3. bindings'[x] = [bindings[x] EXCEPT ![q] = None] /\ bindings'[x] # None
  <2>1. bindings'[x] = [bindings[x] EXCEPT ![q] = None]
    BY <1>1 DEF TypeOK
  <2> QED
    BY <1>2, <2>1
<1>4. bindings' \in [Exchanges -> [Queues -> Keys \cup {None}] \cup {None}]
  BY <1>1, <1>2 DEF TypeOK
<1>5. ASSUME NEW y \in Exchanges, NEW p \in Queues
      PROVE  BoundKey(y, p)' = IF y = x /\ p = q THEN None ELSE BoundKey(y, p)
  <2>1. CASE y # x
    <3>1. bindings'[y] = bindings[y]
      BY <1>1, <2>1 DEF TypeOK
    <3> QED
      BY <2>1, <3>1 DEF BoundKey
  <2>2. CASE y = x
    BY <1>2, <1>3, <2>2 DEF BoundKey
  <2> QED
    BY <2>1, <2>2
<1> QED
  BY <1>4, <1>5

\* A restart takes each key from a row, if there is one.
LEMMA RestartKeys ==
  ASSUME TypeOK, Restart
  PROVE  /\ bindings' \in [Exchanges -> [Queues -> Keys \cup {None}] \cup {None}]
         /\ \A x \in Exchanges, q \in Queues :
              \/ BoundKey(x, q)' \in Found(x, q)
              \/ Found(x, q) = {} /\ BoundKey(x, q)' = None
<1> USE MetadataAssumption
<1>1. /\ bindings' \in [Exchanges -> UNION {Recovered(x) : x \in Exchanges}]
      /\ \A x \in Exchanges : bindings'[x] \in Recovered(x)
  BY DEF Restart
<1>2. \A x \in Exchanges : Recovered(x) \subseteq [Queues -> Keys \cup {None}] \cup {None}
  BY DEF Recovered
<1>3. bindings' \in [Exchanges -> [Queues -> Keys \cup {None}] \cup {None}]
  BY <1>1, <1>2
<1>4. ASSUME NEW x \in Exchanges, NEW q \in Queues
      PROVE  \/ BoundKey(x, q)' \in Found(x, q)
             \/ Found(x, q) = {} /\ BoundKey(x, q)' = None
  <2>1. CASE \A p \in Queues : Found(x, p) = {}
    <3>1. bindings'[x] = None
      BY <1>1, <2>1 DEF Recovered
    <3>2. BoundKey(x, q)' = None
      BY <3>1 DEF BoundKey
    <3> QED
      BY <2>1, <3>2
  <2>2. CASE ~(\A p \in Queues : Found(x, p) = {})
    <3>1. /\ bindings'[x] \in [Queues -> Keys \cup {None}]
          /\ bindings'[x][q] \in Found(x, q) \/ (Found(x, q) = {} /\ bindings'[x][q] = None)
      BY <1>1, <2>2 DEF Recovered
    <3>2. BoundKey(x, q)' = bindings'[x][q]
      BY <3>1 DEF BoundKey
    <3> QED
      BY <3>1, <3>2
  <2> QED
    BY <2>1, <2>2
<1> QED
  BY <1>3, <1>4

-----------------------------------------------------------------------------
(* Whatever fails. *)

LEMMA InitSound == Init => Sound
<1> SUFFICES ASSUME Init PROVE Sound
  OBVIOUS
<1> USE MetadataAssumption DEF Init
<1>1. TypeOK
  BY DEF TypeOK, Request, Idle
<1>2. RowsAreDurable
  BY DEF RowsAreDurable, Durable
<1>3. MessagesFollow
  BY DEF MessagesFollow, Idle
<1> QED
  BY <1>1, <1>2, <1>3 DEF Sound

\* What RowsAreDurable does not see.
LEMMA SameRows ==
  ASSUME RowsAreDurable, UNCHANGED <<exchanges, queues, exchange_table, queue_table>>
  PROVE  RowsAreDurable'
BY DEF RowsAreDurable, Durable

LEMMA DeclareExchangeSound ==
  ASSUME Sound, NEW x \in Exchanges, NEW type \in Types, NEW durable \in BOOLEAN,
         DeclareExchange(x, type, durable)
  PROVE  Sound'
<1> DEFINE exchange == [type |-> type, durable |-> durable]
<1> USE MetadataAssumption
<1>0. TypeOK /\ RowsAreDurable /\ MessagesFollow
  BY DEF Sound
<1>1. exchange \in Exchange /\ exchange # None /\ exchange.durable = durable
  BY DEF Exchange
<1>2. UNCHANGED <<queues, bindings, handles, held, queue_table, binding_table, data,
                  request, asked, fed>>
  BY DEF DeclareExchange
<1>3. \/ /\ exchanges' = [exchanges EXCEPT ![x] = exchange]
         /\ exchange_table' = IF durable THEN [exchange_table EXCEPT ![x] = exchange]
                                         ELSE exchange_table
      \/ UNCHANGED <<exchanges, exchange_table>>
  BY DEF DeclareExchange
<1>4. TypeOK'
  BY <1>0, <1>1, <1>2, <1>3 DEF TypeOK
<1>5. RowsAreDurable'
  <2>1. \A y \in Exchanges : y # x => exchanges'[y] = exchanges[y] /\ Durable(y)' = Durable(y)
                                      /\ exchange_table'[y] = exchange_table[y]
    BY <1>0, <1>3 DEF TypeOK, Durable
  <2>2. /\ exchange_table'[x] # None => exchange_table'[x].durable
        /\ Durable(x)' => exchange_table'[x] = exchanges'[x]
    BY <1>0, <1>1, <1>3 DEF TypeOK, Durable, RowsAreDurable
  <2>3. \A q \in Queues : /\ queue_table'[q] \in {TRUE, None}
                          /\ queues'[q] = TRUE => queue_table'[q] = TRUE
    BY <1>0, <1>2 DEF RowsAreDurable
  <2>4. \A y \in Exchanges : y # x =>
          /\ exchange_table'[y] # None => exchange_table'[y].durable
          /\ Durable(y)' => exchange_table'[y] = exchanges'[y]
    BY <1>0, <2>1 DEF RowsAreDurable
  <2> QED
    BY <2>2, <2>3, <2>4 DEF RowsAreDurable
<1>6. MessagesFollow'
  BY <1>0, <1>2 DEF MessagesFollow
<1> QED
  BY <1>4, <1>5, <1>6 DEF Sound

LEMMA UnbindByExchangeSound ==
  ASSUME Sound, NEW x \in Exchanges, UnbindByExchange(x)
  PROVE  Sound'
<1> USE MetadataAssumption
<1>0. TypeOK /\ RowsAreDurable /\ MessagesFollow
  BY DEF Sound
<1>1. /\ request = Idle
      /\ request' = [step |-> "delete exchange", exchange |-> x]
      /\ UNCHANGED <<exchanges, queues, handles, held, exchange_table, queue_table, data,
                     asked, fed>>
  BY DEF UnbindByExchange
<1>2. bindings' = bindings \/ bindings' = [bindings EXCEPT ![x] = None]
  BY DEF UnbindByExchange
<1>3. binding_table' \subseteq binding_table
  BY DEF UnbindByExchange, Deletes
<1>4. TypeOK'
  BY <1>0, <1>1, <1>2, <1>3 DEF TypeOK, Request
<1>5. RowsAreDurable' /\ MessagesFollow'
  BY <1>0, <1>1, SameRows DEF MessagesFollow, Idle
<1> QED
  BY <1>4, <1>5 DEF Sound

LEMMA DeleteExchangeSound ==
  ASSUME Sound, NEW x \in Exchanges, DeleteExchange(x)
  PROVE  Sound'
<1> USE MetadataAssumption
<1>0. TypeOK /\ RowsAreDurable /\ MessagesFollow
  BY DEF Sound
<1>1. /\ request.step = "delete exchange" /\ request' = Idle
      /\ exchanges' = [exchanges EXCEPT ![x] = None]
      /\ exchange_table' \in {exchange_table, [exchange_table EXCEPT ![x] = None]}
      /\ asked' = {row \in asked : row.exchange # x}
      /\ UNCHANGED <<queues, bindings, handles, held, queue_table, binding_table, data, fed>>
  BY DEF DeleteExchange, Deletes
<1>2. TypeOK'
  BY <1>0, <1>1 DEF TypeOK, Request
<1>3. RowsAreDurable'
  <2>1. \A y \in Exchanges : y # x => exchanges'[y] = exchanges[y] /\ Durable(y)' = Durable(y)
                                      /\ exchange_table'[y] = exchange_table[y]
    BY <1>0, <1>1 DEF TypeOK, Durable
  <2>2. exchange_table'[x] \in {exchange_table[x], None} /\ ~Durable(x)'
    BY <1>0, <1>1 DEF TypeOK, Durable
  <2>3. \A y \in Exchanges :
          /\ exchange_table'[y] # None => exchange_table'[y].durable
          /\ Durable(y)' => exchange_table'[y] = exchanges'[y]
    BY <1>0, <2>1, <2>2 DEF RowsAreDurable
  <2> QED
    BY <1>0, <1>1, <2>3 DEF RowsAreDurable
<1>4. MessagesFollow'
  BY <1>0, <1>1 DEF MessagesFollow, Idle
<1> QED
  BY <1>2, <1>3, <1>4 DEF Sound

LEMMA InitQueueMessageSound ==
  ASSUME Sound, NEW q \in Queues, NEW durable \in BOOLEAN, InitQueueMessage(q, durable)
  PROVE  Sound'
<1>0. TypeOK /\ RowsAreDurable /\ MessagesFollow
  BY DEF Sound
<1>1. /\ request = Idle
      /\ request' = [step |-> "declare queue", queue |-> q, durable |-> durable]
      /\ handles' = handles \cup {q}
      /\ UNCHANGED <<exchanges, queues, bindings, exchange_table, queue_table, binding_table,
                     data, asked, fed>>
  BY DEF InitQueueMessage, disk
<1>2. held' = held
  BY <1>0 DEF InitQueueMessage, MessagesFollow, TypeOK
<1>3. TypeOK'
  BY <1>0, <1>1, <1>2 DEF TypeOK, Request
<1>4. RowsAreDurable' /\ MessagesFollow'
  BY <1>0, <1>1, <1>2, SameRows DEF MessagesFollow, Idle
<1> QED
  BY <1>3, <1>4 DEF Sound

LEMMA DeclareQueueSound ==
  ASSUME Sound, NEW q \in Queues, NEW durable \in BOOLEAN, DeclareQueue(q, durable)
  PROVE  Sound'
<1> USE MetadataAssumption
<1>0. TypeOK /\ RowsAreDurable /\ MessagesFollow
  BY DEF Sound
<1>1. /\ request.step = "declare queue" /\ request.queue = q /\ request' = Idle
      /\ UNCHANGED <<exchanges, bindings, handles, held, exchange_table, binding_table, data,
                     asked, fed>>
  BY DEF DeclareQueue
<1>2. \/ UNCHANGED <<queues, queue_table>>
      \/ /\ queues[q] = None
         /\ queues' = [queues EXCEPT ![q] = durable]
         /\ queue_table' = IF durable THEN [queue_table EXCEPT ![q] = TRUE] ELSE queue_table
  BY DEF DeclareQueue
<1>3. TypeOK'
  <2>1. /\ queues \in [Queues -> BOOLEAN \cup {None}]
        /\ queue_table \in [Queues -> BOOLEAN \cup {None}]
    BY <1>0 DEF TypeOK
  <2>2. /\ queues' \in [Queues -> BOOLEAN \cup {None}]
        /\ queue_table' \in [Queues -> BOOLEAN \cup {None}]
    BY <1>2, <2>1
  <2>3. request' \in Request
    BY <1>1 DEF Request
  <2> QED
    BY <1>0, <1>1, <2>2, <2>3 DEF TypeOK
<1>4. \A p \in Queues : /\ queues[p] # None => queues'[p] = queues[p]
                        /\ p # q => queues'[p] = queues[p]
  BY <1>0, <1>2 DEF TypeOK
<1>5. RowsAreDurable'
  <2>1. \A p \in Queues : /\ queue_table'[p] \in {TRUE, None}
                          /\ queues'[p] = TRUE => queue_table'[p] = TRUE
    <3>1. \A p \in Queues : /\ queue_table[p] \in {TRUE, None}
                            /\ queues[p] = TRUE => queue_table[p] = TRUE
      BY <1>0 DEF RowsAreDurable
    <3>2. \A p \in Queues : /\ queue_table'[p] = queue_table[p] \/ queue_table'[p] = TRUE
                            /\ p = q /\ queues' # queues /\ durable => queue_table'[p] = TRUE
      BY <1>0, <1>2 DEF TypeOK
    <3>3. queues' # queues => queues'[q] = durable
      BY <1>0, <1>2 DEF TypeOK
    <3>4. \A p \in Queues \ {q} : queues'[p] = queues[p]
      BY <1>4
    <3>5. ASSUME NEW p \in Queues, queues'[p] = TRUE PROVE queue_table'[p] = TRUE
      <4>1. CASE queues' = queues
        BY <3>1, <3>2, <3>5, <4>1
      <4>2. CASE queues' # queues /\ p = q
        BY <3>2, <3>3, <3>5, <4>2
      <4>3. CASE p # q
        BY <3>1, <3>2, <3>4, <3>5, <4>3
      <4> QED
        BY <4>1, <4>2, <4>3
    <3> QED
      BY <3>1, <3>2, <3>5
  <2> QED
    BY <1>0, <1>1, <2>1 DEF RowsAreDurable, Durable
<1>6. MessagesFollow'
  <2>1. \A p \in Queues : p \notin handles => queues'[p] = None
    <3> SUFFICES ASSUME NEW p \in Queues, p \notin handles PROVE queues'[p] = None
      OBVIOUS
    <3>1. p # q /\ queues[p] = None
      BY <1>0, <1>1 DEF MessagesFollow
    <3> QED
      BY <1>4, <3>1
  <2>2. \A p \in data : queues'[p] = TRUE
    BY <1>0, <1>4 DEF MessagesFollow, TypeOK
  <2> QED
    BY <1>0, <1>1, <2>1, <2>2 DEF MessagesFollow, Idle
<1> QED
  BY <1>3, <1>5, <1>6 DEF Sound

LEMMA DestroyQueueMessageSound ==
  ASSUME Sound, NEW q \in Queues, DestroyQueueMessage(q)
  PROVE  Sound'
<1>0. TypeOK /\ RowsAreDurable /\ MessagesFollow
  BY DEF Sound
<1>1. /\ request = Idle /\ request' = [step |-> "unbind queue", queue |-> q]
      /\ handles' = handles \ {q} /\ held' = held \ {q}
      /\ UNCHANGED <<exchanges, queues, bindings, exchange_table, queue_table, binding_table,
                     asked, fed>>
  BY DEF DestroyQueueMessage
<1>2. data' = data \ {q}
  BY <1>0 DEF DestroyQueueMessage, MessagesFollow, TypeOK
<1>3. TypeOK'
  BY <1>0, <1>1, <1>2 DEF TypeOK, Request
<1>4. RowsAreDurable' /\ MessagesFollow'
  BY <1>0, <1>1, <1>2, SameRows DEF MessagesFollow, Idle
<1> QED
  BY <1>3, <1>4 DEF Sound

LEMMA UnbindByQueueSound ==
  ASSUME Sound, NEW q \in Queues, UnbindByQueue(q)
  PROVE  Sound'
<1>0. TypeOK /\ RowsAreDurable /\ MessagesFollow
  BY DEF Sound
<1>1. /\ request = [step |-> "unbind queue", queue |-> q]
      /\ request' = [step |-> "delete queue", queue |-> q]
      /\ binding_table' \subseteq binding_table
      /\ UNCHANGED <<exchanges, queues, handles, held, exchange_table, queue_table, data,
                     asked, fed>>
  BY DEF UnbindByQueue, Deletes
<1>2. TypeOK'
  BY <1>0, <1>1, UnbindByQueueKeys DEF TypeOK, Request
<1>3. RowsAreDurable' /\ MessagesFollow'
  BY <1>0, <1>1, SameRows DEF MessagesFollow
<1> QED
  BY <1>2, <1>3 DEF Sound

LEMMA DeleteQueueSound ==
  ASSUME Sound, NEW q \in Queues, DeleteQueue(q)
  PROVE  Sound'
<1> USE MetadataAssumption
<1>0. TypeOK /\ RowsAreDurable /\ MessagesFollow
  BY DEF Sound
<1>1. /\ request.step = "delete queue" /\ request.queue = q /\ request' = Idle
      /\ queues' = [queues EXCEPT ![q] = None]
      /\ queue_table' \in {queue_table, [queue_table EXCEPT ![q] = None]}
      /\ asked' = {row \in asked : row.queue # q}
      /\ fed' = fed \ {q}
      /\ UNCHANGED <<exchanges, bindings, handles, held, exchange_table, binding_table, data>>
  BY DEF DeleteQueue, Deletes
<1>2. TypeOK'
  BY <1>0, <1>1 DEF TypeOK, Request
<1>3. \A p \in Queues : p # q => queues'[p] = queues[p] /\ queue_table'[p] = queue_table[p]
  BY <1>0, <1>1 DEF TypeOK
<1>4. queues'[q] = None /\ queue_table'[q] \in {queue_table[q], None}
  BY <1>0, <1>1 DEF TypeOK
<1>5. RowsAreDurable'
  <2>1. \A p \in Queues : /\ queue_table'[p] \in {TRUE, None}
                          /\ queues'[p] = TRUE => queue_table'[p] = TRUE
    BY <1>0, <1>3, <1>4 DEF RowsAreDurable
  <2> QED
    BY <1>0, <1>1, <2>1 DEF RowsAreDurable, Durable
<1>6. MessagesFollow'
  <2>1. q \notin held /\ q \notin data
    BY <1>0, <1>1 DEF TypeOK, MessagesFollow
  <2>2. \A p \in Queues : queues'[p] # None => p \in handles'
    <3> SUFFICES ASSUME NEW p \in Queues, queues'[p] # None PROVE p \in handles'
      OBVIOUS
    <3>1. p # q /\ queues[p] # None
      BY <1>3, <1>4
    <3> QED
      BY <1>0, <1>1, <3>1 DEF MessagesFollow
  <2>3. \A p \in data' : queues'[p] = TRUE
    BY <1>0, <1>1, <1>3, <2>1 DEF MessagesFollow, TypeOK
  <2> QED
    BY <1>0, <1>1, <2>1, <2>2, <2>3 DEF MessagesFollow, Idle
<1> QED
  BY <1>2, <1>5, <1>6 DEF Sound

LEMMA PublishSound ==
  ASSUME Sound, NEW x \in Exchanges, NEW key \in Keys, NEW persistent \in BOOLEAN,
         Publish(x, key, persistent)
  PROVE  Sound'
<1>0. TypeOK /\ RowsAreDurable /\ MessagesFollow
  BY DEF Sound
<1>1. /\ request = Idle
      /\ request' = [step |-> "publish", to |-> Routed(x, key), persistent |-> persistent]
      /\ Routed(x, key) # {}
      /\ UNCHANGED <<exchanges, queues, bindings, handles, held, exchange_table, queue_table,
                     binding_table, data, asked, fed>>
  BY DEF Publish, memory, disk
<1>2. request' \in Request
  <2>1. Routed(x, key) \in (SUBSET Queues) \ {{}}
    <3>1. Routed(x, key) \subseteq Queues
      BY DEF Routed
    <3>2. Routed(x, key) # {}
      BY <1>1
    <3> QED
      BY <3>1, <3>2, Zenon
  <2>2. request' \in [step : {"publish"}, to : (SUBSET Queues) \ {{}}, persistent : BOOLEAN]
    BY <1>1, <2>1
  <2> QED
    BY <2>2 DEF Request
<1>3. TypeOK'
  BY <1>0, <1>1, <1>2 DEF TypeOK
<1>4. RowsAreDurable' /\ MessagesFollow'
  BY <1>0, <1>1, SameRows DEF MessagesFollow, Idle
<1> QED
  BY <1>3, <1>4 DEF Sound

\* What is left of a publish after one of its queues.
LEMMA InsertMessageRequest ==
  ASSUME TypeOK, NEW q \in Queues, InsertMessage(q)
  PROVE  request'.step \in {"idle", "publish"} /\ request' \in Request
<1>1. /\ request.step = "publish" /\ q \in request.to
      /\ request' = IF request.to = {q} THEN Idle ELSE [request EXCEPT !.to = @ \ {q}]
  BY DEF InsertMessage
<1> DEFINE Publishing == [step : {"publish"}, to : (SUBSET Queues) \ {{}}, persistent : BOOLEAN]
<1>2. request \in Publishing
  <2>1. request \in Request
    BY DEF TypeOK
  <2>2. request \in [step : {"delete exchange"}, exchange : Exchanges] => request.step = "delete exchange"
    OBVIOUS
  <2>3. request \in [step : {"declare queue"}, queue : Queues, durable : BOOLEAN] =>
          request.step = "declare queue"
    OBVIOUS
  <2>4. request \in [step : {"unbind queue", "delete queue"}, queue : Queues] =>
          request.step \in {"unbind queue", "delete queue"}
    OBVIOUS
  <2>5. request = Idle => request.step = "idle"
    BY DEF Idle
  <2> QED
    BY <1>1, <2>1, <2>2, <2>3, <2>4, <2>5 DEF Request
<1>3. request' = Idle \/ request' \in Publishing
  <2> SUFFICES ASSUME request.to # {q} PROVE request' \in Publishing
    BY <1>1
  <2>1. request.to \ {q} \in (SUBSET Queues) \ {{}}
    BY <1>1, <1>2
  <2> QED
    BY <1>1, <1>2, <2>1
<1>4. request' \in Publishing => request'.step = "publish"
  OBVIOUS
<1>5. Idle.step = "idle"
  BY DEF Idle
<1> QED
  BY <1>3, <1>4, <1>5 DEF Request

LEMMA InsertMessageSound ==
  ASSUME Sound, NEW q \in Queues, InsertMessage(q)
  PROVE  Sound'
<1>0. TypeOK /\ RowsAreDurable /\ MessagesFollow
  BY DEF Sound
<1>1. /\ request.step = "publish"
      /\ UNCHANGED <<exchanges, queues, bindings, handles, exchange_table, queue_table,
                     binding_table, asked>>
  BY DEF InsertMessage
<1>2. \/ /\ queues[q] # None /\ q \in handles
         /\ held' = held \cup {q} /\ fed' = fed \cup {q}
         /\ data' = data \/ (queues[q] = TRUE /\ data' = data \cup {q})
      \/ UNCHANGED <<held, data, fed>>
  <2>1. queues[q] # None => queues[q] \in BOOLEAN
    BY <1>0 DEF TypeOK
  <2> QED
    BY <2>1 DEF InsertMessage
<1>3. request'.step \in {"idle", "publish"} /\ request' \in Request
  BY <1>0, InsertMessageRequest
<1>4. TypeOK'
  BY <1>0, <1>1, <1>2, <1>3 DEF TypeOK
<1>5. RowsAreDurable' /\ MessagesFollow'
  BY <1>0, <1>1, <1>2, <1>3, SameRows DEF MessagesFollow
<1> QED
  BY <1>4, <1>5 DEF Sound

LEMMA BindSound ==
  ASSUME Sound, NEW x \in Exchanges, NEW q \in Queues, NEW key \in Keys, Bind(x, q, key)
  PROVE  Sound'
<1> DEFINE new == [exchange |-> x, queue |-> q, key |-> key]
<1>0. TypeOK /\ RowsAreDurable /\ MessagesFollow
  BY DEF Sound
<1>1. /\ binding_table' \subseteq binding_table \cup {new}
      /\ asked' = asked \cup {new}
      /\ UNCHANGED <<exchanges, queues, handles, held, exchange_table, queue_table, data,
                     request, fed>>
  BY DEF Bind
<1>2. new \in Row
  BY DEF Row
<1> HIDE DEF new
<1>3. TypeOK'
  BY <1>0, <1>1, <1>2, BindKeys DEF TypeOK
<1>4. RowsAreDurable' /\ MessagesFollow'
  BY <1>0, <1>1, SameRows DEF MessagesFollow
<1> QED
  BY <1>3, <1>4 DEF Sound

LEMMA UnbindSound ==
  ASSUME Sound, NEW x \in Exchanges, NEW q \in Queues, Unbind(x, q)
  PROVE  Sound'
<1>0. TypeOK /\ RowsAreDurable /\ MessagesFollow
  BY DEF Sound
<1>1. /\ binding_table' \subseteq binding_table
      /\ asked' = {row \in asked : row.exchange # x \/ row.queue # q}
      /\ UNCHANGED <<exchanges, queues, handles, held, exchange_table, queue_table, data,
                     request, fed>>
  BY DEF Unbind, Deletes
<1>2. TypeOK'
  BY <1>0, <1>1, UnbindKeys DEF TypeOK
<1>3. RowsAreDurable' /\ MessagesFollow'
  BY <1>0, <1>1, SameRows DEF MessagesFollow
<1> QED
  BY <1>2, <1>3 DEF Sound

LEMMA RestartSound ==
  ASSUME Sound, Restart
  PROVE  Sound'
<1> USE MetadataAssumption
<1>0. TypeOK /\ RowsAreDurable /\ MessagesFollow
  BY DEF Sound
<1>1. /\ exchanges' = exchange_table /\ queues' = queue_table /\ request' = Idle
      /\ handles' = {q \in Queues : queue_table[q] # None} /\ held' = handles' \cap data
      /\ asked' \subseteq asked
      /\ fed' = fed \cap data
      /\ UNCHANGED <<exchange_table, queue_table, binding_table, data>>
  BY DEF Restart, disk
<1>2. TypeOK'
  BY <1>0, <1>1, RestartKeys DEF TypeOK, Request
<1>3. RowsAreDurable'
  BY <1>0, <1>1 DEF RowsAreDurable, Durable
<1>4. \A q \in data : q \in Queues /\ queue_table[q] = TRUE
  BY <1>0 DEF TypeOK, MessagesFollow, RowsAreDurable
<1>5. MessagesFollow'
  <2>1. \A q \in Queues : queues'[q] # None => q \in handles'
    BY <1>1
  <2>2. data' \subseteq held' /\ \A q \in data' : queues'[q] = TRUE
    BY <1>1, <1>4
  <2>3. held' \subseteq fed'
    BY <1>0, <1>1 DEF MessagesFollow
  <2> QED
    BY <1>1, <2>1, <2>2, <2>3 DEF MessagesFollow, Idle
<1> QED
  BY <1>2, <1>3, <1>5 DEF Sound

LEMMA NextSound == Sound /\ [Next]_vars => Sound'
<1> SUFFICES ASSUME Sound, [Next]_vars PROVE Sound'
  OBVIOUS
<1>1. ASSUME NEW x \in Exchanges, ExchangeRequest(x) PROVE Sound'
  BY <1>1, DeclareExchangeSound, UnbindByExchangeSound, DeleteExchangeSound, PublishSound
  DEF ExchangeRequest
<1>2. ASSUME NEW q \in Queues, QueueRequest(q) PROVE Sound'
  BY <1>2, InitQueueMessageSound, DeclareQueueSound, DestroyQueueMessageSound,
     UnbindByQueueSound, DeleteQueueSound, InsertMessageSound
  DEF QueueRequest
<1>3. ASSUME NEW x \in Exchanges, NEW q \in Queues, BindingRequest(x, q) PROVE Sound'
  BY <1>3, BindSound, UnbindSound DEF BindingRequest
<1>4. CASE Restart
  BY <1>4, RestartSound
<1>5. CASE UNCHANGED vars
  BY <1>5, SameRows DEF vars, memory, disk, Sound, TypeOK, MessagesFollow
<1> QED
  BY <1>1, <1>2, <1>3, <1>4, <1>5 DEF Next

LEMMA AlwaysSound == Spec => []Sound
BY InitSound, NextSound, PTL DEF Spec

-----------------------------------------------------------------------------
(* When bindings can be deleted. *)

LEMMA InitBound == Init => Bound
<1> SUFFICES ASSUME Init PROVE Bound
  OBVIOUS
<1> USE DEF Init
<1>1. \A x \in Exchanges, q \in Queues : BoundKey(x, q) = None
  BY DEF BoundKey
<1> QED
  BY <1>1 DEF Bound, EndsExist, RowsAreBound, OnlyAskedBindings, Idle

\* A call that leaves the bindings alone, and what exists.
LEMMA SameBound ==
  ASSUME Sound, Bound, UNCHANGED <<bindings, binding_table, asked>>,
         \A x \in Exchanges : exchanges[x] # None => exchanges'[x] = exchanges[x],
         \A q \in Queues : queues[q] # None => queues'[q] = queues[q],
         request' = request \/ request'.step \notin {"delete exchange", "delete queue"}
  PROVE  Bound'
<1>0. EndsExist /\ RowsAreBound /\ OnlyAskedBindings
  BY DEF Bound
<1>1. \A x \in Exchanges, q \in Queues : BoundKey(x, q)' = BoundKey(x, q)
  BY DEF BoundKey
<1>2. EndsExist'
  <2>1. \A x \in Exchanges, q \in Queues : BoundKey(x, q)' # None =>
          exchanges'[x] # None /\ queues'[q] # None
    BY <1>0, <1>1 DEF EndsExist
  <2>2. CASE request' = request
    BY <1>0, <1>1, <2>1, <2>2 DEF EndsExist, BoundKey
  <2>3. CASE request'.step \notin {"delete exchange", "delete queue"}
    BY <2>1, <2>3 DEF EndsExist
  <2> QED
    BY <2>2, <2>3
<1>3. RowsAreBound'
  <2> SUFFICES ASSUME NEW row \in binding_table
               PROVE  /\ Durable(row.exchange)' /\ queues'[row.queue] = TRUE
                      /\ BoundKey(row.exchange, row.queue)' = row.key
    BY DEF RowsAreBound
  <2>1. row.exchange \in Exchanges /\ row.queue \in Queues
    BY DEF Sound, TypeOK, Row
  <2>2. /\ Durable(row.exchange) /\ queues[row.queue] = TRUE
        /\ BoundKey(row.exchange, row.queue) = row.key
    BY <1>0 DEF RowsAreBound
  <2> QED
    BY <1>1, <2>1, <2>2, MetadataAssumption DEF Durable
<1>4. OnlyAskedBindings'
  BY <1>0, <1>1 DEF OnlyAskedBindings
<1> QED
  BY <1>2, <1>3, <1>4 DEF Bound

LEMMA DeclareExchangeBound ==
  ASSUME Sound, Bound, NEW x \in Exchanges, NEW type \in Types, NEW durable \in BOOLEAN,
         DeclareExchange(x, type, durable)
  PROVE  Bound'
<1>1. /\ exchanges[x] = None
      /\ exchanges' = exchanges
           \/ exchanges' = [exchanges EXCEPT ![x] = [type |-> type, durable |-> durable]]
      /\ UNCHANGED <<queues, bindings, binding_table, asked, request>>
  BY DEF DeclareExchange
<1>2. \A y \in Exchanges : exchanges[y] # None => exchanges'[y] = exchanges[y]
  BY <1>1 DEF Sound, TypeOK
<1> QED
  BY <1>1, <1>2, SameBound

LEMMA UnbindByExchangeBound ==
  ASSUME UnbindSucceeds, Sound, Bound, NEW x \in Exchanges, UnbindByExchange(x)
  PROVE  Bound'
<1>0. EndsExist /\ RowsAreBound /\ OnlyAskedBindings
  BY DEF Bound
<1>1. /\ request' = [step |-> "delete exchange", exchange |-> x]
      /\ UNCHANGED <<exchanges, queues, asked>>
  BY DEF UnbindByExchange
<1>2. \A y \in Exchanges, q \in Queues :
        BoundKey(y, q)' = IF y = x THEN None ELSE BoundKey(y, q)
  BY UnbindByExchangeKeys DEF Sound
<1>3. EndsExist'
  BY <1>0, <1>1, <1>2 DEF EndsExist
<1>4. RowsAreBound'
  <2> SUFFICES ASSUME NEW row \in binding_table'
               PROVE  /\ Durable(row.exchange)' /\ queues'[row.queue] = TRUE
                      /\ BoundKey(row.exchange, row.queue)' = row.key
    BY DEF RowsAreBound
  <2>1. row \in binding_table
    BY DEF UnbindByExchange, Deletes
  <2>2. row.exchange \in Exchanges /\ row.queue \in Queues /\ row.key # None
    BY <2>1, MetadataAssumption DEF Sound, TypeOK, Row
  <2>3. /\ Durable(row.exchange) /\ queues[row.queue] = TRUE
        /\ BoundKey(row.exchange, row.queue) = row.key
    BY <1>0, <2>1 DEF RowsAreBound
  <2>4. row.exchange # x
    <3>1. CASE bindings[x] = None
      BY <2>2, <2>3, <3>1 DEF BoundKey
    <3>2. CASE bindings[x] # None
      BY <3>2 DEF UnbindByExchange, Deletes, UnbindSucceeds
    <3> QED
      BY <3>1, <3>2
  <2> QED
    BY <1>1, <1>2, <2>2, <2>3, <2>4 DEF Durable
<1>5. OnlyAskedBindings'
  BY <1>0, <1>1, <1>2 DEF OnlyAskedBindings
<1> QED
  BY <1>3, <1>4, <1>5 DEF Bound

LEMMA DeleteExchangeBound ==
  ASSUME Sound, Bound, NEW x \in Exchanges, DeleteExchange(x)
  PROVE  Bound'
<1>0. TypeOK /\ EndsExist /\ RowsAreBound /\ OnlyAskedBindings
  BY DEF Sound, Bound
<1>1. /\ request.step = "delete exchange" /\ request.exchange = x /\ request' = Idle
      /\ exchanges' = [exchanges EXCEPT ![x] = None]
      /\ asked' = {row \in asked : row.exchange # x}
      /\ UNCHANGED <<queues, bindings, binding_table>>
  BY DEF DeleteExchange
<1>2. /\ \A y \in Exchanges, q \in Queues : BoundKey(y, q)' = BoundKey(y, q)
      /\ \A q \in Queues : BoundKey(x, q) = None
  BY <1>0, <1>1 DEF BoundKey, EndsExist
<1>3. \A y \in Exchanges : y # x => exchanges'[y] = exchanges[y]
  BY <1>0, <1>1 DEF TypeOK
<1>4. EndsExist'
  <2>1. ASSUME NEW y \in Exchanges, NEW q \in Queues, BoundKey(y, q)' # None
        PROVE  exchanges'[y] # None /\ queues'[q] # None
    <3>1. y # x /\ BoundKey(y, q) # None
      BY <1>2, <2>1
    <3>2. exchanges[y] # None /\ queues[q] # None
      BY <1>0, <3>1 DEF EndsExist
    <3> QED
      BY <1>1, <1>3, <3>1, <3>2
  <2> QED
    BY <1>1, <2>1 DEF EndsExist, Idle
<1>5. RowsAreBound'
  <2> SUFFICES ASSUME NEW row \in binding_table
               PROVE  /\ Durable(row.exchange)' /\ queues'[row.queue] = TRUE
                      /\ BoundKey(row.exchange, row.queue)' = row.key
    BY <1>1 DEF RowsAreBound
  <2>1. row.exchange \in Exchanges /\ row.queue \in Queues /\ row.key # None
    BY <1>0, MetadataAssumption DEF TypeOK, Row
  <2>2. /\ Durable(row.exchange) /\ queues[row.queue] = TRUE
        /\ BoundKey(row.exchange, row.queue) = row.key
    BY <1>0 DEF RowsAreBound
  <2>3. row.exchange # x
    BY <1>2, <2>1, <2>2
  <2> QED
    BY <1>1, <1>2, <1>3, <2>1, <2>2, <2>3 DEF Durable
<1>6. OnlyAskedBindings'
  <2> SUFFICES ASSUME NEW y \in Exchanges, NEW q \in Queues, BoundKey(y, q)' # None
               PROVE  [exchange |-> y, queue |-> q, key |-> BoundKey(y, q)'] \in asked'
    BY DEF OnlyAskedBindings
  <2>1. y # x /\ BoundKey(y, q)' = BoundKey(y, q)
    BY <1>2
  <2> QED
    BY <1>0, <1>1, <2>1 DEF OnlyAskedBindings
<1> QED
  BY <1>4, <1>5, <1>6 DEF Bound

LEMMA DeclareQueueBound ==
  ASSUME Sound, Bound, NEW q \in Queues, NEW durable \in BOOLEAN, DeclareQueue(q, durable)
  PROVE  Bound'
<1>1. /\ request' = Idle
      /\ \/ queues' = queues
         \/ queues[q] = None /\ queues' = [queues EXCEPT ![q] = durable]
      /\ UNCHANGED <<exchanges, bindings, binding_table, asked>>
  BY DEF DeclareQueue
<1>2. \A p \in Queues : queues[p] # None => queues'[p] = queues[p]
  BY <1>1 DEF Sound, TypeOK
<1> QED
  BY <1>1, <1>2, SameBound DEF Idle

LEMMA UnbindByQueueBound ==
  ASSUME UnbindSucceeds, Sound, Bound, NEW q \in Queues, UnbindByQueue(q)
  PROVE  Bound'
<1>0. TypeOK /\ EndsExist /\ RowsAreBound /\ OnlyAskedBindings
  BY DEF Sound, Bound
<1>1. /\ request' = [step |-> "delete queue", queue |-> q]
      /\ UNCHANGED <<exchanges, queues, asked>>
  BY DEF UnbindByQueue
<1>2. \A x \in Exchanges, p \in Queues :
        BoundKey(x, p)' = IF p = q THEN None ELSE BoundKey(x, p)
  BY <1>0, UnbindByQueueKeys
<1>3. EndsExist'
  BY <1>0, <1>1, <1>2 DEF EndsExist
<1>4. RowsAreBound'
  <2> SUFFICES ASSUME NEW row \in binding_table'
               PROVE  /\ Durable(row.exchange)' /\ queues'[row.queue] = TRUE
                      /\ BoundKey(row.exchange, row.queue)' = row.key
    BY DEF RowsAreBound
  <2>1. row \in binding_table
    BY DEF UnbindByQueue, Deletes
  <2>2. row.exchange \in Exchanges /\ row.queue \in Queues /\ row.key # None
    BY <1>0, <2>1, MetadataAssumption DEF TypeOK, Row
  <2>3. /\ Durable(row.exchange) /\ queues[row.queue] = TRUE
        /\ BoundKey(row.exchange, row.queue) = row.key
    BY <1>0, <2>1 DEF RowsAreBound
  <2>4. bindings[row.exchange] # None
    BY <2>2, <2>3 DEF BoundKey
  <2>5. row.queue # q
    BY <2>2, <2>4 DEF UnbindByQueue, Deletes, UnbindSucceeds
  <2> QED
    BY <1>1, <1>2, <2>2, <2>3, <2>5 DEF Durable
<1>5. OnlyAskedBindings'
  BY <1>0, <1>1, <1>2 DEF OnlyAskedBindings
<1> QED
  BY <1>3, <1>4, <1>5 DEF Bound

LEMMA DeleteQueueBound ==
  ASSUME Sound, Bound, NEW q \in Queues, DeleteQueue(q)
  PROVE  Bound'
<1>0. TypeOK /\ EndsExist /\ RowsAreBound /\ OnlyAskedBindings
  BY DEF Sound, Bound
<1>1. /\ request.step = "delete queue" /\ request.queue = q /\ request' = Idle
      /\ queues' = [queues EXCEPT ![q] = None]
      /\ asked' = {row \in asked : row.queue # q}
      /\ UNCHANGED <<exchanges, bindings, binding_table>>
  BY DEF DeleteQueue
<1>2. /\ \A x \in Exchanges, p \in Queues : BoundKey(x, p)' = BoundKey(x, p)
      /\ \A x \in Exchanges : BoundKey(x, q) = None
  BY <1>0, <1>1 DEF BoundKey, EndsExist
<1>3. \A p \in Queues : p # q => queues'[p] = queues[p]
  BY <1>0, <1>1 DEF TypeOK
<1>4. EndsExist'
  <2>1. ASSUME NEW x \in Exchanges, NEW p \in Queues, BoundKey(x, p)' # None
        PROVE  exchanges'[x] # None /\ queues'[p] # None
    <3>1. p # q /\ BoundKey(x, p) # None
      BY <1>2, <2>1
    <3>2. exchanges[x] # None /\ queues[p] # None
      BY <1>0, <3>1 DEF EndsExist
    <3> QED
      BY <1>1, <1>3, <3>1, <3>2
  <2> QED
    BY <1>1, <2>1 DEF EndsExist, Idle
<1>5. RowsAreBound'
  <2> SUFFICES ASSUME NEW row \in binding_table
               PROVE  /\ Durable(row.exchange)' /\ queues'[row.queue] = TRUE
                      /\ BoundKey(row.exchange, row.queue)' = row.key
    BY <1>1 DEF RowsAreBound
  <2>1. row.exchange \in Exchanges /\ row.queue \in Queues /\ row.key # None
    BY <1>0, MetadataAssumption DEF TypeOK, Row
  <2>2. /\ Durable(row.exchange) /\ queues[row.queue] = TRUE
        /\ BoundKey(row.exchange, row.queue) = row.key
    BY <1>0 DEF RowsAreBound
  <2>3. row.queue # q
    BY <1>2, <2>1, <2>2
  <2> QED
    BY <1>1, <1>2, <1>3, <2>1, <2>2, <2>3 DEF Durable
<1>6. OnlyAskedBindings'
  <2> SUFFICES ASSUME NEW x \in Exchanges, NEW p \in Queues, BoundKey(x, p)' # None
               PROVE  [exchange |-> x, queue |-> p, key |-> BoundKey(x, p)'] \in asked'
    BY DEF OnlyAskedBindings
  <2>1. p # q /\ BoundKey(x, p)' = BoundKey(x, p)
    BY <1>2
  <2> QED
    BY <1>0, <1>1, <2>1 DEF OnlyAskedBindings
<1> QED
  BY <1>4, <1>5, <1>6 DEF Bound

LEMMA BindBound ==
  ASSUME Sound, Bound, NEW x \in Exchanges, NEW q \in Queues, NEW key \in Keys,
         Bind(x, q, key)
  PROVE  Bound'
<1> DEFINE new == [exchange |-> x, queue |-> q, key |-> key]
<1>0. TypeOK /\ EndsExist /\ RowsAreBound /\ OnlyAskedBindings
  BY DEF Sound, Bound
<1>1. /\ request = Idle /\ exchanges[x] # None /\ queues[q] # None /\ BoundKey(x, q) = None
      /\ asked' = asked \cup {new}
      /\ UNCHANGED <<exchanges, queues, request>>
  BY DEF Bind
<1>2. \A y \in Exchanges, p \in Queues :
        BoundKey(y, p)' = IF y = x /\ p = q THEN key ELSE BoundKey(y, p)
  BY <1>0, BindKeys
<1>3. \/ Durable(x) /\ queues[q] = TRUE /\ binding_table' = binding_table \cup {new}
      \/ binding_table' = binding_table
  <2>1. queues[q] \in BOOLEAN
    BY <1>0, <1>1 DEF TypeOK
  <2> QED
    BY <1>1, <2>1 DEF Bind, Durable
<1>4. EndsExist'
  BY <1>0, <1>1, <1>2 DEF EndsExist, Idle
<1>5. RowsAreBound'
  <2> SUFFICES ASSUME NEW row \in binding_table'
               PROVE  /\ Durable(row.exchange)' /\ queues'[row.queue] = TRUE
                      /\ BoundKey(row.exchange, row.queue)' = row.key
    BY DEF RowsAreBound
  <2>1. \A y \in Exchanges : Durable(y)' <=> Durable(y)
    BY <1>1 DEF Durable
  <2>2. CASE row \in binding_table
    <3>1. row.exchange \in Exchanges /\ row.queue \in Queues /\ row.key # None
      BY <1>0, <2>2, MetadataAssumption DEF TypeOK, Row
    <3>2. /\ Durable(row.exchange) /\ queues[row.queue] = TRUE
          /\ BoundKey(row.exchange, row.queue) = row.key
      BY <1>0, <2>2 DEF RowsAreBound
    <3> QED
      BY <1>1, <1>2, <2>1, <3>1, <3>2
  <2>3. CASE row \notin binding_table
    <3>1. row = new /\ Durable(x) /\ queues[q] = TRUE
      BY <1>3, <2>3
    <3> QED
      BY <1>1, <1>2, <2>1, <3>1
  <2> QED
    BY <2>2, <2>3
<1>6. OnlyAskedBindings'
  <2> SUFFICES ASSUME NEW y \in Exchanges, NEW p \in Queues, BoundKey(y, p)' # None
               PROVE  [exchange |-> y, queue |-> p, key |-> BoundKey(y, p)'] \in asked'
    BY DEF OnlyAskedBindings
  <2>1. CASE y = x /\ p = q
    BY <1>1, <1>2, <2>1
  <2>2. CASE ~(y = x /\ p = q)
    BY <1>0, <1>1, <1>2, <2>2 DEF OnlyAskedBindings
  <2> QED
    BY <2>1, <2>2
<1> QED
  BY <1>4, <1>5, <1>6 DEF Bound

LEMMA UnbindBound ==
  ASSUME UnbindSucceeds, Sound, Bound, NEW x \in Exchanges, NEW q \in Queues, Unbind(x, q)
  PROVE  Bound'
<1>0. TypeOK /\ EndsExist /\ RowsAreBound /\ OnlyAskedBindings
  BY DEF Sound, Bound
<1>1. /\ request = Idle
      /\ binding_table' = {row \in binding_table : row.exchange # x \/ row.queue # q}
      /\ asked' = {row \in asked : row.exchange # x \/ row.queue # q}
      /\ UNCHANGED <<exchanges, queues, request>>
  BY DEF Unbind, Deletes, UnbindSucceeds
<1>2. \A y \in Exchanges, p \in Queues :
        BoundKey(y, p)' = IF y = x /\ p = q THEN None ELSE BoundKey(y, p)
  BY <1>0, UnbindKeys
<1>3. EndsExist'
  BY <1>0, <1>1, <1>2 DEF EndsExist, Idle
<1>4. RowsAreBound'
  <2> SUFFICES ASSUME NEW row \in binding_table, row.exchange # x \/ row.queue # q
               PROVE  /\ Durable(row.exchange)' /\ queues'[row.queue] = TRUE
                      /\ BoundKey(row.exchange, row.queue)' = row.key
    BY <1>1 DEF RowsAreBound
  <2>1. row.exchange \in Exchanges /\ row.queue \in Queues
    BY <1>0 DEF TypeOK, Row
  <2> QED
    BY <1>0, <1>1, <1>2, <2>1 DEF RowsAreBound, Durable
<1>5. OnlyAskedBindings'
  BY <1>0, <1>1, <1>2 DEF OnlyAskedBindings
<1> QED
  BY <1>3, <1>4, <1>5 DEF Bound

\* A key that was found was bound before, between durable ends, and it was the
\* only one.
LEMMA FoundKeys ==
  ASSUME Sound, Bound, NEW x \in Exchanges, NEW q \in Queues, NEW key \in Found(x, q)
  PROVE  /\ Durable(x) /\ queues[q] = TRUE
         /\ BoundKey(x, q) = key /\ key # None
<1>1. PICK row \in binding_table : row.exchange = x /\ row.queue = q /\ row.key = key
  BY DEF Found
<1>2. row.key # None
  BY MetadataAssumption DEF Sound, TypeOK, Row
<1> QED
  BY <1>1, <1>2 DEF Bound, RowsAreBound

LEMMA RestartBound ==
  ASSUME Sound, Bound, Restart
  PROVE  Bound'
<1> USE MetadataAssumption
<1>0. TypeOK /\ RowsAreDurable /\ EndsExist /\ RowsAreBound /\ OnlyAskedBindings
  BY DEF Sound, Bound
<1>1. /\ exchanges' = exchange_table /\ queues' = queue_table /\ request' = Idle
      /\ asked' = {row \in asked : Durable(row.exchange) /\ queues[row.queue] = TRUE}
      /\ binding_table' = binding_table
  BY DEF Restart, disk
<1>2. \A x \in Exchanges : Durable(x) => exchanges'[x] = exchanges[x] /\ Durable(x)'
  BY <1>0, <1>1 DEF RowsAreDurable, Durable
<1>3. \A q \in Queues : queues[q] = TRUE => queues'[q] = TRUE
  BY <1>0, <1>1 DEF RowsAreDurable
<1>4. ASSUME NEW x \in Exchanges, NEW q \in Queues, BoundKey(x, q)' # None
      PROVE  Durable(x) /\ queues[q] = TRUE /\ BoundKey(x, q)' = BoundKey(x, q)
  <2>1. BoundKey(x, q)' \in Found(x, q)
    BY <1>0, <1>4, RestartKeys
  <2>2. PICK key \in Found(x, q) : BoundKey(x, q)' = key
    BY <2>1
  <2> QED
    BY <2>2, FoundKeys
<1>5. EndsExist'
  <2>1. ASSUME NEW x \in Exchanges, NEW q \in Queues, BoundKey(x, q)' # None
        PROVE  exchanges'[x] # None /\ queues'[q] # None
    BY <1>2, <1>3, <1>4, <2>1 DEF Durable
  <2> QED
    BY <1>1, <2>1 DEF EndsExist, Idle
<1>6. RowsAreBound'
  <2> SUFFICES ASSUME NEW row \in binding_table
               PROVE  /\ Durable(row.exchange)' /\ queues'[row.queue] = TRUE
                      /\ BoundKey(row.exchange, row.queue)' = row.key
    BY <1>1 DEF RowsAreBound
  <2>1. row.exchange \in Exchanges /\ row.queue \in Queues
    BY <1>0 DEF TypeOK, Row
  <2>2. /\ Durable(row.exchange) /\ queues[row.queue] = TRUE
        /\ BoundKey(row.exchange, row.queue) = row.key
    BY <1>0 DEF RowsAreBound
  <2>3. row.key \in Found(row.exchange, row.queue)
    BY DEF Found
  <2>4. BoundKey(row.exchange, row.queue)' \in Found(row.exchange, row.queue)
    BY <1>0, <2>1, <2>3, RestartKeys
  <2>5. PICK key \in Found(row.exchange, row.queue) :
          BoundKey(row.exchange, row.queue)' = key
    BY <2>4
  <2>6. key = row.key
    BY <2>1, <2>2, <2>5, FoundKeys
  <2> QED
    BY <1>2, <1>3, <2>1, <2>2, <2>5, <2>6
<1>7. OnlyAskedBindings'
  <2> SUFFICES ASSUME NEW x \in Exchanges, NEW q \in Queues, BoundKey(x, q)' # None
               PROVE  [exchange |-> x, queue |-> q, key |-> BoundKey(x, q)'] \in asked'
    BY DEF OnlyAskedBindings
  <2>1. Durable(x) /\ queues[q] = TRUE /\ BoundKey(x, q)' = BoundKey(x, q)
    BY <1>4
  <2> QED
    BY <1>0, <1>1, <2>1 DEF OnlyAskedBindings
<1> QED
  BY <1>5, <1>6, <1>7 DEF Bound

LEMMA NextBound == UnbindSucceeds /\ Sound /\ Bound /\ [Next]_vars => Bound'
<1> SUFFICES ASSUME UnbindSucceeds, Sound, Bound, [Next]_vars PROVE Bound'
  OBVIOUS
<1>1. ASSUME NEW x \in Exchanges, NEW key \in Keys, NEW persistent \in BOOLEAN,
             Publish(x, key, persistent)
      PROVE  Bound'
  BY <1>1, SameBound DEF Publish, memory, disk
<1>2. ASSUME NEW q \in Queues,
             \/ \E durable \in BOOLEAN : InitQueueMessage(q, durable)
             \/ DestroyQueueMessage(q)
      PROVE  Bound'
  <2>1. UNCHANGED <<exchanges, queues, bindings, binding_table, asked>>
    BY <1>2 DEF InitQueueMessage, DestroyQueueMessage, disk
  <2>2. ASSUME NEW durable \in BOOLEAN, InitQueueMessage(q, durable) PROVE Bound'
    <3>1. request'.step = "declare queue"
      BY <2>2 DEF InitQueueMessage
    <3> QED
      BY <2>1, <3>1, SameBound
  <2>3. CASE DestroyQueueMessage(q)
    <3>1. request'.step = "unbind queue"
      BY <2>3 DEF DestroyQueueMessage
    <3> QED
      BY <2>1, <3>1, SameBound
  <2> QED
    BY <1>2, <2>2, <2>3
<1>3. ASSUME NEW q \in Queues, InsertMessage(q) PROVE Bound'
  <2>1. UNCHANGED <<exchanges, queues, bindings, binding_table, asked>>
    BY <1>3 DEF InsertMessage
  <2>2. request'.step \in {"idle", "publish"}
    BY <1>3, InsertMessageRequest DEF Sound
  <2> QED
    BY <2>1, <2>2, SameBound
<1>4. ASSUME NEW x \in Exchanges, ExchangeRequest(x) PROVE Bound'
  BY <1>1, <1>4, DeclareExchangeBound, UnbindByExchangeBound, DeleteExchangeBound
  DEF ExchangeRequest
<1>5. ASSUME NEW q \in Queues, QueueRequest(q) PROVE Bound'
  BY <1>2, <1>3, <1>5, DeclareQueueBound, UnbindByQueueBound, DeleteQueueBound
  DEF QueueRequest
<1>6. ASSUME NEW x \in Exchanges, NEW q \in Queues, BindingRequest(x, q) PROVE Bound'
  BY <1>6, BindBound, UnbindBound DEF BindingRequest
<1>7. CASE Restart
  BY <1>7, RestartBound
<1>8. CASE UNCHANGED vars
  BY <1>8, SameBound DEF vars, memory, disk
<1> QED
  BY <1>4, <1>5, <1>6, <1>7, <1>8 DEF Next

LEMMA AlwaysBound ==
  ASSUME UnbindSucceeds PROVE Spec => []Bound
<1>1. Sound /\ Bound /\ [Next]_vars => Bound'
  BY NextBound
<1> QED
  BY <1>1, InitBound, AlwaysSound, PTL DEF Spec

-----------------------------------------------------------------------------
(* When no statement fails whose result is ignored. *)

LEMMA InitTables == Init => TablesAgree
<1> SUFFICES ASSUME Init PROVE TablesAgree
  OBVIOUS
<1> QED
  BY MetadataAssumption
  DEF Init, TablesAgree, ExchangesAgree, QueuesAgree, BindingsAgree, Durable, Row

\* What TablesAgree does not see.
LEMMA SameTables ==
  ASSUME TablesAgree,
         UNCHANGED <<exchanges, queues, bindings, exchange_table, queue_table, binding_table>>
  PROVE  TablesAgree'
BY DEF TablesAgree, ExchangesAgree, QueuesAgree, BindingsAgree, BoundKey, Durable

LEMMA DeclareExchangeTables ==
  ASSUME IInv, NEW x \in Exchanges, NEW type \in Types, NEW durable \in BOOLEAN,
         DeclareExchange(x, type, durable)
  PROVE  TablesAgree'
<1> DEFINE exchange == [type |-> type, durable |-> durable]
<1> USE MetadataAssumption
<1>0. TypeOK /\ EndsExist /\ ExchangesAgree /\ QueuesAgree /\ BindingsAgree
  BY DEF IInv, Sound, Bound, TablesAgree
<1>1. /\ exchanges[x] = None /\ UNCHANGED <<queues, bindings, queue_table, binding_table>>
      /\ \/ /\ exchanges' = [exchanges EXCEPT ![x] = exchange]
            /\ exchange_table' = IF durable THEN [exchange_table EXCEPT ![x] = exchange]
                                            ELSE exchange_table
         \/ UNCHANGED <<exchanges, exchange_table>>
  BY DEF DeclareExchange
<1>2. exchange # None /\ exchange.durable = durable
  OBVIOUS
<1>3. \A y \in Exchanges : y # x => exchanges'[y] = exchanges[y] /\ Durable(y)' = Durable(y)
                                    /\ exchange_table'[y] = exchange_table[y]
  BY <1>0, <1>1 DEF TypeOK, Durable
<1>4. exchange_table'[x] = IF Durable(x)' THEN exchanges'[x] ELSE None
  BY <1>0, <1>1, <1>2 DEF TypeOK, Durable, ExchangesAgree
<1>5. ExchangesAgree' /\ QueuesAgree'
  BY <1>0, <1>1, <1>3, <1>4 DEF ExchangesAgree, QueuesAgree
<1>6. /\ \A y \in Exchanges, q \in Queues : BoundKey(y, q)' = BoundKey(y, q)
      /\ \A q \in Queues : BoundKey(x, q) = None
  BY <1>0, <1>1 DEF BoundKey, EndsExist
<1>7. ASSUME NEW row \in Row
      PROVE  row \in binding_table' <=>
               /\ Durable(row.exchange)' /\ queues'[row.queue] = TRUE
               /\ BoundKey(row.exchange, row.queue)' = row.key
  <2>1. row.exchange \in Exchanges /\ row.queue \in Queues /\ row.key # None
    BY DEF Row
  <2> QED
    BY <1>0, <1>1, <1>3, <1>6, <2>1 DEF BindingsAgree
<1> QED
  BY <1>5, <1>7 DEF TablesAgree, BindingsAgree

LEMMA UnbindByExchangeTables ==
  ASSUME IgnoredSucceed, IInv, NEW x \in Exchanges, UnbindByExchange(x)
  PROVE  TablesAgree'
<1> USE MetadataAssumption
<1>0. TypeOK /\ ExchangesAgree /\ QueuesAgree /\ BindingsAgree
  BY DEF IInv, Sound, TablesAgree
<1>1. /\ UNCHANGED <<exchanges, queues, exchange_table, queue_table>>
      /\ \/ bindings[x] = None /\ UNCHANGED <<bindings, binding_table>>
         \/ binding_table' = {row \in binding_table : row.exchange # x}
  BY DEF UnbindByExchange, Deletes, IgnoredSucceed
<1>2. \A y \in Exchanges, q \in Queues :
        BoundKey(y, q)' = IF y = x THEN None ELSE BoundKey(y, q)
  BY <1>0, UnbindByExchangeKeys
<1>3. ExchangesAgree' /\ QueuesAgree'
  BY <1>0, <1>1 DEF ExchangesAgree, QueuesAgree, Durable
<1>4. ASSUME NEW row \in Row
      PROVE  row \in binding_table' <=>
               /\ Durable(row.exchange)' /\ queues'[row.queue] = TRUE
               /\ BoundKey(row.exchange, row.queue)' = row.key
  <2>1. row.exchange \in Exchanges /\ row.queue \in Queues /\ row.key # None
    BY DEF Row
  <2>2. bindings[x] = None => (row.exchange = x => row \notin binding_table)
    BY <1>0, <2>1 DEF BindingsAgree, BoundKey
  <2>3. row \in binding_table' <=> row \in binding_table /\ row.exchange # x
    BY <1>1, <2>2
  <2> QED
    BY <1>0, <1>1, <1>2, <2>1, <2>3 DEF BindingsAgree, Durable
<1> QED
  BY <1>3, <1>4 DEF TablesAgree, BindingsAgree

LEMMA DeleteExchangeTables ==
  ASSUME IgnoredSucceed, IInv, NEW x \in Exchanges, DeleteExchange(x)
  PROVE  TablesAgree'
<1> USE MetadataAssumption
<1>0. TypeOK /\ EndsExist /\ ExchangesAgree /\ QueuesAgree /\ BindingsAgree
  BY DEF IInv, Sound, Bound, TablesAgree
<1>1. /\ request.step = "delete exchange" /\ request.exchange = x
      /\ exchanges' = [exchanges EXCEPT ![x] = None]
      /\ exchange_table' = IF Durable(x) THEN [exchange_table EXCEPT ![x] = None]
                                         ELSE exchange_table
      /\ UNCHANGED <<queues, bindings, queue_table, binding_table>>
  BY DEF DeleteExchange, Deletes, IgnoredSucceed
<1>2. /\ \A y \in Exchanges, q \in Queues : BoundKey(y, q)' = BoundKey(y, q)
      /\ \A q \in Queues : BoundKey(x, q) = None
  BY <1>0, <1>1 DEF BoundKey, EndsExist
<1>3. \A y \in Exchanges : y # x => exchanges'[y] = exchanges[y] /\ Durable(y)' = Durable(y)
                                    /\ exchange_table'[y] = exchange_table[y]
  BY <1>0, <1>1 DEF TypeOK, Durable
<1>4. exchange_table'[x] = None /\ ~Durable(x)'
  BY <1>0, <1>1 DEF TypeOK, Durable, ExchangesAgree
<1>5. ExchangesAgree' /\ QueuesAgree'
  BY <1>0, <1>1, <1>3, <1>4 DEF ExchangesAgree, QueuesAgree
<1>6. ASSUME NEW row \in Row
      PROVE  row \in binding_table' <=>
               /\ Durable(row.exchange)' /\ queues'[row.queue] = TRUE
               /\ BoundKey(row.exchange, row.queue)' = row.key
  <2>1. row.exchange \in Exchanges /\ row.queue \in Queues /\ row.key # None
    BY DEF Row
  <2>2. row.exchange = x => BoundKey(row.exchange, row.queue) # row.key
    BY <1>2, <2>1
  <2>3. row.exchange # x => (Durable(row.exchange)' <=> Durable(row.exchange))
    BY <1>3, <2>1
  <2> QED
    BY <1>0, <1>1, <1>2, <1>4, <2>1, <2>2, <2>3 DEF BindingsAgree
<1> QED
  BY <1>5, <1>6 DEF TablesAgree, BindingsAgree

LEMMA DeclareQueueTables ==
  ASSUME IInv, NEW q \in Queues, NEW durable \in BOOLEAN, DeclareQueue(q, durable)
  PROVE  TablesAgree'
<1> USE MetadataAssumption
<1>0. TypeOK /\ EndsExist /\ ExchangesAgree /\ QueuesAgree /\ BindingsAgree
  BY DEF IInv, Sound, Bound, TablesAgree
<1>1. /\ UNCHANGED <<exchanges, bindings, exchange_table, binding_table>>
      /\ \/ UNCHANGED <<queues, queue_table>>
         \/ /\ queues[q] = None
            /\ queues' = [queues EXCEPT ![q] = durable]
            /\ queue_table' = IF durable THEN [queue_table EXCEPT ![q] = TRUE] ELSE queue_table
  BY DEF DeclareQueue
<1>2. \A p \in Queues : /\ queues[p] # None => queues'[p] = queues[p]
                        /\ p # q => queues'[p] = queues[p] /\ queue_table'[p] = queue_table[p]
  BY <1>0, <1>1 DEF TypeOK
<1>3. queue_table'[q] = IF queues'[q] = TRUE THEN TRUE ELSE None
  BY <1>0, <1>1 DEF TypeOK, QueuesAgree
<1>4. ExchangesAgree'
  BY <1>0, <1>1 DEF ExchangesAgree, Durable
<1>5. QueuesAgree'
  BY <1>0, <1>2, <1>3 DEF QueuesAgree
<1>6. ASSUME NEW row \in Row
      PROVE  row \in binding_table' <=>
               /\ Durable(row.exchange)' /\ queues'[row.queue] = TRUE
               /\ BoundKey(row.exchange, row.queue)' = row.key
  <2>1. row.exchange \in Exchanges /\ row.queue \in Queues /\ row.key # None
    BY DEF Row
  <2>2. BoundKey(row.exchange, row.queue) = row.key => queues'[row.queue] = queues[row.queue]
    BY <1>0, <1>2, <2>1 DEF EndsExist
  <2> QED
    BY <1>0, <1>1, <2>1, <2>2 DEF BindingsAgree, BoundKey, Durable
<1> QED
  BY <1>4, <1>5, <1>6 DEF TablesAgree, BindingsAgree

LEMMA UnbindByQueueTables ==
  ASSUME IgnoredSucceed, IInv, NEW q \in Queues, UnbindByQueue(q)
  PROVE  TablesAgree'
<1> USE MetadataAssumption
<1>0. TypeOK /\ ExchangesAgree /\ QueuesAgree /\ BindingsAgree
  BY DEF IInv, Sound, TablesAgree
<1>1. UNCHANGED <<exchanges, queues, exchange_table, queue_table>>
  BY DEF UnbindByQueue
<1>2. \A x \in Exchanges, p \in Queues :
        BoundKey(x, p)' = IF p = q THEN None ELSE BoundKey(x, p)
  BY <1>0, UnbindByQueueKeys
<1>3. \A row \in Row : row \in binding_table' <=> row \in binding_table /\ row.queue # q
  <2>1. CASE \E x \in Exchanges : bindings[x] # None
    BY <2>1 DEF UnbindByQueue, Deletes, IgnoredSucceed
  <2>2. CASE \A x \in Exchanges : bindings[x] = None
    <3>1. \A row \in Row : row \notin binding_table
      BY <1>0, <2>2 DEF Row, BindingsAgree, BoundKey
    <3>2. binding_table' = binding_table
      BY <2>2 DEF UnbindByQueue
    <3> QED
      BY <3>1, <3>2
  <2> QED
    BY <2>1, <2>2
<1>4. ExchangesAgree' /\ QueuesAgree'
  BY <1>0, <1>1 DEF ExchangesAgree, QueuesAgree, Durable
<1>5. ASSUME NEW row \in Row
      PROVE  row \in binding_table' <=>
               /\ Durable(row.exchange)' /\ queues'[row.queue] = TRUE
               /\ BoundKey(row.exchange, row.queue)' = row.key
  <2>1. row.exchange \in Exchanges /\ row.queue \in Queues /\ row.key # None
    BY DEF Row
  <2> QED
    BY <1>0, <1>1, <1>2, <1>3, <2>1 DEF BindingsAgree, Durable
<1> QED
  BY <1>4, <1>5 DEF TablesAgree, BindingsAgree

LEMMA DeleteQueueTables ==
  ASSUME IgnoredSucceed, IInv, NEW q \in Queues, DeleteQueue(q)
  PROVE  TablesAgree'
<1> USE MetadataAssumption
<1>0. TypeOK /\ EndsExist /\ ExchangesAgree /\ QueuesAgree /\ BindingsAgree
  BY DEF IInv, Sound, Bound, TablesAgree
<1>1. /\ request.step = "delete queue" /\ request.queue = q
      /\ queues' = [queues EXCEPT ![q] = None]
      /\ queue_table' = IF queues[q] = TRUE THEN [queue_table EXCEPT ![q] = None] ELSE queue_table
      /\ UNCHANGED <<exchanges, bindings, exchange_table, binding_table>>
  BY DEF DeleteQueue, Deletes, IgnoredSucceed
<1>2. /\ \A x \in Exchanges, p \in Queues : BoundKey(x, p)' = BoundKey(x, p)
      /\ \A x \in Exchanges : BoundKey(x, q) = None
  BY <1>0, <1>1 DEF BoundKey, EndsExist
<1>3. \A p \in Queues : p # q => queues'[p] = queues[p] /\ queue_table'[p] = queue_table[p]
  BY <1>0, <1>1 DEF TypeOK
<1>4. queues'[q] = None /\ queue_table'[q] = None
  BY <1>0, <1>1 DEF TypeOK, QueuesAgree
<1>5. ExchangesAgree'
  BY <1>0, <1>1 DEF ExchangesAgree, Durable
<1>6. QueuesAgree'
  BY <1>0, <1>3, <1>4 DEF QueuesAgree
<1>7. ASSUME NEW row \in Row
      PROVE  row \in binding_table' <=>
               /\ Durable(row.exchange)' /\ queues'[row.queue] = TRUE
               /\ BoundKey(row.exchange, row.queue)' = row.key
  <2>1. row.exchange \in Exchanges /\ row.queue \in Queues /\ row.key # None
    BY DEF Row
  <2>2. BoundKey(row.exchange, row.queue) = row.key => queues'[row.queue] = queues[row.queue]
    BY <1>2, <1>3, <2>1
  <2> QED
    BY <1>0, <1>1, <1>2, <2>1, <2>2 DEF BindingsAgree, Durable
<1> QED
  BY <1>5, <1>6, <1>7 DEF TablesAgree, BindingsAgree

LEMMA BindTables ==
  ASSUME IgnoredSucceed, IInv, NEW x \in Exchanges, NEW q \in Queues, NEW key \in Keys,
         Bind(x, q, key)
  PROVE  TablesAgree'
<1> DEFINE new == [exchange |-> x, queue |-> q, key |-> key]
<1> USE MetadataAssumption
<1>0. TypeOK /\ ExchangesAgree /\ QueuesAgree /\ BindingsAgree
  BY DEF IInv, Sound, TablesAgree
<1>1. /\ exchanges[x] # None /\ queues[q] # None /\ BoundKey(x, q) = None
      /\ UNCHANGED <<exchanges, queues, exchange_table, queue_table>>
  BY DEF Bind
<1>2. binding_table' = IF Durable(x) /\ queues[q] = TRUE THEN binding_table \cup {new}
                                                         ELSE binding_table
  <2>1. queues[q] \in BOOLEAN
    BY <1>0, <1>1 DEF TypeOK
  <2> QED
    BY <1>1, <2>1 DEF Bind, Durable, IgnoredSucceed
<1>3. \A y \in Exchanges, p \in Queues :
        BoundKey(y, p)' = IF y = x /\ p = q THEN key ELSE BoundKey(y, p)
  BY <1>0, BindKeys
<1>4. ExchangesAgree' /\ QueuesAgree'
  BY <1>0, <1>1 DEF ExchangesAgree, QueuesAgree, Durable
<1>5. ASSUME NEW row \in Row
      PROVE  row \in binding_table' <=>
               /\ Durable(row.exchange)' /\ queues'[row.queue] = TRUE
               /\ BoundKey(row.exchange, row.queue)' = row.key
  <2>1. row.exchange \in Exchanges /\ row.queue \in Queues /\ row.key # None
    BY DEF Row
  <2>2. row = new <=> row.exchange = x /\ row.queue = q /\ row.key = key
    BY DEF Row
  <2>3. row \in binding_table <=> /\ Durable(row.exchange) /\ queues[row.queue] = TRUE
                                  /\ BoundKey(row.exchange, row.queue) = row.key
    BY <1>0 DEF BindingsAgree
  <2>4. Durable(row.exchange)' <=> Durable(row.exchange)
    BY <1>1 DEF Durable
  <2> HIDE DEF new
  <2> QED
    BY <1>1, <1>2, <1>3, <2>1, <2>2, <2>3, <2>4
<1> QED
  BY <1>4, <1>5 DEF TablesAgree, BindingsAgree

LEMMA UnbindTables ==
  ASSUME IgnoredSucceed, IInv, NEW x \in Exchanges, NEW q \in Queues, Unbind(x, q)
  PROVE  TablesAgree'
<1> USE MetadataAssumption
<1>0. TypeOK /\ ExchangesAgree /\ QueuesAgree /\ BindingsAgree
  BY DEF IInv, Sound, TablesAgree
<1>1. /\ binding_table' = {row \in binding_table : row.exchange # x \/ row.queue # q}
      /\ UNCHANGED <<exchanges, queues, exchange_table, queue_table>>
  BY DEF Unbind, Deletes, IgnoredSucceed
<1>2. \A y \in Exchanges, p \in Queues :
        BoundKey(y, p)' = IF y = x /\ p = q THEN None ELSE BoundKey(y, p)
  BY <1>0, UnbindKeys
<1>3. ExchangesAgree' /\ QueuesAgree'
  BY <1>0, <1>1 DEF ExchangesAgree, QueuesAgree, Durable
<1>4. ASSUME NEW row \in Row
      PROVE  row \in binding_table' <=>
               /\ Durable(row.exchange)' /\ queues'[row.queue] = TRUE
               /\ BoundKey(row.exchange, row.queue)' = row.key
  <2>1. row.exchange \in Exchanges /\ row.queue \in Queues /\ row.key # None
    BY DEF Row
  <2> QED
    BY <1>0, <1>1, <1>2, <2>1 DEF BindingsAgree, Durable
<1> QED
  BY <1>3, <1>4 DEF TablesAgree, BindingsAgree

\* What there is after a restart.
LEMMA AfterRestart ==
  ASSUME IInv, Restart
  PROVE  /\ \A x \in Exchanges : exchanges'[x] = IF Durable(x) THEN exchanges[x] ELSE None
         /\ \A q \in Queues : queues'[q] = IF queues[q] = TRUE THEN TRUE ELSE None
         /\ \A x \in Exchanges, q \in Queues :
              BoundKey(x, q)' = IF Durable(x) /\ queues[q] = TRUE THEN BoundKey(x, q) ELSE None
         /\ held' = held \cap data
<1> USE MetadataAssumption
<1>0. TypeOK /\ MessagesFollow /\ ExchangesAgree /\ QueuesAgree /\ BindingsAgree
  BY DEF IInv, Sound, TablesAgree
<1>1. \A x \in Exchanges : exchanges'[x] = IF Durable(x) THEN exchanges[x] ELSE None
  BY <1>0 DEF Restart, ExchangesAgree
<1>2. \A q \in Queues : queues'[q] = IF queues[q] = TRUE THEN TRUE ELSE None
  BY <1>0 DEF Restart, QueuesAgree
<1>3. held' = held \cap data
  <2>1. \A q \in data : q \in Queues /\ q \in held /\ queue_table[q] # None
    BY <1>0 DEF TypeOK, MessagesFollow, QueuesAgree
  <2> QED
    BY <2>1 DEF Restart
<1>4. ASSUME NEW x \in Exchanges, NEW q \in Queues
      PROVE  BoundKey(x, q)' = IF Durable(x) /\ queues[q] = TRUE THEN BoundKey(x, q) ELSE None
  <2>1. CASE Found(x, q) = {}
    <3>1. BoundKey(x, q) \in Keys \cup {None} /\ BoundKey(x, q)' = None
      BY <1>0, <2>1, BoundKeyType, RestartKeys
    <3>2. \A key \in Keys : [exchange |-> x, queue |-> q, key |-> key] \notin binding_table
      BY <2>1 DEF Found
    <3>3. \A key \in Keys : [exchange |-> x, queue |-> q, key |-> key] \in Row
      BY DEF Row
    <3>4. Durable(x) /\ queues[q] = TRUE => \A key \in Keys : BoundKey(x, q) # key
      BY <1>0, <3>2, <3>3 DEF BindingsAgree
    <3> QED
      BY <3>1, <3>4
  <2>2. CASE Found(x, q) # {}
    <3>1. BoundKey(x, q)' \in Found(x, q)
      BY <1>0, <2>2, RestartKeys
    <3>2. PICK key \in Found(x, q) : BoundKey(x, q)' = key
      BY <3>1
    <3> QED
      BY <3>2, FoundKeys DEF IInv
  <2> QED
    BY <2>1, <2>2
<1> QED
  BY <1>1, <1>2, <1>3, <1>4

LEMMA RestartTables ==
  ASSUME IInv, Restart
  PROVE  TablesAgree'
<1> USE MetadataAssumption
<1>0. ExchangesAgree /\ QueuesAgree /\ BindingsAgree
  BY DEF IInv, TablesAgree
<1>1. UNCHANGED <<exchange_table, queue_table, binding_table>>
  BY DEF Restart, disk
<1>2. /\ \A x \in Exchanges : exchanges'[x] = IF Durable(x) THEN exchanges[x] ELSE None
      /\ \A q \in Queues : queues'[q] = IF queues[q] = TRUE THEN TRUE ELSE None
      /\ \A x \in Exchanges, q \in Queues :
           BoundKey(x, q)' = IF Durable(x) /\ queues[q] = TRUE THEN BoundKey(x, q) ELSE None
  BY AfterRestart
<1>3. \A x \in Exchanges : Durable(x)' <=> Durable(x)
  BY <1>2 DEF Durable
<1>4. ExchangesAgree' /\ QueuesAgree'
  BY <1>0, <1>1, <1>2, <1>3 DEF ExchangesAgree, QueuesAgree
<1>5. ASSUME NEW row \in Row
      PROVE  row \in binding_table' <=>
               /\ Durable(row.exchange)' /\ queues'[row.queue] = TRUE
               /\ BoundKey(row.exchange, row.queue)' = row.key
  <2>1. row.exchange \in Exchanges /\ row.queue \in Queues /\ row.key # None
    BY DEF Row
  <2> QED
    BY <1>0, <1>1, <1>2, <1>3, <2>1 DEF BindingsAgree
<1> QED
  BY <1>4, <1>5 DEF TablesAgree, BindingsAgree

LEMMA NextTables == IgnoredSucceed /\ IInv /\ [Next]_vars => TablesAgree'
<1> SUFFICES ASSUME IgnoredSucceed, IInv, [Next]_vars PROVE TablesAgree'
  OBVIOUS
<1>0. TablesAgree
  BY DEF IInv
<1>1. ASSUME NEW x \in Exchanges, NEW key \in Keys, NEW persistent \in BOOLEAN,
             Publish(x, key, persistent)
      PROVE  TablesAgree'
  BY <1>0, <1>1, SameTables DEF Publish, memory, disk
<1>2. ASSUME NEW q \in Queues,
             \/ \E durable \in BOOLEAN : InitQueueMessage(q, durable)
             \/ DestroyQueueMessage(q) \/ InsertMessage(q)
      PROVE  TablesAgree'
  <2>1. UNCHANGED <<exchanges, queues, bindings, exchange_table, queue_table, binding_table>>
    BY <1>2 DEF InitQueueMessage, DestroyQueueMessage, InsertMessage, disk
  <2> QED
    BY <1>0, <2>1, SameTables
<1>3. ASSUME NEW x \in Exchanges, ExchangeRequest(x) PROVE TablesAgree'
  BY <1>1, <1>3, DeclareExchangeTables, UnbindByExchangeTables, DeleteExchangeTables
  DEF ExchangeRequest
<1>4. ASSUME NEW q \in Queues, QueueRequest(q) PROVE TablesAgree'
  BY <1>2, <1>4, DeclareQueueTables, UnbindByQueueTables, DeleteQueueTables
  DEF QueueRequest
<1>5. ASSUME NEW x \in Exchanges, NEW q \in Queues, BindingRequest(x, q) PROVE TablesAgree'
  BY <1>5, BindTables, UnbindTables DEF BindingRequest
<1>6. CASE Restart
  BY <1>6, RestartTables
<1>7. CASE UNCHANGED vars
  BY <1>0, <1>7, SameTables DEF vars, memory, disk
<1> QED
  BY <1>3, <1>4, <1>5, <1>6, <1>7 DEF Next

LEMMA AlwaysIInv ==
  ASSUME IgnoredSucceed PROVE Spec => []IInv
<1>1. UnbindSucceeds
  BY DEF IgnoredSucceed, UnbindSucceeds
<1>2. IInv /\ [Next]_vars => IInv'
  BY <1>1, NextSound, NextBound, NextTables DEF IInv
<1>3. Init => IInv
  BY InitSound, InitBound, InitTables DEF IInv
<1> QED
  BY <1>2, <1>3, PTL DEF Spec

-----------------------------------------------------------------------------
\* The maps and tables keep to their types, whatever fails.
THEOREM TypeCorrect == Spec => []TypeOK
<1>1. Sound => TypeOK
  BY DEF Sound
<1> QED
  BY <1>1, AlwaysSound, PTL

\* No queue gets the messages of a deleted one, whatever fails: deleteQueue
\* removes them from memory and disk before anything else.
THEOREM NoMessageComesBack == Spec => []OnlyFedQueuesHold
<1>1. Sound => OnlyFedQueuesHold
  BY DEF Sound, MessagesFollow, OnlyFedQueuesHold
<1> QED
  BY <1>1, AlwaysSound, PTL

\* A binding always has its two ends, and a queue that messages are routed to
\* has its handle, provided that bindings can be deleted.
THEOREM BindingsAlwaysResolve ==
  ASSUME UnbindSucceeds PROVE Spec => []BindingsResolve
<1>1. Sound /\ Bound => BindingsResolve
  BY DEF Sound, Bound, EndsExist, MessagesFollow, BindingsResolve
<1> QED
  BY <1>1, AlwaysSound, AlwaysBound, PTL

\* No deleted binding comes back, with a new declaration or with a restart,
\* provided that bindings can be deleted.
THEOREM NoBindingComesBack ==
  ASSUME UnbindSucceeds PROVE Spec => []OnlyAskedBindings
<1>1. Bound => OnlyAskedBindings
  BY DEF Bound
<1> QED
  BY <1>1, AlwaysBound, PTL

\* A restart keeps what is durable and nothing else, wherever a request was,
\* provided that none of the statements fails whose results are ignored.
THEOREM DurableSurvives ==
  ASSUME IgnoredSucceed PROVE Spec => RestartKeepsTheDurable
<1> DEFINE Kept ==
      Restart =>
        /\ \A x \in Exchanges : exchanges'[x] = IF Durable(x) THEN exchanges[x] ELSE None
        /\ \A q \in Queues : queues'[q] = IF queues[q] = TRUE THEN TRUE ELSE None
        /\ \A x \in Exchanges, q \in Queues :
             BoundKey(x, q)' =
               IF Durable(x) /\ queues[q] = TRUE THEN BoundKey(x, q) ELSE None
        /\ held' = held \cap data
<1>1. IInv => Kept
  BY AfterRestart
<1>2. IInv => [Kept]_vars
  BY <1>1
<1> QED
  BY <1>2, AlwaysIInv, PTL DEF RestartKeepsTheDurable
=============================================================================
