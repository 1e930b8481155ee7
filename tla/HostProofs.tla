----------------------------- MODULE HostProofs -----------------------------
(***************************************************************************)
(* Metadata implements DurableHost, for every set of names and keys, when  *)
(* the statements whose result the code ignores do not fail.               *)
(*                                                                         *)
(* Each call of a manager is one step of the abstract host or changes      *)
(* nothing it can see.  MetadataProofs' invariant makes it so at the two   *)
(* places where it is not plain: what is deleted has no binding left       *)
(* (EndsExist), and the tables a restart reads are the durable part of     *)
(* the memory (TablesAgree).                                               *)
(***************************************************************************)
EXTENDS MetadataProofs

\* The bindings the abstract host sees.
Seen == {row \in Row : BoundKey(row.exchange, row.queue) = row.key}

LEMMA SeenRows ==
  /\ \A row \in Seen : /\ row \in Row /\ row.exchange \in Exchanges /\ row.queue \in Queues
                        /\ BoundKey(row.exchange, row.queue) = row.key /\ row.key # None
  /\ Seen' = {row \in Row : BoundKey(row.exchange, row.queue)' = row.key}
BY MetadataAssumption DEF Seen, Row

\* The bindings are the same when the keys are.
LEMMA SameSeen ==
  ASSUME \A x \in Exchanges, q \in Queues : BoundKey(x, q)' = BoundKey(x, q)
  PROVE  Seen' = Seen
BY DEF Seen, Row

\* What is unbound is what the abstract host takes out.
LEMMA LessSeen ==
  ASSUME NEW Gone,
         \A x \in Exchanges, q \in Queues :
           BoundKey(x, q)' = IF <<x, q>> \in Gone THEN None ELSE BoundKey(x, q)
  PROVE  Seen' = {b \in Seen : <<b.exchange, b.queue>> \notin Gone}
<1>1. \A row \in Row : row.exchange \in Exchanges /\ row.queue \in Queues /\ row.key # None
  BY MetadataAssumption DEF Row
<1> QED
  BY <1>1 DEF Seen

\* Nothing of what the abstract host sees changes.
LEMMA HostStutters ==
  ASSUME UNCHANGED <<exchanges, queues, bindings>>
  PROVE  UNCHANGED Host!vars
<1>1. Seen' = Seen
  BY SameSeen DEF BoundKey
<1> QED
  BY <1>1 DEF Host!vars, Seen

LEMMA HostInit == Init => Host!Init
<1> SUFFICES ASSUME Init PROVE Host!Init
  OBVIOUS
<1>1. \A x \in Exchanges, q \in Queues : BoundKey(x, q) = None
  BY DEF Init, BoundKey
<1>2. {row \in Row : BoundKey(row.exchange, row.queue) = row.key} = {}
  BY <1>1, MetadataAssumption DEF Row
<1> QED
  BY <1>2 DEF Init, Host!Init

-----------------------------------------------------------------------------
(* Exchanges. *)

LEMMA DeclareExchangeHost ==
  ASSUME IInv, NEW x \in Exchanges, NEW type \in Types, NEW durable \in BOOLEAN,
         DeclareExchange(x, type, durable)
  PROVE  Host!DeclareExchange(x) \/ UNCHANGED Host!vars
<1>1. UNCHANGED <<queues, bindings>> /\ exchanges[x] = None
  BY DEF DeclareExchange
<1>2. \/ exchanges' = [exchanges EXCEPT ![x] = [type |-> type, durable |-> durable]]
      \/ UNCHANGED exchanges
  BY DEF DeclareExchange
<1>3. Seen' = Seen
  BY <1>1, SameSeen DEF BoundKey
<1>4. CASE exchanges' = [exchanges EXCEPT ![x] = [type |-> type, durable |-> durable]]
  BY <1>1, <1>3, <1>4 DEF Host!DeclareExchange, Seen
<1>5. CASE UNCHANGED exchanges
  BY <1>1, <1>5, HostStutters
<1> QED
  BY <1>2, <1>4, <1>5

LEMMA UnbindByExchangeHost ==
  ASSUME IInv, NEW x \in Exchanges, UnbindByExchange(x)
  PROVE  Host!UnbindExchange(x)
<1> USE MetadataAssumption
<1>1. /\ UNCHANGED <<exchanges, queues>>
      /\ \/ bindings[x] = None /\ UNCHANGED bindings
         \/ bindings' = [bindings EXCEPT ![x] = None]
  BY DEF UnbindByExchange
<1>2. TypeOK
  BY DEF IInv, Sound
<1> DEFINE Gone == {x} \X Queues
<1>3. \A y \in Exchanges, q \in Queues :
        BoundKey(y, q)' = IF <<y, q>> \in Gone THEN None ELSE BoundKey(y, q)
  BY <1>1, <1>2 DEF TypeOK, BoundKey
<1> HIDE DEF Gone
<1>4. Seen' = {b \in Seen : <<b.exchange, b.queue>> \notin Gone}
  BY <1>3, LessSeen
<1> QED
  BY <1>1, <1>4, SeenRows DEF Gone, Host!UnbindExchange, Seen

LEMMA DeleteExchangeHost ==
  ASSUME IInv, NEW x \in Exchanges, DeleteExchange(x)
  PROVE  Host!DeleteExchange(x)
<1>1. /\ request.step = "delete exchange" /\ request.exchange = x
      /\ exchanges' = [exchanges EXCEPT ![x] = None]
      /\ UNCHANGED <<queues, bindings>>
  BY DEF DeleteExchange
<1>2. \A q \in Queues : BoundKey(x, q) = None
  BY <1>1 DEF IInv, Bound, EndsExist
<1>3. \A b \in Seen : b.exchange # x
  BY <1>2, SeenRows
<1>4. Seen' = Seen
  BY <1>1, SameSeen DEF BoundKey
<1> QED
  BY <1>1, <1>3, <1>4 DEF Host!DeleteExchange, Seen

-----------------------------------------------------------------------------
(* Queues. *)

LEMMA DeclareQueueHost ==
  ASSUME IInv, NEW q \in Queues, NEW durable \in BOOLEAN, DeclareQueue(q, durable)
  PROVE  Host!DeclareQueue(q) \/ UNCHANGED Host!vars
<1>1. UNCHANGED <<exchanges, bindings>>
  BY DEF DeclareQueue
<1>2. \/ queues[q] = None /\ queues' = [queues EXCEPT ![q] = durable]
      \/ UNCHANGED queues
  BY DEF DeclareQueue
<1>3. Seen' = Seen
  BY <1>1, SameSeen DEF BoundKey
<1>4. CASE queues[q] = None /\ queues' = [queues EXCEPT ![q] = durable]
  BY <1>1, <1>3, <1>4 DEF Host!DeclareQueue, Seen
<1>5. CASE UNCHANGED queues
  BY <1>1, <1>5, HostStutters
<1> QED
  BY <1>2, <1>4, <1>5

LEMMA UnbindByQueueHost ==
  ASSUME IInv, NEW q \in Queues, UnbindByQueue(q)
  PROVE  Host!UnbindQueue(q)
<1> USE MetadataAssumption
<1>1. /\ UNCHANGED <<exchanges, queues>>
      /\ bindings' = [x \in Exchanges |->
           IF bindings[x] = None THEN None ELSE [bindings[x] EXCEPT ![q] = None]]
  BY DEF UnbindByQueue
<1>2. \A x \in Exchanges : bindings[x] \in [Queues -> Keys \cup {None}] \cup {None}
  BY DEF IInv, Sound, TypeOK
<1> DEFINE Gone == Exchanges \X {q}
<1>3. ASSUME NEW x \in Exchanges, NEW p \in Queues
      PROVE  BoundKey(x, p)' = IF <<x, p>> \in Gone THEN None ELSE BoundKey(x, p)
  <2>1. CASE bindings[x] = None
    BY <1>1, <2>1 DEF BoundKey
  <2>2. CASE bindings[x] # None
    <3>1. bindings[x] \in [Queues -> Keys \cup {None}]
      BY <1>2, <2>2
    <3>2. bindings'[x] = [bindings[x] EXCEPT ![q] = None] /\ bindings'[x] # None
      BY <1>1, <2>2, <3>1
    <3> QED
      BY <2>2, <3>1, <3>2 DEF BoundKey
  <2> QED
    BY <2>1, <2>2
<1> HIDE DEF Gone
<1>4. Seen' = {b \in Seen : <<b.exchange, b.queue>> \notin Gone}
  BY <1>3, LessSeen
<1> QED
  BY <1>1, <1>4, SeenRows DEF Gone, Host!UnbindQueue, Seen

LEMMA DeleteQueueHost ==
  ASSUME IInv, NEW q \in Queues, DeleteQueue(q)
  PROVE  Host!DeleteQueue(q)
<1>1. /\ request.step = "delete queue" /\ request.queue = q
      /\ queues' = [queues EXCEPT ![q] = None]
      /\ UNCHANGED <<exchanges, bindings>>
  BY DEF DeleteQueue
<1>2. \A x \in Exchanges : BoundKey(x, q) = None
  BY <1>1 DEF IInv, Bound, EndsExist
<1>3. \A b \in Seen : b.queue # q
  BY <1>2, SeenRows
<1>4. Seen' = Seen
  BY <1>1, SameSeen DEF BoundKey
<1> QED
  BY <1>1, <1>3, <1>4 DEF Host!DeleteQueue, Seen

-----------------------------------------------------------------------------
(* Bindings. *)

LEMMA BindHost ==
  ASSUME IInv, NEW x \in Exchanges, NEW q \in Queues, NEW key \in Keys, Bind(x, q, key)
  PROVE  Host!Bind(x, q, key)
<1> DEFINE new == [exchange |-> x, queue |-> q, key |-> key]
<1> USE MetadataAssumption
<1>1. /\ exchanges[x] # None /\ queues[q] # None /\ BoundKey(x, q) = None
      /\ bindings' = [bindings EXCEPT ![x] = [Entry(x) EXCEPT ![q] = key]]
      /\ UNCHANGED <<exchanges, queues>>
  BY DEF Bind
<1>2. bindings \in [Exchanges -> [Queues -> Keys \cup {None}] \cup {None}]
  BY DEF IInv, Sound, TypeOK
<1>3. Entry(x) \in [Queues -> Keys \cup {None}]
  BY <1>2 DEF Entry
<1>4. \A y \in Exchanges, p \in Queues :
        BoundKey(y, p)' = IF y = x /\ p = q THEN key ELSE BoundKey(y, p)
  <2> SUFFICES ASSUME NEW y \in Exchanges, NEW p \in Queues
               PROVE  BoundKey(y, p)' = IF y = x /\ p = q THEN key ELSE BoundKey(y, p)
    OBVIOUS
  <2>1. CASE y # x
    <3>1. bindings'[y] = bindings[y]
      BY <1>1, <1>2, <2>1
    <3> QED
      BY <2>1, <3>1 DEF BoundKey
  <2>2. CASE y = x
    <3>1. bindings'[x] = [Entry(x) EXCEPT ![q] = key] /\ bindings'[x] # None
      BY <1>1, <1>2, <1>3
    <3>2. BoundKey(x, p) = Entry(x)[p]
      BY DEF BoundKey, Entry
    <3>3. BoundKey(x, p)' = [Entry(x) EXCEPT ![q] = key][p]
      BY <3>1 DEF BoundKey
    <3> QED
      BY <1>3, <2>2, <3>2, <3>3
  <2> QED
    BY <2>1, <2>2
<1>5. \A b \in Seen : b.exchange # x \/ b.queue # q
  BY <1>1, SeenRows
<1>6. ASSUME NEW row \in Row
      PROVE  BoundKey(row.exchange, row.queue)' = row.key <=> row \in Seen \/ row = new
  <2>1. row.exchange \in Exchanges /\ row.queue \in Queues /\ row.key # None
    BY DEF Row
  <2>2. row = new <=> row.exchange = x /\ row.queue = q /\ row.key = key
    BY DEF Row
  <2> HIDE DEF new
  <2> QED
    BY <1>1, <1>4, <2>1, <2>2 DEF Seen
<1>7. new \in Row
  BY DEF Row
<1>8. Seen' = Seen \cup {new}
  <2> HIDE DEF new
  <2>1. Seen \subseteq Row
    BY SeenRows
  <2> QED
    BY <1>6, <1>7, <2>1, SeenRows
<1> QED
  BY <1>1, <1>5, <1>8 DEF Host!Bind, Seen

LEMMA UnbindHost ==
  ASSUME IInv, NEW x \in Exchanges, NEW q \in Queues, Unbind(x, q)
  PROVE  Host!Unbind(x, q)
<1> USE MetadataAssumption
<1>1. /\ BoundKey(x, q) # None
      /\ bindings' = [bindings EXCEPT ![x][q] = None]
      /\ UNCHANGED <<exchanges, queues>>
  BY DEF Unbind
<1>2. bindings \in [Exchanges -> [Queues -> Keys \cup {None}] \cup {None}]
  BY DEF IInv, Sound, TypeOK
<1>3. bindings[x] \in [Queues -> Keys \cup {None}]
  BY <1>1, <1>2 DEF BoundKey
<1>4. /\ bindings'[x] = [bindings[x] EXCEPT ![q] = None]
      /\ \A y \in Exchanges : y # x => bindings'[y] = bindings[y]
  BY <1>1, <1>2
<1> DEFINE Gone == {<<x, q>>}
<1>5. ASSUME NEW y \in Exchanges, NEW p \in Queues
      PROVE  BoundKey(y, p)' = IF <<y, p>> \in Gone THEN None ELSE BoundKey(y, p)
  <2>1. CASE y # x
    BY <1>4, <2>1 DEF BoundKey
  <2>2. CASE y = x
    <3>1. bindings[x] # None /\ bindings'[x] # None
      BY <1>3, <1>4
    <3> QED
      BY <1>3, <1>4, <2>2, <3>1 DEF BoundKey
  <2> QED
    BY <2>1, <2>2
<1> HIDE DEF Gone
<1>6. Seen' = {b \in Seen : <<b.exchange, b.queue>> \notin Gone}
  BY <1>5, LessSeen
<1>7. \A b \in Seen : <<b.exchange, b.queue>> \notin Gone <=> b.exchange # x \/ b.queue # q
  BY SeenRows DEF Gone
<1> QED
  BY <1>1, <1>6, <1>7 DEF Host!Unbind, Seen

-----------------------------------------------------------------------------
(* Restarts. *)

LEMMA RestartHost ==
  ASSUME IInv, Restart PROVE Host!Restart
<1>0. TypeOK
  BY DEF IInv, Sound
<1>1. /\ \A x \in Exchanges : exchanges'[x] = IF Durable(x) THEN exchanges[x] ELSE None
      /\ \A q \in Queues : queues'[q] = IF queues[q] = TRUE THEN TRUE ELSE None
      /\ \A x \in Exchanges, q \in Queues :
           BoundKey(x, q)' = IF Durable(x) /\ queues[q] = TRUE THEN BoundKey(x, q) ELSE None
  BY AfterRestart
<1>2. /\ exchanges' \in [Exchanges -> Exchange \cup {None}]
      /\ queues' \in [Queues -> BOOLEAN \cup {None}]
  BY <1>0 DEF Restart, TypeOK
<1>3. \A x : Host!DurableExchange(x) <=> Durable(x)
  BY DEF Host!DurableExchange, Durable
<1>4. /\ exchanges' = [x \in Exchanges |-> IF Durable(x) THEN exchanges[x] ELSE None]
      /\ queues' = [q \in Queues |-> IF queues[q] = TRUE THEN TRUE ELSE None]
  BY <1>1, <1>2
<1> DEFINE Gone == {e \in Exchanges \X Queues : ~(Durable(e[1]) /\ queues[e[2]] = TRUE)}
<1>5. \A x \in Exchanges, q \in Queues :
        BoundKey(x, q)' = IF <<x, q>> \in Gone THEN None ELSE BoundKey(x, q)
  BY <1>1
<1> HIDE DEF Gone
<1>6. Seen' = {b \in Seen : <<b.exchange, b.queue>> \notin Gone}
  BY <1>5, LessSeen
<1>7. \A b \in Seen :
        <<b.exchange, b.queue>> \notin Gone <=> Durable(b.exchange) /\ queues[b.queue] = TRUE
  BY SeenRows DEF Gone
<1>8. Seen' = {b \in Seen : Host!DurableExchange(b.exchange) /\ queues[b.queue] = TRUE}
  BY <1>3, <1>6, <1>7
<1> QED
  BY <1>3, <1>4, <1>8 DEF Host!Restart, Seen

-----------------------------------------------------------------------------
LEMMA HostStep ==
  ASSUME IInv, [Next]_vars PROVE [Host!Next]_(Host!vars)
<1>1. ASSUME NEW x \in Exchanges, ExchangeRequest(x) PROVE [Host!Next]_(Host!vars)
  <2>1. ASSUME NEW type \in Types, NEW durable \in BOOLEAN, DeclareExchange(x, type, durable)
        PROVE  [Host!Next]_(Host!vars)
    BY <2>1, DeclareExchangeHost DEF Host!Next
  <2>2. CASE UnbindByExchange(x)
    BY <2>2, UnbindByExchangeHost DEF Host!Next
  <2>3. CASE DeleteExchange(x)
    BY <2>3, DeleteExchangeHost DEF Host!Next
  <2>4. ASSUME NEW key \in Keys, NEW persistent \in BOOLEAN, Publish(x, key, persistent)
        PROVE  [Host!Next]_(Host!vars)
    BY <2>4, HostStutters DEF Publish, memory
  <2> QED
    BY <1>1, <2>1, <2>2, <2>3, <2>4 DEF ExchangeRequest
<1>2. ASSUME NEW q \in Queues, QueueRequest(q) PROVE [Host!Next]_(Host!vars)
  <2>1. ASSUME NEW durable \in BOOLEAN, InitQueueMessage(q, durable)
        PROVE  [Host!Next]_(Host!vars)
    BY <2>1, HostStutters DEF InitQueueMessage
  <2>2. ASSUME NEW durable \in BOOLEAN, DeclareQueue(q, durable)
        PROVE  [Host!Next]_(Host!vars)
    BY <2>2, DeclareQueueHost DEF Host!Next
  <2>3. CASE DestroyQueueMessage(q)
    BY <2>3, HostStutters DEF DestroyQueueMessage
  <2>4. CASE UnbindByQueue(q)
    BY <2>4, UnbindByQueueHost DEF Host!Next
  <2>5. CASE DeleteQueue(q)
    BY <2>5, DeleteQueueHost DEF Host!Next
  <2>6. CASE InsertMessage(q)
    BY <2>6, HostStutters DEF InsertMessage
  <2> QED
    BY <1>2, <2>1, <2>2, <2>3, <2>4, <2>5, <2>6 DEF QueueRequest
<1>3. ASSUME NEW x \in Exchanges, NEW q \in Queues, BindingRequest(x, q)
      PROVE  [Host!Next]_(Host!vars)
  BY <1>3, BindHost, UnbindHost DEF BindingRequest, Host!Next
<1>4. CASE Restart
  BY <1>4, RestartHost DEF Host!Next
<1>5. CASE UNCHANGED vars
  BY <1>5, HostStutters DEF vars, memory
<1> QED
  BY <1>1, <1>2, <1>3, <1>4, <1>5 DEF Next

\* Whatever the requests and the kills between their calls, what clients can
\* see is a host whose restart keeps exactly what is durable.
THEOREM HostImplemented ==
  ASSUME IgnoredSucceed PROVE Spec => ImplementsHost
<1>1. IInv /\ [Next]_vars => [Host!Next]_(Host!vars)
  BY HostStep
<1> QED
  BY <1>1, HostInit, AlwaysIInv, PTL DEF Spec, ImplementsHost, Host!Spec
=============================================================================
