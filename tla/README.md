# Verification of the message queue broker

The repository is a small AMQP-like broker in C++: a server that routes
published messages to queues and pushes them to subscribers, a client library,
and durable queues whose messages survive a restart of the server. This
directory holds TLA+ models of it, the TLC configurations that check them on
small instances, and TLAPS proofs for every size of instance. Paths below are
relative to `src/MessageQueues/`.

## 1. The system

One thread, the event loop of muduo, decodes requests and runs their handlers
one after the other. A pool of two threads runs the tasks that push messages to
subscribers. Everything the two share is guarded by a mutex per object, never
by one mutex for several objects.

| Component | State | Operations | Talks to |
|---|---|---|---|
| `MessageMapper`, `QueueMessage`, `MessageManager` (`MQServer/Message.hpp`) | per queue: the data file and the temp file, the list to be pushed, the hash of the durable messages, the hash of those waiting for an ack, two counts | insert, front, remove (ack), garbage collection, recovery, clear | file system |
| `ThreadPool` (`MQCommon/ThreadPool.hpp`) | vector of tasks, stop flag, mutex, condition variable | push, Stop, the workers' loop | runs `Channel::consume` |
| `Channel`, `ChannelManager` (`MQServer/Channel.hpp`) | the map of channels, each channel's own consumer | one handler per request; `consume` and `callback` in the pool | everything below |
| `ConsumerManager` (`MQServer/Consumer.hpp`) | per queue: the vector of consumers, the turn counter | create, remove, choose, init, destroy | |
| `VirtualHost` (`MQServer/VirtualHost.hpp`) | none of its own | forwards to the managers, in an order of its own | the four managers |
| `ExchangeManager`, `QueueManager`, `BindingManager` | a map in memory, a sqlite table of its durable part | declare, delete, bind, unbind, recover | sqlite |
| `RouteManager` (`MQServer/Route.hpp`) | none | direct, fanout and topic match | |
| `Connection`, `ConnectionManager`, `BrokerServer` | the map of connections, each with its channels | new and lost connections, open and close of channels, dispatch | `Channel` |
| client library (`MQClient/`) | map of responses, the subscription, the channels of the connection | requests that wait for their response, delivery of pushes | server |

What is hard here, and what each component has to get right:

* **Message store.** The process can be killed between any two calls of the
  file system. A durable message that was accepted and not acknowledged must be
  there after the restart and an acknowledged one must not. An ack writes in
  place at an offset kept in memory, and a garbage collection moves every
  record. The two counts decide when to collect.
* **Thread pool.** Wakeups can be lost or spurious; whole batches are swapped
  out; Stop() is called from a thread that does not take the mutex.
* **Delivery.** Publishing, taking the head of the queue, choosing a consumer,
  sending and acknowledging are separate critical sections of different objects.
  In between, channels are closed, connections lost, consumers cancelled and the
  queue is deleted and declared again. Tasks and callbacks hold raw pointers to
  channels.
* **Metadata.** Each change is made in memory and in the database, with no
  transaction over the two or over the tables.
* **Routing.** A dynamic program over the words of the two keys.
* **Client.** Threads wait for a response that another thread delivers, and the
  workers that acknowledge from callbacks are among them; pushes may come before
  the subscription is stored and after it is cancelled; a channel may be closed
  while workers use it; a connection may go away.

`PROJECT.json` lists the hazards one by one, each at its line with the
properties that watch it.

## 2. Modules

| Module | Models | State and actions |
|---|---|---|
| `AtLeastOnceQueue` | what a queue promises | accept, deliver oldest first, settle, delete, restart |
| `MessageStore` | one `QueueMessage` with its files | the fields of the class by name; `data` and `temp` are sequences of records; `pc` is where the holder of the mutex is |
| `MessageStoreProofs`, `StoreOrderProofs` | | the theorems about the store, the second about order, counts and refinement |
| `MCMessageStore` | | instances |
| `ThreadPool`, `MCThreadPool` | `ThreadPool` | a pc per worker, `asleep` being the wait on the condition variable; `push` and the three parts of `Stop` |
| `TaskPool` | what the pool promises | push, take all, begin the next, without mutex, sleep or stop |
| `ThreadPoolProofs` | | the theorems about the pool |
| `Metadata`, `MCMetadata` | `VirtualHost`, `ExchangeManager`, `QueueManager`, `BindingManager`, and the routing of a publish | the maps and the tables by name; `request` is what is left of a request, one step per call of a manager; `Restart` |
| `MetadataProofs` | | the theorems about the tables |
| `DurableHost` | what a virtual host promises | exchanges, queues and bindings, without database, managers or half done requests; `Restart` keeps the durable ones |
| `HostProofs` | | `Metadata` implements `DurableHost` |
| `Route`, `MCRoute` | `RouteManager::route` with `StrHelper::split` | operators; `MCRoute` grows two keys word by word |
| `RouteProofs` | | the theorems about the topic match |
| `Delivery`, `MCDelivery` | `Connection`, `Channel`, `ConsumerManager`, one queue's memory, the pool's batches | one action per handler, or per critical section of it that workers can see; the loss of a connection; four steps of `Channel::consume` |
| `Dispatch` | what delivery promises | the queue of `AtLeastOnceQueue`; consumers come and go; a message delivered is assigned to one of them, and sent |
| `DeliveryProofs` | | the theorems about delivery |
| `Client`, `MCClient` | `MQClient/`: `Connection`, `Channel`, `Subscriber`, `AsyncWorker`; the server's dispatch and answers | the two directions of the connection as sequences; a pc per application thread and per worker; one action per call, its return, and each handler of the server |
| `ClientProofs` | | the theorems about the client |

The abstract modules tie the others together. Components are modelled one by one,
and where one uses another, its module does what the other's abstract module
allows:

```
MessageStore --implements--> AtLeastOnceQueue <--extends-- Dispatch <--implements-- Delivery
ThreadPool   --implements--> TaskPool         <--uses------------------------------ Delivery
Metadata     --implements--> DurableHost
```

`Delivery` has the queue's memory without files and the pool without its mutex.
That it may is a theorem on each side: its messages take the steps of
`AtLeastOnceQueue`, its tasks those of `TaskPool`.

**MessageStore.** An operation is split where a kill leaves something behind:
`InsertHeader`/`InsertPayload` (the two writes of `insert`), `GcCopy` (one
record of the loops of `garbageCollection`), `GcUnlink`, `GcRename`,
`ClearData`/`ClearTemp`. `Boot` is `initQueueMessage`, for a queue that is
declared and for one found in the database at start-up; both run `recovery`.
Abstractions, and why they are faithful:

* A record is one slot and an offset counts slots. `remove` refuses to
  overwrite a payload by one of another length, and setting `valid` from "1" to
  "0" keeps the length, so a slot never changes its size.
* A missing file and an empty one are the same value: the constructor creates
  the data file if it is missing, `createFile` truncates the temp file.
* Nothing between the insertion into the manager's map and `recovery` can
  happen but a `front` that finds an empty list, which changes nothing.
* A header without its payload is a record of the message `Phantom`: the read
  fails, the string of zeros does not parse, and the message that results has no
  id and a valid flag that is not "0". It is not durable, for the default mode
  is not DURABLE, so acknowledging it leaves its record.
* Ids are unique. `UUIDHelper` makes them so; see section 6 for clients that
  reuse one.
* File calls do not fail. Kills are modelled, errors are not (section 6).

**ThreadPool.** The predicate of `wait` is tested with the mutex held, and
`push` holds it too, so for `push` the test and the sleep are one step; for
`Stop`, which holds nothing, they are two (`NothingToDo`, `Sleep`). `Push` is
one step because it is one critical section.

**Delivery.** A handler is one step except where it has two critical sections
that a worker can see in between: insert and then push of the task, destruction
of the consumers' handle and then of the messages', creation of the two. `io`
is where the handler is; no other handler starts before it ends. The queue's
binding routes every message; when the queue goes, so does its binding, and a
publish then routes nothing. Clients cancel what they subscribed and
acknowledge what they were sent, as the client library does. When a connection
is lost (`LoseConnection`) its channels are destroyed one by one (`DestroyLost`),
and workers run in between: `~Channel` removes a consumer with the mutex of that
queue's consumers only. `consumers` are those of the handle in the map. A worker
that fetched the handle before `destroyQueueConsumer` may choose in it
afterwards; nothing changes an old handle any more, so this is the choice made
just before the deletion. Using a destroyed channel is undefined in C++: a
worker goes on as if the memory were intact, or the process dies (`Die`), from
any place of `consume` after the destruction. `log`, `pushes`, `gone`,
`recovered`, `picks` and `deleted` are history. Sending uses `_codec_ptr`, which
the constructor of `Channel` leaves null; the call uses no member and works in
the build, and the model sends.

**Client.** A call is a send, a wait and a return. The requests of exchanges,
queues, bindings and publishes differ in their arguments only and are one action
(`Call`); the answer's content is `Metadata`'s and `Delivery`'s business, and
matters here for a subscription, which the client stores only when it was
accepted. Each call has an id of its own; a thread has one call under way, so
the thread stands for the id. Each channel is used by one thread of the
application, as in the example programs; the workers may acknowledge on it at the same time. TCP keeps
the order in each direction, and responses and pushes share one. A subscription
is answered after the consumer has been registered, so a push may come before
the answer (`ServeConsume`, `SendAnswer`); a push whose consumer was chosen may
come after the answer of a cancellation. The channel object is shared by the
application, the map of the connection, the tasks in the pool and, while it
handles a message, the io thread; who drops it last runs `~Channel`, which cancels.
`Drop`, `Release` and `EndHandler` compute who that is. A worker destroys the tasks
of a batch together, when it has run them all: `EndTask` puts the channel of a task
into `kept`, and `Release` lets go of the kept channels one by one, in any order,
before the next batch. `io` is the channel whose handler is running, for channels
that are closed and still subscribed only; for others it does not matter. If the
io thread is the last to let go of such a channel it waits in `~Channel` for an
answer that only it could receive (`IoWaits`).

A queue may be deleted by a call of this client, on any channel
(`ServeDeleteQueue`), or by another client of the server (`DeleteQueueOfOther`).
`destroyQueueConsumer` then drops the queue's consumers and no client is told.
Which queue a consumer is on is not in the model, so any set of consumers may go
(`DestroyConsumers`), which is all that the queues of the channels may be.
`deleted` is the history of these consumers until they are cancelled or their
channel is closed. `late` is history too.
`link` also has the start of a connection, where `_latch` is counted down before
`_conn` is set (`CountDown`, `SetConnection`), and its loss; a loss before
`SetConnection` is left out. A null `_conn`, or a subscriber that was reset under
a running callback, is undefined behaviour: the process dies, or, in the second
case, goes on. The server side is what a client can see: which requests are
answered. The tags of subscribers are distinct, as a refused tag is
`Delivery`'s finding.

**Metadata.** A request is handled by one thread, so nothing interleaves with
it except a kill, and a kill can only be told apart where the disk has changed
since the last one. Hence one step per call of a manager that writes to the
disk: `deleteExchange` is two, `deleteQueue` three, `declareQueue` two, and a
publish one per queue, in any order, as the map of bindings is a hash map. Each
call is at most one SQL statement that matters: `unbindByQueue` repeats the same
delete once per exchange in memory, and runs none when there is no such entry.
`MayFail` names the statements that may fail. A failing insert of an exchange or
a queue is reported to the client; the results of the other statements are
ignored by the code. `Restart` is a kill and the start that follows: memory is
what the constructors read from the tables. The binding table has no key and its
select no order, so it is a set of rows, and of several rows for one pair any
may be the one that counts. Exchanges and queues have a primary key, so an
insert of a name that has a row fails. Of the messages only the queues that may
hold some are kept (`held` in memory, `data` on disk): acknowledgements, which
could only make both smaller, belong to `MessageStore`. `auto_delete`,
`exclusive` and `args` are stored and never used; they are left out. `asked` and
`fed` are history.

**Route.** A key is its sequence of words, empty words included, because
`split` drops those and `DIRECT` compares the whole strings. `TopicMatch` has the
recurrence of the dynamic program as a function on pairs of positions; the
reference definition in `MCRoute` cuts the routing key into pieces, one per word
of the binding key.

## 3. Runs

| Run | Question | Instance |
|---|---|---|
| `store` | is any message lost, resurrected, misplaced or overwritten; does the store implement the at-least-once queue; does every operation end? | 3 durable and 1 transient message, collection above 1 record, 5 records, kills everywhere except between unlink and rename |
| `store_window` (violated) | may the process be killed between unlink and rename? | with that crash point, 4 records |
| `store_phantom` (violated) | is only what was published pushed? | as `store`, 4 records |
| `pool` | is every task run once, no wakeup lost, no batch cut; does the pool implement `TaskPool`? | 3 workers, 4 tasks |
| `pool_stop` (violated) | does Stop() return? | 2 workers, 3 tasks |
| `delivery_safety` | is a message kept, sent once, with its task; is the registry sound and fair? | 2 connections, 2 channels, 2 tags, 2 workers, 2 messages of which none or one is recovered, one deletion |
| `delivery_live` | does the queue always get back to the length it started with; do handlers and workers implement `Dispatch`? | 1 connection, 1 channel, 2 workers, 3 messages of which none or one is recovered |
| `delivery_strand` (violated) | do only sent messages wait for an ack? | 1 connection, 2 channels, 2 messages |
| `delivery_tag` (violated) | is a channel that was told ok a consumer? | 2 channels, 2 tags |
| `metadata` | do bindings have both ends, does a deleted thing stay away, does a restart find what was durable; do managers and tables implement `DurableHost`? | 2 exchanges, 2 queues, topic exchanges, 2 keys of which one matches the other, inserts of exchanges and queues may fail |
| `client` | is no response lost or left over, do calls return, do both sides agree on subscriptions up to deleted queues, is no push stuck? | 2 channels of which one may subscribe, 2 workers, 2 messages, 1 tag |
| `route` | does the topic match find the matches and nothing else? | all pairs of keys of up to 4 words, 2 letters, `*`, `#` and empty words |

Bounds. `GcMinTotal` is 2000 in the code; with 1 or 2 collections happen with
survivors, voids and a phantom in the file, and nothing else depends on its
value. `MaxRecords` limits the file; five slots hold a collection that keeps two
records and drops three, in either order. A message is accepted once, so
restarts need no bound. `CrashPoints` names the places of a kill. `MaxTasks`:
four tasks make batches of several tasks on several workers while others are
queued. `metadata` has no bound at all: its state is finite, with all sequences
of requests and restarts. Two exchanges and two queues are needed for rows that
share one end; one exchange type is enough, as `Route` is checked apart. Four
words put `#` at the start, in the middle, at the end and twice in a row,
against routing keys shorter and longer. `Deletions` is one, enough for a
deletion with messages in workers' hands and a new declaration. Each connection
and each channel is used once: a reopened one is a new object. Two connections
tell a lost one from one that stays, as a tag may be used on both. `Subscribers`
has `client` subscribe on one of its two channels, the other being there for
calls that share the connection, the io thread and the workers; subscriptions of
different channels meet on the server only, in `Delivery`. Two messages suffice
for a push that waits behind a callback and one that overtakes it in the other
worker. `CHECK_DEADLOCK FALSE` is said where the system may really stop: a
stopped pool, and clients that have nothing more to send once each of the
channels was closed, or a process that died.

`ImplementsDispatch` is checked on the instance of `delivery_live`, which has three
messages and so an order to keep, rather than on that of `delivery_safety`, where
it would double a run of two million states; what the second channel and tag add
to it is covered by the theorem.

Fairness. `OperationEnds` needs that the thread holding a queue's mutex goes on
(`WF(Continue)`). `TasksAreRun` needs each worker to run while it can
(`WF(Work(w))`) and a thread inside `Stop` to go on; nobody owes a call of
`push` or `Stop`, and no fairness is put on spurious wakeups. `QueuedIsTaken`
needs the event loop to finish its handler and the workers to run; clients owe
nothing. `CallsReturn` and `PushesAreDone` need the server to handle requests, the
io thread to read, each worker to go on while it can, and an application thread
to finish the call it is in; a callback ends, or acknowledges and then ends.
Nobody owes a call, a push, the choice of a consumer or the loss of the
connection. The scheduler of the operating system justifies these, as no thread is
given a priority and no lock is held while waiting. One limit: mutex acquisition
is weakly fair only, which suffices as the runs show.

`QueuedIsTaken` says that the queue gets back to the length it had at the start,
not that it gets empty. That is by design of the code: only a publish pushes a
task, and every task takes the head of the queue, so as many messages as were
recovered always stay behind. `QueueHasItsTasks` states that bound exactly.

`CallsReturn` has three exceptions, which are the code's: a call waits for ever
when the connection is lost; when it is made on a channel after its close
(`late`), by the application, by a callback that acknowledges, or by `~Channel`
when it cancels, as the server does not answer for a channel it does not have;
and when that `~Channel` runs in the io thread (`IoWaits`), as then nobody
receives responses any more. A dead process is excused, too. `PushesAreDone` has
the same exceptions: a thread that runs `~Channel` after a close is in `late`.

`SubscriptionsAgree` is not an equality of the client's subscriptions and the
server's consumers, and in the code that would be false: `deleteQueue` drops the
consumers of the queue and the client keeps `_subscriber_ptr` until it cancels. It
says that this is the only difference: the server has no consumer that the client
does not know of, and what the client has and the server has not went with its
queue.

## 4. What the violated runs show

1. `store_window`: `garbageCollection` unlinks the data file before it renames
   the temp file over it. A kill in between loses every durable message: the
   next start sees no data file, creates an empty one and truncates the complete
   temp file. A `rename` over the existing file would close the window.
2. `store_phantom`: `insert` writes length and payload separately; a kill in
   between makes recovery push a message nobody published.
3. `pool_stop`: `Stop` notifies without the mutex; a worker that has just found
   nothing to do goes to sleep after the notification and is never joined.
4. `delivery_strand`: `consume` moves a message to the waiting ones before it
   looks for a consumer. Publishing before anybody subscribes leaves the message
   there until the next restart (and for good if it is not durable).
5. `delivery_tag`: a subscription with a tag already used on the queue is
   answered ok and consumes nothing.

Section 5 has for four of these (all but `pool_stop`, a liveness property) a
theorem that the step described here is the only cause: without it the property
holds.

## 5. What is proved

Every safety property, action property and refinement that a run checks is a
theorem as well, for every value of the constants. A theorem about a violated
property names the steps it excludes.

`MessageStoreProofs` proves, for any set of messages, any thresholds and any
bound on the file:

| Theorem | States | Assumes |
|---|---|---|
| `TypeCorrect` | `TypeOK` | `Addressable` |
| `OffsetsAlwaysRight` | `OffsetsNameOwnRecord` | `Addressable` |
| `AlwaysManaged` | `EveryRecordIsManaged` | `Addressable` |
| `AckIsFinal` | `SettledNeverReturns` | `Addressable` |
| `NeverOverwritesOthers` | `OverwritesOwnRecord` | `Addressable` |
| `OwedAlwaysStored` | `OwedIsStored` | `Addressable`, `NoCrashInWindow` |
| `OwedAlwaysServed` | `OwedIsServed` | `Addressable`, `NoCrashInWindow` |

`Addressable` says that the file has no more slots than `OffsetLimit`: offsets
are 32 bits wide in `message.proto`, and beyond 4 GiB the theorems are false
(an ack then voids a record at the start of the file). `NoCrashInWindow`
excludes the kill of run `store_window`, with which the last two are false. The
others hold with it.

The argument. What an ack writes depends on the offset the message's object
holds, so the invariant `IInv` ties memory to the file: the valid records are
those of the messages in `durable`, each object naming its own record
(`Managed`). To keep that through a collection, `Copying` says that the temp
file holds the valid ones of the records already read, each once, and `Renaming`
that it is complete when the data file is unlinked; `Files` that a message has
at most one record; `Memory` that a message is never both queued and waiting, so
that an acknowledged one is in no list any more; `Current` what the operation in
progress works on. There is one lemma per action. `Kept`, the second invariant,
says that a live message has its valid record and is queued or waiting; it is
inductive relative to `IInv`.

`StoreOrderProofs` builds on these invariants:

| Theorem | States | Assumes |
|---|---|---|
| `MsgsAlwaysInOrder` | `MsgsInOrder` | `Addressable` |
| `CountsAlwaysMatch` | `CountsMatchFile` | `Addressable` |
| `GarbageAlwaysBounded` | `GarbageIsBounded` | `Addressable` |
| `StoreImplementsQueue` | `ImplementsAtLeastOnce` | `Addressable`, `NoCrashInWindow` |
| `OnlyPublishedUnlessTorn` | `OnlyPublishedIsPushed` | `Addressable`, `NoCrashInInsert` |

The argument. The list in memory is in order because the data file is
(`Ordered`, inside `InOrder`): an insert appends, a collection copies from front
to back, and a recovery reads in that direction too; headers without a payload
may lie in between. `Counted` says what the counts are at each place of an operation,
between the two writes of an insert one less than the file shows. For the
refinement, `inflight` of the abstract queue is mapped to the published messages
in `waitack` that are not settled; the two have `clock`, `stamp` and `settled` in
common. There is one lemma per action that an abstract step answers, and all the
others stutter. A restart delivers in the old order because of `InOrder`, loses nothing because of
`Kept`, and finds nothing settled because of `IInv`; `Cleared` is for the two
steps of a deletion. `Genuine` is the invariant of the last theorem: the only
record without a message is the header that an insert is about to complete.
`NoCrashInInsert` excludes the kill of run `store_phantom`.

`ThreadPoolProofs` proves, for any set of workers that is not empty and any
number of tasks, what run `pool` checks of safety: `TypeCorrect` (`TypeOK`, with
the mutex discipline), `NoLostWakeup` (`QueuedTaskHasAWorker`), `TasksKept`
(`EachTaskInOnePlace`), `PushOrder` (`TakenInOrder`), `BatchesComplete`
(`NoBatchIsCutShort`) and `PoolRefines` (`ImplementsTaskPool`). A pool with no thread would accept tasks and run none.

The argument. `Control` adds to the types that only a worker in `run` has a
batch and that a worker is done only when the pool stops. `push` needs the mutex
and a worker between its test and its sleep owns it, so at a push every worker
is either awake or asleep, and a sleeper is woken. `Custody` is about the tasks:
one place each, and each worker's sequence `ran \o batch` increasing and below
what is queued. `Take` keeps it because the batch it replaces was empty, which is
`Control`; `RunTask` does not change `ran \o batch` at all. For the refinement
`tasks` and `batch` are mapped to themselves: `Take` is the abstract one, again
because the batch it replaces was empty, or stutters when it was let through by
`_stop` and found nothing.

`MetadataProofs` proves, for any set of exchanges, queues, types and keys, what
run `metadata` checks; all but the last hold with more failing statements than the
run allows:

| theorem | property | assumes |
|---|---|---|
| `TypeCorrect` | `TypeOK` | nothing |
| `NoMessageComesBack` | `OnlyFedQueuesHold` | nothing |
| `BindingsAlwaysResolve` | `BindingsResolve` | `UnbindSucceeds`: the deletes of bindings do not fail |
| `NoBindingComesBack` | `OnlyAskedBindings` | `UnbindSucceeds` |
| `DurableSurvives` | `RestartKeepsTheDurable` | `IgnoredSucceed`: nor does any other statement whose result is ignored |

The assumptions are needed: with any one of these statements in `MayFail` TLC finds
the property violated with one exchange and one queue. A row of bindings that was not deleted is read at the
next start, when its queue may be gone or another one; and a restart finds what
was durable only if the rows of bindings were written and those of exchanges and
queues deleted.

The argument has three layers, each resting on the ones before it. `Sound` holds
whatever fails: types; `RowsAreDurable`, that a durable thing has its row and that
a row which outlived its thing is of a durable one; `MessagesFollow`, that a
queue's messages go before the queue. `Bound` is about bindings: by `EndsExist` an
exchange or a queue about to be erased has no binding left, as `deleteExchange`
and `deleteQueue` unbind first, and by `RowsAreBound` a row of the binding table
is a binding of memory between durable ends, so recovery finds nothing else.
That the rows of exchanges and queues may be too many does not matter to either.
`TablesAgree` says that after every call, not only between requests, each table
is the durable part of its map, so that a restart at any of these points finds
the virtual host as it was. `FoundKeys` shows that recovery finds at most one key
for each pair, though the table has no primary key.

`HostProofs` proves `HostImplemented`: under
`IgnoredSucceed`, `Metadata` implements `DurableHost` (`ImplementsHost`), with `exchanges` and `queues` mapped
to themselves and the bindings to the pairs that have a key. There is one lemma
per call of a manager; each call is one step of the abstract host or changes
nothing it can see. The invariant of `MetadataProofs` is needed in two places:
what is deleted has no binding left (`EndsExist`), and what a restart reads is
the durable part of the memory (`TablesAgree`).

`DeliveryProofs` proves, for any set of connections, channels, tags, workers and
messages, and whatever was recovered: `TypeCorrect` (`TypeOK`), `MessagesAreKept`
(`PublishedIsKept`), `NothingIsPushedTwice` (`PushedAtMostOnce`),
`MessagesHaveTasks` (`QueueHasItsTasks`), `NoConsumerIsLeftBehind`
(`ConsumersAreOpen`) and `RoundRobinStaysEven` (`RoundRobinIsEven`). They hold
with lost connections and with workers that go on in destroyed channels.

The argument. `Custody`: what was taken from the queue never comes back to it,
so workers with a message in their hands have different ones, none of them
queued and none sent yet. `Registry`: a consumer in the registry is the one its
channel remembers in `_consumer_ptr`; as no two consumers have the same tag,
removing by that tag removes this one and no other, although a channel may also
remember a tag that is no longer its own. `Turns`: the consumers chosen once
more than the others are those the counter has passed since they were last all
even; a change of the set starts anew. Taking the counter modulo the number of
consumers needs the arithmetic of `NextTurnModulo`. `Ledger`: the tasks still to
be run are the vector's, those in the workers' batches (`Taken`, a set of pairs of
a worker and a place in its batch), those begun but not yet at `front` (`Begun`),
and the one a publish is about to push. Both sets stay finite although no
constant is assumed to be, as only finitely many workers have ever had a task,
so that moving a task from one of these places to the next keeps the sum.

`DeliveryDispatches` (`ImplementsDispatch`) is the refinement: whatever order
handlers and workers run in, whoever cancels, closes or loses its connection, a
message leaves the queue after all older ones, is assigned to one consumer at
most, which is registered at that time, and is settled only after it was sent or
with its queue. The mapping: a message's stamp is its place in `log`
(`Position`), what waits for an ack is in flight, and assigned are the messages
and consumers of the workers about to push (`OnTheirWay`). `Dispatch` promises
neither that messages are sent in the order in which they leave, as workers
overtake each other, nor that a message which found no consumer is assigned
again, which is `delivery_strand`. Three things are needed besides the invariants
above. `InOrder`: the queue is the end of the log, so its head has the smallest
stamp of all that wait. `SentBeforeAck`: a worker that acknowledges has sent.
And from `Custody` that no two workers have one message, so that a push takes
away one assignment and no other, and that a message acknowledged by a worker
waits for its ack or is settled, in which case the step stutters: its queue was
deleted, or the client was faster. `DeliveryUsesTheQueue` and
`DeliveryUsesThePool` say that what `Delivery` does to its messages and tasks are
steps of the modules that `MessageStore` and `ThreadPool` implement, the first
from any messages a server may have recovered (`Resumed`). No run checks these two.

Two more theorems of `DeliveryProofs` are about the properties that fail in
`delivery_strand` and `delivery_tag`, for behaviours in which one kind of step
never happens:

* `OnlyTheLonelyStrand`: if no worker ever comes to choose while the queue has no
  consumer (`SomebodyConsumes`), every message that waits for its ack was sent or
  is in a worker's hands, so `WaitingWasPushed` holds, with cancelled and deleted
  consumers, lost connections and restarts of the queue.
* `OnlySharedTagsMislead`: if no channel ever subscribes with a tag that another
  channel remembers (`TagsAreFresh`), `SubscribedIsConsumer` holds. The tag need
  not be in the registry for the trouble: a channel that remembers a cancelled
  tag removes its new owner when it is closed.

`ClientProofs` proves, for any number of channels, workers, messages and tags,
what run `client` checks of safety: `TypesAlwaysOK` (`TypeOK`),
`AnswersAlwaysOnTheirWay` (`AnswerIsOnItsWay`) and `SubscriptionsAlwaysAgree`
(`SubscriptionsAgree`, that is, agreement up to consumers deleted with their queue).

The argument. A request or a response is always that of the call its caller is
in (`Asked`, `Answered`), and `OnItsWay` counts the places where it can be: among
the requests, the answer not sent yet, the responses under way, and the
channel's map. Each step moves one and creates none, so the count stays one
until the caller returns. The difficult case is a close: `basicAck` of a worker
and `closeChannel` of the application race, and the server answers nothing on a
channel it has closed. `Closing` uses that both directions keep their order: what
was asked before the close is in front of it and is answered before it, and what
was asked after it was called on a channel whose thread is in its close already,
which is what `late` says. `Known` and `Unsent` tie the state of a thread to the
channels the server has, and `Subscribed` says for each state of a subscription
what either side has; as a deletion moves consumers to `deleted`, the union of the
two is what the client knows of, and each step that removes a consumer for another
reason removes it from both. Before the connection is up nothing is under way
(`Before`); after it is lost nothing is promised.

`RouteProofs` proves `TopicMatchFindsMatches`, a theorem about constants: for
every two keys, of any length and over any words, of which the routing key has
no `#` for a word, the table of `TopicMatch` says yes exactly when the binding
key matches. `TopicMatchesAreMatches` (`TopicMatchIsMatch`) is what run `route`
checks, for any sets of words and any `MaxWords`.

The argument. `Reaches` is the match of the first `i` words of one key with the
first `j` of the other. `LastPiece` takes its last piece off, which gives
`Reaches` the equation of the table; where the code looks at one cell only, for
a word that is equal or `*`, this needs that the routing key has no `#`. So the
equation has a solution, the recursive function that TLA+ defines by a choice
satisfies it, and every solution agrees with `Reaches`, cell by cell in the order
of the sum of the two positions. The induction is `EveryNumber`, about sets of
numbers and not about operators, which follows from the existence of least
elements (`WFMin` of the library); the library's induction theorems take an
operator and are out of the provers' reach.

Only model-checked: liveness, that is `OperationEnds`, `TasksAreRun`,
`QueuedIsTaken`, `CallsReturn` and `PushesAreDone`, and the failure of
`StopReturns`. They rest on fairness, and so on ENABLED, which the prover does not
handle. `DurableSurvives` and `HostImplemented` assume `IgnoredSucceed`, and two
theorems about bindings `UnbindSucceeds`, that is less than the code does:
without the assumptions the properties do not hold.

## 6. Not modelled, and the plan

Left out of the models:

* **File calls that fail** (`MQServer/Message.hpp:85`, `:177`). Kills are
  modelled, errors are not: after a failed write the position of the next record
  depends on how many bytes were written, and the file is no longer a sequence
  of records, which `MessageStore` and its theorems rest on.
* **Ids used twice** (`MQServer/Message.hpp:242`). `UUIDHelper` makes ids unique;
  a client that supplies its own may not. The maps then keep the first message of
  an id, and the order of the offsets is no longer that of the ids.
* `clear()` of the managers and of `VirtualHost`, and `isValidBindingKey`, which
  only tests call; the getters.
* `auto_delete`, `exclusive` and `args`, which are stored and never used.
* The destruction of a client's `Connection` with channels that were not closed,
  which happens at the end of a program only.
* The loss of a client's connection between `countDown()` and the assignment of
  `_conn`, and `onUnknownMessage`, which no message of the repository reaches.
* The logger (output only), the random generation of ids, and the example clients.

Left out for good, and by far the largest part of the repository's C++ lines:
the code protobuf generates from the two `.proto` files (`*.pb.h`, `*.pb.cc`,
about 13000 lines), the vendored headers of muduo and its codec (`ThirdLib`) and
the experiments with libraries (`TestCode`). The hand-written code of the broker
and the client has about 3800 lines with its comments, of which the map names a
little more than half; the rest is includes, constructors that copy their
arguments, SQL text, getters and log lines. TCP and the codec are modelled by
what the code relies on, messages in order in each direction and none after the
loss.

Things the models show and no property judges, as no document of the repository
says otherwise: a durable declaration of a name that exists as transient is
answered ok and stores nothing; nobody calls the key validators, so a routing key
may contain `#`, which the topic match then treats as a word; a message sent on
a lost connection, or dropped by the client because its subscription is not
stored yet or cancelled, waits for an ack until the server is restarted; a call
on a closed channel waits for ever, and so does the io thread when it is the last
to hold a channel that was closed without being cancelled, and with it every call of
the connection; a client whose queue was deleted is not told, and goes on waiting
for pushes.

Next:

1. `MessageStore` with ids used twice and with failing file calls.
2. What `Metadata` still promises when the deletes of bindings fail.
