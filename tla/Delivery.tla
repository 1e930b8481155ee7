------------------------------- MODULE Delivery -------------------------------
(***************************************************************************)
(* How a published message reaches a consumer: the server's Channel        *)
(* (MQServer/Channel.hpp), the consumers of a queue (Consumer.hpp), the    *)
(* memory of the queue's messages (Message.hpp) and the pool that runs     *)
(* Channel::consume, for one queue whose binding routes every message.     *)
(*                                                                         *)
(* One thread, the event loop, runs the request handlers one after the     *)
(* other; the workers of the pool run between any two critical sections of *)
(* theirs.  A handler is one action where it has one critical section that *)
(* workers can see, and goes on through io otherwise.  MessageStore is the *)
(* queue's memory in full and ThreadPool the pool; here an operation of    *)
(* the first is one step, and so is taking the pool's vector of tasks.     *)
(*                                                                         *)
(* Tasks and consumer callbacks are bound to the raw this of a channel, so *)
(* a worker may use a channel that was destroyed with its connection or by *)
(* closeChannel.  What the build does then is undefined; the model either  *)
(* goes on as if the freed memory were intact, or the process dies.        *)
(***************************************************************************)
EXTENDS Naturals, Sequences, FiniteSets, Functions

CONSTANTS
  Conns,     \* connections; each is made, and lost, at most once
  Channels,  \* channel objects of the server; each is opened at most once
  Tags,      \* consumer tags clients choose
  Workers,   \* threads of the pool
  Msgs,      \* messages
  Backlogs,  \* what the server may have recovered when it started
  NoTag, NoMsg, NoChan, NoConn,
  Deletions  \* bound: deletions of the queue

ASSUME DeliveryAssumption ==
  /\ NoTag \notin Tags /\ NoMsg \notin Msgs
  /\ NoChan \notin Channels /\ NoConn \notin Conns
  /\ Backlogs \subseteq Seq(Msgs)
  /\ \A b \in Backlogs : \A i, j \in DOMAIN b : b[i] = b[j] => i = j
  /\ Deletions \in Nat

VARIABLES
  msgs,       \* _msgs of the queue
  waitack,    \* _waitack_msgs
  hasStore,   \* MessageManager has a handle for the queue
  consumers,  \* _consumers of the queue: [tag, chan, auto]
  rr,         \* _rr_seq
  hasCons,    \* ConsumerManager has a handle for the queue
  chan,       \* each channel: "new", "open" or "closed"
  home,       \* the connection each open channel is on, or NoConn
  lost,       \* the connections that were lost
  own,        \* the tag of each channel's _consumer_ptr, or NoTag
  tasks,      \* the pool's vector: the channel each task is bound to
  batch,      \* what each worker has taken and not started
  wpc, wchan, \* each worker's place in Channel::consume and its channel,
  wmsg, wcons,\* the message it took and the consumer it chose
  io, iochan, \* where the handler in progress is, and its channel; "dead"
              \* when the process is
  \* History
  recovered,  \* the number of messages the server started with
  log,        \* the messages accepted, in order
  pushes,     \* how often each message was sent to a consumer
  gone,       \* messages acknowledged or deleted with the queue
  subscribed, \* the tag each channel was told (ok) it consumes with, or NoTag
  picks,      \* how often each consumer was chosen since the set last changed
  deleted     \* deletions of the queue so far

queue == <<msgs, waitack, hasStore>>
registry == <<consumers, rr, hasCons, picks>>
conns == <<home, lost>>
channels == <<chan, own, subscribed, conns>>
pool == <<tasks, batch>>
worker == <<wpc, wchan, wmsg, wcons>>
handler == <<io, iochan>>
history == <<recovered, log, pushes, gone, deleted>>
vars == <<msgs, waitack, hasStore, consumers, rr, hasCons, chan, home, lost, own,
          tasks, batch, wpc, wchan, wmsg, wcons, io, iochan, recovered,
          log, pushes, gone, subscribed, picks, deleted>>

published == Range(log)

Consumer == [tag : Tags, chan : Channels, auto : BOOLEAN]
NoCons == [tag |-> NoTag, chan |-> NoChan, auto |-> FALSE]
TagsIn(cs) == {c.tag : c \in Range(cs)}
\* Faulty variant: the oldest consumer goes, whoever it is.
WithoutOldest(cs, tag) == IF tag \in TagsIn(cs) THEN Tail(cs) ELSE cs

\* remove() erases the first consumer with the tag.
Without(cs, tag) ==
  IF tag \notin TagsIn(cs) THEN cs
  ELSE LET at == {i \in DOMAIN cs : cs[i].tag = tag}
           first == CHOOSE i \in at : \A j \in at : i <= j
       IN  SubSeq(cs, 1, first - 1) \o SubSeq(cs, first + 1, Len(cs))

Init ==
  /\ msgs \in Backlogs /\ waitack = {} /\ hasStore = TRUE
  /\ consumers = <<>> /\ rr = 0 /\ hasCons = TRUE /\ picks = <<>>
  /\ chan = [c \in Channels |-> "new"]
  /\ home = [c \in Channels |-> NoConn] /\ lost = {}
  /\ own = [c \in Channels |-> NoTag]
  /\ subscribed = [c \in Channels |-> NoTag]
  /\ tasks = <<>> /\ batch = [w \in Workers |-> <<>>]
  /\ wpc = [w \in Workers |-> "idle"] /\ wchan = [w \in Workers |-> NoChan]
  /\ wmsg = [w \in Workers |-> NoMsg] /\ wcons = [w \in Workers |-> NoCons]
  /\ io = "ready" /\ iochan = NoChan
  /\ recovered = Len(msgs) /\ log = msgs
  /\ pushes = [m \in Msgs |-> 0]
  /\ gone = {} /\ deleted = 0

-----------------------------------------------------------------------------
(* The request handlers, on the event loop.  A request that names a channel *)
(* the connection does not have changes nothing.                            *)

Handles(c) == io = "ready" /\ chan[c] = "open"
SetConsumers(cs) == consumers' = cs /\ picks' = [i \in 1..Len(cs) |-> 0]

OpenChannel(c, k) ==
  /\ io = "ready" /\ chan[c] = "new" /\ k \notin lost
  /\ chan' = [chan EXCEPT ![c] = "open"]
  /\ home' = [home EXCEPT ![c] = k]
  /\ UNCHANGED <<queue, registry, lost, own, subscribed, pool, worker, handler,
                 history>>

\* basicPublish: the message is inserted, then a task for it is pushed.  When
\* the queue is gone so is its binding, and nothing is routed.
PublishInsert(c, m) ==
  /\ Handles(c) /\ m \notin published /\ hasStore
  /\ msgs' = Append(msgs, m)
  /\ log' = Append(log, m)
  /\ io' = "publish" /\ iochan' = c
  /\ UNCHANGED <<waitack, hasStore, registry, channels, pool, worker,
                 recovered, pushes, gone, deleted>>

\* Faulty variant: no task when nobody consumes.
PublishTaskIfConsumed ==
  /\ io = "publish"
  /\ tasks' = IF consumers = <<>> THEN tasks ELSE Append(tasks, iochan)
  /\ io' = "ready" /\ iochan' = NoChan
  /\ UNCHANGED <<queue, registry, channels, batch, worker, history>>

PublishTask ==
  /\ io = "publish"
  /\ tasks' = Append(tasks, iochan)
  /\ io' = "ready" /\ iochan' = NoChan
  /\ UNCHANGED <<queue, registry, channels, batch, worker, history>>

\* basicAck: any channel may acknowledge what was pushed; a message that is
\* not waiting is none of remove()'s business.
Ack(c, m) ==
  /\ Handles(c) /\ pushes[m] > 0 /\ m \in waitack
  /\ waitack' = waitack \ {m} /\ gone' = gone \cup {m}
  /\ UNCHANGED <<msgs, hasStore, registry, channels, pool, worker, handler,
                 recovered, log, pushes, deleted>>

\* basicConsume answers ok whenever the queue exists.  createConsumer refuses a
\* tag that is taken, and _consumer_ptr is then null.  The client library
\* subscribes a channel that has no subscription (MQClient/Channel.hpp:227).
Subscribe(c, tag, auto) ==
  /\ Handles(c) /\ subscribed[c] = NoTag /\ hasStore
  /\ subscribed' = [subscribed EXCEPT ![c] = tag]
  /\ \/ /\ tag \notin TagsIn(consumers)
        /\ SetConsumers(Append(consumers, [tag |-> tag, chan |-> c, auto |-> auto]))
        /\ own' = [own EXCEPT ![c] = tag]
     \/ /\ tag \in TagsIn(consumers)
        /\ own' = [own EXCEPT ![c] = NoTag]
        /\ UNCHANGED <<consumers, picks>>
  /\ UNCHANGED <<queue, rr, hasCons, chan, conns, pool, worker, handler, history>>

\* basicCancel removes whoever has the tag.  The client library cancels what
\* it subscribed.
Cancel(c) ==
  /\ Handles(c) /\ subscribed[c] # NoTag
  /\ SetConsumers(Without(consumers, subscribed[c]))
  /\ subscribed' = [subscribed EXCEPT ![c] = NoTag]
  /\ UNCHANGED <<queue, rr, hasCons, chan, conns, own, pool, worker, handler,
                 history>>

\* ~Channel removes the consumer of _consumer_ptr, by tag.
Destroy(c) ==
  /\ chan' = [chan EXCEPT ![c] = "closed"] /\ home' = [home EXCEPT ![c] = NoConn]
  /\ subscribed' = [subscribed EXCEPT ![c] = NoTag]
  /\ IF own[c] = NoTag THEN UNCHANGED <<consumers, picks>>
     ELSE SetConsumers(Without(consumers, own[c]))
  /\ own' = [own EXCEPT ![c] = NoTag]

CloseChannel(c) ==
  /\ Handles(c)
  /\ Destroy(c)
  /\ UNCHANGED <<queue, rr, hasCons, lost, pool, worker, handler, history>>

\* delConnection: the channels of the connection are destroyed one by one.
OnLost(c) == home[c] \in lost

LoseConnection(k) ==
  /\ io = "ready" /\ k \notin lost
  /\ lost' = lost \cup {k}
  /\ io' = IF \E c \in Channels : home[c] = k THEN "lose" ELSE "ready"
  /\ UNCHANGED <<queue, registry, chan, home, own, subscribed, pool, worker,
                 iochan, history>>

DestroyLost(c) ==
  /\ io = "lose" /\ OnLost(c)
  /\ Destroy(c)
  /\ io' = IF \E d \in Channels \ {c} : OnLost(d) THEN "lose" ELSE "ready"
  /\ UNCHANGED <<queue, rr, hasCons, lost, pool, worker, iochan, history>>

\* deleteQueue: the consumers' handle goes, then the messages'.
DeleteConsumers(c) ==
  /\ Handles(c) /\ hasStore /\ deleted < Deletions
  /\ SetConsumers(<<>>) /\ rr' = 0 /\ hasCons' = FALSE
  /\ subscribed' = [d \in Channels |-> NoTag]
  /\ io' = "delete" /\ deleted' = deleted + 1
  /\ UNCHANGED <<queue, chan, conns, own, pool, worker, iochan, recovered,
                 log, pushes, gone>>

\* Faulty variant: the handle stays in the map.
DeleteKeepingHandle ==
  /\ io = "delete"
  /\ msgs' = <<>> /\ waitack' = {}
  /\ gone' = published
  /\ io' = "ready"
  /\ UNCHANGED <<hasStore, registry, channels, pool, worker, iochan, recovered,
                 log, pushes, deleted>>

DeleteMessages ==
  /\ io = "delete"
  /\ msgs' = <<>> /\ waitack' = {} /\ hasStore' = FALSE
  /\ gone' = published
  /\ io' = "ready"
  /\ UNCHANGED <<registry, channels, pool, worker, iochan, recovered, log,
                 pushes, deleted>>

\* declareQueue: the messages' handle comes first, then the consumers'.
DeclareMessages(c) ==
  /\ Handles(c) /\ ~hasStore
  /\ hasStore' = TRUE
  /\ io' = "declare"
  /\ UNCHANGED <<msgs, waitack, registry, channels, pool, worker, iochan, history>>

DeclareConsumers ==
  /\ io = "declare"
  /\ hasCons' = TRUE /\ io' = "ready"
  /\ UNCHANGED <<queue, consumers, rr, picks, channels, pool, worker, iochan, history>>

-----------------------------------------------------------------------------
(* The workers. *)

EndTask(w) ==
  /\ wpc' = [wpc EXCEPT ![w] = "idle"] /\ wchan' = [wchan EXCEPT ![w] = NoChan]
  /\ wmsg' = [wmsg EXCEPT ![w] = NoMsg] /\ wcons' = [wcons EXCEPT ![w] = NoCons]

\* Faulty variant: one task is taken and the vector cleared.
TakeFirstOfBatch(w) ==
  /\ wpc[w] = "idle" /\ batch[w] = <<>> /\ tasks # <<>>
  /\ batch' = [batch EXCEPT ![w] = <<Head(tasks)>>] /\ tasks' = <<>>
  /\ UNCHANGED <<queue, registry, channels, worker, handler, history>>

TakeBatch(w) ==
  /\ wpc[w] = "idle" /\ batch[w] = <<>> /\ tasks # <<>>
  /\ batch' = [batch EXCEPT ![w] = tasks] /\ tasks' = <<>>
  /\ UNCHANGED <<queue, registry, channels, worker, handler, history>>

StartTask(w) ==
  /\ wpc[w] = "idle" /\ batch[w] # <<>>
  /\ wpc' = [wpc EXCEPT ![w] = "front"]
  /\ wchan' = [wchan EXCEPT ![w] = Head(batch[w])]
  /\ batch' = [batch EXCEPT ![w] = Tail(@)]
  /\ UNCHANGED <<queue, registry, channels, tasks, wmsg, wcons, handler, history>>

\* Faulty variants: the message is not put with the waiting ones; it stays at
\* the head of the queue until it is acknowledged.
FrontForgets(w) ==
  /\ wpc[w] = "front" /\ msgs # <<>>
  /\ msgs' = Tail(msgs)
  /\ wmsg' = [wmsg EXCEPT ![w] = Head(msgs)]
  /\ wpc' = [wpc EXCEPT ![w] = "choose"]
  /\ UNCHANGED <<waitack, hasStore, registry, channels, pool, wchan, wcons,
                 handler, history>>
FrontPeeks(w) ==
  /\ wpc[w] = "front" /\ msgs # <<>>
  /\ waitack' = waitack \cup {Head(msgs)}
  /\ wmsg' = [wmsg EXCEPT ![w] = Head(msgs)]
  /\ wpc' = [wpc EXCEPT ![w] = "choose"]
  /\ UNCHANGED <<msgs, hasStore, registry, channels, pool, wchan, wcons,
                 handler, history>>

\* Faulty variant: the newest message is taken.
FrontNewest(w) ==
  /\ wpc[w] = "front" /\ msgs # <<>>
  /\ LET n == Len(msgs) IN
       /\ msgs' = SubSeq(msgs, 1, n - 1) /\ waitack' = waitack \cup {msgs[n]}
       /\ wmsg' = [wmsg EXCEPT ![w] = msgs[n]]
  /\ wpc' = [wpc EXCEPT ![w] = "choose"]
  /\ UNCHANGED <<hasStore, registry, channels, pool, wchan, wcons, handler, history>>

\* consume, 1: the head of the queue moves to the waiting messages.
Front(w) ==
  /\ wpc[w] = "front"
  /\ \/ /\ msgs # <<>>
        /\ msgs' = Tail(msgs) /\ waitack' = waitack \cup {Head(msgs)}
        /\ wmsg' = [wmsg EXCEPT ![w] = Head(msgs)]
        /\ wpc' = [wpc EXCEPT ![w] = "choose"]
        /\ UNCHANGED <<wchan, wcons>>
     \/ /\ msgs = <<>>
        /\ EndTask(w)
        /\ UNCHANGED <<msgs, waitack>>
  /\ UNCHANGED <<hasStore, registry, channels, pool, handler, history>>

\* Faulty variant: the counter of the turns is not advanced.
SameTurn == UNCHANGED rr
NextTurn == rr' = rr + 1

\* consume, 2: the consumers take turns.
Choose(w) ==
  /\ wpc[w] = "choose"
  /\ \/ LET idx == (rr % Len(consumers)) + 1 IN
        /\ consumers # <<>>
        /\ NextTurn
        /\ picks' = [picks EXCEPT ![idx] = @ + 1]
        /\ wcons' = [wcons EXCEPT ![w] = consumers[idx]]
        /\ wpc' = [wpc EXCEPT ![w] = "push"]
        /\ UNCHANGED <<wchan, wmsg>>
     \/ /\ consumers = <<>>
        /\ EndTask(w)
        /\ UNCHANGED <<rr, picks>>
  /\ UNCHANGED <<queue, consumers, hasCons, channels, pool, handler, history>>

\* consume, 3: the consumer's callback sends on its channel's connection.
Push(w) ==
  /\ wpc[w] = "push"
  /\ pushes' = [pushes EXCEPT ![wmsg[w]] = @ + 1]
  /\ IF wcons[w].auto
     THEN wpc' = [wpc EXCEPT ![w] = "ack"] /\ UNCHANGED <<wchan, wmsg, wcons>>
     ELSE EndTask(w)
  /\ UNCHANGED <<queue, registry, channels, pool, handler, recovered, log,
                 gone, deleted>>

\* consume, 4: automatic acknowledgement.
AutoAck(w) ==
  /\ wpc[w] = "ack"
  /\ waitack' = waitack \ {wmsg[w]}
  /\ gone' = gone \cup {wmsg[w]}
  /\ EndTask(w)
  /\ UNCHANGED <<msgs, hasStore, registry, channels, pool, handler, recovered,
                 log, pushes, deleted>>

\* A task and a callback use the channel they are bound to; if it is gone the
\* process may die of it.
UsesDestroyed(w) ==
  \/ wpc[w] \in {"front", "choose", "ack"} /\ chan[wchan[w]] = "closed"
  \/ wpc[w] = "push" /\ chan[wcons[w].chan] = "closed"

Die(w) ==
  /\ UsesDestroyed(w)
  /\ io' = "dead"
  /\ UNCHANGED <<queue, registry, channels, pool, worker, iochan, history>>

-----------------------------------------------------------------------------
Work(w) ==
  /\ io # "dead"
  /\ \/ TakeBatch(w) \/ StartTask(w) \/ Front(w) \/ Choose(w) \/ Push(w)
     \/ AutoAck(w) \/ Die(w)
Finish ==
  \/ PublishTask \/ DeleteMessages \/ DeclareConsumers
  \/ \E c \in Channels : DestroyLost(c)

Request(c) ==
  \/ \E k \in Conns : OpenChannel(c, k)
  \/ CloseChannel(c)
  \/ \E m \in Msgs : PublishInsert(c, m) \/ Ack(c, m)
  \/ \E tag \in Tags, auto \in BOOLEAN : Subscribe(c, tag, auto)
  \/ Cancel(c)
  \/ DeleteConsumers(c) \/ DeclareMessages(c)

Next ==
  \/ \E c \in Channels : Request(c)
  \/ \E k \in Conns : LoseConnection(k)
  \/ Finish
  \/ \E w \in Workers : Work(w)

Spec == Init /\ [][Next]_vars

\* The event loop finishes the handler it is in and the pool's threads run
\* (ThreadPool!TasksAreRun); clients owe nothing.
FairSpec == Spec /\ WF_vars(Finish) /\ \A w \in Workers : WF_vars(Work(w))

-----------------------------------------------------------------------------
\* Types; and between two handlers a queue has both its handles or neither.
TypeOK ==
  /\ msgs \in Seq(Msgs) /\ waitack \subseteq Msgs /\ hasStore \in BOOLEAN
  /\ consumers \in Seq(Consumer) /\ rr \in Nat /\ hasCons \in BOOLEAN
  /\ picks \in [DOMAIN consumers -> Nat]
  /\ chan \in [Channels -> {"new", "open", "closed"}]
  /\ home \in [Channels -> Conns \cup {NoConn}] /\ lost \subseteq Conns
  /\ own \in [Channels -> Tags \cup {NoTag}]
  /\ subscribed \in [Channels -> Tags \cup {NoTag}]
  /\ tasks \in Seq(Channels) /\ batch \in [Workers -> Seq(Channels)]
  /\ wpc \in [Workers -> {"idle", "front", "choose", "push", "ack"}]
  /\ wchan \in [Workers -> Channels \cup {NoChan}]
  /\ wmsg \in [Workers -> Msgs \cup {NoMsg}]
  /\ wcons \in [Workers -> Consumer \cup {NoCons}]
  /\ io \in {"ready", "publish", "delete", "declare", "lose", "dead"}
  /\ iochan \in Channels \cup {NoChan}
  /\ recovered \in Nat /\ log \in Seq(Msgs) /\ pushes \in [Msgs -> Nat] /\ gone \subseteq Msgs
  /\ deleted \in 0..Deletions
  /\ io \in {"ready", "publish", "lose"} => (hasStore <=> hasCons)

\* A published message is queued or waits for its ack until it is acknowledged
\* or its queue deleted, whatever the order of workers and handlers, and is
\* never in both places.
PublishedIsKept ==
  /\ published \ gone = Range(msgs) \cup waitack
  /\ Range(msgs) \cap waitack = {}

\* Two workers never push the same message: within a run of the server a
\* message is sent to one consumer at most.
PushedAtMostOnce == \A m \in Msgs : pushes[m] <= 1

\* Every published message has a task that will try to push it: the queue is
\* never longer than the tasks not yet begun, but for the recovered messages,
\* for which basicPublish pushed none.
Taken == UNION {{w} \X DOMAIN batch[w] : w \in Workers}
Begun == {w \in Workers : wpc[w] = "front"}
PendingTasks ==
  Len(tasks) + Cardinality(Taken) + Cardinality(Begun)
             + (IF io = "publish" THEN 1 ELSE 0)
QueueHasItsTasks == io # "dead" => Len(msgs) <= PendingTasks + recovered

\* The registry never holds a consumer of a destroyed channel, although
\* consumers are removed by tag and a tag may be used by several channels.
ConsumersAreOpen ==
  /\ \A i \in DOMAIN consumers : chan[consumers[i].chan] = "open"
  /\ \A i, j \in DOMAIN consumers : consumers[i].tag = consumers[j].tag => i = j

\* Messages are spread evenly: as long as the consumers stay the same none of
\* them gets two messages more than another.
RoundRobinIsEven == \A i, j \in DOMAIN picks : picks[i] <= picks[j] + 1

\* The messages to be pushed (_msgs, Message.hpp:374) do not stay: the queue
\* always gets back to the length it had when the server started, unless the
\* process dies.
QueuedIsTaken == Len(msgs) > recovered ~> Len(msgs) <= recovered \/ io = "dead"

\* A message that a worker took is either abandoned, sent or still in the
\* worker's hands; in the waiting messages are those sent and not yet
\* acknowledged (Message.hpp:297).
WaitingWasPushed ==
  \A m \in waitack : pushes[m] > 0 \/ \E w \in Workers : wmsg[w] = m

\* "After the consumer has been created this channel is a consumer"
\* (Channel.hpp:157): a channel told ok is in the registry.
SubscribedIsConsumer ==
  io \notin {"delete", "dead"} => \A c \in Channels : subscribed[c] # NoTag =>
    \E i \in DOMAIN consumers : consumers[i].chan = c

\* The workers, tasks, handlers and channels together are the dispatcher of
\* Dispatch, started with what was recovered: messages leave in order, each for
\* one consumer that is registered when it is chosen, and are settled after they
\* were sent or with their queue.
Position(m) == IF m \in published THEN CHOOSE i \in DOMAIN log : log[i] = m ELSE 0
OnTheirWay ==
  {[msg |-> wmsg[w], to |-> wcons[w]] : w \in {v \in Workers : wpc[v] = "push"}}

Dispatcher == INSTANCE Dispatch WITH
  Consumers <- Consumer, Persistent <- Msgs,
  clock <- Len(log), stamp <- [m \in Msgs |-> Position(m)],
  settled <- gone, inflight <- waitack,
  consuming <- Range(consumers), assigned <- OnTheirWay,
  sent <- {m \in Msgs : pushes[m] > 0}
ImplementsDispatch == Dispatcher!DispatchSpec

\* The pool here does what ThreadPool implements.
Pool == INSTANCE TaskPool WITH Tasks <- Channels
UsesTaskPool == Pool!Spec
=============================================================================
