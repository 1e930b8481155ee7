-------------------------------- MODULE Client --------------------------------
(***************************************************************************)
(* The client library (MQClient) on one connection, and what it sees of    *)
(* the server: the dispatch of requests (Broker.hpp, Connection.hpp) and   *)
(* the pushes of the server's pool.                                        *)
(*                                                                         *)
(* A call sends a request with an id of its own and waits until the io     *)
(* thread has put the response of that id into its channel.  Each channel  *)
(* has one thread of the application; the workers of the client's pool run *)
(* Channel::consume for what the server pushes, and the callback of the    *)
(* application may acknowledge from there.  A caller has one call under    *)
(* way, so the caller stands for the id.                                   *)
(*                                                                         *)
(* _subscriber_ptr is read by workers and reset by the application without *)
(* a lock.  A worker that uses it after the reset goes on with the freed   *)
(* object, or the process dies; so it does when it sends on no connection. *)
(***************************************************************************)
EXTENDS Naturals, Sequences, FiniteSets, Functions

CONSTANTS
  Channels, \* channel objects of the connection; each is opened once
  Subscribers, \* bound: the channels on which the application subscribes
  Workers,  \* threads of the client's pool
  Msgs,     \* messages the server may push
  Tags,     \* consumer tags; no two channels of a queue use the same one
  None

Callers == Channels \cup Workers

ASSUME ClientAssumption ==
  /\ None \notin Callers \cup Msgs \cup Tags
  /\ Channels \cap Workers = {} /\ Subscribers \subseteq Channels

VARIABLES
  link,      \* "connecting", "latched" (_latch counted down), "up", "lost",
             \* or "dead" when the client process is
  requests,  \* from the client to the server, in order
  inbox,     \* from the server to the client, in order
  managed,   \* _channels of the connection
  stored,    \* _basic_resp: the responses put into the channels
  sub,       \* the tag of each channel's _subscriber_ptr, or None
  at,        \* where the application's thread of each channel is
  arg,       \* the tag it subscribes with, or None
  tasks,     \* the pool's vector of pushes
  batch,     \* what each worker has taken and not run yet, the current first
  kept,      \* the channels of the tasks it has run, held as long as the batch
  wpc,       \* where each worker is
  io,        \* the channel that the io thread's handler may be the last to hold, or None
  opened,    \* the server's channels of this connection
  consumers, \* its consumers
  unsent,    \* the response of the handler in progress: a sequence of one
  chosen,    \* pushes whose consumer a server's worker has chosen
  \* History
  waiting,   \* the messages a consumer was chosen for
  deleted,   \* consumers that went with their queue and were not cancelled since
  late       \* callers whose request followed the close of its channel

wire == <<requests, inbox>>
client == <<managed, stored, sub, at, arg>>
pool == <<tasks, batch, kept, wpc, io>>
server == <<opened, consumers, unsent, chosen, waiting, deleted>>
vars == <<link, requests, inbox, managed, stored, sub, at, arg, tasks, batch,
          kept, wpc, io, opened, consumers, unsent, chosen, waiting, deleted, late>>

Ops == {"open", "call", "consume", "cancel", "ack", "close"}
Request == [op : Ops, chan : Channels, who : Callers, tag : Tags \cup {None}]
Response == [chan : Channels, who : Callers, ok : BOOLEAN]
Delivered == [chan : Channels, tag : Tags, msg : Msgs]
\* Faulty variant: one handler is registered for both kinds.
IsAnything(x) == TRUE

IsResponse(x) == "ok" \in DOMAIN x

Init ==
  /\ link = "connecting" /\ requests = <<>> /\ inbox = <<>>
  /\ managed = {} /\ stored = {} /\ tasks = <<>>
  /\ sub = [c \in Channels |-> None] /\ arg = [c \in Channels |-> None]
  /\ at = [c \in Channels |-> "out"]
  /\ batch = [w \in Workers |-> <<>>] /\ kept = [w \in Workers |-> {}]
  /\ wpc = [w \in Workers |-> "idle"] /\ io = None
  /\ opened = {} /\ consumers = {} /\ unsent = <<>> /\ chosen = {} /\ waiting = {}
  /\ deleted = {} /\ late = {}

-----------------------------------------------------------------------------
(* The connection. *)

\* onConnection: the latch first, then _conn.
CountDown ==
  /\ link = "connecting"
  /\ link' = "latched"
  /\ UNCHANGED <<wire, client, pool, server, late>>

SetConnection ==
  /\ link = "latched"
  /\ link' = "up"
  /\ UNCHANGED <<wire, client, pool, server, late>>

\* The connection goes down with all that is on it; the server forgets it.
LoseConnection ==
  /\ link = "up"
  /\ link' = "lost" /\ requests' = <<>> /\ inbox' = <<>>
  /\ opened' = {} /\ consumers' = {} /\ unsent' = <<>> /\ chosen' = {} /\ deleted' = {}
  /\ UNCHANGED <<client, pool, waiting, late>>

\* send() on a connection that is down does nothing.
Send(op, c, who, tag) ==
  /\ requests' = IF link = "up"
                 THEN Append(requests, [op |-> op, chan |-> c, who |-> who, tag |-> tag])
                 ELSE requests
  /\ late' = IF at[c] \in {"closing", "closed", "dropping", "gone"}
             THEN late \cup {who} ELSE late

Alive == link # "dead"

-----------------------------------------------------------------------------
(* The application's thread of a channel. *)

\* Faulty variant: the channel is not in the map until the answer has come.
OpenLate(c) ==
  /\ at[c] = "out" /\ link = "up"
  /\ at' = [at EXCEPT ![c] = "opening"]
  /\ Send("open", c, c, None)
  /\ UNCHANGED <<link, inbox, managed, stored, sub, arg, pool, server>>

\* The latch lets the constructor return, then the channel copies _conn.  It
\* is null before SetConnection and after a loss.
Open(c) ==
  /\ at[c] = "out" /\ link = "up"
  /\ managed' = managed \cup {c}
  /\ at' = [at EXCEPT ![c] = "opening"]
  /\ Send("open", c, c, None)
  /\ UNCHANGED <<link, inbox, stored, sub, arg, pool, server>>

OpenOnNull(c) ==
  /\ at[c] = "out" /\ link \in {"latched", "lost"}
  /\ link' = "dead"
  /\ UNCHANGED <<wire, client, pool, server, late>>

\* Exchanges, queues, bindings and publishes.
Call(c) ==
  /\ at[c] = "idle"
  /\ at' = [at EXCEPT ![c] = "calling"]
  /\ Send("call", c, c, None)
  /\ UNCHANGED <<link, inbox, managed, stored, sub, arg, pool, server>>

Consume(c, t) ==
  /\ at[c] = "idle" /\ sub[c] = None /\ c \in Subscribers
  /\ at' = [at EXCEPT ![c] = "consuming"]
  /\ arg' = [arg EXCEPT ![c] = t]
  /\ Send("consume", c, c, t)
  /\ UNCHANGED <<link, inbox, managed, stored, sub, pool, server>>

Cancel(c) ==
  /\ at[c] = "idle" /\ sub[c] # None
  /\ at' = [at EXCEPT ![c] = "cancelling"]
  /\ Send("cancel", c, c, sub[c])
  /\ UNCHANGED <<link, inbox, managed, stored, sub, arg, pool, server>>

Close(c) ==
  /\ at[c] = "idle"
  /\ at' = [at EXCEPT ![c] = "closing"]
  /\ Send("close", c, c, None)
  /\ UNCHANGED <<link, inbox, managed, stored, sub, arg, pool, server>>

Calls == {"opening", "calling", "consuming", "cancelling", "closing"}
Waits(p) ==
  \/ p \in Channels /\ at[p] \in Calls \cup {"dropping"}
  \/ p \in Workers /\ wpc[p] \in {"acking", "dropping"}

\* waitResponse finds the response and takes it out of the map.
Return(c) ==
  /\ at[c] \in Calls
  /\ \E r \in stored :
       /\ r.chan = c /\ r.who = c
       /\ stored' = stored \ {r}
       /\ at' = [at EXCEPT ![c] =
                   CASE @ = "consuming" /\ r.ok -> "storing"
                     [] @ = "closing" -> "closed"
                     [] OTHER -> "idle"]
  /\ sub' = IF at[c] = "cancelling" THEN [sub EXCEPT ![c] = None] ELSE sub
  /\ managed' = IF at[c] = "closing" THEN managed \ {c} ELSE managed
  /\ UNCHANGED <<link, wire, arg, pool, server, late>>

StoreSubscriber(c) ==
  /\ at[c] = "storing"
  /\ sub' = [sub EXCEPT ![c] = arg[c]]
  /\ arg' = [arg EXCEPT ![c] = None]
  /\ at' = [at EXCEPT ![c] = "idle"]
  /\ UNCHANGED <<link, wire, managed, stored, pool, server, late>>

\* The pool holds c in a task that waits, or for one of these workers.
InPool(c, workers) ==
  \/ \E i \in DOMAIN tasks : tasks[i].chan = c
  \/ \E w \in workers : c \in kept[w] \/ \E i \in DOMAIN batch[w] : batch[w][i].chan = c

\* The application lets go of a closed channel.  ~Channel, which cancels what
\* is still subscribed, runs in the thread that held it last.
Drop(c) ==
  LET held == InPool(c, Workers) \/ io = c IN
  /\ at[c] = "closed"
  /\ \/ /\ held \/ sub[c] = None
        /\ at' = [at EXCEPT ![c] = "gone"]
        /\ UNCHANGED <<requests, late>>
     \/ /\ ~held /\ sub[c] # None
        /\ at' = [at EXCEPT ![c] = "dropping"]
        /\ Send("cancel", c, c, sub[c])
  /\ UNCHANGED <<link, inbox, managed, stored, sub, arg, pool, server>>

-----------------------------------------------------------------------------
(* The io thread and the workers of the client. *)

\* A response is put into its channel and a push into the pool, if the channel
\* is still in the map.  The handler holds it to its end, which matters only
\* for a channel that is closed and still subscribed: any other the application
\* holds too, or ~Channel has nothing to cancel.
Receive ==
  LET x == Head(inbox) IN
  /\ io = None /\ inbox # <<>>
  /\ inbox' = Tail(inbox)
  /\ IF x.chan \notin managed THEN UNCHANGED <<stored, tasks, io>>
     ELSE /\ io' = IF at[x.chan] = "closing" /\ sub[x.chan] # None THEN x.chan ELSE None
          /\ IF IsResponse(x) THEN stored' = stored \cup {x} /\ UNCHANGED tasks
             ELSE tasks' = Append(tasks, x) /\ UNCHANGED stored
  /\ UNCHANGED <<link, requests, managed, sub, at, arg, batch, kept, wpc, server, late>>

\* The end of the handler.  If all others have let go of the channel meanwhile,
\* ~Channel runs in the io thread, which waits in place of c's thread.
EndHandler ==
  /\ io # None /\ at[io] # "dropping"
  /\ \/ /\ at[io] # "gone" \/ InPool(io, Workers)
        /\ io' = None
        /\ UNCHANGED <<at, requests, late>>
     \/ /\ at[io] = "gone" /\ ~InPool(io, Workers)
        /\ at' = [at EXCEPT ![io] = "dropping"]
        /\ Send("cancel", io, io, sub[io])
        /\ UNCHANGED io
  /\ UNCHANGED <<link, inbox, managed, stored, sub, arg, tasks, batch, kept, wpc, server>>

TakeBatch(w) ==
  /\ wpc[w] = "idle" /\ batch[w] = <<>> /\ kept[w] = {} /\ tasks # <<>>
  /\ batch' = [batch EXCEPT ![w] = tasks] /\ tasks' = <<>>
  /\ UNCHANGED <<link, wire, client, kept, wpc, io, server, late>>

Task(w) == Head(batch[w])

\* The next task; this one is destroyed, and its channel let go, with the batch.
EndTask(w) ==
  /\ batch' = [batch EXCEPT ![w] = Tail(@)]
  /\ kept' = [kept EXCEPT ![w] = @ \cup {Task(w).chan}]
  /\ wpc' = [wpc EXCEPT ![w] = "idle"]

\* The end of a batch: where nobody else holds a channel, ~Channel runs here.
Release(w) ==
  /\ wpc[w] = "idle" /\ batch[w] = <<>>
  /\ \E c \in kept[w] :
       LET held == at[c] # "gone" \/ InPool(c, Workers \ {w}) \/ io = c IN
       \/ /\ held \/ sub[c] = None
          /\ kept' = [kept EXCEPT ![w] = @ \ {c}]
          /\ UNCHANGED <<wpc, requests, late>>
       \/ /\ ~held /\ sub[c] # None
          /\ wpc' = [wpc EXCEPT ![w] = "dropping"]
          /\ Send("cancel", c, w, sub[c])
          /\ UNCHANGED kept
  /\ UNCHANGED <<link, inbox, client, tasks, batch, io, server>>

\* Faulty variant: the worker waits for the subscription.
TestUntilSubscribed(w) ==
  /\ wpc[w] = "idle" /\ batch[w] # <<>>
  /\ sub[Task(w).chan] = Task(w).tag
  /\ wpc' = [wpc EXCEPT ![w] = "callback"]
  /\ UNCHANGED <<link, wire, client, tasks, batch, kept, io, server, late>>

\* consume: the subscription may not be stored yet, be cancelled, or have
\* another tag; the push is then dropped.
Test(w) ==
  /\ wpc[w] = "idle" /\ batch[w] # <<>>
  /\ \/ /\ sub[Task(w).chan] = Task(w).tag
        /\ wpc' = [wpc EXCEPT ![w] = "callback"]
        /\ UNCHANGED <<batch, kept>>
     \/ /\ sub[Task(w).chan] # Task(w).tag
        /\ EndTask(w)
  /\ UNCHANGED <<link, wire, client, tasks, io, server, late>>

\* The callback of the application ends without an acknowledgement, or
\* basicAck finds no subscription any more ...
LeaveCallback(w) ==
  /\ wpc[w] = "callback"
  /\ EndTask(w)
  /\ UNCHANGED <<link, wire, client, tasks, io, server, late>>

\* ... or acknowledges, and waits.
CallAck(w) ==
  /\ wpc[w] = "callback" /\ sub[Task(w).chan] # None
  /\ wpc' = [wpc EXCEPT ![w] = "acking"]
  /\ Send("ack", Task(w).chan, w, None)
  /\ UNCHANGED <<link, inbox, client, tasks, batch, kept, io, server>>

ReturnAck(w) ==
  /\ wpc[w] = "acking"
  /\ \E r \in stored :
       /\ r.chan = Task(w).chan /\ r.who = w
       /\ stored' = stored \ {r}
  /\ EndTask(w)
  /\ UNCHANGED <<link, wire, managed, sub, at, arg, tasks, io, server, late>>

\* The worker is in the std::function of a subscriber that was reset.
Die(w) ==
  /\ wpc[w] = "callback" /\ sub[Task(w).chan] = None
  /\ link' = "dead"
  /\ UNCHANGED <<wire, client, pool, server, late>>

-----------------------------------------------------------------------------
(* The server.  Its event loop handles one request after the other. *)

Answer(x, ok) == [chan |-> x.chan, who |-> x.who, ok |-> ok]
Reply(x, ok) == inbox' = Append(inbox, Answer(x, ok))

\* The head of the requests is one of op, for a channel that is open.
Handle(x, op) ==
  /\ link = "up" /\ unsent = <<>> /\ requests # <<>>
  /\ x = Head(requests) /\ x.op \in op
  /\ requests' = Tail(requests)

\* A channel's id is new, or the answer is false.
ServeOpen(x) ==
  /\ Handle(x, {"open"})
  /\ opened' = opened \cup {x.chan}
  /\ Reply(x, x.chan \notin opened)
  /\ UNCHANGED <<link, client, pool, consumers, unsent, chosen, waiting, deleted,
                 late>>

\* closeChannel answers whether or not there is such a channel.
ServeClose(x) ==
  /\ Handle(x, {"close"})
  /\ opened' = opened \ {x.chan}
  /\ consumers' = {k \in consumers : k.chan # x.chan}
  /\ deleted' = {k \in deleted : k.chan # x.chan}
  /\ Reply(x, TRUE)
  /\ UNCHANGED <<link, client, pool, unsent, chosen, waiting, late>>

\* Any other request for a channel that is not open gets no answer.
Ignore(x) ==
  /\ Handle(x, Ops \ {"open", "close"}) /\ x.chan \notin opened
  /\ UNCHANGED <<link, inbox, client, pool, server, late>>

\* Faulty variant: an acknowledgement gets no answer.
ServeAckSilently(x) ==
  /\ Handle(x, {"call", "ack"}) /\ x.chan \in opened
  /\ IF x.op = "ack" THEN UNCHANGED inbox ELSE Reply(x, TRUE)
  /\ UNCHANGED <<link, client, pool, server, late>>

\* What most calls do is Metadata's and Delivery's; a refusal is answered too,
\* and its caller returns all the same.
ServeCall(x) ==
  /\ Handle(x, {"call", "ack"}) /\ x.chan \in opened
  /\ Reply(x, TRUE)
  /\ UNCHANGED <<link, client, pool, server, late>>

\* destroyQueueConsumer: some consumers, on whatever channels, go with their
\* queue, and nobody tells their clients.
DestroyConsumers ==
  \E gone \in SUBSET consumers \ {{}} :
    /\ consumers' = consumers \ gone
    /\ deleted' = deleted \cup gone

\* deleteQueue, asked for by this client ...
ServeDeleteQueue(x) ==
  /\ Handle(x, {"call"}) /\ x.chan \in opened
  /\ DestroyConsumers
  /\ Reply(x, TRUE)
  /\ UNCHANGED <<link, client, pool, opened, unsent, chosen, waiting, late>>

\* ... or by another one of the server's.
DeleteQueueOfOther ==
  /\ link = "up" /\ unsent = <<>>
  /\ DestroyConsumers
  /\ UNCHANGED <<link, wire, client, pool, opened, unsent, chosen, waiting, late>>

\* basicConsume: the consumer is there, and may be chosen, before the answer
\* is sent.  A queue that does not exist is refused.
ServeConsume(x) ==
  /\ Handle(x, {"consume"}) /\ x.chan \in opened
  /\ \/ /\ consumers' = consumers \cup {[chan |-> x.chan, tag |-> x.tag]}
        /\ unsent' = <<Answer(x, TRUE)>>
     \/ /\ unsent' = <<Answer(x, FALSE)>>
        /\ UNCHANGED consumers
  /\ UNCHANGED <<link, inbox, client, pool, opened, chosen, waiting, deleted, late>>

SendAnswer ==
  /\ link = "up" /\ unsent # <<>>
  /\ inbox' = inbox \o unsent /\ unsent' = <<>>
  /\ UNCHANGED <<link, requests, client, pool, opened, consumers, chosen, waiting,
                 deleted, late>>

\* Faulty variant: the consumer stays.
CancelNothing(x) ==
  /\ Handle(x, {"cancel"}) /\ x.chan \in opened
  /\ Reply(x, TRUE)
  /\ UNCHANGED <<link, client, pool, server, late>>

ServeCancel(x) ==
  /\ Handle(x, {"cancel"}) /\ x.chan \in opened
  /\ consumers' = consumers \ {[chan |-> x.chan, tag |-> x.tag]}
  /\ deleted' = deleted \ {[chan |-> x.chan, tag |-> x.tag]}
  /\ Reply(x, TRUE)
  /\ UNCHANGED <<link, client, pool, opened, unsent, chosen, waiting, late>>

\* A worker of the server chooses a consumer, and sends; in between the
\* consumer may have been cancelled.
Choose(k, m) ==
  /\ link = "up" /\ k \in consumers /\ m \notin waiting
  /\ chosen' = chosen \cup {[chan |-> k.chan, tag |-> k.tag, msg |-> m]}
  /\ waiting' = waiting \cup {m}
  /\ UNCHANGED <<link, wire, client, pool, opened, consumers, unsent, deleted, late>>

Push(d) ==
  /\ link = "up" /\ d \in chosen
  /\ inbox' = Append(inbox, d)
  /\ chosen' = chosen \ {d}
  /\ UNCHANGED <<link, requests, client, pool, opened, consumers, unsent, waiting,
                 deleted, late>>

-----------------------------------------------------------------------------
Serve ==
  \/ SendAnswer
  \/ \E x \in Range(requests) :
       \/ ServeOpen(x) \/ ServeClose(x) \/ ServeCall(x) \/ ServeDeleteQueue(x)
       \/ ServeConsume(x) \/ ServeCancel(x) \/ Ignore(x)

Work(w) ==
  /\ Alive
  /\ \/ TakeBatch(w) \/ Test(w) \/ LeaveCallback(w) \/ CallAck(w) \/ ReturnAck(w)
     \/ Release(w) \/ Die(w)

Io == Alive /\ (Receive \/ EndHandler)

\* The application may call; a call it is in goes on.
MayCall(c) ==
  /\ Alive
  /\ \/ Open(c) \/ OpenOnNull(c) \/ Call(c) \/ Cancel(c) \/ Close(c) \/ Drop(c)
     \/ \E t \in Tags : Consume(c, t)
GoOn(c) == Alive /\ (Return(c) \/ StoreSubscriber(c))

Next ==
  \/ CountDown \/ SetConnection \/ LoseConnection
  \/ \E c \in Channels : MayCall(c) \/ GoOn(c)
  \/ Io
  \/ \E w \in Workers : Work(w)
  \/ Serve \/ DeleteQueueOfOther
  \/ \E k \in consumers, m \in Msgs : Choose(k, m)
  \/ \E d \in chosen : Push(d)

Spec == Init /\ [][Next]_vars

\* Threads that have something to do go on, and callbacks end; nobody owes a
\* call, a push or the loss of the connection.
FairSpec ==
  /\ Spec
  /\ WF_vars(Serve) /\ WF_vars(Io)
  /\ \A c \in Channels : WF_vars(GoOn(c))
  /\ \A w \in Workers : WF_vars(Work(w))

-----------------------------------------------------------------------------
\* Types; a worker in a callback or a call has its task, and the server's
\* consumers are those of channels that are open.
TypeOK ==
  /\ link \in {"connecting", "latched", "up", "lost", "dead"}
  /\ requests \in Seq(Request) /\ inbox \in Seq(Response \cup Delivered)
  /\ managed \subseteq Channels /\ stored \subseteq Response
  /\ sub \in [Channels -> Tags \cup {None}] /\ arg \in [Channels -> Tags \cup {None}]
  /\ at \in [Channels -> Calls \cup
       {"out", "idle", "storing", "closed", "dropping", "gone"}]
  /\ tasks \in Seq(Delivered) /\ batch \in [Workers -> Seq(Delivered)]
  /\ kept \in [Workers -> SUBSET Channels] /\ io \in Channels \cup {None}
  /\ wpc \in [Workers -> {"idle", "callback", "acking", "dropping"}]
  /\ opened \subseteq Channels
  /\ consumers \cup deleted \subseteq [chan : Channels, tag : Tags]
  /\ unsent \in Seq(Response) /\ chosen \subseteq Delivered
  /\ waiting \subseteq Msgs /\ late \subseteq Callers
  /\ \A w \in Workers : wpc[w] \in {"callback", "acking"} => batch[w] # <<>>
  /\ \A k \in consumers : k.chan \in opened

\* The places where the request of p, or its response, can be.
InSeq(p, s) == Cardinality({i \in DOMAIN s : "who" \in DOMAIN s[i] /\ s[i].who = p})
Copies(p) ==
  InSeq(p, requests) + InSeq(p, unsent) + InSeq(p, inbox)
    + Cardinality({r \in stored : r.who = p})

\* As long as the connection is up, each thread that waits has exactly one
\* request or response on its way to it, and nobody else has any: no response
\* is lost, not even of an acknowledgement that races with the close of its
\* channel, and none is left in a channel's map.  Only the request of a thread
\* that called after its channel was closed may vanish.
AnswerIsOnItsWay ==
  link = "up" => \A p \in Callers :
    IF p \in late THEN Copies(p) = InSeq(p, requests)
    ELSE Copies(p) = IF Waits(p) THEN 1 ELSE 0

\* The two sides agree on the subscription of a channel whenever no call of
\* the application is under way on it: the server has no consumer that the
\* client does not know of, and the client's is with the server unless a
\* deletion of its queue took it.
SubscriptionsAgree ==
  link = "up" => \A c \in Channels : at[c] = "idle" =>
    {k.tag : k \in {k \in consumers \cup deleted : k.chan = c}} = {sub[c]} \ {None}

\* ~Channel of a subscribed channel runs in the io thread, for ever.
IoWaits == io # None /\ at[io] = "dropping"

\* waitResponse (MQClient/Channel.hpp:278): every call made on a channel before
\* its close returns, unless the connection is lost, the process dies or the io
\* thread was the last to hold a channel that was closed and not cancelled.  (A
\* worker whose call returned may at once be in another one, a late one.)
CallsReturn ==
  \A p \in Callers :
    Waits(p) /\ p \notin late ~>
      ~Waits(p) \/ p \in late \/ IoWaits \/ link \in {"lost", "dead"}

\* Every push that reached the pool is dealt with and its batch released, however
\* long the callbacks of others wait for their acknowledgements; unless a thread
\* waits for ever on a closed channel.
PushesAreDone ==
  \A w \in Workers : batch[w] # <<>> ~>
    (batch[w] = <<>> /\ kept[w] = {}) \/ late # {} \/ link \in {"lost", "dead"}
=============================================================================
