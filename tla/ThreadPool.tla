------------------------------ MODULE ThreadPool ------------------------------
(***************************************************************************)
(* The pool of worker threads (MQCommon/ThreadPool.hpp): tasks are pushed  *)
(* into a vector under a mutex, a worker takes the whole vector at once    *)
(* and runs it without the mutex.  The condition variable is modelled by   *)
(* the workers whose pc is "asleep": notify_one wakes one of them,         *)
(* notify_all every one.  A woken worker must get the mutex back before it *)
(* tests the predicate again.                                              *)
(*                                                                         *)
(* The predicate is tested with the mutex held, but Stop() sets _stop and  *)
(* notifies without it, so "the predicate was false" and "asleep" are two  *)
(* steps here.  Tasks are numbered in the order in which they are pushed.  *)
(***************************************************************************)
EXTENDS Naturals, Sequences, Functions

CONSTANTS
  Workers, \* the threads of the pool (2 in the server)
  Free,    \* the mutex has no owner
  MaxTasks \* bound: tasks pushed in a run

ASSUME PoolAssumption == Workers # {} /\ Free \notin Workers /\ MaxTasks \in Nat

VARIABLES
  pc,      \* where each worker is in Entry()
  mutex,   \* the worker that owns _mutex, or Free
  tasks,   \* _tasks
  batch,   \* the tmp_tasks of each worker, what is left to run
  stop,    \* _stop
  stopper, \* the thread that calls Stop(): "out", "set", "join" or "stopped"
  pushed,  \* history: the number of tasks pushed
  ran      \* history: the tasks each worker ran, in order

vars == <<pc, mutex, tasks, batch, stop, stopper, pushed, ran>>

Sleepers == {w \in Workers : pc[w] = "asleep"}
Move(w, from, to) == pc[w] = from /\ pc' = [pc EXCEPT ![w] = to]

Init ==
  /\ pc = [w \in Workers |-> "loop"]
  /\ mutex = Free /\ tasks = <<>>
  /\ batch = [w \in Workers |-> <<>>]
  /\ stop = FALSE /\ stopper = "out"
  /\ pushed = 0 /\ ran = [w \in Workers |-> <<>>]

-----------------------------------------------------------------------------
\* Faulty variant: nobody is notified.
PushSilently ==
  /\ mutex = Free /\ stopper # "stopped" /\ pushed < MaxTasks
  /\ tasks' = Append(tasks, pushed + 1)
  /\ pushed' = pushed + 1
  /\ UNCHANGED <<pc, mutex, batch, stop, stopper, ran>>

\* push(): the task is appended and one sleeper notified with the mutex held.
\* Nothing in push() looks at _stop.
Push ==
  /\ mutex = Free /\ stopper # "stopped" /\ pushed < MaxTasks
  /\ tasks' = Append(tasks, pushed + 1)
  /\ pushed' = pushed + 1
  /\ \/ Sleepers = {} /\ UNCHANGED pc
     \/ \E w \in Sleepers : Move(w, "asleep", "woken")
  /\ UNCHANGED <<mutex, batch, stop, stopper, ran>>

\* Stop(): set the flag, notify all, join.
SetStop ==
  /\ stopper = "out"
  /\ stop' = TRUE /\ stopper' = "set"
  /\ UNCHANGED <<pc, mutex, tasks, batch, pushed, ran>>

NotifyAll ==
  /\ stopper = "set"
  /\ stopper' = "join"
  /\ pc' = [w \in Workers |-> IF w \in Sleepers THEN "woken" ELSE pc[w]]
  /\ UNCHANGED <<mutex, tasks, batch, stop, pushed, ran>>

Join ==
  /\ stopper = "join" /\ \A w \in Workers : pc[w] = "done"
  /\ stopper' = "stopped"
  /\ UNCHANGED <<pc, mutex, tasks, batch, stop, pushed, ran>>

-----------------------------------------------------------------------------
(* Entry(), the body of a worker. *)

TestStop(w) ==
  /\ \/ ~stop /\ Move(w, "loop", "lock")
     \/ stop /\ Move(w, "loop", "done")
  /\ UNCHANGED <<mutex, tasks, batch, stop, stopper, pushed, ran>>

\* The mutex is taken, on the way in or on the way out of the wait.
Lock(w) ==
  /\ mutex = Free /\ mutex' = w
  /\ Move(w, "lock", "test") \/ Move(w, "woken", "test")
  /\ UNCHANGED <<tasks, batch, stop, stopper, pushed, ran>>

\* Faulty variants: the lock's scope includes the batch; the tasks are copied
\* and not swapped.
TakeKeepingMutex(w) ==
  /\ stop \/ tasks # <<>>
  /\ Move(w, "test", "run")
  /\ batch' = [batch EXCEPT ![w] = tasks]
  /\ tasks' = <<>>
  /\ UNCHANGED <<mutex, stop, stopper, pushed, ran>>
TakeCopy(w) ==
  /\ stop \/ tasks # <<>>
  /\ Move(w, "test", "run")
  /\ batch' = [batch EXCEPT ![w] = tasks]
  /\ mutex' = Free
  /\ UNCHANGED <<tasks, stop, stopper, pushed, ran>>

\* The predicate of wait() holds: swap the tasks out and release the mutex.
Take(w) ==
  /\ stop \/ tasks # <<>>
  /\ Move(w, "test", "run")
  /\ batch' = [batch EXCEPT ![w] = tasks]
  /\ tasks' = <<>>
  /\ mutex' = Free
  /\ UNCHANGED <<stop, stopper, pushed, ran>>

\* Faulty variant: wait() without a predicate.
WaitUnconditionally(w) ==
  /\ ~stop
  /\ Move(w, "test", "block")
  /\ UNCHANGED <<mutex, tasks, batch, stop, stopper, pushed, ran>>

NothingToDo(w) ==
  /\ ~stop /\ tasks = <<>>
  /\ Move(w, "test", "block")
  /\ UNCHANGED <<mutex, tasks, batch, stop, stopper, pushed, ran>>

\* wait() registers the thread and releases the mutex.
Sleep(w) ==
  /\ Move(w, "block", "asleep")
  /\ mutex' = Free
  /\ UNCHANGED <<tasks, batch, stop, stopper, pushed, ran>>

\* Waiting threads may be woken by nobody.
SpuriousWakeup(w) ==
  /\ Move(w, "asleep", "woken")
  /\ UNCHANGED <<mutex, tasks, batch, stop, stopper, pushed, ran>>

\* Faulty variant: tasks are popped from the back.
RunNewestTask(w) ==
  /\ pc[w] = "run" /\ batch[w] # <<>>
  /\ LET n == Len(batch[w]) IN
       /\ ran' = [ran EXCEPT ![w] = Append(@, batch[w][n])]
       /\ batch' = [batch EXCEPT ![w] = SubSeq(@, 1, n - 1)]
  /\ UNCHANGED <<pc, mutex, tasks, stop, stopper, pushed>>

RunTask(w) ==
  /\ pc[w] = "run" /\ batch[w] # <<>>
  /\ ran' = [ran EXCEPT ![w] = Append(@, Head(batch[w]))]
  /\ batch' = [batch EXCEPT ![w] = Tail(@)]
  /\ UNCHANGED <<pc, mutex, tasks, stop, stopper, pushed>>

\* Faulty variant: the loop over the batch also ends when the pool stops.
BatchCutByStop(w) ==
  /\ batch[w] = <<>> \/ stop
  /\ Move(w, "run", "loop")
  /\ UNCHANGED <<mutex, tasks, batch, stop, stopper, pushed, ran>>

BatchDone(w) ==
  /\ batch[w] = <<>>
  /\ Move(w, "run", "loop")
  /\ UNCHANGED <<mutex, tasks, batch, stop, stopper, pushed, ran>>

Work(w) ==
  \/ TestStop(w) \/ Lock(w) \/ Take(w) \/ NothingToDo(w) \/ Sleep(w)
  \/ RunTask(w) \/ BatchDone(w)

Stop == SetStop \/ NotifyAll \/ Join

Next ==
  \/ Push
  \/ Stop
  \/ \E w \in Workers : Work(w) \/ SpuriousWakeup(w)

Spec == Init /\ [][Next]_vars

\* Threads that can run are run, and a thread in Stop() goes on.  Nobody has
\* to call push() or Stop(), and no wakeup is owed to a sleeping thread.
Fairness ==
  /\ \A w \in Workers : WF_vars(Work(w))
  /\ WF_vars(NotifyAll) /\ WF_vars(Join)

FairSpec == Spec /\ Fairness

-----------------------------------------------------------------------------
Pcs == {"loop", "lock", "test", "block", "asleep", "woken", "run", "done"}

\* Types, and the mutex discipline: its owner is the worker that tests the
\* predicate or is about to wait, and only that worker.
TypeOK ==
  /\ pc \in [Workers -> Pcs]
  /\ mutex \in Workers \cup {Free}
  /\ tasks \in Seq(Nat)
  /\ batch \in [Workers -> Seq(Nat)]
  /\ stop \in BOOLEAN
  /\ stopper \in {"out", "set", "join", "stopped"}
  /\ pushed \in Nat
  /\ ran \in [Workers -> Seq(Nat)]
  /\ \A w \in Workers : mutex = w <=> pc[w] \in {"test", "block"}

\* No lost wakeup while the pool is open: when tasks are queued some worker is
\* on its way to take them, so a task never waits for the next push
\* (ThreadPool.hpp:54-58 against :95-103).
Awake == {w \in Workers : pc[w] \in {"loop", "lock", "test", "woken", "run"}}
QueuedTaskHasAWorker == tasks # <<>> /\ ~stop => Awake # {}

\* Each pushed task is in one place only: queued, in the batch of one worker,
\* or run by one worker, once.  Batches swapped out are neither lost nor run
\* by two workers.
Places == [w \in Workers |-> ran[w] \o batch[w]]
EachTaskInOnePlace ==
  /\ Range(tasks) \cup UNION {Range(Places[w]) : w \in Workers} = 1..pushed
  /\ \A w \in Workers :
       /\ Range(Places[w]) \cap Range(tasks) = {}
       /\ \A v \in Workers \ {w} : Range(Places[w]) \cap Range(Places[v]) = {}

\* Tasks start in push order on each worker, and a queued task is younger than
\* every task already taken: only batches of different workers overtake each
\* other.
TakenInOrder ==
  /\ \A w \in Workers : \A i, j \in DOMAIN Places[w] :
       i < j => Places[w][i] < Places[w][j]
  /\ \A w \in Workers : \A i \in DOMAIN Places[w], j \in DOMAIN tasks :
       Places[w][i] < tasks[j]

\* Stop() runs what a worker has taken to its end: when it returns, only tasks
\* nobody took are left.
NoBatchIsCutShort == stopper = "stopped" => \A w \in Workers : batch[w] = <<>>

\* Every task pushed to a pool that is not stopped is run.
TasksAreRun ==
  \A t \in 1..MaxTasks :
    pushed >= t ~> stop \/ \E w \in Workers : t \in Range(ran[w])

\* "Stop all the threads and wait until they have finished"
\* (ThreadPool.hpp:32-33): a call of Stop() returns.
StopReturns == stop ~> stopper = "stopped"

\* Without the mutex, the sleeping and the stopping this is the pool that the
\* server's channels push to: a worker that is stopped, woken for nothing or
\* overtaken on its way to the mutex takes nothing, and none takes tasks while
\* it has others to run.
Pool == INSTANCE TaskPool WITH Tasks <- 1..MaxTasks
ImplementsTaskPool == Pool!Spec
=============================================================================
