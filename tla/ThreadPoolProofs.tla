--------------------------- MODULE ThreadPoolProofs ---------------------------
(***************************************************************************)
(* Proofs about ThreadPool, for every number of workers and of tasks.      *)
(*                                                                         *)
(* Control is about the places of the threads: only a worker in "run" has  *)
(* a batch, and a worker is "done" only when the pool stops.  It gives the *)
(* absence of lost wakeups: a push needs the mutex, so no worker is then   *)
(* between its test of the predicate and its sleep.  Custody is about the  *)
(* tasks; it is restored by Take because the batch that the tasks replace  *)
(* was empty, and RunTask moves nothing from place to place.               *)
(***************************************************************************)
EXTENDS ThreadPool, SequenceTheorems, TLAPS

\* Only a worker that runs a batch has one.
BatchesAreRun == \A w \in Workers : pc[w] # "run" => batch[w] = <<>>

\* A worker ends only when the pool stops, and Stop() waits for all of them.
EndedByStop ==
  /\ \A w \in Workers : pc[w] = "done" => stop
  /\ stopper = "stopped" => \A w \in Workers : pc[w] = "done"

Control == TypeOK /\ BatchesAreRun /\ EndedByStop

LEMMA InitControl == Init => Control
<1> SUFFICES ASSUME Init PROVE Control
  OBVIOUS
<1>1. <<>> \in Seq(Nat)
  BY EmptySeq
<1>2. /\ tasks \in Seq(Nat) /\ batch \in [Workers -> Seq(Nat)]
      /\ ran \in [Workers -> Seq(Nat)]
  BY <1>1 DEF Init
<1>3. /\ pc \in [Workers -> Pcs]
      /\ \A w \in Workers : mutex = w <=> pc[w] \in {"test", "block"}
  BY PoolAssumption DEF Init, Pcs
<1>4. TypeOK
  BY <1>2, <1>3 DEF Init, TypeOK
<1> QED
  BY <1>4 DEF Init, Control, BatchesAreRun, EndedByStop

\* What Move does to the program counters.
LEMMA MovedPc ==
  ASSUME TypeOK, NEW w \in Workers, NEW from, NEW to \in Pcs, Move(w, from, to)
  PROVE  /\ pc[w] = from /\ pc'[w] = to /\ pc' \in [Workers -> Pcs]
         /\ \A v \in Workers \ {w} : pc'[v] = pc[v]
BY DEF Move, TypeOK

LEMMA PushControl == Control /\ Push => Control'
<1> SUFFICES ASSUME Control, Push PROVE Control'
  OBVIOUS
<1> USE PoolAssumption DEF Control
<1>1. /\ mutex = Free /\ mutex' = Free /\ pushed' = pushed + 1
      /\ UNCHANGED <<batch, stop, stopper, ran>>
  BY DEF Push
<1>2. tasks' \in Seq(Nat)
  BY AppendProperties DEF Push, TypeOK
<1>3. /\ pc' \in [Workers -> Pcs]
      /\ \A v \in Workers : \/ pc'[v] = pc[v]
                            \/ pc[v] = "asleep" /\ pc'[v] = "woken"
  <2>1. CASE UNCHANGED pc
    BY <2>1 DEF TypeOK
  <2>2. ASSUME NEW w \in Sleepers, Move(w, "asleep", "woken")
        PROVE  /\ pc' \in [Workers -> Pcs]
               /\ \A v \in Workers : \/ pc'[v] = pc[v]
                                     \/ pc[v] = "asleep" /\ pc'[v] = "woken"
    BY <2>2, MovedPc DEF Sleepers, Pcs
  <2> QED
    BY <2>1, <2>2 DEF Push
<1>4. TypeOK'
  BY <1>1, <1>2, <1>3 DEF TypeOK
<1>5. BatchesAreRun' /\ EndedByStop'
  BY <1>1, <1>3 DEF BatchesAreRun, EndedByStop, Push
<1> QED
  BY <1>4, <1>5

LEMMA StopControl == Control /\ Stop => Control'
<1> SUFFICES ASSUME Control, Stop PROVE Control'
  OBVIOUS
<1> USE PoolAssumption DEF Control
<1>1. CASE SetStop
  BY <1>1 DEF SetStop, TypeOK, BatchesAreRun, EndedByStop
<1>2. CASE NotifyAll
  <2>1. /\ pc' \in [Workers -> Pcs]
        /\ \A v \in Workers : \/ pc'[v] = pc[v]
                              \/ pc[v] = "asleep" /\ pc'[v] = "woken"
    BY <1>2 DEF NotifyAll, TypeOK, Sleepers, Pcs
  <2>2. TypeOK'
    BY <1>2, <2>1 DEF NotifyAll, TypeOK
  <2> QED
    BY <1>2, <2>1, <2>2 DEF NotifyAll, BatchesAreRun, EndedByStop
<1>3. CASE Join
  BY <1>3 DEF Join, TypeOK, BatchesAreRun, EndedByStop
<1> QED
  BY <1>1, <1>2, <1>3 DEF Stop

\* Steps of one worker that only move it and pass the mutex on.
LEMMA MoveControl ==
  ASSUME Control, NEW w \in Workers, NEW from, NEW to \in Pcs \ {"run", "done"},
         Move(w, from, to), from \in Pcs \ {"run", "done"},
         UNCHANGED <<tasks, batch, stop, stopper, pushed, ran>>,
         \/ mutex' = mutex /\ (from \in {"test", "block"} <=> to \in {"test", "block"})
         \/ mutex = Free /\ mutex' = w /\ to \in {"test", "block"}
         \/ mutex' = Free /\ from \in {"test", "block"} /\ to \notin {"test", "block"}
  PROVE  Control'
<1> USE PoolAssumption DEF Control
<1>1. /\ pc[w] = from /\ pc'[w] = to /\ pc' \in [Workers -> Pcs]
      /\ \A v \in Workers \ {w} : pc'[v] = pc[v]
  BY MovedPc
<1>2. \A v \in Workers : mutex' = v <=> pc'[v] \in {"test", "block"}
  <2> SUFFICES ASSUME NEW v \in Workers
               PROVE  mutex' = v <=> pc'[v] \in {"test", "block"}
    OBVIOUS
  <2>1. /\ mutex = v <=> pc[v] \in {"test", "block"}
        /\ mutex = w <=> from \in {"test", "block"}
        /\ Free # v /\ Free # w
    BY <1>1 DEF TypeOK
  <2>2. CASE v = w
    BY <1>1, <2>1, <2>2
  <2>3. CASE v # w
    BY <1>1, <2>1, <2>3
  <2> QED
    BY <2>2, <2>3
<1>4. mutex' \in Workers \cup {Free}
  BY DEF TypeOK
<1>3. TypeOK'
  BY <1>1, <1>2, <1>4 DEF TypeOK
<1>5. BatchesAreRun' /\ EndedByStop'
  BY <1>1 DEF BatchesAreRun, EndedByStop
<1> QED
  BY <1>3, <1>5

LEMMA WorkControl ==
  ASSUME NEW w \in Workers
  PROVE  Control /\ (Work(w) \/ SpuriousWakeup(w)) => Control'
<1> SUFFICES ASSUME Control, Work(w) \/ SpuriousWakeup(w) PROVE Control'
  OBVIOUS
<1> USE PoolAssumption
<1>1. CASE TestStop(w)
  <2>1. CASE Move(w, "loop", "lock")
    BY <1>1, <2>1, MoveControl DEF TestStop, Pcs
  <2>2. CASE stop /\ Move(w, "loop", "done")
    <3>1. /\ pc[w] = "loop" /\ pc'[w] = "done" /\ pc' \in [Workers -> Pcs]
          /\ \A v \in Workers \ {w} : pc'[v] = pc[v]
      BY <2>2, MovedPc DEF Pcs, Control
    <3>2. TypeOK'
      BY <1>1, <3>1 DEF TestStop, TypeOK, Control
    <3> QED
      BY <1>1, <2>2, <3>1, <3>2 DEF TestStop, Control, BatchesAreRun, EndedByStop
  <2> QED
    BY <1>1, <2>1, <2>2 DEF TestStop
<1>2. CASE Lock(w)
  <2>1. CASE Move(w, "lock", "test")
    BY <1>2, <2>1, MoveControl DEF Lock, Pcs
  <2>2. CASE Move(w, "woken", "test")
    BY <1>2, <2>2, MoveControl DEF Lock, Pcs
  <2> QED
    BY <1>2, <2>1, <2>2 DEF Lock
<1>3. CASE NothingToDo(w)
  BY <1>3, MoveControl DEF NothingToDo, Pcs
<1>4. CASE Sleep(w)
  BY <1>4, MoveControl DEF Sleep, Pcs
<1>5. CASE SpuriousWakeup(w)
  BY <1>5, MoveControl DEF SpuriousWakeup, Pcs
<1>6. CASE Take(w)
  <2>1. /\ pc[w] = "test" /\ pc'[w] = "run" /\ pc' \in [Workers -> Pcs]
        /\ \A v \in Workers \ {w} : pc'[v] = pc[v]
    BY <1>6, MovedPc DEF Take, Pcs, Control
  <2>2. tasks' \in Seq(Nat) /\ batch' \in [Workers -> Seq(Nat)]
    BY <1>6, EmptySeq DEF Take, TypeOK, Control
  <2>3. \A v \in Workers : mutex' = v <=> pc'[v] \in {"test", "block"}
    BY <1>6, <2>1 DEF Take, TypeOK, Control
  <2>4. TypeOK'
    BY <1>6, <2>1, <2>2, <2>3 DEF Take, TypeOK, Control
  <2>5. \A v \in Workers \ {w} : batch'[v] = batch[v]
    BY <1>6 DEF Take, TypeOK, Control
  <2> QED
    BY <1>6, <2>1, <2>4, <2>5 DEF Take, Control, BatchesAreRun, EndedByStop
<1>7. CASE RunTask(w)
  <2>1. Head(batch[w]) \in Nat /\ Tail(batch[w]) \in Seq(Nat)
    BY <1>7, HeadTailProperties DEF RunTask, TypeOK, Control
  <2>2. Append(ran[w], Head(batch[w])) \in Seq(Nat)
    BY <2>1, AppendProperties DEF TypeOK, Control
  <2>3. TypeOK'
    BY <1>7, <2>1, <2>2 DEF RunTask, TypeOK, Control
  <2>4. \A v \in Workers \ {w} : batch'[v] = batch[v]
    BY <1>7 DEF RunTask, TypeOK, Control
  <2> QED
    BY <1>7, <2>3, <2>4 DEF RunTask, Control, BatchesAreRun, EndedByStop
<1>8. CASE BatchDone(w)
  <2>1. /\ pc[w] = "run" /\ pc'[w] = "loop" /\ pc' \in [Workers -> Pcs]
        /\ \A v \in Workers \ {w} : pc'[v] = pc[v]
    BY <1>8, MovedPc DEF BatchDone, Pcs, Control
  <2>2. TypeOK'
    BY <1>8, <2>1 DEF BatchDone, TypeOK, Control
  <2> QED
    BY <1>8, <2>1, <2>2 DEF BatchDone, Control, BatchesAreRun, EndedByStop
<1> QED
  BY <1>1, <1>2, <1>3, <1>4, <1>5, <1>6, <1>7, <1>8 DEF Work

LEMMA NextControl == Control /\ [Next]_vars => Control'
<1> SUFFICES ASSUME Control, [Next]_vars PROVE Control'
  OBVIOUS
<1>1. CASE UNCHANGED vars
  BY <1>1 DEF vars, Control, TypeOK, BatchesAreRun, EndedByStop
<1> QED
  BY <1>1, PushControl, StopControl, WorkControl DEF Next

LEMMA AlwaysControl == Spec => []Control
BY InitControl, NextControl, PTL DEF Spec

-----------------------------------------------------------------------------
(* No lost wakeup. *)

LEMMA InitAwake == Init => QueuedTaskHasAWorker
BY DEF Init, QueuedTaskHasAWorker

\* A push finds the mutex free, so nobody is in "test" or "block": unless it
\* wakes a sleeper, every worker of the open pool is on its way.
LEMMA NextAwake == Control /\ QueuedTaskHasAWorker /\ [Next]_vars => QueuedTaskHasAWorker'
<1> SUFFICES ASSUME Control, QueuedTaskHasAWorker, [Next]_vars, tasks' # <<>>, ~stop'
             PROVE  \E v \in Workers : pc'[v] \in {"loop", "lock", "test", "woken", "run"}
  BY DEF QueuedTaskHasAWorker, Awake
<1>0. pc \in [Workers -> Pcs]
  BY DEF Control, TypeOK
<1>1. CASE Push
  <2>1. CASE Sleepers = {} /\ UNCHANGED pc
    <3>1. PICK v \in Workers : TRUE
      BY PoolAssumption
    <3>2. pc[v] # "asleep"
      BY <2>1 DEF Sleepers
    <3>3. pc[v] # "done"
      BY <1>1 DEF Push, Control, EndedByStop
    <3>4. pc[v] \notin {"test", "block"}
      BY <1>1, PoolAssumption DEF Push, Control, TypeOK
    <3> QED
      BY <1>0, <2>1, <3>2, <3>3, <3>4 DEF Pcs
  <2>2. ASSUME NEW v \in Sleepers, Move(v, "asleep", "woken")
        PROVE  \E u \in Workers : pc'[u] \in {"loop", "lock", "test", "woken", "run"}
    BY <1>0, <2>2 DEF Move, Sleepers
  <2> QED
    BY <1>1, <2>1, <2>2 DEF Push
<1> DEFINE up == {"loop", "lock", "test", "woken", "run"}
<1>2. ASSUME tasks # <<>>, ~stop
      PROVE  \E v \in Workers : pc[v] \in up
  BY <1>2 DEF QueuedTaskHasAWorker, Awake
<1>3. CASE UNCHANGED vars
  BY <1>2, <1>3 DEF vars
<1>4. CASE Stop
  <2>1. tasks # <<>> /\ ~stop
    BY <1>4 DEF Stop, SetStop, NotifyAll, Join
  <2>2. PICK v \in Workers : pc[v] \in up
    BY <1>2, <2>1
  <2>3. pc'[v] \in up
    BY <1>0, <1>4, <2>2 DEF Stop, SetStop, NotifyAll, Join, Sleepers
  <2> QED
    BY <2>3
<1>5. ASSUME NEW w \in Workers, Work(w) \/ SpuriousWakeup(w)
      PROVE  \E v \in Workers : pc'[v] \in up
  <2>1. tasks # <<>> /\ ~stop
    BY <1>5 DEF Work, TestStop, Lock, Take, NothingToDo, Sleep, RunTask, BatchDone,
      SpuriousWakeup
  <2>2. PICK v \in Workers : pc[v] \in up
    BY <1>2, <2>1
  <2>3. ASSUME NEW from, NEW to, to \in up \/ from \notin up, Move(w, from, to)
        PROVE  pc'[v] \in up
    BY <1>0, <2>2, <2>3 DEF Move
  <2>4. CASE TestStop(w)
    BY <2>1, <2>3, <2>4 DEF TestStop
  <2>5. CASE Lock(w)
    BY <2>3, <2>5 DEF Lock
  <2>6. CASE Take(w)
    BY <2>3, <2>6 DEF Take
  <2>7. CASE NothingToDo(w)
    BY <2>1, <2>7 DEF NothingToDo
  <2>8. CASE Sleep(w)
    BY <2>3, <2>8 DEF Sleep
  <2>9. CASE RunTask(w)
    BY <2>2, <2>9 DEF RunTask
  <2>10. CASE BatchDone(w)
    BY <2>3, <2>10 DEF BatchDone
  <2>11. CASE SpuriousWakeup(w)
    BY <2>3, <2>11 DEF SpuriousWakeup
  <2> QED
    BY <1>5, <2>4, <2>5, <2>6, <2>7, <2>8, <2>9, <2>10, <2>11 DEF Work
<1> QED
  BY <1>1, <1>3, <1>4, <1>5 DEF Next

-----------------------------------------------------------------------------
(* Each task is in one place. *)

\* The vector is in push order.
TasksInOrder == \A i, j \in 1..Len(tasks) : i < j => tasks[i] < tasks[j]

Custody == EachTaskInOnePlace /\ TakenInOrder /\ TasksInOrder

LEMMA PlacesType ==
  ASSUME TypeOK
  PROVE  /\ \A w \in Workers : Places[w] = ran[w] \o batch[w] /\ Places[w] \in Seq(Nat)
         /\ tasks \in Seq(Nat) /\ Len(tasks) \in Nat
         /\ DOMAIN tasks = 1..Len(tasks) /\ Range(tasks) \subseteq Nat
         /\ \A w \in Workers : DOMAIN Places[w] = 1..Len(Places[w])
<1>1. \A w \in Workers : Places[w] = ran[w] \o batch[w]
  BY DEF Places
<1>2. ASSUME NEW w \in Workers PROVE Places[w] \in Seq(Nat)
  <2>1. ran[w] \in Seq(Nat) /\ batch[w] \in Seq(Nat)
    BY DEF TypeOK
  <2>2. ran[w] \o batch[w] \in Seq(Nat)
    BY <2>1, ConcatProperties
  <2> QED
    BY <1>1, <2>2
<1>3. tasks \in Seq(Nat)
  BY DEF TypeOK
<1> QED
  BY <1>1, <1>2, <1>3, LenProperties, RangeOfSeq

LEMMA InitCustody == Init => Custody
<1> SUFFICES ASSUME Init PROVE Custody
  OBVIOUS
<1>1. \A w \in Workers : Places[w] = <<>>
  BY DEF Init, Places
<1>2. tasks = <<>> /\ pushed = 0
  BY DEF Init
<1>3. Range(<<>>) = {} /\ Len(<<>>) = 0 /\ DOMAIN <<>> = {}
  BY DEF Range
<1>4. EachTaskInOnePlace
  BY <1>1, <1>2, <1>3 DEF EachTaskInOnePlace
<1> QED
  BY <1>1, <1>2, <1>3, <1>4 DEF Custody, TakenInOrder, TasksInOrder

\* Steps that leave the vector and the places alone.
\* The tasks of two sequences joined.
LEMMA JoinedRange ==
  ASSUME NEW s \in Seq(Nat), NEW t \in Seq(Nat)
  PROVE  Range(s \o t) = Range(s) \cup Range(t)
<1>1. /\ s \o t \in Seq(Nat) /\ Len(s \o t) = Len(s) + Len(t)
      /\ \A i \in 1..(Len(s) + Len(t)) :
           (s \o t)[i] = IF i <= Len(s) THEN s[i] ELSE t[i - Len(s)]
  BY ConcatProperties
<1> DEFINE j == s \o t
<1> HIDE DEF j
<1>2. /\ Len(s) \in Nat /\ Len(t) \in Nat /\ DOMAIN s = 1..Len(s) /\ DOMAIN t = 1..Len(t)
      /\ DOMAIN j = 1..(Len(s) + Len(t))
  BY <1>1, LenProperties DEF j
<1>3. \A i \in DOMAIN j : j[i] \in Range(s) \cup Range(t)
  <2>1. ASSUME NEW i \in DOMAIN j, ~(i <= Len(s)) PROVE i - Len(s) \in DOMAIN t
    BY <1>2, <2>1
  <2> QED
    BY <1>1, <1>2, <2>1 DEF j, Range
<1>4. \A i \in DOMAIN s : i \in DOMAIN j /\ j[i] = s[i]
  BY <1>1, <1>2 DEF j
<1>5. ASSUME NEW i \in DOMAIN t PROVE i + Len(s) \in DOMAIN j /\ j[i + Len(s)] = t[i]
  <2>1. i + Len(s) \in 1..(Len(s) + Len(t)) /\ ~(i + Len(s) <= Len(s)) /\ (i + Len(s)) - Len(s) = i
    BY <1>2
  <2> QED
    BY <1>1, <1>2, <2>1 DEF j
<1>6. Range(j) = Range(s) \cup Range(t)
  BY <1>3, <1>4, <1>5 DEF Range
<1> QED
  BY <1>6 DEF j

LEMMA SameCustody ==
  ASSUME Custody, UNCHANGED <<tasks, pushed>>, Places' = Places
  PROVE  Custody'
BY DEF Custody, EachTaskInOnePlace, TakenInOrder, TasksInOrder

LEMMA PushCustody == Control /\ Custody /\ Push => Custody'
<1> SUFFICES ASSUME Control, Custody, Push PROVE Custody'
  OBVIOUS
<1> DEFINE new == pushed + 1
<1>0. /\ pushed \in Nat /\ pushed' = new /\ tasks' = Append(tasks, new)
      /\ Places' = Places /\ TypeOK
  BY DEF Control, TypeOK, Push, Places
<1> HIDE DEF new
<1>n. new = pushed + 1 /\ new \in Nat
  BY <1>0 DEF new
<1>1. /\ Len(tasks') = Len(tasks) + 1 /\ tasks' \in Seq(Nat)
      /\ \A i \in 1..Len(tasks) : tasks'[i] = tasks[i]
      /\ tasks'[Len(tasks) + 1] = new
      /\ \A i \in 1..Len(tasks') : i \in 1..Len(tasks) \/ i = Len(tasks) + 1
      /\ DOMAIN tasks' = 1..Len(tasks')
  BY <1>0, <1>n, PlacesType, AppendProperties, LenProperties
<1>2. Range(tasks') = Range(tasks) \cup {new}
  <2>1. tasks \in Seq(Nat) /\ <<new>> \in Seq(Nat)
    BY <1>0, <1>n, PlacesType
  <2>2. tasks' = tasks \o <<new>>
    BY <1>0, <1>n, <2>1, AppendIsConcat
  <2>3. Range(<<new>>) = {new}
    BY DEF Range
  <2>4. Range(tasks \o <<new>>) = Range(tasks) \cup Range(<<new>>)
    BY <2>1, JoinedRange
  <2> QED
    BY <2>2, <2>3, <2>4
<1>3. /\ Range(tasks) \subseteq 1..pushed
      /\ \A w \in Workers : Range(Places[w]) \subseteq 1..pushed
  BY DEF Custody, EachTaskInOnePlace
<1>4. new \notin 1..pushed /\ 1..pushed' = (1..pushed) \cup {new}
  BY <1>0, <1>n
<1>5. EachTaskInOnePlace'
  <2> DEFINE held == UNION {Range(Places[w]) : w \in Workers}
  <2>1. Range(tasks) \cup held = 1..pushed
    BY DEF Custody, EachTaskInOnePlace
  <2>2. held' = held
    BY <1>0
  <2>3. Range(tasks') \cup held' = 1..pushed'
    BY <1>2, <1>4, <2>1, <2>2
  <2>4. ASSUME NEW w \in Workers
        PROVE  /\ Range(Places[w]) \cap Range(tasks') = {}
               /\ \A v \in Workers \ {w} : Range(Places[w]) \cap Range(Places[v]) = {}
    <3>1. new \notin Range(Places[w])
      BY <1>3, <1>4
    <3> QED
      BY <1>2, <3>1 DEF Custody, EachTaskInOnePlace
  <2> QED
    BY <1>0, <2>3, <2>4 DEF EachTaskInOnePlace
<1>6. TasksInOrder'
  <2>1. \A i \in 1..Len(tasks) : tasks[i] < new
    <3>1. \A i \in 1..Len(tasks) : tasks[i] \in 1..pushed
      BY <1>0, <1>3, PlacesType DEF Range
    <3> QED
      BY <1>0, <1>n, <3>1
  <2> QED
    BY <1>0, <1>1, <2>1, PlacesType DEF Custody, TasksInOrder
<1>7. TakenInOrder'
  <2>1. \A w \in Workers : \A i \in DOMAIN Places[w] : Places[w][i] < new
    <3>1. \A w \in Workers : \A i \in DOMAIN Places[w] : Places[w][i] \in 1..pushed
      BY <1>3 DEF Range
    <3> QED
      BY <1>0, <1>n, <3>1
  <2>2. \A w \in Workers : \A i \in DOMAIN Places[w], j \in DOMAIN tasks' :
          Places[w][i] < tasks'[j]
    BY <1>0, <1>1, <2>1, PlacesType DEF Custody, TakenInOrder
  <2> QED
    BY <1>0, <2>2 DEF Custody, TakenInOrder
<1> QED
  BY <1>5, <1>6, <1>7 DEF Custody

LEMMA TakeCustody ==
  ASSUME NEW w \in Workers PROVE Control /\ Custody /\ Take(w) => Custody'
<1> SUFFICES ASSUME Control, Custody, Take(w) PROVE Custody'
  OBVIOUS
<1> DEFINE old == Places[w]
<1>0. TypeOK /\ old \in Seq(Nat) /\ tasks \in Seq(Nat) /\ tasks' = <<>> /\ pushed' = pushed
  BY PlacesType DEF Control, Take
<1>1. Places'[w] = old \o tasks
  <2>1. batch[w] = <<>> /\ ran' = ran /\ batch'[w] = tasks
    BY DEF Control, BatchesAreRun, Take, Move, TypeOK
  <2>2. ran[w] \o <<>> = ran[w]
    BY ConcatEmptySeq DEF Control, TypeOK
  <2> QED
    BY <2>1, <2>2 DEF Places
<1>2. \A v \in Workers \ {w} : Places'[v] = Places[v]
  BY DEF Places, Take, Control, TypeOK
<1>3. Range(Places'[w]) = Range(old) \cup Range(tasks)
  BY <1>0, <1>1, JoinedRange
<1>4. Range(<<>>) = {} /\ Len(<<>>) = 0 /\ DOMAIN <<>> = {}
  BY DEF Range
<1>5. EachTaskInOnePlace'
  <2>1. UNION {Range(Places'[v]) : v \in Workers}
          = Range(tasks) \cup UNION {Range(Places[v]) : v \in Workers}
    BY <1>2, <1>3
  <2> QED
    BY <1>0, <1>2, <1>3, <1>4, <2>1 DEF Custody, EachTaskInOnePlace
<1>6. TakenInOrder'
  <2>1. /\ Len(old \o tasks) = Len(old) + Len(tasks)
        /\ \A i \in 1..Len(old) : (old \o tasks)[i] = old[i]
        /\ \A i \in 1..Len(tasks) : (old \o tasks)[Len(old) + i] = tasks[i]
        /\ DOMAIN (old \o tasks) = 1..Len(old) + Len(tasks)
        /\ Len(old) \in Nat /\ Len(tasks) \in Nat
        /\ DOMAIN old = 1..Len(old) /\ DOMAIN tasks = 1..Len(tasks)
    BY <1>0, ConcatProperties, LenProperties
  <2>2. \A i \in DOMAIN (old \o tasks) :
          i \in 1..Len(old) \/ \E k \in 1..Len(tasks) : i = Len(old) + k
    <3> SUFFICES ASSUME NEW i \in 1..Len(old) + Len(tasks), i \notin 1..Len(old)
                 PROVE  \E k \in 1..Len(tasks) : i = Len(old) + k
      BY <2>1
    <3>1. i - Len(old) \in 1..Len(tasks) /\ i = Len(old) + (i - Len(old))
      BY <2>1
    <3> QED
      BY <3>1
  <2>3. ASSUME NEW i \in DOMAIN (old \o tasks), NEW j \in DOMAIN (old \o tasks), i < j
        PROVE  (old \o tasks)[i] < (old \o tasks)[j]
    <3>1. CASE i \in 1..Len(old) /\ j \in 1..Len(old)
      BY <2>1, <2>3, <3>1 DEF Custody, TakenInOrder
    <3>2. ASSUME i \in 1..Len(old), NEW k \in 1..Len(tasks), j = Len(old) + k
          PROVE  (old \o tasks)[i] < (old \o tasks)[j]
      BY <2>1, <3>2 DEF Custody, TakenInOrder
    <3>3. ASSUME NEW h \in 1..Len(tasks), i = Len(old) + h,
                 NEW k \in 1..Len(tasks), j = Len(old) + k
          PROVE  (old \o tasks)[i] < (old \o tasks)[j]
      <4>1. h < k
        BY <2>1, <2>3, <3>3
      <4>2. tasks[h] < tasks[k]
        BY <4>1 DEF Custody, TasksInOrder
      <4> QED
        BY <2>1, <3>3, <4>2
    <3>4. i \in 1..Len(old) \/ j \notin 1..Len(old)
      BY <2>1, <2>3
    <3> QED
      BY <2>2, <3>1, <3>2, <3>3, <3>4
  <2> QED
    BY <1>0, <1>1, <1>2, <1>4, <2>3 DEF Custody, TakenInOrder
<1>7. TasksInOrder'
  BY <1>0, <1>4 DEF TasksInOrder
<1> QED
  BY <1>5, <1>6, <1>7 DEF Custody

\* Concatenation of sequences of tasks is associative.
LEMMA NatConcat ==
  ASSUME NEW s \in Seq(Nat), NEW t \in Seq(Nat), NEW u \in Seq(Nat)
  PROVE  (s \o t) \o u = s \o (t \o u)
BY SMTT(30)

\* A task that is run changes its name from batch to ran and not its place.
LEMMA RunTaskPlaces ==
  ASSUME NEW w \in Workers PROVE Control /\ RunTask(w) => Places' = Places
<1> SUFFICES ASSUME Control, RunTask(w) PROVE Places' = Places
  OBVIOUS
<1> DEFINE r == ran[w]  b == batch[w]
<1>0. r \in Seq(Nat) /\ b \in Seq(Nat) /\ b # <<>>
  BY DEF Control, TypeOK, RunTask
<1>1. Append(r, Head(b)) \o Tail(b) = r \o b
  <2>1. Head(b) \in Nat /\ Tail(b) \in Seq(Nat) /\ <<Head(b)>> \in Seq(Nat)
    BY <1>0, HeadTailProperties
  <2>2. Append(r, Head(b)) = r \o <<Head(b)>>
    BY <1>0, <2>1, AppendIsConcat
  <2>3. <<Head(b)>> \o Tail(b) = b
    <3>1. Len(b) \in Nat \ {0} /\ SubSeq(b, 1, Len(b)) = b /\ Tail(b) = SubSeq(b, 2, Len(b))
      BY <1>0, EmptySeq, SubSeqFull, TailIsSubSeq
    <3>2. SubSeq(b, 1, Len(b)) = <<b[1]>> \o SubSeq(b, 2, Len(b))
      BY <1>0, <3>1, SubSeqRecursiveFirst
    <3>3. Head(b) = b[1]
      BY <1>0
    <3> QED
      BY <3>1, <3>2, <3>3
  <2>4. (r \o <<Head(b)>>) \o Tail(b) = r \o (<<Head(b)>> \o Tail(b))
    BY <1>0, <2>1, NatConcat, Zenon
  <2> QED
    BY <2>2, <2>3, <2>4
<1>2. /\ ran'[w] = Append(r, Head(b)) /\ batch'[w] = Tail(b)
      /\ \A v \in Workers \ {w} : ran'[v] = ran[v] /\ batch'[v] = batch[v]
  BY DEF RunTask, Control, TypeOK
<1> QED
  BY <1>1, <1>2 DEF Places

LEMMA NextCustody == Control /\ Custody /\ [Next]_vars => Custody'
<1> SUFFICES ASSUME Control, Custody, [Next]_vars PROVE Custody'
  OBVIOUS
<1>1. CASE Push
  BY <1>1, PushCustody
<1>2. CASE Stop
  BY <1>2, SameCustody DEF Stop, SetStop, NotifyAll, Join, Places
<1>3. CASE UNCHANGED vars
  BY <1>3, SameCustody DEF vars, Places
<1>4. ASSUME NEW w \in Workers, Work(w) \/ SpuriousWakeup(w)
      PROVE  Custody'
  <2>1. CASE Take(w)
    BY <2>1, TakeCustody
  <2>2. CASE RunTask(w)
    BY <2>2, RunTaskPlaces, SameCustody DEF RunTask
  <2>3. CASE TestStop(w) \/ Lock(w) \/ NothingToDo(w) \/ Sleep(w) \/ BatchDone(w)
               \/ SpuriousWakeup(w)
    BY <2>3, SameCustody
    DEF TestStop, Lock, NothingToDo, Sleep, BatchDone, SpuriousWakeup, Places
  <2> QED
    BY <1>4, <2>1, <2>2, <2>3 DEF Work
<1> QED
  BY <1>1, <1>2, <1>3, <1>4 DEF Next

LEMMA AlwaysCustody == Spec => []Custody
BY InitCustody, NextCustody, AlwaysControl, PTL DEF Spec

-----------------------------------------------------------------------------
\* The threads keep to their places, and the mutex is owned by the worker that
\* is in the critical section of Entry().
THEOREM TypeCorrect == Spec => []TypeOK
BY AlwaysControl, PTL DEF Control

\* A pool that has stopped has no batch half run (ThreadPool.hpp:106-110): Stop()
\* joins workers, and a worker leaves its batch only when it is empty.
THEOREM BatchesComplete == Spec => []NoBatchIsCutShort
<1>1. Control => NoBatchIsCutShort
  BY DEF Control, BatchesAreRun, EndedByStop, NoBatchIsCutShort
<1> QED
  BY <1>1, AlwaysControl, PTL

\* No wakeup is lost while the pool is open, however many workers there are.
THEOREM NoLostWakeup == Spec => []QueuedTaskHasAWorker
BY InitAwake, NextAwake, AlwaysControl, PTL DEF Spec

\* The swap of Entry() (ThreadPool.hpp:103) neither loses a task nor gives it to
\* two workers.
THEOREM TasksKept == Spec => []EachTaskInOnePlace
BY AlwaysCustody, PTL DEF Custody

\* Each worker runs tasks in push order, and takes those at the front.
THEOREM PushOrder == Spec => []TakenInOrder
BY AlwaysCustody, PTL DEF Custody


-----------------------------------------------------------------------------
(* The pool as its users see it. *)

LEMMA WorkerInPool ==
  ASSUME Control, NEW w \in Workers, Work(w) \/ SpuriousWakeup(w)
  PROVE  [Pool!Next]_(Pool!vars)
<1>1. CASE Take(w)
  <2>1. batch[w] = <<>> /\ batch' = [batch EXCEPT ![w] = tasks] /\ tasks' = <<>>
    BY <1>1 DEF Take, Move, Control, BatchesAreRun
  <2>2. CASE tasks = <<>>
    <3>1. batch' = batch
      BY <2>1, <2>2 DEF Control, TypeOK
    <3> QED
      BY <2>1, <2>2, <3>1 DEF Pool!vars
  <2>3. CASE tasks # <<>>
    BY <2>1, <2>3 DEF Pool!Next, Pool!Take
  <2> QED
    BY <2>2, <2>3
<1>2. CASE RunTask(w)
  BY <1>2 DEF RunTask, Pool!Next, Pool!Begin
<1>3. CASE \/ TestStop(w) \/ Lock(w) \/ NothingToDo(w) \/ Sleep(w) \/ BatchDone(w)
           \/ SpuriousWakeup(w)
  BY <1>3 DEF TestStop, Lock, NothingToDo, Sleep, BatchDone, SpuriousWakeup, Pool!vars
<1> QED
  BY <1>1, <1>2, <1>3 DEF Work

\* Mutex, condition variable and Stop() make a pool that gives each task to one
\* worker, in push order, for any number of workers and whoever wakes them.
THEOREM PoolRefines == Spec => ImplementsTaskPool
<1>1. Init => Pool!Init
  BY DEF Init, Pool!Init
<1>2. Control /\ [Next]_vars => [Pool!Next]_(Pool!vars)
  <2> SUFFICES ASSUME Control, [Next]_vars PROVE [Pool!Next]_(Pool!vars)
    OBVIOUS
  <2>1. CASE Push
    <3>1. pushed + 1 \in 1..MaxTasks
      BY <2>1, PoolAssumption DEF Push, Control, TypeOK
    <3> QED
      BY <2>1, <3>1 DEF Push, Pool!Next, Pool!Push
  <2>2. CASE Stop \/ UNCHANGED vars
    BY <2>2 DEF Stop, SetStop, NotifyAll, Join, vars, Pool!vars
  <2> QED
    BY <2>1, <2>2, WorkerInPool DEF Next
<1> QED
  BY <1>1, <1>2, AlwaysControl, PTL DEF Spec, ImplementsTaskPool, Pool!Spec
=============================================================================
