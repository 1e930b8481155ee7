------------------------------- MODULE TaskPool -------------------------------
(***************************************************************************)
(* What the pool of threads promises those who push tasks: a task is taken *)
(* by one worker, with all those that were pushed since the last one took  *)
(* some, and each worker begins what it took in push order and takes no    *)
(* more before it has begun it all.  There is no mutex here and nobody     *)
(* sleeps or stops.                                                        *)
(***************************************************************************)
EXTENDS Sequences

CONSTANTS
  Tasks,  \* what may be pushed
  Workers

VARIABLES
  tasks, \* pushed and not taken
  batch  \* taken by each worker and not begun

vars == <<tasks, batch>>

Init == tasks = <<>> /\ batch = [w \in Workers |-> <<>>]

Push(t) ==
  /\ tasks' = Append(tasks, t)
  /\ UNCHANGED batch

Take(w) ==
  /\ batch[w] = <<>> /\ tasks # <<>>
  /\ batch' = [batch EXCEPT ![w] = tasks]
  /\ tasks' = <<>>

Begin(w) ==
  /\ batch[w] # <<>>
  /\ batch' = [batch EXCEPT ![w] = Tail(@)]
  /\ UNCHANGED tasks

Next ==
  \/ \E t \in Tasks : Push(t)
  \/ \E w \in Workers : Take(w) \/ Begin(w)

Spec == Init /\ [][Next]_vars
=============================================================================
