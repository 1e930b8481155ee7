----------------------------- MODULE MessageStore -----------------------------
(***************************************************************************)
(* One queue's messages: the QueueMessage handle (MQServer/Message.hpp)    *)
(* and the data file its MessageMapper keeps for it.                       *)
(*                                                                         *)
(* Every public operation of QueueMessage holds the handle's mutex, so at  *)
(* most one of them is in progress: pc is the place it has reached, "idle" *)
(* when the mutex is free and "down" when there is no handle (the queue is *)
(* not declared, or the process died).  An operation is split only where   *)
(* the file system can be left between two of its calls, because that is   *)
(* where a crash is observable; memory is lost in a crash.                 *)
(*                                                                         *)
(* A file is the sequence of its records.  A record is one slot, whatever  *)
(* its length (remove() overwrites a payload only by one of the same       *)
(* length), and an offset is the number of the slots before it.  A missing *)
(* file and an empty one are both <<>>: the constructor creates the data   *)
(* file when it is missing and GC truncates the temp file before using it. *)
(* Messages are named by their ids, which are unique in a queue, as those  *)
(* of UUIDHelper::uuid are.                                                *)
(***************************************************************************)
EXTENDS Integers, Sequences, FiniteSets, Functions

CONSTANTS
  Msgs,         \* the messages publishers may send to this queue
  DurableMsgs,  \* those sent with delivery_mode DURABLE
  QueueDurable, \* the queue's own durable flag
  Phantom,      \* what load() makes of a header whose payload is not there
  None,         \* no message
  GcMinTotal,   \* records a file may hold before GC is considered (2000)
  OffsetLimit,  \* offsets are kept modulo this (uint32 in message.proto: 2^32)
  MaxRecords,   \* bound: records in the data file
  CrashPoints   \* bound: the pcs at which the process may be killed

ASSUME StoreAssumption ==
  /\ DurableMsgs \subseteq Msgs
  /\ QueueDurable \in BOOLEAN
  /\ Phantom \notin Msgs
  /\ None \notin Msgs \cup {Phantom}
  /\ GcMinTotal \in Nat
  /\ OffsetLimit \in Nat \ {0}
  /\ MaxRecords \in Nat
  /\ CrashPoints \subseteq
       {"idle", "payload", "copy", "rename", "cleared"}

VARIABLES
  data,       \* the data file, a sequence of records
  temp,       \* the temp file of a garbage collection
  msgs,       \* _msgs: to be pushed, oldest first
  durable,    \* _durable_msgs: the ids kept in the data file
  waitack,    \* _waitack_msgs: the ids pushed and not acknowledged
  off,        \* the offset each message object holds
  validCount, \* _valid_count
  totalCount, \* _total_count
  pc,         \* where the operation that holds the mutex is
  cur,        \* its message; None in the recovery of a new handle
  ci,         \* the next record the copy loop of GC looks at
  clock,      \* history: the number of messages accepted so far
  stamp,      \* history: 0, or the clock when the message was accepted
  settled     \* history: messages acknowledged, destroyed or lost as transient

file == <<data, temp>>
memory == <<msgs, durable, waitack, off, validCount, totalCount>>
control == <<pc, cur, ci>>
history == <<clock, stamp, settled>>
vars == <<data, temp, msgs, durable, waitack, off, validCount, totalCount,
          pc, cur, ci, clock, stamp, settled>>

Names == Msgs \cup {Phantom}
Record == [msg : Names, valid : BOOLEAN]
Valid(m) == [msg |-> m, valid |-> TRUE]
Void(m) == [msg |-> m, valid |-> FALSE]

\* The mode insert() stores: DURABLE only if the queue is durable as well.
IsDurable(m) == QueueDurable /\ m \in DurableMsgs

SlotsOf(f, m) == {i \in DOMAIN f : f[i].msg = m}
ValidSlots(f) == {i \in DOMAIN f : f[i].valid}
NamesIn(f) == {f[i].msg : i \in DOMAIN f}
ValidNames(f) == {f[i].msg : i \in ValidSlots(f)}
InMsgs == Range(msgs)

\* Faulty variant: the size of the file is read before the last record is in it.
OffsetOfStaleSize(i) == i - 2

\* The offset of slot i as the message object keeps it (set_offset, uint32).
OffsetOf(i) == (i - 1) % OffsetLimit

Accepted == {m \in Msgs : stamp[m] > 0}
Live == Accepted \ settled
Owed == {m \in Live : IsDurable(m)}

-----------------------------------------------------------------------------
Init ==
  /\ data = <<>> /\ temp = <<>>
  /\ msgs = <<>> /\ durable = {} /\ waitack = {}
  /\ off = [m \in Msgs |-> 0]
  /\ validCount = 0 /\ totalCount = 0
  /\ pc = "down" /\ cur = None /\ ci = 1
  /\ clock = 0 /\ stamp = [m \in Msgs |-> 0] /\ settled = {}

\* A new handle (a queue is declared, or recovered at start-up): the
\* constructor, then recovery(), whose garbageCollection() truncates temp.
Boot ==
  /\ pc = "down"
  /\ pc' = "copy" /\ cur' = None /\ ci' = 1
  /\ temp' = <<>>
  /\ UNCHANGED <<data, memory, history>>

Accept(m) ==
  /\ clock' = clock + 1
  /\ stamp' = [stamp EXCEPT ![m] = clock + 1]

InsertTransient(m) ==
  /\ pc = "idle" /\ stamp[m] = 0 /\ ~IsDurable(m)
  /\ msgs' = Append(msgs, m)
  /\ Accept(m)
  /\ UNCHANGED <<file, durable, waitack, off, validCount, totalCount,
                 control, settled>>

\* A durable insert writes the length, then, with a second open and write,
\* the payload.
InsertHeader(m) ==
  /\ pc = "idle" /\ stamp[m] = 0 /\ IsDurable(m)
  /\ Len(data) < MaxRecords
  /\ data' = Append(data, Valid(Phantom))
  /\ pc' = "payload" /\ cur' = m
  /\ UNCHANGED <<temp, memory, ci, history>>

InsertPayload ==
  /\ pc = "payload"
  /\ data' = [data EXCEPT ![Len(data)] = Valid(cur)]
  /\ off' = [off EXCEPT ![cur] = OffsetOf(Len(data))]
  /\ validCount' = validCount + 1 /\ totalCount' = totalCount + 1
  /\ durable' = durable \cup {cur}
  /\ msgs' = Append(msgs, cur)
  /\ Accept(cur)
  /\ pc' = "idle" /\ cur' = None
  /\ UNCHANGED <<temp, waitack, ci, settled>>

\* Faulty variants: the message handed out is not kept until its ack; the
\* newest message goes first.
FrontForgets ==
  /\ pc = "idle" /\ msgs # <<>>
  /\ msgs' = Tail(msgs)
  /\ UNCHANGED <<file, durable, waitack, off, validCount, totalCount, control,
                 history>>
FrontNewest ==
  /\ pc = "idle" /\ msgs # <<>>
  /\ msgs' = SubSeq(msgs, 1, Len(msgs) - 1)
  /\ waitack' = waitack \cup {msgs[Len(msgs)]}
  /\ UNCHANGED <<file, durable, off, validCount, totalCount, control, history>>

Front ==
  /\ pc = "idle" /\ msgs # <<>>
  /\ msgs' = Tail(msgs)
  /\ waitack' = waitack \cup {Head(msgs)}
  /\ UNCHANGED <<file, durable, off, validCount, totalCount, control, history>>

\* Faulty variant: 5 taken for a percentage.
GcDuePercent(valid, total) == total > GcMinTotal /\ (valid * 100) \div total < 5

\* garbageCollectionCheck(), of the counts after the removal.
GcDue(valid, total) == total > GcMinTotal /\ (valid * 10) \div total < 5

\* remove() of an id that is not waiting changes nothing.  A phantom's mode is
\* the default one, not DURABLE: only its entry in _waitack_msgs goes.
AckTransient(m) ==
  /\ pc = "idle" /\ m \in waitack /\ ~IsDurable(m)
  /\ waitack' = waitack \ {m}
  /\ settled' = settled \cup ({m} \cap Msgs)
  /\ UNCHANGED <<file, msgs, durable, off, validCount, totalCount, control,
                 clock, stamp>>

\* Faulty variant: the length check fails and nothing is written.
OverwriteNothing(m) == m \in Msgs /\ UNCHANGED data

\* MessageMapper::remove: the message with valid "0" goes where its object
\* says it is, whatever is there.
OverwriteVoid(m) == data' = [data EXCEPT ![off[m] + 1] = Void(m)]

AckDurable(m) ==
  /\ pc = "idle" /\ m \in waitack /\ IsDurable(m)
  /\ OverwriteVoid(m)
  /\ durable' = durable \ {m}
  /\ validCount' = validCount - 1
  /\ settled' = settled \cup {m}
  /\ \/ /\ ~GcDue(validCount - 1, totalCount)
        /\ waitack' = waitack \ {m}
        /\ UNCHANGED <<temp, control>>
     \/ /\ GcDue(validCount - 1, totalCount)
        /\ pc' = "copy" /\ cur' = m /\ ci' = 1
        /\ temp' = <<>>
        /\ UNCHANGED waitack
  /\ UNCHANGED <<msgs, off, totalCount, clock, stamp>>

-----------------------------------------------------------------------------
(* MessageMapper::garbageCollection.  The data file does not change while   *)
(* it is read, so the reading loop and the copying loop are one.            *)

\* Faulty variants: load() does not look at the valid flag; it goes on with
\* the next record before it has advanced the offset.
GcCopyAll ==
  /\ pc = "copy" /\ ci <= Len(data)
  /\ temp' = Append(temp, data[ci])
  /\ ci' = ci + 1
  /\ UNCHANGED <<data, memory, pc, cur, history>>
GcCopyContinuesEarly ==
  /\ pc = "copy" /\ ci <= Len(data)
  /\ temp' = IF data[ci].valid THEN Append(temp, data[ci]) ELSE temp
  /\ ci' = IF data[ci].valid THEN ci + 1 ELSE ci
  /\ UNCHANGED <<data, memory, pc, cur, history>>

GcCopy ==
  /\ pc = "copy" /\ ci <= Len(data)
  /\ temp' = IF data[ci].valid THEN Append(temp, data[ci]) ELSE temp
  /\ ci' = ci + 1
  /\ UNCHANGED <<data, memory, pc, cur, history>>

\* Faulty variant: the loop ends one record too early.
GcUnlinkEarly ==
  /\ pc = "copy" /\ ci >= Len(data)
  /\ data' = <<>>
  /\ pc' = "rename"
  /\ UNCHANGED <<temp, memory, cur, ci, history>>

\* The data file is removed once the temp file is complete.
GcUnlink ==
  /\ pc = "copy" /\ ci > Len(data)
  /\ data' = <<>>
  /\ pc' = "rename"
  /\ UNCHANGED <<temp, memory, cur, ci, history>>

\* Faulty variant: the offsets are not refreshed.
OffsetsNotRefreshed == off

\* Where insert() put each collected message; the others keep their offset.
CollectedOffsets ==
  [m \in Msgs |-> IF m \in NamesIn(temp)
                  THEN OffsetOf(CHOOSE i \in SlotsOf(temp, m) : TRUE)
                  ELSE off[m]]

\* Faulty variant: push_front for push_back.
MsgOfReversed(records) ==
  [i \in 1..Len(records) |-> records[Len(records) + 1 - i].msg]

\* Collected messages with no object in memory: garbageCollection() of
\* QueueMessage pushes them again.
MsgOf(records) == [i \in 1..Len(records) |-> records[i].msg]
Unmanaged ==
  IF NamesIn(temp) \subseteq durable THEN <<>>
  ELSE MsgOf(SelectSeq(temp, LAMBDA r : r.msg \notin durable))

\* rename(), then the caller's use of the result: recovery() fills the handle,
\* garbageCollection() refreshes the offsets and remove() forgets its message.
GcRename ==
  /\ pc = "rename"
  /\ data' = temp /\ temp' = <<>>
  /\ off' = CollectedOffsets
  /\ durable' = durable \cup NamesIn(temp)
  /\ msgs' = IF cur = None THEN MsgOf(temp) ELSE msgs \o Unmanaged
  /\ waitack' = waitack \ {cur}
  /\ validCount' = Len(temp) /\ totalCount' = Len(temp)
  /\ pc' = "idle" /\ cur' = None /\ ci' = 1
  /\ UNCHANGED history

-----------------------------------------------------------------------------
Forget ==
  /\ msgs' = <<>> /\ durable' = {} /\ waitack' = {}
  /\ off' = [m \in Msgs |-> 0]
  /\ validCount' = 0 /\ totalCount' = 0

\* destroyQueueMessage: the handle leaves the map, then clear() unlinks the
\* data file and the temp file.
ClearData ==
  /\ pc = "idle"
  /\ data' = <<>>
  /\ pc' = "cleared"
  /\ settled' = settled \cup Accepted
  /\ UNCHANGED <<temp, memory, cur, ci, clock, stamp>>

ClearTemp ==
  /\ pc = "cleared"
  /\ temp' = <<>>
  /\ Forget
  /\ pc' = "down"
  /\ UNCHANGED <<data, cur, ci, history>>

\* The process is killed: files stay as they are, memory is gone and with it
\* the transient messages.
Crash ==
  /\ pc \in CrashPoints
  /\ Forget
  /\ pc' = "down" /\ cur' = None /\ ci' = 1
  /\ settled' = settled \cup {m \in Accepted : ~IsDurable(m)}
  /\ UNCHANGED <<file, clock, stamp>>

-----------------------------------------------------------------------------
\* What the holder of the mutex does next: it always runs to its end.
Continue ==
  \/ InsertPayload
  \/ GcCopy \/ GcUnlink \/ GcRename
  \/ ClearTemp

Operation ==
  \/ Boot
  \/ \E m \in Msgs : InsertTransient(m) \/ InsertHeader(m)
  \/ Front
  \/ \E m \in Names : AckTransient(m)
  \/ \E m \in Msgs : AckDurable(m)
  \/ ClearData

Next == Operation \/ Continue \/ Crash

Spec == Init /\ [][Next]_vars
FairSpec == Spec /\ WF_vars(Continue)

-----------------------------------------------------------------------------
TypeOK ==
  /\ data \in Seq(Record) /\ temp \in Seq(Record)
  /\ msgs \in Seq(Names) /\ durable \subseteq Names /\ waitack \subseteq Names
  /\ off \in [Msgs -> Nat]
  /\ validCount \in Int /\ totalCount \in Int
  /\ pc \in {"down", "idle", "payload", "copy", "rename", "cleared"}
  /\ cur \in Msgs \cup {None} /\ ci \in Nat \ {0}
  /\ clock \in Nat /\ stamp \in [Msgs -> Nat] /\ settled \subseteq Msgs

\* remove() writes at the offset the message object holds.  Outside a garbage
\* collection every durable message's object names the message's own, valid
\* record, across inserts, acks, collections and recoveries
\* (Message.hpp:49-67, :361-362).
OffsetsNameOwnRecord ==
  pc \in {"idle", "payload"} =>
    \A m \in durable \ {Phantom} :
      /\ off[m] + 1 \in DOMAIN data
      /\ data[off[m] + 1] = Valid(m)

\* At least once, on disk: a durable message that insert() accepted and nobody
\* acknowledged has a valid record, in the data file or, between the unlink
\* and the rename of a collection, in the temp file.
OwedIsStored ==
  Owed \subseteq ValidNames(IF pc = "rename" THEN temp ELSE data)

\* At least once, in memory: while the handle can be used, such a message is
\* either still to be pushed or waiting for its ack.  With Crash this says
\* that recovery() restores every unacknowledged durable message.
OwedIsServed == pc = "idle" => Owed \subseteq InMsgs \cup waitack

\* A message whose ack was carried out, or whose queue was deleted, is never
\* pushed again: not after a collection and not after a restart.
SettledNeverReturns ==
  /\ InMsgs \cap settled = {} \/ pc = "cleared"
  /\ pc # "rename" => ValidNames(data) \cap settled = {}

\* _total_count and _valid_count, which decide when to collect, are the
\* numbers of records and of valid records in the data file.
CountsMatchFile ==
  pc = "idle" => /\ totalCount = Len(data)
                 /\ validCount = Cardinality(ValidSlots(data))

\* _msgs is in the order in which the messages were accepted, also after a
\* restart has put the unacknowledged ones back, and no message is queued
\* twice or both queued and waiting for its ack.
MsgsInOrder ==
  /\ \A i, j \in DOMAIN msgs :
       i < j /\ {msgs[i], msgs[j]} \subseteq Msgs =>
         stamp[msgs[i]] < stamp[msgs[j]]
  /\ InMsgs \cap waitack \cap Msgs = {}

\* Garbage collection keeps up: the void records of the data file never
\* outnumber both the threshold and the valid ones.
GarbageIsBounded ==
  pc = "idle" =>
    LET valid == Cardinality(ValidSlots(data))
        void == Len(data) - valid
    IN  void <= GcMinTotal \/ void <= valid

\* The branch of garbageCollection() that logs "a durable message is not
\* managed in memory" (Message.hpp:355) is never taken.
EveryRecordIsManaged ==
  pc = "rename" /\ cur # None => NamesIn(temp) \subseteq durable

\* A step changes a record in place only to complete the payload of the insert
\* in progress or to void the message being acknowledged: no operation
\* overwrites another message (Message.hpp:56).
OverwritesOwnRecord ==
  [][Len(data') = Len(data) =>
       \A i \in DOMAIN data :
         data'[i] # data[i] => data'[i].msg \in {cur, data[i].msg}]_vars

\* The mutex of the handle is released: an operation in progress ends.
OperationEnds == pc \notin {"idle", "down"} ~> pc \in {"idle", "down"}

\* Whatever is pushed, a load() that picks out the valid messages
\* (Message.hpp:121) gives back only messages that were published.
OnlyPublishedIsPushed == Phantom \notin InMsgs

-----------------------------------------------------------------------------
(* The store seen as the queue it promises to be: what has been pushed and   *)
(* not settled is in flight, a phantom is no message at all.                 *)

AtLeastOnce == INSTANCE AtLeastOnceQueue WITH
  Persistent <- {m \in Msgs : IsDurable(m)},
  inflight <- (waitack \cap Msgs) \ settled

\* Every step of the store, crashes and collections included, is a step of the
\* at-least-once queue or leaves it alone: messages are pushed in the order of
\* their acceptance, again after a restart, and none is lost or comes back.
ImplementsAtLeastOnce == AtLeastOnce!Spec

=============================================================================
