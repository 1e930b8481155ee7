-------------------------- MODULE MessageStoreProofs --------------------------
(***************************************************************************)
(* Proofs about MessageStore, for every set of messages, every threshold   *)
(* and every length of the file that the offsets can address.              *)
(*                                                                         *)
(* IInv is the inductive invariant.  Its heart is Managed: the records of  *)
(* the data file that are valid and the messages in durable are the same,  *)
(* each message object knowing its own record.  It is restored by a        *)
(* collection because the copying loop (Copying) carries each valid record *)
(* over once, and by an ack because a message has one record only (Files)  *)
(* and no message is both queued and waiting (Memory).                     *)
(***************************************************************************)
EXTENDS MessageStore, SequenceTheorems, TLAPS

\* Offsets are kept in full as long as the file has at most OffsetLimit slots.
Addressable == MaxRecords <= OffsetLimit

\* A message has at most one record.
Unique(f) ==
  \A i, j \in 1..Len(f) : f[i].msg \in Msgs /\ f[i].msg = f[j].msg => i = j

\* A record of a message is of one that was accepted as durable; a valid one
\* is of a message that is not settled.
Proper(f) ==
  \A i \in 1..Len(f) : f[i].msg \in Msgs =>
    /\ IsDurable(f[i].msg) /\ stamp[f[i].msg] > 0
    /\ f[i].valid => f[i].msg \notin settled

Files == Len(data) <= MaxRecords /\ Unique(data) /\ Proper(data)

Copying == pc = "copy" =>
  /\ ci <= Len(data) + 1 /\ Len(temp) < ci
  /\ Unique(temp)
  /\ \A i \in 1..Len(temp) : temp[i].valid /\ \E j \in 1..ci - 1 : data[j] = temp[i]
  /\ \A j \in 1..ci - 1 : data[j].valid => \E i \in 1..Len(temp) : temp[i] = data[j]

Renaming == pc = "rename" =>
  /\ data = <<>> /\ Len(temp) <= MaxRecords
  /\ Unique(temp) /\ Proper(temp)
  /\ \A i \in 1..Len(temp) : temp[i].valid

Current ==
  /\ pc \in {"idle", "down", "cleared"} => cur = None
  /\ pc = "payload" =>
       /\ cur \in Msgs /\ IsDurable(cur) /\ stamp[cur] = 0
       /\ Len(data) > 0 /\ data[Len(data)] = Valid(Phantom)
  /\ pc \in {"copy", "rename"} /\ cur # None => cur \in settled
  /\ pc \in {"copy", "rename"} /\ cur = None =>
       durable = {} /\ msgs = <<>> /\ waitack = {}
  /\ pc = "down" => durable = {} /\ msgs = <<>> /\ waitack = {}

Managed ==
  /\ pc \in {"idle", "payload"} \/ (pc = "copy" /\ cur # None) =>
       /\ \A m \in durable : m # Phantom =>
            off[m] + 1 \in 1..Len(data) /\ data[off[m] + 1] = Valid(m)
       /\ \A i \in 1..Len(data) : data[i].valid =>
            data[i].msg \in durable \/ (pc = "payload" /\ i = Len(data))
  /\ pc = "rename" /\ cur # None =>
       /\ \A m \in durable : m # Phantom => \E i \in 1..Len(temp) : temp[i].msg = m
       /\ \A i \in 1..Len(temp) : temp[i].msg \in durable

Memory ==
  /\ \A i, j \in 1..Len(msgs) : msgs[i] \in Msgs /\ msgs[i] = msgs[j] => i = j
  /\ \A i \in 1..Len(msgs) : msgs[i] \in Msgs =>
       /\ stamp[msgs[i]] > 0 /\ msgs[i] \notin waitack
       /\ IsDurable(msgs[i]) => msgs[i] \in durable
       /\ pc # "cleared" => msgs[i] \notin settled
  /\ \A m \in waitack \cap Msgs :
       /\ stamp[m] > 0
       /\ IsDurable(m) /\ m # cur => m \in durable

History == \A m \in settled : stamp[m] > 0

IInv ==
  /\ TypeOK /\ Files /\ Copying /\ Renaming /\ Current /\ Managed /\ Memory
  /\ History

-----------------------------------------------------------------------------
(* Each action preserves the invariant: one lemma per action, and in it one *)
(* step per part of IInv that the action can disturb.                       *)

\* Names of files, memory and records are what the definitions say.
LEMMA RecordType ==
  ASSUME NEW m \in Names
  PROVE  /\ Valid(m) \in Record /\ Valid(m).msg = m /\ Valid(m).valid = TRUE
         /\ Void(m) \in Record /\ Void(m).msg = m /\ Void(m).valid = FALSE
BY DEF Valid, Void, Record

LEMMA InitIInv == Init => IInv
<1> SUFFICES ASSUME Init PROVE IInv
  OBVIOUS
<1> USE StoreAssumption DEF Init
<1>1. TypeOK
  BY DEF TypeOK
<1>2. Files /\ Copying /\ Renaming
  BY DEF Files, Copying, Renaming, Unique, Proper
<1>3. Current /\ Managed /\ Memory /\ History
  BY DEF Current, Managed, Memory, History
<1> QED
  BY <1>1, <1>2, <1>3 DEF IInv

LEMMA StutterIInv == IInv /\ UNCHANGED vars => IInv'
BY DEF IInv, TypeOK, Files, Copying, Renaming, Current, Managed, Memory, History,
       Unique, Proper, vars, IsDurable

LEMMA BootIInv == IInv /\ Boot => IInv'
<1> SUFFICES ASSUME IInv, Boot PROVE IInv'
  OBVIOUS
<1> USE StoreAssumption DEF IInv, Boot, memory, history
<1>1. TypeOK'
  BY DEF TypeOK
<1>2. Files' /\ Copying' /\ Renaming'
  BY DEF TypeOK, Files, Copying, Renaming, Unique, Proper
<1>3. Current' /\ Managed' /\ Memory' /\ History'
  BY DEF Current, Managed, Memory, History
<1> QED
  BY <1>1, <1>2, <1>3

LEMMA InsertTransientIInv ==
  ASSUME NEW m \in Msgs PROVE IInv /\ InsertTransient(m) => IInv'
<1> SUFFICES ASSUME IInv, InsertTransient(m) PROVE IInv'
  OBVIOUS
<1> USE StoreAssumption DEF IInv, InsertTransient, Accept, file, control
<1>t. TypeOK
  OBVIOUS
<1>0. /\ msgs \in Seq(Names) /\ m \in Names
      /\ stamp \in [Msgs -> Nat] /\ clock \in Nat
  BY DEF TypeOK, Names
<1>1. /\ Len(msgs') = Len(msgs) + 1 /\ msgs' \in Seq(Names)
      /\ \A i \in 1..Len(msgs) : msgs'[i] = msgs[i]
      /\ msgs'[Len(msgs) + 1] = m
  BY <1>0, AppendProperties
<1>2. /\ \A n \in Msgs : stamp[n] > 0 => stamp'[n] > 0
      /\ stamp'[m] > 0 /\ stamp' \in [Msgs -> Nat]
  BY <1>0
<1>3. TypeOK'
  BY <1>0, <1>1, <1>2 DEF TypeOK
<1>4. Files' /\ Copying' /\ Renaming' /\ Current' /\ Managed'
  BY <1>0, <1>2 DEF Files, Copying, Renaming, Current, Managed, Unique, Proper, IsDurable
<1>5. Memory'
  <2>1. \A i \in 1..Len(msgs) : msgs[i] # m
    BY <1>0 DEF Memory
  <2>2. m \notin settled /\ m \notin waitack
    BY <1>0 DEF Memory, History
  <2>3. \A i \in 1..Len(msgs') : i \in 1..Len(msgs) \/ i = Len(msgs) + 1
    BY <1>0, <1>1
  <2> QED
    BY <1>0, <1>1, <1>2, <2>1, <2>2, <2>3 DEF Memory, IsDurable
<1>6. History'
  BY <1>0, <1>2 DEF History, TypeOK
<1> QED
  BY <1>3, <1>4, <1>5, <1>6

LEMMA InsertHeaderIInv ==
  ASSUME NEW m \in Msgs PROVE IInv /\ InsertHeader(m) => IInv'
<1> SUFFICES ASSUME IInv, InsertHeader(m) PROVE IInv'
  OBVIOUS
<1> USE StoreAssumption DEF IInv, InsertHeader, memory, history
<1>0. data \in Seq(Record) /\ Phantom \in Names
  BY DEF TypeOK, Names
<1>2. Valid(Phantom).msg = Phantom /\ Valid(Phantom) \in Record
  BY <1>0, RecordType
<1>1. /\ Len(data') = Len(data) + 1 /\ data' \in Seq(Record)
      /\ \A i \in 1..Len(data) : data'[i] = data[i]
      /\ data'[Len(data) + 1] = Valid(Phantom)
      /\ \A i \in 1..Len(data') : i \in 1..Len(data) \/ i = Len(data) + 1
  BY <1>0, <1>2, AppendProperties
<1>3. TypeOK'
  BY <1>1 DEF TypeOK
<1>4. Files'
  BY <1>0, <1>1, <1>2, LenProperties DEF Files, Unique, Proper, IsDurable
<1>5. Copying' /\ Renaming' /\ Current' /\ Memory' /\ History'
  BY <1>0, <1>1 DEF Copying, Renaming, Current, Memory, History, IsDurable
<1>6. Managed'
  BY <1>0, <1>1, <1>2 DEF Managed
<1> QED
  BY <1>3, <1>4, <1>5, <1>6

\* An offset within reach is kept exactly.
LEMMA OffsetExact ==
  ASSUME Addressable, NEW i \in 1..MaxRecords
  PROVE  OffsetOf(i) = i - 1
<1>1. /\ i - 1 \in 0..OffsetLimit - 1 /\ OffsetLimit \in Nat \ {0}
  BY StoreAssumption DEF Addressable
<1>2. \A d \in Nat \ {0} : \A k \in 0..d - 1 : k % d = k
  OBVIOUS
<1> QED
  BY <1>1, <1>2 DEF OffsetOf

LEMMA InsertPayloadIInv == Addressable /\ IInv /\ InsertPayload => IInv'
<1> SUFFICES ASSUME Addressable, IInv, InsertPayload PROVE IInv'
  OBVIOUS
<1> USE StoreAssumption DEF IInv, InsertPayload, Accept
<1> DEFINE last == Len(data)
<1>0. /\ data \in Seq(Record) /\ msgs \in Seq(Names) /\ cur \in Msgs /\ cur \in Names
      /\ stamp \in [Msgs -> Nat] /\ clock \in Nat /\ off \in [Msgs -> Nat]
      /\ IsDurable(cur) /\ stamp[cur] = 0 /\ last \in 1..Len(data)
      /\ data[last] = Valid(Phantom) /\ cur # None /\ cur # Phantom
      /\ last \in 1..MaxRecords
  <2>1. /\ data \in Seq(Record) /\ msgs \in Seq(Names)
        /\ stamp \in [Msgs -> Nat] /\ clock \in Nat /\ off \in [Msgs -> Nat]
    BY DEF TypeOK
  <2>2. /\ cur \in Msgs /\ IsDurable(cur) /\ stamp[cur] = 0
        /\ Len(data) > 0 /\ data[Len(data)] = Valid(Phantom)
    BY DEF Current
  <2>3. Len(data) \in Nat /\ Len(data) <= MaxRecords
    BY <2>1, LenProperties DEF Files
  <2> QED
    BY <2>1, <2>2, <2>3 DEF Names
<1>v. Valid(cur) \in Record /\ Valid(cur).msg = cur /\ Valid(cur).valid = TRUE
  BY <1>0, RecordType
<1>1. /\ Len(data') = Len(data) /\ data' \in Seq(Record)
      /\ \A i \in 1..Len(data) : data'[i] = IF i = last THEN Valid(cur) ELSE data[i]
  BY <1>0, <1>v, ExceptSeq
<1>2. /\ Len(msgs') = Len(msgs) + 1 /\ msgs' \in Seq(Names)
      /\ \A i \in 1..Len(msgs) : msgs'[i] = msgs[i]
      /\ msgs'[Len(msgs) + 1] = cur
      /\ \A i \in 1..Len(msgs') : i \in 1..Len(msgs) \/ i = Len(msgs) + 1
  BY <1>0, AppendProperties, LenProperties
<1>3. /\ \A n \in Msgs : stamp[n] > 0 => stamp'[n] > 0
      /\ stamp'[cur] > 0 /\ stamp' \in [Msgs -> Nat]
  BY <1>0
<1>4. /\ off'[cur] = last - 1 /\ \A m \in Msgs \ {cur} : off'[m] = off[m]
      /\ off' \in [Msgs -> Nat]
  <2>1. OffsetOf(last) = last - 1
    BY <1>0, OffsetExact
  <2>2. last - 1 \in Nat
    BY <1>0
  <2> QED
    BY <1>0, <2>1, <2>2
<1>5. cur \notin settled /\ cur \notin waitack /\ \A i \in 1..Len(msgs) : msgs[i] # cur
  BY <1>0 DEF Memory, History
<1>6. \A i \in 1..Len(data) : data[i].msg # cur
  BY <1>0 DEF Files, Proper
<1>7. TypeOK'
  BY <1>0, <1>1, <1>2, <1>3, <1>4 DEF TypeOK
<1>8. Files'
  <2>1. Unique(data)'
    BY <1>0, <1>v, <1>1, <1>6 DEF Files, Unique
  <2>2. Proper(data)'
    BY <1>0, <1>v, <1>1, <1>3, <1>5 DEF Files, Proper, IsDurable
  <2> QED
    BY <1>1, <2>1, <2>2 DEF Files
<1>9. Copying' /\ Renaming' /\ Current' /\ History'
  BY <1>3, TypeOK DEF Copying, Renaming, Current, History, TypeOK
<1>10. Managed'
  <2>1. ASSUME NEW m \in durable', m # Phantom
        PROVE  off'[m] + 1 \in 1..Len(data') /\ data'[off'[m] + 1] = Valid(m)
    <3>1. CASE m = cur
      BY <1>0, <1>1, <1>4, <3>1
    <3>2. CASE m # cur
      <4>1. m \in durable /\ m \in Msgs
        BY <2>1, <3>2 DEF TypeOK, Names
      <4>2. off[m] + 1 \in 1..Len(data) /\ data[off[m] + 1] = Valid(m)
        BY <2>1, <4>1 DEF Managed
      <4>3. off[m] + 1 # last
        <5>1. Valid(m).msg = m /\ Valid(Phantom).msg = Phantom
          BY <4>1, RecordType DEF Names
        <5> QED
          BY <1>0, <2>1, <4>2, <5>1
      <4> QED
        BY <1>1, <1>4, <3>2, <4>1, <4>2, <4>3
    <3> QED
      BY <3>1, <3>2
  <2>2. ASSUME NEW i \in 1..Len(data'), data'[i].valid
        PROVE  data'[i].msg \in durable'
    <3>1. CASE i = last
      BY <1>0, <1>v, <1>1, <3>1
    <3>2. CASE i # last
      <4>1. i \in 1..Len(data) /\ data'[i] = data[i] /\ data[i].valid
        BY <1>1, <2>2, <3>2
      <4>2. data[i].msg \in durable
        BY <4>1, <3>2 DEF Managed
      <4> QED
        BY <4>1, <4>2
    <3> QED
      BY <3>1, <3>2
  <2> QED
    BY <2>1, <2>2 DEF Managed
<1>11. Memory'
  BY <1>0, <1>2, <1>3, <1>5 DEF Memory, IsDurable
<1> QED
  BY <1>7, <1>8, <1>9, <1>10, <1>11

LEMMA FrontIInv == IInv /\ Front => IInv'
<1> SUFFICES ASSUME IInv, Front PROVE IInv'
  OBVIOUS
<1> USE StoreAssumption DEF IInv, Front, file, control, history
<1>1. /\ msgs \in Seq(Names) /\ Head(msgs) \in Names /\ msgs' \in Seq(Names)
      /\ Len(msgs') = Len(msgs) - 1 /\ Len(msgs) \in Nat /\ Len(msgs) > 0
      /\ \A i \in 1..Len(msgs') : msgs'[i] = msgs[i + 1]
      /\ Head(msgs) = msgs[1]
  BY HeadTailProperties, LenProperties, EmptySeq DEF TypeOK
<1>2. TypeOK'
  BY <1>1 DEF TypeOK
<1>3. Files' /\ Copying' /\ Renaming' /\ Current' /\ Managed' /\ History'
  BY DEF Files, Copying, Renaming, Current, Managed, History, Unique, Proper, IsDurable
<1>4. Memory'
  <2>1. \A i \in 1..Len(msgs') : i + 1 \in 1..Len(msgs) /\ 1 \in 1..Len(msgs) /\ i + 1 # 1
    BY <1>1
  <2> QED
    BY <1>1, <2>1 DEF Memory, IsDurable
<1> QED
  BY <1>2, <1>3, <1>4

LEMMA AckTransientIInv ==
  ASSUME NEW m \in Names PROVE IInv /\ AckTransient(m) => IInv'
<1> SUFFICES ASSUME IInv, AckTransient(m) PROVE IInv'
  OBVIOUS
<1> USE StoreAssumption DEF IInv, AckTransient, file, control
<1>1. TypeOK'
  BY DEF TypeOK
<1>2. Files' /\ Copying' /\ Renaming' /\ Current' /\ Managed'
  BY DEF Files, Copying, Renaming, Current, Managed, Unique, Proper, IsDurable
<1>3. Memory' /\ History'
  BY DEF Memory, History, IsDurable
<1> QED
  BY <1>1, <1>2, <1>3

LEMMA AckDurableIInv ==
  ASSUME NEW m \in Msgs PROVE IInv /\ AckDurable(m) => IInv'
<1> SUFFICES ASSUME IInv, AckDurable(m) PROVE IInv'
  OBVIOUS
<1> USE StoreAssumption DEF IInv
<1> DEFINE slot == off[m] + 1
<1>0. /\ data \in Seq(Record) /\ m \in Names /\ m # None /\ m # Phantom /\ cur = None
      /\ pc = "idle" /\ m \in waitack /\ IsDurable(m)
      /\ durable \subseteq Names /\ settled \subseteq Msgs /\ waitack \subseteq Names
  BY DEF AckDurable, TypeOK, Names, Current
<1>1. m \in durable /\ stamp[m] > 0
  BY <1>0 DEF Memory
<1>2. slot \in 1..Len(data) /\ data[slot] = Valid(m)
  BY <1>0, <1>1 DEF Managed
<1>v. \A n \in Names : /\ Valid(n).msg = n /\ Valid(n).valid = TRUE
                       /\ Void(n).msg = n /\ Void(n).valid = FALSE /\ Void(n) \in Record
  BY RecordType
<1>3. /\ Len(data') = Len(data) /\ data' \in Seq(Record)
      /\ \A i \in 1..Len(data) : data'[i] = IF i = slot THEN Void(m) ELSE data[i]
  BY <1>0, <1>2, <1>v, ExceptSeq DEF AckDurable, OverwriteVoid
<1>4. \A i \in 1..Len(data) : data'[i].msg = data[i].msg
  BY <1>0, <1>2, <1>3, <1>v
<1>5. \A i \in 1..Len(data) :
        data'[i].valid => i # slot /\ data[i].valid /\ data[i].msg # m
  <2> SUFFICES ASSUME NEW i \in 1..Len(data), data'[i].valid
               PROVE  i # slot /\ data[i].valid /\ data[i].msg # m
    OBVIOUS
  <2>1. i # slot /\ data[i].valid
    BY <1>0, <1>3, <1>v
  <2> QED
    BY <2>1, <1>0, <1>2, <1>v DEF Files, Unique
<1>6. /\ durable' = durable \ {m} /\ settled' = settled \cup {m}
      /\ UNCHANGED <<msgs, off, stamp, clock, totalCount>>
      /\ validCount' = validCount - 1
  BY DEF AckDurable
<1>7. \/ pc' = "idle" /\ cur' = None /\ waitack' = waitack \ {m} /\ ci' = ci /\ temp' = temp
      \/ pc' = "copy" /\ cur' = m /\ waitack' = waitack /\ ci' = 1 /\ temp' = <<>>
  BY <1>0 DEF AckDurable, control
<1>8. TypeOK'
  <2>0. temp \in Seq(Record) /\ <<>> \in Seq(Record)
    BY EmptySeq DEF TypeOK
  <2>1. temp' \in Seq(Record)
    BY <1>7, <2>0
  <2>4. /\ data' \in Seq(Record) /\ ci' \in Nat \ {0}
        /\ pc' \in {"idle", "copy"} /\ cur' \in Msgs \cup {None}
    BY <1>3, <1>7 DEF TypeOK
  <2>2. durable' \subseteq Names /\ settled' \subseteq Msgs /\ waitack' \subseteq Names
    BY <1>0, <1>6, <1>7
  <2>3. validCount' \in Int
    BY <1>6 DEF TypeOK
  <2> QED
    BY <1>6, <2>1, <2>2, <2>3, <2>4 DEF TypeOK
<1>9. Files'
  <2>1. Unique(data)'
    BY <1>3, <1>4 DEF Files, Unique
  <2>2. Proper(data)'
    BY <1>3, <1>4, <1>5, <1>6 DEF Files, Proper, IsDurable
  <2> QED
    BY <1>3, <2>1, <2>2 DEF Files
<1>10. Copying' /\ Renaming'
  <2>1. Len(data) \in Nat
    BY <1>0
  <2> QED
    BY <1>7, <1>3, <2>1 DEF Copying, Renaming, Unique
<1>11. Current' /\ History'
  BY <1>0, <1>1, <1>6, <1>7 DEF Current, History
<1>12. Managed'
  <2>1. ASSUME NEW n \in durable', n # Phantom
        PROVE  off'[n] + 1 \in 1..Len(data') /\ data'[off'[n] + 1] = Valid(n)
    <3>1. n \in durable /\ n # m /\ n \in Names
      BY <1>0, <1>6
    <3>2. off[n] + 1 \in 1..Len(data) /\ data[off[n] + 1] = Valid(n)
      BY <1>0, <2>1, <3>1 DEF Managed
    <3>3. off[n] + 1 # slot
      BY <1>0, <1>2, <1>v, <3>1, <3>2
    <3> QED
      BY <1>3, <1>6, <3>2, <3>3
  <2>2. ASSUME NEW i \in 1..Len(data'), data'[i].valid
        PROVE  data'[i].msg \in durable'
    BY <1>0, <1>3, <1>4, <1>5, <1>6, <2>2 DEF Managed
  <2> QED
    BY <1>7, <2>1, <2>2 DEF Managed
<1>13. Memory'
  <2>1. \A i \in 1..Len(msgs) : msgs[i] # m
    BY <1>0 DEF Memory
  <2> QED
    BY <1>0, <1>1, <1>6, <1>7, <2>1 DEF Memory, IsDurable
<1> QED
  BY <1>8, <1>9, <1>10, <1>11, <1>12, <1>13

LEMMA GcCopyIInv == IInv /\ GcCopy => IInv'
<1> SUFFICES ASSUME IInv, GcCopy PROVE IInv'
  OBVIOUS
<1> USE StoreAssumption DEF IInv
<1>0. /\ data \in Seq(Record) /\ temp \in Seq(Record) /\ ci \in Nat \ {0}
      /\ pc = "copy" /\ pc' = "copy" /\ ci \in 1..Len(data) /\ ci' = ci + 1
      /\ data[ci] \in Record /\ Len(temp) < ci /\ Len(temp) \in Nat /\ Len(data) \in Nat
      /\ UNCHANGED <<data, memory, pc, cur, history>>
  BY ElementOfSeq, LenProperties DEF GcCopy, TypeOK, Copying
<1>1. \/ data[ci].valid /\ temp' = Append(temp, data[ci])
      \/ ~data[ci].valid /\ temp' = temp
  BY DEF GcCopy
<1>2. CASE ~data[ci].valid /\ temp' = temp
  <2>1. TypeOK' /\ Files' /\ Renaming' /\ Current' /\ Managed' /\ Memory' /\ History'
    BY <1>0, <1>2 DEF TypeOK, Files, Renaming, Current, Managed, Memory, History,
      memory, history, Unique, Proper, IsDurable
  <2>2. \A j \in 1..ci' - 1 : data[j].valid => j \in 1..ci - 1
    BY <1>0, <1>2
  <2>3. 1..ci - 1 \subseteq 1..ci' - 1
    BY <1>0
  <2>4. Copying'
    BY <1>0, <1>2, <2>2, <2>3 DEF Copying, Unique
  <2> QED
    BY <2>1, <2>4
<1>3. CASE data[ci].valid /\ temp' = Append(temp, data[ci])
  <2>0. /\ Len(temp') = Len(temp) + 1 /\ temp' \in Seq(Record)
        /\ \A i \in 1..Len(temp) : temp'[i] = temp[i]
        /\ temp'[Len(temp) + 1] = data[ci]
        /\ \A i \in 1..Len(temp') : i \in 1..Len(temp) \/ i = Len(temp) + 1
    BY <1>0, <1>3, AppendProperties
  <2>1. Files' /\ Renaming' /\ Current' /\ Managed' /\ Memory' /\ History'
    BY <1>0 DEF Files, Renaming, Current, Managed, Memory, History,
      memory, history, Unique, Proper, IsDurable
  <2>2. TypeOK'
    BY <1>0, <2>0 DEF TypeOK, memory, history
  <2>3. Copying'
    <3>1. \A i \in 1..Len(temp) :
            data[ci].msg \in Msgs => temp[i].msg # data[ci].msg
      BY <1>0 DEF Copying, Files, Unique
    <3>2. Unique(temp)'
      <4> SUFFICES ASSUME NEW i \in 1..Len(temp'), NEW j \in 1..Len(temp'),
                          temp'[i].msg \in Msgs, temp'[i].msg = temp'[j].msg
                   PROVE  i = j
        BY DEF Unique
      <4>1. i \in 1..Len(temp) /\ j \in 1..Len(temp) => i = j
        BY <1>0, <2>0 DEF Copying, Unique
      <4>2. i = Len(temp) + 1 => j \notin 1..Len(temp)
        BY <2>0, <3>1
      <4>3. j = Len(temp) + 1 => i \notin 1..Len(temp)
        BY <2>0, <3>1
      <4> QED
        BY <2>0, <4>1, <4>2, <4>3
    <3>3. \A i \in 1..Len(temp') :
            temp'[i].valid /\ \E j \in 1..ci' - 1 : data'[j] = temp'[i]
      <4> SUFFICES ASSUME NEW i \in 1..Len(temp')
                   PROVE  temp'[i].valid /\ \E j \in 1..ci : data[j] = temp'[i]
        BY <1>0
      <4>1. CASE i \in 1..Len(temp)
        <5>1. PICK j \in 1..ci - 1 : data[j] = temp[i]
          BY <1>0, <4>1 DEF Copying
        <5>2. temp[i].valid /\ j \in 1..ci
          BY <1>0, <4>1 DEF Copying
        <5> QED
          BY <2>0, <4>1, <5>1, <5>2
      <4>2. CASE i = Len(temp) + 1
        BY <1>0, <1>3, <2>0, <4>2
      <4> QED
        BY <2>0, <4>1, <4>2
    <3>4. \A j \in 1..ci' - 1 : data'[j].valid =>
            \E i \in 1..Len(temp') : temp'[i] = data'[j]
      <4> SUFFICES ASSUME NEW j \in 1..ci, data[j].valid
                   PROVE  \E i \in 1..Len(temp') : temp'[i] = data[j]
        BY <1>0
      <4>1. CASE j = ci
        BY <1>0, <2>0, <4>1
      <4>2. CASE j # ci
        <5>1. PICK i \in 1..Len(temp) : temp[i] = data[j]
          BY <1>0, <4>2 DEF Copying
        <5> QED
          BY <1>0, <2>0, <5>1
      <4> QED
        BY <4>1, <4>2
    <3> QED
      BY <1>0, <2>0, <3>2, <3>3, <3>4 DEF Copying
  <2> QED
    BY <2>1, <2>2, <2>3
<1> QED
  BY <1>1, <1>2, <1>3

LEMMA GcUnlinkIInv == IInv /\ GcUnlink => IInv'
<1> SUFFICES ASSUME IInv, GcUnlink PROVE IInv'
  OBVIOUS
<1> USE StoreAssumption DEF IInv
<1>0. /\ data \in Seq(Record) /\ temp \in Seq(Record) /\ ci \in Nat \ {0}
      /\ pc = "copy" /\ pc' = "rename" /\ data' = <<>>
      /\ Len(temp) \in Nat /\ Len(data) \in Nat /\ ci = Len(data) + 1
      /\ Len(temp) <= MaxRecords
      /\ UNCHANGED <<temp, memory, cur, ci, history>>
  BY LenProperties DEF GcUnlink, TypeOK, Copying, Files
<1>1. TypeOK'
  BY <1>0, EmptySeq DEF TypeOK, memory, history
<1>2. Files' /\ Copying' /\ Current' /\ Memory' /\ History'
  BY <1>0 DEF Files, Copying, Current, Memory, History, memory, history, Unique, Proper,
    IsDurable
<1>3. Renaming'
  <2>1. \A i \in 1..Len(temp) : \E j \in 1..Len(data) : data[j] = temp[i]
    BY <1>0 DEF Copying
  <2>2. Proper(temp)'
    BY <1>0, <2>1 DEF Files, Proper, history, IsDurable
  <2> QED
    BY <1>0, <2>2 DEF Renaming, Copying, Unique
<1>4. Managed'
  <2> SUFFICES ASSUME cur # None
               PROVE  /\ \A m \in durable : m # Phantom =>
                           \E i \in 1..Len(temp) : temp[i].msg = m
                      /\ \A i \in 1..Len(temp) : temp[i].msg \in durable
    BY <1>0 DEF Managed, memory
  <2>1. ASSUME NEW m \in durable, m # Phantom
        PROVE  \E i \in 1..Len(temp) : temp[i].msg = m
    <3>1. /\ off[m] + 1 \in 1..Len(data) /\ data[off[m] + 1] = Valid(m)
      BY <1>0, <2>1 DEF Managed
    <3>2. Valid(m).valid /\ Valid(m).msg = m
      BY RecordType DEF TypeOK
    <3>3. PICK i \in 1..Len(temp) : temp[i] = data[off[m] + 1]
      BY <1>0, <3>1, <3>2 DEF Copying
    <3> QED
      BY <3>1, <3>2, <3>3
  <2>2. ASSUME NEW i \in 1..Len(temp)
        PROVE  temp[i].msg \in durable
    <3>1. temp[i].valid /\ \E j \in 1..ci - 1 : data[j] = temp[i]
      BY <1>0 DEF Copying
    <3>2. PICK j \in 1..Len(data) : data[j] = temp[i]
      BY <1>0, <3>1
    <3>3. data[j].msg \in durable
      BY <1>0, <3>1, <3>2 DEF Managed
    <3> QED
      BY <3>2, <3>3
  <2> QED
    BY <2>1, <2>2
<1> QED
  BY <1>1, <1>2, <1>3, <1>4

\* A collection and a recovery give every collected message the offset of its
\* new record.
LEMMA CollectedOffsetsExact ==
  ASSUME Addressable, TypeOK, Unique(temp), Len(temp) <= MaxRecords,
         NEW i \in 1..Len(temp), temp[i].msg \in Msgs
  PROVE  CollectedOffsets[temp[i].msg] = i - 1
<1> DEFINE m == temp[i].msg
<1>0. temp \in Seq(Record) /\ Len(temp) \in Nat /\ DOMAIN temp = 1..Len(temp)
  BY LenProperties DEF TypeOK
<1>1. SlotsOf(temp, m) = {i}
  BY <1>0 DEF SlotsOf, Unique
<1>2. (CHOOSE j \in SlotsOf(temp, m) : TRUE) = i
  BY <1>1
<1>3. m \in NamesIn(temp)
  BY <1>0 DEF NamesIn
<1>4. i \in 1..MaxRecords
  BY <1>0, StoreAssumption
<1>5. OffsetOf(i) = i - 1
  BY <1>4, OffsetExact
<1> QED
  BY <1>2, <1>3, <1>5 DEF CollectedOffsets

LEMMA CollectedOffsetsType ==
  ASSUME TypeOK PROVE CollectedOffsets \in [Msgs -> Nat]
<1>1. \A i \in Nat \ {0} : OffsetOf(i) \in Nat
  BY StoreAssumption DEF OffsetOf
<1>2. ASSUME NEW m \in Msgs
      PROVE  CollectedOffsets[m] \in Nat
  <2>1. CASE m \in NamesIn(temp)
    <3>1. PICK j \in DOMAIN temp : temp[j].msg = m
      BY <2>1 DEF NamesIn
    <3>2. (CHOOSE i \in SlotsOf(temp, m) : TRUE) \in SlotsOf(temp, m)
      BY <3>1 DEF SlotsOf
    <3>3. (CHOOSE i \in SlotsOf(temp, m) : TRUE) \in Nat \ {0}
      BY <3>2, LenProperties DEF SlotsOf, TypeOK
    <3> QED
      BY <1>1, <2>1, <3>3 DEF CollectedOffsets
  <2>2. CASE m \notin NamesIn(temp)
    BY <2>2 DEF CollectedOffsets, TypeOK
  <2> QED
    BY <2>1, <2>2
<1> QED
  BY <1>2 DEF CollectedOffsets

LEMMA GcRenameIInv == Addressable /\ IInv /\ GcRename => IInv'
<1> SUFFICES ASSUME Addressable, IInv, GcRename PROVE IInv'
  OBVIOUS
<1> USE StoreAssumption DEF IInv
<1>0. /\ temp \in Seq(Record) /\ Len(temp) \in Nat /\ DOMAIN temp = 1..Len(temp)
      /\ pc = "rename" /\ pc' = "idle" /\ cur' = None /\ ci' = 1
      /\ data' = temp /\ temp' = <<>> /\ off' = CollectedOffsets
      /\ Len(temp) <= MaxRecords /\ Unique(temp) /\ Proper(temp)
      /\ \A i \in 1..Len(temp) : temp[i].valid /\ temp[i] \in Record
      /\ durable' = durable \cup NamesIn(temp) /\ waitack' = waitack \ {cur}
      /\ validCount' = Len(temp) /\ totalCount' = Len(temp)
      /\ UNCHANGED history
      /\ msgs \in Seq(Names) /\ durable \subseteq Names /\ waitack \subseteq Names
  BY LenProperties, ElementOfSeq DEF GcRename, TypeOK, Renaming
<1>1. /\ \A i \in 1..Len(temp) : temp[i].msg \in Names
      /\ NamesIn(temp) = {temp[i].msg : i \in 1..Len(temp)}
      /\ NamesIn(temp) \subseteq Names
  BY <1>0 DEF NamesIn, Record
<1>2. ASSUME cur = None
      PROVE  /\ Memory' /\ msgs' \in Seq(Names)
             /\ \A m \in durable' : m # Phantom => m \in NamesIn(temp)
  <2>1. msgs' = [i \in 1..Len(temp) |-> temp[i].msg]
    BY <1>2 DEF GcRename, MsgOf
  <2>2. /\ msgs' \in Seq(Names) /\ Len(msgs') = Len(temp)
        /\ \A i \in 1..Len(temp) : msgs'[i] = temp[i].msg
    BY <1>0, <1>1, <2>1
  <2>3. durable' = NamesIn(temp) /\ waitack' = {}
    BY <1>0, <1>2 DEF Current
  <2>4. Memory'
    BY <1>0, <1>1, <2>2, <2>3 DEF Memory, Unique, Proper, history
  <2> QED
    BY <2>2, <2>3, <2>4
<1>3. ASSUME cur # None
      PROVE  /\ Memory' /\ msgs' \in Seq(Names)
             /\ \A m \in durable' : m # Phantom => m \in NamesIn(temp)
  <2>1. NamesIn(temp) \subseteq durable
    BY <1>0, <1>1, <1>3 DEF Managed
  <2>2. msgs' = msgs
    BY <1>0, <1>3, <2>1, ConcatEmptySeq DEF GcRename, Unmanaged
  <2>3. durable' = durable
    BY <1>0, <2>1
  <2>4. \A m \in durable : m # Phantom => m \in NamesIn(temp)
    BY <1>0, <1>1, <1>3 DEF Managed
  <2>5. Memory'
    BY <1>0, <2>2, <2>3 DEF Memory, history, IsDurable
  <2> QED
    BY <1>0, <2>2, <2>3, <2>4, <2>5
<1>4. Memory' /\ msgs' \in Seq(Names)
  BY <1>2, <1>3, <1>0
<1>5. \A m \in durable' : m # Phantom => m \in NamesIn(temp)
  BY <1>2, <1>3
<1>6. TypeOK'
  BY <1>0, <1>1, <1>4, CollectedOffsetsType, EmptySeq DEF TypeOK, history
<1>7. Files' /\ Copying' /\ Renaming' /\ Current' /\ History'
  BY <1>0 DEF Files, Copying, Renaming, Current, History, Unique, Proper, history, IsDurable
<1>8. Managed'
  <2>1. ASSUME NEW m \in durable', m # Phantom
        PROVE  off'[m] + 1 \in 1..Len(data') /\ data'[off'[m] + 1] = Valid(m)
    <3>1. PICK i \in 1..Len(temp) : temp[i].msg = m
      BY <1>1, <1>5, <2>1
    <3>2. m \in Msgs
      BY <1>1, <2>1, <3>1 DEF Names
    <3>3. off'[m] = i - 1
      BY <1>0, <3>1, <3>2, CollectedOffsetsExact
    <3>4. temp[i] = Valid(m)
      BY <1>0, <3>1 DEF Record, Valid
    <3> QED
      BY <1>0, <3>3, <3>4
  <2>2. ASSUME NEW i \in 1..Len(data')
        PROVE  data'[i].msg \in durable'
    BY <1>0, <1>1
  <2> QED
    BY <1>0, <2>1, <2>2 DEF Managed
<1> QED
  BY <1>4, <1>6, <1>7, <1>8

LEMMA ClearIInv == IInv /\ (ClearData \/ ClearTemp) => IInv'
<1> USE StoreAssumption DEF IInv
<1>1. ASSUME IInv, ClearData PROVE IInv'
  <2> USE <1>1 DEF ClearData, memory
  <2>1. TypeOK'
    BY EmptySeq DEF TypeOK, Accepted
  <2>2. Files' /\ Copying' /\ Renaming' /\ Current' /\ Managed'
    BY DEF Files, Copying, Renaming, Current, Managed, Unique, Proper
  <2>3. Memory' /\ History'
    BY DEF Memory, History, Accepted, IsDurable, TypeOK
  <2> QED
    BY <2>1, <2>2, <2>3
<1>2. ASSUME IInv, ClearTemp PROVE IInv'
  <2> USE <1>2 DEF ClearTemp, Forget, history
  <2>1. TypeOK'
    BY EmptySeq DEF TypeOK
  <2>2. Files' /\ Copying' /\ Renaming' /\ Current' /\ Managed'
    BY DEF Files, Copying, Renaming, Current, Managed, Unique, Proper, IsDurable
  <2>3. Memory' /\ History'
    BY DEF Memory, History
  <2> QED
    BY <2>1, <2>2, <2>3
<1> QED
  BY <1>1, <1>2

LEMMA CrashIInv == IInv /\ Crash => IInv'
<1> SUFFICES ASSUME IInv, Crash PROVE IInv'
  OBVIOUS
<1> USE StoreAssumption DEF IInv, Crash, Forget, file
<1>1. TypeOK'
  BY EmptySeq DEF TypeOK, Accepted
<1>2. Files'
  BY DEF Files, Unique, Proper, IsDurable, Accepted
<1>3. Copying' /\ Renaming' /\ Current' /\ Managed'
  BY DEF Copying, Renaming, Current, Managed
<1>4. Memory' /\ History'
  BY DEF Memory, History, Accepted, TypeOK
<1> QED
  BY <1>1, <1>2, <1>3, <1>4

LEMMA NextIInv == Addressable /\ IInv /\ [Next]_vars => IInv'
<1> SUFFICES ASSUME Addressable, IInv, [Next]_vars PROVE IInv'
  OBVIOUS
<1>1. CASE Operation
  BY <1>1, BootIInv, InsertTransientIInv, InsertHeaderIInv, FrontIInv,
     AckTransientIInv, AckDurableIInv, ClearIInv DEF Operation
<1>2. CASE Continue
  BY <1>2, InsertPayloadIInv, GcCopyIInv, GcUnlinkIInv, GcRenameIInv, ClearIInv
     DEF Continue
<1>3. CASE Crash
  BY <1>3, CrashIInv
<1>4. CASE UNCHANGED vars
  BY <1>4, StutterIInv
<1> QED
  BY <1>1, <1>2, <1>3, <1>4 DEF Next

LEMMA AlwaysIInv == ASSUME Addressable PROVE Spec => []IInv
<1>1. Init => IInv
  BY InitIInv
<1>2. IInv /\ [Next]_vars => IInv'
  BY NextIInv
<1> QED
  BY <1>1, <1>2, PTL DEF Spec

-----------------------------------------------------------------------------
(* The invariants of the runs, for every instance.                          *)

\* The variables keep their types; in particular every place the store works
\* on is a slot of its file.
THEOREM TypeCorrect == ASSUME Addressable PROVE Spec => []TypeOK
BY AlwaysIInv, PTL DEF IInv

\* An ack always voids the record of its own message: each durable message's
\* object holds the offset of the message's own valid record, after any
\* sequence of inserts, acks, collections and restarts (Message.hpp:49-67).
THEOREM OffsetsAlwaysRight ==
  ASSUME Addressable PROVE Spec => []OffsetsNameOwnRecord
<1>1. IInv => OffsetsNameOwnRecord
  <2> SUFFICES ASSUME IInv, pc \in {"idle", "payload"},
                      NEW m \in durable \ {Phantom}
               PROVE  off[m] + 1 \in DOMAIN data /\ data[off[m] + 1] = Valid(m)
    BY DEF OffsetsNameOwnRecord
  <2>1. DOMAIN data = 1..Len(data)
    BY LenProperties DEF IInv, TypeOK
  <2> QED
    BY <2>1 DEF IInv, Managed
<1> QED
  BY <1>1, AlwaysIInv, PTL

\* The branch of garbageCollection() for a collected message that is not in
\* memory (Message.hpp:353-359) is dead code while ids are unique.
THEOREM AlwaysManaged == ASSUME Addressable PROVE Spec => []EveryRecordIsManaged
<1>1. IInv => EveryRecordIsManaged
  <2> SUFFICES ASSUME IInv, pc = "rename", cur # None
               PROVE  NamesIn(temp) \subseteq durable
    BY DEF EveryRecordIsManaged
  <2>1. DOMAIN temp = 1..Len(temp)
    BY LenProperties DEF IInv, TypeOK
  <2> QED
    BY <2>1 DEF IInv, Managed, NamesIn
<1> QED
  BY <1>1, AlwaysIInv, PTL

\* No acknowledged message comes back, from the queue or from the disk.
THEOREM AckIsFinal == ASSUME Addressable PROVE Spec => []SettledNeverReturns
<1>1. IInv => SettledNeverReturns
  <2> SUFFICES ASSUME IInv PROVE SettledNeverReturns
    OBVIOUS
  <2>1. /\ DOMAIN data = 1..Len(data) /\ DOMAIN msgs = 1..Len(msgs)
        /\ settled \subseteq Msgs
    BY LenProperties DEF IInv, TypeOK
  <2>2. pc = "cleared" \/ InMsgs \cap settled = {}
    BY <2>1 DEF IInv, Memory, InMsgs, Range
  <2>3. ValidNames(data) \cap settled = {}
    BY <2>1 DEF IInv, Files, Proper, ValidNames, ValidSlots
  <2> QED
    BY <2>2, <2>3 DEF SettledNeverReturns
<1> QED
  BY <1>1, AlwaysIInv, PTL

\* No operation overwrites the record of another message.
THEOREM NeverOverwritesOthers ==
  ASSUME Addressable PROVE Spec => OverwritesOwnRecord
<1> DEFINE Own == Len(data') = Len(data) =>
                    \A i \in DOMAIN data :
                      data'[i] # data[i] => data'[i].msg \in {cur, data[i].msg}
<1>1. IInv /\ [Next]_vars => [Own]_vars
  <2> SUFFICES ASSUME IInv, Next, Len(data') = Len(data),
                      NEW i \in DOMAIN data, data'[i] # data[i]
               PROVE  data'[i].msg \in {cur, data[i].msg}
    OBVIOUS
  <2>0. /\ data \in Seq(Record) /\ DOMAIN data = 1..Len(data) /\ Len(data) \in Nat
        /\ temp \in Seq(Record)
    BY LenProperties DEF IInv, TypeOK
  <2>1. CASE InsertPayload
    <3>1. cur \in Names
      BY <2>1 DEF InsertPayload, IInv, Current, Names
    <3>2. Valid(cur).msg = cur
      BY <3>1, RecordType
    <3> QED
      BY <2>0, <2>1, <3>2 DEF InsertPayload
  <2>2. ASSUME NEW m \in Msgs, AckDurable(m) PROVE data'[i].msg = data[i].msg
    <3>1. m \in durable /\ m # Phantom /\ m # None /\ m \in Names
      BY <2>2, StoreAssumption DEF AckDurable, IInv, Current, Memory, Names
    <3>2. data[off[m] + 1] = Valid(m)
      BY <2>2, <3>1 DEF AckDurable, IInv, Managed
    <3>3. Valid(m).msg = Void(m).msg
      BY <3>1, RecordType
    <3> QED
      BY <2>0, <2>2, <3>2, <3>3 DEF AckDurable, OverwriteVoid
  <2>3. CASE GcRename
    BY <2>0, <2>3 DEF GcRename, IInv, Renaming
  <2>4. CASE \E m \in Msgs : InsertHeader(m)
    BY <2>0, <2>4, AppendProperties, RecordType DEF InsertHeader, Names
  <2>5. CASE GcUnlink \/ ClearData
    BY <2>0, <2>5 DEF GcUnlink, ClearData
  <2>6. UNCHANGED data \/ InsertPayload \/ GcRename \/ GcUnlink \/ ClearData
        \/ (\E m \in Msgs : InsertHeader(m) \/ AckDurable(m))
    BY DEF Next, Operation, Continue, Boot, InsertTransient, Front, AckTransient,
           GcCopy, ClearTemp, Crash, file
  <2> QED
    BY <2>1, <2>2, <2>3, <2>4, <2>5, <2>6
<1> QED
  BY <1>1, AlwaysIInv, PTL DEF OverwritesOwnRecord, Spec

-----------------------------------------------------------------------------
(* Nothing is lost, provided that the process is not killed between the     *)
(* removal of the data file and the renaming of the temp file.              *)

NoCrashInWindow == "rename" \notin CrashPoints

InUse == pc \in {"idle", "payload"} \/ (pc \in {"copy", "rename"} /\ cur # None)

Kept ==
  /\ \A m \in Live : IsDurable(m) =>
       \E i \in 1..Len(IF pc = "rename" THEN temp ELSE data) :
         (IF pc = "rename" THEN temp ELSE data)[i] = Valid(m)
  /\ InUse => \A m \in Live : m \in waitack \/ \E i \in 1..Len(msgs) : msgs[i] = m
  /\ ~InUse => \A m \in Live : IsDurable(m)

LEMMA InitKept == Init => Kept
BY DEF Init, Kept, Live, Accepted

LEMMA InsertKept ==
  IInv /\ Kept /\ (InsertPayload \/ \E m \in Msgs : InsertHeader(m) \/ InsertTransient(m))
    => Kept'
<1> USE StoreAssumption DEF IInv
<1>0. ASSUME IInv
      PROVE  /\ data \in Seq(Record) /\ msgs \in Seq(Names) /\ stamp \in [Msgs -> Nat]
             /\ clock \in Nat /\ Len(data) \in Nat /\ Len(msgs) \in Nat
  BY <1>0, LenProperties DEF TypeOK
<1>1. ASSUME IInv, Kept, NEW m \in Msgs, InsertTransient(m) PROVE Kept'
  <2>0. /\ Live' \subseteq Live \cup {m} /\ pc = "idle" /\ pc' = "idle" /\ m \in Names
        /\ UNCHANGED <<data, waitack>> /\ ~IsDurable(m)
    BY <1>1, <1>0 DEF InsertTransient, Accept, file, control, Live, Accepted, Names
  <2>1. /\ Len(msgs') = Len(msgs) + 1 /\ msgs'[Len(msgs) + 1] = m
        /\ \A i \in 1..Len(msgs) : msgs'[i] = msgs[i]
    BY <1>1, <1>0, <2>0, AppendProperties DEF InsertTransient
  <2>2. \A n \in Live' : n \in waitack' \/ \E i \in 1..Len(msgs') : msgs'[i] = n
    BY <1>0, <1>1, <2>0, <2>1 DEF Kept, InUse
  <2> QED
    BY <1>1, <2>0, <2>2 DEF Kept, InUse, IsDurable
<1>2. ASSUME IInv, Kept, NEW m \in Msgs, InsertHeader(m) PROVE Kept'
  <2>0. /\ Live' = Live /\ pc = "idle" /\ pc' = "payload"
        /\ UNCHANGED <<msgs, waitack>>
    BY <1>2 DEF InsertHeader, memory, history, Live, Accepted
  <2>1. Valid(Phantom) \in Record
    BY RecordType DEF Names
  <2>2. /\ Len(data') = Len(data) + 1
        /\ \A i \in 1..Len(data) : data'[i] = data[i]
    BY <1>2, <1>0, <2>1, AppendProperties DEF InsertHeader
  <2> QED
    BY <1>0, <1>2, <2>0, <2>2 DEF Kept, InUse, IsDurable
<1>3. ASSUME IInv, Kept, InsertPayload PROVE Kept'
  <2>0. /\ cur \in Msgs /\ IsDurable(cur) /\ Len(data) > 0 /\ cur \in Names
        /\ data[Len(data)] = Valid(Phantom) /\ cur # Phantom
        /\ pc = "payload" /\ pc' = "idle" /\ waitack' = waitack
    BY <1>3, <1>0 DEF Current, InsertPayload, Names
  <2>1. Live' \subseteq Live \cup {cur}
    BY <1>3, <1>0, <2>0 DEF InsertPayload, Accept, Live, Accepted
  <2>2. /\ Valid(cur) \in Record /\ Valid(Phantom).msg = Phantom
        /\ \A n \in Names : Valid(n).msg = n
    BY <2>0, RecordType DEF Names
  <2>3. /\ Len(data') = Len(data)
        /\ \A i \in 1..Len(data) : data'[i] = IF i = Len(data) THEN Valid(cur) ELSE data[i]
    BY <1>3, <1>0, <2>0, <2>2, ExceptSeq DEF InsertPayload
  <2>4. /\ Len(msgs') = Len(msgs) + 1 /\ msgs'[Len(msgs) + 1] = cur
        /\ \A i \in 1..Len(msgs) : msgs'[i] = msgs[i]
    BY <1>3, <1>0, <2>0, AppendProperties DEF InsertPayload
  <2>5. \A n \in Live' : n \in waitack' \/ \E i \in 1..Len(msgs') : msgs'[i] = n
    BY <1>0, <1>3, <2>0, <2>1, <2>4 DEF Kept, InUse
  <2>6. ASSUME NEW n \in Live', IsDurable(n)
        PROVE  \E i \in 1..Len(data') : data'[i] = Valid(n)
    <3>1. CASE n = cur
      BY <1>0, <2>0, <2>3, <3>1
    <3>2. CASE n # cur
      <4>1. PICK i \in 1..Len(data) : data[i] = Valid(n)
        BY <1>3, <2>0, <2>1, <2>6, <3>2 DEF Kept
      <4>2. n \in Names /\ n # Phantom
        BY <1>3, <2>0, <2>1, <3>2 DEF Names, Live, Accepted
      <4>3. i # Len(data)
        BY <2>0, <2>2, <4>1, <4>2
      <4> QED
        BY <2>3, <4>1, <4>3
    <3> QED
      BY <3>1, <3>2
  <2> QED
    BY <2>0, <2>5, <2>6 DEF Kept, InUse, IsDurable
<1> QED
  BY <1>1, <1>2, <1>3

LEMMA UseKept ==
  IInv /\ Kept /\ (Front \/ (\E m \in Names : AckTransient(m)) \/ \E m \in Msgs : AckDurable(m))
    => Kept'
<1> USE StoreAssumption DEF IInv
<1>1. ASSUME IInv, Kept, Front PROVE Kept'
  <2>1. /\ msgs \in Seq(Names) /\ Len(msgs') = Len(msgs) - 1 /\ Len(msgs) \in Nat
        /\ \A i \in 1..Len(msgs') : msgs'[i] = msgs[i + 1]
        /\ Head(msgs) = msgs[1]
    BY <1>1, HeadTailProperties, LenProperties DEF Front, TypeOK
  <2>2. /\ pc = "idle" /\ pc' = pc /\ cur' = cur /\ data' = data /\ Live' = Live
        /\ waitack' = waitack \cup {msgs[1]}
    BY <1>1, <2>1 DEF Front, file, control, history, Live, Accepted
  <2>3. ASSUME NEW m \in Live', m \notin waitack'
        PROVE  \E i \in 1..Len(msgs') : msgs'[i] = m
    <3>1. PICK i \in 1..Len(msgs) : msgs[i] = m
      BY <1>1, <2>2, <2>3 DEF Kept, InUse
    <3>2. i # 1
      BY <2>2, <2>3, <3>1
    <3>3. i - 1 \in 1..Len(msgs') /\ (i - 1) + 1 = i
      BY <2>1, <3>2
    <3> QED
      BY <2>1, <3>1, <3>3
  <2> QED
    BY <1>1, <2>2, <2>3 DEF Kept, InUse, IsDurable
<1>2. ASSUME IInv, Kept, NEW m \in Names, AckTransient(m) PROVE Kept'
  <2>1. /\ pc = "idle" /\ pc' = pc /\ cur' = cur /\ Live' = Live \ {m}
        /\ UNCHANGED <<data, msgs>> /\ waitack' = waitack \ {m}
    BY <1>2 DEF AckTransient, file, control, Live, Accepted
  <2> QED
    BY <1>2, <2>1 DEF Kept, InUse, IsDurable
<1>3. ASSUME IInv, Kept, NEW m \in Msgs, AckDurable(m) PROVE Kept'
  <2>0. /\ pc = "idle" /\ Live' = Live \ {m} /\ UNCHANGED msgs /\ cur = None /\ m # None
        /\ m \in Names /\ m # Phantom /\ IsDurable(m)
        /\ data \in Seq(Record) /\ pc' \in {"idle", "copy"}
        /\ waitack' \in {waitack, waitack \ {m}}
        /\ InUse'
    BY <1>3 DEF AckDurable, Live, Accepted, Names, control, Current, InUse, TypeOK
  <2>1. /\ off[m] + 1 \in 1..Len(data) /\ data[off[m] + 1] = Valid(m)
    BY <1>3, <2>0 DEF Managed, Memory, AckDurable
  <2>2. Void(m) \in Record /\ \A n \in Names : Valid(n).msg = n
    BY <2>0, RecordType
  <2>3. /\ Len(data') = Len(data)
        /\ \A i \in 1..Len(data) : i # off[m] + 1 => data'[i] = data[i]
    BY <1>3, <2>0, <2>1, <2>2, ExceptSeq DEF AckDurable, OverwriteVoid
  <2>4. ASSUME NEW n \in Live', IsDurable(n)
        PROVE  \E i \in 1..Len(data') : data'[i] = Valid(n)
    <3>1. PICK i \in 1..Len(data) : data[i] = Valid(n)
      BY <1>3, <2>0, <2>4 DEF Kept
    <3>2. n \in Names /\ n # m
      BY <2>0 DEF Names, Live, Accepted
    <3>3. i # off[m] + 1
      BY <2>0, <2>1, <2>2, <3>1, <3>2
    <3> QED
      BY <2>3, <3>1, <3>3
  <2>5. \A n \in Live' : n \in waitack' \/ \E i \in 1..Len(msgs') : msgs'[i] = n
    BY <1>3, <2>0 DEF Kept, InUse
  <2> QED
    BY <2>0, <2>4, <2>5 DEF Kept, IsDurable
<1> QED
  BY <1>1, <1>2, <1>3

LEMMA GcKept == IInv /\ Kept /\ (Boot \/ GcCopy \/ GcUnlink \/ GcRename) => Kept'
<1> USE StoreAssumption DEF IInv
<1>1. ASSUME IInv, Kept, Boot PROVE Kept'
  BY <1>1 DEF Boot, memory, history, Kept, InUse, Live, Accepted, IsDurable
<1>2. ASSUME IInv, Kept, GcCopy PROVE Kept'
  BY <1>2 DEF GcCopy, memory, history, Kept, InUse, Live, Accepted, IsDurable
<1>3. ASSUME IInv, Kept, GcUnlink PROVE Kept'
  <2>0. /\ pc = "copy" /\ pc' = "rename" /\ ci = Len(data) + 1 /\ Len(data) \in Nat
        /\ UNCHANGED <<temp, msgs, waitack, cur>> /\ Live' = Live
    BY <1>3, LenProperties DEF GcUnlink, memory, history, Copying, TypeOK, Live, Accepted
  <2>1. ASSUME NEW m \in Live', IsDurable(m)
        PROVE  \E i \in 1..Len(temp) : temp[i] = Valid(m)
    <3>1. PICK j \in 1..Len(data) : data[j] = Valid(m)
      BY <1>3, <2>0, <2>1 DEF Kept
    <3>2. Valid(m).valid
      BY <2>0, RecordType DEF Names, Live, Accepted
    <3> QED
      BY <1>3, <2>0, <3>1, <3>2 DEF Copying
  <2> QED
    BY <1>3, <2>0, <2>1 DEF Kept, InUse, IsDurable
<1>4. ASSUME IInv, Kept, GcRename PROVE Kept'
  <2>0. /\ pc = "rename" /\ pc' = "idle" /\ data' = temp /\ Live' = Live
        /\ waitack' = waitack \ {cur}
        /\ temp \in Seq(Record) /\ DOMAIN temp = 1..Len(temp) /\ Len(temp) \in Nat
        /\ msgs \in Seq(Names)
    BY <1>4, LenProperties DEF GcRename, history, Live, Accepted, TypeOK
  <2>1. \A m \in Live' : IsDurable(m) => \E i \in 1..Len(data') : data'[i] = Valid(m)
    BY <1>4, <2>0 DEF Kept
  <2>2. ASSUME NEW m \in Live'
        PROVE  m \in waitack' \/ \E i \in 1..Len(msgs') : msgs'[i] = m
    <3>1. CASE cur = None
      <4>1. msgs' = [i \in 1..Len(temp) |-> temp[i].msg]
        BY <1>4, <3>1 DEF GcRename, MsgOf
      <4>2. PICK i \in 1..Len(temp) : temp[i] = Valid(m)
        BY <1>4, <2>0, <2>2, <3>1 DEF Kept, InUse
      <4>3. Valid(m).msg = m
        BY <2>0, RecordType DEF Names, Live, Accepted
      <4> QED
        BY <2>0, <4>1, <4>2, <4>3
    <3>2. CASE cur # None
      <4>1. NamesIn(temp) \subseteq durable
        BY <1>4, <2>0, <3>2 DEF Managed, NamesIn
      <4>2. msgs' = msgs
        BY <1>4, <2>0, <3>2, <4>1, ConcatEmptySeq DEF GcRename, Unmanaged
      <4>3. m # cur
        BY <1>4, <2>0, <3>2 DEF Current, Live
      <4> QED
        BY <1>4, <2>0, <2>2, <3>2, <4>2, <4>3 DEF Kept, InUse
    <3> QED
      BY <3>1, <3>2
  <2> QED
    BY <2>0, <2>1, <2>2 DEF Kept, InUse, IsDurable
<1> QED
  BY <1>1, <1>2, <1>3, <1>4

LEMMA LoseMemoryKept ==
  NoCrashInWindow /\ IInv /\ Kept /\ (ClearData \/ ClearTemp \/ Crash) => Kept'
<1> USE StoreAssumption DEF IInv
<1>1. ASSUME IInv, Kept, ClearData PROVE Kept'
  <2>1. Live' = {}
    BY <1>1 DEF ClearData, Live, Accepted
  <2> QED
    BY <2>1 DEF Kept
<1>2. ASSUME IInv, Kept, ClearTemp PROVE Kept'
  BY <1>2 DEF ClearTemp, history, Kept, InUse, Live, Accepted, IsDurable
<1>3. ASSUME NoCrashInWindow, IInv, Kept, Crash PROVE Kept'
  <2>1. /\ pc # "rename" /\ pc' = "down" /\ data' = data
        /\ Live' = {m \in Live : IsDurable(m)}
    BY <1>3 DEF Crash, NoCrashInWindow, file, Live, Accepted
  <2> QED
    BY <1>3, <2>1 DEF Kept, InUse, IsDurable
<1> QED
  BY <1>1, <1>2, <1>3

LEMMA StutterKept == Kept /\ UNCHANGED vars => Kept'
BY DEF Kept, InUse, Live, Accepted, IsDurable, vars

LEMMA NextKept == NoCrashInWindow /\ IInv /\ Kept /\ [Next]_vars => Kept'
BY InsertKept, UseKept, GcKept, LoseMemoryKept, StutterKept
   DEF Next, Operation, Continue

LEMMA AlwaysKept ==
  ASSUME Addressable, NoCrashInWindow PROVE Spec => [](IInv /\ Kept)
<1>1. Init => Kept
  BY InitKept
<1>2. IInv /\ Kept /\ [Next]_vars => Kept'
  BY NextKept
<1> QED
  BY <1>1, <1>2, AlwaysIInv, PTL DEF Spec

\* At least once, on disk: whatever order inserts, acks, collections, deletions
\* and kills come in, an accepted durable message that nobody acknowledged is in
\* the file that recovery() will read (Message.hpp:69-109, :274-285).
THEOREM OwedAlwaysStored ==
  ASSUME Addressable, NoCrashInWindow PROVE Spec => []OwedIsStored
<1>1. IInv /\ Kept => OwedIsStored
  <2> SUFFICES ASSUME IInv, Kept, NEW m \in Owed
               PROVE  m \in ValidNames(IF pc = "rename" THEN temp ELSE data)
    BY DEF OwedIsStored
  <2> DEFINE f == IF pc = "rename" THEN temp ELSE data
  <2>1. DOMAIN f = 1..Len(f)
    BY LenProperties DEF IInv, TypeOK
  <2>2. PICK i \in 1..Len(f) : f[i] = Valid(m)
    BY DEF Kept, Owed
  <2>3. Valid(m).msg = m /\ Valid(m).valid
    BY RecordType DEF Names, Owed, Live, Accepted
  <2> QED
    BY <2>1, <2>2, <2>3 DEF ValidNames, ValidSlots
<1> QED
  BY <1>1, AlwaysKept, PTL

\* At least once, in memory: a restart brings all of them back, to be pushed.
THEOREM OwedAlwaysServed ==
  ASSUME Addressable, NoCrashInWindow PROVE Spec => []OwedIsServed
<1>1. IInv /\ Kept => OwedIsServed
  <2> SUFFICES ASSUME IInv, Kept, pc = "idle", NEW m \in Owed, m \notin waitack
               PROVE  m \in InMsgs
    BY DEF OwedIsServed
  <2>1. DOMAIN msgs = 1..Len(msgs)
    BY LenProperties DEF IInv, TypeOK
  <2>2. PICK i \in 1..Len(msgs) : msgs[i] = m
    BY DEF Kept, Owed, InUse
  <2> QED
    BY <2>1, <2>2 DEF InMsgs, Range
<1> QED
  BY <1>1, AlwaysKept, PTL
=============================================================================
