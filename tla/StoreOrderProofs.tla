--------------------------- MODULE StoreOrderProofs ---------------------------
(***************************************************************************)
(* What MessageStore promises beyond the records themselves, proved on top *)
(* of the invariants of MessageStoreProofs: the order of the messages, the *)
(* counts that trigger collections, that the store implements              *)
(* AtLeastOnceQueue, and when nothing but published messages is pushed.    *)
(*                                                                         *)
(* The messages are pushed in the order of their acceptance because that   *)
(* order is the order of the data file (Ordered), which the copying loop   *)
(* keeps, so that recovery() finds it again.  The counts are right because *)
(* each operation changes the file and the counts alike (Counted).         *)
(***************************************************************************)
EXTENDS MessageStoreProofs, FiniteSetTheorems

\* The records of a file are in the order in which their messages were
\* accepted, wherever headers without a payload lie between them.
Ordered(f) ==
  \A i, j \in 1..Len(f) : i < j /\ f[i].msg \in Msgs /\ f[j].msg \in Msgs =>
    stamp[f[i].msg] < stamp[f[j].msg]

InOrder ==
  /\ \A m \in Msgs : stamp[m] <= clock
  /\ Ordered(data)
  /\ pc \in {"copy", "rename"} => Ordered(temp)
  /\ \A i, j \in 1..Len(msgs) : i < j /\ msgs[i] \in Msgs /\ msgs[j] \in Msgs =>
       stamp[msgs[i]] < stamp[msgs[j]]

\* Between the two writes of an insert the header is in the file, and neither
\* count includes it.
Counted ==
  /\ pc = "idle" =>
       totalCount = Len(data) /\ validCount = Cardinality(ValidSlots(data))
  /\ pc = "payload" =>
       totalCount + 1 = Len(data) /\ validCount + 1 = Cardinality(ValidSlots(data))
  /\ pc \in {"idle", "payload"} =>
       \/ totalCount - validCount <= GcMinTotal
       \/ totalCount - validCount <= validCount

\* After the data file is gone no message is left to be served.
Cleared == pc = "cleared" => Accepted \subseteq settled

-----------------------------------------------------------------------------
(* The order of the messages. *)

LEMMA InitInOrder == Init => InOrder
BY DEF Init, InOrder, Ordered

\* A record appended to a file in order keeps it so, if it is younger.
LEMMA AppendOrdered ==
  ASSUME NEW f \in Seq(Record), NEW r \in Record, Ordered(f),
         \A i \in 1..Len(f) : f[i].msg \in Msgs /\ r.msg \in Msgs =>
           stamp[f[i].msg] < stamp[r.msg]
  PROVE  Ordered(Append(f, r))
<1> DEFINE g == Append(f, r)
<1>1. /\ Len(g) = Len(f) + 1 /\ Len(f) \in Nat
      /\ \A i \in 1..Len(f) : g[i] = f[i]
      /\ g[Len(f) + 1] = r
  BY AppendProperties, LenProperties
<1> HIDE DEF g
<1> SUFFICES ASSUME NEW i \in 1..Len(g), NEW j \in 1..Len(g), i < j,
                    g[i].msg \in Msgs, g[j].msg \in Msgs
             PROVE  stamp[g[i].msg] < stamp[g[j].msg]
  BY DEF Ordered, g
<1>2. i \in 1..Len(f)
  BY <1>1
<1>3. CASE j \in 1..Len(f)
  BY <1>1, <1>2, <1>3 DEF Ordered
<1>4. CASE j = Len(f) + 1
  BY <1>1, <1>2, <1>4
<1> QED
  BY <1>1, <1>3, <1>4

\* A message that was never accepted gets a stamp above all others.
LEMMA AcceptInOrder ==
  ASSUME IInv, InOrder, NEW m \in Msgs, stamp[m] = 0, Accept(m)
  PROVE  /\ \A n \in Msgs : stamp'[n] <= clock'
         /\ \A n \in Msgs : n # m => stamp'[n] = stamp[n] /\ stamp[n] < stamp'[m]
<1>1. stamp \in [Msgs -> Nat] /\ clock \in Nat
  BY DEF IInv, TypeOK
<1> QED
  BY <1>1 DEF InOrder, Accept

LEMMA InsertInOrder ==
  IInv /\ InOrder
    /\ (InsertPayload \/ \E m \in Msgs : InsertHeader(m) \/ InsertTransient(m))
  => InOrder'
<1> USE StoreAssumption
<1>0. ASSUME IInv
      PROVE  /\ data \in Seq(Record) /\ msgs \in Seq(Names) /\ temp \in Seq(Record)
             /\ stamp \in [Msgs -> Nat] /\ clock \in Nat
             /\ Len(data) \in Nat /\ Len(msgs) \in Nat
  BY <1>0, LenProperties DEF IInv, TypeOK
<1>q. ASSUME IInv, InOrder, NEW m \in Msgs, stamp[m] = 0, Accept(m),
             msgs' = Append(msgs, m)
      PROVE  \A i, j \in 1..Len(msgs') :
               i < j /\ msgs'[i] \in Msgs /\ msgs'[j] \in Msgs =>
                 stamp'[msgs'[i]] < stamp'[msgs'[j]]
  <2>1. /\ Len(msgs') = Len(msgs) + 1 /\ msgs'[Len(msgs) + 1] = m
        /\ \A i \in 1..Len(msgs) : msgs'[i] = msgs[i]
    BY <1>0, <1>q, AppendProperties DEF Names
  <2>2. \A i \in 1..Len(msgs) : msgs[i] # m
    BY <1>q DEF IInv, Memory
  <2>3. \A n \in Msgs : n # m => stamp'[n] = stamp[n] /\ stamp[n] < stamp'[m]
    BY <1>q, AcceptInOrder
  <2> SUFFICES ASSUME NEW i \in 1..Len(msgs'), NEW j \in 1..Len(msgs'), i < j,
                      msgs'[i] \in Msgs, msgs'[j] \in Msgs
               PROVE  stamp'[msgs'[i]] < stamp'[msgs'[j]]
    OBVIOUS
  <2>4. i \in 1..Len(msgs)
    BY <1>0, <1>q, <2>1
  <2>5. CASE j \in 1..Len(msgs)
    BY <1>q, <2>1, <2>2, <2>3, <2>4, <2>5 DEF InOrder
  <2>6. CASE j = Len(msgs) + 1
    BY <1>q, <2>1, <2>2, <2>3, <2>4, <2>6
  <2>7. j \in 1..Len(msgs) \/ j = Len(msgs) + 1
    BY <1>0, <1>q, <2>1
  <2> QED
    BY <2>5, <2>6, <2>7
<1>1. ASSUME IInv, InOrder, NEW m \in Msgs, InsertTransient(m) PROVE InOrder'
  <2>0. /\ pc' = "idle" /\ data' = data /\ stamp[m] = 0 /\ Accept(m)
        /\ msgs' = Append(msgs, m) /\ ~IsDurable(m)
    BY <1>1 DEF InsertTransient, file, control
  <2>1. \A i \in 1..Len(data) : data[i].msg # m
    BY <1>1, <2>0 DEF IInv, Files, Proper
  <2>2. /\ \A n \in Msgs : stamp'[n] <= clock'
        /\ \A n \in Msgs : n # m => stamp'[n] = stamp[n]
    BY <1>1, <2>0, AcceptInOrder
  <2>3. Ordered(data)'
    BY <1>1, <2>0, <2>1, <2>2 DEF InOrder, Ordered
  <2> QED
    BY <1>1, <1>q, <2>0, <2>2, <2>3 DEF InOrder
<1>2. ASSUME IInv, InOrder, NEW m \in Msgs, InsertHeader(m) PROVE InOrder'
  <2>0. /\ pc' = "payload" /\ data' = Append(data, Valid(Phantom))
        /\ UNCHANGED <<msgs, stamp, clock>>
    BY <1>2 DEF InsertHeader, memory, history
  <2>1. Valid(Phantom) \in Record /\ Valid(Phantom).msg = Phantom
    BY RecordType DEF Names
  <2>2. Ordered(Append(data, Valid(Phantom)))
    BY <1>0, <1>2, <2>1, AppendOrdered DEF InOrder
  <2>3. Ordered(data)'
    BY <2>0, <2>2 DEF Ordered
  <2> QED
    BY <1>2, <2>0, <2>3 DEF InOrder
<1>3. ASSUME IInv, InOrder, InsertPayload PROVE InOrder'
  <2>0. /\ cur \in Msgs /\ IsDurable(cur) /\ Len(data) > 0 /\ cur \in Names
        /\ data[Len(data)] = Valid(Phantom) /\ stamp[cur] = 0
        /\ pc' = "idle" /\ Accept(cur) /\ msgs' = Append(msgs, cur)
    BY <1>3 DEF IInv, Current, InsertPayload, Names
  <2>1. Valid(cur) \in Record /\ Valid(cur).msg = cur
    BY <2>0, RecordType
  <2>2. /\ Len(data') = Len(data)
        /\ \A i \in 1..Len(data) : data'[i] = IF i = Len(data) THEN Valid(cur) ELSE data[i]
    BY <1>3, <1>0, <2>0, <2>1, ExceptSeq DEF InsertPayload
  <2>3. \A i \in 1..Len(data) : data[i].msg # cur
    BY <1>3, <2>0 DEF IInv, Files, Proper
  <2>4. /\ \A n \in Msgs : stamp'[n] <= clock'
        /\ \A n \in Msgs : n # cur => stamp'[n] = stamp[n] /\ stamp[n] < stamp'[cur]
    BY <1>3, <2>0, AcceptInOrder
  <2>5. Ordered(data)'
    <3> SUFFICES ASSUME NEW i \in 1..Len(data), NEW j \in 1..Len(data), i < j,
                        data'[i].msg \in Msgs, data'[j].msg \in Msgs
                 PROVE  stamp'[data'[i].msg] < stamp'[data'[j].msg]
      BY <2>2 DEF Ordered
    <3>1. i # Len(data) /\ data'[i] = data[i] /\ data[i].msg # cur
      BY <1>3, <1>0, <2>2, <2>3
    <3>2. CASE j = Len(data)
      BY <2>1, <2>2, <2>4, <3>1, <3>2
    <3>3. CASE j # Len(data)
      BY <1>3, <2>2, <2>3, <2>4, <3>1, <3>3 DEF InOrder, Ordered
    <3> QED
      BY <3>2, <3>3
  <2> QED
    BY <1>3, <1>q, <2>0, <2>4, <2>5 DEF InOrder
<1> QED
  BY <1>1, <1>2, <1>3

\* A delivery takes the first message away, an ack voids a record in its place.
LEMMA UseInOrder ==
  IInv /\ InOrder
    /\ (Front \/ (\E m \in Names : AckTransient(m)) \/ \E m \in Msgs : AckDurable(m))
  => InOrder'
<1> USE StoreAssumption
<1>1. ASSUME IInv, InOrder, Front PROVE InOrder'
  <2>1. /\ Len(msgs') = Len(msgs) - 1 /\ Len(msgs) \in Nat
        /\ \A i \in 1..Len(msgs') : msgs'[i] = msgs[i + 1]
    BY <1>1, HeadTailProperties, LenProperties DEF Front, IInv, TypeOK
  <2>2. /\ pc' = "idle" /\ UNCHANGED <<data, clock, stamp>>
    BY <1>1 DEF Front, file, control, history
  <2>3. \A i \in 1..Len(msgs') : i + 1 \in 1..Len(msgs)
    BY <2>1
  <2> QED
    BY <1>1, <2>1, <2>2, <2>3 DEF InOrder, Ordered
<1>2. ASSUME IInv, InOrder, NEW m \in Names, AckTransient(m) PROVE InOrder'
  BY <1>2 DEF AckTransient, file, control, InOrder, Ordered
<1>3. ASSUME IInv, InOrder, NEW m \in Msgs, AckDurable(m) PROVE InOrder'
  <2>0. /\ UNCHANGED <<msgs, clock, stamp>> /\ data \in Seq(Record)
        /\ m \in Names /\ m # None
        /\ pc' = "idle" \/ temp' = <<>>
    BY <1>3 DEF AckDurable, IInv, TypeOK, control, Names
  <2>1. /\ off[m] + 1 \in 1..Len(data) /\ data[off[m] + 1] = Valid(m)
    BY <1>3, <2>0 DEF IInv, Managed, Memory, Current, AckDurable
  <2>2. Void(m) \in Record /\ Void(m).msg = m /\ Valid(m).msg = m
    BY <2>0, RecordType
  <2>3. /\ Len(data') = Len(data)
        /\ \A i \in 1..Len(data) :
             data'[i] = IF i = off[m] + 1 THEN Void(m) ELSE data[i]
    BY <1>3, <2>0, <2>1, <2>2, ExceptSeq DEF AckDurable, OverwriteVoid
  <2>4. \A i \in 1..Len(data) : data'[i].msg = data[i].msg
    BY <2>1, <2>2, <2>3
  <2>5. Ordered(data)'
    BY <1>3, <2>0, <2>3, <2>4 DEF InOrder, Ordered
  <2>6. temp' = <<>> => Ordered(temp)'
    BY DEF Ordered
  <2> QED
    BY <1>3, <2>0, <2>5, <2>6 DEF InOrder
<1> QED
  BY <1>1, <1>2, <1>3

\* The copying loop meets the records in order, and recovery() pushes the
\* messages in the order of the records.
LEMMA GcInOrder ==
  IInv /\ InOrder /\ (Boot \/ GcCopy \/ GcUnlink \/ GcRename) => InOrder'
<1> USE StoreAssumption
<1>1. ASSUME IInv, InOrder, Boot PROVE InOrder'
  BY <1>1 DEF Boot, memory, history, InOrder, Ordered
<1>2. ASSUME IInv, InOrder, GcCopy PROVE InOrder'
  <2>0. /\ pc = "copy" /\ pc' = "copy" /\ UNCHANGED <<data, msgs, clock, stamp>>
        /\ data \in Seq(Record) /\ temp \in Seq(Record) /\ ci \in Nat \ {0}
        /\ Len(data) \in Nat /\ ci <= Len(data) /\ ci \in 1..Len(data)
        /\ data[ci] \in Record /\ Len(temp) \in Nat
    BY <1>2, LenProperties, ElementOfSeq DEF GcCopy, memory, history, IInv, TypeOK
  <2>1. Ordered(Append(temp, data[ci]))
    <3>1. ASSUME NEW i \in 1..Len(temp), temp[i].msg \in Msgs, data[ci].msg \in Msgs
          PROVE  stamp[temp[i].msg] < stamp[data[ci].msg]
      <4>1. PICK j \in 1..ci - 1 : data[j] = temp[i]
        BY <1>2, <2>0 DEF IInv, Copying
      <4>2. j \in 1..Len(data) /\ j < ci
        BY <2>0
      <4> QED
        BY <1>2, <2>0, <3>1, <4>1, <4>2 DEF InOrder, Ordered
    <3> QED
      BY <1>2, <2>0, <3>1, AppendOrdered DEF InOrder
  <2>2. temp' = temp \/ temp' = Append(temp, data[ci])
    BY <1>2 DEF GcCopy
  <2>3. Ordered(temp)'
    BY <1>2, <2>0, <2>1, <2>2 DEF InOrder, Ordered
  <2> QED
    BY <1>2, <2>0, <2>3 DEF InOrder, Ordered
<1>3. ASSUME IInv, InOrder, GcUnlink PROVE InOrder'
  BY <1>3 DEF GcUnlink, memory, history, InOrder, Ordered
<1>4. ASSUME IInv, InOrder, GcRename PROVE InOrder'
  <2>0. /\ pc = "rename" /\ pc' = "idle" /\ data' = temp /\ UNCHANGED <<clock, stamp>>
        /\ temp \in Seq(Record) /\ DOMAIN temp = 1..Len(temp) /\ Len(temp) \in Nat
        /\ msgs \in Seq(Names)
    BY <1>4, LenProperties DEF GcRename, history, IInv, TypeOK
  <2>1. Ordered(data)'
    BY <1>4, <2>0 DEF InOrder, Ordered
  <2>2. CASE cur = None
    <3>1. msgs' = [i \in 1..Len(temp) |-> temp[i].msg]
      BY <1>4, <2>2 DEF GcRename, MsgOf
    <3>2. Len(msgs') = Len(temp)
      BY <2>0, <3>1
    <3> QED
      BY <1>4, <2>0, <2>1, <3>1, <3>2 DEF InOrder, Ordered
  <2>3. CASE cur # None
    <3>1. NamesIn(temp) \subseteq durable
      BY <1>4, <2>0, <2>3 DEF IInv, Managed, NamesIn
    <3>2. msgs' = msgs
      BY <1>4, <2>0, <2>3, <3>1, ConcatEmptySeq DEF GcRename, Unmanaged
    <3> QED
      BY <1>4, <2>0, <2>1, <3>2 DEF InOrder
  <2> QED
    BY <2>2, <2>3
<1> QED
  BY <1>1, <1>2, <1>3, <1>4

LEMMA LoseInOrder == InOrder /\ (ClearData \/ ClearTemp \/ Crash) => InOrder'
BY DEF ClearData, ClearTemp, Crash, Forget, memory, history, file, InOrder, Ordered

LEMMA NextInOrder == IInv /\ InOrder /\ [Next]_vars => InOrder'
<1>1. InOrder /\ UNCHANGED vars => InOrder'
  BY DEF vars, InOrder, Ordered
<1> QED
  BY <1>1, InsertInOrder, UseInOrder, GcInOrder, LoseInOrder
     DEF Next, Operation, Continue

\* First accepted, first pushed: through collections and restarts the queue in
\* memory keeps the order of acceptance, and no message is in it twice or while
\* it waits for its ack (Message.hpp:247, :274-300, :347-366).
THEOREM MsgsAlwaysInOrder == ASSUME Addressable PROVE Spec => []MsgsInOrder
<1>1. Init => InOrder
  BY InitInOrder
<1>2. IInv /\ InOrder /\ [Next]_vars => InOrder'
  BY NextInOrder
<1>3. IInv /\ InOrder => MsgsInOrder
  <2> SUFFICES ASSUME IInv, InOrder PROVE MsgsInOrder
    OBVIOUS
  <2>1. DOMAIN msgs = 1..Len(msgs)
    BY LenProperties DEF IInv, TypeOK
  <2>2. InMsgs \cap waitack \cap Msgs = {}
    BY <2>1 DEF IInv, Memory, InMsgs, Range
  <2> QED
    BY <2>1, <2>2 DEF InOrder, MsgsInOrder
<1> QED
  BY <1>1, <1>2, <1>3, AlwaysIInv, PTL DEF Spec

-----------------------------------------------------------------------------
(* The counts and the amount of garbage. *)

\* The valid slots of a file are finitely many.
LEMMA ValidSlotsFinite ==
  ASSUME NEW f \in Seq(Record)
  PROVE  /\ ValidSlots(f) = {i \in 1..Len(f) : f[i].valid}
         /\ IsFiniteSet(ValidSlots(f)) /\ Cardinality(ValidSlots(f)) \in Nat
         /\ Cardinality(ValidSlots(f)) <= Len(f)
<1>1. DOMAIN f = 1..Len(f) /\ Len(f) \in Nat
  BY LenProperties
<1>2. ValidSlots(f) \in SUBSET (1..Len(f))
  BY <1>1 DEF ValidSlots
<1>3. IsFiniteSet(1..Len(f)) /\ Cardinality(1..Len(f)) = Len(f)
  BY <1>1, FS_Interval
<1>4. IsFiniteSet(ValidSlots(f)) /\ Cardinality(ValidSlots(f)) <= Len(f)
  BY <1>2, <1>3, FS_Subset
<1> QED
  BY <1>1, <1>4, FS_CardinalityType DEF ValidSlots

\* Appending a valid record adds one valid slot, voiding one takes one away,
\* and in a file without void records all slots are valid.
LEMMA ValidSlotsAppend ==
  ASSUME NEW f \in Seq(Record), NEW r \in Record, r.valid
  PROVE  Cardinality(ValidSlots(Append(f, r))) = Cardinality(ValidSlots(f)) + 1
<1> DEFINE g == Append(f, r)
<1>1. /\ g \in Seq(Record) /\ Len(g) = Len(f) + 1 /\ Len(f) \in Nat
      /\ \A i \in 1..Len(f) : g[i] = f[i]
      /\ g[Len(f) + 1] = r
  BY AppendProperties, LenProperties
<1> HIDE DEF g
<1>2. ValidSlots(g) = ValidSlots(f) \cup {Len(f) + 1}
  <2>1. \A i : i \in 1..Len(g) <=> i \in 1..Len(f) \/ i = Len(f) + 1
    BY <1>1
  <2> QED
    BY <1>1, <2>1, ValidSlotsFinite
<1>3. Len(f) + 1 \notin ValidSlots(f)
  BY <1>1, ValidSlotsFinite
<1> QED
  BY <1>2, <1>3, ValidSlotsFinite, FS_AddElement DEF g

LEMMA ValidSlotsVoid ==
  ASSUME NEW f \in Seq(Record), NEW k \in 1..Len(f), f[k].valid,
         NEW r \in Record, ~r.valid
  PROVE  Cardinality(ValidSlots([f EXCEPT ![k] = r])) = Cardinality(ValidSlots(f)) - 1
<1> DEFINE g == [f EXCEPT ![k] = r]
<1>1. /\ g \in Seq(Record) /\ Len(g) = Len(f)
      /\ \A i \in 1..Len(f) : g[i] = IF i = k THEN r ELSE f[i]
  BY ExceptSeq
<1> HIDE DEF g
<1>2. ValidSlots(g) = ValidSlots(f) \ {k} /\ k \in ValidSlots(f)
  BY <1>1, ValidSlotsFinite
<1> QED
  BY <1>2, ValidSlotsFinite, FS_RemoveElement DEF g

LEMMA ValidSlotsAll ==
  ASSUME NEW f \in Seq(Record), \A i \in 1..Len(f) : f[i].valid
  PROVE  Cardinality(ValidSlots(f)) = Len(f)
<1>1. ValidSlots(f) = 1..Len(f)
  BY ValidSlotsFinite
<1>2. Len(f) \in Nat
  BY LenProperties
<1>3. Cardinality(1..Len(f)) = Len(f)
  BY <1>2, FS_Interval
<1> QED
  BY <1>1, <1>3

\* When an ack starts no collection, the void records are within the threshold
\* or no more than the valid ones.
LEMMA NotDueIsBounded ==
  ASSUME NEW valid \in Nat, NEW total \in Nat, ~GcDue(valid, total)
  PROVE  total - valid <= GcMinTotal \/ total - valid <= valid
<1>1. CASE total <= GcMinTotal
  BY <1>1, StoreAssumption
<1>2. CASE total > GcMinTotal
  <2>1. /\ total \in Nat \ {0} /\ ~((valid * 10) \div total < 5)
    BY <1>2, StoreAssumption DEF GcDue
  <2> DEFINE q == (valid * 10) \div total
  <2>2. q \in Int /\ q * total <= valid * 10 /\ q >= 5
    BY <2>1
  <2> HIDE DEF q
  <2>3. 5 * total <= q * total
    BY <2>1, <2>2
  <2> QED
    BY <2>1, <2>2, <2>3
<1> QED
  BY <1>1, <1>2, StoreAssumption

LEMMA InitCounted == Init => Counted
BY DEF Init, Counted

LEMMA InsertCounted ==
  IInv /\ Counted
    /\ (InsertPayload \/ \E m \in Msgs : InsertHeader(m) \/ InsertTransient(m))
  => Counted'
<1> USE StoreAssumption
<1>0. ASSUME IInv
      PROVE  /\ data \in Seq(Record) /\ Len(data) \in Nat
             /\ validCount \in Int /\ totalCount \in Int
             /\ Cardinality(ValidSlots(data)) \in Nat
  BY <1>0, LenProperties, ValidSlotsFinite DEF IInv, TypeOK
<1>1. ASSUME IInv, Counted, NEW m \in Msgs, InsertTransient(m) PROVE Counted'
  BY <1>1 DEF InsertTransient, file, control, Counted, ValidSlots
<1>2. ASSUME IInv, Counted, NEW m \in Msgs, InsertHeader(m) PROVE Counted'
  <2>0. /\ pc = "idle" /\ pc' = "payload" /\ data' = Append(data, Valid(Phantom))
        /\ UNCHANGED <<validCount, totalCount>>
    BY <1>2 DEF InsertHeader, memory
  <2>1. Valid(Phantom) \in Record /\ Valid(Phantom).valid
    BY RecordType DEF Names
  <2>2. /\ Len(data') = Len(data) + 1
        /\ Cardinality(ValidSlots(data')) = Cardinality(ValidSlots(data)) + 1
    BY <1>0, <1>2, <2>0, <2>1, AppendProperties, ValidSlotsAppend
  <2>3. Cardinality(ValidSlots(data))' = Cardinality(ValidSlots(data'))
    BY DEF ValidSlots
  <2> QED
    BY <1>0, <1>2, <2>0, <2>2, <2>3 DEF Counted
<1>3. ASSUME IInv, Counted, InsertPayload PROVE Counted'
  <2>0. /\ cur \in Msgs /\ cur \in Names /\ Len(data) \in 1..Len(data)
        /\ data[Len(data)] = Valid(Phantom)
        /\ data' = [data EXCEPT ![Len(data)] = Valid(cur)]
        /\ pc = "payload" /\ pc' = "idle"
        /\ validCount' = validCount + 1 /\ totalCount' = totalCount + 1
    BY <1>3, <1>0 DEF IInv, Current, InsertPayload, Names
  <2>1. /\ Valid(cur) \in Record /\ Valid(cur).valid = TRUE
        /\ Valid(Phantom).valid = TRUE
    BY <2>0, RecordType DEF Names
  <2>2. /\ Len(data') = Len(data) /\ data' \in Seq(Record)
        /\ \A i \in 1..Len(data) : data'[i] = IF i = Len(data) THEN Valid(cur) ELSE data[i]
    BY <1>3, <1>0, <2>0, <2>1, ExceptSeq
  <2>3. ValidSlots(data') = ValidSlots(data)
    <3>1. \A i \in 1..Len(data) : data'[i].valid <=> data[i].valid
      BY <2>0, <2>1, <2>2
    <3>2. /\ ValidSlots(data) = {i \in 1..Len(data) : data[i].valid}
          /\ ValidSlots(data') = {i \in 1..Len(data') : data'[i].valid}
      BY <1>3, <1>0, <2>2, ValidSlotsFinite
    <3> QED
      BY <2>2, <3>1, <3>2
  <2>4. Cardinality(ValidSlots(data))' = Cardinality(ValidSlots(data))
    BY <2>3 DEF ValidSlots
  <2> QED
    BY <1>0, <1>3, <2>0, <2>2, <2>4 DEF Counted
<1> QED
  BY <1>1, <1>2, <1>3

LEMMA UseCounted ==
  IInv /\ Counted
    /\ (Front \/ (\E m \in Names : AckTransient(m)) \/ \E m \in Msgs : AckDurable(m))
  => Counted'
<1> USE StoreAssumption
<1>1. ASSUME Counted, Front PROVE Counted'
  BY <1>1 DEF Front, file, control, Counted, ValidSlots
<1>2. ASSUME Counted, NEW m \in Names, AckTransient(m) PROVE Counted'
  BY <1>2 DEF AckTransient, file, control, Counted, ValidSlots
<1>3. ASSUME IInv, Counted, NEW m \in Msgs, AckDurable(m) PROVE Counted'
  <2>0. /\ pc = "idle" /\ data \in Seq(Record) /\ m \in Names /\ m # None
        /\ validCount' = validCount - 1 /\ totalCount' = totalCount
        /\ data' = [data EXCEPT ![off[m] + 1] = Void(m)]
        /\ \/ pc' = "copy"
           \/ pc' = "idle" /\ ~GcDue(validCount - 1, totalCount)
    BY <1>3 DEF AckDurable, OverwriteVoid, IInv, TypeOK, control, Names
  <2>1. /\ off[m] + 1 \in 1..Len(data) /\ data[off[m] + 1] = Valid(m)
    BY <1>3, <2>0 DEF IInv, Managed, Memory, Current, AckDurable
  <2>2. Void(m) \in Record /\ Void(m).valid = FALSE /\ Valid(m).valid = TRUE
    BY <2>0, RecordType
  <2>3. /\ Len(data') = Len(data) /\ data' \in Seq(Record) /\ Len(data) \in Nat
        /\ Cardinality(ValidSlots(data')) = Cardinality(ValidSlots(data)) - 1
        /\ Cardinality(ValidSlots(data')) \in Nat
    <3>1. Len(data') = Len(data) /\ data' \in Seq(Record) /\ Len(data) \in Nat
      BY <2>0, <2>1, <2>2, ExceptSeq, LenProperties
    <3>2. Cardinality(ValidSlots(data')) = Cardinality(ValidSlots(data)) - 1
      BY <2>0, <2>1, <2>2, ValidSlotsVoid
    <3> QED
      BY <3>1, <3>2, ValidSlotsFinite
  <2>4. totalCount = Len(data) /\ validCount = Cardinality(ValidSlots(data))
    BY <1>3, <2>0 DEF Counted
  <2>5. Cardinality(ValidSlots(data))' = Cardinality(ValidSlots(data'))
    BY DEF ValidSlots
  <2>6. CASE pc' = "copy"
    BY <2>6 DEF Counted
  <2>7. CASE pc' = "idle" /\ ~GcDue(validCount - 1, totalCount)
    <3>1. validCount - 1 \in Nat /\ totalCount \in Nat
      BY <2>3, <2>4, ValidSlotsFinite, <2>0
    <3>2. \/ totalCount - (validCount - 1) <= GcMinTotal
          \/ totalCount - (validCount - 1) <= validCount - 1
      BY <2>7, <3>1, NotDueIsBounded
    <3> QED
      BY <2>0, <2>3, <2>4, <2>5, <2>7, <3>2 DEF Counted
  <2> QED
    BY <2>0, <2>6, <2>7
<1> QED
  BY <1>1, <1>2, <1>3

LEMMA OtherCounted ==
  IInv /\ Counted
    /\ (Boot \/ GcCopy \/ GcUnlink \/ GcRename \/ ClearData \/ ClearTemp \/ Crash)
  => Counted'
<1>1. ASSUME Boot \/ GcCopy \/ GcUnlink \/ ClearData \/ ClearTemp \/ Crash
      PROVE  Counted'
  BY <1>1 DEF Boot, GcCopy, GcUnlink, ClearData, ClearTemp, Crash, Counted
<1>2. ASSUME IInv, GcRename PROVE Counted'
  <2>1. /\ temp \in Seq(Record) /\ \A i \in 1..Len(temp) : temp[i].valid
        /\ pc' = "idle" /\ data' = temp
        /\ validCount' = Len(temp) /\ totalCount' = Len(temp) /\ Len(temp) \in Nat
    BY <1>2, LenProperties DEF GcRename, IInv, TypeOK, Renaming
  <2>2. Cardinality(ValidSlots(temp)) = Len(temp)
    BY <2>1, ValidSlotsAll
  <2>3. Cardinality(ValidSlots(data))' = Cardinality(ValidSlots(data'))
    BY DEF ValidSlots
  <2> QED
    BY <2>1, <2>2, <2>3, StoreAssumption DEF Counted
<1> QED
  BY <1>1, <1>2

LEMMA AlwaysCounted == ASSUME Addressable PROVE Spec => [](IInv /\ Counted)
<1>1. Init => Counted
  BY InitCounted
<1>2. IInv /\ Counted /\ [Next]_vars => Counted'
  <2>1. Counted /\ UNCHANGED vars => Counted'
    BY DEF vars, Counted, ValidSlots
  <2> QED
    BY <2>1, InsertCounted, UseCounted, OtherCounted DEF Next, Operation, Continue
<1> QED
  BY <1>1, <1>2, AlwaysIInv, PTL DEF Spec

\* _valid_count and _total_count are the numbers of records in the data file,
\* also after a restart that found headers without a payload, so that the
\* decision to collect is made on the truth (Message.hpp:240, :265, :283, :365).
THEOREM CountsAlwaysMatch == ASSUME Addressable PROVE Spec => []CountsMatchFile
<1>1. Counted => CountsMatchFile
  BY DEF Counted, CountsMatchFile
<1> QED
  BY <1>1, AlwaysCounted, PTL

\* garbageCollectionCheck() keeps the garbage in bounds: void records never
\* outnumber both the threshold and the valid ones (Message.hpp:335-342).
THEOREM GarbageAlwaysBounded == ASSUME Addressable PROVE Spec => []GarbageIsBounded
<1>1. IInv /\ Counted => GarbageIsBounded
  BY DEF Counted, GarbageIsBounded
<1> QED
  BY <1>1, AlwaysCounted, PTL

-----------------------------------------------------------------------------
(* The store implements AtLeastOnceQueue: one lemma per action that changes  *)
(* the abstract state; all the others are stuttering steps.                  *)

Persistent == {m \in Msgs : IsDurable(m)}
Inflight == (waitack \cap Msgs) \ settled

LEMMA InsertRefines ==
  IInv /\ Cleared /\ (InsertPayload \/ \E m \in Msgs : InsertTransient(m))
    => (\E m \in Msgs : AtLeastOnce!Accept(m)) /\ Cleared'
<1>1. ASSUME NEW m \in Msgs, InsertTransient(m)
      PROVE  AtLeastOnce!Accept(m) /\ Cleared'
  BY <1>1 DEF InsertTransient, Accept, control, AtLeastOnce!Accept, Cleared
<1>2. ASSUME IInv, InsertPayload
      PROVE  cur \in Msgs /\ AtLeastOnce!Accept(cur) /\ Cleared'
  <2>1. cur \in Msgs /\ stamp[cur] = 0
    BY <1>2 DEF InsertPayload, IInv, Current
  <2> QED
    BY <1>2, <2>1 DEF InsertPayload, Accept, AtLeastOnce!Accept, Cleared
<1> QED
  BY <1>1, <1>2

\* The first message in memory is the oldest one that waits: all that wait are
\* in memory (Kept), in order (InOrder).  A phantom is no message.
LEMMA FrontRefines ==
  IInv /\ Kept /\ InOrder /\ Front =>
    (\E m \in Msgs : AtLeastOnce!Deliver(m)) \/ UNCHANGED AtLeastOnce!vars
<1> SUFFICES ASSUME IInv, Kept, InOrder, Front
             PROVE  (\E m \in Msgs : AtLeastOnce!Deliver(m)) \/ UNCHANGED AtLeastOnce!vars
  OBVIOUS
<1> DEFINE m == Head(msgs)
<1>1. /\ msgs \in Seq(Names) /\ Len(msgs) \in Nat /\ 1 \in 1..Len(msgs) /\ m = msgs[1]
      /\ m \in Names
  BY HeadTailProperties, LenProperties, EmptySeq DEF Front, IInv, TypeOK
<1>2. /\ pc = "idle" /\ waitack' = waitack \cup {m}
      /\ UNCHANGED <<clock, stamp, settled>>
  BY DEF Front, history
<1>3. CASE m \notin Msgs
  BY <1>2, <1>3 DEF AtLeastOnce!vars
<1>4. CASE m \in Msgs
  <2>1. stamp[m] > 0 /\ m \notin waitack /\ m \notin settled
    BY <1>1, <1>2, <1>4 DEF IInv, Memory
  <2>2. m \in AtLeastOnce!Waiting
    BY <1>4, <2>1 DEF AtLeastOnce!Waiting, AtLeastOnce!Accepted
  <2>3. ASSUME NEW n \in AtLeastOnce!Waiting
        PROVE  stamp[m] <= stamp[n]
    <3>1. n \in Live /\ n \in Msgs /\ n \notin waitack
      BY DEF AtLeastOnce!Waiting, AtLeastOnce!Accepted, Live, Accepted
    <3>2. PICK i \in 1..Len(msgs) : msgs[i] = n
      BY <1>2, <3>1 DEF Kept, InUse
    <3>3. stamp[m] \in Nat /\ stamp[n] \in Nat
      BY <1>4, <3>1 DEF IInv, TypeOK
    <3>4. i # 1 => stamp[m] < stamp[n]
      BY <1>1, <1>4, <3>1, <3>2 DEF InOrder
    <3> QED
      BY <1>1, <3>2, <3>3, <3>4
  <2>4. Inflight' = Inflight \cup {m}
    BY <1>2, <1>4, <2>1 DEF Inflight
  <2> QED
    BY <1>2, <1>4, <2>2, <2>3, <2>4 DEF AtLeastOnce!Deliver, Inflight
<1> QED
  BY <1>3, <1>4

\* An ack settles its message; the collection it may start, in which the
\* message still waits in memory, does not bring it back.
LEMMA AckRefines ==
  IInv /\ ((\E m \in Names : AckTransient(m)) \/ \E m \in Msgs : AckDurable(m)) =>
    (\E m \in Msgs : AtLeastOnce!Settle(m)) \/ UNCHANGED AtLeastOnce!vars
<1>1. ASSUME NEW m \in Msgs, m \in waitack, UNCHANGED <<clock, stamp>>,
             settled' = settled \cup {m},
             waitack' = waitack \/ waitack' = waitack \ {m}
      PROVE  AtLeastOnce!Settle(m) \/ UNCHANGED AtLeastOnce!vars
  <2>1. Inflight' = Inflight \ {m}
    BY <1>1 DEF Inflight
  <2>2. CASE m \in settled
    <3>1. settled' = settled /\ Inflight' = Inflight
      BY <1>1, <2>1, <2>2 DEF Inflight
    <3> QED
      BY <1>1, <3>1 DEF AtLeastOnce!vars, Inflight
  <2>3. CASE m \notin settled
    <3>1. m \in Inflight
      BY <1>1, <2>3 DEF Inflight
    <3> QED
      BY <1>1, <2>1, <3>1 DEF AtLeastOnce!Settle, Inflight
  <2> QED
    BY <2>2, <2>3
<1>2. ASSUME NEW m \in Names, AckTransient(m)
      PROVE  (\E n \in Msgs : AtLeastOnce!Settle(n)) \/ UNCHANGED AtLeastOnce!vars
  <2>1. CASE m \in Msgs
    BY <1>1, <1>2, <2>1 DEF AckTransient
  <2>2. CASE m \notin Msgs
    BY <1>2, <2>2 DEF AckTransient, AtLeastOnce!vars
  <2> QED
    BY <2>1, <2>2
<1>3. ASSUME NEW m \in Msgs, AckDurable(m)
      PROVE  AtLeastOnce!Settle(m) \/ UNCHANGED AtLeastOnce!vars
  BY <1>1, <1>3 DEF AckDurable
<1> QED
  BY <1>2, <1>3

\* The end of a collection forgets a message that is settled already.
LEMMA GcRefines ==
  IInv /\ (Boot \/ (\E m \in Msgs : InsertHeader(m)) \/ GcCopy \/ GcUnlink \/ GcRename)
    => UNCHANGED AtLeastOnce!vars
<1>1. ASSUME Boot \/ (\E m \in Msgs : InsertHeader(m)) \/ GcCopy \/ GcUnlink
      PROVE  UNCHANGED AtLeastOnce!vars
  BY <1>1 DEF Boot, InsertHeader, GcCopy, GcUnlink, memory, history, AtLeastOnce!vars
<1>2. ASSUME IInv, GcRename PROVE UNCHANGED AtLeastOnce!vars
  <2>1. /\ waitack' = waitack \ {cur} /\ UNCHANGED <<clock, stamp, settled>>
        /\ cur \notin Msgs \/ cur \in settled
    BY <1>2, StoreAssumption DEF GcRename, history, IInv, Current
  <2>2. Inflight' = Inflight
    BY <2>1 DEF Inflight
  <2> QED
    BY <2>1, <2>2 DEF AtLeastOnce!vars, Inflight
<1> QED
  BY <1>1, <1>2

\* The deletion of the queue settles all messages in its first step.
LEMMA ClearRefines ==
  IInv /\ Cleared /\ (ClearData \/ ClearTemp)
    => (AtLeastOnce!Delete \/ UNCHANGED AtLeastOnce!vars) /\ Cleared'
<1>0. ASSUME IInv PROVE waitack \cap Msgs \subseteq Accepted
  BY <1>0 DEF IInv, Memory, Accepted
<1>1. ASSUME IInv, ClearData PROVE AtLeastOnce!Delete /\ Cleared'
  <2>1. /\ settled' = settled \cup Accepted /\ UNCHANGED <<clock, stamp, waitack>>
        /\ Accepted' = Accepted
    BY <1>1 DEF ClearData, memory, Accepted
  <2>2. Inflight' = {}
    BY <1>1, <1>0, <2>1 DEF Inflight
  <2>3. AtLeastOnce!Accepted = Accepted
    BY DEF AtLeastOnce!Accepted, Accepted
  <2> QED
    BY <2>1, <2>2, <2>3 DEF AtLeastOnce!Delete, Cleared, Inflight
<1>2. ASSUME IInv, Cleared, ClearTemp PROVE UNCHANGED AtLeastOnce!vars /\ Cleared'
  <2>1. /\ waitack' = {} /\ pc' = "down" /\ UNCHANGED <<clock, stamp, settled>>
    BY <1>2 DEF ClearTemp, Forget, history
  <2>2. Inflight' = Inflight
    BY <1>2, <1>0, <2>1 DEF ClearTemp, Cleared, Inflight
  <2> QED
    BY <2>1, <2>2 DEF AtLeastOnce!vars, Cleared, Inflight
<1> QED
  BY <1>1, <1>2

LEMMA CrashRefines == Crash => AtLeastOnce!Restart /\ Cleared'
<1> SUFFICES ASSUME Crash PROVE AtLeastOnce!Restart /\ Cleared'
  OBVIOUS
<1>1. /\ settled' = settled \cup {m \in Accepted : ~IsDurable(m)} /\ waitack' = {}
      /\ UNCHANGED <<clock, stamp>> /\ pc' = "down"
  BY DEF Crash, Forget
<1>2. {m \in Accepted : ~IsDurable(m)} = AtLeastOnce!Accepted \ Persistent
  BY DEF AtLeastOnce!Accepted, Accepted, Persistent
<1> QED
  BY <1>1, <1>2 DEF AtLeastOnce!Restart, Cleared, Persistent

LEMMA NextRefines ==
  IInv /\ Kept /\ InOrder /\ Cleared /\ [Next]_vars
    => [AtLeastOnce!Next]_(AtLeastOnce!vars) /\ Cleared'
<1>1. ASSUME UNCHANGED vars, Cleared
      PROVE  UNCHANGED AtLeastOnce!vars /\ Cleared'
  BY <1>1 DEF vars, AtLeastOnce!vars, Cleared, Accepted
<1>2. ASSUME Cleared,
             \/ Boot \/ GcCopy \/ GcUnlink \/ GcRename \/ Front
             \/ (\E m \in Msgs : InsertHeader(m) \/ AckDurable(m))
             \/ (\E m \in Names : AckTransient(m))
      PROVE  Cleared'
  BY <1>2 DEF Boot, GcCopy, GcUnlink, GcRename, Front, InsertHeader, AckDurable,
     AckTransient, control, Cleared
<1> QED
  BY <1>1, <1>2, InsertRefines, FrontRefines, AckRefines, GcRefines, ClearRefines,
     CrashRefines DEF Next, Operation, Continue, AtLeastOnce!Next

\* The store is an at-least-once queue: whatever order inserts, pushes, acks,
\* collections, deletions and kills come in, messages are pushed oldest first,
\* again after a restart, none that is durable is lost and none that was
\* settled comes back.
THEOREM StoreImplementsQueue ==
  ASSUME Addressable, NoCrashInWindow PROVE Spec => ImplementsAtLeastOnce
<1>1. Init => InOrder /\ Cleared /\ AtLeastOnce!Init
  BY InitInOrder DEF Init, Cleared, AtLeastOnce!Init
<1>2. IInv /\ InOrder /\ [Next]_vars => InOrder'
  BY NextInOrder
<1>3. IInv /\ Kept /\ InOrder /\ Cleared /\ [Next]_vars
        => [AtLeastOnce!Next]_(AtLeastOnce!vars) /\ Cleared'
  BY NextRefines
<1> QED
  BY <1>1, <1>2, <1>3, AlwaysKept, PTL
     DEF Spec, ImplementsAtLeastOnce, AtLeastOnce!Spec

-----------------------------------------------------------------------------
(* What is not in the queue: a header whose payload never came.  Killed     *)
(* between the two writes the server does push one (run store_phantom);     *)
(* whatever else happens it does not.                                       *)

NoCrashInInsert == "payload" \notin CrashPoints

Whole(f) == \A i \in 1..Len(f) : f[i].msg # Phantom

Genuine ==
  /\ Whole(temp)
  /\ pc # "payload" => Whole(data)
  /\ pc = "payload" => \A i \in 1..(Len(data) - 1) : data[i].msg # Phantom
  /\ \A i \in 1..Len(msgs) : msgs[i] # Phantom

LEMMA InitGenuine == Init => Genuine
BY DEF Init, Genuine, Whole

LEMMA AppendWhole ==
  ASSUME NEW f \in Seq(Record), NEW r \in Record, Whole(f), r.msg # Phantom
  PROVE  Whole(Append(f, r))
<1>1. /\ Len(Append(f, r)) = Len(f) + 1 /\ Len(f) \in Nat
      /\ \A i \in 1..Len(f) : Append(f, r)[i] = f[i]
      /\ Append(f, r)[Len(f) + 1] = r
  BY AppendProperties, LenProperties
<1> QED
  BY <1>1 DEF Whole

\* A message joins the queue with its own name.
LEMMA AppendGenuine ==
  ASSUME TypeOK, Genuine, NEW m \in Msgs, msgs' = Append(msgs, m)
  PROVE  \A i \in 1..Len(msgs') : msgs'[i] # Phantom
<1>1. msgs \in Seq(Names) /\ m \in Names /\ m # Phantom
  BY StoreAssumption DEF TypeOK, Names
<1>2. /\ Len(msgs') = Len(msgs) + 1 /\ Len(msgs) \in Nat
      /\ \A i \in 1..Len(msgs) : msgs'[i] = msgs[i]
      /\ msgs'[Len(msgs) + 1] = m
  BY <1>1, AppendProperties, LenProperties
<1> QED
  BY <1>1, <1>2 DEF Genuine

LEMMA InsertGenuine ==
  ASSUME IInv, Genuine,
         (\E m \in Msgs : InsertTransient(m) \/ InsertHeader(m)) \/ InsertPayload
  PROVE  Genuine'
<1>0. TypeOK /\ data \in Seq(Record) /\ Len(data) \in Nat
  BY LenProperties DEF IInv, TypeOK
<1>1. ASSUME NEW m \in Msgs, InsertTransient(m) PROVE Genuine'
  <2>1. \A i \in 1..Len(msgs') : msgs'[i] # Phantom
    BY <1>0, <1>1, AppendGenuine DEF InsertTransient
  <2> QED
    BY <1>1, <2>1 DEF InsertTransient, Genuine, Whole, file, control
<1>2. ASSUME NEW m \in Msgs, InsertHeader(m) PROVE Genuine'
  <2>1. Valid(Phantom) \in Record
    BY RecordType DEF Names
  <2>2. Len(data') = Len(data) + 1 /\ \A i \in 1..Len(data) : data'[i] = data[i]
    BY <1>0, <1>2, <2>1, AppendProperties DEF InsertHeader
  <2>3. \A i \in 1..(Len(data') - 1) : data'[i].msg # Phantom
    BY <1>0, <1>2, <2>2 DEF InsertHeader, Genuine, Whole
  <2> QED
    BY <1>2, <2>3 DEF InsertHeader, Genuine, Whole, memory
<1>3. ASSUME InsertPayload PROVE Genuine'
  <2>1. cur \in Msgs /\ pc = "payload" /\ Valid(cur).msg = cur /\ cur # Phantom
    BY <1>3, RecordType, StoreAssumption DEF InsertPayload, IInv, Current, Names
  <2>2. \A i \in 1..Len(msgs') : msgs'[i] # Phantom
    BY <1>0, <1>3, <2>1, AppendGenuine DEF InsertPayload
  <2>3. /\ Len(data') = Len(data)
        /\ \A i \in 1..Len(data) : data'[i] = IF i = Len(data) THEN Valid(cur) ELSE data[i]
    BY <1>0, <1>3 DEF InsertPayload
  <2>4. Whole(data')
    BY <1>0, <2>1, <2>3 DEF Genuine, Whole
  <2> QED
    BY <1>3, <2>2, <2>4 DEF InsertPayload, Genuine
<1> QED
  BY <1>1, <1>2, <1>3

LEMMA UseGenuine ==
  ASSUME IInv, Genuine,
         Front \/ (\E m \in Names : AckTransient(m)) \/ (\E m \in Msgs : AckDurable(m))
  PROVE  Genuine'
<1>0. msgs \in Seq(Names) /\ data \in Seq(Record) /\ Len(data) \in Nat
  BY LenProperties DEF IInv, TypeOK
<1>1. CASE Front
  <2>1. /\ Len(msgs') = Len(msgs) - 1 /\ Len(msgs) \in Nat
        /\ \A i \in 1..Len(msgs') : msgs'[i] = msgs[i + 1]
    BY <1>0, <1>1, HeadTailProperties, LenProperties DEF Front
  <2>2. \A i \in 1..Len(msgs') : msgs'[i] # Phantom
    BY <2>1 DEF Genuine
  <2> QED
    BY <1>1, <2>2 DEF Front, Genuine, Whole, file, control
<1>2. ASSUME NEW m \in Names, AckTransient(m) PROVE Genuine'
  BY <1>2 DEF AckTransient, Genuine, Whole, file, control
<1>3. ASSUME NEW m \in Msgs, AckDurable(m) PROVE Genuine'
  <2>1. Void(m).msg # Phantom
    <3>1. m \in Names /\ m # Phantom
      BY StoreAssumption DEF Names
    <3>2. Void(m).msg = m
      BY DEF Void
    <3> QED
      BY <3>1, <3>2
  <2>2. data' = [data EXCEPT ![off[m] + 1] = Void(m)] /\ pc = "idle" /\ msgs' = msgs
    BY <1>3 DEF AckDurable, OverwriteVoid
  <2>3. Len(data') = Len(data) /\ \A i \in 1..Len(data) : data'[i] \in {data[i], Void(m)}
    BY <1>0, <2>2
  <2>4. Whole(data')
    BY <2>1, <2>2, <2>3 DEF Genuine, Whole
  <2>5. Whole(temp') /\ pc' # "payload"
    BY <1>3, <2>2, EmptySeq DEF AckDurable, Genuine, Whole, control
  <2> QED
    BY <2>2, <2>4, <2>5 DEF Genuine
<1> QED
  BY <1>1, <1>2, <1>3

LEMMA GcGenuine ==
  ASSUME IInv, Genuine, Boot \/ GcCopy \/ GcUnlink \/ GcRename
  PROVE  Genuine'
<1>0. /\ data \in Seq(Record) /\ temp \in Seq(Record) /\ msgs \in Seq(Names)
      /\ Len(data) \in Nat /\ Len(temp) \in Nat /\ ci \in Nat \ {0}
  BY LenProperties DEF IInv, TypeOK
<1>1. CASE Boot
  BY <1>1, EmptySeq DEF Boot, memory, Genuine, Whole
<1>2. CASE GcCopy
  <2>1. ci \in 1..Len(data) /\ data[ci] \in Record /\ data[ci].msg # Phantom
    BY <1>0, <1>2, ElementOfSeq DEF GcCopy, Genuine, Whole
  <2>2. Whole(temp')
    BY <1>0, <1>2, <2>1, AppendWhole DEF GcCopy, Genuine
  <2> QED
    BY <1>2, <2>2 DEF GcCopy, memory, Genuine, Whole
<1>3. CASE GcUnlink
  BY <1>3, EmptySeq DEF GcUnlink, memory, Genuine, Whole
<1>4. CASE GcRename
  <2>1. CASE cur = None
    <3>1. msgs' = [i \in 1..Len(temp) |-> temp[i].msg]
      BY <1>4, <2>1 DEF GcRename, MsgOf
    <3>2. Len(msgs') = Len(temp) /\ \A i \in 1..Len(temp) : msgs'[i] = temp[i].msg
      BY <1>0, <3>1
    <3>3. \A i \in 1..Len(msgs') : msgs'[i] # Phantom
      BY <3>2 DEF Genuine, Whole
    <3> QED
      BY <1>4, <3>3, EmptySeq DEF GcRename, Genuine, Whole
  <2>2. CASE cur # None
    <3>1. NamesIn(temp) \subseteq durable
      BY <1>0, <1>4, <2>2, LenProperties DEF GcRename, IInv, Managed, NamesIn
    <3>2. msgs' = msgs
      BY <1>0, <1>4, <2>2, <3>1, ConcatEmptySeq DEF GcRename, Unmanaged
    <3> QED
      BY <1>4, <3>2, EmptySeq DEF GcRename, Genuine, Whole
  <2> QED
    BY <2>1, <2>2
<1> QED
  BY <1>1, <1>2, <1>3, <1>4

LEMMA LoseGenuine ==
  ASSUME NoCrashInInsert, Genuine, ClearData \/ ClearTemp \/ Crash
  PROVE  Genuine'
<1>1. pc # "payload" /\ pc' # "payload"
  BY DEF ClearData, ClearTemp, Crash, NoCrashInInsert
<1>2. Whole(<<>>) /\ \A i \in 1..Len(<<>>) : <<>>[i] # Phantom
  BY EmptySeq DEF Whole
<1>3. /\ msgs' = msgs \/ msgs' = <<>>
      /\ data' = data \/ data' = <<>>
      /\ temp' = temp \/ temp' = <<>>
  BY DEF ClearData, ClearTemp, Crash, Forget, memory, file
<1> QED
  BY <1>1, <1>2, <1>3 DEF Genuine, Whole

\* Only what was published is ever in the queue, recovered or not, unless the
\* process is killed between the two writes of an insert.
THEOREM OnlyPublishedUnlessTorn ==
  ASSUME Addressable, NoCrashInInsert PROVE Spec => []OnlyPublishedIsPushed
<1>1. IInv /\ Genuine /\ [Next]_vars => Genuine'
  <2>1. Genuine /\ UNCHANGED vars => Genuine'
    BY DEF Genuine, Whole, vars
  <2> QED
    BY <2>1, InsertGenuine, UseGenuine, GcGenuine, LoseGenuine DEF Next, Operation, Continue
<1>2. IInv /\ Genuine => OnlyPublishedIsPushed
  <2>1. IInv => DOMAIN msgs = 1..Len(msgs)
    BY LenProperties DEF IInv, TypeOK
  <2> QED
    BY <2>1 DEF Genuine, OnlyPublishedIsPushed, InMsgs, Range
<1> QED
  BY <1>1, <1>2, InitGenuine, AlwaysIInv, PTL DEF Spec
=============================================================================
