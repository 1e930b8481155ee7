---------------------------- MODULE DeliveryProofs ----------------------------
(***************************************************************************)
(* Proofs about Delivery, for every number of connections, channels,       *)
(* workers, messages and consumer tags.                                    *)
(*                                                                         *)
(* Custody is about messages: one that was taken from the queue never      *)
(* comes back to it, so the workers that have one in their hands have      *)
(* different ones, none of which was sent.  Registry is about consumers:   *)
(* a consumer that is registered is the one its channel was told it has    *)
(* and the one ~Channel will remove, which is why removing by tag removes  *)
(* the right one.  Turns is about the counter of the round robin: the      *)
(* consumers that had one more turn than the others are those the counter  *)
(* passed since they were last all even.  Ledger is about tasks: what a    *)
(* publish pushed is in the vector, in a worker's batch or begun until a   *)
(* message is taken for it or the queue is empty.                          *)
(***************************************************************************)
EXTENDS Delivery, FiniteSetTheorems, SequenceTheorems, WellFoundedInduction, TLAPS

-----------------------------------------------------------------------------
(* Sequences and sets of numbers. *)

LEMMA Smallest ==
  ASSUME NEW S \in SUBSET Nat, S # {}
  PROVE  \E i \in S : \A j \in S : i <= j
<1>1. \E i \in S : \A j \in S : ~(<<j, i>> \in OpToRel(<, Nat))
  BY WFMin, NatLessThanWellFounded, Zenon
<1>2. PICK i \in S : \A j \in S : ~(<<j, i>> \in OpToRel(<, Nat))
  BY <1>1
<1>3. \A j \in S : ~(j < i)
  BY <1>2, Zenon DEF OpToRel
<1>4. \A j \in S : i <= j
  BY <1>3
<1> QED
  BY <1>4

\* What remove() leaves: the other consumers, in their order.
LEMMA WithoutProperties ==
  ASSUME NEW S, NEW cs \in Seq(S), NEW tag,
         \A i, j \in DOMAIN cs : cs[i].tag = cs[j].tag => i = j
  PROVE  /\ Without(cs, tag) \in Seq(S)
         /\ \A i \in DOMAIN Without(cs, tag) :
              \E k \in DOMAIN cs : Without(cs, tag)[i] = cs[k] /\ cs[k].tag # tag
         /\ \A i, j \in DOMAIN Without(cs, tag) :
              Without(cs, tag)[i].tag = Without(cs, tag)[j].tag => i = j
         /\ \A k \in DOMAIN cs : cs[k].tag # tag =>
              \E i \in DOMAIN Without(cs, tag) : Without(cs, tag)[i] = cs[k]
<1>1. CASE tag \notin TagsIn(cs)
  BY <1>1 DEF Without, TagsIn, Range
<1>2. CASE tag \in TagsIn(cs)
  <2> DEFINE at == {i \in DOMAIN cs : cs[i].tag = tag}
             first == CHOOSE i \in at : \A j \in at : i <= j
             rest == SubSeq(cs, 1, first - 1) \o SubSeq(cs, first + 1, Len(cs))
  <2>1. at # {} /\ at \in SUBSET Nat
    BY <1>2 DEF TagsIn, Range
  <2>2. first \in at
    BY <2>1, Smallest
  <2>3. first \in 1..Len(cs) /\ cs[first].tag = tag
    BY <2>2
  <2>4. Without(cs, tag) = rest
    BY <1>2 DEF Without
  <2> HIDE DEF at, first
  <2> DEFINE left == SubSeq(cs, 1, first - 1)
             right == SubSeq(cs, first + 1, Len(cs))
  <2>5. /\ left \in Seq(S) /\ Len(left) = first - 1
        /\ \A i \in 1..(first - 1) : left[i] = cs[i]
    BY <2>3, SubSeqProperties
  <2>6. /\ right \in Seq(S) /\ Len(right) = Len(cs) - first
        /\ \A i \in 1..(Len(cs) - first) : right[i] = cs[first + i]
    BY <2>3, SubSeqProperties
  <2>7. /\ rest \in Seq(S) /\ Len(rest) = Len(cs) - 1
        /\ \A i \in 1..Len(rest) : rest[i] = cs[IF i < first THEN i ELSE i + 1]
    <3>0. rest = left \o right
      OBVIOUS
    <3> HIDE DEF rest, left, right
    <3>1. /\ rest \in Seq(S) /\ Len(rest) = Len(left) + Len(right)
          /\ \A i \in 1..(Len(left) + Len(right)) :
               rest[i] = IF i <= Len(left) THEN left[i] ELSE right[i - Len(left)]
      <4>1. left \in Seq(S) /\ right \in Seq(S)
        BY <2>5, <2>6
      <4> QED
        BY <3>0, <4>1, ConcatProperties, Zenon
    <3>a. Len(rest) = Len(cs) - 1
      BY <2>3, <2>5, <2>6, <3>1
    <3>2. ASSUME NEW i \in 1..Len(rest)
          PROVE  rest[i] = cs[IF i < first THEN i ELSE i + 1]
      <4>1. CASE i < first
        <5>1. i \in 1..(first - 1) /\ i <= Len(left) /\ i \in 1..(Len(left) + Len(right))
          BY <2>3, <2>5, <2>6, <3>a, <4>1
        <5>2. rest[i] = left[i]
          BY <3>1, <5>1
        <5>3. left[i] = cs[i]
          BY <2>5, <5>1
        <5> QED
          BY <4>1, <5>2, <5>3
      <4>2. CASE ~(i < first)
        <5>1. /\ i - (first - 1) \in 1..(Len(cs) - first)
              /\ first + (i - (first - 1)) = i + 1
          BY <2>3, <3>a, <4>2
        <5>2. rest[i] = right[i - (first - 1)]
          <6>1. i \in 1..(Len(left) + Len(right)) /\ Len(left) = first - 1 /\ ~(i <= first - 1)
            BY <2>3, <2>5, <2>6, <3>a, <4>2
          <6> QED
            BY <3>1, <6>1
        <5>3. right[i - (first - 1)] = cs[first + (i - (first - 1))]
          BY <2>6, <5>1
        <5> QED
          BY <4>2, <5>1, <5>2, <5>3
      <4> QED
        BY <4>1, <4>2
    <3> QED
      BY <3>1, <3>a, <3>2
  <2> HIDE DEF rest
  <2>8. ASSUME NEW i \in 1..Len(rest)
        PROVE  \E k \in DOMAIN cs : rest[i] = cs[k] /\ cs[k].tag # tag
    <3> DEFINE k == IF i < first THEN i ELSE i + 1
    <3>1. k \in DOMAIN cs /\ k # first /\ first \in DOMAIN cs
      BY <2>3, <2>7
    <3>2. cs[k].tag # tag
      BY <2>3, <3>1
    <3> QED
      BY <2>7, <3>1, <3>2
  <2>9. ASSUME NEW i \in 1..Len(rest), NEW j \in 1..Len(rest), rest[i].tag = rest[j].tag
        PROVE  i = j
    <3>0. /\ (IF i < first THEN i ELSE i + 1) \in DOMAIN cs
          /\ (IF j < first THEN j ELSE j + 1) \in DOMAIN cs
      BY <2>3, <2>7
    <3>1. (IF i < first THEN i ELSE i + 1) = (IF j < first THEN j ELSE j + 1)
      BY <2>7, <2>9, <3>0
    <3> QED
      BY <2>3, <3>1
  <2>10. DOMAIN rest = 1..Len(rest)
    BY <2>7, LenProperties
  <2>11. ASSUME NEW k \in DOMAIN cs, cs[k].tag # tag
         PROVE  \E i \in 1..Len(rest) : rest[i] = cs[k]
    <3> DEFINE i == IF k < first THEN k ELSE k - 1
    <3>1. k \in 1..Len(cs) /\ k # first /\ Len(cs) \in Nat
      BY <2>3, <2>11, LenProperties
    <3>2. i \in 1..Len(rest) /\ (IF i < first THEN i ELSE i + 1) = k
      BY <2>3, <2>7, <3>1
    <3> HIDE DEF i
    <3>3. rest[i] = cs[k]
      BY <2>7, <3>2
    <3> QED
      BY <3>2, <3>3
  <2> QED
    BY ZenonT(40), <2>4, <2>7, <2>8, <2>9, <2>10, <2>11
<1> QED
  BY <1>1, <1>2

\* A multiple of n near zero is zero.
LEMMA SmallMultiple ==
  ASSUME NEW n \in Int, n > 0, NEW d \in Int, NEW z \in (1 - n)..(n - 1), n * d = z
  PROVE  d = 0
BY SMT

\* The next turn of n consumers.
LEMMA NextTurnModulo ==
  ASSUME NEW n \in Int, n > 0, NEW r \in Int
  PROVE  /\ r % n \in 0..(n - 1)
         /\ (r + 1) % n = IF (r % n) + 1 = n THEN 0 ELSE (r % n) + 1
<1> DEFINE a == r \div n
           x == r % n
           b == (r + 1) \div n
           y == (r + 1) % n
<1>1. a \in Int /\ x \in 0..(n - 1) /\ b \in Int /\ y \in 0..(n - 1)
  OBVIOUS
<1>2. r = n * a + x
  BY SMT
<1>3. r + 1 = n * b + y
  BY SMT
<1> HIDE DEF a, b, x, y
<1>4. n * b - n * a = x + 1 - y
  BY <1>1, <1>2, <1>3
<1>5. CASE x + 1 = n
  <2>1. n * (b - a - 1) = 0 - y
    BY <1>1, <1>4, <1>5
  <2>2. b - a - 1 = 0
    BY <1>1, <2>1, SmallMultiple
  <2>3. n * (b - a - 1) = 0
    BY <2>2
  <2>4. y = 0
    BY <1>1, <2>1, <2>3
  <2> QED
    BY <1>1, <1>5, <2>4 DEF x, y
<1>6. CASE x + 1 # n
  <2>1. n * (b - a) = x + 1 - y
    BY <1>1, <1>4
  <2>2. b - a = 0
    BY <1>1, <1>6, <2>1, SmallMultiple
  <2>3. n * (b - a) = 0
    BY <2>2
  <2>4. y = x + 1
    BY <1>1, <2>1, <2>3
  <2> QED
    BY <1>1, <1>6, <2>4 DEF x, y
<1> QED
  BY <1>5, <1>6

\* A queue of different messages loses its head or gets another at its end.
LEMMA TailRange ==
  ASSUME NEW s \in Seq(Msgs), s # <<>>, \A i, j \in DOMAIN s : s[i] = s[j] => i = j
  PROVE  /\ Tail(s) \in Seq(Msgs) /\ Head(s) \in Msgs /\ Head(s) \in Range(s)
         /\ Range(Tail(s)) = Range(s) \ {Head(s)}
         /\ \A i, j \in DOMAIN Tail(s) : Tail(s)[i] = Tail(s)[j] => i = j
<1>1. /\ Tail(s) \in Seq(Msgs) /\ Len(Tail(s)) = Len(s) - 1 /\ Head(s) = s[1]
      /\ \A i \in 1..Len(Tail(s)) : Tail(s)[i] = s[i + 1]
      /\ DOMAIN s = 1..Len(s) /\ DOMAIN Tail(s) = 1..Len(Tail(s)) /\ Len(s) \in Nat \ {0}
  BY HeadTailProperties, EmptySeq, LenProperties
<1>2. /\ Head(s) \in Msgs /\ 1 \in DOMAIN s
  BY <1>1
<1>3. Range(Tail(s)) \subseteq Range(s) \ {Head(s)}
  <2> SUFFICES ASSUME NEW i \in DOMAIN Tail(s) PROVE Tail(s)[i] \in Range(s) \ {Head(s)}
    BY DEF Range
  <2>1. i + 1 \in DOMAIN s /\ i + 1 # 1 /\ Tail(s)[i] = s[i + 1]
    BY <1>1
  <2>2. s[i + 1] # s[1]
    BY <1>2, <2>1
  <2> QED
    BY <1>1, <2>1, <2>2 DEF Range
<1>4. Range(s) \ {Head(s)} \subseteq Range(Tail(s))
  <2> SUFFICES ASSUME NEW i \in DOMAIN s, s[i] # Head(s) PROVE s[i] \in Range(Tail(s))
    BY DEF Range
  <2>1. i # 1
    BY <1>1
  <2>2. i - 1 \in DOMAIN Tail(s) /\ (i - 1) + 1 = i
    BY <1>1, <2>1
  <2>3. Tail(s)[i - 1] = s[(i - 1) + 1]
    BY <1>1, <2>2
  <2> QED
    BY <2>2, <2>3 DEF Range
<1>5. ASSUME NEW i \in DOMAIN Tail(s), NEW j \in DOMAIN Tail(s), Tail(s)[i] = Tail(s)[j]
      PROVE  i = j
  <2>1. i + 1 \in DOMAIN s /\ j + 1 \in DOMAIN s /\ s[i + 1] = s[j + 1]
    BY <1>1, <1>5
  <2>2. i + 1 = j + 1
    BY <2>1
  <2> QED
    BY <1>1, <2>2
<1> QED
  BY <1>1, <1>2, <1>3, <1>4, <1>5 DEF Range

LEMMA AppendedRange ==
  ASSUME NEW S, NEW s \in Seq(S), NEW e \in S
  PROVE  Range(Append(s, e)) = Range(s) \cup {e}
<1> DEFINE t == Append(s, e)
<1>1. /\ t[Len(s) + 1] = e /\ \A i \in 1..Len(s) : t[i] = s[i]
      /\ DOMAIN s = 1..Len(s) /\ DOMAIN t = 1..(Len(s) + 1) /\ Len(s) \in Nat
  BY AppendProperties, LenProperties
<1> HIDE DEF t
<1>2. \A i \in DOMAIN t : t[i] \in Range(s) \cup {e}
  BY <1>1 DEF Range
<1>3. e \in Range(t) /\ \A i \in DOMAIN s : s[i] \in Range(t)
  BY <1>1 DEF Range
<1>4. Range(t) = Range(s) \cup {e}
  BY <1>2, <1>3 DEF Range
<1> QED
  BY <1>4 DEF t

LEMMA AppendRange ==
  ASSUME NEW s \in Seq(Msgs), NEW m \in Msgs \ Range(s),
         \A i, j \in DOMAIN s : s[i] = s[j] => i = j
  PROVE  /\ Append(s, m) \in Seq(Msgs)
         /\ Range(Append(s, m)) = Range(s) \cup {m}
         /\ \A i, j \in DOMAIN Append(s, m) : Append(s, m)[i] = Append(s, m)[j] => i = j
<1> DEFINE t == Append(s, m)
<1>1. /\ t \in Seq(Msgs) /\ Len(t) = Len(s) + 1 /\ t[Len(s) + 1] = m
      /\ \A i \in 1..Len(s) : t[i] = s[i]
      /\ DOMAIN s = 1..Len(s) /\ DOMAIN t = 1..(Len(s) + 1) /\ Len(s) \in Nat
  BY AppendProperties, LenProperties
<1> HIDE DEF t
<1>2. \A i \in DOMAIN s : s[i] # m
  BY DEF Range
<1>3. Range(t) = Range(s) \cup {m}
  BY AppendedRange DEF t
<1>4. \A i, j \in DOMAIN t : t[i] = t[j] => i = j
  BY <1>1, <1>2
<1> QED
  BY <1>1, <1>3, <1>4 DEF t

-----------------------------------------------------------------------------
(* Types. *)

\* Where a handler in progress left the handles of the queue.
HandlerOK ==
  /\ io = "publish" => iochan \in Channels
  /\ io = "delete" => ~hasCons
  /\ io = "declare" => hasStore

Types == TypeOK /\ HandlerOK

LEMMA PublishedMessages ==
  ASSUME TypeOK PROVE published \subseteq Msgs
<1>1. DOMAIN log = 1..Len(log) /\ \A i \in 1..Len(log) : log[i] \in Msgs
  BY LenProperties, ElementOfSeq DEF TypeOK
<1> QED
  BY <1>1 DEF published, Range

LEMMA InitTypes == Init => Types
<1> SUFFICES ASSUME Init PROVE Types
  OBVIOUS
<1>1. msgs \in Seq(Msgs) /\ Range(msgs) \subseteq Msgs /\ Len(msgs) \in Nat
  <2>1. msgs \in Seq(Msgs)
    BY DeliveryAssumption DEF Init
  <2> QED
    BY <2>1, LenProperties, ElementOfSeq DEF Range
<1>2. <<>> \in Seq(Consumer) /\ <<>> \in Seq(Channels) /\ DOMAIN <<>> = {}
  BY EmptySeq
<1>3. consumers \in Seq(Consumer) /\ picks \in [DOMAIN consumers -> Nat]
  BY <1>2 DEF Init
<1> QED
  BY <1>1, <1>2, <1>3, DeliveryAssumption DEF Init, Types, TypeOK, HandlerOK

\* The set of consumers changes, and nobody had a turn.
LEMMA NewConsumers ==
  ASSUME NEW cs \in Seq(Consumer), SetConsumers(cs)
  PROVE  /\ consumers' \in Seq(Consumer) /\ picks' \in [DOMAIN consumers' -> Nat]
         /\ \A i \in DOMAIN consumers' : picks'[i] = 0
<1>1. DOMAIN cs = 1..Len(cs)
  BY LenProperties
<1> QED
  BY <1>1 DEF SetConsumers

LEMMA UniqueTags ==
  ASSUME TypeOK, \A i, j \in DOMAIN consumers : consumers[i].tag = consumers[j].tag => i = j,
         NEW tag
  PROVE  Without(consumers, tag) \in Seq(Consumer)
BY WithoutProperties DEF TypeOK

TagsDiffer == \A i, j \in DOMAIN consumers : consumers[i].tag = consumers[j].tag => i = j

LEMMA DestroyTypes ==
  ASSUME Types, TagsDiffer, NEW c \in Channels, Destroy(c)
  PROVE  /\ chan' \in [Channels -> {"new", "open", "closed"}]
         /\ home' \in [Channels -> Conns \cup {NoConn}]
         /\ own' \in [Channels -> Tags \cup {NoTag}]
         /\ subscribed' \in [Channels -> Tags \cup {NoTag}]
         /\ consumers' \in Seq(Consumer) /\ picks' \in [DOMAIN consumers' -> Nat]
<1>1. /\ chan' \in [Channels -> {"new", "open", "closed"}]
      /\ home' \in [Channels -> Conns \cup {NoConn}]
      /\ own' \in [Channels -> Tags \cup {NoTag}]
      /\ subscribed' \in [Channels -> Tags \cup {NoTag}]
  BY DEF Types, TypeOK, Destroy
<1>2. CASE UNCHANGED <<consumers, picks>>
  BY <1>1, <1>2 DEF Types, TypeOK
<1>3. CASE SetConsumers(Without(consumers, own[c]))
  <2>1. Without(consumers, own[c]) \in Seq(Consumer)
    BY UniqueTags DEF Types, TagsDiffer
  <2> QED
    BY <1>1, <1>3, <2>1, NewConsumers
<1> QED
  BY <1>2, <1>3 DEF Destroy

LEMMA RequestTypes ==
  ASSUME Types, TagsDiffer, NEW c \in Channels, Request(c)
  PROVE  Types'
<1> USE DeliveryAssumption DEF Types, HandlerOK
<1>1. ASSUME NEW k \in Conns, OpenChannel(c, k) PROVE Types'
  BY <1>1 DEF OpenChannel, TypeOK, queue, registry, pool, worker, handler, history
<1>2. CASE CloseChannel(c)
  <2>1. Destroy(c)
    BY <1>2 DEF CloseChannel
  <2> QED
    BY <1>2, <2>1, DestroyTypes
    DEF CloseChannel, Handles, TypeOK, queue, pool, worker, handler, history
<1>3. ASSUME NEW m \in Msgs, PublishInsert(c, m) PROVE Types'
  <2>1. msgs' \in Seq(Msgs)
    BY <1>3, AppendProperties DEF PublishInsert, TypeOK
  <2> QED
    BY <1>3, <2>1
    DEF PublishInsert, Handles, TypeOK, registry, channels, conns, pool, worker
<1>4. ASSUME NEW m \in Msgs, Ack(c, m) PROVE Types'
  BY <1>4 DEF Ack, Handles, TypeOK, registry, channels, conns, pool, worker, handler
<1>5. ASSUME NEW tag \in Tags, NEW auto \in BOOLEAN, Subscribe(c, tag, auto) PROVE Types'
  <2>1. /\ subscribed' \in [Channels -> Tags \cup {NoTag}]
        /\ own' \in [Channels -> Tags \cup {NoTag}]
    <3>1. /\ subscribed' = [subscribed EXCEPT ![c] = tag]
          /\ \/ own' = [own EXCEPT ![c] = tag]
             \/ own' = [own EXCEPT ![c] = NoTag]
      BY <1>5 DEF Subscribe
    <3>2. /\ subscribed \in [Channels -> Tags \cup {NoTag}]
          /\ own \in [Channels -> Tags \cup {NoTag}]
      BY DEF TypeOK
    <3> QED
      BY <3>1, <3>2
  <2>2. consumers' \in Seq(Consumer) /\ picks' \in [DOMAIN consumers' -> Nat]
    <3>1. CASE UNCHANGED <<consumers, picks>>
      BY <3>1 DEF TypeOK
    <3>2. CASE SetConsumers(Append(consumers, [tag |-> tag, chan |-> c, auto |-> auto]))
      <4>1. [tag |-> tag, chan |-> c, auto |-> auto] \in Consumer
        BY DEF Consumer
      <4>2. Append(consumers, [tag |-> tag, chan |-> c, auto |-> auto]) \in Seq(Consumer)
        BY <4>1, AppendProperties DEF TypeOK
      <4> QED
        BY <3>2, <4>2, NewConsumers
    <3> QED
      BY <1>5, <3>1, <3>2 DEF Subscribe
  <2> QED
    BY <1>5, <2>1, <2>2 DEF Subscribe, Handles, TypeOK, queue, conns, pool, worker, handler, history
<1>6. CASE Cancel(c)
  <2>1. Without(consumers, subscribed[c]) \in Seq(Consumer)
    BY UniqueTags DEF TagsDiffer
  <2>2. consumers' \in Seq(Consumer) /\ picks' \in [DOMAIN consumers' -> Nat]
    BY <1>6, <2>1, NewConsumers DEF Cancel
  <2> QED
    BY <1>6, <2>2 DEF Cancel, Handles, TypeOK, queue, conns, pool, worker, handler, history
<1>7. CASE DeleteConsumers(c)
  <2>1. consumers' \in Seq(Consumer) /\ picks' \in [DOMAIN consumers' -> Nat]
    BY <1>7, EmptySeq, NewConsumers DEF DeleteConsumers
  <2>2. deleted' \in 0..Deletions
    BY <1>7 DEF DeleteConsumers, TypeOK
  <2> QED
    BY <1>7, <2>1, <2>2 DEF DeleteConsumers, Handles, TypeOK, queue, conns, pool, worker
<1>8. CASE DeclareMessages(c)
  BY <1>8 DEF DeclareMessages, Handles, TypeOK, registry, channels, conns, pool, worker, history
<1> QED
  BY <1>1, <1>2, <1>3, <1>4, <1>5, <1>6, <1>7, <1>8 DEF Request

LEMMA HandlerTypes ==
  ASSUME Types, TagsDiffer, Finish \/ \E k \in Conns : LoseConnection(k)
  PROVE  Types'
<1> USE DeliveryAssumption DEF Types, HandlerOK
<1>1. CASE PublishTask
  <2>1. tasks' \in Seq(Channels)
    BY <1>1, AppendProperties DEF PublishTask, TypeOK
  <2> QED
    BY <1>1, <2>1 DEF PublishTask, TypeOK, queue, registry, channels, conns, worker, history
<1>2. CASE DeleteMessages
  BY <1>2, EmptySeq, PublishedMessages
     DEF DeleteMessages, TypeOK, registry, channels, conns, pool, worker
<1>3. CASE DeclareConsumers
  BY <1>3 DEF DeclareConsumers, TypeOK, queue, channels, conns, pool, worker, history
<1>4. ASSUME NEW c \in Channels, DestroyLost(c) PROVE Types'
  <2>1. Destroy(c)
    BY <1>4 DEF DestroyLost
  <2> QED
    BY <1>4, <2>1, DestroyTypes DEF DestroyLost, TypeOK, queue, pool, worker, history
<1>5. ASSUME NEW k \in Conns, LoseConnection(k) PROVE Types'
  BY <1>5 DEF LoseConnection, TypeOK, queue, registry, pool, worker, history
<1> QED
  BY <1>1, <1>2, <1>3, <1>4, <1>5 DEF Finish

LEMMA WorkTypes ==
  ASSUME Types, NEW w \in Workers, Work(w),
         wpc[w] \in {"choose", "push", "ack"} => wmsg[w] \in Msgs
  PROVE  Types'
<1> USE DEF Types, HandlerOK
<1>1. CASE TakeBatch(w)
  BY <1>1, EmptySeq DEF TakeBatch, TypeOK, queue, registry, channels, conns, worker, handler, history
<1>2. CASE StartTask(w)
  <2>1. Head(batch[w]) \in Channels /\ Tail(batch[w]) \in Seq(Channels)
    BY <1>2, HeadTailProperties DEF StartTask, TypeOK
  <2> QED
    BY <1>2, <2>1 DEF StartTask, TypeOK, queue, registry, channels, conns, handler, history
<1>3. CASE Front(w)
  <2>0. msgs # <<>> => Head(msgs) \in Msgs /\ Tail(msgs) \in Seq(Msgs)
    BY HeadTailProperties DEF TypeOK
  <2>1. msgs' \in Seq(Msgs) /\ waitack' \subseteq Msgs
    BY <1>3, <2>0 DEF Front, TypeOK
  <2>2. /\ wpc' \in [Workers -> {"idle", "front", "choose", "push", "ack"}]
        /\ wchan' \in [Workers -> Channels \cup {NoChan}]
        /\ wmsg' \in [Workers -> Msgs \cup {NoMsg}]
        /\ wcons' \in [Workers -> Consumer \cup {NoCons}]
    <3>1. /\ wpc \in [Workers -> {"idle", "front", "choose", "push", "ack"}]
          /\ wchan \in [Workers -> Channels \cup {NoChan}]
          /\ wmsg \in [Workers -> Msgs \cup {NoMsg}]
          /\ wcons \in [Workers -> Consumer \cup {NoCons}]
      BY DEF TypeOK
    <3>2. CASE msgs # <<>>
      BY <1>3, <2>0, <3>1, <3>2 DEF Front
    <3>3. CASE msgs = <<>>
      BY <1>3, <3>1, <3>3 DEF Front, EndTask
    <3> QED
      BY <3>2, <3>3
  <2> QED
    BY <1>3, <2>1, <2>2 DEF Front, TypeOK, registry, channels, conns, pool, handler, history
<1>4. CASE Choose(w)
  <2> DEFINE idx == (rr % Len(consumers)) + 1
  <2>1. consumers # <<>> => idx \in DOMAIN consumers /\ consumers[idx] \in Consumer
    <3> SUFFICES ASSUME consumers # <<>>
                 PROVE  idx \in DOMAIN consumers /\ consumers[idx] \in Consumer
      OBVIOUS
    <3>1. /\ Len(consumers) \in Int /\ Len(consumers) > 0
          /\ DOMAIN consumers = 1..Len(consumers) /\ rr \in Int
      BY EmptySeq, LenProperties DEF TypeOK
    <3>2. rr % Len(consumers) \in 0..(Len(consumers) - 1)
      BY <3>1, NextTurnModulo
    <3>3. idx \in DOMAIN consumers
      BY <3>1, <3>2
    <3> QED
      BY <3>3, ElementOfSeq, <3>1 DEF TypeOK
  <2> HIDE DEF idx
  <2>2. \/ /\ consumers # <<>> /\ rr' = rr + 1
           /\ picks' = [picks EXCEPT ![idx] = @ + 1]
           /\ wcons' = [wcons EXCEPT ![w] = consumers[idx]]
           /\ wpc' = [wpc EXCEPT ![w] = "push"]
           /\ UNCHANGED <<wchan, wmsg>>
        \/ EndTask(w) /\ UNCHANGED <<rr, picks>>
    BY <1>4 DEF Choose, NextTurn, idx
  <2>3. rr' \in Nat /\ picks' \in [DOMAIN consumers -> Nat]
    <3>1. rr \in Nat /\ picks \in [DOMAIN consumers -> Nat]
      BY DEF TypeOK
    <3>2. CASE UNCHANGED <<rr, picks>>
      BY <3>1, <3>2
    <3>3. CASE consumers # <<>> /\ rr' = rr + 1 /\ picks' = [picks EXCEPT ![idx] = @ + 1]
      BY <2>1, <3>1, <3>3
    <3> QED
      BY <2>2, <3>2, <3>3
  <2>4. /\ wpc' \in [Workers -> {"idle", "front", "choose", "push", "ack"}]
        /\ wchan' \in [Workers -> Channels \cup {NoChan}]
        /\ wmsg' \in [Workers -> Msgs \cup {NoMsg}]
        /\ wcons' \in [Workers -> Consumer \cup {NoCons}]
    BY <2>1, <2>2 DEF EndTask, TypeOK
  <2> QED
    BY <1>4, <2>3, <2>4 DEF Choose, TypeOK, queue, channels, conns, pool, handler, history
<1>5. CASE Push(w)
  <2>1. pushes' \in [Msgs -> Nat]
    BY <1>5 DEF Push, TypeOK
  <2>2. /\ wpc' \in [Workers -> {"idle", "front", "choose", "push", "ack"}]
        /\ wchan' \in [Workers -> Channels \cup {NoChan}]
        /\ wmsg' \in [Workers -> Msgs \cup {NoMsg}]
        /\ wcons' \in [Workers -> Consumer \cup {NoCons}]
    BY ZenonT(40), <1>5 DEF Push, EndTask, TypeOK
  <2> QED
    BY <1>5, <2>1, <2>2 DEF Push, TypeOK, queue, registry, channels, conns, pool, handler
<1>6. CASE AutoAck(w)
  BY <1>6 DEF AutoAck, EndTask, TypeOK, registry, channels, conns, pool, handler
<1>7. CASE Die(w)
  BY <1>7 DEF Die, TypeOK, queue, registry, channels, conns, pool, worker, history
<1> QED
  BY <1>1, <1>2, <1>3, <1>4, <1>5, <1>6, <1>7 DEF Work

-----------------------------------------------------------------------------
(* Messages. *)

USE DEF published

\* The workers with a message in their hands, and those still to send it.
Holds(w) == wpc[w] \in {"choose", "push", "ack"}
ToSend(w) == wpc[w] \in {"choose", "push"}

MessagesDiffer == \A i, j \in DOMAIN msgs : msgs[i] = msgs[j] => i = j

\* No two workers are to send one message, and it is sent for the first time.
SentOnce ==
  /\ PushedAtMostOnce
  /\ \A m \in Msgs : m \in Range(msgs) \/ m \notin published => pushes[m] = 0
  /\ \A w \in Workers : ToSend(w) => pushes[wmsg[w]] = 0
  /\ \A v, w \in Workers : ToSend(v) /\ ToSend(w) /\ wmsg[v] = wmsg[w] => v = w

Custody ==
  /\ MessagesDiffer
  /\ gone \subseteq published
  /\ PublishedIsKept
  /\ \A w \in Workers : Holds(w) => wmsg[w] \in published \ Range(msgs)
  /\ SentOnce

LEMMA InitCustody == Init => Custody
<1> SUFFICES ASSUME Init PROVE Custody
  OBVIOUS
<1>1. MessagesDiffer
  BY DeliveryAssumption DEF Init, MessagesDiffer
<1>2. SentOnce
  BY DEF Init, SentOnce, PushedAtMostOnce, ToSend
<1> QED
  BY <1>1, <1>2 DEF Init, Custody, PublishedIsKept, Holds

\* What Custody does not see.
LEMMA SameCustody ==
  ASSUME Custody, UNCHANGED <<msgs, waitack, log, pushes, gone, wpc, wmsg>>
  PROVE  Custody'
BY DEF Custody, MessagesDiffer, PublishedIsKept, SentOnce, PushedAtMostOnce, Holds, ToSend

LEMMA RequestCustody ==
  ASSUME TypeOK, Custody, NEW c \in Channels, Request(c)
  PROVE  Custody'
<1>1. ASSUME NEW m \in Msgs, PublishInsert(c, m) PROVE Custody'
  <2>1. /\ m \notin published /\ msgs' = Append(msgs, m) /\ published' = published \cup {m}
        /\ UNCHANGED <<waitack, pushes, gone, wpc, wmsg>>
    BY <1>1, AppendedRange DEF PublishInsert, worker, TypeOK
  <2>2. m \notin Range(msgs) /\ m \notin gone /\ m \notin waitack
    BY <2>1 DEF Custody, PublishedIsKept
  <2>3. Range(msgs') = Range(msgs) \cup {m} /\ MessagesDiffer'
    BY <2>1, <2>2, AppendRange DEF Custody, MessagesDiffer, TypeOK
  <2>4. PublishedIsKept' /\ gone' \subseteq published'
    BY <2>1, <2>2, <2>3 DEF Custody, PublishedIsKept
  <2>5. \A w \in Workers : Holds(w)' => wmsg'[w] \in published' \ Range(msgs')
    BY <2>1, <2>3 DEF Custody, Holds
  <2>6. SentOnce'
    BY <2>1, <2>3 DEF Custody, SentOnce, PushedAtMostOnce, ToSend
  <2> QED
    BY <2>3, <2>4, <2>5, <2>6 DEF Custody
<1>2. ASSUME NEW m \in Msgs, Ack(c, m) PROVE Custody'
  <2>1. /\ m \in waitack /\ waitack' = waitack \ {m} /\ gone' = gone \cup {m}
        /\ UNCHANGED <<msgs, log, pushes, wpc, wmsg>>
    BY <1>2 DEF Ack, worker
  <2>2. PublishedIsKept' /\ gone' \subseteq published'
    BY <2>1 DEF Custody, PublishedIsKept
  <2> QED
    BY <2>1, <2>2 DEF Custody, MessagesDiffer, SentOnce, PushedAtMostOnce, Holds, ToSend
<1>3. CASE UNCHANGED <<msgs, waitack, log, pushes, gone, wpc, wmsg>>
  BY <1>3, SameCustody
<1>4. \/ \E m \in Msgs : PublishInsert(c, m) \/ Ack(c, m)
      \/ UNCHANGED <<msgs, waitack, log, pushes, gone, wpc, wmsg>>
  <2>1. ASSUME NEW k \in Conns, OpenChannel(c, k)
        PROVE  UNCHANGED <<msgs, waitack, log, pushes, gone, wpc, wmsg>>
    BY <2>1 DEF OpenChannel, queue, worker, history
  <2>2. ASSUME NEW tag \in Tags, NEW auto \in BOOLEAN, Subscribe(c, tag, auto)
        PROVE  UNCHANGED <<msgs, waitack, log, pushes, gone, wpc, wmsg>>
    BY <2>2 DEF Subscribe, queue, worker, history
  <2>3. CloseChannel(c) \/ Cancel(c) \/ DeleteConsumers(c) \/ DeclareMessages(c) =>
          UNCHANGED <<msgs, waitack, log, pushes, gone, wpc, wmsg>>
    BY DEF CloseChannel, Cancel, DeleteConsumers, DeclareMessages, queue, worker, history
  <2> QED
    BY <2>1, <2>2, <2>3 DEF Request
<1> QED
  BY <1>1, <1>2, <1>3, <1>4

LEMMA HandlerCustody ==
  ASSUME TypeOK, Custody, Finish \/ \E k \in Conns : LoseConnection(k)
  PROVE  Custody'
<1>1. CASE DeleteMessages
  <2>1. /\ msgs' = <<>> /\ waitack' = {} /\ gone' = published
        /\ UNCHANGED <<log, pushes, wpc, wmsg>>
    BY <1>1 DEF DeleteMessages, worker
  <2>2. Range(msgs') = {} /\ MessagesDiffer'
    BY <2>1 DEF Range, MessagesDiffer
  <2>3. PublishedIsKept' /\ gone' \subseteq published'
    BY <2>1, <2>2 DEF PublishedIsKept
  <2>4. \A w \in Workers : Holds(w)' => wmsg'[w] \in published' \ Range(msgs')
    BY <2>1, <2>2 DEF Custody, Holds
  <2>5. SentOnce'
    BY <2>1, <2>2 DEF Custody, SentOnce, PushedAtMostOnce, ToSend
  <2> QED
    BY <2>2, <2>3, <2>4, <2>5 DEF Custody
<1>2. CASE PublishTask \/ DeclareConsumers
  BY <1>2, SameCustody DEF PublishTask, DeclareConsumers, queue, worker, history
<1>3. ASSUME NEW c \in Channels, DestroyLost(c) PROVE Custody'
  BY <1>3, SameCustody DEF DestroyLost, queue, worker, history
<1>4. ASSUME NEW k \in Conns, LoseConnection(k) PROVE Custody'
  BY <1>4, SameCustody DEF LoseConnection, queue, worker, history
<1> QED
  BY <1>1, <1>2, <1>3, <1>4 DEF Finish

\* A worker that ends its task has nothing in its hands.
LEMMA EndedTask ==
  ASSUME TypeOK, NEW w \in Workers, EndTask(w)
  PROVE  /\ ~Holds(w)' /\ ~ToSend(w)'
         /\ \A v \in Workers \ {w} : wpc'[v] = wpc[v] /\ wmsg'[v] = wmsg[v]
BY DEF EndTask, TypeOK, Holds, ToSend

\* A worker goes on and the queue stays; it has something in its hands that it
\* had before, and is to send something if it was before.
LEMMA GoneOn ==
  ASSUME TypeOK, Custody, NEW w \in Workers,
         UNCHANGED <<msgs, log>>,
         \A v \in Workers \ {w} : wpc'[v] = wpc[v] /\ wmsg'[v] = wmsg[v],
         Holds(w)' => Holds(w) /\ wmsg'[w] = wmsg[w],
         ToSend(w)' => ToSend(w) /\ wmsg'[w] = wmsg[w]
  PROVE  /\ \A v \in Workers : Holds(v)' => wmsg'[v] \in published' \ Range(msgs')
         /\ \A v \in Workers : ToSend(v)' => ToSend(v) /\ wmsg'[v] = wmsg[v]
         /\ pushes' = pushes => SentOnce'
         /\ MessagesDiffer'
<1>1. \A v \in Workers : ToSend(v)' => ToSend(v) /\ wmsg'[v] = wmsg[v]
  BY DEF ToSend
<1>2. \A v \in Workers : Holds(v)' => Holds(v) /\ wmsg'[v] = wmsg[v]
  BY DEF Holds
<1>3. pushes' = pushes => SentOnce'
  BY <1>1 DEF Custody, SentOnce, PushedAtMostOnce
<1> QED
  BY <1>1, <1>2, <1>3 DEF Custody, MessagesDiffer

LEMMA FrontCustody ==
  ASSUME TypeOK, Custody, NEW w \in Workers, Front(w)
  PROVE  Custody'
<1>1. CASE msgs = <<>>
  <2>1. EndTask(w) /\ UNCHANGED <<msgs, waitack, log, pushes, gone>>
    BY <1>1 DEF Front, history
  <2>2. PublishedIsKept' /\ gone' \subseteq published'
    BY <2>1 DEF Custody, PublishedIsKept
  <2> QED
    BY <2>1, <2>2, EndedTask, GoneOn DEF Custody
<1>2. CASE msgs # <<>>
  <2>1. /\ msgs' = Tail(msgs) /\ waitack' = waitack \cup {Head(msgs)}
        /\ wmsg' = [wmsg EXCEPT ![w] = Head(msgs)]
        /\ wpc' = [wpc EXCEPT ![w] = "choose"]
        /\ UNCHANGED <<log, pushes, gone>>
    BY <1>2 DEF Front, history
  <2>2. /\ Head(msgs) \in Msgs /\ Head(msgs) \in Range(msgs) /\ MessagesDiffer'
        /\ Range(msgs') = Range(msgs) \ {Head(msgs)}
    BY <1>2, <2>1, TailRange DEF Custody, MessagesDiffer, TypeOK
  <2>3. /\ wmsg'[w] = Head(msgs) /\ wpc'[w] = "choose"
        /\ \A v \in Workers \ {w} : wpc'[v] = wpc[v] /\ wmsg'[v] = wmsg[v]
    BY <2>1 DEF TypeOK
  <2>4. PublishedIsKept' /\ gone' \subseteq published'
    BY <2>1, <2>2 DEF Custody, PublishedIsKept
  <2>5. Head(msgs) \in published
    BY <2>2 DEF Custody, PublishedIsKept
  <2>6. \A v \in Workers : Holds(v)' => wmsg'[v] \in published' \ Range(msgs')
    BY <2>1, <2>2, <2>3, <2>5 DEF Custody, Holds
  <2>7. SentOnce'
    <3>1. PushedAtMostOnce'
      BY <2>1 DEF Custody, SentOnce, PushedAtMostOnce
    <3>2. \A m \in Msgs : m \in Range(msgs') \/ m \notin published' => pushes'[m] = 0
      BY <2>1, <2>2 DEF Custody, SentOnce
    <3>3. \A v \in Workers : ToSend(v)' => pushes'[wmsg'[v]] = 0
      BY <2>1, <2>2, <2>3 DEF Custody, SentOnce, ToSend
    <3>4. \A v \in Workers \ {w} : ToSend(v)' => ToSend(v) /\ wmsg'[v] # Head(msgs)
      BY <2>2, <2>3 DEF Custody, ToSend, Holds
    <3>5. ASSUME NEW u \in Workers, NEW v \in Workers, ToSend(u)', ToSend(v)', wmsg'[u] = wmsg'[v]
          PROVE  u = v
      BY <2>3, <3>4, <3>5 DEF Custody, SentOnce
    <3> QED
      BY <3>1, <3>2, <3>3, <3>5 DEF SentOnce
  <2> QED
    BY <2>2, <2>4, <2>6, <2>7 DEF Custody
<1> QED
  BY <1>1, <1>2

LEMMA PushCustody ==
  ASSUME TypeOK, Custody, NEW w \in Workers, Push(w)
  PROVE  Custody'
<1>1. /\ wpc[w] = "push"
      /\ pushes' = [pushes EXCEPT ![wmsg[w]] = @ + 1]
      /\ \/ wpc' = [wpc EXCEPT ![w] = "ack"] /\ UNCHANGED wmsg
         \/ EndTask(w)
      /\ UNCHANGED <<msgs, waitack, log, gone>>
  BY DEF Push, queue
<1>2. /\ wmsg[w] \in published \ Range(msgs) /\ wmsg[w] \in Msgs /\ pushes[wmsg[w]] = 0
      /\ ToSend(w) /\ Holds(w)
  BY <1>1, PublishedMessages DEF Custody, SentOnce, Holds, ToSend
<1>3. /\ \A v \in Workers \ {w} : wpc'[v] = wpc[v] /\ wmsg'[v] = wmsg[v]
      /\ ~ToSend(w)'
      /\ Holds(w)' => wmsg'[w] = wmsg[w]
  <2>1. CASE wpc' = [wpc EXCEPT ![w] = "ack"] /\ UNCHANGED wmsg
    BY <2>1 DEF TypeOK, ToSend
  <2>2. CASE EndTask(w)
    BY <2>2, EndedTask
  <2> QED
    BY <1>1, <2>1, <2>2
<1>4. /\ \A v \in Workers : Holds(v)' => wmsg'[v] \in published' \ Range(msgs')
      /\ \A v \in Workers : ToSend(v)' => ToSend(v) /\ wmsg'[v] = wmsg[v]
      /\ MessagesDiffer'
  BY <1>1, <1>2, <1>3, GoneOn
<1>5. /\ pushes'[wmsg[w]] = 1
      /\ \A m \in Msgs \ {wmsg[w]} : pushes'[m] = pushes[m]
  BY <1>1, <1>2 DEF TypeOK
<1>6. SentOnce'
  <2>1. PushedAtMostOnce'
    BY <1>5 DEF Custody, SentOnce, PushedAtMostOnce
  <2>2. \A m \in Msgs : m \in Range(msgs') \/ m \notin published' => pushes'[m] = 0
    BY <1>1, <1>2, <1>5 DEF Custody, SentOnce
  <2>3. ASSUME NEW v \in Workers, ToSend(v)' PROVE pushes'[wmsg'[v]] = 0
    <3>1. v # w /\ ToSend(v) /\ wmsg'[v] = wmsg[v]
      BY <1>3, <1>4, <2>3
    <3>2. wmsg[v] # wmsg[w] /\ pushes[wmsg[v]] = 0 /\ wmsg[v] \in Msgs
      BY <1>2, <3>1, PublishedMessages DEF Custody, SentOnce, Holds, ToSend
    <3> QED
      BY <1>5, <3>1, <3>2
  <2>4. \A u, v \in Workers : ToSend(u)' /\ ToSend(v)' /\ wmsg'[u] = wmsg'[v] => u = v
    BY <1>4 DEF Custody, SentOnce
  <2> QED
    BY <2>1, <2>2, <2>3, <2>4 DEF SentOnce
<1>7. PublishedIsKept' /\ gone' \subseteq published'
  BY <1>1 DEF Custody, PublishedIsKept
<1> QED
  BY <1>4, <1>6, <1>7 DEF Custody

LEMMA WorkCustody ==
  ASSUME TypeOK, Custody, NEW w \in Workers, Work(w)
  PROVE  Custody'
<1>1. CASE TakeBatch(w) \/ Die(w)
  BY <1>1, SameCustody DEF TakeBatch, Die, queue, worker, history
<1>2. CASE StartTask(w)
  <2>1. /\ ~Holds(w)' /\ ~ToSend(w)'
        /\ \A v \in Workers \ {w} : wpc'[v] = wpc[v] /\ wmsg'[v] = wmsg[v]
    BY <1>2 DEF StartTask, TypeOK, Holds, ToSend
  <2>2. UNCHANGED <<msgs, waitack, log, pushes, gone>>
    BY <1>2 DEF StartTask, queue, history
  <2>3. PublishedIsKept' /\ gone' \subseteq published'
    BY <2>2 DEF Custody, PublishedIsKept
  <2> QED
    BY <2>1, <2>2, <2>3, GoneOn DEF Custody
<1>3. CASE Front(w)
  BY <1>3, FrontCustody
<1>4. CASE Choose(w)
  <2>1. UNCHANGED <<msgs, waitack, log, pushes, gone>>
    BY <1>4 DEF Choose, queue, history
  <2>2. PublishedIsKept' /\ gone' \subseteq published'
    BY <2>1 DEF Custody, PublishedIsKept
  <2>3. /\ wpc[w] = "choose"
        /\ \/ wpc' = [wpc EXCEPT ![w] = "push"] /\ UNCHANGED wmsg
           \/ EndTask(w)
    BY <1>4 DEF Choose
  <2>4. CASE wpc' = [wpc EXCEPT ![w] = "push"] /\ UNCHANGED wmsg
    <3>1. /\ Holds(w) /\ ToSend(w) /\ wmsg'[w] = wmsg[w]
          /\ \A v \in Workers \ {w} : wpc'[v] = wpc[v] /\ wmsg'[v] = wmsg[v]
      BY <2>3, <2>4 DEF TypeOK, Holds, ToSend
    <3> QED
      BY <2>1, <2>2, <3>1, GoneOn DEF Custody
  <2>5. CASE EndTask(w)
    BY <2>1, <2>2, <2>5, EndedTask, GoneOn DEF Custody
  <2> QED
    BY <2>3, <2>4, <2>5
<1>5. CASE Push(w)
  BY <1>5, PushCustody
<1>6. CASE AutoAck(w)
  <2>1. /\ wpc[w] = "ack" /\ EndTask(w)
        /\ waitack' = waitack \ {wmsg[w]} /\ gone' = gone \cup {wmsg[w]}
        /\ UNCHANGED <<msgs, log, pushes>>
    BY <1>6 DEF AutoAck
  <2>2. wmsg[w] \in published \ Range(msgs)
    BY <2>1 DEF Custody, Holds
  <2>3. PublishedIsKept' /\ gone' \subseteq published'
    BY <2>1, <2>2 DEF Custody, PublishedIsKept
  <2> QED
    BY <2>1, <2>3, EndedTask, GoneOn DEF Custody
<1> QED
  BY <1>1, <1>2, <1>3, <1>4, <1>5, <1>6 DEF Work

-----------------------------------------------------------------------------
(* Consumers. *)

\* A consumer is the one its channel holds and was told of.
Owned(cs, i) ==
  LET c == cs[i].chan
  IN  chan[c] = "open" /\ own[c] = cs[i].tag /\ subscribed[c] = cs[i].tag

Registry ==
  /\ \A i \in DOMAIN consumers : Owned(consumers, i)
  /\ TagsDiffer

LEMMA InitRegistry == Init => Registry
BY DEF Init, Registry, TagsDiffer

LEMMA SameRegistry ==
  ASSUME Registry, UNCHANGED <<consumers, chan, own, subscribed>>
  PROVE  Registry'
BY DEF Registry, Owned, TagsDiffer

LEMMA OwnedConsumer ==
  ASSUME TypeOK, Registry, NEW i \in DOMAIN consumers
  PROVE  /\ consumers[i] \in Consumer /\ consumers[i].chan \in Channels
         /\ consumers[i].tag \in Tags
<1>1. consumers \in Seq(Consumer) /\ i \in 1..Len(consumers)
  BY LenProperties DEF TypeOK
<1>2. consumers[i] \in Consumer
  BY <1>1, ElementOfSeq
<1> QED
  BY <1>2 DEF Consumer

\* The consumers with another tag than the one removed stay whose they were.
LEMMA RemovedRegistry ==
  ASSUME TypeOK, Registry, NEW tag, SetConsumers(Without(consumers, tag)),
         \A c \in Channels : own[c] # tag \/ subscribed[c] # tag =>
           \/ chan'[c] = chan[c] /\ own'[c] = own[c] /\ subscribed'[c] = subscribed[c]
           \/ \A i \in DOMAIN consumers : consumers[i].chan = c => consumers[i].tag = tag
  PROVE  Registry'
<1>1. /\ \A i \in DOMAIN consumers' :
           \E k \in DOMAIN consumers : consumers'[i] = consumers[k] /\ consumers[k].tag # tag
      /\ TagsDiffer'
  <2>1. consumers' = Without(consumers, tag)
    BY DEF SetConsumers
  <2>2. consumers \in Seq(Consumer)
    BY DEF TypeOK
  <2>3. \A i, j \in DOMAIN consumers : consumers[i].tag = consumers[j].tag => i = j
    BY DEF Registry, TagsDiffer
  <2>4. /\ \A i \in DOMAIN Without(consumers, tag) :
              \E k \in DOMAIN consumers :
                Without(consumers, tag)[i] = consumers[k] /\ consumers[k].tag # tag
        /\ \A i, j \in DOMAIN Without(consumers, tag) :
              Without(consumers, tag)[i].tag = Without(consumers, tag)[j].tag => i = j
    BY <2>2, <2>3, WithoutProperties
  <2> QED
    BY <2>1, <2>4 DEF TagsDiffer
<1>2. ASSUME NEW i \in DOMAIN consumers' PROVE Owned(consumers, i)'
  <2>1. PICK k \in DOMAIN consumers : consumers'[i] = consumers[k] /\ consumers[k].tag # tag
    BY <1>1
  <2> DEFINE c == consumers[k].chan
  <2>2. /\ c \in Channels /\ chan[c] = "open" /\ own[c] = consumers[k].tag
        /\ subscribed[c] = consumers[k].tag
    BY OwnedConsumer DEF Registry, Owned
  <2>3. chan'[c] = chan[c] /\ own'[c] = own[c] /\ subscribed'[c] = subscribed[c]
    BY <2>1, <2>2
  <2> QED
    BY <2>1, <2>2, <2>3 DEF Owned
<1> QED
  BY <1>1, <1>2 DEF Registry

LEMMA DestroyRegistry ==
  ASSUME TypeOK, Registry, NEW c \in Channels, Destroy(c)
  PROVE  Registry'
<1>1. /\ \A d \in Channels \ {c} :
           chan'[d] = chan[d] /\ own'[d] = own[d] /\ subscribed'[d] = subscribed[d]
      /\ \A i \in DOMAIN consumers : consumers[i].chan = c => consumers[i].tag = own[c]
  BY DEF TypeOK, Destroy, Registry, Owned
<1>2. CASE own[c] = NoTag
  <2>1. \A i \in DOMAIN consumers : consumers[i].chan \in Channels \ {c}
    BY <1>1, <1>2, OwnedConsumer, DeliveryAssumption
  <2>2. consumers' = consumers
    BY <1>2 DEF Destroy
  <2> QED
    BY <1>1, <2>1, <2>2 DEF Registry, Owned, TagsDiffer
<1>3. CASE own[c] # NoTag
  <2>1. SetConsumers(Without(consumers, own[c]))
    BY <1>3 DEF Destroy
  <2> QED
    BY <1>1, <2>1, RemovedRegistry
<1> QED
  BY <1>2, <1>3

LEMMA SubscribeRegistry ==
  ASSUME TypeOK, Registry, NEW c \in Channels, NEW tag \in Tags, NEW auto \in BOOLEAN,
         Subscribe(c, tag, auto)
  PROVE  Registry'
<1> DEFINE new == [tag |-> tag, chan |-> c, auto |-> auto]
<1>1. /\ chan[c] = "open" /\ subscribed[c] = NoTag /\ chan' = chan
      /\ subscribed' = [subscribed EXCEPT ![c] = tag]
  BY DEF Subscribe, Handles
<1>2. \A i \in DOMAIN consumers : consumers[i].chan \in Channels \ {c}
  BY <1>1, OwnedConsumer, DeliveryAssumption DEF Registry, Owned
<1>3. /\ \A d \in Channels \ {c} : own'[d] = own[d] /\ subscribed'[d] = subscribed[d]
      /\ subscribed'[c] = tag
  BY <1>1 DEF Subscribe, TypeOK
<1>4. CASE tag \in TagsIn(consumers)
  <2>1. consumers' = consumers
    BY <1>4 DEF Subscribe
  <2> QED
    BY <1>1, <1>2, <1>3, <2>1 DEF Registry, Owned, TagsDiffer
<1>5. CASE tag \notin TagsIn(consumers)
  <2>1. consumers' = Append(consumers, new) /\ own'[c] = tag
    BY <1>5 DEF Subscribe, SetConsumers, TypeOK
  <2>2. new \in Consumer
    BY DEF Consumer
  <2> DEFINE n == Len(consumers)
  <2>3. /\ n \in Nat /\ DOMAIN consumers = 1..n /\ DOMAIN consumers' = 1..(n + 1)
        /\ consumers'[n + 1] = new
        /\ \A i \in 1..n : consumers'[i] = consumers[i]
    <3>1. consumers \in Seq(Consumer)
      BY DEF TypeOK
    <3>2. Append(consumers, new) \in Seq(Consumer) /\ Len(Append(consumers, new)) = n + 1
      BY <2>2, <3>1, AppendProperties
    <3> QED
      BY <2>1, <2>2, <3>1, <3>2, AppendProperties, LenProperties
  <2> HIDE DEF n, new
  <2>4. ASSUME NEW i \in DOMAIN consumers' PROVE Owned(consumers, i)'
    <3>1. CASE i \in 1..n
      BY <1>1, <1>2, <1>3, <2>3, <3>1 DEF Registry, Owned
    <3>2. CASE i = n + 1
      <4>1. consumers'[i].chan = c /\ consumers'[i].tag = tag
        BY <2>3, <3>2 DEF new
      <4> QED
        BY <1>1, <1>3, <2>1, <4>1 DEF Owned
    <3> QED
      BY <2>3, <3>1, <3>2
  <2>6. \A i \in 1..n : consumers[i].tag # tag
    BY <1>5, <2>3 DEF TagsIn, Range
  <2>7. TagsDiffer'
    <3>1. consumers'[n + 1].tag = tag
      BY <2>3 DEF new
    <3> QED
      BY <2>3, <2>6, <3>1 DEF Registry, TagsDiffer
  <2> QED
    BY <2>4, <2>7 DEF Registry
<1> QED
  BY <1>4, <1>5

LEMMA RequestRegistry ==
  ASSUME TypeOK, Registry, NEW c \in Channels, Request(c)
  PROVE  Registry'
<1>1. ASSUME NEW k \in Conns, OpenChannel(c, k) PROVE Registry'
  <2>1. /\ chan[c] = "new" /\ chan' = [chan EXCEPT ![c] = "open"]
        /\ UNCHANGED <<consumers, own, subscribed>>
    BY <1>1 DEF OpenChannel, registry
  <2>2. \A d \in Channels : chan[d] = "open" => chan'[d] = "open"
    BY <2>1 DEF TypeOK
  <2> QED
    BY <2>1, <2>2, OwnedConsumer DEF Registry, Owned, TagsDiffer
<1>2. CASE CloseChannel(c)
  BY <1>2, DestroyRegistry DEF CloseChannel
<1>3. ASSUME NEW m \in Msgs, PublishInsert(c, m) \/ Ack(c, m) PROVE Registry'
  BY <1>3, SameRegistry DEF PublishInsert, Ack, registry, channels
<1>4. ASSUME NEW tag \in Tags, NEW auto \in BOOLEAN, Subscribe(c, tag, auto) PROVE Registry'
  BY <1>4, SubscribeRegistry
<1>5. CASE Cancel(c)
  <2>1. /\ SetConsumers(Without(consumers, subscribed[c])) /\ UNCHANGED <<chan, own>>
        /\ subscribed' = [subscribed EXCEPT ![c] = NoTag]
    BY <1>5 DEF Cancel
  <2>2. /\ \A d \in Channels \ {c} : subscribed'[d] = subscribed[d]
        /\ \A i \in DOMAIN consumers : consumers[i].chan = c => consumers[i].tag = subscribed[c]
    BY <2>1 DEF TypeOK, Registry, Owned
  <2> QED
    BY <2>1, <2>2, RemovedRegistry
<1>6. CASE DeleteConsumers(c)
  <2>1. consumers' = <<>>
    BY <1>6 DEF DeleteConsumers, SetConsumers
  <2> QED
    BY <2>1 DEF Registry, TagsDiffer
<1>7. CASE DeclareMessages(c)
  BY <1>7, SameRegistry DEF DeclareMessages, registry, channels
<1> QED
  BY <1>1, <1>2, <1>3, <1>4, <1>5, <1>6, <1>7 DEF Request

LEMMA OthersRegistry ==
  ASSUME TypeOK, Registry,
         \/ Finish
         \/ \E k \in Conns : LoseConnection(k)
         \/ \E w \in Workers : Work(w)
  PROVE  Registry'
<1>1. CASE PublishTask \/ DeleteMessages \/ DeclareConsumers
  BY <1>1, SameRegistry DEF PublishTask, DeleteMessages, DeclareConsumers, registry, channels
<1>2. ASSUME NEW c \in Channels, DestroyLost(c) PROVE Registry'
  BY <1>2, DestroyRegistry DEF DestroyLost
<1>3. ASSUME NEW k \in Conns, LoseConnection(k) PROVE Registry'
  BY <1>3, SameRegistry DEF LoseConnection, registry
<1>4. ASSUME NEW w \in Workers, Work(w) PROVE Registry'
  BY <1>4, SameRegistry
  DEF Work, TakeBatch, StartTask, Front, Choose, Push, AutoAck, Die, registry, channels
<1> QED
  BY <1>1, <1>2, <1>3, <1>4 DEF Finish

-----------------------------------------------------------------------------
(* Turns. *)

\* Going round from s to p, consumer i was passed.
Passed(s, p, i) == IF s <= p THEN s <= i /\ i < p ELSE s <= i \/ i < p

\* All have had as many turns, but those passed since one more.
RoundFrom(s, b) ==
  \A i \in DOMAIN picks :
    picks[i] = IF Passed(s, rr % Len(consumers), i - 1) THEN b + 1 ELSE b
Turns == consumers # <<>> => \E s \in 0..(Len(consumers) - 1), b \in Nat : RoundFrom(s, b)

LEMMA TurnsAreEven == Turns /\ TypeOK => RoundRobinIsEven
<1> SUFFICES ASSUME Turns, TypeOK, NEW i \in DOMAIN picks, NEW j \in DOMAIN picks
             PROVE  picks[i] <= picks[j] + 1
  BY DEF RoundRobinIsEven
<1>1. consumers # <<>>
  BY EmptySeq DEF TypeOK
<1>2. PICK s \in 0..(Len(consumers) - 1), b \in Nat : RoundFrom(s, b)
  BY <1>1 DEF Turns
<1> QED
  BY <1>2 DEF RoundFrom

LEMMA SetTurns ==
  ASSUME TypeOK', NEW cs \in Seq(Consumer), SetConsumers(cs), rr' \in Nat
  PROVE  Turns'
<1> SUFFICES ASSUME consumers' # <<>> PROVE Turns'
  BY DEF Turns
<1> DEFINE n == Len(consumers')
           s == rr' % n
<1>1. n \in Int /\ n > 0
  BY EmptySeq, LenProperties DEF TypeOK
<1>2. s \in 0..(n - 1)
  BY <1>1, NextTurnModulo
<1>3. \A i \in DOMAIN picks' : picks'[i] = 0
  BY DEF SetConsumers
<1>4. \A i \in Int : ~Passed(s, s, i - 1)
  BY <1>2 DEF Passed
<1>5. DOMAIN picks' \subseteq Int
  BY LenProperties DEF TypeOK
<1>6. \A i \in DOMAIN picks' : picks'[i] = IF Passed(s, s, i - 1) THEN 0 + 1 ELSE 0
  BY <1>3, <1>4, <1>5
<1> HIDE DEF s
<1>7. \E t \in 0..(n - 1), b \in Nat :
        \A i \in DOMAIN picks' : picks'[i] = IF Passed(t, s, i - 1) THEN b + 1 ELSE b
  BY <1>2, <1>6
<1> QED
  BY <1>7 DEF Turns, RoundFrom, Passed, s

LEMMA SameTurns ==
  ASSUME Turns, UNCHANGED <<consumers, rr, picks>>
  PROVE  Turns'
BY DEF Turns, RoundFrom

LEMMA ChooseTurns ==
  ASSUME TypeOK, Turns, NEW w \in Workers, Choose(w)
  PROVE  Turns'
<1>1. CASE consumers = <<>>
  <2>1. consumers' = consumers
    BY DEF Choose
  <2> QED
    BY <1>1, <2>1 DEF Turns
<1>2. CASE consumers # <<>>
  <2> DEFINE n == Len(consumers)
             p == rr % n
             next == (rr + 1) % n
  <2>1. /\ rr' = rr + 1 /\ consumers' = consumers
        /\ picks' = [picks EXCEPT ![p + 1] = @ + 1]
    BY <1>2 DEF Choose, NextTurn
  <2>2. /\ n \in Int /\ n > 0 /\ rr \in Int /\ DOMAIN picks = 1..n
        /\ picks \in [1..n -> Nat]
    BY <1>2, EmptySeq, LenProperties DEF TypeOK
  <2>3. p \in 0..(n - 1) /\ next = IF p + 1 = n THEN 0 ELSE p + 1
    BY <2>2, NextTurnModulo
  <2>4. PICK s \in 0..(n - 1), b \in Nat :
          \A i \in 1..n : picks[i] = IF Passed(s, p, i - 1) THEN b + 1 ELSE b
    BY <1>2, <2>2 DEF Turns, RoundFrom
  <2> HIDE DEF n, p, next
  <2>5. /\ picks'[p + 1] = b + 1 /\ DOMAIN picks' = 1..n
        /\ \A i \in 1..n : i # p + 1 => picks'[i] = picks[i]
    <3>1. p + 1 \in 1..n /\ ~Passed(s, p, p)
      BY <2>2, <2>3, <2>4 DEF Passed
    <3>2. picks[p + 1] = b
      BY <2>2, <2>3, <2>4, <3>1
    <3> QED
      BY <2>1, <2>2, <3>1, <3>2
  <2>6. \E t \in 0..(n - 1), d \in Nat :
          \A i \in 1..n : picks'[i] = IF Passed(t, next, i - 1) THEN d + 1 ELSE d
    <3>1. CASE next = s
      <4>1. \A i \in 1..n : i # p + 1 => Passed(s, p, i - 1)
        BY <2>2, <2>3, <2>4, <3>1 DEF Passed
      <4>2. \A i \in 1..n : ~Passed(s, next, i - 1)
        BY <2>2, <2>4, <3>1 DEF Passed
      <4>3. \A i \in 1..n : picks'[i] = b + 1
        BY <2>4, <2>5, <4>1
      <4>4. b + 1 \in Nat
        BY <2>4
      <4> QED
        BY <2>4, <4>2, <4>3, <4>4
    <3>2. CASE next # s
      <4>1. \A i \in 1..n : Passed(s, next, i - 1) <=> Passed(s, p, i - 1) \/ i = p + 1
        BY <2>2, <2>3, <2>4, <3>2 DEF Passed
      <4>2. \A i \in 1..n : picks'[i] = IF Passed(s, next, i - 1) THEN b + 1 ELSE b
        BY <2>4, <2>5, <4>1
      <4> QED
        BY <2>4, <4>2
    <3> QED
      BY <3>1, <3>2
  <2> QED
    <3>1. n = Len(consumers') /\ next = rr' % Len(consumers')
      BY <2>1 DEF n, next
    <3> QED
      BY <2>5, <2>6, <3>1 DEF Turns, RoundFrom
<1> QED
  BY <1>1, <1>2

LEMMA DestroyTurns ==
  ASSUME TypeOK, TypeOK', TagsDiffer, Turns, NEW c \in Channels, Destroy(c), UNCHANGED rr
  PROVE  Turns'
<1>1. CASE UNCHANGED <<consumers, picks>>
  BY <1>1, SameTurns
<1>2. CASE SetConsumers(Without(consumers, own[c]))
  <2>1. Without(consumers, own[c]) \in Seq(Consumer) /\ rr' \in Nat
    BY UniqueTags DEF TagsDiffer, TypeOK
  <2> QED
    BY <1>2, <2>1, SetTurns
<1> QED
  BY <1>1, <1>2 DEF Destroy

LEMMA NextTurns ==
  ASSUME TypeOK, TypeOK', TagsDiffer, Turns, [Next]_vars
  PROVE  Turns'
<1>1. ASSUME NEW c \in Channels, Request(c) PROVE Turns'
  <2>1. ASSUME NEW k \in Conns, OpenChannel(c, k) PROVE Turns'
    BY <2>1, SameTurns DEF OpenChannel, registry
  <2>2. CASE CloseChannel(c)
    BY <2>2, DestroyTurns DEF CloseChannel
  <2>3. ASSUME NEW m \in Msgs, PublishInsert(c, m) \/ Ack(c, m) PROVE Turns'
    BY <2>3, SameTurns DEF PublishInsert, Ack, registry
  <2>4. ASSUME NEW tag \in Tags, NEW auto \in BOOLEAN, Subscribe(c, tag, auto) PROVE Turns'
    <3> DEFINE new == [tag |-> tag, chan |-> c, auto |-> auto]
    <3>1. UNCHANGED rr /\ (SetConsumers(Append(consumers, new)) \/ UNCHANGED <<consumers, picks>>)
      BY <2>4 DEF Subscribe
    <3>2. new \in Consumer
      BY DEF Consumer
    <3>3. Append(consumers, new) \in Seq(Consumer) /\ rr' \in Nat
      BY <3>1, <3>2, AppendProperties DEF TypeOK
    <3> HIDE DEF new
    <3> QED
      BY <3>1, <3>3, SetTurns, SameTurns
  <2>5. CASE Cancel(c)
    <3>1. SetConsumers(Without(consumers, subscribed[c])) /\ UNCHANGED rr
      BY <2>5 DEF Cancel
    <3>2. Without(consumers, subscribed[c]) \in Seq(Consumer) /\ rr' \in Nat
      BY UniqueTags DEF TagsDiffer, TypeOK
    <3> QED
      BY <3>1, <3>2, SetTurns
  <2>6. CASE DeleteConsumers(c)
    <3>1. SetConsumers(<<>>) /\ <<>> \in Seq(Consumer) /\ rr' \in Nat
      BY <2>6, EmptySeq DEF DeleteConsumers, TypeOK
    <3> QED
      BY <3>1, SetTurns
  <2>7. CASE DeclareMessages(c)
    BY <2>7, SameTurns DEF DeclareMessages, registry
  <2> QED
    BY <1>1, <2>1, <2>2, <2>3, <2>4, <2>5, <2>6, <2>7 DEF Request
<1>2. CASE PublishTask \/ DeleteMessages \/ DeclareConsumers
  BY <1>2, SameTurns DEF PublishTask, DeleteMessages, DeclareConsumers, registry
<1>3. ASSUME NEW c \in Channels, DestroyLost(c) PROVE Turns'
  BY <1>3, DestroyTurns DEF DestroyLost
<1>4. ASSUME NEW k \in Conns, LoseConnection(k) PROVE Turns'
  BY <1>4, SameTurns DEF LoseConnection, registry
<1>5. ASSUME NEW w \in Workers, Work(w) PROVE Turns'
  <2>1. CASE Choose(w)
    BY <2>1, ChooseTurns
  <2>2. CASE TakeBatch(w) \/ StartTask(w) \/ Front(w) \/ Push(w) \/ AutoAck(w) \/ Die(w)
    BY <2>2, SameTurns DEF TakeBatch, StartTask, Front, Push, AutoAck, Die, registry
  <2> QED
    BY <1>5, <2>1, <2>2 DEF Work
<1>6. CASE UNCHANGED vars
  BY <1>6, SameTurns DEF vars
<1> QED
  BY <1>1, <1>2, <1>3, <1>4, <1>5, <1>6 DEF Next, Finish

-----------------------------------------------------------------------------
(* Tasks.  A publish owes one task for the message it inserts, the vector   *)
(* moves to a worker as a whole, and a worker that begins a task gives it   *)
(* up only with a message or when the queue is empty.                       *)

Ledger == IsFiniteSet(Taken) /\ IsFiniteSet(Begun) /\ QueueHasItsTasks

LEMMA InitLedger == Init => Ledger
<1> SUFFICES ASSUME Init PROVE Ledger
  OBVIOUS
<1>1. Taken = {} /\ Begun = {}
  BY EmptySeq DEF Init, Taken, Begun
<1>2. IsFiniteSet({}) /\ Cardinality({}) = 0
  BY FS_EmptySet
<1>3. Len(tasks) = 0 /\ recovered = Len(msgs) /\ io = "ready"
  BY DEF Init
<1>4. Len(msgs) \in Nat
  BY InitTypes, LenProperties DEF Types, TypeOK
<1> QED
  BY <1>1, <1>2, <1>3, <1>4 DEF Ledger, QueueHasItsTasks, PendingTasks

\* What was taken and not started, as pairs.
LEMMA TakenPairs ==
  \A x : x \in Taken <=> \E w \in Workers : \E i \in DOMAIN batch[w] : x = <<w, i>>
BY DEF Taken

LEMMA TakenPairsAfter ==
  \A x : x \in Taken' <=> \E w \in Workers : \E i \in DOMAIN batch'[w] : x = <<w, i>>
BY DEF Taken

LEMMA SameTasks ==
  ASSUME TypeOK, Ledger, UNCHANGED <<batch, wpc, tasks, recovered>>,
         \/ UNCHANGED <<msgs, io>>
         \/ UNCHANGED msgs /\ io # "publish" /\ io # "dead" /\ io' # "publish"
         \/ msgs' = <<>> /\ io' # "publish"
         \/ io' = "dead"
  PROVE  Ledger'
<1>1. Taken' = Taken /\ Begun' = Begun
  BY DEF Taken, Begun
<1>2. /\ Cardinality(Taken) \in Nat /\ Cardinality(Begun) \in Nat
      /\ Len(tasks) \in Nat /\ recovered \in Nat
  BY FS_CardinalityType, LenProperties DEF Ledger, TypeOK
<1>3. Len(<<>>) = 0
  BY EmptySeq
<1> QED
  BY <1>1, <1>2, <1>3 DEF Ledger, QueueHasItsTasks, PendingTasks

\* The message and the task it is owed.
LEMMA PublishLedger ==
  ASSUME TypeOK, Ledger, NEW c \in Channels, NEW m,
         (m \in Msgs /\ PublishInsert(c, m)) \/ (PublishTask /\ iochan = c)
  PROVE  Ledger'
<1>1. Taken' = Taken /\ Begun' = Begun
  BY DEF Taken, Begun, PublishInsert, PublishTask, pool, worker
<1>2. /\ Cardinality(Taken) \in Nat /\ Cardinality(Begun) \in Nat
      /\ Len(tasks) \in Nat /\ Len(msgs) \in Nat /\ recovered \in Nat
  BY FS_CardinalityType, LenProperties DEF Ledger, TypeOK
<1>3. CASE m \in Msgs /\ PublishInsert(c, m)
  <2>1. Len(msgs') = Len(msgs) + 1
    BY <1>3, AppendProperties DEF PublishInsert, TypeOK
  <2>2. io = "ready" /\ io' = "publish" /\ UNCHANGED <<tasks, recovered>>
    BY <1>3 DEF PublishInsert, Handles, pool
  <2> QED
    BY <1>1, <1>2, <2>1, <2>2 DEF Ledger, QueueHasItsTasks, PendingTasks
<1>4. CASE PublishTask /\ iochan = c
  <2>1. Len(tasks') = Len(tasks) + 1
    BY <1>4, AppendProperties DEF PublishTask, TypeOK
  <2>2. io = "publish" /\ io' = "ready" /\ UNCHANGED <<msgs, recovered>>
    BY <1>4 DEF PublishTask, queue, history
  <2> QED
    BY <1>1, <1>2, <2>1, <2>2 DEF Ledger, QueueHasItsTasks, PendingTasks
<1> QED
  BY <1>3, <1>4

\* A worker that had nothing left has all that was in the vector.
LEMMA TakeLedger ==
  ASSUME TypeOK, Ledger, NEW w \in Workers, TakeBatch(w)
  PROVE  Ledger'
<1> DEFINE more == {w} \X (1..Len(tasks))
<1>0. Len(tasks) \in Nat /\ DOMAIN tasks = 1..Len(tasks) /\ DOMAIN batch[w] = {}
  BY EmptySeq, LenProperties DEF TakeBatch, TypeOK
<1>1. Taken' = Taken \cup more
  <2>1. /\ batch'[w] = tasks
        /\ \A v \in Workers : v # w => batch'[v] = batch[v]
    BY DEF TakeBatch, TypeOK
  <2>2. \A x : x \in more <=> \E i \in 1..Len(tasks) : x = <<w, i>>
    OBVIOUS
  <2> HIDE DEF more
  <2> QED
    BY <1>0, <2>1, <2>2, TakenPairs, TakenPairsAfter
<1>2. Taken \cap more = {}
  BY <1>0, TakenPairs
<1>3. IsFiniteSet(more) /\ Cardinality(more) = Len(tasks)
  <2>1. IsFiniteSet({w}) /\ Cardinality({w}) = 1
    BY FS_Singleton
  <2>2. IsFiniteSet(1..Len(tasks)) /\ Cardinality(1..Len(tasks)) = Len(tasks)
    <3> DEFINE n == Len(tasks)
    <3>1. n \in Nat
      BY <1>0
    <3> HIDE DEF n
    <3>2. IsFiniteSet(1..n) /\ Cardinality(1..n) = IF 1 > n THEN 0 ELSE n - 1 + 1
      BY <3>1, FS_Interval
    <3>3. IsFiniteSet(1..n) /\ Cardinality(1..n) = n
      BY <3>1, <3>2
    <3> QED
      BY <3>3 DEF n
  <2>3. IsFiniteSet(more) /\ Cardinality(more) = 1 * Len(tasks)
    <3> DEFINE W == {w}
               T == 1..Len(tasks)
    <3> HIDE DEF W, T
    <3>1. IsFiniteSet(W) /\ IsFiniteSet(T) /\ Cardinality(W) = 1 /\ Cardinality(T) = Len(tasks)
      BY <2>1, <2>2 DEF W, T
    <3>2. IsFiniteSet(W \X T) /\ Cardinality(W \X T) = Cardinality(W) * Cardinality(T)
      BY <3>1, FS_Product
    <3>3. more = W \X T
      BY DEF W, T
    <3> QED
      BY <3>1, <3>2, <3>3
  <2>4. 1 * Len(tasks) = Len(tasks)
    <3>1. \A n \in Nat : 1 * n = n
      OBVIOUS
    <3> QED
      BY <1>0, <3>1
  <2> HIDE DEF more
  <2> QED
    BY <2>3, <2>4
<1> HIDE DEF more
<1>4. IsFiniteSet(Taken') /\ Cardinality(Taken') = Cardinality(Taken) + Len(tasks)
  <2>1. IsFiniteSet(Taken) /\ Cardinality(Taken) \in Nat
    BY FS_CardinalityType DEF Ledger
  <2>2. /\ IsFiniteSet(Taken \cup more)
        /\ Cardinality(Taken \cup more) = Cardinality(Taken) + Cardinality(more) - Cardinality(Taken \cap more)
    BY <1>3, <2>1, FS_Union
  <2>3. Cardinality(Taken \cap more) = 0
    BY <1>2, FS_EmptySet
  <2>4. IsFiniteSet(Taken') /\ Cardinality(Taken') = Cardinality(Taken \cup more)
    BY <1>1, <2>2
  <2> QED
    BY <1>0, <1>3, <2>1, <2>2, <2>3, <2>4
<1>5. Begun' = Begun
  BY DEF Begun, TakeBatch, worker
<1>6. Len(tasks') = 0 /\ UNCHANGED <<msgs, io, recovered>>
  BY EmptySeq DEF TakeBatch, queue, handler, history
<1>7. Cardinality(Taken) \in Nat /\ Cardinality(Begun) \in Nat
  BY FS_CardinalityType DEF Ledger
<1> QED
  BY <1>0, <1>4, <1>5, <1>6, <1>7 DEF Ledger, QueueHasItsTasks, PendingTasks

\* The task a worker starts is one it had taken.
LEMMA StartLedger ==
  ASSUME TypeOK, Ledger, NEW w \in Workers, StartTask(w)
  PROVE  Ledger'
<1> DEFINE n == Len(batch[w])
<1>0. n \in Nat /\ n > 0 /\ DOMAIN batch[w] = 1..n
  BY EmptySeq, LenProperties DEF StartTask, TypeOK
<1>1. DOMAIN batch'[w] = 1..(n - 1) /\ \A v \in Workers : v # w => batch'[v] = batch[v]
  <2>1. Tail(batch[w]) \in Seq(Channels) /\ Len(Tail(batch[w])) = n - 1
    BY HeadTailProperties DEF StartTask, TypeOK
  <2> QED
    BY <2>1, LenProperties DEF StartTask, TypeOK
<1>2. <<w, n>> \in Taken
  BY <1>0, TakenPairs
<1>3. Taken' = Taken \ {<<w, n>>}
  <2> HIDE DEF n
  <2>1. \A x \in Taken' : x \in Taken /\ x # <<w, n>>
    BY <1>0, <1>1, TakenPairs, TakenPairsAfter
  <2>2. \A x \in Taken : x # <<w, n>> => x \in Taken'
    <3> SUFFICES ASSUME NEW v \in Workers, NEW i \in DOMAIN batch[v], <<v, i>> # <<w, n>>
                 PROVE  <<v, i>> \in Taken'
      BY TakenPairs
    <3>1. i \in DOMAIN batch'[v]
      BY <1>0, <1>1
    <3> QED
      BY <3>1, TakenPairsAfter
  <2> QED
    BY <2>1, <2>2
<1>4. IsFiniteSet(Taken') /\ Cardinality(Taken') = Cardinality(Taken) - 1
  BY <1>2, <1>3, FS_RemoveElement DEF Ledger
<1>5. Begun' = Begun \cup {w} /\ w \notin Begun
  BY DEF Begun, StartTask, TypeOK
<1>6. IsFiniteSet(Begun') /\ Cardinality(Begun') = Cardinality(Begun) + 1
  BY <1>5, FS_AddElement DEF Ledger
<1>7. UNCHANGED <<tasks, msgs, io, recovered>>
  BY DEF StartTask, queue, handler, history
<1>8. Cardinality(Taken) \in Nat /\ Cardinality(Begun) \in Nat
  BY FS_CardinalityType DEF Ledger
<1> HIDE DEF n
<1> QED
  BY <1>4, <1>6, <1>7, <1>8 DEF Ledger, QueueHasItsTasks, PendingTasks

\* A task is spent on a message, or on an empty queue.
LEMMA FrontLedger ==
  ASSUME TypeOK, Ledger, NEW w \in Workers, Front(w), io # "dead"
  PROVE  Ledger'
<1>1. Taken' = Taken
  BY DEF Taken, Front, pool
<1>2. w \in Begun
  BY DEF Begun, Front
<1>3. Begun' = Begun \ {w}
  BY DEF Begun, Front, EndTask, TypeOK
<1>4. IsFiniteSet(Begun') /\ Cardinality(Begun') = Cardinality(Begun) - 1
  BY <1>2, <1>3, FS_RemoveElement DEF Ledger
<1>5. UNCHANGED <<tasks, io, recovered>>
  BY DEF Front, pool, handler, history
<1>6. /\ Cardinality(Taken) \in Nat /\ Cardinality(Begun') \in Nat
      /\ Cardinality(Begun) \in Nat
      /\ Len(tasks) \in Nat /\ recovered \in Nat
  BY <1>4, FS_CardinalityType, LenProperties DEF Ledger, TypeOK
<1>7. \/ Len(msgs') = Len(msgs) - 1 /\ Len(msgs) \in Nat
      \/ Len(msgs') = 0
  BY EmptySeq, HeadTailProperties, LenProperties DEF Front, TypeOK
<1>8. /\ PendingTasks \in Nat /\ PendingTasks' \in Nat
      /\ PendingTasks' = PendingTasks - 1
  BY <1>1, <1>4, <1>5, <1>6 DEF PendingTasks
<1>9. Len(msgs) <= PendingTasks + recovered
  BY DEF Ledger, QueueHasItsTasks
<1>10. Len(msgs') <= PendingTasks' + recovered'
  BY <1>5, <1>6, <1>7, <1>8, <1>9
<1> QED
  BY <1>1, <1>4, <1>10 DEF Ledger, QueueHasItsTasks

LEMMA WorkLedger ==
  ASSUME TypeOK, Ledger, NEW w \in Workers, Work(w)
  PROVE  Ledger'
<1>1. CASE TakeBatch(w)
  BY <1>1, TakeLedger
<1>2. CASE StartTask(w)
  BY <1>2, StartLedger
<1>3. CASE Front(w)
  BY <1>3, FrontLedger DEF Work
<1>4. ASSUME wpc[w] \in {"choose", "push", "ack"}, wpc'[w] # "front",
             \A v \in Workers : v # w => wpc'[v] = wpc[v],
             UNCHANGED <<batch, tasks, recovered, msgs, io>>
      PROVE  Ledger'
  <2>1. Taken' = Taken /\ Begun' = Begun
    BY <1>4 DEF Taken, Begun
  <2> QED
    BY <1>4, <2>1 DEF Ledger, QueueHasItsTasks, PendingTasks
<1>5. CASE Choose(w)
  BY <1>4, <1>5
  DEF Choose, EndTask, TypeOK, queue, pool, handler, history
<1>6. CASE Push(w)
  BY <1>4, <1>6
  DEF Push, EndTask, TypeOK, queue, pool, handler
<1>7. CASE AutoAck(w)
  BY <1>4, <1>7
  DEF AutoAck, EndTask, TypeOK, pool, handler
<1>8. CASE Die(w)
  BY <1>8, SameTasks DEF Die, queue, pool, worker, history
<1> QED
  BY <1>1, <1>2, <1>3, <1>5, <1>6, <1>7, <1>8 DEF Work

LEMMA NextLedger ==
  ASSUME Types, Ledger, [Next]_vars
  PROVE  Ledger'
<1>0. TypeOK /\ HandlerOK
  BY DEF Types
<1>1. ASSUME NEW c \in Channels, NEW m \in Msgs, PublishInsert(c, m) PROVE Ledger'
  BY <1>0, <1>1, PublishLedger
<1>2. ASSUME NEW c \in Channels, Request(c), ~\E m \in Msgs : PublishInsert(c, m)
      PROVE  Ledger'
  <2>1. /\ UNCHANGED <<batch, wpc, tasks, recovered, msgs>>
        /\ io = "ready" /\ io' # "publish"
    BY <1>2 DEF Request, OpenChannel, CloseChannel, Ack, Subscribe, Cancel,
      DeleteConsumers, DeclareMessages, Handles, queue, pool, worker, handler, history
  <2> QED
    BY <1>0, <2>1, SameTasks
<1>3. ASSUME PublishTask PROVE Ledger'
  <2>1. iochan \in Channels
    BY <1>0, <1>3 DEF PublishTask, HandlerOK
  <2> QED
    BY <1>0, <1>3, <2>1, PublishLedger
<1>4. ASSUME DeleteMessages \/ DeclareConsumers
             \/ (\E c \in Channels : DestroyLost(c)) \/ (\E k \in Conns : LoseConnection(k))
      PROVE  Ledger'
  <2>1. /\ UNCHANGED <<batch, wpc, tasks, recovered>>
        /\ io # "publish" /\ io # "dead" /\ io' # "publish"
        /\ msgs' = msgs \/ msgs' = <<>>
    BY <1>4 DEF DeleteMessages, DeclareConsumers, DestroyLost, LoseConnection,
      queue, pool, worker, history
  <2> QED
    BY <1>0, <2>1, SameTasks
<1>5. ASSUME NEW w \in Workers, Work(w) PROVE Ledger'
  BY <1>0, <1>5, WorkLedger
<1>6. CASE UNCHANGED vars
  BY <1>0, <1>6, SameTasks DEF vars
<1> QED
  BY <1>1, <1>2, <1>3, <1>4, <1>5, <1>6 DEF Next, Finish

-----------------------------------------------------------------------------
IInv == Types /\ Custody /\ Registry /\ Turns /\ Ledger

LEMMA InitIInv == Init => IInv
<1>1. Init => Turns
  BY DEF Init, Turns
<1> QED
  BY <1>1, InitTypes, InitCustody, InitRegistry, InitLedger DEF IInv

LEMMA NextIInv == IInv /\ [Next]_vars => IInv'
<1> SUFFICES ASSUME IInv, [Next]_vars PROVE IInv'
  OBVIOUS
<1>0. Types /\ TypeOK /\ Custody /\ Registry /\ TagsDiffer /\ Turns /\ Ledger
  BY DEF IInv, Types, Registry
<1>1. ASSUME NEW c \in Channels, Request(c) PROVE Types' /\ Custody' /\ Registry'
  BY <1>0, <1>1, RequestTypes, RequestCustody, RequestRegistry
<1>2. ASSUME Finish \/ \E k \in Conns : LoseConnection(k)
      PROVE  Types' /\ Custody' /\ Registry'
  <2>1. Types'
    BY <1>0, <1>2, HandlerTypes
  <2>2. Custody'
    BY <1>0, <1>2, HandlerCustody
  <2>3. Registry'
    BY <1>0, <1>2, OthersRegistry
  <2> QED
    BY <2>1, <2>2, <2>3
<1>3. ASSUME NEW w \in Workers, Work(w) PROVE Types' /\ Custody' /\ Registry'
  <2>1. wpc[w] \in {"choose", "push", "ack"} => wmsg[w] \in Msgs
    BY <1>0, PublishedMessages DEF Custody, Holds
  <2> QED
    BY <1>0, <1>3, <2>1, WorkTypes, WorkCustody, OthersRegistry
<1>4. ASSUME UNCHANGED vars PROVE Types' /\ Custody' /\ Registry'
  <2>1. Types'
    BY <1>0, <1>4 DEF vars, Types, TypeOK, HandlerOK
  <2>2. /\ UNCHANGED <<msgs, waitack, log, pushes, gone, wpc, wmsg>>
        /\ UNCHANGED <<consumers, chan, own, subscribed>>
    BY <1>4 DEF vars
  <2> QED
    BY <1>0, <2>1, <2>2, SameCustody, SameRegistry
<1>5. Types' /\ Custody' /\ Registry'
  BY <1>1, <1>2, <1>3, <1>4, Zenon DEF Next
<1>6. Turns'
  BY <1>0, <1>5, NextTurns DEF Types
<1>7. Ledger'
  BY <1>0, NextLedger
<1> QED
  BY <1>5, <1>6, <1>7 DEF IInv

LEMMA AlwaysIInv == Spec => []IInv
BY InitIInv, NextIInv, PTL DEF Spec

\* The state keeps to its types, and between two handlers a queue has both its
\* handles or neither.
THEOREM TypeCorrect == Spec => []TypeOK
<1>1. IInv => TypeOK
  BY DEF IInv, Types
<1> QED
  BY <1>1, AlwaysIInv, PTL

\* No message is lost or in two places, whatever the order of handlers, workers
\* and lost connections.
THEOREM MessagesAreKept == Spec => []PublishedIsKept
<1>1. IInv => PublishedIsKept
  BY DEF IInv, Custody
<1> QED
  BY <1>1, AlwaysIInv, PTL

\* No message is sent twice, for any number of workers.
THEOREM NothingIsPushedTwice == Spec => []PushedAtMostOnce
<1>1. IInv => PushedAtMostOnce
  BY DEF IInv, Custody, SentOnce
<1> QED
  BY <1>1, AlwaysIInv, PTL

\* The queue is never longer than the tasks that are still to run, but for the
\* messages recovered at the start, for any number of workers and whatever the
\* vector of tasks is cut into.
THEOREM MessagesHaveTasks == Spec => []QueueHasItsTasks
<1>1. IInv => QueueHasItsTasks
  BY DEF IInv, Ledger
<1> QED
  BY <1>1, AlwaysIInv, PTL

\* The registry holds consumers of open channels only, one for each tag.
THEOREM NoConsumerIsLeftBehind == Spec => []ConsumersAreOpen
<1>1. IInv => ConsumersAreOpen
  BY DEF IInv, Registry, Owned, TagsDiffer, ConsumersAreOpen
<1> QED
  BY <1>1, AlwaysIInv, PTL

\* The round robin is even, for any number of consumers.
THEOREM RoundRobinStaysEven == Spec => []RoundRobinIsEven
<1>1. IInv => RoundRobinIsEven
  BY TurnsAreEven DEF IInv, Types
<1> QED
  BY <1>1, AlwaysIInv, PTL

-----------------------------------------------------------------------------
(* Workers, tasks, handlers and channels implement Dispatch.  The queue is   *)
(* the end of the log, so its head is the oldest message waiting; a worker   *)
(* has a message and a consumer that no other worker has, so a push is the   *)
(* dispatcher's Send; and what a worker acknowledges it sent, so that if the *)
(* message waits no more it was deleted with the queue.                      *)

InOrder ==
  /\ \A i, j \in DOMAIN log : log[i] = log[j] => i = j
  /\ Len(msgs) <= Len(log)
  /\ \A i \in DOMAIN msgs : msgs[i] = log[Len(log) - Len(msgs) + i]

SentBeforeAck == \A w \in Workers : wpc[w] = "ack" => pushes[wmsg[w]] > 0

LEMMA InitInOrder == Init => InOrder /\ SentBeforeAck
<1> SUFFICES ASSUME Init PROVE InOrder /\ SentBeforeAck
  OBVIOUS
<1>1. msgs \in Seq(Msgs) /\ log = msgs /\ \A i, j \in DOMAIN msgs : msgs[i] = msgs[j] => i = j
  BY DeliveryAssumption DEF Init
<1>2. DOMAIN msgs = 1..Len(msgs) /\ Len(msgs) \in Nat
  BY <1>1, LenProperties
<1>3. \A i \in DOMAIN msgs : Len(log) - Len(msgs) + i = i
  BY <1>1, <1>2
<1> QED
  BY <1>1, <1>2, <1>3 DEF Init, InOrder, SentBeforeAck

\* The queue and the log get the same message at their ends.
LEMMA PublishInOrder ==
  ASSUME TypeOK, Custody, InOrder, NEW c \in Channels, NEW m \in Msgs, PublishInsert(c, m)
  PROVE  InOrder'
<1>1. /\ log \in Seq(Msgs) /\ log' = Append(log, m) /\ m \in Msgs \ Range(log)
      /\ msgs \in Seq(Msgs) /\ msgs' = Append(msgs, m)
      /\ \A i, j \in DOMAIN log : log[i] = log[j] => i = j
  BY DEF PublishInsert, TypeOK, InOrder
<1>2. \A i, j \in DOMAIN log' : log'[i] = log'[j] => i = j
  BY <1>1, AppendRange
<1>3. /\ Len(log) \in Nat /\ Len(log') = Len(log) + 1 /\ log'[Len(log) + 1] = m
      /\ \A i \in 1..Len(log) : log'[i] = log[i]
  BY <1>1, AppendProperties, LenProperties
<1>4. /\ Len(msgs) \in Nat /\ Len(msgs') = Len(msgs) + 1 /\ msgs'[Len(msgs) + 1] = m
      /\ \A i \in 1..Len(msgs) : msgs'[i] = msgs[i]
      /\ DOMAIN msgs = 1..Len(msgs) /\ DOMAIN msgs' = 1..(Len(msgs) + 1)
  BY <1>1, AppendProperties, LenProperties
<1>5. Len(msgs) <= Len(log)
  BY DEF InOrder
<1>6. ASSUME NEW i \in DOMAIN msgs' PROVE msgs'[i] = log'[Len(log') - Len(msgs') + i]
  <2>1. CASE i = Len(msgs) + 1
    <3>1. Len(log') - Len(msgs') + i = Len(log) + 1
      BY <1>3, <1>4, <2>1
    <3> QED
      BY <1>3, <1>4, <2>1, <3>1
  <2>2. CASE i # Len(msgs) + 1
    <3> DEFINE k == Len(log) - Len(msgs) + i
    <3>1. i \in 1..Len(msgs) /\ k \in 1..Len(log) /\ Len(log') - Len(msgs') + i = k
      BY <1>3, <1>4, <1>5, <2>2
    <3>2. msgs[i] = log[k]
      BY <1>4, <3>1 DEF InOrder
    <3> HIDE DEF k
    <3>3. msgs'[i] = msgs[i] /\ log'[k] = log[k]
      BY <1>3, <1>4, <3>1
    <3> QED
      BY <3>1, <3>2, <3>3
  <2> QED
    BY <2>1, <2>2
<1>7. Len(msgs') <= Len(log')
  BY <1>3, <1>4, <1>5
<1> QED
  BY <1>2, <1>6, <1>7 DEF InOrder

\* The head leaves, and what is left is still the end of the log.
LEMMA FrontInOrder ==
  ASSUME TypeOK, InOrder, msgs # <<>>, msgs' = Tail(msgs), UNCHANGED log
  PROVE  InOrder'
<1>1. /\ msgs \in Seq(Msgs) /\ Len(log) \in Nat
      /\ \A i, j \in DOMAIN log : log[i] = log[j] => i = j
      /\ Len(msgs) <= Len(log)
  BY LenProperties DEF TypeOK, InOrder
<1>2. /\ Len(msgs) \in Nat \ {0} /\ Len(msgs') = Len(msgs) - 1 /\ msgs' \in Seq(Msgs)
      /\ \A i \in 1..Len(msgs') : msgs'[i] = msgs[i + 1]
      /\ DOMAIN msgs = 1..Len(msgs) /\ DOMAIN msgs' = 1..Len(msgs')
  BY <1>1, HeadTailProperties, EmptySeq, LenProperties
<1>3. ASSUME NEW i \in DOMAIN msgs' PROVE msgs'[i] = log[Len(log) - Len(msgs') + i]
  <2>1. i + 1 \in DOMAIN msgs /\ msgs'[i] = msgs[i + 1]
    BY <1>2
  <2>2. msgs[i + 1] = log[Len(log) - Len(msgs) + (i + 1)]
    BY <2>1 DEF InOrder
  <2>3. Len(log) - Len(msgs) + (i + 1) = Len(log) - Len(msgs') + i
    BY <1>1, <1>2
  <2> QED
    BY <2>1, <2>2, <2>3
<1>4. Len(msgs') <= Len(log)
  BY <1>1, <1>2
<1> QED
  BY <1>1, <1>3, <1>4 DEF InOrder

LEMMA NextInOrder ==
  TypeOK /\ Custody /\ InOrder /\ [Next]_vars => InOrder'
<1> SUFFICES ASSUME TypeOK, Custody, InOrder, [Next]_vars PROVE InOrder'
  OBVIOUS
<1>1. ASSUME UNCHANGED <<msgs, log>> PROVE InOrder'
  BY <1>1 DEF InOrder
<1>2. ASSUME NEW c \in Channels, NEW m \in Msgs, PublishInsert(c, m) PROVE InOrder'
  BY <1>2, PublishInOrder
<1>3. ASSUME DeleteMessages PROVE InOrder'
  <2>1. msgs' = <<>> /\ log' = log /\ Len(<<>>) = 0 /\ DOMAIN <<>> = {} /\ Len(log) \in Nat
    BY <1>3, LenProperties DEF DeleteMessages, TypeOK
  <2> QED
    BY <2>1 DEF InOrder
<1>4. ASSUME NEW w \in Workers, Front(w) PROVE InOrder'
  <2>1. CASE msgs = <<>>
    BY <1>1, <1>4, <2>1 DEF Front, history
  <2>2. CASE msgs # <<>>
    BY <1>4, <2>2, FrontInOrder DEF Front, history
  <2> QED
    BY <2>1, <2>2
<1>5. ASSUME NEW c \in Channels, Request(c), \A m \in Msgs : ~PublishInsert(c, m)
      PROVE  UNCHANGED <<msgs, log>>
  BY <1>5 DEF Request, OpenChannel, CloseChannel, Ack, Subscribe, Cancel,
    DeleteConsumers, DeclareMessages, queue, history
<1>6. ASSUME \/ PublishTask \/ DeclareConsumers \/ \E k \in Conns : LoseConnection(k)
             \/ \E c \in Channels : DestroyLost(c)
      PROVE  UNCHANGED <<msgs, log>>
  BY <1>6 DEF PublishTask, DeclareConsumers, LoseConnection, DestroyLost, queue, history
<1>7. ASSUME NEW w \in Workers, Work(w), ~Front(w) PROVE UNCHANGED <<msgs, log>>
  BY <1>7 DEF Work, TakeBatch, StartTask, Choose, Push, AutoAck, Die, queue, history
<1>8. CASE UNCHANGED vars
  BY <1>1, <1>8 DEF vars
<1> QED
  BY <1>1, <1>2, <1>3, <1>4, <1>5, <1>6, <1>7, <1>8 DEF Next, Finish

LEMMA NextSentBeforeAck ==
  TypeOK /\ Custody /\ SentBeforeAck /\ [Next]_vars => SentBeforeAck'
<1> SUFFICES ASSUME TypeOK, Custody, SentBeforeAck, [Next]_vars PROVE SentBeforeAck'
  OBVIOUS
<1>1. ASSUME UNCHANGED <<pushes, wmsg, wpc>> PROVE SentBeforeAck'
  BY <1>1 DEF SentBeforeAck
<1>2. ASSUME NEW c \in Channels, Request(c) PROVE UNCHANGED <<pushes, wmsg, wpc>>
  BY <1>2 DEF Request, OpenChannel, CloseChannel, PublishInsert, Ack, Subscribe, Cancel,
    DeleteConsumers, DeclareMessages, worker, history
<1>3. ASSUME Finish \/ \E k \in Conns : LoseConnection(k)
      PROVE  UNCHANGED <<pushes, wmsg, wpc>>
  BY <1>3 DEF Finish, PublishTask, DeleteMessages, DeclareConsumers, DestroyLost,
    LoseConnection, worker, history
<1>4. ASSUME NEW w \in Workers, Work(w) PROVE SentBeforeAck'
  <2>0. /\ wpc \in [Workers -> {"idle", "front", "choose", "push", "ack"}]
        /\ wmsg \in [Workers -> Msgs \cup {NoMsg}] /\ pushes \in [Msgs -> Nat]
    BY DEF TypeOK
  <2>1. CASE Push(w)
    <3>1. wpc[w] = "push" /\ wmsg[w] \in Msgs
      BY <2>1, PublishedMessages DEF Push, Custody, Holds
    <3>2. /\ \A m \in Msgs : pushes'[m] >= pushes[m]
          /\ pushes'[wmsg[w]] > 0
          /\ \A m \in Msgs : pushes[m] > 0 => pushes'[m] > 0
      BY <2>0, <2>1, <3>1 DEF Push
    <3>3. /\ \A v \in Workers \ {w} : wpc'[v] = wpc[v] /\ wmsg'[v] = wmsg[v]
          /\ wpc'[w] = "ack" => wmsg'[w] = wmsg[w]
      BY <2>0, <2>1 DEF Push, EndTask
    <3>4. \A v \in Workers : wpc[v] = "ack" => wmsg[v] \in Msgs
      BY PublishedMessages DEF Custody, Holds
    <3> QED
      BY <3>2, <3>3, <3>4 DEF SentBeforeAck
  <2>2. CASE ~Push(w)
    <3>1. /\ \A v \in Workers \ {w} : wpc'[v] = wpc[v] /\ wmsg'[v] = wmsg[v]
          /\ wpc'[w] = "ack" => wpc[w] = "ack" /\ wmsg'[w] = wmsg[w]
          /\ UNCHANGED pushes
      BY <1>4, <2>0, <2>2 DEF Work, TakeBatch, StartTask, Front, Choose, AutoAck, Die,
        EndTask, worker, history
    <3> QED
      BY <3>1 DEF SentBeforeAck
  <2> QED
    BY <2>1, <2>2
<1>5. CASE UNCHANGED vars
  BY <1>1, <1>5 DEF vars
<1> QED
  BY <1>1, <1>2, <1>3, <1>4, <1>5 DEF Next

\* What a dispatcher sees of the messages and of the consumers.
QueueView == <<log, gone, waitack>>
DispatchView == <<consumers, OnTheirWay, pushes>>

LEMMA SameQueueView == UNCHANGED QueueView => UNCHANGED Dispatcher!vars
BY DEF QueueView, Dispatcher!vars, Position, published

LEMMA SameViews == UNCHANGED <<QueueView, DispatchView>> => UNCHANGED Dispatcher!dispatchVars
BY SameQueueView DEF DispatchView, Dispatcher!dispatchVars

\* Different messages are found where they are.
LEMMA FoundAt ==
  ASSUME NEW l, \A i, j \in DOMAIN l : l[i] = l[j] => i = j, NEW k \in DOMAIN l
  PROVE  (CHOOSE i \in DOMAIN l : l[i] = l[k]) = k
OBVIOUS

LEMMA PositionInLog ==
  ASSUME TypeOK, InOrder
  PROVE  /\ \A i \in DOMAIN log : Position(log[i]) = i
         /\ \A m \in published : Position(m) \in 1..Len(log) /\ log[Position(m)] = m
         /\ \A m \in Msgs : m \notin published => Position(m) = 0
         /\ \A m \in Msgs : Position(m) \in 0..Len(log)
         /\ DOMAIN log = 1..Len(log) /\ Len(log) \in Nat
<1>1. DOMAIN log = 1..Len(log) /\ Len(log) \in Nat
  BY LenProperties DEF TypeOK
<1>2. ASSUME NEW i \in DOMAIN log PROVE Position(log[i]) = i
  <2>1. log[i] \in published
    BY DEF published, Range
  <2>2. (CHOOSE j \in DOMAIN log : log[j] = log[i]) = i
    BY FoundAt DEF InOrder
  <2> QED
    BY <2>1, <2>2 DEF Position
<1>3. ASSUME NEW m \in published PROVE Position(m) \in 1..Len(log) /\ log[Position(m)] = m
  <2>1. PICK i \in DOMAIN log : log[i] = m
    BY DEF published, Range
  <2> QED
    BY <1>1, <1>2, <2>1
<1>4. \A m \in Msgs : m \notin published => Position(m) = 0
  BY DEF Position
<1>5. \A m \in Msgs : Position(m) \in 0..Len(log)
  BY <1>1, <1>3, <1>4
<1> QED
  BY <1>1, <1>2, <1>3, <1>4, <1>5

\* What the dispatcher accepted is what was published, and what waits for it is
\* the queue.
LEMMA QueueSeen ==
  ASSUME TypeOK, Custody, InOrder
  PROVE  Dispatcher!Accepted = published /\ Dispatcher!Waiting = Range(msgs)
<1>1. \A m \in Msgs : Position(m) > 0 <=> m \in published
  BY PositionInLog
<1>2. Dispatcher!Accepted = published
  BY <1>1, PublishedMessages DEF Dispatcher!Accepted
<1>3. published \ (gone \cup waitack) = Range(msgs)
  BY DEF Custody, PublishedIsKept
<1> QED
  BY <1>2, <1>3 DEF Dispatcher!Waiting

LEMMA InitDispatches == Init => Dispatcher!DispatchInit
<1> SUFFICES ASSUME Init PROVE Dispatcher!DispatchInit
  OBVIOUS
<1>1. TypeOK /\ InOrder
  BY InitTypes, InitInOrder DEF Types
<1>2. Dispatcher!Accepted = published
  <2>1. \A m \in Msgs : Position(m) > 0 <=> m \in published
    BY <1>1, PositionInLog
  <2> QED
    BY <1>1, <2>1, PublishedMessages DEF Dispatcher!Accepted
<1>3. Dispatcher!Resumed
  <2>1. Len(log) \in Nat /\ [m \in Msgs |-> Position(m)] \in [Msgs -> 0..Len(log)]
    BY <1>1, PositionInLog
  <2>2. \A m, n \in Dispatcher!Accepted :
          [k \in Msgs |-> Position(k)][m] = [k \in Msgs |-> Position(k)][n] => m = n
    <3>1. \A m \in published : log[Position(m)] = m
      BY <1>1, PositionInLog
    <3> QED
      BY <1>1, <1>2, <3>1, PublishedMessages
  <2> QED
    BY <2>1, <2>2 DEF Init, Dispatcher!Resumed
<1>4. Range(consumers) = {} /\ OnTheirWay = {} /\ {m \in Msgs : pushes[m] > 0} = {}
  BY DEF Init, Range, OnTheirWay
<1> QED
  BY <1>3, <1>4 DEF Dispatcher!DispatchInit

\* A publish: the message gets the next stamp and the others keep theirs.
LEMMA PublishAccepts ==
  ASSUME TypeOK, Custody, InOrder, InOrder', TypeOK', NEW c \in Channels, NEW m \in Msgs,
         PublishInsert(c, m)
  PROVE  Dispatcher!Accept(m)
<1>1. /\ log' = Append(log, m) /\ m \notin published
      /\ UNCHANGED <<waitack, gone>>
  BY DEF PublishInsert
<1>2. /\ Len(log) \in Nat /\ Len(log') = Len(log) + 1 /\ log'[Len(log) + 1] = m
      /\ \A i \in 1..Len(log) : log'[i] = log[i]
      /\ DOMAIN log = 1..Len(log) /\ DOMAIN log' = 1..(Len(log) + 1)
  BY <1>1, AppendProperties, LenProperties DEF TypeOK
<1>3. published' = published \cup {m}
  BY <1>1, AppendedRange DEF published, TypeOK
<1>4. ASSUME NEW n, NEW k \in DOMAIN log', log'[k] = n PROVE Position(n)' = k
  <2>1. n \in published'
    BY <1>4 DEF published, Range
  <2>2. (CHOOSE j \in DOMAIN log' : log'[j] = n) = k
    BY <1>4, FoundAt DEF InOrder
  <2> QED
    BY <2>1, <2>2 DEF Position
<1>5. Position(m)' = Len(log) + 1
  BY <1>2, <1>4
<1>6. ASSUME NEW n \in Msgs, n # m PROVE Position(n)' = Position(n)
  <2>1. CASE n \in published
    <3>1. PICK k \in 1..Len(log) : k = Position(n) /\ log[k] = n
      BY <2>1, PositionInLog
    <3>2. k \in DOMAIN log' /\ log'[k] = n
      BY <1>2, <3>1
    <3> QED
      BY <1>4, <3>1, <3>2
  <2>2. CASE n \notin published
    BY <1>3, <1>6, <2>2 DEF Position
  <2> QED
    BY <2>1, <2>2
<1> DEFINE stamp == [n \in Msgs |-> Position(n)]
<1>7. stamp[m] = 0
  BY <1>1 DEF Position
<1>8. [n \in Msgs |-> Position(n)'] = [stamp EXCEPT ![m] = Len(log) + 1]
  BY <1>5, <1>6
<1> QED
  BY <1>1, <1>2, <1>7, <1>8 DEF Dispatcher!Accept

\* The handlers that change the queue; only what was sent is acknowledged.
LEMMA HandlerQueues ==
  ASSUME TypeOK, Custody, InOrder, TypeOK', InOrder',
         \/ \E c \in Channels, m \in Msgs : PublishInsert(c, m) \/ Ack(c, m)
         \/ DeleteMessages
  PROVE  Dispatcher!QueueStep
<1>1. UNCHANGED <<Range(consumers), OnTheirWay, {m \in Msgs : pushes[m] > 0}>>
  BY DEF PublishInsert, Ack, DeleteMessages, registry, worker, OnTheirWay
<1>2. ASSUME NEW c \in Channels, NEW m \in Msgs, PublishInsert(c, m)
      PROVE  Dispatcher!QueueStep
  BY <1>1, <1>2, PublishAccepts DEF Dispatcher!QueueStep
<1>3. ASSUME NEW c \in Channels, NEW m \in Msgs, Ack(c, m)
      PROVE  Dispatcher!QueueStep
  <2>1. m \in {n \in Msgs : pushes[n] > 0}
    BY <1>3 DEF Ack
  <2>2. UNCHANGED <<Len(log), [n \in Msgs |-> Position(n)]>>
    BY <1>3 DEF Ack, Position, published
  <2>3. Dispatcher!Settle(m)
    BY <1>3, <2>2 DEF Ack, Dispatcher!Settle
  <2> QED
    BY <1>1, <2>1, <2>3 DEF Dispatcher!QueueStep
<1>4. ASSUME DeleteMessages PROVE Dispatcher!QueueStep
  <2>1. UNCHANGED <<Len(log), [n \in Msgs |-> Position(n)]>>
    BY <1>4 DEF DeleteMessages, Position, published
  <2>2. gone' = gone \cup Dispatcher!Accepted /\ waitack' = {}
    <3>1. gone \subseteq published
      BY DEF Custody
    <3> QED
      BY <1>4, <3>1, QueueSeen DEF DeleteMessages
  <2>3. Dispatcher!Delete
    BY <2>1, <2>2 DEF Dispatcher!Delete
  <2> QED
    BY <1>1, <2>3 DEF Dispatcher!QueueStep
<1> QED
  BY <1>2, <1>3, <1>4

\* remove() by tag, as the dispatcher sees it.
LEMMA WithoutSeen ==
  ASSUME TypeOK, TagsDiffer, NEW tag, SetConsumers(Without(consumers, tag))
  PROVE  Range(consumers)' = {d \in Range(consumers) : d.tag # tag}
<1> DEFINE cs == Without(consumers, tag)
<1>1. /\ \A i \in DOMAIN cs : \E k \in DOMAIN consumers : cs[i] = consumers[k] /\ consumers[k].tag # tag
      /\ \A k \in DOMAIN consumers : consumers[k].tag # tag => \E i \in DOMAIN cs : cs[i] = consumers[k]
  BY WithoutProperties DEF TypeOK, TagsDiffer
<1>2. consumers' = cs
  BY DEF SetConsumers
<1> HIDE DEF cs
<1> QED
  BY <1>1, <1>2 DEF Range

\* Any tag is some consumer's.
LEMMA RemoveStep ==
  ASSUME TypeOK, TagsDiffer, NEW tag \in Tags, NEW c \in Channels,
         SetConsumers(Without(consumers, tag)),
         UNCHANGED <<QueueView, OnTheirWay, pushes>>
  PROVE  Dispatcher!DispatchNext
<1>1. [tag |-> tag, chan |-> c, auto |-> FALSE] \in Consumer
  BY DEF Consumer
<1>2. Dispatcher!Remove(tag)
  BY WithoutSeen, SameQueueView DEF Dispatcher!Remove
<1>3. \E d \in Consumer : Dispatcher!Remove(d.tag)
  BY <1>1, <1>2
<1> QED
  BY <1>3 DEF Dispatcher!DispatchNext

LEMMA DestroyStep ==
  ASSUME TypeOK, TagsDiffer, NEW c \in Channels, Destroy(c),
         UNCHANGED <<QueueView, OnTheirWay, pushes>>
  PROVE  [Dispatcher!DispatchNext]_(Dispatcher!dispatchVars)
<1>1. CASE own[c] = NoTag
  BY <1>1, SameViews DEF Destroy, DispatchView
<1>2. CASE own[c] # NoTag
  BY <1>2, RemoveStep DEF Destroy, TypeOK
<1> QED
  BY <1>1, <1>2

\* A subscription enlists its channel when its tag is new.
LEMMA SubscribeStep ==
  ASSUME TypeOK, NEW c \in Channels, NEW tag \in Tags, NEW auto \in BOOLEAN,
         Subscribe(c, tag, auto)
  PROVE  [Dispatcher!DispatchNext]_(Dispatcher!dispatchVars)
<1>1. UNCHANGED <<QueueView, OnTheirWay, pushes>>
  BY DEF Subscribe, queue, worker, history, QueueView, OnTheirWay
<1>2. CASE UNCHANGED consumers
  BY <1>1, <1>2, SameViews DEF DispatchView
<1>3. CASE tag \notin TagsIn(consumers)
  <2> DEFINE new == [tag |-> tag, chan |-> c, auto |-> auto]
  <2>1. new \in Consumer /\ new.tag = tag /\ consumers \in Seq(Consumer)
    BY DEF Consumer, TypeOK
  <2>2. consumers' = Append(consumers, new)
    BY <1>3 DEF Subscribe, SetConsumers
  <2>3. \A d \in Range(consumers) : d.tag # tag
    BY <1>3 DEF TagsIn
  <2> HIDE DEF new
  <2>4. Range(consumers)' = Range(consumers) \cup {new}
    BY <2>1, <2>2, AppendedRange
  <2>5. Dispatcher!Register(new)
    BY <1>1, <2>1, <2>3, <2>4, SameQueueView DEF Dispatcher!Register
  <2> QED
    BY <2>1, <2>5 DEF Dispatcher!DispatchNext
<1> QED
  BY <1>2, <1>3 DEF Subscribe

LEMMA RequestDispatches ==
  ASSUME TypeOK, Custody, TagsDiffer, InOrder, TypeOK', InOrder',
         NEW c \in Channels, Request(c)
  PROVE  [Dispatcher!DispatchNext]_(Dispatcher!dispatchVars)
<1>1. ASSUME NEW m \in Msgs, PublishInsert(c, m) \/ Ack(c, m)
      PROVE  Dispatcher!DispatchNext
  BY <1>1, HandlerQueues DEF Dispatcher!DispatchNext
<1>2. ASSUME NEW tag \in Tags, NEW auto \in BOOLEAN, Subscribe(c, tag, auto)
      PROVE  [Dispatcher!DispatchNext]_(Dispatcher!dispatchVars)
  BY <1>2, SubscribeStep
<1>3. CASE Cancel(c)
  <2>1. UNCHANGED <<QueueView, OnTheirWay, pushes>> /\ subscribed[c] \in Tags
    BY <1>3 DEF Cancel, queue, worker, history, QueueView, OnTheirWay, TypeOK
  <2> QED
    BY <1>3, <2>1, RemoveStep DEF Cancel
<1>4. CASE CloseChannel(c)
  <2>1. UNCHANGED <<QueueView, OnTheirWay, pushes>>
    BY <1>4 DEF CloseChannel, queue, worker, history, QueueView, OnTheirWay
  <2> QED
    BY <1>4, <2>1, DestroyStep DEF CloseChannel
<1>5. CASE DeleteConsumers(c)
  <2>1. UNCHANGED <<QueueView, OnTheirWay, pushes>> /\ consumers' = <<>>
    BY <1>5 DEF DeleteConsumers, SetConsumers, queue, worker, QueueView, OnTheirWay
  <2>2. Range(consumers)' = {}
    BY <2>1 DEF Range
  <2>3. Dispatcher!RemoveAll
    BY <2>1, <2>2, SameQueueView DEF Dispatcher!RemoveAll
  <2> QED
    BY <2>3 DEF Dispatcher!DispatchNext
<1>6. CASE DeclareMessages(c) \/ \E k \in Conns : OpenChannel(c, k)
  <2>1. UNCHANGED <<QueueView, DispatchView>>
    BY <1>6 DEF DeclareMessages, OpenChannel, queue, registry, worker, history,
      QueueView, DispatchView, OnTheirWay
  <2> QED
    BY <2>1, SameViews
<1> QED
  BY <1>1, <1>2, <1>3, <1>4, <1>5, <1>6 DEF Request

LEMMA HandlerDispatches ==
  ASSUME TypeOK, Custody, TagsDiffer, InOrder, TypeOK', InOrder',
         Finish \/ \E k \in Conns : LoseConnection(k)
  PROVE  [Dispatcher!DispatchNext]_(Dispatcher!dispatchVars)
<1>1. CASE DeleteMessages
  BY <1>1, HandlerQueues DEF Dispatcher!DispatchNext
<1>2. ASSUME NEW c \in Channels, DestroyLost(c)
      PROVE  [Dispatcher!DispatchNext]_(Dispatcher!dispatchVars)
  <2>1. UNCHANGED <<QueueView, OnTheirWay, pushes>>
    BY <1>2 DEF DestroyLost, queue, worker, history, QueueView, OnTheirWay
  <2> QED
    BY <1>2, <2>1, DestroyStep DEF DestroyLost
<1>3. CASE PublishTask \/ DeclareConsumers \/ \E k \in Conns : LoseConnection(k)
  <2>1. UNCHANGED <<QueueView, DispatchView>>
    BY <1>3 DEF PublishTask, DeclareConsumers, LoseConnection, queue, registry, worker,
      history, QueueView, DispatchView, OnTheirWay
  <2> QED
    BY <2>1, SameViews
<1> QED
  BY <1>1, <1>2, <1>3 DEF Finish

\* A worker that has no consumer chosen, before and after, is not seen.
LEMMA NotOnTheirWay ==
  ASSUME NEW w \in Workers, wpc[w] # "push", wpc'[w] # "push",
         \A v \in Workers \ {w} :
           wpc'[v] = wpc[v] /\ wmsg'[v] = wmsg[v] /\ wcons'[v] = wcons[v]
  PROVE  UNCHANGED OnTheirWay
<1>1. {v \in Workers : wpc'[v] = "push"} = {v \in Workers : wpc[v] = "push"}
  OBVIOUS
<1>2. \A v \in Workers : wpc[v] = "push" => wmsg'[v] = wmsg[v] /\ wcons'[v] = wcons[v]
  OBVIOUS
<1> QED
  BY <1>1, <1>2 DEF OnTheirWay

\* The head of the queue is the oldest message that waits.
LEMMA FrontDispatches ==
  ASSUME TypeOK, Custody, InOrder, NEW w \in Workers, Front(w)
  PROVE  [Dispatcher!DispatchNext]_(Dispatcher!dispatchVars)
<1>1. UNCHANGED <<consumers, pushes, log, gone>>
  BY DEF Front, registry, history
<1>2. UNCHANGED OnTheirWay
  <2>1. wpc[w] # "push" /\ wpc'[w] # "push"
    BY DEF Front, EndTask, TypeOK
  <2>2. \A v \in Workers \ {w} :
          wpc'[v] = wpc[v] /\ wmsg'[v] = wmsg[v] /\ wcons'[v] = wcons[v]
    BY DEF Front, EndTask, TypeOK
  <2> QED
    BY <2>1, <2>2, NotOnTheirWay
<1>3. CASE msgs = <<>>
  BY <1>1, <1>2, <1>3, SameViews DEF Front, QueueView, DispatchView
<1>4. CASE msgs # <<>>
  <2>1. PICK m : m = Head(msgs)
    OBVIOUS
  <2>2. waitack' = waitack \cup {m}
    BY <1>4, <2>1 DEF Front
  <2>3. m \in Msgs /\ m \in Range(msgs)
    BY <1>4, <2>1, TailRange DEF Custody, MessagesDiffer, TypeOK
  <2>4. ASSUME NEW n \in Range(msgs) PROVE Position(m) <= Position(n)
    <3>1. PICK i \in DOMAIN msgs : msgs[i] = n
      BY DEF Range
    <3>2. /\ DOMAIN msgs = 1..Len(msgs) /\ Len(msgs) \in Nat \ {0} /\ msgs[1] = m
          /\ DOMAIN log = 1..Len(log) /\ Len(log) \in Nat /\ Len(msgs) <= Len(log)
      BY <1>4, <2>1, EmptySeq, LenProperties, HeadTailProperties DEF TypeOK, InOrder
    <3>3. m = log[Len(log) - Len(msgs) + 1] /\ n = log[Len(log) - Len(msgs) + i]
      BY <3>1, <3>2 DEF InOrder
    <3>4. /\ Len(log) - Len(msgs) + 1 \in DOMAIN log
          /\ Len(log) - Len(msgs) + i \in DOMAIN log
      BY <3>2
    <3>5. /\ Position(m) = Len(log) - Len(msgs) + 1
          /\ Position(n) = Len(log) - Len(msgs) + i
      BY <3>3, <3>4, PositionInLog
    <3> QED
      BY <3>2, <3>5
  <2>5. \A n \in Range(msgs) : n \in Msgs
    BY PublishedMessages DEF Custody, PublishedIsKept
  <2>6. UNCHANGED <<Len(log), [n \in Msgs |-> Position(n)]>>
    BY <1>1 DEF Position, published
  <2>7. Dispatcher!Deliver(m)
    BY <1>1, <2>2, <2>3, <2>4, <2>5, <2>6, QueueSeen DEF Dispatcher!Deliver
  <2>8. Dispatcher!QueueStep
    BY <1>1, <1>2, <2>3, <2>7 DEF Dispatcher!QueueStep
  <2> QED
    BY <2>8 DEF Dispatcher!DispatchNext
<1> QED
  BY <1>3, <1>4

\* The consumer chosen is registered, and no other worker has the message.
LEMMA ChooseDispatches ==
  ASSUME TypeOK, Custody, InOrder, NEW w \in Workers, Choose(w)
  PROVE  [Dispatcher!DispatchNext]_(Dispatcher!dispatchVars)
<1>1. UNCHANGED <<QueueView, consumers, pushes>> /\ wpc[w] = "choose"
  BY DEF Choose, queue, history, QueueView
<1>2. CASE consumers = <<>>
  <2>1. EndTask(w)
    BY <1>2 DEF Choose
  <2>2. UNCHANGED OnTheirWay
    BY <1>1, <2>1, NotOnTheirWay DEF EndTask, TypeOK
  <2> QED
    BY <1>1, <2>2, SameViews DEF DispatchView
<1>3. CASE consumers # <<>>
  <2>1. PICK idx : idx = (rr % Len(consumers)) + 1
    OBVIOUS
  <2>2. PICK c : c = consumers[idx]
    OBVIOUS
  <2>3. /\ wcons' = [wcons EXCEPT ![w] = c] /\ wpc' = [wpc EXCEPT ![w] = "push"]
        /\ UNCHANGED wmsg
    BY <1>3, <2>1, <2>2 DEF Choose
  <2>4. c \in Range(consumers)
    <3>1. Len(consumers) \in Nat \ {0} /\ DOMAIN consumers = 1..Len(consumers) /\ rr \in Nat
      BY <1>3, EmptySeq, LenProperties DEF TypeOK
    <3>2. rr % Len(consumers) \in 0..(Len(consumers) - 1)
      BY <3>1
    <3>3. idx \in DOMAIN consumers
      BY <2>1, <3>1, <3>2
    <3> QED
      BY <2>2, <3>3 DEF Range
  <2>5. PICK m : m = wmsg[w]
    OBVIOUS
  <2>6. ToSend(w) /\ Holds(w)
    BY <1>1 DEF ToSend, Holds
  <2>7. m \in Msgs /\ m \in Dispatcher!Accepted \ Dispatcher!Waiting
    BY <2>5, <2>6, QueueSeen, PublishedMessages DEF Custody
  <2>8. m \notin {n \in Msgs : pushes[n] > 0}
    BY <2>5, <2>6 DEF Custody, SentOnce
  <2>9. \A a \in OnTheirWay : a.msg # m
    BY <1>1, <2>5, <2>6 DEF Custody, SentOnce, ToSend, OnTheirWay
  <2>10. OnTheirWay' = OnTheirWay \cup {[msg |-> m, to |-> c]}
    <3>1. /\ wpc'[w] = "push" /\ wmsg'[w] = m /\ wcons'[w] = c
          /\ \A v \in Workers \ {w} :
               wpc'[v] = wpc[v] /\ wmsg'[v] = wmsg[v] /\ wcons'[v] = wcons[v]
      BY <2>3, <2>5 DEF TypeOK
    <3>2. \A v \in Workers : wpc[v] = "push" => v \in Workers \ {w}
      BY <1>1
    <3>3. OnTheirWay' \subseteq OnTheirWay \cup {[msg |-> m, to |-> c]}
      BY <3>1 DEF OnTheirWay
    <3>4. OnTheirWay \cup {[msg |-> m, to |-> c]} \subseteq OnTheirWay'
      BY <3>1, <3>2 DEF OnTheirWay
    <3> QED
      BY <3>3, <3>4
  <2>11. Dispatcher!Assign(m, c)
    BY <1>1, <2>7, <2>8, <2>9, <2>10, SameQueueView DEF Dispatcher!Assign
  <2> QED
    BY <2>4, <2>7, <2>11 DEF Dispatcher!DispatchNext
<1> QED
  BY <1>2, <1>3

LEMMA PushDispatches ==
  ASSUME TypeOK, Custody, NEW w \in Workers, Push(w)
  PROVE  Dispatcher!DispatchNext
<1>1. UNCHANGED <<QueueView, consumers>> /\ wpc[w] = "push"
  BY DEF Push, queue, registry, QueueView
<1>2. PICK m, c : m = wmsg[w] /\ c = wcons[w]
  OBVIOUS
<1>3. ToSend(w) /\ Holds(w)
  BY <1>1 DEF ToSend, Holds
<1>4. m \in Msgs /\ pushes[m] = 0
  BY <1>2, <1>3, PublishedMessages DEF Custody, SentOnce
<1>5. {n \in Msgs : pushes[n] > 0}' = {n \in Msgs : pushes[n] > 0} \cup {m}
  <2>1. pushes'[m] = 1 /\ \A n \in Msgs \ {m} : pushes'[n] = pushes[n]
    BY <1>2, <1>4 DEF Push, TypeOK
  <2> QED
    BY <1>4, <2>1
<1> DEFINE a == [msg |-> m, to |-> c]
<1>6. a \in OnTheirWay
  BY <1>1, <1>2 DEF OnTheirWay
<1>7. OnTheirWay' = OnTheirWay \ {a}
  <2>1. /\ wpc'[w] # "push"
        /\ \A v \in Workers \ {w} :
             wpc'[v] = wpc[v] /\ wmsg'[v] = wmsg[v] /\ wcons'[v] = wcons[v]
    BY DEF Push, EndTask, TypeOK
  <2>2. \A v \in Workers \ {w} : wpc[v] = "push" => wmsg[v] # m
    BY <1>2, <1>3 DEF Custody, SentOnce, ToSend
  <2>3. OnTheirWay' \subseteq OnTheirWay \ {a}
    BY <2>1, <2>2 DEF OnTheirWay
  <2>4. OnTheirWay \ {a} \subseteq OnTheirWay'
    BY <1>2, <2>1 DEF OnTheirWay
  <2> QED
    BY <2>3, <2>4
<1>8. a.msg \notin {n \in Msgs : pushes[n] > 0}
  BY <1>4
<1>9. Dispatcher!Send(a)
  BY <1>1, <1>5, <1>7, <1>8, SameQueueView DEF Dispatcher!Send
<1> HIDE DEF a
<1> QED
  BY <1>6, <1>9 DEF Dispatcher!DispatchNext

\* The message acknowledged waits, or went with its queue.
LEMMA AutoAckDispatches ==
  ASSUME TypeOK, Custody, SentBeforeAck, NEW w \in Workers, AutoAck(w)
  PROVE  [Dispatcher!DispatchNext]_(Dispatcher!dispatchVars)
<1>1. PICK m : m = wmsg[w]
  OBVIOUS
<1>2. /\ wpc[w] = "ack" /\ EndTask(w) /\ UNCHANGED <<consumers, pushes, log>>
      /\ waitack' = waitack \ {m} /\ gone' = gone \cup {m}
  BY <1>1 DEF AutoAck, registry
<1>3. UNCHANGED OnTheirWay
  BY <1>2, NotOnTheirWay DEF EndTask, TypeOK
<1>4. m \in published \ Range(msgs) /\ m \in Msgs /\ pushes[m] > 0
  BY <1>1, <1>2, PublishedMessages DEF Custody, Holds, SentBeforeAck
<1>5. CASE m \notin waitack
  <2>1. m \in gone
    BY <1>4, <1>5 DEF Custody, PublishedIsKept
  <2>2. UNCHANGED <<waitack, gone>>
    BY <1>2, <1>5, <2>1
  <2> QED
    BY <1>2, <1>3, <2>2, SameViews DEF QueueView, DispatchView
<1>6. CASE m \in waitack
  <2>1. UNCHANGED <<Len(log), [n \in Msgs |-> Position(n)]>>
    BY <1>2 DEF Position, published
  <2>2. Dispatcher!Settle(m)
    BY <1>2, <1>6, <2>1 DEF Dispatcher!Settle
  <2>3. m \in {n \in Msgs : pushes[n] > 0}
    BY <1>4
  <2>4. Dispatcher!QueueStep
    BY <1>2, <1>3, <2>2, <2>3 DEF Dispatcher!QueueStep
  <2> QED
    BY <2>4 DEF Dispatcher!DispatchNext
<1> QED
  BY <1>5, <1>6

LEMMA WorkDispatches ==
  ASSUME TypeOK, Custody, InOrder, SentBeforeAck, NEW w \in Workers, Work(w)
  PROVE  [Dispatcher!DispatchNext]_(Dispatcher!dispatchVars)
<1>1. CASE TakeBatch(w) \/ Die(w)
  <2>1. UNCHANGED <<QueueView, DispatchView>>
    BY <1>1 DEF TakeBatch, Die, queue, registry, worker, history, QueueView,
      DispatchView, OnTheirWay
  <2> QED
    BY <2>1, SameViews
<1>2. CASE StartTask(w)
  <2>1. UNCHANGED <<QueueView, consumers, pushes>>
    BY <1>2 DEF StartTask, queue, registry, history, QueueView
  <2>2. UNCHANGED OnTheirWay
    BY <1>2, NotOnTheirWay DEF StartTask, TypeOK
  <2> QED
    BY <2>1, <2>2, SameViews DEF DispatchView
<1>3. CASE Front(w)
  BY <1>3, FrontDispatches
<1>4. CASE Choose(w)
  BY <1>4, ChooseDispatches
<1>5. CASE Push(w)
  BY <1>5, PushDispatches
<1>6. CASE AutoAck(w)
  BY <1>6, AutoAckDispatches
<1> QED
  BY <1>1, <1>2, <1>3, <1>4, <1>5, <1>6 DEF Work

LEMMA NextDispatches ==
  IInv /\ InOrder /\ SentBeforeAck /\ IInv' /\ InOrder' /\ [Next]_vars
    => [Dispatcher!DispatchNext]_(Dispatcher!dispatchVars)
<1> SUFFICES ASSUME IInv, InOrder, SentBeforeAck, IInv', InOrder', [Next]_vars
             PROVE  [Dispatcher!DispatchNext]_(Dispatcher!dispatchVars)
  OBVIOUS
<1>0. TypeOK /\ Custody /\ TagsDiffer /\ TypeOK'
  BY DEF IInv, Types, Registry
<1>1. CASE UNCHANGED vars
  <2>1. UNCHANGED <<QueueView, DispatchView>>
    BY <1>1 DEF vars, QueueView, DispatchView, OnTheirWay
  <2> QED
    BY <2>1, SameViews
<1> QED
  BY <1>0, <1>1, RequestDispatches, HandlerDispatches, WorkDispatches DEF Next

\* Whatever order handlers and workers run in, whoever cancels, closes or loses
\* its connection, a message leaves the queue after all older ones, goes to one
\* registered consumer at most and is settled only after that or with its queue.
THEOREM DeliveryDispatches == Spec => ImplementsDispatch
<1>1. IInv => TypeOK /\ Custody
  BY DEF IInv, Types
<1>2. Init => Dispatcher!DispatchInit /\ InOrder /\ SentBeforeAck
  BY InitDispatches, InitInOrder
<1> QED
  BY <1>1, <1>2, AlwaysIInv, NextInOrder, NextSentBeforeAck, NextDispatches, PTL
     DEF Spec, ImplementsDispatch, Dispatcher!DispatchSpec

\* Delivery's queue takes the steps of the one that MessageStore implements, from
\* the messages a server has when it starts.
THEOREM DeliveryUsesTheQueue == Spec => Dispatcher!ResumedSpec
<1>1. Dispatcher!DispatchInit => Dispatcher!Resumed
  BY DEF Dispatcher!DispatchInit
<1>2. [Dispatcher!DispatchNext]_(Dispatcher!dispatchVars)
        => [Dispatcher!Next]_(Dispatcher!vars)
  <2>1. Dispatcher!QueueStep => Dispatcher!Next
    BY DEF Dispatcher!QueueStep, Dispatcher!Next
  <2>2. Dispatcher!DispatchNext => Dispatcher!QueueStep \/ UNCHANGED Dispatcher!vars
    BY DEF Dispatcher!DispatchNext, Dispatcher!Register, Dispatcher!Remove,
      Dispatcher!RemoveAll, Dispatcher!Assign, Dispatcher!Send
  <2>3. UNCHANGED Dispatcher!dispatchVars => UNCHANGED Dispatcher!vars
    BY DEF Dispatcher!dispatchVars
  <2> QED
    BY <2>1, <2>2, <2>3
<1> QED
  BY <1>1, <1>2, DeliveryDispatches, PTL
     DEF ImplementsDispatch, Dispatcher!DispatchSpec, Dispatcher!ResumedSpec

\* Publishes push tasks to, and workers get them from, the pool that ThreadPool
\* implements.
THEOREM DeliveryUsesThePool == Spec => UsesTaskPool
<1>1. Init => Pool!Init
  BY DEF Init, Pool!Init
<1>2. IInv /\ [Next]_vars => [Pool!Next]_(Pool!vars)
  <2> SUFFICES ASSUME IInv, [Next]_vars PROVE [Pool!Next]_(Pool!vars)
    OBVIOUS
  <2>1. CASE PublishTask
    <3>1. iochan \in Channels
      BY <2>1 DEF PublishTask, IInv, Types, HandlerOK
    <3> QED
      BY <2>1, <3>1 DEF PublishTask, Pool!Next, Pool!Push
  <2>2. ASSUME NEW w \in Workers, Work(w) PROVE [Pool!Next]_(Pool!vars)
    <3>1. CASE TakeBatch(w)
      BY <3>1 DEF TakeBatch, Pool!Next, Pool!Take
    <3>2. CASE StartTask(w)
      BY <3>2 DEF StartTask, Pool!Next, Pool!Begin
    <3> QED
      BY <2>2, <3>1, <3>2 DEF Work, Front, Choose, Push, AutoAck, Die, pool, Pool!vars
  <2>3. ASSUME NEW c \in Channels, Request(c) PROVE UNCHANGED Pool!vars
    BY <2>3 DEF Request, OpenChannel, CloseChannel, PublishInsert, Ack, Subscribe, Cancel,
      DeleteConsumers, DeclareMessages, pool, Pool!vars
  <2>4. ASSUME \/ DeleteMessages \/ DeclareConsumers \/ \E k \in Conns : LoseConnection(k)
               \/ \E c \in Channels : DestroyLost(c)
        PROVE  UNCHANGED Pool!vars
    BY <2>4 DEF DeleteMessages, DeclareConsumers, LoseConnection, DestroyLost, pool, Pool!vars
  <2>5. CASE UNCHANGED vars
    BY <2>5 DEF vars, Pool!vars
  <2> QED
    BY <2>1, <2>2, <2>3, <2>4, <2>5 DEF Next, Finish
<1> QED
  BY <1>1, <1>2, AlwaysIInv, PTL DEF Spec, UsesTaskPool, Pool!Spec

-----------------------------------------------------------------------------
(* What the two findings about delivery come from.  A message is stranded   *)
(* with the waiting ones only by a worker that finds nobody to send it to,  *)
(* and a subscriber is in nobody's registry only by a tag that some channel *)
(* remembers already.                                                       *)

SomebodyConsumes == \A w \in Workers : Choose(w) => consumers # <<>>

Held(m) == \E w \in Workers : Holds(w) /\ wmsg[w] = m
Waiting == \A m \in waitack : pushes[m] > 0 \/ Held(m)

\* What the workers but one have in their hands.
LEMMA HeldOn ==
  ASSUME NEW w \in Workers,
         \A v \in Workers : v # w => wpc'[v] = wpc[v] /\ wmsg'[v] = wmsg[v],
         NEW m, Held(m), ~(Holds(w) /\ wmsg[w] = m)
  PROVE  Held(m)'
<1>1. PICK v \in Workers : Holds(v) /\ wmsg[v] = m
  BY DEF Held
<1>2. v # w
  BY <1>1
<1> QED
  BY <1>1, <1>2 DEF Held, Holds

LEMMA SameWaiting ==
  ASSUME Waiting, UNCHANGED <<pushes, wpc, wmsg>>, waitack' \subseteq waitack
  PROVE  Waiting'
BY DEF Waiting, Held, Holds

LEMMA WorkWaiting ==
  ASSUME TypeOK, Custody, Waiting, NEW w \in Workers, Work(w), SomebodyConsumes
  PROVE  Waiting'
<1>0. /\ wpc \in [Workers -> {"idle", "front", "choose", "push", "ack"}]
      /\ wmsg \in [Workers -> Msgs \cup {NoMsg}]
      /\ pushes \in [Msgs -> Nat] /\ waitack \subseteq Msgs
  BY DEF TypeOK
<1>1. CASE TakeBatch(w) \/ Die(w)
  BY <1>1, SameWaiting DEF TakeBatch, Die, queue, worker, history
<1>2. CASE StartTask(w)
  <2>1. /\ wpc[w] = "idle" /\ UNCHANGED <<waitack, pushes, wmsg>>
        /\ \A v \in Workers : v # w => wpc'[v] = wpc[v]
    BY <1>0, <1>2 DEF StartTask, queue, history
  <2> QED
    BY <2>1, HeldOn DEF Waiting, Holds
<1>3. CASE Front(w)
  <2>1. /\ wpc[w] = "front" /\ UNCHANGED pushes
        /\ \A v \in Workers : v # w => wpc'[v] = wpc[v] /\ wmsg'[v] = wmsg[v]
    BY <1>0, <1>3 DEF Front, EndTask, history
  <2>2. \A m \in waitack : pushes'[m] > 0 \/ Held(m)'
    BY <2>1, HeldOn DEF Waiting, Holds
  <2>3. CASE msgs = <<>>
    BY <1>3, <2>2, <2>3 DEF Front, Waiting
  <2>4. CASE msgs # <<>>
    <3>1. PICK h : h = Head(msgs)
      OBVIOUS
    <3>2. waitack' = waitack \cup {h} /\ wpc'[w] = "choose" /\ wmsg'[w] = h
      BY <1>0, <1>3, <2>4, <3>1 DEF Front
    <3>3. Held(h)'
      BY <3>2 DEF Held, Holds
    <3> QED
      BY <2>2, <3>2, <3>3 DEF Waiting
  <2> QED
    BY <2>3, <2>4
<1>4. CASE Choose(w)
  <2>1. consumers # <<>>
    BY <1>4 DEF SomebodyConsumes
  <2>2. /\ wpc[w] = "choose" /\ wpc' = [wpc EXCEPT ![w] = "push"]
        /\ UNCHANGED <<waitack, pushes, wmsg>>
    BY <1>4, <2>1 DEF Choose, queue, history
  <2>3. \A v \in Workers : Holds(v) => Holds(v)'
    BY <1>0, <2>2 DEF Holds
  <2> QED
    BY <2>2, <2>3 DEF Waiting, Held
<1>5. CASE Push(w)
  <2>1. wpc[w] = "push" /\ wmsg[w] \in Msgs
    BY <1>5, PublishedMessages DEF Push, Custody, Holds
  <2>2. /\ waitack' = waitack /\ pushes' = [pushes EXCEPT ![wmsg[w]] = @ + 1]
        /\ \A v \in Workers : v # w => wpc'[v] = wpc[v] /\ wmsg'[v] = wmsg[v]
    BY <1>0, <1>5 DEF Push, EndTask, queue
  <2>3. pushes'[wmsg[w]] > 0 /\ \A m \in Msgs : pushes[m] > 0 => pushes'[m] > 0
    BY <1>0, <2>1, <2>2
  <2> QED
    BY <1>0, <2>2, <2>3, HeldOn DEF Waiting
<1>6. CASE AutoAck(w)
  <2>1. /\ waitack' = waitack \ {wmsg[w]} /\ UNCHANGED pushes
        /\ \A v \in Workers : v # w => wpc'[v] = wpc[v] /\ wmsg'[v] = wmsg[v]
    BY <1>0, <1>6 DEF AutoAck, EndTask
  <2> QED
    BY <2>1, HeldOn DEF Waiting
<1> QED
  BY <1>1, <1>2, <1>3, <1>4, <1>5, <1>6 DEF Work

\* As long as no worker finds the queue without a consumer, the messages that
\* wait for their ack were sent or are about to be.
THEOREM OnlyTheLonelyStrand ==
  Spec /\ [][SomebodyConsumes]_vars => []WaitingWasPushed
<1>1. Init => Waiting
  BY DEF Init, Waiting
<1>2. IInv /\ Waiting /\ [Next]_vars /\ [SomebodyConsumes]_vars => Waiting'
  <2> SUFFICES ASSUME IInv, Waiting, [Next]_vars, [SomebodyConsumes]_vars
               PROVE  Waiting'
    OBVIOUS
  <2>0. TypeOK /\ Custody
    BY DEF IInv, Types
  <2>1. ASSUME NEW c \in Channels, Request(c) PROVE Waiting'
    <3>1. UNCHANGED <<pushes, wpc, wmsg>> /\ waitack' \subseteq waitack
      BY <2>1 DEF Request, OpenChannel, CloseChannel, PublishInsert, Ack, Subscribe,
        Cancel, DeleteConsumers, DeclareMessages, queue, worker, history
    <3> QED
      BY <3>1, SameWaiting
  <2>2. ASSUME Finish \/ \E k \in Conns : LoseConnection(k) PROVE Waiting'
    <3>1. UNCHANGED <<pushes, wpc, wmsg>> /\ waitack' \subseteq waitack
      BY <2>2 DEF Finish, PublishTask, DeleteMessages, DeclareConsumers, DestroyLost,
        LoseConnection, queue, worker, history
    <3> QED
      BY <3>1, SameWaiting
  <2>3. CASE UNCHANGED vars
    BY <2>3, SameWaiting DEF vars
  <2>4. ASSUME NEW w \in Workers, Work(w), SomebodyConsumes PROVE Waiting'
    BY <2>0, <2>4, WorkWaiting
  <2> QED
    BY <2>1, <2>2, <2>3, <2>4 DEF Next
<1>3. Waiting => WaitingWasPushed
  BY DEF Waiting, Held, WaitingWasPushed
<1> QED
  BY <1>1, <1>2, <1>3, AlwaysIInv, PTL DEF Spec

TagsAreFresh ==
  \A c \in Channels, tag \in Tags, auto \in BOOLEAN :
    Subscribe(c, tag, auto) => \A d \in Channels \ {c} : own[d] # tag

Enlisted(c) == \E i \in DOMAIN consumers : consumers[i].chan = c
Roll ==
  /\ \A c \in Channels : subscribed[c] # NoTag => Enlisted(c)
  /\ \A c, d \in Channels : own[c] # NoTag /\ own[c] = own[d] => c = d

\* Of the consumers of one channel none stays and of the others all do.
LEMMA RemovedRoll ==
  ASSUME TypeOK, Registry, NEW c \in Channels, NEW tag,
         SetConsumers(Without(consumers, tag)),
         \A i \in DOMAIN consumers : consumers[i].tag = tag => consumers[i].chan = c,
         NEW d \in Channels, d # c, Enlisted(d)
  PROVE  Enlisted(d)'
<1>1. PICK k \in DOMAIN consumers : consumers[k].chan = d
  BY DEF Enlisted
<1>2. consumers[k].tag # tag
  BY <1>1
<1>3. \E i \in DOMAIN Without(consumers, tag) : Without(consumers, tag)[i] = consumers[k]
  <2>1. consumers \in Seq(Consumer)
    BY DEF TypeOK
  <2>2. \A i, j \in DOMAIN consumers : consumers[i].tag = consumers[j].tag => i = j
    BY DEF Registry, TagsDiffer
  <2>3. \A n \in DOMAIN consumers : consumers[n].tag # tag =>
          \E i \in DOMAIN Without(consumers, tag) : Without(consumers, tag)[i] = consumers[n]
    BY <2>1, <2>2, WithoutProperties
  <2> QED
    BY <1>2, <2>3
<1>4. consumers' = Without(consumers, tag)
  BY DEF SetConsumers
<1> QED
  BY <1>1, <1>3, <1>4 DEF Enlisted

LEMMA DestroyRoll ==
  ASSUME TypeOK, Registry, Roll, NEW c \in Channels, Destroy(c)
  PROVE  Roll'
<1>1. /\ own' = [own EXCEPT ![c] = NoTag] /\ subscribed' = [subscribed EXCEPT ![c] = NoTag]
      /\ own \in [Channels -> Tags \cup {NoTag}]
      /\ subscribed \in [Channels -> Tags \cup {NoTag}]
  BY DEF Destroy, TypeOK
<1>2. \A d, e \in Channels : own'[d] # NoTag /\ own'[d] = own'[e] => d = e
  BY <1>1 DEF Roll
<1>3. ASSUME NEW d \in Channels, subscribed'[d] # NoTag PROVE Enlisted(d)'
  <2>1. d # c /\ Enlisted(d)
    BY <1>1, <1>3 DEF Roll
  <2>2. CASE own[c] = NoTag
    BY <2>1, <2>2 DEF Destroy, Enlisted
  <2>3. CASE own[c] # NoTag
    <3>1. \A i \in DOMAIN consumers : consumers[i].tag = own[c] => consumers[i].chan = c
      BY <2>3, OwnedConsumer DEF Roll, Registry, Owned
    <3>2. SetConsumers(Without(consumers, own[c]))
      BY <2>3 DEF Destroy
    <3> QED
      BY <2>1, <3>1, <3>2, RemovedRoll
  <2> QED
    BY <2>2, <2>3
<1> QED
  BY <1>2, <1>3 DEF Roll

LEMMA CancelRoll ==
  ASSUME TypeOK, Registry, Roll, NEW c \in Channels, Cancel(c)
  PROVE  Roll'
<1>1. /\ subscribed[c] # NoTag /\ own' = own
      /\ subscribed' = [subscribed EXCEPT ![c] = NoTag]
      /\ subscribed \in [Channels -> Tags \cup {NoTag}]
      /\ SetConsumers(Without(consumers, subscribed[c]))
  BY DEF Cancel, TypeOK
<1>2. PICK k \in DOMAIN consumers : consumers[k].chan = c
  BY <1>1 DEF Roll, Enlisted
<1>3. \A i \in DOMAIN consumers : consumers[i].tag = subscribed[c] => consumers[i].chan = c
  <2>1. consumers[k].tag = subscribed[c]
    BY <1>2 DEF Registry, Owned
  <2> QED
    BY <1>2, <2>1 DEF Registry, TagsDiffer
<1>4. ASSUME NEW d \in Channels, subscribed'[d] # NoTag PROVE Enlisted(d)'
  <2>1. d # c /\ Enlisted(d)
    BY <1>1, <1>4 DEF Roll
  <2> QED
    BY <1>1, <1>3, <2>1, RemovedRoll
<1> QED
  BY <1>1, <1>4 DEF Roll

\* A tag nobody remembers is not in the registry either.
LEMMA SubscribeRoll ==
  ASSUME TypeOK, Registry, Roll, NEW c \in Channels, NEW tag \in Tags,
         NEW auto \in BOOLEAN, Subscribe(c, tag, auto),
         \A d \in Channels \ {c} : own[d] # tag
  PROVE  Roll'
<1> DEFINE new == [tag |-> tag, chan |-> c, auto |-> auto]
<1>1. /\ subscribed[c] = NoTag /\ subscribed' = [subscribed EXCEPT ![c] = tag]
      /\ subscribed \in [Channels -> Tags \cup {NoTag}]
      /\ own \in [Channels -> Tags \cup {NoTag}] /\ tag # NoTag
      /\ consumers \in Seq(Consumer)
  BY DeliveryAssumption DEF Subscribe, TypeOK
<1>2. \A i \in DOMAIN consumers : consumers[i].tag # tag
  <2> SUFFICES ASSUME NEW i \in DOMAIN consumers, consumers[i].tag = tag PROVE FALSE
    OBVIOUS
  <2>1. /\ consumers[i].chan \in Channels
        /\ own[consumers[i].chan] = tag /\ subscribed[consumers[i].chan] = tag
    BY OwnedConsumer DEF Registry, Owned
  <2> QED
    BY <1>1, <2>1
<1>3. tag \notin TagsIn(consumers)
  BY <1>2 DEF TagsIn, Range
<1>4. consumers' = Append(consumers, new) /\ own' = [own EXCEPT ![c] = tag]
  BY <1>3 DEF Subscribe, SetConsumers
<1>5. \A d, e \in Channels : own'[d] # NoTag /\ own'[d] = own'[e] => d = e
  BY <1>1, <1>4 DEF Roll
<1>6. /\ Len(consumers) \in Nat /\ DOMAIN consumers = 1..Len(consumers)
      /\ DOMAIN consumers' = 1..(Len(consumers) + 1)
      /\ \A i \in 1..Len(consumers) : consumers'[i] = consumers[i]
      /\ consumers'[Len(consumers) + 1] = new
  <2>1. new \in Consumer
    BY DEF Consumer
  <2> HIDE DEF new
  <2> QED
    BY <1>1, <1>4, <2>1, AppendProperties, LenProperties
<1>7. Enlisted(c)'
  <2>1. consumers'[Len(consumers) + 1].chan = c
    BY <1>6
  <2> QED
    BY <1>6, <2>1 DEF Enlisted
<1> HIDE DEF new
<1>8. \A d \in Channels : Enlisted(d) => Enlisted(d)'
  BY <1>6 DEF Enlisted
<1>9. \A d \in Channels : subscribed'[d] # NoTag => subscribed[d] # NoTag \/ d = c
  BY <1>1
<1> QED
  BY <1>5, <1>7, <1>8, <1>9 DEF Roll

\* As long as no channel subscribes with a tag that another remembers, a channel
\* that was told ok is in the registry, whatever is closed, cancelled or lost.
THEOREM OnlySharedTagsMislead ==
  Spec /\ [][TagsAreFresh]_vars => []SubscribedIsConsumer
<1>1. Init => Roll
  BY DEF Init, Roll
<1>2. IInv /\ Roll /\ [Next]_vars /\ [TagsAreFresh]_vars => Roll'
  <2> SUFFICES ASSUME IInv, Roll, [Next]_vars, [TagsAreFresh]_vars PROVE Roll'
    OBVIOUS
  <2>0. TypeOK /\ Registry
    BY DEF IInv, Types
  <2>1. UNCHANGED <<consumers, own, subscribed>> => Roll'
    BY DEF Roll, Enlisted
  <2>2. ASSUME NEW c \in Channels, Request(c) PROVE Roll'
    <3>1. CASE CloseChannel(c)
      BY <2>0, <3>1, DestroyRoll DEF CloseChannel
    <3>2. CASE Cancel(c)
      BY <2>0, <3>2, CancelRoll
    <3>3. ASSUME NEW tag \in Tags, NEW auto \in BOOLEAN, Subscribe(c, tag, auto) PROVE Roll'
      <4>1. CASE UNCHANGED vars
        BY <2>1, <4>1 DEF vars
      <4>2. CASE TagsAreFresh
        BY <2>0, <3>3, <4>2, SubscribeRoll DEF TagsAreFresh
      <4> QED
        BY <4>1, <4>2
    <3>4. CASE DeleteConsumers(c)
      BY <3>4 DEF DeleteConsumers, Roll
    <3>5. CASE \/ \E k \in Conns : OpenChannel(c, k)
               \/ \E m \in Msgs : PublishInsert(c, m) \/ Ack(c, m)
               \/ DeclareMessages(c)
      BY <2>1, <3>5 DEF OpenChannel, PublishInsert, Ack, DeclareMessages, registry, channels
    <3> QED
      BY <2>2, <3>1, <3>2, <3>3, <3>4, <3>5 DEF Request
  <2>3. ASSUME NEW c \in Channels, DestroyLost(c) PROVE Roll'
    BY <2>0, <2>3, DestroyRoll DEF DestroyLost
  <2>4. ASSUME PublishTask \/ DeleteMessages \/ DeclareConsumers
               \/ \E k \in Conns : LoseConnection(k)
        PROVE  Roll'
    BY <2>1, <2>4 DEF PublishTask, DeleteMessages, DeclareConsumers, LoseConnection,
      registry, channels
  <2>5. ASSUME NEW w \in Workers, Work(w) PROVE Roll'
    BY <2>1, <2>5
    DEF Work, TakeBatch, StartTask, Front, Choose, Push, AutoAck, Die, registry, channels
  <2>6. CASE UNCHANGED vars
    BY <2>1, <2>6 DEF vars
  <2> QED
    BY <2>2, <2>3, <2>4, <2>5, <2>6 DEF Next, Finish
<1>3. Roll => SubscribedIsConsumer
  BY DEF Roll, Enlisted, SubscribedIsConsumer
<1> QED
  BY <1>1, <1>2, <1>3, AlwaysIInv, PTL DEF Spec
=============================================================================
