----------------------------- MODULE ClientProofs -----------------------------
(***************************************************************************)
(* Proofs about Client, for any number of channels, workers, messages and  *)
(* tags.                                                                   *)
(*                                                                         *)
(* IInv is the inductive invariant.  While the connection is up (UpInv)    *)
(* every request and every response belongs to the call its caller is in   *)
(* (Asked, Answered), and the places where it can be are counted           *)
(* (OnItsWay).  Why no response of a worker is lost when the application   *)
(* closes its channel at the same time is Closing: requests and responses  *)
(* keep their order, so all that was asked before the close is answered    *)
(* before the close is, and what was asked after it is late.               *)
(***************************************************************************)
EXTENDS Client, FiniteSetTheorems, SequenceTheorems, TLAPS

Leaving == {"closing", "closed", "dropping", "gone"}

\* The caller of a request or response is p.
By(p, x) == "who" \in DOMAIN x /\ x.who = p

\* A response, wherever it is, and one of p.
AnswerAt(r) ==
  \/ r \in stored
  \/ \E i \in 1..Len(unsent) : unsent[i] = r
  \/ \E i \in 1..Len(inbox) : IsResponse(inbox[i]) /\ inbox[i] = r
Answers == {r \in Response : AnswerAt(r)}

\* A push, wherever it is.
Pushes ==
  {d \in Delivered :
     \/ d \in chosen
     \/ \E i \in 1..Len(inbox) : inbox[i] = d
     \/ \E i \in 1..Len(tasks) : tasks[i] = d
     \/ \E w \in Workers : \E i \in 1..Len(batch[w]) : batch[w][i] = d}

\* What it subscribed to and did not cancel, deletions of the queue aside.
TagsOf(c) == {k.tag : k \in {k \in consumers \cup deleted : k.chan = c}}

\* The subscription that a consume request asks for has a tag.
Tagged == \A i \in 1..Len(requests) : requests[i].op = "consume" => requests[i].tag \in Tags

\* Nothing happens before the connection is there.
Before ==
  link \in {"connecting", "latched"} =>
    /\ requests = <<>> /\ inbox = <<>> /\ stored = {} /\ tasks = <<>>
    /\ at = [c \in Channels |-> "out"] /\ sub = [c \in Channels |-> None]
    /\ batch = [w \in Workers |-> <<>>] /\ wpc = [w \in Workers |-> "idle"]
    /\ kept = [w \in Workers |-> {}] /\ io = None
    /\ opened = {} /\ consumers = {} /\ unsent = <<>> /\ chosen = {} /\ late = {}
    /\ deleted = {}

\* A request is the one its caller waits for.
AskedOf(x) ==
  /\ x.who \in Channels =>
       /\ x.chan = x.who
       /\ <<at[x.who], x.op>> \in
            {<<"opening", "open">>, <<"calling", "call">>, <<"consuming", "consume">>,
             <<"cancelling", "cancel">>, <<"closing", "close">>, <<"dropping", "cancel">>}
       /\ x.op = "consume" => x.tag = arg[x.who]
       /\ at[x.who] = "cancelling" => x.tag = sub[x.who]
  /\ x.who \in Workers =>
       /\ wpc[x.who] = "acking" => x.chan = Task(x.who).chan
       /\ <<wpc[x.who], x.op>> \in {<<"acking", "ack">>, <<"dropping", "cancel">>}
  /\ x.who \in late => at[x.chan] \in Leaving
Asked == \A i \in 1..Len(requests) : AskedOf(requests[i])

\* So is a response; nobody answers a late request.
AnsweredOf(r) ==
  /\ r.who \notin late
  /\ r.who \in Channels => r.chan = r.who /\ at[r.who] \in Calls
  /\ r.who \in Workers => r.chan = Task(r.who).chan /\ wpc[r.who] = "acking"
Answered == \A r \in Answers : AnsweredOf(r)

\* A late caller waits for ever.
LateOf(p) ==
  /\ p \in Channels => (p \in late <=> at[p] = "dropping")
  /\ p \in Workers =>
       /\ p \in late => wpc[p] \in {"acking", "dropping"}
       /\ wpc[p] = "dropping" => p \in late
Late == \A p \in Callers : LateOf(p)

OnItsWay ==
  \A p \in Callers :
    IF p \in late THEN Copies(p) = InSeq(p, requests)
    ELSE Copies(p) = IF Waits(p) THEN 1 ELSE 0

\* What the server and the client know of a channel, in each state of its thread.
KnownOf(c) ==
  /\ at[c] \in {"out", "opening"} =>
       /\ sub[c] = None /\ TagsOf(c) = {}
       /\ \A d \in Pushes : d.chan # c
       /\ c \notin opened => \A r \in Answers : r.chan # c
  /\ at[c] = "out" => c \notin opened
  /\ at[c] \in {"idle", "calling", "consuming", "storing", "cancelling"} => c \in opened
  /\ at[c] \in Calls \cup {"idle", "storing"} => c \in managed
  /\ c \in opened => at[c] \notin {"closed", "dropping", "gone"}
Known == \A c \in Channels : KnownOf(c)

\* The answer that is not sent yet is to a consume on an open channel.
Unsent ==
  /\ Len(unsent) <= 1 /\ IsFiniteSet(stored)
  /\ \A i \in 1..Len(unsent) :
       /\ unsent[i].chan \in opened
       /\ unsent[i].who \in Channels => at[unsent[i].who] = "consuming"

\* What was asked on a channel before its close is in front of it, the rest is
\* late; once the channel is closed only the rest is left.
CloseAsked(c) ==
  at[c] \in Leaving =>
    /\ \A i, j \in 1..Len(requests) :
         requests[i].who = c /\ at[c] = "closing" /\ requests[j].chan = c =>
           (requests[j].who \in late <=> i < j)
    /\ \A i \in 1..Len(requests) :
         requests[i].who = c /\ at[c] = "closing" => c \in opened
    /\ c \notin opened => \A i \in 1..Len(requests) :
         requests[i].chan = c => requests[i].who \in late

\* The answer to the close is the last that the channel gets.
CloseAnswered(c) ==
  at[c] \in Leaving =>
    /\ at[c] = "closing" => \A r \in Answers : r.who = c => c \notin opened
    /\ \A i, j \in 1..Len(inbox) :
         /\ i < j /\ IsResponse(inbox[i]) /\ IsResponse(inbox[j])
         /\ inbox[i].who = c
         => inbox[j].chan # c
    /\ at[c] # "closing" \/ (\E r \in stored : r.who = c) =>
         \A i \in 1..Len(inbox) : IsResponse(inbox[i]) => inbox[i].chan # c
Closing == \A c \in Channels : CloseAsked(c) /\ CloseAnswered(c)

\* The subscription on both sides, before and after the server has answered.
SubscribedOf(c) ==
  /\ at[c] \in {"idle", "calling"} => TagsOf(c) = {sub[c]} \ {None}
  /\ at[c] = "consuming" =>
       /\ sub[c] = None /\ arg[c] \in Tags
       /\ (\E i \in 1..Len(requests) : requests[i].who = c) => TagsOf(c) = {}
       /\ \A r \in Answers : r.who = c => TagsOf(c) = IF r.ok THEN {arg[c]} ELSE {}
  /\ at[c] = "storing" => sub[c] = None /\ TagsOf(c) = {arg[c]}
  /\ at[c] = "cancelling" =>
       /\ sub[c] # None
       /\ (\E i \in 1..Len(requests) : requests[i].who = c) => TagsOf(c) = {sub[c]}
       /\ \A r \in Answers : r.who = c => TagsOf(c) = {}
Subscribed == \A c \in Channels : SubscribedOf(c)

UpInv ==
  /\ Asked /\ Answered /\ Late /\ OnItsWay /\ Known /\ Unsent /\ Closing
  /\ Subscribed

IInv == TypeOK /\ Tagged /\ Before /\ (link = "up" => UpInv)

-----------------------------------------------------------------------------
(* Requests, responses and pushes, and how many of a caller's are in a       *)
(* sequence.                                                                 *)

LEMMA Kinds ==
  /\ \A x \in Request : "who" \in DOMAIN x /\ x.who \in Callers /\ x.chan \in Channels
  /\ \A x \in Response : IsResponse(x) /\ "who" \in DOMAIN x /\ x.who \in Callers
                         /\ x.chan \in Channels /\ x.ok \in BOOLEAN
  /\ \A x \in Delivered : ~IsResponse(x) /\ "who" \notin DOMAIN x /\ x.chan \in Channels
  /\ \A x \in Request, ok \in BOOLEAN :
       /\ Answer(x, ok) \in Response /\ Answer(x, ok).who = x.who
       /\ Answer(x, ok).chan = x.chan /\ Answer(x, ok).ok = ok
BY DEF Request, Response, Delivered, IsResponse, Answer

LEMMA InSeqType ==
  ASSUME NEW p, NEW S, NEW s \in Seq(S)
  PROVE  /\ InSeq(p, s) = Cardinality({i \in 1..Len(s) : By(p, s[i])})
         /\ IsFiniteSet({i \in 1..Len(s) : By(p, s[i])})
         /\ InSeq(p, s) \in Nat
         /\ InSeq(p, s) = 0 <=> \A i \in 1..Len(s) : ~By(p, s[i])
<1> DEFINE A == {i \in 1..Len(s) : By(p, s[i])}
<1>1. DOMAIN s = 1..Len(s) /\ Len(s) \in Nat
  BY LenProperties
<1>2. InSeq(p, s) = Cardinality(A)
  BY <1>1 DEF InSeq, By
<1>3. IsFiniteSet(1..Len(s))
  BY <1>1, FS_Interval
<1>4. A \in SUBSET (1..Len(s))
  OBVIOUS
<1>5. IsFiniteSet(A)
  BY <1>3, <1>4, FS_Subset
<1>6. Cardinality(A) \in Nat
  BY <1>5, FS_CardinalityType
<1>7. Cardinality(A) = 0 <=> A = {}
  BY <1>5, FS_EmptySet
<1> QED
  BY <1>2, <1>5, <1>6, <1>7

LEMMA InSeqEmpty == \A p : InSeq(p, <<>>) = 0
<1> TAKE p
<1>1. <<>> \in Seq(Nat) /\ Len(<<>>) = 0
  BY EmptySeq
<1>2. \A i \in 1..Len(<<>>) : ~By(p, <<>>[i])
  BY <1>1
<1>3. InSeq(p, <<>>) = 0 <=> \A i \in 1..Len(<<>>) : ~By(p, <<>>[i])
  BY <1>1, InSeqType
<1> QED
  BY <1>2, <1>3

LEMMA InSeqAppend ==
  ASSUME NEW p, NEW S, NEW s \in Seq(S), NEW x \in S
  PROVE  InSeq(p, Append(s, x)) = InSeq(p, s) + IF By(p, x) THEN 1 ELSE 0
<1> DEFINE t == Append(s, x)
           A == {i \in 1..Len(s) : By(p, s[i])}
           B == {i \in 1..Len(t) : By(p, t[i])}
<1>1. /\ t \in Seq(S) /\ Len(t) = Len(s) + 1 /\ Len(s) \in Nat
      /\ \A i \in 1..Len(s) : t[i] = s[i]
      /\ t[Len(s) + 1] = x
  BY AppendProperties, LenProperties
<1>2. /\ InSeq(p, s) = Cardinality(A) /\ IsFiniteSet(A) /\ InSeq(p, t) = Cardinality(B)
  BY <1>1, InSeqType
<1> HIDE DEF t
<1>3. \A i : i \in 1..Len(t) <=> i \in 1..Len(s) \/ i = Len(s) + 1
  BY <1>1
<1>4. CASE By(p, x)
  <2>1. B = A \cup {Len(s) + 1} /\ Len(s) + 1 \notin A
    BY <1>1, <1>3, <1>4
  <2> HIDE DEF A, B
  <2>2. Cardinality(B) = Cardinality(A) + 1
    BY <1>2, <2>1, FS_AddElement
  <2>3. InSeq(p, t) = InSeq(p, s) + 1
    BY <1>2, <2>2
  <2> QED
    BY <1>4, <2>3 DEF t
<1>5. CASE ~By(p, x)
  <2>1. B = A
    BY <1>1, <1>3, <1>5
  <2> HIDE DEF A, B
  <2>2. InSeq(p, t) = InSeq(p, s)
    BY <1>2, <2>1
  <2>3. InSeq(p, s) \in Nat
    BY InSeqType
  <2> QED
    BY <1>5, <2>2, <2>3 DEF t
<1> QED
  BY <1>4, <1>5

LEMMA InSeqTail ==
  ASSUME NEW p, NEW S, NEW s \in Seq(S), s # <<>>
  PROVE  InSeq(p, s) = InSeq(p, Tail(s)) + IF By(p, Head(s)) THEN 1 ELSE 0
<1> DEFINE t == Tail(s)
           A == {i \in 1..Len(s) : By(p, s[i])}
           B == {i \in 1..Len(t) : By(p, t[i])}
           f == [i \in B |-> i + 1]
<1>1. /\ t \in Seq(S) /\ Len(t) = Len(s) - 1 /\ Len(s) \in Nat /\ Len(s) > 0
      /\ \A i \in 1..Len(t) : t[i] = s[i + 1]
      /\ Head(s) = s[1]
  BY HeadTailProperties, LenProperties, EmptySeq
<1>2. /\ InSeq(p, s) = Cardinality(A) /\ IsFiniteSet(A) /\ InSeq(p, t) = Cardinality(B)
      /\ IsFiniteSet(B) /\ InSeq(p, t) \in Nat
  BY <1>1, InSeqType
<1> HIDE DEF t
<1>3. f \in Bijection(B, A \ {1})
  <2>1. f \in [B -> A \ {1}]
    BY <1>1
  <2>2. \A i, j \in B : f[i] = f[j] => i = j
    OBVIOUS
  <2>3. \A k \in A \ {1} : \E i \in B : f[i] = k
    <3> SUFFICES ASSUME NEW k \in A \ {1} PROVE \E i \in B : f[i] = k
      OBVIOUS
    <3>1. k - 1 \in 1..Len(t) /\ (k - 1) + 1 = k
      BY <1>1
    <3>2. k - 1 \in B
      BY <1>1, <3>1
    <3> QED
      BY <3>1, <3>2
  <2> QED
    BY <2>1, <2>2, <2>3 DEF Bijection, Injection, Surjection, IsInjective
<1>4. Cardinality(A \ {1}) = Cardinality(B)
  BY <1>2, <1>3, FS_Bijection DEF ExistsBijection
<1>5. Cardinality(A \ {1}) = IF 1 \in A THEN Cardinality(A) - 1 ELSE Cardinality(A)
  BY <1>2, FS_RemoveElement
<1>6. 1 \in A <=> By(p, Head(s))
  BY <1>1
<1>7. Cardinality(A) \in Nat
  BY <1>2, FS_CardinalityType
<1> HIDE DEF A, B
<1>8. InSeq(p, s) = InSeq(p, t) + IF By(p, Head(s)) THEN 1 ELSE 0
  BY <1>2, <1>4, <1>5, <1>6, <1>7
<1> QED
  BY <1>8 DEF t

-----------------------------------------------------------------------------
(* Types.  What a send, the service of a request and a reply do to the       *)
(* sequences is stated once.                                                 *)

LEMMA SendEffect ==
  ASSUME TypeOK, Tagged, link = "up",
         NEW op \in Ops, NEW c \in Channels, NEW who \in Callers,
         NEW tag \in Tags \cup {None}, op = "consume" => tag \in Tags,
         Send(op, c, who, tag)
  PROVE  LET x == [op |-> op, chan |-> c, who |-> who, tag |-> tag] IN
         /\ requests' \in Seq(Request) /\ Len(requests') = Len(requests) + 1
         /\ Len(requests) \in Nat
         /\ \A i \in 1..Len(requests) : requests'[i] = requests[i]
         /\ requests'[Len(requests) + 1] = x
         /\ \A i \in 1..Len(requests') : i \in 1..Len(requests) \/ i = Len(requests) + 1
         /\ \A p : InSeq(p, requests') = InSeq(p, requests) + IF p = who THEN 1 ELSE 0
         /\ late' = IF at[c] \in Leaving THEN late \cup {who} ELSE late
         /\ Tagged'
<1> DEFINE x == [op |-> op, chan |-> c, who |-> who, tag |-> tag]
<1>1. x \in Request /\ x.who = who /\ x.op = op /\ x.tag = tag
  BY DEF Request
<1>2. requests \in Seq(Request) /\ requests' = Append(requests, x)
  BY DEF TypeOK, Send
<1>3. late' = IF at[c] \in Leaving THEN late \cup {who} ELSE late
  BY DEF Send, Leaving
<1>4. \A p : By(p, x) <=> p = who
  BY <1>1, Kinds DEF By
<1> HIDE DEF x
<1>5. /\ requests' \in Seq(Request) /\ Len(requests') = Len(requests) + 1
      /\ Len(requests) \in Nat
      /\ \A i \in 1..Len(requests) : requests'[i] = requests[i]
      /\ requests'[Len(requests) + 1] = x
      /\ \A i \in 1..Len(requests') : i \in 1..Len(requests) \/ i = Len(requests) + 1
  BY <1>1, <1>2, AppendProperties, LenProperties
<1>6. \A p : InSeq(p, requests') = InSeq(p, requests) + IF p = who THEN 1 ELSE 0
  BY <1>1, <1>2, <1>4, InSeqAppend
<1>7. Tagged'
  BY <1>1, <1>5 DEF Tagged
<1> QED
  BY <1>3, <1>5, <1>6, <1>7 DEF x

LEMMA SendType ==
  ASSUME TypeOK, Tagged,
         NEW op \in Ops, NEW c \in Channels, NEW who \in Callers,
         NEW tag \in Tags \cup {None}, op = "consume" => tag \in Tags,
         Send(op, c, who, tag)
  PROVE  requests' \in Seq(Request) /\ late' \subseteq Callers /\ Tagged'
<1>1. late' \subseteq Callers
  BY DEF Send, TypeOK
<1>2. CASE link = "up"
  BY <1>1, <1>2, SendEffect
<1>3. CASE link # "up"
  BY <1>1, <1>3 DEF Send, TypeOK, Tagged
<1> QED
  BY <1>2, <1>3

LEMMA HandleEffect ==
  ASSUME TypeOK, Tagged, NEW x, NEW op, Handle(x, op)
  PROVE  /\ link = "up" /\ unsent = <<>>
         /\ x \in Request /\ x = requests[1] /\ 1 \in 1..Len(requests) /\ x.op \in op
         /\ x.op = "consume" => x.tag \in Tags
         /\ requests' \in Seq(Request) /\ Len(requests') \in Nat
         /\ \A i \in 1..Len(requests') :
              i + 1 \in 1..Len(requests) /\ requests'[i] = requests[i + 1]
         /\ \A p : InSeq(p, requests) = InSeq(p, requests') + IF p = x.who THEN 1 ELSE 0
         /\ Tagged'
<1>1. requests \in Seq(Request) /\ requests # <<>> /\ x = Head(requests)
  BY DEF TypeOK, Handle
<1>2. /\ requests' = Tail(requests)
      /\ link = "up" /\ unsent = <<>> /\ x.op \in op
  BY DEF Handle
<1>3. /\ x \in Request /\ x = requests[1] /\ 1 \in 1..Len(requests)
      /\ requests' \in Seq(Request) /\ Len(requests') \in Nat
      /\ \A i \in 1..Len(requests') :
           i + 1 \in 1..Len(requests) /\ requests'[i] = requests[i + 1]
  BY <1>1, <1>2, HeadTailProperties, LenProperties, EmptySeq
<1>4. \A p : By(p, x) <=> p = x.who
  BY <1>3, Kinds DEF By
<1>5. \A p : InSeq(p, requests) = InSeq(p, requests') + IF p = x.who THEN 1 ELSE 0
  BY <1>1, <1>2, <1>4, InSeqTail
<1>6. Tagged' /\ (x.op = "consume" => x.tag \in Tags)
  BY <1>3 DEF Tagged
<1> QED
  BY <1>2, <1>3, <1>5, <1>6

\* An element of any kind put at the end of what the client receives.
LEMMA InboxEffect ==
  ASSUME TypeOK, NEW x \in Response \cup Delivered, inbox' = Append(inbox, x)
  PROVE  /\ inbox' \in Seq(Response \cup Delivered) /\ Len(inbox') = Len(inbox) + 1
         /\ Len(inbox) \in Nat
         /\ \A i \in 1..Len(inbox) : inbox'[i] = inbox[i]
         /\ inbox'[Len(inbox) + 1] = x
         /\ \A i \in 1..Len(inbox') : i \in 1..Len(inbox) \/ i = Len(inbox) + 1
         /\ \A p : InSeq(p, inbox') = InSeq(p, inbox) + IF By(p, x) THEN 1 ELSE 0
<1>1. inbox \in Seq(Response \cup Delivered)
  BY DEF TypeOK
<1>2. \A p : InSeq(p, inbox') = InSeq(p, inbox) + IF By(p, x) THEN 1 ELSE 0
  BY <1>1, InSeqAppend
<1> QED
  BY <1>1, <1>2, AppendProperties, LenProperties

LEMMA EndTaskType ==
  ASSUME TypeOK, NEW w \in Workers, batch[w] # <<>>, EndTask(w)
  PROVE  /\ batch' \in [Workers -> Seq(Delivered)]
         /\ kept' \in [Workers -> SUBSET Channels]
         /\ wpc' \in [Workers -> {"idle", "callback", "acking", "dropping"}]
         /\ \A v \in Workers : wpc'[v] \in {"callback", "acking"} => batch'[v] # <<>>
<1>1. batch[w] \in Seq(Delivered) /\ Head(batch[w]) \in Delivered /\ Tail(batch[w]) \in Seq(Delivered)
  BY HeadTailProperties DEF TypeOK
<1>2. Task(w).chan \in Channels
  BY <1>1, Kinds DEF Task
<1>3. batch' \in [Workers -> Seq(Delivered)]
  BY <1>1 DEF EndTask, TypeOK
<1>4. kept' \in [Workers -> SUBSET Channels]
  BY <1>2 DEF EndTask, TypeOK
<1>5. wpc' \in [Workers -> {"idle", "callback", "acking", "dropping"}]
  BY DEF EndTask, TypeOK
<1>6. \A v \in Workers : wpc'[v] \in {"callback", "acking"} => batch'[v] # <<>>
  BY DEF EndTask, TypeOK
<1> QED
  BY <1>3, <1>4, <1>5, <1>6

LEMMA AppType ==
  ASSUME TypeOK, Tagged, NEW c \in Channels, MayCall(c) \/ GoOn(c)
  PROVE  TypeOK' /\ Tagged'
<1> USE ClientAssumption
<1>0. c \in Callers /\ sub[c] \in Tags \cup {None} /\ None \in Tags \cup {None}
      /\ Calls = {"opening", "calling", "consuming", "cancelling", "closing"}
  BY DEF Callers, TypeOK, Calls
<1>1. CASE Open(c)
  <2>1. requests' \in Seq(Request) /\ late' \subseteq Callers /\ Tagged'
    BY <1>0, <1>1, SendType DEF Open, Ops
  <2> QED
    BY <1>0, <1>1, <2>1 DEF Open, pool, server, TypeOK
<1>2. CASE OpenOnNull(c)
  BY <1>2 DEF OpenOnNull, wire, client, pool, server, TypeOK, Tagged
<1>3. CASE Call(c)
  <2>1. requests' \in Seq(Request) /\ late' \subseteq Callers /\ Tagged'
    BY <1>0, <1>3, SendType DEF Call, Ops
  <2> QED
    BY <1>0, <1>3, <2>1 DEF Call, pool, server, TypeOK
<1>4. CASE Cancel(c)
  <2>1. requests' \in Seq(Request) /\ late' \subseteq Callers /\ Tagged'
    BY <1>0, <1>4, SendType DEF Cancel, Ops
  <2> QED
    BY <1>0, <1>4, <2>1 DEF Cancel, pool, server, TypeOK
<1>5. CASE Close(c)
  <2>1. requests' \in Seq(Request) /\ late' \subseteq Callers /\ Tagged'
    BY <1>0, <1>5, SendType DEF Close, Ops
  <2> QED
    BY <1>0, <1>5, <2>1 DEF Close, pool, server, TypeOK
<1>6. CASE Drop(c)
  <2>1. requests' \in Seq(Request) /\ late' \subseteq Callers /\ Tagged'
    <3>1. CASE UNCHANGED <<requests, late>>
      BY <3>1 DEF TypeOK, Tagged
    <3>2. CASE Send("cancel", c, c, sub[c])
      BY <1>0, <3>2, SendType DEF Ops
    <3> QED
      BY <1>6, <3>1, <3>2 DEF Drop
  <2>2. at' \in [Channels -> Calls \cup {"out", "idle", "storing", "closed", "dropping", "gone"}]
    BY <1>6 DEF Drop, TypeOK
  <2> QED
    BY <1>6, <2>1, <2>2 DEF Drop, pool, server, TypeOK
<1>7. ASSUME NEW t \in Tags, Consume(c, t) PROVE TypeOK' /\ Tagged'
  <2>1. requests' \in Seq(Request) /\ late' \subseteq Callers /\ Tagged'
    BY <1>0, <1>7, SendType DEF Consume, Ops
  <2> QED
    BY <1>0, <1>7, <2>1 DEF Consume, pool, server, TypeOK
<1>8. CASE Return(c)
  <2>1. at' \in [Channels -> Calls \cup {"out", "idle", "storing", "closed", "dropping", "gone"}]
    BY <1>8 DEF Return, TypeOK
  <2>2. stored' \subseteq Response /\ managed' \subseteq Channels
        /\ sub' \in [Channels -> Tags \cup {None}]
    BY <1>8 DEF Return, TypeOK
  <2> QED
    BY <1>8, <2>1, <2>2 DEF Return, wire, pool, server, TypeOK, Tagged
<1>9. CASE StoreSubscriber(c)
  BY <1>9 DEF StoreSubscriber, wire, pool, server, TypeOK, Tagged
<1> QED
  BY <1>1, <1>2, <1>3, <1>4, <1>5, <1>6, <1>7, <1>8, <1>9 DEF MayCall, GoOn

LEMMA ReleaseType ==
  ASSUME TypeOK, Tagged, NEW w \in Workers, Release(w)
  PROVE  TypeOK' /\ Tagged'
<1>1. PICK c \in kept[w] :
        \/ /\ kept' = [kept EXCEPT ![w] = @ \ {c}]
           /\ UNCHANGED <<wpc, requests, late>>
        \/ /\ wpc' = [wpc EXCEPT ![w] = "dropping"]
           /\ Send("cancel", c, w, sub[c])
           /\ UNCHANGED kept
  BY Zenon DEF Release
<1>2. c \in Channels /\ kept[w] \subseteq Channels
  BY DEF TypeOK
<1>3. sub[c] \in Tags \cup {None} /\ w \in Callers /\ "cancel" \in Ops
  BY <1>2 DEF TypeOK, Callers, Ops
<1>4. requests' \in Seq(Request) /\ late' \subseteq Callers /\ Tagged'
  <2>1. CASE UNCHANGED <<requests, late>>
    BY <2>1 DEF TypeOK, Tagged
  <2>2. CASE Send("cancel", c, w, sub[c])
    BY <1>2, <1>3, <2>2, SendType
  <2> QED
    BY <1>1, <2>1, <2>2
<1>5. /\ kept' \in [Workers -> SUBSET Channels]
      /\ wpc' \in [Workers -> {"idle", "callback", "acking", "dropping"}]
      /\ \A v \in Workers : wpc'[v] \in {"callback", "acking"} => wpc[v] = wpc'[v]
  BY <1>1, <1>2 DEF TypeOK
<1> QED
  BY <1>4, <1>5 DEF Release, client, server, TypeOK

LEMMA WorkType ==
  ASSUME TypeOK, Tagged, NEW w \in Workers, Work(w)
  PROVE  TypeOK' /\ Tagged'
<1>1. CASE TakeBatch(w)
  BY <1>1, EmptySeq DEF TakeBatch, wire, client, server, TypeOK, Tagged
<1>2. ASSUME batch[w] # <<>>, EndTask(w), stored' \subseteq stored,
             UNCHANGED <<link, wire, managed, sub, at, arg, tasks, io, server, late>>
      PROVE  TypeOK' /\ Tagged'
  <2>1. /\ batch' \in [Workers -> Seq(Delivered)]
        /\ kept' \in [Workers -> SUBSET Channels]
        /\ wpc' \in [Workers -> {"idle", "callback", "acking", "dropping"}]
        /\ \A v \in Workers : wpc'[v] \in {"callback", "acking"} => batch'[v] # <<>>
    BY <1>2, EndTaskType
  <2> QED
    BY <1>2, <2>1 DEF wire, server, TypeOK, Tagged
<1>3. CASE Test(w)
  <2>1. CASE EndTask(w)
    BY <1>2, <1>3, <2>1 DEF Test, client
  <2>2. CASE ~EndTask(w)
    BY <1>3, <2>2 DEF Test, wire, client, server, TypeOK, Tagged
  <2> QED
    BY <2>1, <2>2
<1>4. CASE LeaveCallback(w)
  BY <1>2, <1>4 DEF LeaveCallback, client, TypeOK
<1>5. CASE CallAck(w)
  <2>1. Task(w).chan \in Channels
    BY <1>5, HeadTailProperties, Kinds DEF CallAck, TypeOK, Task
  <2>2. requests' \in Seq(Request) /\ late' \subseteq Callers /\ Tagged'
    BY <1>5, <2>1, SendType DEF CallAck, Ops, Callers
  <2> QED
    BY <1>5, <2>2 DEF CallAck, client, server, TypeOK
<1>6. CASE ReturnAck(w)
  BY <1>2, <1>6 DEF ReturnAck, TypeOK
<1>7. CASE Die(w)
  BY <1>7 DEF Die, wire, client, pool, server, TypeOK, Tagged
<1>8. CASE Release(w)
  BY <1>8, ReleaseType
<1> QED
  BY <1>1, <1>3, <1>4, <1>5, <1>6, <1>7, <1>8 DEF Work

LEMMA ReceiveType == TypeOK /\ Tagged /\ Receive => TypeOK' /\ Tagged'
<1> SUFFICES ASSUME TypeOK, Tagged, Receive PROVE TypeOK' /\ Tagged'
  OBVIOUS
<1> DEFINE x == Head(inbox)
<1>1. x \in Response \cup Delivered /\ inbox' \in Seq(Response \cup Delivered)
  BY HeadTailProperties DEF Receive, TypeOK
<1>2. x \in Response <=> IsResponse(x)
  BY <1>1, Kinds
<1>3. \/ UNCHANGED <<stored, tasks>>
      \/ IsResponse(x) /\ stored' = stored \cup {x} /\ UNCHANGED tasks
      \/ ~IsResponse(x) /\ tasks' = Append(tasks, x) /\ UNCHANGED stored
  BY DEF Receive
<1> HIDE DEF x
<1>4. tasks \in Seq(Delivered) /\ stored \subseteq Response
  BY DEF TypeOK
<1>5. stored' \subseteq Response
  BY <1>2, <1>3, <1>4
<1>6. tasks' \in Seq(Delivered)
  <2>1. CASE tasks' = tasks
    BY <1>4, <2>1
  <2>2. CASE ~IsResponse(x) /\ tasks' = Append(tasks, x)
    BY <1>1, <1>2, <1>4, <2>2, AppendProperties
  <2> QED
    BY <1>3, <2>1, <2>2
<1>7. io' \in Channels \cup {None}
  <2>1. x.chan \in Channels
    BY <1>1, Kinds
  <2>2. io' \in {x.chan, None, io}
    BY DEF Receive, x
  <2> QED
    BY <2>1, <2>2 DEF TypeOK
<1> QED
  BY <1>1, <1>5, <1>6, <1>7 DEF Receive, server, TypeOK, Tagged

LEMMA EndHandlerType == TypeOK /\ Tagged /\ EndHandler => TypeOK' /\ Tagged'
<1> SUFFICES ASSUME TypeOK, Tagged, EndHandler PROVE TypeOK' /\ Tagged'
  OBVIOUS
<1>1. io \in Channels /\ io \in Callers /\ "cancel" \in Ops
  BY DEF EndHandler, TypeOK, Callers, Ops
<1>2. sub[io] \in Tags \cup {None}
  BY <1>1 DEF TypeOK
<1>3. CASE io' = None /\ UNCHANGED <<at, requests, late>>
  BY <1>3 DEF EndHandler, server, TypeOK, Tagged
<1>4. CASE /\ at' = [at EXCEPT ![io] = "dropping"]
           /\ Send("cancel", io, io, sub[io])
           /\ UNCHANGED io
  <2>1. requests' \in Seq(Request) /\ late' \subseteq Callers /\ Tagged'
    BY <1>1, <1>2, <1>4, SendType
  <2>2. at' \in [Channels -> Calls \cup {"out", "idle", "storing", "closed", "dropping", "gone"}]
    BY <1>4 DEF TypeOK
  <2> QED
    BY <1>4, <2>1, <2>2 DEF EndHandler, server, TypeOK
<1> QED
  BY <1>3, <1>4 DEF EndHandler

LEMMA ServerType ==
  TypeOK /\ Tagged
    /\ (Serve \/ DeleteQueueOfOther
          \/ (\E k \in consumers, m \in Msgs : Choose(k, m)) \/ \E d \in chosen : Push(d))
  => TypeOK' /\ Tagged'
<1> SUFFICES ASSUME TypeOK, Tagged
             PROVE  Serve \/ DeleteQueueOfOther
                      \/ (\E k \in consumers, m \in Msgs : Choose(k, m))
                      \/ (\E d \in chosen : Push(d)) => TypeOK' /\ Tagged'
  OBVIOUS
<1>0. \A x \in Request, ok \in BOOLEAN :
        Reply(x, ok) => inbox' \in Seq(Response \cup Delivered)
  BY Kinds, InboxEffect DEF Reply
<1>1. ASSUME SendAnswer PROVE TypeOK' /\ Tagged'
  <2>1. inbox' \in Seq(Response \cup Delivered)
    <3>1. unsent \in Seq(Response \cup Delivered)
      BY SeqMonotonic DEF TypeOK
    <3> QED
      BY <1>1, <3>1, ConcatProperties DEF SendAnswer, TypeOK
  <2> QED
    BY <1>1, <2>1, EmptySeq DEF SendAnswer, client, pool, TypeOK, Tagged
<1>2. ASSUME NEW x, ServeOpen(x) PROVE TypeOK' /\ Tagged'
  <2>1. x \in Request /\ x.chan \in Channels /\ requests' \in Seq(Request) /\ Tagged'
    BY <1>2, HandleEffect, Kinds DEF ServeOpen
  <2> QED
    BY <1>0, <1>2, <2>1 DEF ServeOpen, client, pool, TypeOK
<1>3. ASSUME NEW x, ServeClose(x) PROVE TypeOK' /\ Tagged'
  <2>1. x \in Request /\ x.chan \in Channels /\ requests' \in Seq(Request) /\ Tagged'
    BY <1>3, HandleEffect, Kinds DEF ServeClose
  <2> QED
    BY <1>0, <1>3, <2>1 DEF ServeClose, client, pool, TypeOK
<1>4. ASSUME NEW x, ServeCall(x) PROVE TypeOK' /\ Tagged'
  <2>1. x \in Request /\ requests' \in Seq(Request) /\ Tagged'
    BY <1>4, HandleEffect DEF ServeCall
  <2> QED
    BY <1>0, <1>4, <2>1 DEF ServeCall, client, pool, server, TypeOK
<1>5. ASSUME NEW x, ServeConsume(x) PROVE TypeOK' /\ Tagged'
  <2>1. /\ x \in Request /\ requests' \in Seq(Request) /\ Tagged' /\ x.tag \in Tags
        /\ x.chan \in Channels
    BY <1>5, HandleEffect, Kinds DEF ServeConsume
  <2>5. /\ consumers' \subseteq consumers \cup {[chan |-> x.chan, tag |-> x.tag]}
        /\ \/ unsent' = <<Answer(x, TRUE)>>
           \/ unsent' = <<Answer(x, FALSE)>>
        /\ x.chan \in opened
    BY <1>5 DEF ServeConsume
  <2>2. /\ consumers' \subseteq [chan : Channels, tag : Tags]
        /\ \A k \in consumers' : k.chan \in opened
    BY <2>1, <2>5 DEF TypeOK
  <2>3. \A y \in Response : <<y>> \in Seq(Response)
    OBVIOUS
  <2>6. Answer(x, TRUE) \in Response /\ Answer(x, FALSE) \in Response
    BY <2>1, Kinds
  <2>7. <<Answer(x, TRUE)>> \in Seq(Response) /\ <<Answer(x, FALSE)>> \in Seq(Response)
    BY <2>3, <2>6
  <2>4. unsent' \in Seq(Response)
    BY <2>5, <2>7
  <2> QED
    BY <1>5, <2>1, <2>2, <2>4 DEF ServeConsume, client, pool, TypeOK
<1>6. ASSUME NEW x, ServeCancel(x) PROVE TypeOK' /\ Tagged'
  <2>1. x \in Request /\ requests' \in Seq(Request) /\ Tagged'
    BY <1>6, HandleEffect DEF ServeCancel
  <2> QED
    BY <1>0, <1>6, <2>1 DEF ServeCancel, client, pool, TypeOK
<1>7. ASSUME NEW x, Ignore(x) PROVE TypeOK' /\ Tagged'
  <2>1. requests' \in Seq(Request) /\ Tagged'
    BY <1>7, HandleEffect DEF Ignore
  <2> QED
    BY <1>7, <2>1 DEF Ignore, client, pool, server, TypeOK
<1>8. ASSUME NEW k \in consumers, NEW m \in Msgs, Choose(k, m) PROVE TypeOK' /\ Tagged'
  <2>1. [chan |-> k.chan, tag |-> k.tag, msg |-> m] \in Delivered
    BY DEF TypeOK, Delivered
  <2> QED
    BY <1>8, <2>1 DEF Choose, wire, client, pool, TypeOK, Tagged
<1>9. ASSUME NEW d \in chosen, Push(d) PROVE TypeOK' /\ Tagged'
  <2>1. inbox' \in Seq(Response \cup Delivered)
    BY <1>9, InboxEffect DEF Push, TypeOK
  <2> QED
    BY <1>9, <2>1 DEF Push, client, pool, TypeOK, Tagged
<1>10. DestroyConsumers =>
         /\ consumers' \cup deleted' \subseteq [chan : Channels, tag : Tags]
         /\ \A k \in consumers' : k.chan \in opened
  BY DEF DestroyConsumers, TypeOK
<1>11. ASSUME NEW x, ServeDeleteQueue(x) PROVE TypeOK' /\ Tagged'
  <2>1. x \in Request /\ requests' \in Seq(Request) /\ Tagged'
    BY <1>11, HandleEffect DEF ServeDeleteQueue
  <2> QED
    BY <1>0, <1>10, <1>11, <2>1 DEF ServeDeleteQueue, client, pool, TypeOK
<1>12. ASSUME DeleteQueueOfOther PROVE TypeOK' /\ Tagged'
  BY <1>10, <1>12 DEF DeleteQueueOfOther, wire, client, pool, TypeOK, Tagged
<1> QED
  BY <1>1, <1>2, <1>3, <1>4, <1>5, <1>6, <1>7, <1>8, <1>9, <1>11, <1>12 DEF Serve

LEMMA InitIInv == Init => IInv
<1> SUFFICES ASSUME Init PROVE IInv
  OBVIOUS
<1>1. TypeOK
  BY EmptySeq DEF Init, TypeOK
<1>2. Tagged /\ Before /\ link # "up"
  BY EmptySeq DEF Init, Tagged, Before
<1> QED
  BY <1>1, <1>2 DEF IInv

LEMMA NextType == TypeOK /\ Tagged /\ [Next]_vars => TypeOK' /\ Tagged'
<1> SUFFICES ASSUME TypeOK, Tagged, [Next]_vars PROVE TypeOK' /\ Tagged'
  OBVIOUS
<1>1. CASE CountDown \/ SetConnection
  BY <1>1 DEF CountDown, SetConnection, wire, client, pool, server, TypeOK, Tagged
<1>3. CASE LoseConnection
  <2>1. /\ requests' \in Seq(Request) /\ inbox' \in Seq(Response \cup Delivered)
        /\ unsent' \in Seq(Response) /\ Len(requests') = 0
    BY <1>3, EmptySeq DEF LoseConnection
  <2>2. Tagged'
    BY <2>1 DEF Tagged
  <2> QED
    BY <1>3, <2>1, <2>2 DEF LoseConnection, client, pool, TypeOK
<1>2. CASE UNCHANGED vars
  BY <1>2 DEF vars, TypeOK, Tagged
<1> QED
  BY <1>1, <1>2, <1>3, AppType, WorkType, ReceiveType, EndHandlerType, ServerType DEF Next, Io

-----------------------------------------------------------------------------
(* What the count says: who does not wait has nothing on its way, and who    *)
(* waits and is not late has a request or an answer, never both.             *)

LEMMA InboxAnswers ==
  ASSUME TypeOK
  PROVE  /\ \A i \in 1..Len(inbox) : IsResponse(inbox[i]) => inbox[i] \in Answers
         /\ \A r \in stored : r \in Answers
         /\ \A i \in 1..Len(unsent) : unsent[i] \in Answers
<1>1. /\ unsent \in Seq(Response) /\ inbox \in Seq(Response \cup Delivered)
      /\ stored \subseteq Response
  BY DEF TypeOK
<1>2. /\ \A i \in 1..Len(inbox) : inbox[i] \in Response \cup Delivered
      /\ \A i \in 1..Len(unsent) : unsent[i] \in Response
  BY <1>1, ElementOfSeq
<1>3. \A i \in 1..Len(inbox) : IsResponse(inbox[i]) => inbox[i] \in Response
  BY <1>2, Kinds
<1> QED
  BY <1>1, <1>2, <1>3 DEF Answers, AnswerAt

LEMMA HeldType ==
  ASSUME NEW p, NEW S \in SUBSET Response, IsFiniteSet(S)
  PROVE  /\ IsFiniteSet({r \in S : r.who = p})
         /\ Cardinality({r \in S : r.who = p}) \in Nat
         /\ Cardinality({r \in S : r.who = p}) = 0 <=> \A r \in S : r.who # p
<1> DEFINE A == {r \in S : r.who = p}
<1>1. IsFiniteSet(A)
  BY FS_Subset
<1>2. Cardinality(A) \in Nat /\ (Cardinality(A) = 0 <=> A = {})
  BY <1>1, FS_CardinalityType, FS_EmptySet
<1>3. A = {} <=> \A r \in S : r.who # p
  OBVIOUS
<1> QED
  BY <1>1, <1>2, <1>3

LEMMA CopiesAre ==
  ASSUME TypeOK, IsFiniteSet(stored), NEW p
  PROVE  /\ Copies(p) = InSeq(p, requests) + InSeq(p, unsent) + InSeq(p, inbox)
                          + Cardinality({r \in stored : r.who = p})
         /\ InSeq(p, requests) \in Nat /\ InSeq(p, unsent) \in Nat /\ InSeq(p, inbox) \in Nat
         /\ Cardinality({r \in stored : r.who = p}) \in Nat
         /\ InSeq(p, requests) = 0 <=> \A i \in 1..Len(requests) : requests[i].who # p
         /\ InSeq(p, unsent) = 0 /\ InSeq(p, inbox) = 0
              /\ Cardinality({r \in stored : r.who = p}) = 0
            <=> \A r \in Answers : r.who # p
         /\ Copies(p) = 0 =>
              /\ InSeq(p, requests) = 0 /\ InSeq(p, unsent) = 0 /\ InSeq(p, inbox) = 0
              /\ Cardinality({r \in stored : r.who = p}) = 0
         /\ Copies(p) = 0 \/ Copies(p) = 1 =>
              /\ InSeq(p, requests) = 0 \/ \A r \in Answers : r.who # p
              /\ InSeq(p, inbox) = 0 \/ Cardinality({r \in stored : r.who = p}) = 0
         /\ Copies(p) = 1 => InSeq(p, requests) # 0 \/ \E r \in Answers : r.who = p
<1>1. /\ requests \in Seq(Request) /\ unsent \in Seq(Response)
      /\ inbox \in Seq(Response \cup Delivered) /\ stored \in SUBSET Response
  BY DEF TypeOK
<1>2. /\ \A i \in 1..Len(requests) : requests[i] \in Request
      /\ \A i \in 1..Len(unsent) : unsent[i] \in Response
      /\ \A i \in 1..Len(inbox) : inbox[i] \in Response \cup Delivered
  BY <1>1, ElementOfSeq
<1>3. /\ InSeq(p, requests) \in Nat
      /\ InSeq(p, requests) = 0 <=> \A i \in 1..Len(requests) : ~By(p, requests[i])
  BY <1>1, InSeqType
<1>4. /\ InSeq(p, unsent) \in Nat
      /\ InSeq(p, unsent) = 0 <=> \A i \in 1..Len(unsent) : ~By(p, unsent[i])
  BY <1>1, InSeqType
<1>5. /\ InSeq(p, inbox) \in Nat
      /\ InSeq(p, inbox) = 0 <=> \A i \in 1..Len(inbox) : ~By(p, inbox[i])
  BY <1>1, InSeqType
<1>6. /\ Cardinality({r \in stored : r.who = p}) \in Nat
      /\ Cardinality({r \in stored : r.who = p}) = 0 <=> \A r \in stored : r.who # p
  BY <1>1, HeldType
<1>7. InSeq(p, requests) = 0 <=> \A i \in 1..Len(requests) : requests[i].who # p
  BY <1>2, <1>3, Kinds DEF By
<1>8. InSeq(p, unsent) = 0 <=> \A i \in 1..Len(unsent) : unsent[i].who # p
  BY <1>2, <1>4, Kinds DEF By
<1>9. InSeq(p, inbox) = 0 <=> \A i \in 1..Len(inbox) : IsResponse(inbox[i]) => inbox[i].who # p
  BY <1>2, <1>5, Kinds DEF By
<1>10. (\A r \in Answers : r.who # p) <=>
          /\ \A r \in stored : r.who # p
          /\ \A i \in 1..Len(unsent) : unsent[i].who # p
          /\ \A i \in 1..Len(inbox) : IsResponse(inbox[i]) => inbox[i].who # p
  <2>1. \A i \in 1..Len(inbox) : IsResponse(inbox[i]) => inbox[i] \in Response
    BY <1>2, Kinds
  <2> QED
    BY <1>1, <1>2, <2>1 DEF Answers, AnswerAt
<1>11. Copies(p) = InSeq(p, requests) + InSeq(p, unsent) + InSeq(p, inbox)
                     + Cardinality({r \in stored : r.who = p})
  BY DEF Copies
<1> DEFINE none == \A r \in Answers : r.who # p
           k1 == InSeq(p, requests)
           k2 == InSeq(p, unsent)
           k3 == InSeq(p, inbox)
           k4 == Cardinality({r \in stored : r.who = p})
           n == Copies(p)
<1>12. none <=> k2 = 0 /\ k3 = 0 /\ k4 = 0
  BY <1>6, <1>8, <1>9, <1>10
<1>13. k1 \in Nat /\ k2 \in Nat /\ k3 \in Nat /\ k4 \in Nat /\ n = k1 + k2 + k3 + k4
  BY <1>3, <1>4, <1>5, <1>6, <1>11
<1> HIDE DEF none, k1, k2, k3, k4, n
<1>14. /\ n = 0 => k1 = 0 /\ k2 = 0 /\ k3 = 0 /\ k4 = 0
       /\ n = 0 \/ n = 1 => (k1 = 0 \/ none) /\ (k3 = 0 \/ k4 = 0)
       /\ n = 1 => k1 # 0 \/ ~none
  BY <1>12, <1>13
<1> QED
  BY <1>7, <1>11, <1>12, <1>13, <1>14 DEF none, k1, k2, k3, k4, n

\* The same count, after a step.
LEMMA CopiesAfter ==
  ASSUME TypeOK', IsFiniteSet(stored'), NEW p
  PROVE  /\ Copies(p)' = InSeq(p, requests') + InSeq(p, unsent') + InSeq(p, inbox')
                           + Cardinality({r \in stored' : r.who = p})
         /\ InSeq(p, requests') \in Nat /\ InSeq(p, unsent') \in Nat
         /\ InSeq(p, inbox') \in Nat
         /\ Cardinality({r \in stored' : r.who = p}) \in Nat
<1>1. /\ requests' \in Seq(Request) /\ unsent' \in Seq(Response)
      /\ inbox' \in Seq(Response \cup Delivered) /\ stored' \in SUBSET Response
  BY DEF TypeOK
<1>2. /\ InSeq(p, requests') \in Nat /\ InSeq(p, unsent') \in Nat
      /\ InSeq(p, inbox') \in Nat
      /\ Cardinality({r \in stored' : r.who = p}) \in Nat
  BY <1>1, InSeqType, HeldType
<1> QED
  BY <1>2 DEF Copies, InSeq

LEMMA Quiet ==
  ASSUME TypeOK, UpInv, NEW p \in Callers, ~Waits(p)
  PROVE  /\ p \notin late /\ InSeq(p, requests) = 0 /\ InSeq(p, unsent) = 0
         /\ InSeq(p, inbox) = 0
         /\ \A i \in 1..Len(requests) : requests[i].who # p
         /\ \A r \in Answers : r.who # p
         /\ \A r \in stored : r.who # p
<1>1. p \notin late
  BY DEF UpInv, Late, LateOf, Waits, Callers
<1>2. IsFiniteSet(stored) /\ Copies(p) = 0
  BY <1>1 DEF UpInv, Unsent, OnItsWay
<1>3. /\ InSeq(p, requests) = 0 /\ InSeq(p, unsent) = 0 /\ InSeq(p, inbox) = 0
      /\ Cardinality({r \in stored : r.who = p}) = 0
  BY <1>2, CopiesAre
<1>4. \A r \in stored : r \in Answers
  BY DEF Answers, AnswerAt, TypeOK
<1> QED
  BY <1>1, <1>2, <1>3, <1>4, CopiesAre

LEMMA Exclusive ==
  ASSUME TypeOK, UpInv, NEW p \in Callers
  PROVE  /\ (\E r \in Answers : r.who = p) =>
              \A i \in 1..Len(requests) : requests[i].who # p
         /\ p \notin late => Copies(p) = 0 \/ Copies(p) = 1
<1>0. IsFiniteSet(stored)
  BY DEF UpInv, Unsent
<1>1. p \notin late => Copies(p) = 0 \/ Copies(p) = 1
  BY DEF UpInv, OnItsWay
<1>2. ASSUME NEW r \in Answers, r.who = p
      PROVE  \A i \in 1..Len(requests) : requests[i].who # p
  <2>1. p \notin late
    BY <1>2 DEF UpInv, Answered, AnsweredOf
  <2>2. InSeq(p, requests) = 0
    BY <1>0, <1>1, <1>2, <2>1, CopiesAre
  <2> QED
    BY <1>0, <2>2, CopiesAre
<1> QED
  BY <1>1, <1>2

LEMMA Waited ==
  ASSUME TypeOK, UpInv, NEW p \in Callers, p \notin late, Waits(p)
  PROVE  \/ \E i \in 1..Len(requests) : requests[i].who = p
         \/ \E r \in Answers : r.who = p
<1>1. IsFiniteSet(stored) /\ Copies(p) = 1
  BY DEF UpInv, Unsent, OnItsWay
<1> QED
  BY <1>1, CopiesAre

\* The client keeps a channel until all that was asked on it is answered.
LEMMA AnswersAreManaged ==
  ASSUME TypeOK, UpInv, inbox # <<>>, IsResponse(Head(inbox))
  PROVE  /\ Head(inbox) \in Answers /\ Head(inbox).chan \in managed
         /\ Head(inbox) \notin stored
<1> DEFINE x == Head(inbox)
           c == x.chan
<1>1. /\ inbox \in Seq(Response \cup Delivered) /\ x = inbox[1] /\ 1 \in 1..Len(inbox)
      /\ x \in Response \cup Delivered
  BY HeadTailProperties, LenProperties, EmptySeq DEF TypeOK
<1>2. x \in Response /\ x \in Answers /\ x.who \in Callers /\ c \in Channels /\ By(x.who, x)
  BY <1>1, Kinds DEF Answers, AnswerAt, By
<1> HIDE DEF x
<1>3. AnsweredOf(x) /\ KnownOf(c) /\ CloseAnswered(c)
  BY <1>2 DEF UpInv, Answered, Known, Closing
<1>4. c \in managed
  <2>1. CASE x.who \in Channels
    BY <1>2, <1>3, <2>1 DEF AnsweredOf, KnownOf
  <2>2. CASE x.who \in Workers
    <3>1. c = Task(x.who).chan /\ wpc[x.who] = "acking"
      BY <1>3, <2>2 DEF AnsweredOf
    <3>2. batch[x.who] \in Seq(Delivered) /\ batch[x.who] # <<>>
      BY <2>2, <3>1 DEF TypeOK
    <3>3. Task(x.who) \in Pushes
      <4>1. /\ Task(x.who) \in Delivered /\ Task(x.who) = batch[x.who][1]
            /\ 1 \in 1..Len(batch[x.who])
        BY <3>2, HeadTailProperties, LenProperties, EmptySeq DEF Task
      <4> QED
        BY <2>2, <4>1 DEF Pushes
    <3>4. at[c] \notin {"out", "opening"}
      BY <1>3, <3>1, <3>3 DEF KnownOf
    <3>5. at[c] \notin {"closed", "dropping", "gone"}
      BY <1>1, <1>3 DEF CloseAnswered, x, Leaving
    <3>6. at[c] \in Calls \cup {"out", "idle", "storing", "closed", "dropping", "gone"}
      BY <1>2 DEF TypeOK
    <3>7. at[c] \in Calls \cup {"idle", "storing"}
      BY <3>4, <3>5, <3>6
    <3> QED
      BY <1>3, <3>7 DEF KnownOf
  <2> QED
    BY <1>2, <2>1, <2>2 DEF Callers
<1>5. x \notin stored
  <2> SUFFICES ASSUME x \in stored PROVE FALSE
    OBVIOUS
  <2>1. x.who \notin late /\ IsFiniteSet(stored)
    BY <1>3 DEF AnsweredOf, UpInv, Unsent
  <2>2. Copies(x.who) = 0 \/ Copies(x.who) = 1
    BY <1>2, <2>1, Exclusive
  <2>3. InSeq(x.who, inbox) # 0
    <3>1. By(x.who, inbox[1])
      BY <1>1, <1>2 DEF x
    <3> QED
      BY <1>1, <3>1, InSeqType
  <2>4. Cardinality({r \in stored : r.who = x.who}) # 0
    <3>1. stored \in SUBSET Response
      BY DEF TypeOK
    <3>2. Cardinality({r \in stored : r.who = x.who}) = 0 => x.who # x.who
      BY <2>1, <3>1, HeldType
    <3> QED
      BY <3>2
  <2> QED
    BY <2>1, <2>2, <2>3, <2>4, CopiesAre
<1> QED
  BY <1>2, <1>4, <1>5 DEF x

-----------------------------------------------------------------------------
(* A step of one caller, p, which has nothing on its way but the response    *)
(* that it takes out of the map: it may go on, or send its next request.     *)

Freed(p) ==
  /\ p \notin late /\ InSeq(p, requests) = 0 /\ InSeq(p, unsent) = 0
  /\ InSeq(p, inbox) = 0 /\ stored' = {r \in stored : r.who # p}

LEMMA FreedQuiet ==
  ASSUME TypeOK, UpInv, NEW p \in Callers, ~Waits(p), stored' = stored
  PROVE  Freed(p)
BY Quiet DEF Freed

LEMMA FreedReturn ==
  ASSUME TypeOK, UpInv, NEW p \in Callers, NEW r \in stored, r.who = p,
         stored' = stored \ {r}
  PROVE  Freed(p) /\ r \in Answers
<1> DEFINE A == {q \in stored : q.who = p}
<1>1. r \in Answers /\ IsFiniteSet(stored) /\ stored \in SUBSET Response
  BY DEF Answers, AnswerAt, TypeOK, UpInv, Unsent
<1>2. p \notin late
  BY <1>1 DEF UpInv, Answered, AnsweredOf
<1>3. Copies(p) = 0 \/ Copies(p) = 1
  BY <1>2, Exclusive
<1>4. IsFiniteSet(A) /\ Cardinality(A) \in Nat /\ r \in A
  <2>1. r \in A
    OBVIOUS
  <2>2. A \subseteq stored
    OBVIOUS
  <2> HIDE DEF A
  <2>3. IsFiniteSet(A)
    BY <1>1, <2>2, FS_Subset
  <2> QED
    BY <2>1, <2>3, FS_CardinalityType
<1>5. Cardinality(A \ {r}) = Cardinality(A) - 1 /\ IsFiniteSet(A \ {r})
  BY <1>4, FS_RemoveElement
<1>6. Cardinality(A) # 0
  BY <1>4, FS_EmptySet
<1>7. /\ InSeq(p, requests) \in Nat /\ InSeq(p, unsent) \in Nat /\ InSeq(p, inbox) \in Nat
      /\ Copies(p) = InSeq(p, requests) + InSeq(p, unsent) + InSeq(p, inbox) + Cardinality(A)
  BY <1>1, CopiesAre
<1>8. /\ InSeq(p, requests) = 0 /\ InSeq(p, unsent) = 0 /\ InSeq(p, inbox) = 0
      /\ Cardinality(A) = 1
  <2> HIDE DEF A
  <2> QED
    BY <1>3, <1>4, <1>6, <1>7
<1>9. A \ {r} = {}
  <2> HIDE DEF A
  <2> QED
    BY <1>5, <1>8, FS_EmptySet
<1>10. stored' = {q \in stored : q.who # p}
  BY <1>9
<1> QED
  BY <1>1, <1>2, <1>8, <1>10 DEF Freed

LEMMA FreedMeans ==
  ASSUME TypeOK, UpInv, NEW p \in Callers, Freed(p), UNCHANGED <<inbox, unsent>>
  PROVE  /\ \A i \in 1..Len(requests) : requests[i].who # p
         /\ Answers' = {r \in Answers : r.who # p}
         /\ stored' \subseteq stored /\ IsFiniteSet(stored')
         /\ {r \in stored' : r.who = p} = {}
         /\ \A q : q # p => {r \in stored' : r.who = q} = {r \in stored : r.who = q}
<1>1. /\ IsFiniteSet(stored) /\ requests \in Seq(Request) /\ unsent \in Seq(Response)
      /\ inbox \in Seq(Response \cup Delivered)
  BY DEF TypeOK, UpInv, Unsent
<1>2. \A i \in 1..Len(requests) : requests[i].who # p
  BY <1>1, CopiesAre DEF Freed
<1>3. \A i \in 1..Len(unsent) : unsent[i].who # p
  <2>1. \A i \in 1..Len(unsent) : unsent[i] \in Response /\ ~By(p, unsent[i])
    BY <1>1, InSeqType, ElementOfSeq DEF Freed
  <2> QED
    BY <2>1, Kinds DEF By
<1>4. \A i \in 1..Len(inbox) : IsResponse(inbox[i]) => inbox[i].who # p
  <2>1. \A i \in 1..Len(inbox) : inbox[i] \in Response \cup Delivered /\ ~By(p, inbox[i])
    BY <1>1, InSeqType, ElementOfSeq DEF Freed
  <2> QED
    BY <2>1, Kinds DEF By
<1>5. Answers' = {r \in Answers : r.who # p}
  <2>1. \A r \in Response : AnswerAt(r)' <=> AnswerAt(r) /\ r.who # p
    BY <1>3, <1>4 DEF AnswerAt, Freed
  <2> QED
    BY <2>1 DEF Answers
<1>6. stored' \subseteq stored
  BY DEF Freed
<1>7. IsFiniteSet(stored')
  BY <1>1, <1>6, FS_Subset
<1> QED
  BY <1>2, <1>5, <1>6, <1>7 DEF Freed

\* What the others have stays theirs.
Others(p) ==
  /\ UNCHANGED <<link, inbox, opened, consumers, deleted, unsent>>
  /\ \A d \in Channels : d # p =>
       /\ at'[d] = at[d] /\ arg'[d] = arg[d] /\ sub'[d] = sub[d]
       /\ d \in managed => d \in managed'
  /\ \A v \in Workers : v # p => wpc'[v] = wpc[v] /\ batch'[v] = batch[v]
  /\ p \in Channels /\ at[p] \in Leaving => at'[p] \in Leaving
  /\ Pushes' \subseteq Pushes
  /\ late \subseteq late' /\ late' \subseteq late \cup {p}

LEMMA OthersAsked ==
  ASSUME TypeOK, NEW p \in Callers, Others(p), NEW x \in Request, x.who # p, AskedOf(x)
  PROVE  AskedOf(x)'
<1>1. x.chan \in Channels
  BY Kinds
<1>2. at[x.chan] \in Leaving => at'[x.chan] \in Leaving
  BY <1>1 DEF Others
<1>3. x.who \in late' => x.who \in late
  BY DEF Others
<1>4. x.who \in Channels =>
        at'[x.who] = at[x.who] /\ arg'[x.who] = arg[x.who] /\ sub'[x.who] = sub[x.who]
  BY DEF Others
<1>5. x.who \in Workers => wpc'[x.who] = wpc[x.who] /\ Task(x.who)' = Task(x.who)
  BY DEF Others, Task
<1> QED
  BY <1>2, <1>3, <1>4, <1>5 DEF AskedOf

LEMMA OthersAnswered ==
  ASSUME NEW p \in Callers, Others(p), NEW r \in Response, r.who # p, AnsweredOf(r)
  PROVE  AnsweredOf(r)'
<1>1. r.who \in Workers => wpc'[r.who] = wpc[r.who] /\ Task(r.who)' = Task(r.who)
  BY DEF Others, Task
<1> QED
  BY <1>1 DEF AnsweredOf, Others

LEMMA OthersKnown ==
  ASSUME NEW p \in Callers, Others(p), NEW d \in Channels, d # p, KnownOf(d),
         Answers' \subseteq Answers
  PROVE  KnownOf(d)'
<1>1. TagsOf(d)' = TagsOf(d)
  BY DEF TagsOf, Others
<1> QED
  BY <1>1 DEF KnownOf, Others

LEMMA OthersSubscribed ==
  ASSUME NEW p \in Callers, Others(p), NEW d \in Channels, d # p, SubscribedOf(d),
         Answers' \subseteq Answers,
         (\E i \in 1..Len(requests') : requests'[i].who = d) =>
           \E i \in 1..Len(requests) : requests[i].who = d
  PROVE  SubscribedOf(d)'
<1>1. TagsOf(d)' = TagsOf(d)
  BY DEF TagsOf, Others
<1>2. at'[d] = at[d] /\ arg'[d] = arg[d] /\ sub'[d] = sub[d]
  BY DEF Others
<1> QED
  BY <1>1, <1>2 DEF SubscribedOf

LEMMA OthersCloseAnswered ==
  ASSUME NEW p \in Callers, Others(p), NEW d \in Channels, d # p, CloseAnswered(d),
         Answers' \subseteq Answers, stored' \subseteq stored
  PROVE  CloseAnswered(d)'
BY DEF CloseAnswered, Others

LEMMA OthersUnsent ==
  ASSUME TypeOK, UpInv, NEW p \in Callers, Others(p), Freed(p)
  PROVE  Unsent'
<1>1. unsent' = unsent /\ inbox' = inbox /\ opened' = opened
  BY DEF Others
<1>2. IsFiniteSet(stored')
  BY <1>1, FreedMeans
<1>3. \A i \in 1..Len(unsent) : unsent[i].who # p
  <2>1. unsent \in Seq(Response)
    BY DEF TypeOK
  <2>2. \A i \in 1..Len(unsent) : unsent[i] \in Response /\ ~By(p, unsent[i])
    BY <2>1, InSeqType, ElementOfSeq DEF Freed
  <2> QED
    BY <2>2, Kinds DEF By
<1> QED
  BY <1>1, <1>2, <1>3 DEF Unsent, UpInv, Others

\* The requests are those there were, and perhaps a new one of p.
MayAsk(p) ==
  /\ \A i \in 1..Len(requests') :
       \/ i \in 1..Len(requests) /\ requests'[i] = requests[i]
       \/ /\ i = Len(requests) + 1 /\ requests'[i].who = p
          /\ AskedOf(requests[i])'
          /\ at[requests'[i].chan] \in Leaving => p \in late'
  /\ \A q : q # p => InSeq(q, requests') = InSeq(q, requests)
  /\ p \in late' \/ InSeq(p, requests') = IF Waits(p)' THEN 1 ELSE 0

LEMMA OthersCloseAsked ==
  ASSUME TypeOK, UpInv, NEW p \in Callers, Others(p), Freed(p), MayAsk(p),
         NEW d \in Channels, d # p, CloseAsked(d)
  PROVE  CloseAsked(d)'
<1>1. /\ at'[d] = at[d] /\ opened' = opened /\ Len(requests) \in Nat
      /\ late \subseteq late' /\ late' \subseteq late \cup {p}
  BY LenProperties DEF Others, TypeOK
<1>2. \A i \in 1..Len(requests) : requests[i].who # p
  BY FreedMeans DEF Others
<1>3. \A i \in 1..Len(requests') :
        \/ i \in 1..Len(requests) /\ requests'[i] = requests[i]
        \/ /\ i = Len(requests) + 1 /\ requests'[i].who = p
           /\ at[requests'[i].chan] \in Leaving => p \in late'
  BY DEF MayAsk
<1> SUFFICES ASSUME at'[d] \in Leaving
             PROVE  /\ \A i, j \in 1..Len(requests') :
                         requests'[i].who = d /\ at'[d] = "closing" /\ requests'[j].chan = d =>
                           (requests'[j].who \in late' <=> i < j)
                    /\ \A i \in 1..Len(requests') :
                         requests'[i].who = d /\ at'[d] = "closing" => d \in opened'
                    /\ d \notin opened' => \A i \in 1..Len(requests') :
                         requests'[i].chan = d => requests'[i].who \in late'
  BY DEF CloseAsked
<1>4. ASSUME NEW i \in 1..Len(requests'), NEW j \in 1..Len(requests'),
             requests'[i].who = d, at'[d] = "closing", requests'[j].chan = d
      PROVE  requests'[j].who \in late' <=> i < j
  <2>1. i \in 1..Len(requests) /\ requests'[i] = requests[i]
    BY <1>3, <1>4
  <2>2. CASE j \in 1..Len(requests) /\ requests'[j] = requests[j]
    <3>1. requests[j].who \in late <=> i < j
      BY <1>1, <1>4, <2>1, <2>2 DEF CloseAsked
    <3> QED
      BY <1>1, <1>2, <2>2, <3>1
  <2>3. CASE j = Len(requests) + 1 /\ requests'[j].who = p /\ p \in late'
    BY <1>1, <2>1, <2>3
  <2> QED
    BY <1>1, <1>3, <1>4, <2>2, <2>3
<1>5. ASSUME NEW i \in 1..Len(requests'), requests'[i].who = d, at'[d] = "closing"
      PROVE  d \in opened'
  BY <1>1, <1>3, <1>5 DEF CloseAsked
<1>6. ASSUME d \notin opened', NEW i \in 1..Len(requests'), requests'[i].chan = d
      PROVE  requests'[i].who \in late'
  BY <1>1, <1>3, <1>6 DEF CloseAsked
<1> QED
  BY <1>4, <1>5, <1>6

LEMMA OwnOnItsWay ==
  ASSUME TypeOK, TypeOK', UpInv, NEW p \in Callers, Others(p), Freed(p), MayAsk(p)
  PROVE  OnItsWay'
<1>1. /\ IsFiniteSet(stored) /\ IsFiniteSet(stored') /\ {r \in stored' : r.who = p} = {}
      /\ \A q : q # p => {r \in stored' : r.who = q} = {r \in stored : r.who = q}
      /\ inbox' = inbox /\ unsent' = unsent
  BY FreedMeans DEF Others, UpInv, Unsent
<1>2. /\ Copies(p)' = InSeq(p, requests') + InSeq(p, unsent') + InSeq(p, inbox')
                        + Cardinality({r \in stored' : r.who = p})
      /\ InSeq(p, requests') \in Nat
  BY <1>1, CopiesAfter
<1>3. Copies(p)' = InSeq(p, requests')
  <2>1. Cardinality({r \in stored' : r.who = p}) = 0
    BY <1>1, FS_EmptySet
  <2>2. InSeq(p, unsent') = 0 /\ InSeq(p, inbox') = 0
    BY <1>1 DEF Freed
  <2> QED
    BY <1>2, <2>1, <2>2
<1>4. ASSUME NEW q \in Callers, q # p
      PROVE  IF q \in late' THEN Copies(q)' = InSeq(q, requests')
             ELSE Copies(q)' = IF Waits(q)' THEN 1 ELSE 0
  <2>1. Copies(q)' = InSeq(q, requests') + InSeq(q, unsent') + InSeq(q, inbox')
                        + Cardinality({r \in stored' : r.who = q})
    BY <1>1, CopiesAfter
  <2>2. Copies(q) = InSeq(q, requests) + InSeq(q, unsent) + InSeq(q, inbox)
                        + Cardinality({r \in stored : r.who = q})
    BY <1>1, CopiesAre
  <2>3. InSeq(q, requests') = InSeq(q, requests)
    BY <1>4 DEF MayAsk
  <2>4. Copies(q)' = Copies(q)
    BY <1>1, <1>4, <2>1, <2>2, <2>3
  <2>5. Waits(q)' <=> Waits(q)
    BY <1>4 DEF Waits, Others
  <2>6. q \in late' <=> q \in late
    BY <1>4 DEF Others
  <2> QED
    BY <2>3, <2>4, <2>5, <2>6 DEF UpInv, OnItsWay
<1>5. IF p \in late' THEN Copies(p)' = InSeq(p, requests')
      ELSE Copies(p)' = IF Waits(p)' THEN 1 ELSE 0
  BY <1>3 DEF MayAsk
<1>6. \A q : InSeq(q, requests)' = InSeq(q, requests')
  BY DEF InSeq
<1> QED
  BY <1>4, <1>5, <1>6 DEF OnItsWay

LEMMA OwnStep ==
  ASSUME TypeOK, TypeOK', UpInv, NEW p \in Callers, Others(p), Freed(p), MayAsk(p),
         LateOf(p)',
         p \in Channels => /\ KnownOf(p)' /\ CloseAsked(p)' /\ CloseAnswered(p)'
                           /\ SubscribedOf(p)'
  PROVE  UpInv'
<1>1. /\ \A i \in 1..Len(requests) : requests[i].who # p
      /\ Answers' = {r \in Answers : r.who # p}
      /\ stored' \subseteq stored /\ IsFiniteSet(stored')
  BY FreedMeans DEF Others
<1>2. \A i \in 1..Len(requests') :
         \/ i \in 1..Len(requests) /\ requests'[i] = requests[i]
         \/ /\ i = Len(requests) + 1 /\ requests'[i].who = p
            /\ AskedOf(requests[i])'
  BY DEF MayAsk
<1>3. \A i \in 1..Len(requests) : requests[i] \in Request
  BY ElementOfSeq DEF TypeOK
<1>4. Asked'
  <2> SUFFICES ASSUME NEW i \in 1..Len(requests') PROVE AskedOf(requests[i])'
    BY DEF Asked
  <2>1. CASE i \in 1..Len(requests) /\ requests'[i] = requests[i]
    <3>1. PICK x \in Request : x = requests[i]
      BY <1>3, <2>1
    <3>2. AskedOf(x) /\ x.who # p
      BY <1>1, <2>1, <3>1 DEF UpInv, Asked
    <3>3. AskedOf(x)'
      BY <3>2, OthersAsked
    <3> QED
      BY <2>1, <3>1, <3>3 DEF AskedOf
  <2> QED
    BY <1>2, <2>1
<1>5. Answered'
  <2> SUFFICES ASSUME NEW r \in Answers' PROVE AnsweredOf(r)'
    BY DEF Answered
  <2>1. r \in Answers /\ r.who # p /\ r \in Response
    BY <1>1 DEF Answers
  <2> QED
    BY <2>1, OthersAnswered DEF UpInv, Answered
<1>6. Late'
  <2> SUFFICES ASSUME NEW q \in Callers, q # p PROVE LateOf(q)'
    BY DEF Late
  <2> QED
    BY DEF UpInv, Late, LateOf, Others
<1>7. OnItsWay'
  BY OwnOnItsWay
<1>8. Known'
  <2> SUFFICES ASSUME NEW d \in Channels, d # p PROVE KnownOf(d)'
    BY DEF Known
  <2> QED
    BY <1>1, OthersKnown DEF UpInv, Known
<1>9. Unsent'
  BY OthersUnsent
<1>10. Closing'
  <2> SUFFICES ASSUME NEW d \in Channels, d # p PROVE CloseAsked(d)' /\ CloseAnswered(d)'
    BY DEF Closing
  <2>1. CloseAsked(d) /\ CloseAnswered(d)
    BY DEF UpInv, Closing
  <2> QED
    BY <1>1, <2>1, OthersCloseAsked, OthersCloseAnswered
<1>11. Subscribed'
  <2> SUFFICES ASSUME NEW d \in Channels, d # p PROVE SubscribedOf(d)'
    BY DEF Subscribed
  <2>1. (\E i \in 1..Len(requests') : requests'[i].who = d) =>
           \E i \in 1..Len(requests) : requests[i].who = d
    BY <1>2
  <2> QED
    BY <1>1, <2>1, OthersSubscribed DEF UpInv, Subscribed
<1> QED
  BY <1>4, <1>5, <1>6, <1>7, <1>8, <1>9, <1>10, <1>11 DEF UpInv

\* p goes on without a request.
LEMMA GoesOn ==
  ASSUME TypeOK, UpInv, NEW p \in Callers, Freed(p), ~Waits(p)', requests' = requests,
         late' = late
  PROVE  MayAsk(p)
BY DEF MayAsk, Freed

\* p sends its next request.
LEMMA Asks ==
  ASSUME TypeOK, Tagged, link = "up", UpInv, NEW p \in Callers, Freed(p), Waits(p)',
         NEW op \in Ops, NEW c \in Channels, NEW tag \in Tags \cup {None},
         op = "consume" => tag \in Tags, Send(op, c, p, tag),
         AskedOf([op |-> op, chan |-> c, who |-> p, tag |-> tag])'
  PROVE  MayAsk(p) /\ late \subseteq late' /\ late' \subseteq late \cup {p}
<1> DEFINE x == [op |-> op, chan |-> c, who |-> p, tag |-> tag]
<1>1. /\ requests' \in Seq(Request) /\ Len(requests') = Len(requests) + 1
      /\ \A i \in 1..Len(requests) : requests'[i] = requests[i]
      /\ requests'[Len(requests) + 1] = x
      /\ \A i \in 1..Len(requests') : i \in 1..Len(requests) \/ i = Len(requests) + 1
      /\ \A q : InSeq(q, requests') = InSeq(q, requests) + IF q = p THEN 1 ELSE 0
      /\ late' = IF at[c] \in Leaving THEN late \cup {p} ELSE late
  BY SendEffect
<1>2. x.who = p /\ x.chan = c
  OBVIOUS
<1>3. AskedOf(x)'
  OBVIOUS
<1> HIDE DEF x
<1>5. \A q : q # p => InSeq(q, requests') = InSeq(q, requests)
  <2>1. \A q : InSeq(q, requests) \in Nat
    BY InSeqType DEF TypeOK
  <2> QED
    BY <1>1, <2>1
<1>6. InSeq(p, requests') = 1
  BY <1>1 DEF Freed
<1>7. ASSUME NEW i \in 1..Len(requests')
      PROVE  \/ i \in 1..Len(requests) /\ requests'[i] = requests[i]
             \/ /\ i = Len(requests) + 1 /\ requests'[i].who = p
                /\ AskedOf(requests[i])'
                /\ at[requests'[i].chan] \in Leaving => p \in late'
  <2>1. CASE i = Len(requests) + 1
    <3>1. requests'[i] = x
      BY <1>1, <2>1
    <3>2. AskedOf(requests[i])'
      BY <1>3, <3>1 DEF AskedOf
    <3> QED
      BY <1>1, <1>2, <2>1, <3>1, <3>2
  <2> QED
    BY <1>1, <2>1
<1> QED
  BY <1>1, <1>5, <1>6, <1>7 DEF MayAsk

-----------------------------------------------------------------------------
(* The steps of a channel's thread.                                          *)

LEMMA ChannelOthers ==
  ASSUME NEW c \in Channels,
         UNCHANGED <<link, inbox, tasks, batch, wpc, opened, consumers, deleted, unsent,
                     chosen>>,
         \A d \in Channels : d # c =>
           /\ at'[d] = at[d] /\ arg'[d] = arg[d] /\ sub'[d] = sub[d]
           /\ d \in managed => d \in managed',
         at[c] \in Leaving => at'[c] \in Leaving,
         late \subseteq late', late' \subseteq late \cup {c}
  PROVE  Others(c)
BY DEF Others, Pushes

\* A call of an application thread, from its idle state or, for open, from "out".
LEMMA CallStep ==
  ASSUME TypeOK, TypeOK', Tagged, UpInv, link = "up", NEW c \in Channels,
         NEW op \in Ops, NEW tag \in Tags \cup {None}, op = "consume" => tag \in Tags,
         NEW s \in Calls, at[c] \in {"out", "idle"}, at' = [at EXCEPT ![c] = s],
         Send(op, c, c, tag),
         UNCHANGED <<link, inbox, stored, sub, pool, server>>,
         managed' = managed \cup {c} \/ managed' = managed,
         \A d \in Channels : d # c => arg'[d] = arg[d],
         AskedOf([op |-> op, chan |-> c, who |-> c, tag |-> tag])',
         Freed(c) => KnownOf(c)' /\ CloseAsked(c)' /\ CloseAnswered(c)' /\ SubscribedOf(c)'
  PROVE  UpInv'
<1>1. c \in Callers /\ ~Waits(c)
  BY ClientAssumption DEF Callers, Waits, Calls
<1>2. Freed(c)
  BY <1>1, FreedQuiet
<1>3. at'[c] = s /\ \A d \in Channels : d # c => at'[d] = at[d]
  BY DEF TypeOK
<1>4. Waits(c)'
  BY <1>3 DEF Waits
<1>5. late' = late
  BY DEF Send
<1>6. MayAsk(c)
  BY <1>1, <1>2, <1>4, Asks
<1>7. Others(c)
  BY <1>3, <1>5, ChannelOthers DEF pool, server, Leaving
<1>8. LateOf(c)'
  BY <1>2, <1>3, <1>5, ClientAssumption DEF LateOf, Freed, Calls
<1> QED
  BY <1>1, <1>2, <1>6, <1>7, <1>8, OwnStep

LEMMA IdleQuiet ==
  ASSUME TypeOK, UpInv, NEW c \in Channels, at[c] \in {"out", "idle"},
         UNCHANGED <<inbox, stored, unsent, consumers, deleted>>
  PROVE  /\ c \in Callers /\ ~Waits(c) /\ c \notin late /\ KnownOf(c) /\ SubscribedOf(c)
         /\ \A i \in 1..Len(requests) : requests[i].who # c
         /\ \A r \in Answers : r.who # c
         /\ \A r \in stored : r.who # c
         /\ Answers' = Answers /\ TagsOf(c)' = TagsOf(c)
<1>1. c \in Callers /\ ~Waits(c)
  BY ClientAssumption DEF Callers, Waits, Calls
<1>2. /\ c \notin late /\ \A i \in 1..Len(requests) : requests[i].who # c
      /\ \A r \in Answers : r.who # c
      /\ \A r \in stored : r.who # c
  BY <1>1, Quiet
<1>3. KnownOf(c) /\ SubscribedOf(c)
  BY DEF UpInv, Known, Subscribed
<1>4. Answers' = Answers
  BY DEF Answers, AnswerAt
<1>5. TagsOf(c)' = TagsOf(c)
  BY DEF TagsOf
<1> QED
  BY <1>1, <1>2, <1>3, <1>4, <1>5

LEMMA OpenUp ==
  ASSUME TypeOK, TypeOK', Tagged, UpInv, NEW c \in Channels, Open(c)
  PROVE  UpInv'
<1>1. /\ link = "up" /\ at[c] = "out" /\ at' = [at EXCEPT ![c] = "opening"]
      /\ Send("open", c, c, None) /\ managed' = managed \cup {c}
      /\ UNCHANGED <<link, inbox, stored, sub, arg, pool, server>>
  BY DEF Open
<1>2. /\ c \in Callers /\ c \notin late /\ KnownOf(c)
      /\ Answers' = Answers /\ TagsOf(c)' = TagsOf(c)
  BY <1>1, IdleQuiet DEF server
<1>3. at'[c] = "opening" /\ late' = late /\ c \notin Workers
  BY <1>1, ClientAssumption DEF TypeOK, Send
<1>4. AskedOf([op |-> "open", chan |-> c, who |-> c, tag |-> None])'
  BY <1>2, <1>3 DEF AskedOf
<1>5. Pushes' = Pushes
  BY <1>1 DEF Pushes, pool, server
<1>6. KnownOf(c)'
  BY <1>1, <1>2, <1>3, <1>5 DEF KnownOf, server
<1>7. CloseAsked(c)' /\ CloseAnswered(c)' /\ SubscribedOf(c)'
  BY <1>3 DEF CloseAsked, CloseAnswered, SubscribedOf, Leaving
<1>8. "open" \in Ops /\ "opening" \in Calls
  BY DEF Ops, Calls
<1> QED
  BY <1>1, <1>4, <1>6, <1>7, <1>8, CallStep

LEMMA CallUp ==
  ASSUME TypeOK, TypeOK', Tagged, UpInv, link = "up", NEW c \in Channels, Call(c)
  PROVE  UpInv'
<1>1. /\ at[c] = "idle" /\ at' = [at EXCEPT ![c] = "calling"]
      /\ Send("call", c, c, None)
      /\ UNCHANGED <<link, inbox, managed, stored, sub, arg, pool, server>>
  BY DEF Call
<1>2. /\ c \in Callers /\ c \notin late /\ KnownOf(c) /\ SubscribedOf(c)
      /\ Answers' = Answers /\ TagsOf(c)' = TagsOf(c)
  BY <1>1, IdleQuiet DEF server
<1>3. at'[c] = "calling" /\ late' = late /\ c \notin Workers
  BY <1>1, ClientAssumption DEF TypeOK, Send
<1>4. AskedOf([op |-> "call", chan |-> c, who |-> c, tag |-> None])'
  BY <1>2, <1>3 DEF AskedOf
<1>5. KnownOf(c)'
  BY <1>1, <1>2, <1>3 DEF KnownOf, server
<1>6. CloseAsked(c)' /\ CloseAnswered(c)'
  BY <1>3 DEF CloseAsked, CloseAnswered, Leaving
<1>7. SubscribedOf(c)'
  BY <1>1, <1>2, <1>3 DEF SubscribedOf
<1>8. "call" \in Ops /\ "calling" \in Calls
  BY DEF Ops, Calls
<1> QED
  BY <1>1, <1>4, <1>5, <1>6, <1>7, <1>8, CallStep

LEMMA ConsumeUp ==
  ASSUME TypeOK, TypeOK', Tagged, UpInv, link = "up", NEW c \in Channels, NEW t \in Tags,
         Consume(c, t)
  PROVE  UpInv'
<1>1. /\ at[c] = "idle" /\ at' = [at EXCEPT ![c] = "consuming"] /\ sub[c] = None
      /\ arg' = [arg EXCEPT ![c] = t]
      /\ Send("consume", c, c, t)
      /\ UNCHANGED <<link, inbox, managed, stored, sub, pool, server>>
  BY DEF Consume
<1>2. /\ c \in Callers /\ c \notin late /\ KnownOf(c) /\ SubscribedOf(c)
      /\ Answers' = Answers /\ TagsOf(c)' = TagsOf(c)
      /\ \A r \in Answers : r.who # c
  BY <1>1, IdleQuiet DEF server
<1>3. /\ at'[c] = "consuming" /\ late' = late /\ c \notin Workers /\ arg'[c] = t
      /\ \A d \in Channels : d # c => arg'[d] = arg[d]
  BY <1>1, ClientAssumption DEF TypeOK, Send
<1>4. AskedOf([op |-> "consume", chan |-> c, who |-> c, tag |-> t])'
  BY <1>2, <1>3 DEF AskedOf
<1>5. KnownOf(c)'
  BY <1>1, <1>2, <1>3 DEF KnownOf, server
<1>6. CloseAsked(c)' /\ CloseAnswered(c)'
  BY <1>3 DEF CloseAsked, CloseAnswered, Leaving
<1>7. SubscribedOf(c)'
  BY <1>1, <1>2, <1>3 DEF SubscribedOf
<1>8. "consume" \in Ops /\ "consuming" \in Calls /\ t \in Tags \cup {None}
  BY DEF Ops, Calls
<1> QED
  BY <1>1, <1>3, <1>4, <1>5, <1>6, <1>7, <1>8, CallStep

LEMMA CancelUp ==
  ASSUME TypeOK, TypeOK', Tagged, UpInv, link = "up", NEW c \in Channels, Cancel(c)
  PROVE  UpInv'
<1>0. PICK t \in Tags \cup {None} : t = sub[c]
  BY DEF TypeOK
<1>1. /\ at[c] = "idle" /\ at' = [at EXCEPT ![c] = "cancelling"] /\ sub[c] # None
      /\ Send("cancel", c, c, t)
      /\ UNCHANGED <<link, inbox, managed, stored, sub, arg, pool, server>>
  BY <1>0 DEF Cancel
<1>2. /\ c \in Callers /\ c \notin late /\ KnownOf(c) /\ SubscribedOf(c)
      /\ Answers' = Answers /\ TagsOf(c)' = TagsOf(c)
      /\ \A r \in Answers : r.who # c
  BY <1>1, IdleQuiet DEF server
<1>3. at'[c] = "cancelling" /\ late' = late /\ c \notin Workers /\ sub'[c] = t
  BY <1>0, <1>1, ClientAssumption DEF TypeOK, Send
<1>4. AskedOf([op |-> "cancel", chan |-> c, who |-> c, tag |-> t])'
  BY <1>2, <1>3 DEF AskedOf
<1>5. KnownOf(c)'
  BY <1>1, <1>2, <1>3 DEF KnownOf, server
<1>6. CloseAsked(c)' /\ CloseAnswered(c)'
  BY <1>3 DEF CloseAsked, CloseAnswered, Leaving
<1>7. SubscribedOf(c)'
  BY <1>1, <1>2, <1>3 DEF SubscribedOf
<1>8. "cancel" \in Ops /\ "cancelling" \in Calls
  BY DEF Ops, Calls
<1> QED
  BY <1>1, <1>4, <1>5, <1>6, <1>7, <1>8, CallStep

\* No request made before the close is late, and every one of them is in front.
LEMMA CloseUp ==
  ASSUME TypeOK, TypeOK', Tagged, UpInv, link = "up", NEW c \in Channels, Close(c)
  PROVE  UpInv'
<1>1. /\ at[c] = "idle" /\ at' = [at EXCEPT ![c] = "closing"]
      /\ Send("close", c, c, None)
      /\ UNCHANGED <<link, inbox, managed, stored, sub, arg, pool, server>>
  BY DEF Close
<1>2. /\ c \in Callers /\ c \notin late /\ KnownOf(c)
      /\ Answers' = Answers /\ TagsOf(c)' = TagsOf(c)
      /\ \A i \in 1..Len(requests) : requests[i].who # c
      /\ \A r \in Answers : r.who # c
      /\ \A r \in stored : r.who # c
  BY <1>1, IdleQuiet DEF server
<1>3. at'[c] = "closing" /\ late' = late /\ c \notin Workers /\ c \in opened'
  BY <1>1, <1>2, ClientAssumption DEF TypeOK, Send, KnownOf, server
<1>4. AskedOf([op |-> "close", chan |-> c, who |-> c, tag |-> None])'
  BY <1>2, <1>3 DEF AskedOf
<1>5. KnownOf(c)'
  BY <1>1, <1>2, <1>3 DEF KnownOf, server, Calls
<1>6. CloseAsked(c)'
  <2>1. /\ \A i \in 1..Len(requests) : requests'[i] = requests[i]
        /\ requests'[Len(requests) + 1].who = c /\ Len(requests) \in Nat
        /\ \A i \in 1..Len(requests') : i \in 1..Len(requests) \/ i = Len(requests) + 1
    <3>1. "close" \in Ops /\ None \in Tags \cup {None} /\ "close" # "consume"
      BY DEF Ops
    <3>2. /\ \A i \in 1..Len(requests) : requests'[i] = requests[i]
          /\ requests'[Len(requests) + 1]
               = [op |-> "close", chan |-> c, who |-> c, tag |-> None]
          /\ Len(requests) \in Nat
          /\ \A i \in 1..Len(requests') : i \in 1..Len(requests) \/ i = Len(requests) + 1
      BY <1>1, <1>2, <3>1, SendEffect
    <3> QED
      BY <3>2
  <2>2. ASSUME NEW i \in 1..Len(requests), requests[i].chan = c
        PROVE  requests[i].who \notin late
    <3>1. AskedOf(requests[i])
      BY DEF UpInv, Asked
    <3> QED
      BY <1>1, <2>2, <3>1 DEF AskedOf, Leaving
  <2>3. ASSUME NEW i \in 1..Len(requests'), NEW j \in 1..Len(requests'),
               requests'[i].who = c, requests'[j].chan = c
        PROVE  requests'[j].who \in late' <=> i < j
    <3>1. i = Len(requests) + 1 /\ ~(i < j)
      BY <1>2, <2>1, <2>3
    <3>2. requests'[j].who \notin late'
      BY <1>2, <1>3, <2>1, <2>2, <2>3
    <3> QED
      BY <3>1, <3>2
  <2> QED
    BY <1>3, <2>3 DEF CloseAsked
<1>7. CloseAnswered(c)'
  <2>1. \A i \in 1..Len(inbox) : IsResponse(inbox[i]) => inbox[i].who # c
    <3>1. \A i \in 1..Len(inbox) : IsResponse(inbox[i]) => inbox[i] \in Answers
      BY InboxAnswers
    <3> QED
      BY <1>2, <3>1
  <2> QED
    BY <1>1, <1>2, <1>3, <2>1 DEF CloseAnswered
<1>8. SubscribedOf(c)'
  BY <1>3 DEF SubscribedOf
<1>9. "close" \in Ops /\ "closing" \in Calls
  BY DEF Ops, Calls
<1> QED
  BY <1>1, <1>4, <1>5, <1>6, <1>7, <1>8, <1>9, CallStep

\* The call returns with the answer to it, which is the last of a close.
LEMMA ReturnUp ==
  ASSUME TypeOK, TypeOK', Tagged, UpInv, link = "up", NEW c \in Channels, Return(c)
  PROVE  UpInv'
<1>1. PICK r \in stored :
        /\ r.chan = c /\ r.who = c
        /\ stored' = stored \ {r}
        /\ at' = [at EXCEPT ![c] =
                    CASE @ = "consuming" /\ r.ok -> "storing"
                      [] @ = "closing" -> "closed"
                      [] OTHER -> "idle"]
  BY DEF Return
<1>2. /\ at[c] \in {"opening", "calling", "consuming", "cancelling", "closing"}
      /\ sub' = IF at[c] = "cancelling" THEN [sub EXCEPT ![c] = None] ELSE sub
      /\ managed' = IF at[c] = "closing" THEN managed \ {c} ELSE managed
      /\ UNCHANGED <<link, requests, inbox, arg, pool, server, late>>
  BY DEF Return, wire, Calls
<1>3. c \in Callers /\ Freed(c) /\ r \in Answers
  BY <1>1, FreedReturn DEF Callers
<1>4. /\ \A i \in 1..Len(requests) : requests[i].who # c
      /\ Answers' = {q \in Answers : q.who # c}
      /\ \A q \in stored' : q.who # c
      /\ c \notin late
  BY <1>2, <1>3, FreedMeans DEF server, Freed
<1>5. KnownOf(c) /\ SubscribedOf(c) /\ CloseAsked(c) /\ CloseAnswered(c)
  BY DEF UpInv, Known, Subscribed, Closing
<1>6. /\ at'[c] = CASE at[c] = "consuming" /\ r.ok -> "storing"
                    [] at[c] = "closing" -> "closed"
                    [] OTHER -> "idle"
      /\ \A d \in Channels : d # c => at'[d] = at[d] /\ sub'[d] = sub[d]
      /\ sub'[c] = IF at[c] = "cancelling" THEN None ELSE sub[c]
  BY <1>1, <1>2 DEF TypeOK
<1>7. TagsOf(c)' = TagsOf(c) /\ opened' = opened /\ inbox' = inbox /\ arg' = arg
  BY <1>2 DEF TagsOf, server
<1>8. at[c] = "closing" \/ c \in opened
  BY <1>1, <1>2, <1>3, <1>5 DEF KnownOf
<1>9. at[c] = "closing" => c \notin opened
  BY <1>1, <1>3, <1>5 DEF CloseAnswered, Leaving
<1>10. KnownOf(c)'
  <2>1. CASE at[c] = "closing"
    BY <1>6, <1>7, <1>9, <2>1 DEF KnownOf, Calls
  <2>2. CASE at[c] # "closing"
    <3>1. at'[c] \in {"storing", "idle"} /\ c \in managed' /\ c \in opened'
      BY <1>2, <1>5, <1>6, <1>7, <1>8, <2>2 DEF KnownOf, Calls
    <3> QED
      BY <3>1 DEF KnownOf
  <2> QED
    BY <2>1, <2>2
<1>11. CloseAsked(c)' /\ CloseAnswered(c)'
  <2>1. CASE at[c] = "closing"
    <3>1. at'[c] = "closed" /\ at[c] \in Leaving
      BY <1>6, <2>1 DEF Leaving
    <3>2. CloseAsked(c)'
      BY <1>2, <1>5, <1>7, <3>1 DEF CloseAsked
    <3>3. \A i \in 1..Len(inbox) : IsResponse(inbox[i]) => inbox[i].chan # c
      BY <1>1, <1>5, <3>1 DEF CloseAnswered
    <3> QED
      BY <1>7, <3>1, <3>2, <3>3 DEF CloseAnswered
  <2>2. CASE at[c] # "closing"
    <3>1. at'[c] \notin Leaving
      BY <1>6, <2>2 DEF Leaving
    <3> QED
      BY <3>1 DEF CloseAsked, CloseAnswered
  <2> QED
    BY <2>1, <2>2
<1>12. SubscribedOf(c)'
  <2>1. at'[c] = "idle" => TagsOf(c) = {sub'[c]} \ {None}
    BY <1>1, <1>2, <1>3, <1>5, <1>6 DEF SubscribedOf, KnownOf
  <2>2. at'[c] = "storing" => sub'[c] = None /\ TagsOf(c) = {arg[c]}
    BY <1>1, <1>2, <1>3, <1>5, <1>6 DEF SubscribedOf
  <2>3. at'[c] \in {"idle", "storing", "closed"}
    BY <1>6
  <2> QED
    BY <1>7, <2>1, <2>2, <2>3 DEF SubscribedOf
<1>13. Others(c)
  BY <1>1, <1>2, <1>6, ChannelOthers DEF pool, server, Leaving
<1>14. ~Waits(c)'
  BY <1>6, ClientAssumption DEF Waits, Calls
<1>15. LateOf(c)'
  BY <1>2, <1>4, <1>6, ClientAssumption DEF LateOf
<1>16. MayAsk(c)
  BY <1>2, <1>3, <1>14, GoesOn
<1> QED
  BY <1>3, <1>10, <1>11, <1>12, <1>13, <1>15, <1>16, OwnStep

LEMMA StoreUp ==
  ASSUME TypeOK, TypeOK', Tagged, UpInv, link = "up", NEW c \in Channels,
         StoreSubscriber(c)
  PROVE  UpInv'
<1>1. /\ at[c] = "storing" /\ at' = [at EXCEPT ![c] = "idle"]
      /\ sub' = [sub EXCEPT ![c] = arg[c]] /\ arg' = [arg EXCEPT ![c] = None]
      /\ UNCHANGED <<link, requests, inbox, managed, stored, pool, server, late>>
  BY DEF StoreSubscriber, wire
<1>2. c \in Callers /\ ~Waits(c)
  BY <1>1, ClientAssumption DEF Callers, Waits, Calls
<1>3. Freed(c)
  BY <1>1, <1>2, FreedQuiet
<1>4. /\ at'[c] = "idle" /\ sub'[c] = arg[c]
      /\ \A d \in Channels : d # c => at'[d] = at[d] /\ sub'[d] = sub[d] /\ arg'[d] = arg[d]
  BY <1>1 DEF TypeOK
<1>5. KnownOf(c) /\ SubscribedOf(c)
  BY DEF UpInv, Known, Subscribed
<1>6. KnownOf(c)'
  BY <1>1, <1>4, <1>5 DEF KnownOf, server
<1>7. CloseAsked(c)' /\ CloseAnswered(c)'
  BY <1>4 DEF CloseAsked, CloseAnswered, Leaving
<1>8. SubscribedOf(c)'
  <2>1. TagsOf(c) = {arg[c]} /\ TagsOf(c)' = TagsOf(c)
    BY <1>1, <1>5 DEF SubscribedOf, TagsOf, server
  <2>2. None \notin TagsOf(c)
    BY ClientAssumption DEF TypeOK, TagsOf
  <2> QED
    BY <1>4, <2>1, <2>2 DEF SubscribedOf
<1>9. Others(c)
  BY <1>1, <1>4, ChannelOthers DEF pool, server, Leaving
<1>10. ~Waits(c)'
  BY <1>4, ClientAssumption DEF Waits, Calls
<1>11. LateOf(c)'
  BY <1>1, <1>3, <1>4, ClientAssumption DEF LateOf, Freed
<1>12. MayAsk(c)
  BY <1>1, <1>2, <1>3, <1>10, GoesOn
<1> QED
  BY <1>2, <1>3, <1>6, <1>7, <1>8, <1>9, <1>11, <1>12, OwnStep

\* Who lets go of a closed channel last cancels, and waits in place of its thread:
\* the cancel follows the close, so it is late.
LEMMA LetGoUp ==
  ASSUME TypeOK, TypeOK', Tagged, UpInv, link = "up", NEW c \in Channels,
         NEW t \in Tags \cup {None}, at[c] \in {"closed", "gone"},
         UNCHANGED <<link, inbox, managed, stored, sub, arg, tasks, batch, wpc, server>>,
         \/ at' = [at EXCEPT ![c] = "gone"] /\ UNCHANGED <<requests, late>>
         \/ at' = [at EXCEPT ![c] = "dropping"] /\ Send("cancel", c, c, t)
  PROVE  UpInv'
<1>1. /\ at[c] \in {"closed", "gone"}
      /\ UNCHANGED <<link, inbox, managed, stored, sub, arg, tasks, batch, wpc, server>>
      /\ \/ at' = [at EXCEPT ![c] = "gone"] /\ UNCHANGED <<requests, late>>
         \/ at' = [at EXCEPT ![c] = "dropping"] /\ Send("cancel", c, c, t)
  OBVIOUS
<1>2. c \in Callers /\ ~Waits(c) /\ c \notin Workers
  BY <1>1, ClientAssumption DEF Callers, Waits, Calls
<1>3. Freed(c) /\ c \notin late
  BY <1>1, <1>2, FreedQuiet DEF Freed
<1>4. /\ at'[c] \in {"gone", "dropping"}
      /\ \A d \in Channels : d # c => at'[d] = at[d]
  BY <1>1 DEF TypeOK
<1>5. KnownOf(c) /\ CloseAsked(c) /\ CloseAnswered(c)
  BY DEF UpInv, Known, Closing
<1>6. MayAsk(c) /\ LateOf(c)' /\ late \subseteq late' /\ late' \subseteq late \cup {c}
  <2>1. CASE at' = [at EXCEPT ![c] = "gone"] /\ UNCHANGED <<requests, late>>
    <3>1. at'[c] = "gone"
      BY <2>1 DEF TypeOK
    <3>2. ~Waits(c)' /\ LateOf(c)'
      BY <1>2, <1>3, <2>1, <3>1 DEF Waits, LateOf, Calls
    <3> QED
      BY <1>2, <1>3, <2>1, <3>2, GoesOn
  <2>2. CASE at' = [at EXCEPT ![c] = "dropping"] /\ Send("cancel", c, c, t)
    <3>1. at'[c] = "dropping" /\ late' = late \cup {c}
      BY <1>1, <2>2 DEF TypeOK, Send
    <3>2. Waits(c)' /\ LateOf(c)'
      BY <1>2, <3>1 DEF Waits, LateOf
    <3>3. AskedOf([op |-> "cancel", chan |-> c, who |-> c, tag |-> t])'
      BY <1>2, <3>1 DEF AskedOf, Leaving
    <3>4. "cancel" \in Ops
      BY DEF Ops
    <3>5. MayAsk(c)
      BY <1>2, <1>3, <2>2, <3>2, <3>3, <3>4, Asks
    <3> QED
      BY <3>1, <3>2, <3>5
  <2> QED
    BY <1>1, <2>1, <2>2
<1>7. c \notin opened /\ opened' = opened
  BY <1>1, <1>5 DEF KnownOf, server
<1>8. KnownOf(c)'
  BY <1>4, <1>7 DEF KnownOf, Calls
<1>9. CloseAsked(c)'
  <2>1. \A i \in 1..Len(requests) : requests[i].chan = c => requests[i].who \in late
    BY <1>1, <1>5, <1>7 DEF CloseAsked, Leaving
  <2>2. ASSUME NEW i \in 1..Len(requests'), requests'[i].chan = c
        PROVE  requests'[i].who \in late'
    BY <1>1, <1>6, <2>1, <2>2 DEF MayAsk, Leaving
  <2> QED
    BY <1>4, <2>2 DEF CloseAsked
<1>10. CloseAnswered(c)'
  <2>1. \A i \in 1..Len(inbox) : IsResponse(inbox[i]) => inbox[i].chan # c
    BY <1>1, <1>5 DEF CloseAnswered, Leaving
  <2>2. \A i \in 1..Len(inbox) : IsResponse(inbox[i]) => inbox[i] \in Answers
    BY InboxAnswers
  <2>3. \A r \in Answers : r.who # c
    BY <1>2, Quiet
  <2> QED
    BY <1>1, <1>4, <2>1, <2>2, <2>3 DEF CloseAnswered
<1>11. SubscribedOf(c)'
  BY <1>4 DEF SubscribedOf
<1>12. Others(c)
  BY <1>1, <1>4, <1>6, ChannelOthers DEF server, Leaving
<1> QED
  BY <1>2, <1>3, <1>6, <1>8, <1>9, <1>10, <1>11, <1>12, OwnStep

LEMMA DropUp ==
  ASSUME TypeOK, TypeOK', Tagged, UpInv, link = "up", NEW c \in Channels, Drop(c)
  PROVE  UpInv'
<1>1. PICK t \in Tags \cup {None} : t = sub[c]
  BY DEF TypeOK
<1>2. /\ at[c] \in {"closed", "gone"}
      /\ UNCHANGED <<link, inbox, managed, stored, sub, arg, tasks, batch, wpc, server>>
      /\ \/ at' = [at EXCEPT ![c] = "gone"] /\ UNCHANGED <<requests, late>>
         \/ at' = [at EXCEPT ![c] = "dropping"] /\ Send("cancel", c, c, t)
  BY <1>1 DEF Drop, pool
<1> QED
  BY <1>2, LetGoUp

-----------------------------------------------------------------------------
(* The steps of a worker of the client.                                      *)

LEMMA WorkerOthers ==
  ASSUME NEW w \in Workers, Pushes' \subseteq Pushes,
         UNCHANGED <<link, inbox, managed, sub, at, arg, opened, consumers, deleted, unsent>>,
         \A v \in Workers : v # w => wpc'[v] = wpc[v] /\ batch'[v] = batch[v],
         late \subseteq late', late' \subseteq late \cup {w}
  PROVE  Others(w) /\ w \in Callers /\ w \notin Channels
BY ClientAssumption DEF Others, Callers

LEMMA EndTaskUp ==
  ASSUME TypeOK, TypeOK', Tagged, UpInv, link = "up", NEW w \in Workers,
         batch[w] # <<>>, Freed(w), EndTask(w),
         UNCHANGED <<link, wire, managed, sub, at, arg, tasks, server, late>>
  PROVE  UpInv'
<1>1. w \in Callers /\ w \notin Channels /\ w \notin late
  BY ClientAssumption DEF Callers, Freed
<1>2. /\ batch[w] \in Seq(Delivered) /\ Len(batch[w]) \in Nat
      /\ Len(Tail(batch[w])) = Len(batch[w]) - 1
      /\ \A i \in 1..Len(Tail(batch[w])) : Tail(batch[w])[i] = batch[w][i + 1]
  BY HeadTailProperties, LenProperties DEF TypeOK
<1>3. /\ wpc'[w] = "idle" /\ batch'[w] = Tail(batch[w])
      /\ \A v \in Workers : v # w => wpc'[v] = wpc[v] /\ batch'[v] = batch[v]
  BY DEF EndTask, TypeOK
<1>4. Pushes' \subseteq Pushes
  <2>1. ASSUME NEW d, NEW v \in Workers, NEW i \in 1..Len(batch'[v]), batch'[v][i] = d
        PROVE  \E u \in Workers : \E j \in 1..Len(batch[u]) : batch[u][j] = d
    <3>1. CASE v = w
      <4>1. i \in 1..Len(Tail(batch[w])) /\ Tail(batch[w])[i] = d
        BY <1>3, <2>1, <3>1
      <4>2. batch[w][i + 1] = d
        BY <1>2, <4>1
      <4>3. i + 1 \in 1..Len(batch[w])
        <5> DEFINE m == Len(Tail(batch[w]))
                   n == Len(batch[w])
        <5>1. i \in 1..m /\ m = n - 1 /\ n \in Nat
          BY <1>2, <4>1
        <5> HIDE DEF m, n
        <5>2. i + 1 \in 1..n
          BY <5>1
        <5> QED
          BY <5>2 DEF n
      <4> QED
        BY <4>2, <4>3
    <3> QED
      BY <1>3, <2>1, <3>1
  <2> QED
    BY <2>1 DEF Pushes, wire, server
<1>5. Others(w)
  BY <1>3, <1>4, WorkerOthers DEF wire, server
<1>6. ~Waits(w)' /\ LateOf(w)'
  BY <1>1, <1>3 DEF Waits, LateOf
<1>7. MayAsk(w)
  BY <1>1, <1>6, GoesOn DEF wire
<1> QED
  BY <1>1, <1>5, <1>6, <1>7, OwnStep

\* A worker that lets go of a channel last is as late as the channel's thread.
LEMMA ReleaseUp ==
  ASSUME TypeOK, TypeOK', Tagged, UpInv, link = "up", NEW w \in Workers, Release(w)
  PROVE  UpInv'
<1>1. w \in Callers /\ w \notin Channels /\ wpc[w] = "idle"
  BY ClientAssumption DEF Callers, Release
<1>2. /\ UNCHANGED <<link, inbox, managed, stored, sub, at, arg, tasks, batch, server>>
      /\ Pushes' = Pushes
  BY DEF Release, client, server, Pushes
<1>3. Freed(w) /\ w \notin late
  BY <1>1, <1>2, FreedQuiet DEF Waits, Freed
<1>4. PICK c \in kept[w] :
        \/ UNCHANGED <<wpc, requests, late>>
        \/ /\ at[c] = "gone" /\ wpc' = [wpc EXCEPT ![w] = "dropping"]
           /\ Send("cancel", c, w, sub[c])
  BY Zenon DEF Release
<1>5. c \in Channels
  BY DEF TypeOK
<1>6. CASE UNCHANGED <<wpc, requests, late>>
  <2>1. ~Waits(w)' /\ LateOf(w)'
    BY <1>1, <1>3, <1>6 DEF Waits, LateOf
  <2>2. MayAsk(w)
    BY <1>1, <1>3, <1>6, <2>1, GoesOn
  <2>3. Others(w)
    BY <1>2, <1>6, WorkerOthers DEF server
  <2> QED
    BY <1>1, <1>3, <2>1, <2>2, <2>3, OwnStep
<1>7. CASE /\ at[c] = "gone" /\ wpc' = [wpc EXCEPT ![w] = "dropping"]
           /\ Send("cancel", c, w, sub[c])
  <2>1. PICK t \in Tags \cup {None} : t = sub[c]
    BY <1>5 DEF TypeOK
  <2>2. Send("cancel", c, w, t)
    BY <1>7, <2>1
  <2>3. /\ wpc'[w] = "dropping" /\ late' = late \cup {w}
        /\ \A v \in Workers : v # w => wpc'[v] = wpc[v]
    BY <1>7, <2>2 DEF TypeOK, Send
  <2>4. Waits(w)' /\ LateOf(w)'
    BY <1>1, <2>3 DEF Waits, LateOf
  <2>5. AskedOf([op |-> "cancel", chan |-> c, who |-> w, tag |-> t])'
    BY <1>1, <1>2, <1>7, <2>3 DEF AskedOf, Leaving
  <2>6. "cancel" \in Ops
    BY DEF Ops
  <2>7. MayAsk(w)
    BY <1>1, <1>3, <1>5, <2>2, <2>4, <2>5, <2>6, Asks
  <2>8. Others(w)
    BY <1>2, <2>3, WorkerOthers DEF server
  <2> QED
    BY <1>1, <1>3, <2>4, <2>7, <2>8, OwnStep
<1> QED
  BY <1>4, <1>6, <1>7

LEMMA WorkUp ==
  ASSUME TypeOK, TypeOK', Tagged, UpInv, link = "up", NEW w \in Workers, Work(w),
         link' = "up"
  PROVE  UpInv'
<1>0. w \in Callers /\ w \notin Channels
  BY ClientAssumption DEF Callers
<1>1. CASE TakeBatch(w)
  <2>1. /\ wpc[w] = "idle" /\ batch' = [batch EXCEPT ![w] = tasks] /\ tasks' = <<>>
        /\ UNCHANGED <<link, requests, inbox, managed, stored, sub, at, arg, wpc, server, late>>
    BY <1>1 DEF TakeBatch, wire, client
  <2>2. batch'[w] = tasks /\ \A v \in Workers : v # w => batch'[v] = batch[v]
    BY <2>1 DEF TypeOK
  <2>3. ~Waits(w) /\ ~Waits(w)'
    BY <1>0, <2>1 DEF Waits
  <2>4. Freed(w)
    BY <1>0, <2>1, <2>3, FreedQuiet
  <2>5. Pushes' \subseteq Pushes
    <3>1. ASSUME NEW d, NEW v \in Workers, NEW i \in 1..Len(batch'[v]), batch'[v][i] = d
          PROVE  \/ \E u \in Workers : \E j \in 1..Len(batch[u]) : batch[u][j] = d
                 \/ \E j \in 1..Len(tasks) : tasks[j] = d
      BY <2>2, <3>1
    <3>2. Len(tasks') = 0
      BY <2>1, EmptySeq
    <3> QED
      BY <2>1, <3>1, <3>2 DEF Pushes, server
  <2>6. Others(w)
    BY <2>1, <2>2, <2>5, WorkerOthers DEF server
  <2>7. MayAsk(w) /\ LateOf(w)'
    BY <1>0, <2>1, <2>3, <2>4, GoesOn DEF LateOf, Freed
  <2> QED
    BY <1>0, <2>4, <2>6, <2>7, OwnStep
<1>2. CASE Test(w)
  <2>1. /\ wpc[w] = "idle" /\ batch[w] # <<>>
        /\ UNCHANGED <<link, wire, managed, stored, sub, at, arg, tasks, server, late>>
        /\ \/ wpc' = [wpc EXCEPT ![w] = "callback"] /\ UNCHANGED batch
           \/ EndTask(w)
    BY <1>2 DEF Test, client
  <2>2. Freed(w)
    BY <1>0, <2>1, FreedQuiet DEF Waits, wire
  <2>3. CASE wpc' = [wpc EXCEPT ![w] = "callback"] /\ UNCHANGED batch
    <3>1. wpc'[w] = "callback" /\ \A v \in Workers : v # w => wpc'[v] = wpc[v]
      BY <2>3 DEF TypeOK
    <3>2. Pushes' = Pushes
      BY <2>1, <2>3 DEF Pushes, wire, server
    <3>3. Others(w)
      BY <2>1, <2>3, <3>1, <3>2, WorkerOthers DEF wire, server
    <3>4. ~Waits(w)' /\ LateOf(w)'
      BY <1>0, <2>1, <2>2, <3>1 DEF Waits, LateOf, Freed
    <3>5. MayAsk(w)
      BY <1>0, <2>1, <2>2, <3>4, GoesOn DEF wire
    <3> QED
      BY <1>0, <2>2, <3>3, <3>4, <3>5, OwnStep
  <2> QED
    BY <2>1, <2>2, <2>3, EndTaskUp
<1>3. CASE LeaveCallback(w)
  <2>1. /\ wpc[w] = "callback" /\ EndTask(w) /\ batch[w] # <<>>
        /\ UNCHANGED <<link, wire, managed, stored, sub, at, arg, tasks, server, late>>
    BY <1>3 DEF LeaveCallback, client, TypeOK
  <2>2. Freed(w)
    BY <1>0, <2>1, FreedQuiet DEF Waits, wire
  <2> QED
    BY <2>1, <2>2, EndTaskUp
<1>4. CASE CallAck(w)
  <2>1. /\ wpc[w] = "callback" /\ wpc' = [wpc EXCEPT ![w] = "acking"] /\ batch[w] # <<>>
        /\ Send("ack", Task(w).chan, w, None)
        /\ UNCHANGED <<link, inbox, managed, stored, sub, at, arg, tasks, batch, server>>
    BY <1>4 DEF CallAck, client, TypeOK
  <2>2. Freed(w)
    BY <1>0, <2>1, FreedQuiet DEF Waits
  <2>3. PICK c \in Channels : c = Task(w).chan
    BY <2>1, HeadTailProperties, Kinds DEF TypeOK, Task
  <2>4. /\ wpc'[w] = "acking" /\ Task(w)' = Task(w)
        /\ \A v \in Workers : v # w => wpc'[v] = wpc[v]
    BY <2>1 DEF TypeOK, Task
  <2>5. late' = IF at[c] \in Leaving THEN late \cup {w} ELSE late
    BY <2>1, <2>3 DEF Send, Leaving
  <2>6. Waits(w)' /\ LateOf(w)'
    BY <1>0, <2>4 DEF Waits, LateOf
  <2>7. AskedOf([op |-> "ack", chan |-> c, who |-> w, tag |-> None])'
    BY <1>0, <2>1, <2>2, <2>3, <2>4, <2>5 DEF AskedOf, Freed
  <2>8. "ack" \in Ops /\ None \in Tags \cup {None} /\ Send("ack", c, w, None)
    BY <2>1, <2>3 DEF Ops
  <2>9. MayAsk(w)
    BY <1>0, <2>2, <2>6, <2>7, <2>8, Asks
  <2>10. Pushes' = Pushes
    BY <2>1 DEF Pushes, server
  <2>11. Others(w)
    BY <2>1, <2>4, <2>5, <2>10, WorkerOthers DEF server
  <2> QED
    BY <1>0, <2>2, <2>6, <2>9, <2>11, OwnStep
<1>5. CASE ReturnAck(w)
  <2>1. PICK r \in stored : r.who = w /\ stored' = stored \ {r}
    BY <1>5 DEF ReturnAck
  <2>2. /\ EndTask(w) /\ batch[w] # <<>>
        /\ UNCHANGED <<link, wire, managed, sub, at, arg, tasks, server, late>>
    BY <1>5 DEF ReturnAck, TypeOK
  <2>3. Freed(w)
    BY <1>0, <2>1, FreedReturn
  <2> QED
    BY <2>2, <2>3, EndTaskUp
<1>6. CASE Die(w)
  BY <1>6 DEF Die
<1>7. CASE Release(w)
  BY <1>7, ReleaseUp
<1> QED
  BY <1>1, <1>2, <1>3, <1>4, <1>5, <1>6, <1>7 DEF Work

-----------------------------------------------------------------------------
(* The server takes the requests in their order.                             *)

LEMMA TaskIsPush ==
  ASSUME TypeOK, NEW w \in Workers, wpc[w] \in {"callback", "acking"}
  PROVE  Task(w) \in Pushes
<1>1. batch[w] \in Seq(Delivered) /\ batch[w] # <<>>
  BY DEF TypeOK
<1>2. Task(w) \in Delivered /\ Task(w) = batch[w][1] /\ 1 \in 1..Len(batch[w])
  BY <1>1, HeadTailProperties, LenProperties, EmptySeq DEF Task
<1> QED
  BY <1>2 DEF Pushes

LEMMA HeadFacts ==
  ASSUME TypeOK, Tagged, UpInv, NEW x, Handle(x, Ops)
  PROVE  /\ x \in Request /\ x.chan \in Channels /\ x.who \in Callers
         /\ AskedOf(x) /\ Waits(x.who) /\ x = requests[1] /\ 1 \in 1..Len(requests)
         /\ x.op \in {"open", "close", "consume"} =>
              /\ x.who = x.chan
              /\ <<at[x.chan], x.op>> \in
                   {<<"opening", "open">>, <<"closing", "close">>, <<"consuming", "consume">>}
         /\ x.op # "open" => at[x.chan] \notin {"out", "opening"}
<1>1. x \in Request /\ x = requests[1] /\ 1 \in 1..Len(requests) /\ x.op \in Ops
  BY HandleEffect
<1>2. x.chan \in Channels /\ x.who \in Callers
  BY <1>1, Kinds
<1>3. AskedOf(x)
  BY <1>1 DEF UpInv, Asked
<1>4. CASE x.who \in Channels
  BY <1>1, <1>2, <1>3, <1>4 DEF AskedOf, Waits, Calls
<1>5. CASE x.who \in Workers
  <2>1. wpc[x.who] \in {"acking", "dropping"}
    BY <1>3, <1>5 DEF AskedOf
  <2>2. at[x.chan] \notin {"out", "opening"}
    <3>1. CASE wpc[x.who] = "acking"
      <4>1. Task(x.who) \in Pushes /\ Task(x.who).chan = x.chan
        BY <1>3, <1>5, <3>1, TaskIsPush DEF AskedOf
      <4> QED
        BY <1>2, <4>1 DEF UpInv, Known, KnownOf
    <3>2. CASE wpc[x.who] = "dropping"
      BY <1>2, <1>3, <1>5, <3>2 DEF UpInv, Late, LateOf, AskedOf, Leaving
    <3> QED
      BY <2>1, <3>1, <3>2
  <2>3. x.op \in {"ack", "cancel"} /\ Waits(x.who)
    BY <1>3, <1>5 DEF AskedOf, Waits
  <2> QED
    BY <1>1, <1>2, <1>3, <2>2, <2>3
<1> QED
  BY <1>2, <1>4, <1>5 DEF Callers

\* A request that is answered is not late: it was made before the close.
LEMMA AnsweredIsNotLate ==
  ASSUME TypeOK, Tagged, UpInv, NEW x, Handle(x, Ops),
         x.chan \in opened \/ x.op \in {"open", "close"}
  PROVE  x.who \notin late
<1>1. /\ x \in Request /\ x.chan \in Channels /\ x.who \in Callers /\ AskedOf(x)
      /\ x = requests[1] /\ 1 \in 1..Len(requests)
      /\ x.op \in {"open", "close"} => x.who = x.chan /\ at[x.chan] \in {"opening", "closing"}
  BY HeadFacts
<1>2. CASE x.op \in {"open", "close"}
  BY <1>1, <1>2 DEF UpInv, Late, LateOf
<1>3. CASE x.chan \in opened
  <2> SUFFICES ASSUME x.who \in late PROVE FALSE
    OBVIOUS
  <2> DEFINE c == x.chan
  <2>1. at[c] \in Leaving
    BY <1>1 DEF AskedOf
  <2>2. at[c] = "closing"
    BY <1>1, <1>3, <2>1 DEF UpInv, Known, KnownOf, Leaving
  <2>3. c \in Callers /\ c \notin late /\ Waits(c)
    BY <1>1, <2>2 DEF Callers, UpInv, Late, LateOf, Waits, Calls
  <2>4. CloseAsked(c) /\ CloseAnswered(c)
    BY <1>1 DEF UpInv, Closing
  <2>5. ASSUME NEW i \in 1..Len(requests), requests[i].who = c PROVE FALSE
    <3>1. i < 1
      BY <1>1, <2>1, <2>2, <2>4, <2>5 DEF CloseAsked
    <3> QED
      BY <3>1
  <2>6. ASSUME NEW r \in Answers, r.who = c PROVE FALSE
    BY <1>3, <2>1, <2>2, <2>4, <2>6 DEF CloseAnswered
  <2> QED
    BY <2>3, <2>5, <2>6, Waited
<1> QED
  BY <1>2, <1>3

\* One that is ignored is late.
LEMMA IgnoredIsLate ==
  ASSUME TypeOK, Tagged, UpInv, NEW x, Ignore(x)
  PROVE  x.who \in late
<1>1. Handle(x, Ops) /\ x.op \notin {"open", "close"} /\ x.chan \notin opened
  BY DEF Ignore, Handle
<1>2. /\ x \in Request /\ x.chan \in Channels /\ x.who \in Callers /\ AskedOf(x)
      /\ x = requests[1] /\ 1 \in 1..Len(requests)
      /\ at[x.chan] \notin {"out", "opening"}
  BY <1>1, HeadFacts
<1>3. KnownOf(x.chan) /\ CloseAsked(x.chan)
  BY <1>2 DEF UpInv, Known, Closing
<1>4. at[x.chan] \in Leaving
  BY <1>1, <1>2, <1>3 DEF KnownOf, TypeOK, Leaving, Calls
<1> QED
  BY <1>1, <1>2, <1>3, <1>4 DEF CloseAsked

\* A handler takes the request from the queue and answers it.
Serves(x, ok) ==
  /\ Handle(x, Ops)
  /\ x.chan \in opened \/ x.op \in {"open", "close"}
  /\ \/ Reply(x, ok) /\ UNCHANGED unsent
     \/ x.op = "consume" /\ unsent' = <<Answer(x, ok)>> /\ UNCHANGED inbox
  /\ opened' = CASE x.op = "open" -> opened \cup {x.chan}
                 [] x.op = "close" -> opened \ {x.chan}
                 [] OTHER -> opened
  /\ \A c \in Channels :
       c # x.chan \/ x.op \notin {"close", "consume", "cancel"} => TagsOf(c)' = TagsOf(c)
  /\ UNCHANGED <<link, managed, stored, sub, at, arg, tasks, batch, wpc, chosen, late>>

LEMMA ServesEffect ==
  ASSUME TypeOK, Tagged, UpInv, NEW x, NEW ok \in BOOLEAN, Serves(x, ok)
  PROVE  /\ x.who \notin late
         /\ Answer(x, ok) \in Response /\ Answer(x, ok).who = x.who
         /\ Answer(x, ok).chan = x.chan /\ Answer(x, ok).ok = ok
         /\ Answers' \subseteq Answers \cup {Answer(x, ok)}
         /\ Pushes' \subseteq Pushes
         /\ \A i \in 1..Len(requests') : requests'[i].who # x.who
         /\ \A r \in Answers : r.who # x.who
         /\ \A p : Copies(p)' = Copies(p)
<1> DEFINE a == Answer(x, ok)
<1>1. /\ x \in Request /\ x.chan \in Channels /\ x.who \in Callers /\ AskedOf(x) /\ Waits(x.who)
      /\ x = requests[1] /\ 1 \in 1..Len(requests) /\ Handle(x, Ops)
  BY HeadFacts DEF Serves
<1>2. x.who \notin late
  BY AnsweredIsNotLate DEF Serves
<1>3. a \in Response /\ a.who = x.who /\ a.chan = x.chan /\ a.ok = ok
  BY <1>1, Kinds
<1>4. \A p : By(p, a) <=> p = x.who
  BY <1>3, Kinds DEF By
<1>5. /\ unsent = <<>> /\ requests \in Seq(Request) /\ requests' \in Seq(Request)
      /\ inbox \in Seq(Response \cup Delivered)
      /\ \A i \in 1..Len(requests') :
            i + 1 \in 1..Len(requests) /\ requests'[i] = requests[i + 1]
      /\ \A p : InSeq(p, requests) = InSeq(p, requests') + IF p = x.who THEN 1 ELSE 0
  BY <1>1, HandleEffect DEF TypeOK
<1> HIDE DEF a
<1>6. \/ inbox' = Append(inbox, a) /\ unsent' = <<>>
      \/ inbox' = inbox /\ unsent' = <<a>>
  BY <1>5 DEF Serves, Reply, a
<1>7. ASSUME inbox' = Append(inbox, a) /\ unsent' = <<>>
      PROVE  /\ Answers' \subseteq Answers \cup {a} /\ Pushes' \subseteq Pushes
             /\ \A p : Copies(p)' = Copies(p)
  <2>1. a \in Response \cup Delivered
    BY <1>3
  <2>2. /\ \A i \in 1..Len(inbox) : inbox'[i] = inbox[i]
        /\ inbox'[Len(inbox) + 1] = a
        /\ \A i \in 1..Len(inbox') : i \in 1..Len(inbox) \/ i = Len(inbox) + 1
        /\ \A p : InSeq(p, inbox') = InSeq(p, inbox) + IF By(p, a) THEN 1 ELSE 0
    BY <1>7, <2>1, InboxEffect
  <2>3. \A r : AnswerAt(r)' => AnswerAt(r) \/ r = a
    BY <1>5, <1>7, <2>2 DEF AnswerAt, Serves
  <2>4. ASSUME NEW i \in 1..Len(inbox'), inbox'[i] \in Delivered
        PROVE  i \in 1..Len(inbox) /\ inbox'[i] = inbox[i]
    BY <1>3, <2>2, <2>4, Kinds
  <2>5. Pushes' \subseteq Pushes
    BY <2>4 DEF Pushes, Serves
  <2>6. ASSUME NEW p PROVE Copies(p)' = Copies(p)
    <3> DEFINE k == Cardinality({r \in stored : r.who = p})
    <3>1. Copies(p)' = InSeq(p, requests') + InSeq(p, unsent') + InSeq(p, inbox') + k
      BY DEF Copies, InSeq, Serves
    <3>2. Copies(p) = InSeq(p, requests) + InSeq(p, unsent) + InSeq(p, inbox) + k
      BY DEF Copies
    <3>3. InSeq(p, unsent') = 0 /\ InSeq(p, unsent) = 0
      BY <1>5, <1>7, InSeqEmpty
    <3>4. k \in Nat
      BY CopiesAre DEF UpInv, Unsent
    <3>5. InSeq(p, requests') \in Nat /\ InSeq(p, inbox) \in Nat
      BY <1>5, InSeqType
    <3> HIDE DEF k
    <3> QED
      BY <1>4, <1>5, <2>2, <3>1, <3>2, <3>3, <3>4, <3>5
  <2> QED
    BY <2>3, <2>5, <2>6 DEF Answers
<1>8. ASSUME inbox' = inbox /\ unsent' = <<a>>
      PROVE  /\ Answers' \subseteq Answers \cup {a} /\ Pushes' \subseteq Pushes
             /\ \A p : Copies(p)' = Copies(p)
  <2>1. Len(unsent') = 1 /\ unsent'[1] = a
    BY <1>8
  <2>3. \A r : AnswerAt(r)' => AnswerAt(r) \/ r = a
    BY <1>5, <1>8, <2>1 DEF AnswerAt, Serves
  <2>5. Pushes' \subseteq Pushes
    BY <1>8 DEF Pushes, Serves
  <2>6. ASSUME NEW p PROVE Copies(p)' = Copies(p)
    <3> DEFINE k == Cardinality({r \in stored : r.who = p})
    <3>1. Copies(p)' = InSeq(p, requests') + InSeq(p, unsent') + InSeq(p, inbox') + k
      BY DEF Copies, InSeq, Serves
    <3>2. Copies(p) = InSeq(p, requests) + InSeq(p, unsent) + InSeq(p, inbox) + k
      BY DEF Copies
    <3>3. InSeq(p, unsent) = 0
      BY <1>5, InSeqEmpty
    <3>4. k \in Nat
      BY CopiesAre DEF UpInv, Unsent
    <3>5. InSeq(p, requests') \in Nat /\ InSeq(p, inbox) \in Nat
      BY <1>5, InSeqType
    <3>6. InSeq(p, unsent') = IF By(p, a) THEN 1 ELSE 0
      <4>1. <<>> \in Seq(Response) /\ unsent' = Append(<<>>, a)
        BY <1>8, EmptySeq
      <4>2. InSeq(p, Append(<<>>, a)) = InSeq(p, <<>>) + IF By(p, a) THEN 1 ELSE 0
        BY <1>3, <4>1, InSeqAppend
      <4> QED
        BY <4>1, <4>2, InSeqEmpty
    <3> HIDE DEF k
    <3> QED
      BY <1>4, <1>5, <1>8, <3>1, <3>2, <3>3, <3>4, <3>5, <3>6
  <2> QED
    BY <2>3, <2>5, <2>6 DEF Answers
<1>9. \A r \in Answers : r.who # x.who
  BY <1>1, Exclusive
<1>10. \A i \in 1..Len(requests') : requests'[i].who # x.who
  <2>1. IsFiniteSet(stored) /\ (Copies(x.who) = 0 \/ Copies(x.who) = 1)
    BY <1>1, <1>2, Exclusive DEF UpInv, Unsent
  <2>2. /\ InSeq(x.who, requests) \in Nat /\ InSeq(x.who, unsent) \in Nat
        /\ InSeq(x.who, inbox) \in Nat
        /\ Cardinality({r \in stored : r.who = x.who}) \in Nat
        /\ Copies(x.who) = InSeq(x.who, requests) + InSeq(x.who, unsent) + InSeq(x.who, inbox)
                             + Cardinality({r \in stored : r.who = x.who})
    BY <2>1, CopiesAre
  <2>3. InSeq(x.who, requests') \in Nat /\ InSeq(x.who, requests) = InSeq(x.who, requests') + 1
    BY <1>5, InSeqType
  <2>4. InSeq(x.who, requests') = 0
    <3> DEFINE k1 == InSeq(x.who, requests)
               k2 == InSeq(x.who, unsent)
               k3 == InSeq(x.who, inbox)
               k4 == Cardinality({r \in stored : r.who = x.who})
               k5 == InSeq(x.who, requests')
               n == Copies(x.who)
    <3>1. /\ k1 \in Nat /\ k2 \in Nat /\ k3 \in Nat /\ k4 \in Nat /\ k5 \in Nat
          /\ n = k1 + k2 + k3 + k4 /\ k1 = k5 + 1 /\ (n = 0 \/ n = 1)
      BY <2>1, <2>2, <2>3
    <3> HIDE DEF k1, k2, k3, k4, k5, n
    <3>2. k5 = 0
      BY <3>1
    <3> QED
      BY <3>2 DEF k5
  <2>5. \A i \in 1..Len(requests') : requests'[i] \in Request /\ ~By(x.who, requests'[i])
    BY <1>5, <2>4, InSeqType, ElementOfSeq
  <2> QED
    BY <2>5, Kinds DEF By
<1> QED
  BY <1>2, <1>3, <1>6, <1>7, <1>8, <1>9, <1>10 DEF a

LEMMA ServesAsked ==
  ASSUME TypeOK, Tagged, UpInv, NEW x, NEW ok \in BOOLEAN, Serves(x, ok)
  PROVE  Asked' /\ Answered' /\ Late' /\ OnItsWay'
<1> DEFINE a == Answer(x, ok)
<1>1. /\ x.who \notin late
      /\ a \in Response /\ a.who = x.who /\ a.chan = x.chan
      /\ Answers' \subseteq Answers \cup {a}
      /\ \A p : Copies(p)' = Copies(p)
  BY ServesEffect
<1>2. /\ x.who \in Callers /\ AskedOf(x) /\ Waits(x.who) /\ Handle(x, Ops)
  BY HeadFacts DEF Serves
<1>3. /\ \A i \in 1..Len(requests') :
            i + 1 \in 1..Len(requests) /\ requests'[i] = requests[i + 1]
      /\ requests' \in Seq(Request)
      /\ \A p : InSeq(p, requests) = InSeq(p, requests') + IF p = x.who THEN 1 ELSE 0
  BY <1>2, HandleEffect
<1>4. UNCHANGED <<at, arg, sub, wpc, batch, late>>
  BY DEF Serves
<1> HIDE DEF a
<1>5. Asked'
  <2> SUFFICES ASSUME NEW i \in 1..Len(requests') PROVE AskedOf(requests[i])'
    BY DEF Asked
  <2>1. AskedOf(requests[i + 1]) /\ requests'[i] = requests[i + 1]
    BY <1>3 DEF UpInv, Asked
  <2> QED
    BY <1>4, <2>1 DEF AskedOf, Task
<1>6. Answered'
  <2> SUFFICES ASSUME NEW r \in Answers' PROVE AnsweredOf(r)'
    BY DEF Answered
  <2>1. CASE r \in Answers
    <3>1. AnsweredOf(r)
      BY <2>1 DEF UpInv, Answered
    <3> QED
      BY <1>4, <3>1 DEF AnsweredOf, Task
  <2>2. CASE r = a
    <3>1. x.who \in Channels => x.chan = x.who /\ at[x.who] \in Calls
      BY <1>1, <1>2, ClientAssumption DEF AskedOf, UpInv, Late, LateOf, Calls
    <3>2. x.who \in Workers => x.chan = Task(x.who).chan /\ wpc[x.who] = "acking"
      BY <1>1, <1>2 DEF AskedOf, UpInv, Late, LateOf
    <3> QED
      BY <1>1, <1>4, <2>2, <3>1, <3>2 DEF AnsweredOf, Task
  <2> QED
    BY <1>1, <2>1, <2>2
<1>7. Late'
  BY <1>4 DEF UpInv, Late, LateOf
<1>8. OnItsWay'
  <2> SUFFICES ASSUME NEW p \in Callers
               PROVE  IF p \in late' THEN Copies(p)' = InSeq(p, requests)'
                      ELSE Copies(p)' = IF Waits(p)' THEN 1 ELSE 0
    BY DEF OnItsWay
  <2>1. Waits(p)' <=> Waits(p)
    BY <1>4 DEF Waits
  <2>2. InSeq(p, requests)' = InSeq(p, requests')
    BY DEF InSeq
  <2>3. p \in late => InSeq(p, requests') = InSeq(p, requests)
    <3>1. InSeq(p, requests') \in Nat
      BY <1>3, InSeqType
    <3> QED
      BY <1>1, <1>3, <3>1
  <2>4. IF p \in late THEN Copies(p) = InSeq(p, requests)
        ELSE Copies(p) = IF Waits(p) THEN 1 ELSE 0
    BY DEF UpInv, OnItsWay
  <2> QED
    BY <1>1, <1>4, <2>1, <2>2, <2>3, <2>4
<1> QED
  BY <1>5, <1>6, <1>7, <1>8

LEMMA ServesKnown ==
  ASSUME TypeOK, Tagged, UpInv, NEW x, NEW ok \in BOOLEAN, Serves(x, ok)
  PROVE  Known' /\ Unsent'
<1> DEFINE a == Answer(x, ok)
<1>1. /\ a \in Response /\ a.who = x.who /\ a.chan = x.chan
      /\ Answers' \subseteq Answers \cup {a}
      /\ Pushes' \subseteq Pushes
  BY ServesEffect
<1>2. /\ x.op \in {"open", "close", "consume"} =>
           /\ x.who = x.chan
           /\ <<at[x.chan], x.op>> \in
                {<<"opening", "open">>, <<"closing", "close">>, <<"consuming", "consume">>}
      /\ x.op # "open" => at[x.chan] \notin {"out", "opening"}
      /\ unsent = <<>>
  BY HeadFacts, HandleEffect DEF Serves
<1>3. UNCHANGED <<at, sub, managed, stored>>
  BY DEF Serves
<1> HIDE DEF a
<1>4. ASSUME NEW c \in Channels PROVE KnownOf(c)'
  <2>1. KnownOf(c)
    BY DEF UpInv, Known
  <2>2. at[c] \in {"out", "opening"} => TagsOf(c)' = TagsOf(c)
    BY <1>2 DEF Serves
  <2>3. c # x.chan => (c \in opened' <=> c \in opened)
    BY DEF Serves
  <2>4. c = x.chan => c \in opened' \/ at[c] = "closing"
    BY <1>2 DEF Serves
  <2>5. c = x.chan /\ at[c] # "opening" => (c \in opened' => c \in opened)
    BY <1>2 DEF Serves
  <2>6. c = x.chan => at[c] # "out"
    BY <1>2
  <2>7. at[c] \in {"out", "opening"} /\ c \notin opened' => \A r \in Answers' : r.chan # c
    BY <1>1, <2>1, <2>3, <2>4 DEF KnownOf
  <2> QED
    BY <1>1, <1>3, <2>1, <2>2, <2>3, <2>4, <2>5, <2>6, <2>7 DEF KnownOf, Calls
<1>5. Unsent'
  <2>1. IsFiniteSet(stored')
    BY <1>3 DEF UpInv, Unsent
  <2>2. CASE unsent' = unsent
    <3>1. Len(unsent') = 0
      BY <1>2, <2>2, EmptySeq
    <3> QED
      BY <2>1, <3>1 DEF Unsent
  <2>3. CASE x.op = "consume" /\ unsent' = <<a>>
    <3>1. Len(unsent') = 1 /\ unsent'[1] = a
      BY <2>3
    <3>2. a.chan \in opened' /\ at'[a.who] = "consuming"
      BY <1>1, <1>2, <1>3, <2>3 DEF Serves
    <3> QED
      BY <2>1, <3>1, <3>2 DEF Unsent
  <2> QED
    BY <2>2, <2>3 DEF Serves, a
<1> QED
  BY <1>4, <1>5 DEF Known

\* The requests behind the close of their channel are late; the answer to the
\* close is the last.
LEMMA ServesClosing ==
  ASSUME TypeOK, Tagged, UpInv, NEW x, NEW ok \in BOOLEAN, Serves(x, ok)
  PROVE  Closing'
<1> DEFINE a == Answer(x, ok)
<1>1. /\ a \in Response /\ a.who = x.who /\ a.chan = x.chan
      /\ Answers' \subseteq Answers \cup {a}
      /\ \A i \in 1..Len(requests') : requests'[i].who # x.who
      /\ \A r \in Answers : r.who # x.who
  BY ServesEffect
<1>2. /\ x.op \in {"open", "close", "consume"} =>
           /\ x.who = x.chan
           /\ <<at[x.chan], x.op>> \in
                {<<"opening", "open">>, <<"closing", "close">>, <<"consuming", "consume">>}
      /\ x = requests[1] /\ 1 \in 1..Len(requests) /\ Handle(x, Ops) /\ AskedOf(x)
      /\ x.who \in Callers /\ x.chan \in Channels
  BY HeadFacts DEF Serves
<1>3. /\ \A i \in 1..Len(requests') :
            i + 1 \in 1..Len(requests) /\ requests'[i] = requests[i + 1]
      /\ Len(requests') \in Nat /\ unsent = <<>>
  BY <1>2, HandleEffect
<1>4. UNCHANGED <<at, stored, late>>
  BY DEF Serves
<1>5. \/ inbox' = Append(inbox, a)
      \/ inbox' = inbox
  BY DEF Serves, Reply
<1> HIDE DEF a
<1> SUFFICES ASSUME NEW c \in Channels, at[c] \in Leaving
             PROVE  CloseAsked(c)' /\ CloseAnswered(c)'
  BY <1>4 DEF Closing, CloseAsked, CloseAnswered
<1>6. CloseAsked(c) /\ CloseAnswered(c) /\ KnownOf(c)
  BY DEF UpInv, Closing, Known
\* What opens and closes.
<1>7. /\ c # x.chan => (c \in opened' <=> c \in opened)
      /\ c = x.chan /\ x.op = "close" => c \notin opened' /\ x.who = c /\ at[c] = "closing"
      /\ c = x.chan /\ x.op # "close" => c \in opened /\ c \in opened'
  <2>1. c = x.chan => x.op # "open"
    BY <1>2 DEF Leaving
  <2> QED
    BY <1>2, <2>1 DEF Serves
<1>8. CloseAsked(c)'
  <2>1. ASSUME NEW i \in 1..Len(requests'), NEW j \in 1..Len(requests'),
               requests'[i].who = c, at'[c] = "closing", requests'[j].chan = c
        PROVE  requests'[j].who \in late' <=> i < j
    <3>1. requests[j + 1].who \in late <=> i + 1 < j + 1
      BY <1>3, <1>4, <1>6, <2>1 DEF CloseAsked
    <3> QED
      BY <1>3, <1>4, <3>1
  <2>2. ASSUME NEW i \in 1..Len(requests'), requests'[i].who = c, at'[c] = "closing"
        PROVE  c \in opened'
    <3>1. c \in opened
      BY <1>3, <1>4, <1>6, <2>2 DEF CloseAsked
    <3>2. x.who # c
      BY <1>1, <2>2
    <3> QED
      BY <1>7, <3>1, <3>2
  <2>3. ASSUME c \notin opened', NEW i \in 1..Len(requests'), requests'[i].chan = c
        PROVE  requests'[i].who \in late'
    <3>1. CASE c \notin opened
      BY <1>3, <1>4, <1>6, <2>3, <3>1 DEF CloseAsked
    <3>2. CASE c \in opened
      <4>1. x.who = c /\ at[c] = "closing"
        BY <1>7, <2>3, <3>2
      <4>2. requests[i + 1].who \in late <=> 1 < i + 1
        BY <1>2, <1>3, <1>6, <2>3, <4>1 DEF CloseAsked
      <4> QED
        BY <1>3, <1>4, <4>2
    <3> QED
      BY <3>1, <3>2
  <2> QED
    BY <2>1, <2>2, <2>3 DEF CloseAsked
\* While an answer to the close is there, nothing is answered on c.
<1>9. ASSUME \/ \E r \in Answers : r.who = c
             \/ at[c] # "closing"
      PROVE  x.chan # c
  <2>1. CASE at[c] # "closing"
    <3>1. c \notin opened
      BY <1>6, <2>1 DEF KnownOf, Leaving
    <3> QED
      BY <1>7, <2>1, <3>1
  <2>2. CASE at[c] = "closing"
    <3>1. PICK r \in Answers : r.who = c
      BY <1>9, <2>2
    <3>2. c \notin opened /\ x.who # c
      BY <1>1, <1>6, <2>2, <3>1 DEF CloseAnswered
    <3> QED
      BY <1>7, <3>2
  <2> QED
    BY <2>1, <2>2
<1>10. ASSUME at'[c] = "closing", NEW r \in Answers', r.who = c PROVE c \notin opened'
  <2>1. CASE r \in Answers
    <3>1. c \notin opened
      BY <1>4, <1>6, <1>10, <2>1 DEF CloseAnswered
    <3> QED
      BY <1>7, <1>9, <1>10, <2>1, <3>1
  <2>2. CASE r = a
    <3>1. x.who = c /\ x.chan = c /\ x.op = "close"
      BY <1>1, <1>2, <1>4, <1>10, <2>2 DEF AskedOf
    <3> QED
      BY <1>7, <3>1
  <2> QED
    BY <1>1, <1>10, <2>1, <2>2
<1>11. /\ \A i \in 1..Len(inbox) : IsResponse(inbox[i]) => inbox[i] \in Answers
       /\ \A r \in stored : r \in Answers
  BY InboxAnswers
<1>12. /\ \A i \in 1..Len(inbox) : inbox'[i] = inbox[i]
       /\ \A i \in 1..Len(inbox') :
            i \in 1..Len(inbox) \/ (i = Len(inbox) + 1 /\ inbox'[i] = a)
       /\ Len(inbox) \in Nat
  <2>1. CASE inbox' = Append(inbox, a)
    <3>1. a \in Response \cup Delivered
      BY <1>1
    <3> QED
      BY <2>1, <3>1, InboxEffect
  <2>2. CASE inbox' = inbox
    BY <2>2, LenProperties DEF TypeOK
  <2> QED
    BY <1>5, <2>1, <2>2
<1>13. ASSUME NEW i \in 1..Len(inbox'), NEW j \in 1..Len(inbox'), i < j,
              IsResponse(inbox'[i]), IsResponse(inbox'[j]), inbox'[i].who = c
       PROVE  inbox'[j].chan # c
  <2>1. i \in 1..Len(inbox) /\ inbox'[i] = inbox[i]
    BY <1>12, <1>13
  <2>2. CASE j \in 1..Len(inbox)
    BY <1>6, <1>12, <1>13, <2>1, <2>2 DEF CloseAnswered
  <2>3. CASE inbox'[j] = a
    BY <1>1, <1>9, <1>11, <1>13, <2>1, <2>3
  <2> QED
    BY <1>12, <2>2, <2>3
<1>14. ASSUME at'[c] # "closing" \/ (\E r \in stored' : r.who = c),
              NEW i \in 1..Len(inbox'), IsResponse(inbox'[i])
       PROVE  inbox'[i].chan # c
  <2>1. CASE i \in 1..Len(inbox)
    BY <1>4, <1>6, <1>12, <1>14, <2>1 DEF CloseAnswered
  <2>2. CASE inbox'[i] = a
    BY <1>1, <1>4, <1>9, <1>11, <1>14, <2>2
  <2> QED
    BY <1>12, <2>1, <2>2
<1>15. CloseAnswered(c)'
  BY <1>10, <1>13, <1>14 DEF CloseAnswered
<1> QED
  BY <1>8, <1>15

\* The subscription of every channel but the one that subscribes or cancels.
LEMMA ServesSubscribed ==
  ASSUME TypeOK, Tagged, UpInv, NEW x, NEW ok \in BOOLEAN, Serves(x, ok),
         NEW c \in Channels, TagsOf(c)' = TagsOf(c),
         x.who # c \/ at[c] \notin {"consuming", "cancelling"}
  PROVE  SubscribedOf(c)'
<1>1. /\ Answer(x, ok).who = x.who
      /\ Answers' \subseteq Answers \cup {Answer(x, ok)}
  BY ServesEffect
<1>2. \A i \in 1..Len(requests') :
        i + 1 \in 1..Len(requests) /\ requests'[i] = requests[i + 1]
  BY HandleEffect DEF Serves
<1>3. UNCHANGED <<at, arg, sub>>
  BY DEF Serves
<1>4. SubscribedOf(c)
  BY DEF UpInv, Subscribed
<1>5. (\E i \in 1..Len(requests') : requests'[i].who = c) =>
        \E i \in 1..Len(requests) : requests[i].who = c
  BY <1>2
<1>6. at[c] \in {"consuming", "cancelling"} =>
        \A r \in Answers' : r.who = c => r \in Answers
  BY <1>1
<1> QED
  BY <1>3, <1>4, <1>5, <1>6 DEF SubscribedOf

LEMMA ServesUp ==
  ASSUME TypeOK, Tagged, UpInv, NEW x, NEW ok \in BOOLEAN, Serves(x, ok),
         SubscribedOf(x.chan)'
  PROVE  UpInv'
<1>1. ASSUME NEW c \in Channels, c # x.chan PROVE SubscribedOf(c)'
  <2>1. TagsOf(c)' = TagsOf(c)
    BY <1>1 DEF Serves
  <2>2. x.who # c
    BY <1>1, HeadFacts DEF Serves, AskedOf
  <2> QED
    BY <2>1, <2>2, ServesSubscribed
<1>2. Subscribed'
  BY <1>1 DEF Subscribed
<1> QED
  BY <1>2, ServesAsked, ServesKnown, ServesClosing DEF UpInv

LEMMA ServeOpenUp ==
  ASSUME TypeOK, Tagged, UpInv, NEW x, ServeOpen(x)
  PROVE  UpInv'
<1>1. PICK ok \in BOOLEAN : Reply(x, ok)
  BY DEF ServeOpen
<1>2. Handle(x, Ops) /\ x.op = "open"
  BY DEF ServeOpen, Handle, Ops
<1>3. \A c \in Channels : TagsOf(c)' = TagsOf(c)
  BY DEF TagsOf, ServeOpen
<1>4. Serves(x, ok)
  BY <1>1, <1>2, <1>3 DEF Serves, ServeOpen, client, pool
<1>5. SubscribedOf(x.chan)'
  BY <1>2, <1>4, HeadFacts DEF SubscribedOf, Serves
<1> QED
  BY <1>4, <1>5, ServesUp

LEMMA ServeCloseUp ==
  ASSUME TypeOK, Tagged, UpInv, NEW x, ServeClose(x)
  PROVE  UpInv'
<1>2. Handle(x, Ops) /\ x.op = "close" /\ Reply(x, TRUE)
  BY DEF ServeClose, Handle, Ops
<1>3. \A c \in Channels : c # x.chan => TagsOf(c)' = TagsOf(c)
  BY DEF TagsOf, ServeClose
<1>4. Serves(x, TRUE)
  BY <1>2, <1>3 DEF Serves, ServeClose, client, pool
<1>5. SubscribedOf(x.chan)'
  BY <1>2, <1>4, HeadFacts DEF SubscribedOf, Serves
<1> QED
  BY <1>4, <1>5, ServesUp

LEMMA ServeCallUp ==
  ASSUME TypeOK, Tagged, UpInv, NEW x, ServeCall(x)
  PROVE  UpInv'
<1>2. Handle(x, Ops) /\ x.op \in {"call", "ack"} /\ Reply(x, TRUE)
  BY DEF ServeCall, Handle, Ops
<1>3. \A c \in Channels : TagsOf(c)' = TagsOf(c)
  BY DEF TagsOf, ServeCall, server
<1>4. Serves(x, TRUE)
  BY <1>2, <1>3 DEF Serves, ServeCall, client, pool, server
<1>5. x.chan \in Channels /\ AskedOf(x)
  BY <1>2, HeadFacts
<1>6. x.who # x.chan \/ at[x.chan] \notin {"consuming", "cancelling"}
  BY <1>2, <1>5 DEF AskedOf
<1>7. SubscribedOf(x.chan)'
  BY <1>3, <1>4, <1>5, <1>6, ServesSubscribed
<1> QED
  BY <1>4, <1>7, ServesUp

\* What the deletion of a queue takes is still what the client subscribed to.
LEMMA DestroyedTags ==
  ASSUME DestroyConsumers
  PROVE  \A c : TagsOf(c)' = TagsOf(c)
<1>1. (consumers \cup deleted)' = consumers \cup deleted
  BY DEF DestroyConsumers
<1> QED
  BY <1>1 DEF TagsOf

LEMMA ServeDeleteQueueUp ==
  ASSUME TypeOK, Tagged, UpInv, NEW x, ServeDeleteQueue(x)
  PROVE  UpInv'
<1>1. Handle(x, Ops) /\ x.op = "call" /\ Reply(x, TRUE)
  BY DEF ServeDeleteQueue, Handle, Ops
<1>2. \A c \in Channels : TagsOf(c)' = TagsOf(c)
  BY DestroyedTags DEF ServeDeleteQueue
<1>3. Serves(x, TRUE)
  BY <1>1, <1>2 DEF Serves, ServeDeleteQueue, client, pool
<1>4. x.chan \in Channels /\ AskedOf(x)
  BY <1>1, HeadFacts
<1>5. x.who # x.chan \/ at[x.chan] \notin {"consuming", "cancelling"}
  BY <1>1, <1>4 DEF AskedOf
<1>6. SubscribedOf(x.chan)'
  BY <1>2, <1>3, <1>4, <1>5, ServesSubscribed
<1> QED
  BY <1>3, <1>6, ServesUp

\* The only answer to who subscribes says whether its consumer is there.
LEMMA ServeConsumeUp ==
  ASSUME TypeOK, Tagged, UpInv, NEW x, ServeConsume(x)
  PROVE  UpInv'
<1>1. /\ Handle(x, Ops) /\ x.op = "consume" /\ x.chan \in opened
      /\ UNCHANGED <<link, inbox, client, pool, opened, chosen, waiting, deleted, late>>
      /\ \/ /\ consumers' = consumers \cup {[chan |-> x.chan, tag |-> x.tag]}
            /\ unsent' = <<Answer(x, TRUE)>>
         \/ /\ unsent' = <<Answer(x, FALSE)>>
            /\ UNCHANGED consumers
  BY DEF ServeConsume, Handle, Ops
<1>2. PICK ok \in BOOLEAN :
        /\ unsent' = <<Answer(x, ok)>>
        /\ consumers' = IF ok THEN consumers \cup {[chan |-> x.chan, tag |-> x.tag]}
                        ELSE consumers
        /\ deleted' = deleted
  BY <1>1
<1>3. \A c \in Channels : c # x.chan => TagsOf(c)' = TagsOf(c)
  BY <1>2 DEF TagsOf
<1>4. Serves(x, ok)
  BY <1>1, <1>2, <1>3 DEF Serves, client, pool
<1>5. /\ x.who = x.chan /\ at[x.chan] = "consuming" /\ x.chan \in Channels /\ AskedOf(x)
      /\ x = requests[1] /\ 1 \in 1..Len(requests)
  BY <1>1, HeadFacts
<1>6. /\ Answer(x, ok).who = x.who /\ Answer(x, ok).ok = ok
      /\ Answers' \subseteq Answers \cup {Answer(x, ok)}
      /\ \A i \in 1..Len(requests') : requests'[i].who # x.who
      /\ \A r \in Answers : r.who # x.who
  BY <1>4, ServesEffect
<1>7. SubscribedOf(x.chan)'
  <2> DEFINE c == x.chan
  <2>1. SubscribedOf(c)
    BY <1>5 DEF UpInv, Subscribed
  <2>2. sub[c] = None /\ arg[c] \in Tags /\ TagsOf(c) = {} /\ x.tag = arg[c]
    BY <1>1, <1>5, <2>1 DEF SubscribedOf, AskedOf
  <2>3. TagsOf(c)' = IF ok THEN {arg[c]} ELSE {}
    <3>1. \A k \in consumers \cup deleted : k.chan # c
      BY <2>2 DEF TagsOf
    <3>2. CASE ok
      <4> DEFINE new == [chan |-> c, tag |-> arg[c]]
      <4>1. consumers' = consumers \cup {new} /\ new.chan = c /\ new.tag = arg[c]
        BY <1>2, <2>2, <3>2
      <4> HIDE DEF new
      <4>2. {k \in consumers' \cup deleted' : k.chan = c} = {new}
        BY <1>2, <3>1, <4>1
      <4>3. TagsOf(c)' = {new.tag}
        BY <4>2 DEF TagsOf
      <4> QED
        BY <3>2, <4>1, <4>3
    <3>3. CASE ~ok
      BY <1>2, <3>1, <3>3 DEF TagsOf
    <3> QED
      BY <3>2, <3>3
  <2>4. UNCHANGED <<at, sub, arg>>
    BY <1>4 DEF Serves
  <2> QED
    BY <1>5, <1>6, <2>2, <2>3, <2>4 DEF SubscribedOf
<1> QED
  BY <1>4, <1>7, ServesUp

\* A cancel that is answered is the application's.
LEMMA ServeCancelUp ==
  ASSUME TypeOK, Tagged, UpInv, NEW x, ServeCancel(x)
  PROVE  UpInv'
<1>1. /\ Handle(x, Ops) /\ x.op = "cancel" /\ x.chan \in opened /\ Reply(x, TRUE)
      /\ consumers' = consumers \ {[chan |-> x.chan, tag |-> x.tag]}
      /\ deleted' = deleted \ {[chan |-> x.chan, tag |-> x.tag]}
      /\ UNCHANGED <<link, client, pool, opened, unsent, chosen, waiting, late>>
  BY DEF ServeCancel, Handle, Ops
<1>3. \A c \in Channels : c # x.chan => TagsOf(c)' = TagsOf(c)
  BY <1>1 DEF TagsOf
<1>4. Serves(x, TRUE)
  BY <1>1, <1>3 DEF Serves, client, pool
<1>5. /\ x.chan \in Channels /\ x.who \in Callers /\ AskedOf(x)
      /\ x = requests[1] /\ 1 \in 1..Len(requests)
  BY <1>1, HeadFacts
<1>6. /\ Answer(x, TRUE).who = x.who /\ x.who \notin late
      /\ Answers' \subseteq Answers \cup {Answer(x, TRUE)}
      /\ \A i \in 1..Len(requests') : requests'[i].who # x.who
      /\ \A r \in Answers : r.who # x.who
  BY <1>4, ServesEffect
<1>7. x.who = x.chan /\ at[x.chan] = "cancelling"
  BY <1>1, <1>5, <1>6 DEF AskedOf, UpInv, Late, LateOf, Callers
<1>8. SubscribedOf(x.chan)'
  <2> DEFINE c == x.chan
  <2>1. SubscribedOf(c)
    BY <1>5 DEF UpInv, Subscribed
  <2>2. sub[c] # None /\ TagsOf(c) = {sub[c]} /\ x.tag = sub[c]
    BY <1>5, <1>7, <2>1 DEF SubscribedOf, AskedOf
  <2>3. TagsOf(c)' = {}
    <3>1. ASSUME NEW k \in consumers' \cup deleted', k.chan = c PROVE FALSE
      <4>1. k \in consumers \cup deleted /\ k # [chan |-> c, tag |-> x.tag]
        BY <1>1, <3>1
      <4>2. k.tag \in TagsOf(c)
        BY <3>1, <4>1 DEF TagsOf
      <4>3. k = [chan |-> k.chan, tag |-> k.tag]
        BY <4>1 DEF TypeOK
      <4> QED
        BY <2>2, <3>1, <4>1, <4>2, <4>3
    <3> QED
      BY <3>1 DEF TagsOf
  <2>4. UNCHANGED <<at, sub, arg>>
    BY <1>4 DEF Serves
  <2> QED
    BY <1>6, <1>7, <2>2, <2>3, <2>4 DEF SubscribedOf
<1> QED
  BY <1>4, <1>8, ServesUp

\* Nobody waits for what is ignored but who is late.
LEMMA IgnoreUp ==
  ASSUME TypeOK, TypeOK', Tagged, UpInv, NEW x, Ignore(x)
  PROVE  UpInv'
<1>1. /\ Handle(x, Ops) /\ x.who \in late
      /\ UNCHANGED <<link, inbox, client, pool, server, late>>
  BY IgnoredIsLate DEF Ignore, Handle
<1>2. /\ \A i \in 1..Len(requests') :
            i + 1 \in 1..Len(requests) /\ requests'[i] = requests[i + 1]
      /\ requests' \in Seq(Request) /\ Len(requests') \in Nat
      /\ \A p : InSeq(p, requests) = InSeq(p, requests') + IF p = x.who THEN 1 ELSE 0
  BY <1>1, HandleEffect
<1>3. UNCHANGED <<link, inbox, managed, stored, sub, at, arg, tasks, batch, wpc, opened,
                  consumers, deleted, unsent, chosen, late>>
  BY <1>1 DEF client, pool, server
<1>4. Answers' = Answers /\ Pushes' = Pushes /\ \A c : TagsOf(c)' = TagsOf(c)
  BY <1>3 DEF Answers, AnswerAt, Pushes, TagsOf
<1>5. Asked'
  <2> SUFFICES ASSUME NEW i \in 1..Len(requests') PROVE AskedOf(requests[i])'
    BY DEF Asked
  <2>1. AskedOf(requests[i + 1]) /\ requests'[i] = requests[i + 1]
    BY <1>2 DEF UpInv, Asked
  <2> QED
    BY <1>3, <2>1 DEF AskedOf, Task
<1>6. Answered' /\ Late' /\ Known' /\ Unsent'
  <2>1. Answered'
    BY <1>3, <1>4 DEF UpInv, Answered, AnsweredOf, Task
  <2>2. Late'
    BY <1>3 DEF UpInv, Late, LateOf
  <2>3. Known'
    BY <1>3, <1>4 DEF UpInv, Known, KnownOf
  <2>4. Unsent'
    BY <1>3 DEF UpInv, Unsent
  <2> QED
    BY <2>1, <2>2, <2>3, <2>4
<1>7. OnItsWay'
  <2> SUFFICES ASSUME NEW p \in Callers
               PROVE  IF p \in late' THEN Copies(p)' = InSeq(p, requests')
                      ELSE Copies(p)' = IF Waits(p)' THEN 1 ELSE 0
    BY DEF OnItsWay, InSeq
  <2> DEFINE k2 == InSeq(p, unsent)
             k3 == InSeq(p, inbox)
             k4 == Cardinality({r \in stored : r.who = p})
             m == InSeq(p, requests)
             n == InSeq(p, requests')
  <2>1. Copies(p)' = n + k2 + k3 + k4
    BY <1>3 DEF Copies, InSeq
  <2>2. /\ Copies(p) = m + k2 + k3 + k4
        /\ m \in Nat /\ k2 \in Nat /\ k3 \in Nat /\ k4 \in Nat
    BY CopiesAre DEF UpInv, Unsent
  <2>3. n \in Nat /\ m = n + IF p = x.who THEN 1 ELSE 0
    BY <1>2, InSeqType
  <2>4. (Waits(p)' <=> Waits(p)) /\ late' = late
    BY <1>3 DEF Waits
  <2>5. IF p \in late THEN Copies(p) = m ELSE Copies(p) = IF Waits(p) THEN 1 ELSE 0
    BY DEF UpInv, OnItsWay
  <2> HIDE DEF k2, k3, k4, m, n
  <2>6. CASE p \in late
    <3>1. k2 + k3 + k4 = 0
      BY <2>2, <2>5, <2>6
    <3>2. Copies(p)' = n
      BY <2>1, <2>2, <2>3, <3>1
    <3> QED
      BY <2>4, <2>6, <3>2 DEF n
  <2>7. CASE p \notin late
    <3>1. Copies(p)' = Copies(p)
      BY <1>1, <2>1, <2>2, <2>3, <2>7
    <3> QED
      BY <2>4, <2>5, <2>7, <3>1
  <2> QED
    BY <2>6, <2>7
<1>8. Closing'
  <2> SUFFICES ASSUME NEW c \in Channels PROVE CloseAsked(c)' /\ CloseAnswered(c)'
    BY DEF Closing
  <2>1. CloseAsked(c) /\ CloseAnswered(c)
    BY DEF UpInv, Closing
  <2>2. CloseAnswered(c)'
    BY <1>3, <1>4, <2>1 DEF CloseAnswered
  <2>3. ASSUME at[c] \in Leaving, NEW i \in 1..Len(requests'), NEW j \in 1..Len(requests'),
               requests'[i].who = c, at[c] = "closing", requests'[j].chan = c
        PROVE  requests'[j].who \in late <=> i < j
    <3>1. requests[j + 1].who \in late <=> i + 1 < j + 1
      BY <1>2, <2>1, <2>3 DEF CloseAsked
    <3> QED
      BY <1>2, <3>1
  <2>4. ASSUME at[c] \in Leaving, NEW i \in 1..Len(requests')
        PROVE  /\ requests'[i].who = c /\ at[c] = "closing" => c \in opened
               /\ c \notin opened /\ requests'[i].chan = c => requests'[i].who \in late
    BY <1>2, <2>1, <2>4 DEF CloseAsked
  <2>5. CloseAsked(c)'
    BY <1>3, <2>3, <2>4 DEF CloseAsked
  <2> QED
    BY <2>2, <2>5
<1>9. Subscribed'
  <2> SUFFICES ASSUME NEW c \in Channels PROVE SubscribedOf(c)'
    BY DEF Subscribed
  <2>1. SubscribedOf(c)
    BY DEF UpInv, Subscribed
  <2>2. (\E i \in 1..Len(requests') : requests'[i].who = c) =>
          \E i \in 1..Len(requests) : requests[i].who = c
    BY <1>2
  <2> QED
    BY <1>3, <1>4, <2>1, <2>2 DEF SubscribedOf
<1> QED
  BY <1>5, <1>6, <1>7, <1>8, <1>9 DEF UpInv

-----------------------------------------------------------------------------
(* What moves on its own: a response or a push goes one place further.       *)

LEMMA MoveUp ==
  ASSUME TypeOK, UpInv, Answers' \subseteq Answers,
         \A d \in Pushes' :
           d \in Pushes \/ \A c \in Channels : d.chan = c => at[c] \notin {"out", "opening"},
         \A p : Copies(p)' = Copies(p),
         Unsent', \A c \in Channels : CloseAnswered(c)',
         \A c \in Channels : TagsOf(c)' = TagsOf(c),
         UNCHANGED <<link, requests, managed, sub, at, arg, batch, wpc, opened, late>>
  PROVE  UpInv'
<1>1. \A c \in Channels : TagsOf(c)' = TagsOf(c)
  OBVIOUS
<1>2. Asked' /\ Answered' /\ Late'
  <2>1. Asked'
    BY DEF UpInv, Asked, AskedOf, Task
  <2>2. Answered'
    BY DEF UpInv, Answered, AnsweredOf, Task
  <2>3. Late'
    BY DEF UpInv, Late, LateOf
  <2> QED
    BY <2>1, <2>2, <2>3
<1>3. OnItsWay'
  <2>1. \A p : InSeq(p, requests)' = InSeq(p, requests) /\ (Waits(p)' <=> Waits(p))
    BY DEF InSeq, Waits
  <2> QED
    BY <2>1 DEF UpInv, OnItsWay
<1>4. Known'
  <2> SUFFICES ASSUME NEW c \in Channels PROVE KnownOf(c)'
    BY DEF Known
  <2>1. KnownOf(c)
    BY DEF UpInv, Known
  <2>2. at[c] \in {"out", "opening"} => \A d \in Pushes' : d.chan # c
    BY <2>1 DEF KnownOf
  <2> QED
    BY <1>1, <2>1, <2>2 DEF KnownOf
<1>5. Closing'
  BY DEF UpInv, Closing, CloseAsked
<1>6. Subscribed'
  <2> SUFFICES ASSUME NEW c \in Channels PROVE SubscribedOf(c)'
    BY DEF Subscribed
  <2>1. SubscribedOf(c)
    BY DEF UpInv, Subscribed
  <2> QED
    BY <1>1, <2>1 DEF SubscribedOf
<1> QED
  BY <1>2, <1>3, <1>4, <1>5, <1>6 DEF UpInv

\* The answer to a consume comes before the one to a close: its channel is open.
LEMMA SendAnswerUp ==
  ASSUME TypeOK, TypeOK', UpInv, SendAnswer
  PROVE  UpInv'
<1> DEFINE a == unsent[1]
<1>1. /\ unsent \in Seq(Response) /\ Len(unsent) \in Nat /\ Len(unsent) = 1
      /\ inbox \in Seq(Response \cup Delivered) /\ unsent # <<>>
  <2>1. /\ unsent \in Seq(Response) /\ inbox \in Seq(Response \cup Delivered)
        /\ unsent # <<>>
    BY DEF SendAnswer, TypeOK
  <2>2. Len(unsent) \in Nat /\ Len(unsent) # 0
    BY <2>1, LenProperties, EmptySeq
  <2>3. Len(unsent) <= 1
    BY DEF UpInv, Unsent
  <2>4. Len(unsent) = 1
    <3> DEFINE n == Len(unsent)
    <3>1. n \in Nat /\ n # 0 /\ n <= 1
      BY <2>2, <2>3
    <3> HIDE DEF n
    <3>2. n = 1
      BY <3>1
    <3> QED
      BY <3>2 DEF n
  <2> QED
    BY <2>1, <2>2, <2>4
<1>2. /\ inbox' = inbox \o unsent /\ unsent' = <<>>
      /\ UNCHANGED <<link, requests, managed, stored, sub, at, arg, tasks, batch, wpc, opened,
                     consumers, deleted, chosen, late>>
  BY DEF SendAnswer, client, pool
<1>3. a \in Response /\ a \in Answers /\ a.chan \in opened /\ a.chan \in Channels
  BY <1>1, ElementOfSeq, InboxAnswers, Kinds DEF UpInv, Unsent
<1> HIDE DEF a
<1>4. /\ Len(inbox') = Len(inbox) + 1 /\ Len(inbox) \in Nat
      /\ \A i \in 1..Len(inbox) : inbox'[i] = inbox[i]
      /\ inbox'[Len(inbox) + 1] = a
      /\ \A i \in 1..Len(inbox') : i \in 1..Len(inbox) \/ i = Len(inbox) + 1
  <2>1. unsent \in Seq(Response \cup Delivered)
    BY <1>1, SeqMonotonic
  <2>2. /\ Len(inbox \o unsent) = Len(inbox) + Len(unsent) /\ Len(inbox) \in Nat
        /\ \A i \in 1..(Len(inbox) + Len(unsent)) :
              (inbox \o unsent)[i] = IF i <= Len(inbox) THEN inbox[i] ELSE unsent[i - Len(inbox)]
    BY <1>1, <2>1, ConcatProperties, LenProperties
  <2> QED
    BY <1>1, <1>2, <2>2 DEF a
<1>5. Answers' \subseteq Answers
  <2>1. \A r : AnswerAt(r)' => AnswerAt(r) \/ r = a
    <3>1. Len(unsent') = 0
      BY <1>2, EmptySeq
    <3> QED
      BY <1>2, <1>4, <3>1 DEF AnswerAt
  <2> QED
    BY <1>3, <2>1 DEF Answers
<1>6. Pushes' \subseteq Pushes
  <2>1. ASSUME NEW i \in 1..Len(inbox'), inbox'[i] \in Delivered
        PROVE  i \in 1..Len(inbox) /\ inbox'[i] = inbox[i]
    BY <1>3, <1>4, <2>1, Kinds
  <2> QED
    BY <1>2, <2>1 DEF Pushes
<1>7. ASSUME NEW p PROVE Copies(p)' = Copies(p)
  <2>1. unsent # <<>> /\ Tail(unsent) = <<>> /\ Head(unsent) = a
    <3>1. unsent # <<>> /\ Head(unsent) = a
      BY <1>1 DEF a
    <3>2. Tail(unsent) \in Seq(Response) /\ Len(Tail(unsent)) = 0
      BY <1>1, <3>1, HeadTailProperties
    <3> QED
      BY <3>1, <3>2, EmptySeq
  <2>2. InSeq(p, unsent) = InSeq(p, Tail(unsent)) + IF By(p, a) THEN 1 ELSE 0
    BY <1>1, <2>1, InSeqTail
  <2>3. InSeq(p, inbox') = InSeq(p, inbox) + IF By(p, a) THEN 1 ELSE 0
    <3>1. inbox' = Append(inbox, a)
      <4>1. /\ Append(inbox, a) \in Seq(Response \cup Delivered)
            /\ Len(Append(inbox, a)) = Len(inbox) + 1
            /\ \A i \in 1..Len(inbox) : Append(inbox, a)[i] = inbox[i]
            /\ Append(inbox, a)[Len(inbox) + 1] = a
        BY <1>1, <1>3, AppendProperties
      <4>2. inbox' \in Seq(Response \cup Delivered)
        BY DEF TypeOK
      <4>3. \A i \in 1..Len(inbox') : inbox'[i] = Append(inbox, a)[i]
        BY <1>4, <4>1
      <4> QED
        BY <1>4, <4>1, <4>2, <4>3, SeqEqual
    <3> QED
      BY <1>1, <1>3, <3>1, InSeqAppend
  <2>4. InSeq(p, unsent') = 0 /\ InSeq(p, Tail(unsent)) = 0
    BY <1>2, <2>1, InSeqEmpty
  <2> DEFINE k1 == InSeq(p, requests)
             k3 == InSeq(p, inbox)
             k4 == Cardinality({r \in stored : r.who = p})
  <2>5. /\ Copies(p) = k1 + InSeq(p, unsent) + k3 + k4
        /\ k1 \in Nat /\ k3 \in Nat /\ k4 \in Nat
    BY CopiesAre DEF UpInv, Unsent
  <2>6. Copies(p)' = k1 + InSeq(p, unsent') + InSeq(p, inbox') + k4
    BY <1>2 DEF Copies, InSeq
  <2> HIDE DEF k1, k3, k4
  <2>7. InSeq(p, unsent) + k3 = InSeq(p, inbox')
    BY <2>2, <2>3, <2>4, <2>5 DEF k3
  <2> QED
    BY <2>2, <2>4, <2>5, <2>6, <2>7
<1>8. Unsent'
  <2>1. Len(unsent') = 0
    BY <1>2, EmptySeq
  <2> QED
    BY <1>2, <2>1 DEF UpInv, Unsent
<1>9. ASSUME NEW c \in Channels PROVE CloseAnswered(c)'
  <2>1. CloseAnswered(c) /\ KnownOf(c)
    BY DEF UpInv, Closing, Known
  <2>2. at[c] \in Leaving /\ ((\E r \in Answers : r.who = c) \/ at[c] # "closing") => a.chan # c
    BY <1>3, <2>1 DEF CloseAnswered, KnownOf, Leaving
  <2>3. ASSUME at[c] \in Leaving, NEW i \in 1..Len(inbox'), NEW j \in 1..Len(inbox'), i < j,
               IsResponse(inbox'[i]), IsResponse(inbox'[j]), inbox'[i].who = c
        PROVE  inbox'[j].chan # c
    <3>1. i \in 1..Len(inbox) /\ inbox'[i] = inbox[i]
      BY <1>4, <2>3
    <3>2. CASE j \in 1..Len(inbox)
      BY <1>4, <2>1, <2>3, <3>1, <3>2 DEF CloseAnswered
    <3>3. CASE j = Len(inbox) + 1
      <4>1. inbox[i] \in Answers /\ inbox'[j] = a
        BY <1>4, <2>3, <3>1, <3>3, InboxAnswers
      <4> QED
        BY <2>2, <2>3, <3>1, <4>1
    <3> QED
      BY <1>4, <3>2, <3>3
  <2>4. ASSUME at[c] \in Leaving, at[c] # "closing" \/ (\E r \in stored : r.who = c),
               NEW i \in 1..Len(inbox'), IsResponse(inbox'[i])
        PROVE  inbox'[i].chan # c
    <3>1. CASE i \in 1..Len(inbox)
      BY <1>4, <2>1, <2>4, <3>1 DEF CloseAnswered
    <3>2. CASE i = Len(inbox) + 1
      BY <1>4, <2>2, <2>4, <3>2, InboxAnswers
    <3> QED
      BY <1>4, <3>1, <3>2
  <2>5. at[c] = "closing" => \A r \in Answers' : r.who = c => c \notin opened
    BY <1>5, <2>1 DEF CloseAnswered, Leaving
  <2> QED
    BY <1>2, <2>3, <2>4, <2>5 DEF CloseAnswered
<1>10. \A c \in Channels : TagsOf(c)' = TagsOf(c)
  BY <1>2 DEF TagsOf
<1> QED
  BY <1>2, <1>5, <1>6, <1>7, <1>8, <1>9, <1>10, MoveUp

\* No response is dropped: its channel is in the map.
LEMMA ReceiveUp ==
  ASSUME TypeOK, TypeOK', UpInv, Receive
  PROVE  UpInv'
<1> DEFINE x == Head(inbox)
<1>1. /\ inbox \in Seq(Response \cup Delivered) /\ inbox # <<>> /\ inbox' = Tail(inbox)
      /\ UNCHANGED <<link, requests, managed, sub, at, arg, batch, wpc, opened, consumers,
                     deleted, unsent, chosen, late>>
      /\ \/ UNCHANGED <<stored, tasks>> /\ x.chan \notin managed
         \/ IsResponse(x) /\ stored' = stored \cup {x} /\ UNCHANGED tasks
         \/ ~IsResponse(x) /\ tasks' = Append(tasks, x) /\ UNCHANGED stored
  BY DEF Receive, TypeOK, server
<1>2. /\ x = inbox[1] /\ 1 \in 1..Len(inbox) /\ x \in Response \cup Delivered
      /\ Len(inbox) \in Nat /\ Len(inbox') = Len(inbox) - 1
      /\ \A i \in 1..Len(inbox') : i + 1 \in 1..Len(inbox) /\ inbox'[i] = inbox[i + 1]
  BY <1>1, HeadTailProperties, LenProperties, EmptySeq
<1>3. IsResponse(x) => x \in Answers /\ x.chan \in managed /\ x \notin stored
  BY <1>1, AnswersAreManaged
<1>4. \A p : InSeq(p, inbox) = InSeq(p, inbox') + IF By(p, x) THEN 1 ELSE 0
  BY <1>1, InSeqTail
<1>5. /\ IsResponse(x) <=> x \in Response
      /\ IsResponse(x) => \A p : By(p, x) <=> p = x.who
      /\ ~IsResponse(x) => \A p : ~By(p, x)
      /\ ~IsResponse(x) => x \in Delivered
  BY <1>2, Kinds DEF By
<1> HIDE DEF x
<1>6. \/ IsResponse(x) /\ stored' = stored \cup {x} /\ UNCHANGED tasks
      \/ ~IsResponse(x) /\ UNCHANGED <<stored, tasks>>
      \/ ~IsResponse(x) /\ tasks' = Append(tasks, x) /\ UNCHANGED stored
  BY <1>1, <1>3
<1>7. Answers' \subseteq Answers
  <2>1. \A r : AnswerAt(r)' => AnswerAt(r) \/ (IsResponse(x) /\ r = x)
    BY <1>1, <1>2, <1>6 DEF AnswerAt
  <2> QED
    BY <1>3, <2>1 DEF Answers
<1>8. Pushes' \subseteq Pushes
  <2>1. x \in Delivered => x \in Pushes
    BY <1>2 DEF Pushes
  <2>2. ASSUME NEW i \in 1..Len(tasks')
        PROVE  (\E j \in 1..Len(tasks) : tasks[j] = tasks'[i]) \/ (tasks'[i] = x /\ x \in Delivered)
    <3>1. CASE tasks' = tasks
      BY <2>2, <3>1
    <3>2. CASE tasks' = Append(tasks, x) /\ x \in Delivered
      BY <2>2, <3>2, AppendProperties, LenProperties DEF TypeOK
    <3> QED
      BY <1>5, <1>6, <3>1, <3>2
  <2>3. ASSUME NEW d \in Delivered, NEW i \in 1..Len(inbox'), inbox'[i] = d
        PROVE  \E j \in 1..Len(inbox) : inbox[j] = d
    BY <1>2, <2>3
  <2> QED
    BY <1>1, <2>1, <2>2, <2>3 DEF Pushes
<1>9. IsFiniteSet(stored) /\ IsFiniteSet(stored') /\ stored \in SUBSET Response
  <2>1. IsFiniteSet(stored) /\ stored \in SUBSET Response
    BY DEF UpInv, Unsent, TypeOK
  <2>2. IsFiniteSet(stored \cup {x})
    BY <2>1, FS_AddElement
  <2> QED
    BY <1>6, <2>1, <2>2
<1>10. ASSUME NEW p PROVE Copies(p)' = Copies(p)
  <2> DEFINE k1 == InSeq(p, requests)
             k2 == InSeq(p, unsent)
             k3 == InSeq(p, inbox')
             H == {r \in stored : r.who = p}
             J == {r \in stored' : r.who = p}
  <2>1. /\ Copies(p) = k1 + k2 + InSeq(p, inbox) + Cardinality(H)
        /\ k1 \in Nat /\ k2 \in Nat /\ Cardinality(H) \in Nat /\ IsFiniteSet(H)
    BY <1>9, CopiesAre, HeldType
  <2>2. /\ Copies(p)' = k1 + k2 + k3 + Cardinality(J)
        /\ k3 \in Nat
    <3>1. Copies(p)' = k1 + k2 + k3 + Cardinality(J)
      BY <1>1 DEF Copies, InSeq
    <3>2. k3 \in Nat
      BY <1>9, CopiesAfter
    <3> QED
      BY <3>1, <3>2
  <2>3. Cardinality(J) = Cardinality(H) + IF By(p, x) THEN 1 ELSE 0
    <3>1. CASE By(p, x)
      <4>1. J = H \cup {x} /\ x \notin H
        BY <1>3, <1>5, <1>6, <3>1
      <4> HIDE DEF H, J
      <4>2. Cardinality(H \cup {x}) = Cardinality(H) + 1
        BY <2>1, <4>1, FS_AddElement
      <4> QED
        BY <3>1, <4>1, <4>2
    <3>2. CASE ~By(p, x)
      <4>1. J = H
        BY <1>5, <1>6, <3>2
      <4> HIDE DEF H, J
      <4> QED
        BY <2>1, <3>2, <4>1
    <3> QED
      BY <3>1, <3>2
  <2>4. InSeq(p, inbox) = k3 + IF By(p, x) THEN 1 ELSE 0
    BY <1>4
  <2> HIDE DEF k1, k2, k3, H, J
  <2> QED
    BY <2>1, <2>2, <2>3, <2>4
<1>11. Unsent'
  BY <1>1, <1>9 DEF UpInv, Unsent
<1>12. ASSUME NEW c \in Channels PROVE CloseAnswered(c)'
  <2>1. CloseAnswered(c)
    BY DEF UpInv, Closing
  <2>2. ASSUME at[c] \in Leaving, NEW i \in 1..Len(inbox'), NEW j \in 1..Len(inbox'), i < j,
               IsResponse(inbox'[i]), IsResponse(inbox'[j]), inbox'[i].who = c
        PROVE  inbox'[j].chan # c
    <3>1. /\ i + 1 \in 1..Len(inbox) /\ inbox'[i] = inbox[i + 1]
          /\ j + 1 \in 1..Len(inbox) /\ inbox'[j] = inbox[j + 1] /\ i + 1 < j + 1
      BY <1>2, <2>2
    <3> QED
      BY <2>1, <2>2, <3>1 DEF CloseAnswered
  <2>3. ASSUME at[c] \in Leaving, at[c] # "closing" \/ (\E r \in stored' : r.who = c),
               NEW i \in 1..Len(inbox'), IsResponse(inbox'[i])
        PROVE  inbox'[i].chan # c
    <3>1. i + 1 \in 1..Len(inbox) /\ inbox'[i] = inbox[i + 1]
      BY <1>2
    <3>2. CASE at[c] # "closing" \/ (\E r \in stored : r.who = c)
      BY <2>1, <2>3, <3>1, <3>2 DEF CloseAnswered
    <3>3. CASE IsResponse(x) /\ x.who = c
      <4>1. inbox[1].who = c /\ IsResponse(inbox[1]) /\ 1 < i + 1
        BY <1>2, <3>3 DEF x
      <4> QED
        BY <1>2, <2>1, <2>3, <3>1, <4>1 DEF CloseAnswered
    <3> QED
      BY <1>6, <2>3, <3>2, <3>3
  <2>4. at[c] = "closing" => \A r \in Answers' : r.who = c => c \notin opened
    BY <1>7, <2>1 DEF CloseAnswered, Leaving
  <2> QED
    BY <1>1, <2>2, <2>3, <2>4 DEF CloseAnswered
<1>13. \A c \in Channels : TagsOf(c)' = TagsOf(c)
  BY <1>1 DEF TagsOf
<1> QED
  BY <1>1, <1>7, <1>8, <1>10, <1>11, <1>12, <1>13, MoveUp

\* The handler ends, or its thread lets go of the channel last.
LEMMA EndHandlerUp ==
  ASSUME TypeOK, TypeOK', Tagged, UpInv, link = "up", EndHandler
  PROVE  UpInv'
<1>1. /\ io \in Channels
      /\ UNCHANGED <<link, inbox, managed, stored, sub, arg, tasks, batch, wpc, server>>
  BY DEF EndHandler, TypeOK
<1>2. CASE UNCHANGED <<at, requests, late>>
  <2>1. /\ Answers' = Answers /\ Pushes' = Pushes
        /\ \A p : Copies(p)' = Copies(p)
        /\ \A c \in Channels : TagsOf(c)' = TagsOf(c)
    BY <1>1, <1>2 DEF Answers, AnswerAt, Pushes, Copies, InSeq, TagsOf, server
  <2>2. Unsent' /\ \A c \in Channels : CloseAnswered(c)'
    BY <1>1, <1>2, <2>1 DEF UpInv, Unsent, Closing, CloseAnswered, server
  <2> QED
    BY <1>1, <1>2, <2>1, <2>2, MoveUp DEF server
<1>3. CASE /\ at[io] = "gone" /\ at' = [at EXCEPT ![io] = "dropping"]
           /\ Send("cancel", io, io, sub[io])
  <2>1. PICK c \in Channels, t \in Tags \cup {None} : c = io /\ t = sub[io]
    BY <1>1 DEF TypeOK
  <2> QED
    BY <1>1, <1>3, <2>1, LetGoUp
<1> QED
  BY <1>2, <1>3 DEF EndHandler

LEMMA PushUp ==
  ASSUME TypeOK, TypeOK', UpInv,
         (\E k \in consumers, m \in Msgs : Choose(k, m)) \/ (\E d \in chosen : Push(d))
  PROVE  UpInv'
<1>1. ASSUME NEW k \in consumers, NEW m \in Msgs, Choose(k, m) PROVE UpInv'
  <2> DEFINE d == [chan |-> k.chan, tag |-> k.tag, msg |-> m]
  <2>1. /\ chosen' = chosen \cup {d}
        /\ UNCHANGED <<link, requests, inbox, managed, stored, sub, at, arg, tasks, batch, wpc,
                       opened, consumers, deleted, unsent, late>>
    BY <1>1 DEF Choose, wire, client, pool
  <2>2. Answers' = Answers
    BY <2>1 DEF Answers, AnswerAt
  <2>3. d.chan = k.chan
    OBVIOUS
  <2> HIDE DEF d
  <2>4. Pushes' \subseteq Pushes \cup {d}
    BY <2>1 DEF Pushes
  <2>5. \A c \in Channels : d.chan = c => at[c] \notin {"out", "opening"}
    <3> SUFFICES ASSUME NEW c \in Channels, d.chan = c PROVE at[c] \notin {"out", "opening"}
      OBVIOUS
    <3>1. k.tag \in TagsOf(c)
      BY <2>3 DEF TagsOf
    <3> QED
      BY <3>1 DEF UpInv, Known, KnownOf
  <2>6. \A p : Copies(p)' = Copies(p)
    BY <2>1 DEF Copies, InSeq
  <2>7. Unsent'
    BY <2>1 DEF UpInv, Unsent
  <2>8. \A c \in Channels : CloseAnswered(c)'
    BY <2>1, <2>2 DEF UpInv, Closing, CloseAnswered
  <2>9. \A c \in Channels : TagsOf(c)' = TagsOf(c)
    BY <2>1 DEF TagsOf
  <2> QED
    BY <2>1, <2>2, <2>4, <2>5, <2>6, <2>7, <2>8, <2>9, MoveUp
<1>2. ASSUME NEW d \in chosen, Push(d) PROVE UpInv'
  <2>1. /\ inbox' = Append(inbox, d) /\ chosen' \subseteq chosen /\ d \in Delivered
        /\ UNCHANGED <<link, requests, managed, stored, sub, at, arg, tasks, batch, wpc,
                       opened, consumers, deleted, unsent, late>>
    BY <1>2 DEF Push, client, pool, TypeOK
  <2>2. /\ Len(inbox) \in Nat
        /\ \A i \in 1..Len(inbox) : inbox'[i] = inbox[i]
        /\ inbox'[Len(inbox) + 1] = d
        /\ \A i \in 1..Len(inbox') : i \in 1..Len(inbox) \/ i = Len(inbox) + 1
        /\ \A p : InSeq(p, inbox') = InSeq(p, inbox) + IF By(p, d) THEN 1 ELSE 0
    BY <2>1, InboxEffect
  <2>3. ~IsResponse(d) /\ \A p : ~By(p, d)
    BY <2>1, Kinds DEF By
  <2>4. \A i \in 1..Len(inbox') :
          IsResponse(inbox'[i]) => i \in 1..Len(inbox) /\ inbox'[i] = inbox[i]
    BY <2>2, <2>3
  <2>5. Answers' \subseteq Answers
    BY <2>1, <2>4 DEF Answers, AnswerAt
  <2>6. Pushes' \subseteq Pushes
    BY <2>1, <2>2 DEF Pushes
  <2>7. \A p : Copies(p)' = Copies(p)
    <3> SUFFICES ASSUME NEW p PROVE Copies(p)' = Copies(p)
      OBVIOUS
    <3>1. InSeq(p, inbox') = InSeq(p, inbox)
      <4>1. InSeq(p, inbox) \in Nat
        BY InSeqType DEF TypeOK
      <4> QED
        BY <2>2, <2>3, <4>1
    <3>2. InSeq(p, inbox)' = InSeq(p, inbox')
      BY DEF InSeq
    <3>3. InSeq(p, requests)' = InSeq(p, requests) /\ InSeq(p, unsent)' = InSeq(p, unsent)
      BY <2>1 DEF InSeq
    <3> QED
      BY <2>1, <3>1, <3>2, <3>3 DEF Copies
  <2>8. Unsent'
    BY <2>1 DEF UpInv, Unsent
  <2>9. ASSUME NEW c \in Channels PROVE CloseAnswered(c)'
    <3>1. CloseAnswered(c)
      BY DEF UpInv, Closing
    <3> QED
      BY <2>1, <2>4, <2>5, <3>1 DEF CloseAnswered
  <2>10. \A c \in Channels : TagsOf(c)' = TagsOf(c)
    BY <2>1 DEF TagsOf
  <2> QED
    BY <2>1, <2>5, <2>6, <2>7, <2>8, <2>9, <2>10, MoveUp
<1> QED
  BY <1>1, <1>2

LEMMA DeleteQueueOfOtherUp ==
  ASSUME TypeOK, UpInv, DeleteQueueOfOther
  PROVE  UpInv'
<1>1. /\ UNCHANGED <<link, requests, inbox, managed, stored, sub, at, arg, tasks, batch, wpc,
                     opened, unsent, chosen, late>>
      /\ \A c \in Channels : TagsOf(c)' = TagsOf(c)
  BY DestroyedTags DEF DeleteQueueOfOther, wire, client, pool
<1>2. /\ Answers' = Answers /\ Pushes' = Pushes
      /\ \A p : Copies(p)' = Copies(p)
  BY <1>1 DEF Answers, AnswerAt, Pushes, Copies, InSeq
<1>3. Unsent' /\ \A c \in Channels : CloseAnswered(c)'
  BY <1>1, <1>2 DEF UpInv, Unsent, Closing, CloseAnswered
<1> QED
  BY <1>1, <1>2, <1>3, MoveUp

-----------------------------------------------------------------------------
(* The connection, and the theorems.                                         *)

LEMMA BeforeStep ==
  ASSUME TypeOK, Before, link \in {"connecting", "latched"}, Next
  PROVE  CountDown \/ SetConnection \/ link' = "dead"
<1>1. /\ requests = <<>> /\ inbox = <<>> /\ stored = {} /\ tasks = <<>>
      /\ at = [c \in Channels |-> "out"] /\ sub = [c \in Channels |-> None]
      /\ batch = [w \in Workers |-> <<>>] /\ wpc = [w \in Workers |-> "idle"]
      /\ kept = [w \in Workers |-> {}] /\ io = None
      /\ consumers = {} /\ unsent = <<>> /\ chosen = {} /\ link # "up"
  BY DEF Before
<1>2. ASSUME NEW c \in Channels, MayCall(c) \/ GoOn(c) PROVE link' = "dead"
  <2>1. at[c] = "out"
    BY <1>1
  <2>2. OpenOnNull(c)
    BY <1>1, <1>2, <2>1 DEF MayCall, GoOn, Open, Call, Cancel, Close, Drop, Consume, Return,
       StoreSubscriber, Calls
  <2> QED
    BY <2>2 DEF OpenOnNull
<1>3. ASSUME NEW w \in Workers, Work(w) PROVE FALSE
  <2>1. wpc[w] = "idle" /\ batch[w] = <<>> /\ kept[w] = {}
    BY <1>1
  <2> QED
    BY <1>1, <1>3, <2>1 DEF Work, TakeBatch, Test, LeaveCallback, CallAck, ReturnAck, Release,
       Die
<1>4. ~Io /\ ~LoseConnection /\ ~DeleteQueueOfOther
  BY <1>1 DEF Io, Receive, EndHandler, LoseConnection, DeleteQueueOfOther
<1>5. ~Serve
  BY <1>1 DEF Serve, SendAnswer, ServeOpen, ServeClose, ServeCall, ServeDeleteQueue,
     ServeConsume, ServeCancel, Ignore, Handle
<1>6. /\ ~ \E k \in consumers, m \in Msgs : Choose(k, m)
      /\ ~ \E d \in chosen : Push(d)
  BY <1>1
<1> QED
  BY <1>2, <1>3, <1>4, <1>5, <1>6 DEF Next

LEMMA BeforeNext == TypeOK /\ Before /\ [Next]_vars => Before'
<1> SUFFICES ASSUME TypeOK, Before, [Next]_vars, link' \in {"connecting", "latched"}
             PROVE  Before'
  BY DEF Before
<1>1. CASE UNCHANGED vars
  BY <1>1 DEF vars, Before
<1>2. CASE Next
  <2>1. link \in {"connecting", "latched"}
    <3> SUFFICES ASSUME link \notin {"connecting", "latched"} PROVE FALSE
      OBVIOUS
    <3>1. link' \in {link, "lost", "dead"}
      <4>1. ASSUME NEW c \in Channels, MayCall(c) \/ GoOn(c) PROVE link' \in {link, "dead"}
        BY <4>1 DEF MayCall, GoOn, Open, OpenOnNull, Call, Cancel, Close, Drop, Consume, Return,
           StoreSubscriber
      <4>2. ASSUME NEW w \in Workers, Work(w) PROVE link' \in {link, "dead"}
        BY <4>2 DEF Work, TakeBatch, Test, LeaveCallback, CallAck, ReturnAck, Release, Die
      <4>3. Serve => link' = link
        BY DEF Serve, SendAnswer, ServeOpen, ServeClose, ServeCall, ServeDeleteQueue,
           ServeConsume, ServeCancel, Ignore
      <4>4. /\ Io \/ DeleteQueueOfOther => link' = link
            /\ LoseConnection => link' = "lost"
            /\ ~CountDown /\ ~SetConnection
            /\ (\E k \in consumers, m \in Msgs : Choose(k, m)) => link' = link
            /\ (\E d \in chosen : Push(d)) => link' = link
        BY DEF Io, Receive, EndHandler, DeleteQueueOfOther, LoseConnection, CountDown, SetConnection, Choose, Push
      <4> QED
        BY <1>2, <4>1, <4>2, <4>3, <4>4 DEF Next
    <3> QED
      BY <3>1
  <2>2. CountDown
    BY <1>2, <2>1, BeforeStep DEF SetConnection
  <2> QED
    BY <2>1, <2>2 DEF CountDown, Before, wire, client, pool, server
<1> QED
  BY <1>1, <1>2

\* When the connection comes up there is nothing yet.
LEMMA ConnectedUp == TypeOK /\ Before /\ SetConnection => UpInv'
<1> SUFFICES ASSUME TypeOK, Before, SetConnection PROVE UpInv'
  OBVIOUS
<1>1. /\ requests' = <<>> /\ inbox' = <<>> /\ stored' = {} /\ tasks' = <<>>
      /\ at' = [c \in Channels |-> "out"] /\ sub' = [c \in Channels |-> None]
      /\ batch' = [w \in Workers |-> <<>>] /\ wpc' = [w \in Workers |-> "idle"]
      /\ opened' = {} /\ consumers' = {} /\ unsent' = <<>> /\ chosen' = {} /\ late' = {}
      /\ deleted' = {}
  BY DEF Before, SetConnection, wire, client, pool, server
<1>2. Len(<<>>) = 0
  BY EmptySeq
<1>3. Answers' = {} /\ Pushes' = {}
  <2>1. \A w \in Workers : Len(batch'[w]) = 0
    BY <1>1, <1>2
  <2> QED
    BY <1>1, <1>2, <2>1 DEF Answers, AnswerAt, Pushes
<1>4. \A c : TagsOf(c)' = {}
  BY <1>1 DEF TagsOf
<1>5. Asked' /\ Answered' /\ Late'
  <2>1. \A p \in Channels : at'[p] = "out"
    BY <1>1
  <2>2. \A w \in Workers : wpc'[w] = "idle"
    BY <1>1
  <2> QED
    BY <1>1, <1>2, <1>3, <2>1, <2>2 DEF Asked, Answered, Late, LateOf
<1>6. OnItsWay'
  <2> SUFFICES ASSUME NEW p \in Callers PROVE ~Waits(p)' /\ Copies(p)' = 0
    BY <1>1 DEF OnItsWay
  <2>1. ~Waits(p)'
    BY <1>1 DEF Waits, Calls
  <2>2. Copies(p)' = InSeq(p, requests') + InSeq(p, unsent') + InSeq(p, inbox')
                       + Cardinality({r \in stored' : r.who = p})
    BY DEF Copies, InSeq
  <2>3. {r \in stored' : r.who = p} = {} /\ Cardinality({}) = 0
    BY <1>1, FS_EmptySet
  <2>4. InSeq(p, requests') = 0 /\ InSeq(p, unsent') = 0 /\ InSeq(p, inbox') = 0
    BY <1>1, InSeqEmpty
  <2>5. Cardinality({r \in stored' : r.who = p}) = 0
    BY <2>3
  <2> QED
    BY <2>1, <2>2, <2>4, <2>5
<1>7. Known'
  BY <1>1, <1>3, <1>4 DEF Known, KnownOf, Calls
<1>8. Unsent'
  BY <1>1, <1>2, FS_EmptySet DEF Unsent
<1>9. Closing' /\ Subscribed'
  BY <1>1 DEF Closing, CloseAsked, CloseAnswered, Leaving, Subscribed, SubscribedOf
<1> QED
  BY <1>5, <1>6, <1>7, <1>8, <1>9 DEF UpInv

LEMMA UpNext ==
  ASSUME TypeOK, TypeOK', Tagged, Before, link = "up" => UpInv, Next, link' = "up"
  PROVE  UpInv'
<1>1. CASE link \in {"connecting", "latched"}
  BY <1>1, BeforeStep, ConnectedUp DEF CountDown
<1>2. CASE link \notin {"connecting", "latched"}
  <2>1. link = "up"
    <3>1. ASSUME NEW c \in Channels, MayCall(c) \/ GoOn(c) PROVE link' \in {link, "dead"}
      BY <3>1 DEF MayCall, GoOn, Open, OpenOnNull, Call, Cancel, Close, Drop, Consume, Return,
         StoreSubscriber
    <3>2. ASSUME NEW w \in Workers, Work(w) PROVE link' \in {link, "dead"}
      BY <3>2 DEF Work, TakeBatch, Test, LeaveCallback, CallAck, ReturnAck, Release, Die
    <3>3. Serve => link' = link
      BY DEF Serve, SendAnswer, ServeOpen, ServeClose, ServeCall, ServeDeleteQueue,
         ServeConsume, ServeCancel, Ignore
    <3>4. /\ Io \/ DeleteQueueOfOther => link' = link
          /\ ~LoseConnection /\ ~CountDown /\ ~SetConnection
          /\ (\E k \in consumers, m \in Msgs : Choose(k, m)) => link' = link
          /\ (\E d \in chosen : Push(d)) => link' = link
      BY <1>2 DEF Io, Receive, EndHandler, DeleteQueueOfOther, LoseConnection, CountDown,
         SetConnection, Choose, Push
    <3> QED
      BY <3>1, <3>2, <3>3, <3>4 DEF Next
  <2>2. UpInv
    BY <2>1
  <2>3. ASSUME NEW c \in Channels, MayCall(c) \/ GoOn(c) PROVE UpInv'
    <3>1. ~OpenOnNull(c)
      BY <2>1 DEF OpenOnNull
    <3> QED
      BY <2>1, <2>2, <2>3, <3>1, OpenUp, CallUp, ConsumeUp, CancelUp, CloseUp, DropUp, ReturnUp,
         StoreUp DEF MayCall, GoOn
  <2>4. ASSUME NEW w \in Workers, Work(w) PROVE UpInv'
    BY <2>1, <2>2, <2>4, WorkUp
  <2>5. Serve => UpInv'
    BY <2>2, SendAnswerUp, ServeOpenUp, ServeCloseUp, ServeCallUp, ServeDeleteQueueUp,
       ServeConsumeUp, ServeCancelUp, IgnoreUp DEF Serve
  <2>6. ~CountDown /\ ~SetConnection /\ ~LoseConnection
    BY <2>1 DEF CountDown, SetConnection, LoseConnection
  <2>7. Io => UpInv'
    BY <2>1, <2>2, ReceiveUp, EndHandlerUp DEF Io
  <2> QED
    BY <2>2, <2>3, <2>4, <2>5, <2>6, <2>7, DeleteQueueOfOtherUp, PushUp DEF Next
<1> QED
  BY <1>1, <1>2

LEMMA NextIInv == IInv /\ [Next]_vars => IInv'
<1> SUFFICES ASSUME IInv, [Next]_vars PROVE IInv'
  OBVIOUS
<1>1. TypeOK' /\ Tagged'
  BY NextType DEF IInv
<1>2. Before'
  BY BeforeNext DEF IInv
<1>3. link' = "up" => UpInv'
  <2>1. CASE Next
    BY <1>1, <2>1, UpNext DEF IInv
  <2>2. CASE UNCHANGED vars
    <3>1. link' = link /\ UpInv' = UpInv
      BY <2>2 DEF vars, UpInv, Asked, AskedOf, Answered, AnsweredOf, Answers, AnswerAt, Late,
         LateOf, OnItsWay, Copies, InSeq, Waits, Known, KnownOf, Unsent, Closing, CloseAsked,
         CloseAnswered, Subscribed, SubscribedOf, TagsOf, Pushes, Task
    <3> QED
      BY <3>1 DEF IInv
  <2> QED
    BY <2>1, <2>2
<1> QED
  BY <1>1, <1>2, <1>3 DEF IInv

LEMMA AlwaysIInv == Spec => []IInv
BY InitIInv, NextIInv, PTL DEF Spec

\* The parts of the client and of the server's connection keep their types, a
\* worker in a callback or a call has its task, and the server's consumers are
\* those of open channels (Channel.hpp, Worker.hpp, Connection.hpp).
THEOREM TypesAlwaysOK == Spec => []TypeOK
<1>1. IInv => TypeOK
  BY DEF IInv
<1> QED
  BY <1>1, AlwaysIInv, PTL

\* No answer is lost, duplicated or left behind, for any number of threads: each
\* that waits in waitResponse has exactly one request or response on its way to
\* it, even one whose acknowledgement races with the close of its channel.
THEOREM AnswersAlwaysOnTheirWay == Spec => []AnswerIsOnItsWay
<1>1. IInv => AnswerIsOnItsWay
  BY DEF IInv, UpInv, OnItsWay, AnswerIsOnItsWay
<1> QED
  BY <1>1, AlwaysIInv, PTL

\* Whenever no call is under way on a channel, the server's consumers on it are at
\* most the one of its _subscriber_ptr, and that one is there unless a deletion of
\* its queue took it, which nobody tells the client (Channel.hpp:90-95).
THEOREM SubscriptionsAlwaysAgree == Spec => []SubscriptionsAgree
<1>1. IInv => SubscriptionsAgree
  BY DEF IInv, UpInv, Subscribed, SubscribedOf, TagsOf, SubscriptionsAgree
<1> QED
  BY <1>1, AlwaysIInv, PTL

=============================================================================
