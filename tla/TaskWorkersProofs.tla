------------------------- MODULE TaskWorkersProofs -------------------------
(***************************************************************************)
(* Theorems about TaskWorkers, for any pages and items, any number of      *)
(* workers and any bounds on faults, slow consumers and dummies.           *)
(*                                                                         *)
(* The argument rests on one fact: what is in a stream, in the database or *)
(* in the log stays there (Grows), so work that is done stays done.  A     *)
(* message is acknowledged by a consumer that did the work before; that it *)
(* may have been claimed, or handled twice, makes no difference.           *)
(*                                                                         *)
(* TypeOK and WorkersInv are inductive together: that a message has the    *)
(* type of its stream needs that its handler holds one that exists.        *)
(***************************************************************************)
EXTENDS TaskWorkers, TLAPS

IInv == TypeOK /\ WorkersInv

Message == Pages \union Items \union {Dummy}

\* The part of HandsInv that is about one consumer.
HandInv(c) ==
  hand[c].step # "idle" =>
    /\ hand[c].id \in 1..delivered[StreamOf(c)]
    /\ hand[c].step = "ack" => Done(StreamOf(c), hand[c].id)
    /\ hand[c].step = "handle" /\ StreamOf(c) = "CatalogPageTask" /\ MessageOf(c) # Dummy =>
         \A item \in ToSet(PageItems[MessageOf(c)]) :
           ItemDone(item) \/ item \in ToSet(hand[c].rest)

\* r is q with something added at its end.
Extends(q, r) == Len(q) <= Len(r) /\ \A i \in 1..Len(q) : r[i] = q[i]

\* What every step keeps.
Grows ==
  /\ \A s \in Streams : Extends(entries[s], entries'[s])
  /\ \A s \in Streams : delivered'[s] \in Nat /\ delivered[s] <= delivered'[s]
  /\ saved \subseteq saved'
  /\ dropped \subseteq dropped'
  /\ lost \subseteq lost'

\* The part of TypeOK about the streams.
EntriesOK ==
  /\ entries \in [Streams -> Seq(Message)]
  /\ \A s \in Streams : \A id \in DOMAIN entries[s] : entries[s][id] \in Payload(s) \union {Dummy}

\* The other parts of TypeOK.
GroupOK ==
  /\ delivered \in [Streams -> Nat]
  /\ \A s \in Streams : delivered[s] <= Len(entries[s])
  /\ pending \in [Streams -> SUBSET Nat]
  /\ \A s \in Streams : pending[s] \subseteq 1..delivered[s]
  /\ idle \in [Streams -> SUBSET Nat]
  /\ \A s \in Streams : idle[s] \subseteq pending[s]

OutcomeOK ==
  /\ saved \subseteq Items
  /\ dropped \subseteq Pages \union Items
  /\ lost \subseteq Items
  /\ running \in BOOLEAN

Hand == [step : {"idle", "handle", "ack"}, id : Nat, rest : Seq(Items)]

BoundsOK ==
  /\ crawled \in 0..MaxCrawled
  /\ faults \in 0..MaxFaults
  /\ slow \in 0..MaxSlow

-----------------------------------------------------------------------------
(* Sequences.                                                              *)

LEMMA ExtendsItself == ASSUME NEW S, NEW q \in Seq(S) PROVE Extends(q, q)
BY DEF Extends

LEMMA AppendExtends ==
  ASSUME NEW S, NEW q \in Seq(S), NEW m \in S
  PROVE  Extends(q, Append(q, m)) /\ m \in ToSet(Append(q, m))
<1>1. Append(q, m)[Len(q) + 1] = m /\ Len(q) + 1 \in DOMAIN Append(q, m)
  OBVIOUS
<1> QED
  BY <1>1 DEF Extends, ToSet

LEMMA ExtendsTransitive ==
  ASSUME NEW S, NEW q \in Seq(S), NEW r \in Seq(S), NEW t \in Seq(S), Extends(q, r), Extends(r, t)
  PROVE  Extends(q, t)
BY DEF Extends

LEMMA ExtendsHasMore ==
  ASSUME NEW S, NEW q \in Seq(S), NEW r \in Seq(S), Extends(q, r)
  PROVE  ToSet(q) \subseteq ToSet(r)
<1> SUFFICES ASSUME NEW i \in 1..Len(q) PROVE q[i] \in ToSet(r)
  BY DEF ToSet
<1> QED
  BY DEF Extends, ToSet

\* Going on to the next item of a page leaves only the present one behind.
LEMMA HeadOrTail ==
  ASSUME NEW S, NEW q \in Seq(S), q # << >>
  PROVE  /\ Head(q) \in S
         /\ Tail(q) \in Seq(S)
         /\ \A x \in ToSet(q) : x = Head(q) \/ x \in ToSet(Tail(q))
<1>1. Head(q) \in S /\ Tail(q) \in Seq(S)
  OBVIOUS
<1>2. ASSUME NEW i \in 1..Len(q), i # 1 PROVE q[i] \in ToSet(Tail(q))
  <2>1. i - 1 \in 1..Len(Tail(q)) /\ Tail(q)[i - 1] = q[i]
    BY <1>2
  <2>2. i - 1 \in DOMAIN Tail(q)
    BY <1>1, <2>1
  <2> QED
    BY <2>1, <2>2 DEF ToSet
<1> QED
  BY <1>1, <1>2 DEF ToSet

-----------------------------------------------------------------------------
(* Consumers and messages.                                                 *)

LEMMA ConsumersAre ==
  ASSUME NEW c \in Consumer
  PROVE  StreamOf(c) \in Streams /\ c \in Consumers(StreamOf(c))
BY DEF Consumer, Consumers, StreamOf

LEMMA ClaimerIs ==
  ASSUME NEW s \in Streams
  PROVE  Claimer(s) \in Consumer /\ StreamOf(Claimer(s)) = s
<1>1. WorkerCount(s) \in Nat
  BY WorkersAssumption DEF WorkersAssumption, WorkerCount, Streams
<1>2. Claimer(s) \in Consumers(s)
  BY <1>1 DEF Claimer, Consumers
<1> QED
  BY <1>2 DEF Consumer, Claimer, StreamOf

LEMMA HandsAre == HandsInv <=> \A c \in Consumer : HandInv(c)
BY DEF HandsInv, HandInv

LEMMA TypeHasEntries == TypeOK => EntriesOK
BY DEF TypeOK, EntriesOK, Message

LEMMA TypeParts ==
  TypeOK <=> EntriesOK /\ GroupOK /\ OutcomeOK /\ hand \in [Consumer -> Hand] /\ BoundsOK
BY DEF TypeOK, EntriesOK, Message, GroupOK, OutcomeOK, Hand, BoundsOK

\* A consumer that is not idle holds a message that is there.
LEMMA HeldMessage ==
  ASSUME IInv, NEW c \in Consumer, hand[c].step # "idle"
  PROVE  /\ hand[c].id \in 1..delivered[StreamOf(c)]
         /\ hand[c].id \in DOMAIN entries[StreamOf(c)]
         /\ MessageOf(c) \in Payload(StreamOf(c)) \union {Dummy}
<1>1. StreamOf(c) \in Streams
  BY ConsumersAre
<1>2. hand[c].id \in 1..delivered[StreamOf(c)]
  BY HandsAre DEF IInv, WorkersInv, HandInv
<1>3. delivered[StreamOf(c)] \in Nat /\ delivered[StreamOf(c)] <= Len(entries[StreamOf(c)])
  BY <1>1 DEF IInv, TypeOK
<1>4. entries[StreamOf(c)] \in Seq(Message)
  BY <1>1 DEF IInv, TypeOK, Message
<1>5. hand[c].id \in DOMAIN entries[StreamOf(c)]
  BY <1>2, <1>3, <1>4
<1> QED
  BY <1>1, <1>2, <1>5 DEF IInv, TypeOK, MessageOf

\* The payloads of a stream that are not dummies.
LEMMA PayloadsAre ==
  /\ Payload("CatalogPageTask") = Pages
  /\ Payload("PageRetryTask") = Pages
  /\ Payload("ItemRetryTask") = Items
  /\ \A s \in Streams : Payload(s) \union {Dummy} \subseteq Message
BY DEF Payload, Streams, Message

-----------------------------------------------------------------------------
(* The streams grow.                                                       *)

LEMMA AddTaskAdds ==
  ASSUME EntriesOK, NEW s \in Streams, NEW m \in Payload(s) \union {Dummy}, AddTask(s, m)
  PROVE  /\ EntriesOK'
         /\ \A t \in Streams : Extends(entries[t], entries'[t])
         /\ m \in ToSet(entries'[s])
<1>1. m \in Message
  BY PayloadsAre
<1>2. entries[s] \in Seq(Message)
  BY DEF EntriesOK
<1>3. entries' \in [Streams -> Seq(Message)]
  BY <1>1, <1>2 DEF EntriesOK, AddTask
<1>4. entries'[s] = Append(entries[s], m)
  BY DEF EntriesOK, AddTask
<1>5. \A t \in Streams \ {s} : entries'[t] = entries[t]
  BY DEF EntriesOK, AddTask
<1>6. ASSUME NEW t \in Streams, NEW id \in DOMAIN entries'[t]
      PROVE  entries'[t][id] \in Payload(t) \union {Dummy}
  <2>1. CASE t = s
    <3>1. \A i \in DOMAIN Append(entries[s], m) :
            \/ i \in DOMAIN entries[s] /\ Append(entries[s], m)[i] = entries[s][i]
            \/ Append(entries[s], m)[i] = m
      BY <1>1, <1>2
    <3>2. id \in DOMAIN Append(entries[s], m)
      BY <1>4, <2>1
    <3> QED
      BY <1>4, <2>1, <3>1, <3>2 DEF EntriesOK
  <2>2. CASE t # s
    BY <1>5, <2>2 DEF EntriesOK
  <2> QED
    BY <2>1, <2>2
<1>7. ASSUME NEW t \in Streams PROVE Extends(entries[t], entries'[t])
  <2>1. CASE t = s
    BY <1>1, <1>2, <1>4, <2>1, AppendExtends
  <2>2. CASE t # s
    BY <1>5, <2>2, ExtendsItself DEF EntriesOK
  <2> QED
    BY <2>1, <2>2
<1>8. m \in ToSet(entries'[s])
  BY <1>1, <1>2, <1>4, AppendExtends
<1> QED
  BY <1>3, <1>6, <1>7, <1>8 DEF EntriesOK

LEMMA DummiesAdd ==
  ASSUME NEW left, NEW q \in [Streams -> Seq(Message)],
         \A s \in Streams : \A id \in DOMAIN q[s] : q[s][id] \in Payload(s) \union {Dummy}
  PROVE  /\ LeaveDummies(q, left) \in [Streams -> Seq(Message)]
         /\ \A s \in Streams : Extends(q[s], LeaveDummies(q, left)[s])
         /\ \A s \in Streams : \A id \in DOMAIN LeaveDummies(q, left)[s] :
              LeaveDummies(q, left)[s][id] \in Payload(s) \union {Dummy}
<1> DEFINE r == LeaveDummies(q, left)
<1>1. Dummy \in Message
  BY DEF Message
<1>2. ASSUME NEW s \in Streams
      PROVE  /\ r[s] \in Seq(Message)
             /\ Extends(q[s], r[s])
             /\ \A id \in DOMAIN r[s] : r[s][id] \in Payload(s) \union {Dummy}
  <2>1. q[s] \in Seq(Message)
    OBVIOUS
  <2>2. CASE s \in left
    <3>1. r[s] = Append(q[s], Dummy)
      BY <2>2 DEF LeaveDummies
    <3>2. \A i \in DOMAIN Append(q[s], Dummy) :
            \/ i \in DOMAIN q[s] /\ Append(q[s], Dummy)[i] = q[s][i]
            \/ Append(q[s], Dummy)[i] = Dummy
      BY <1>1, <2>1
    <3>3. \A id \in DOMAIN r[s] : r[s][id] \in Payload(s) \union {Dummy}
      BY <3>1, <3>2
    <3> QED
      BY <1>1, <2>1, <3>1, <3>3, AppendExtends
  <2>3. CASE s \notin left
    <3>1. r[s] = q[s]
      BY <2>3 DEF LeaveDummies
    <3> QED
      BY <2>1, <3>1, ExtendsItself
  <2> QED
    BY <2>2, <2>3
<1>3. r \in [Streams -> Seq(Message)]
  <2>1. r = [s \in Streams |-> r[s]]
    BY DEF LeaveDummies
  <2> QED
    BY <1>2, <2>1
<1> QED
  BY <1>2, <1>3

LEMMA StartAdds ==
  ASSUME EntriesOK, EnsureStreamsExist
  PROVE  EntriesOK' /\ \A t \in Streams : Extends(entries[t], entries'[t])
<1>1. PICK left, again : entries' = LeaveDummies(LeaveDummies(entries, left), again)
  BY DEF EnsureStreamsExist
<1> DEFINE middle == LeaveDummies(entries, left)
<1>2. /\ middle \in [Streams -> Seq(Message)]
      /\ \A s \in Streams : Extends(entries[s], middle[s])
      /\ \A s \in Streams : \A id \in DOMAIN middle[s] : middle[s][id] \in Payload(s) \union {Dummy}
  BY DummiesAdd DEF EntriesOK
<1> HIDE DEF middle
<1>3. /\ entries' \in [Streams -> Seq(Message)]
      /\ \A s \in Streams : Extends(middle[s], entries'[s])
      /\ \A s \in Streams : \A id \in DOMAIN entries'[s] : entries'[s][id] \in Payload(s) \union {Dummy}
  BY <1>1, <1>2, DummiesAdd DEF middle
<1>4. \A t \in Streams : Extends(entries[t], entries'[t])
  BY <1>2, <1>3, ExtendsTransitive DEF EntriesOK
<1> QED
  BY <1>3, <1>4 DEF EntriesOK

-----------------------------------------------------------------------------
(* Done stays done.                                                        *)

LEMMA MessageStays ==
  ASSUME EntriesOK, Grows, NEW s \in Streams, NEW id \in DOMAIN entries[s]
  PROVE  entries'[s][id] = entries[s][id]
<1>1. id \in 1..Len(entries[s])
  BY DEF EntriesOK
<1> QED
  BY <1>1 DEF Grows, Extends

LEMMA ItemDoneStays ==
  ASSUME EntriesOK, EntriesOK', Grows, NEW item, ItemDone(item)
  PROVE  ItemDone(item)'
<1>1. "ItemRetryTask" \in Streams
  BY DEF Streams
<1>2. ToSet(entries["ItemRetryTask"]) \subseteq ToSet(entries'["ItemRetryTask"])
  BY <1>1, ExtendsHasMore DEF EntriesOK, Grows
<1> QED
  BY <1>2 DEF ItemDone, Grows

LEMMA DoneStays ==
  ASSUME EntriesOK, EntriesOK', Grows,
         NEW s \in Streams, NEW id \in DOMAIN entries[s], Done(s, id)
  PROVE  Done(s, id)'
<1>1. "CatalogPageTask" \in Streams
  BY DEF Streams
<1>2. ToSet(entries["CatalogPageTask"]) \subseteq ToSet(entries'["CatalogPageTask"])
  BY <1>1, ExtendsHasMore DEF EntriesOK, Grows
<1>3. entries'[s][id] = entries[s][id]
  BY MessageStays
<1> QED
  BY <1>2, <1>3, ItemDoneStays DEF Done, Grows

\* What holds of a consumer goes on holding while it does nothing.
LEMMA HandStays ==
  ASSUME IInv, EntriesOK', Grows, NEW c \in Consumer, hand'[c] = hand[c]
  PROVE  HandInv(c)'
<1>1. HandInv(c)
  BY HandsAre DEF IInv, WorkersInv
<1>2. EntriesOK
  BY TypeHasEntries DEF IInv
<1> SUFFICES ASSUME hand[c].step # "idle" PROVE HandInv(c)'
  BY DEF HandInv
<1>3. StreamOf(c) \in Streams /\ hand[c].id \in DOMAIN entries[StreamOf(c)]
  BY ConsumersAre, HeldMessage
<1>4. entries'[StreamOf(c)][hand[c].id] = entries[StreamOf(c)][hand[c].id]
  BY <1>2, <1>3, MessageStays
<1>5. MessageOf(c)' = MessageOf(c)
  BY <1>4 DEF MessageOf
<1>6. hand[c].id \in 1..delivered'[StreamOf(c)]
  <2>1. hand[c].id \in 1..delivered[StreamOf(c)]
    BY HeldMessage
  <2>2. delivered'[StreamOf(c)] \in Nat /\ delivered[StreamOf(c)] <= delivered'[StreamOf(c)]
    BY <1>3 DEF Grows
  <2> QED
    BY <1>3, <2>1, <2>2 DEF IInv, TypeOK
<1>7. hand[c].step = "ack" => Done(StreamOf(c), hand[c].id)'
  BY <1>1, <1>2, <1>3, DoneStays DEF HandInv
<1>8. hand[c].step = "handle" /\ StreamOf(c) = "CatalogPageTask" /\ MessageOf(c) # Dummy =>
        \A item \in ToSet(PageItems[MessageOf(c)]) :
          ItemDone(item)' \/ item \in ToSet(hand[c].rest)
  BY <1>1, <1>2, ItemDoneStays DEF HandInv
<1> QED
  BY <1>5, <1>6, <1>7, <1>8 DEF HandInv

\* What was acknowledged is still done; nothing new was acknowledged.
LEMMA AckedStays ==
  ASSUME IInv, EntriesOK', Grows, \A s \in Streams : Acked(s)' \subseteq Acked(s)
  PROVE  AckedIsDone'
<1>1. EntriesOK
  BY TypeHasEntries DEF IInv
<1> SUFFICES ASSUME NEW s \in Streams, NEW id \in Acked(s) PROVE Done(s, id)'
  BY DEF AckedIsDone
<1>2. Done(s, id)
  BY DEF IInv, WorkersInv, AckedIsDone
<1>3. id \in 1..delivered[s] /\ delivered[s] \in Nat /\ delivered[s] <= Len(entries[s])
  BY DEF Acked, IInv, TypeOK
<1>4. id \in DOMAIN entries[s]
  BY <1>1, <1>3 DEF EntriesOK
<1> QED
  BY <1>1, <1>2, <1>4, DoneStays

\* The steps that acknowledge nothing and in which at most c acts.
LEMMA StepOf ==
  ASSUME IInv, TypeOK', Grows, NEW c \in Consumer,
         \A d \in Consumer \ {c} : hand'[d] = hand[d],
         HandInv(c)',
         \A s \in Streams : Acked(s)' \subseteq Acked(s)
  PROVE  IInv'
<1>1. EntriesOK'
  BY TypeHasEntries DEF TypeOK, EntriesOK, Message
<1>2. \A d \in Consumer : HandInv(d)'
  BY <1>1, HandStays
<1>3. HandsInv'
  BY <1>2, HandsAre DEF HandsInv, HandInv
<1>4. AckedIsDone'
  BY <1>1, AckedStays
<1> QED
  BY <1>3, <1>4 DEF IInv, WorkersInv

-----------------------------------------------------------------------------
(* Pieces of actions.                                                      *)

LEMMA FaultBounded == ASSUME BoundsOK, Fault PROVE BoundsOK'
BY WorkersAssumption DEF WorkersAssumption, BoundsOK, Fault

LEMMA BoundsSame == ASSUME BoundsOK, UNCHANGED bounds PROVE BoundsOK'
BY DEF BoundsOK, bounds

LEMMA EntriesSame ==
  ASSUME EntriesOK, entries' = entries
  PROVE  EntriesOK' /\ \A t \in Streams : Extends(entries[t], entries'[t])
BY ExtendsItself DEF EntriesOK

LEMMA DeliveredSame ==
  ASSUME GroupOK, delivered' = delivered
  PROVE  \A s \in Streams : delivered'[s] \in Nat /\ delivered[s] <= delivered'[s]
BY DEF GroupOK

LEMMA GroupSame ==
  ASSUME EntriesOK, EntriesOK', GroupOK, UNCHANGED <<delivered, pending, idle>>,
         \A t \in Streams : Extends(entries[t], entries'[t])
  PROVE  GroupOK' /\ \A s \in Streams : Acked(s)' \subseteq Acked(s)
<1>1. ASSUME NEW s \in Streams PROVE delivered[s] <= Len(entries'[s])
  <2>1. Len(entries'[s]) \in Nat /\ Len(entries[s]) \in Nat /\ Len(entries[s]) <= Len(entries'[s])
    BY DEF EntriesOK, Extends
  <2> QED
    BY <2>1 DEF GroupOK
<1> QED
  BY <1>1 DEF GroupOK, Acked

LEMMA HandlingType ==
  ASSUME EntriesOK, NEW s \in Streams, NEW id \in DOMAIN entries[s]
  PROVE  Handling(s, id) \in Hand
<1>1. id \in Nat
  BY DEF EntriesOK
<1>2. s = "CatalogPageTask" /\ entries[s][id] # Dummy => PageItems[entries[s][id]] \in Seq(Items)
  BY PayloadsAre, WorkersAssumption DEF WorkersAssumption, EntriesOK
<1>3. << >> \in Seq(Items)
  OBVIOUS
<1> QED
  BY <1>1, <1>2, <1>3 DEF Handling, Hand

LEMMA HandlingInv ==
  ASSUME NEW c \in Consumer, NEW id, hand'[c] = Handling(StreamOf(c), id), entries' = entries,
         id \in 1..delivered'[StreamOf(c)]
  PROVE  HandInv(c)'
BY DEF HandInv, Handling, MessageOf

LEMMA NothingType == Nothing \in Hand
BY DEF Nothing, Hand

LEMMA NothingInv == ASSUME NEW c \in Consumer, hand'[c] = Nothing PROVE HandInv(c)'
BY DEF HandInv, Nothing

LEMMA LetGoStep ==
  ASSUME hand \in [Consumer -> Hand], NEW c \in Consumer, LetGo(c)
  PROVE  /\ hand' \in [Consumer -> Hand]
         /\ \A d \in Consumer \ {c} : hand'[d] = hand[d]
         /\ HandInv(c)'
BY NothingType, NothingInv DEF LetGo

LEMMA AboutToAckStep ==
  ASSUME hand \in [Consumer -> Hand], NEW c \in Consumer, AboutToAck(c)
  PROVE  /\ hand' \in [Consumer -> Hand]
         /\ \A d \in Consumer \ {c} : hand'[d] = hand[d]
         /\ hand'[c].step = "ack" /\ hand'[c].id = hand[c].id
BY DEF AboutToAck, Hand

\* Who goes on to the acknowledgement must have done the work.
LEMMA AboutToAckInv ==
  ASSUME IInv, EntriesOK', Grows, NEW c \in Consumer, hand[c].step = "handle", AboutToAck(c),
         Done(StreamOf(c), hand[c].id)'
  PROVE  HandInv(c)'
<1>1. hand \in [Consumer -> Hand]
  BY TypeParts DEF IInv
<1>2. hand'[c].step = "ack" /\ hand'[c].id = hand[c].id
  BY <1>1, AboutToAckStep
<1>3. hand[c].id \in 1..delivered[StreamOf(c)] /\ StreamOf(c) \in Streams
  BY HeldMessage, ConsumersAre
<1>4. hand[c].id \in 1..delivered'[StreamOf(c)]
  BY <1>3 DEF Grows, IInv, TypeOK
<1> QED
  BY <1>2, <1>4 DEF HandInv

-----------------------------------------------------------------------------
(* The actions.                                                            *)

LEMMA InitInv == Init => IInv
<1> SUFFICES ASSUME Init PROVE IInv
  OBVIOUS
<1>1. entries \in [Streams -> Seq(Message)] /\ \A s \in Streams : entries[s] = << >>
  BY DEF Init
<1>2. EntriesOK
  BY <1>1 DEF EntriesOK
<1>3. GroupOK
  BY <1>1 DEF Init, GroupOK
<1>4. OutcomeOK
  BY DEF Init, OutcomeOK
<1>5. BoundsOK
  BY WorkersAssumption DEF WorkersAssumption, Init, BoundsOK
<1>6. hand \in [Consumer -> Hand]
  BY NothingType DEF Init
<1>7. HandsInv
  BY DEF Init, HandsInv, Nothing
<1>8. AckedIsDone
  BY DEF Init, AckedIsDone, Acked
<1> QED
  BY <1>2, <1>3, <1>4, <1>5, <1>6, <1>7, <1>8, TypeParts DEF IInv, WorkersInv

LEMMA EnsureStreamsExistInv == ASSUME IInv, EnsureStreamsExist PROVE IInv' /\ Grows
<1>1. EntriesOK /\ GroupOK /\ OutcomeOK /\ hand \in [Consumer -> Hand] /\ BoundsOK
  BY TypeParts DEF IInv
<1>2. EntriesOK' /\ \A t \in Streams : Extends(entries[t], entries'[t])
  BY <1>1, StartAdds
<1>3. UNCHANGED <<delivered, pending, idle, saved, dropped, lost, hand, bounds>> /\ running' = TRUE
  BY DEF EnsureStreamsExist
<1>4. GroupOK' /\ \A s \in Streams : Acked(s)' \subseteq Acked(s)
  BY <1>1, <1>2, <1>3, GroupSame
<1>5. Grows
  BY <1>1, <1>2, <1>3, DeliveredSame DEF Grows
<1>6. OutcomeOK'
  BY <1>1, <1>3 DEF OutcomeOK
<1>7. BoundsOK'
  BY <1>1, <1>3, BoundsSame
<1>8. TypeOK'
  BY <1>1, <1>2, <1>3, <1>4, <1>6, <1>7, TypeParts DEF TypeOK, EntriesOK, GroupOK, OutcomeOK, Hand, BoundsOK, Message
<1>9. HandsInv'
  <2>1. \A c \in Consumer : HandInv(c)'
    BY <1>2, <1>3, <1>5, HandStays
  <2> QED
    BY <2>1 DEF HandsInv, HandInv
<1>10. AckedIsDone'
  BY <1>2, <1>4, <1>5, AckedStays
<1> QED
  BY <1>5, <1>8, <1>9, <1>10 DEF IInv, WorkersInv

LEMMA GetTaskInv == ASSUME IInv, NEW c \in Consumer, GetTask(c) PROVE IInv' /\ Grows
<1> DEFINE s == StreamOf(c)
           id == delivered[s] + 1
<1>1. EntriesOK /\ GroupOK /\ OutcomeOK /\ hand \in [Consumer -> Hand] /\ BoundsOK
  BY TypeParts DEF IInv
<1>2. s \in Streams
  BY ConsumersAre
<1>3. /\ delivered' = [delivered EXCEPT ![s] = id]
      /\ pending' = [pending EXCEPT ![s] = @ \union {id}]
      /\ id <= Len(entries[s])
      /\ UNCHANGED <<entries, idle, saved, dropped, lost, running>>
  BY DEF GetTask
<1>4. id \in Nat /\ id \in DOMAIN entries[s]
  BY <1>1, <1>2, <1>3 DEF EntriesOK, GroupOK
<1> HIDE DEF s, id
<1>5. EntriesOK' /\ \A t \in Streams : Extends(entries[t], entries'[t])
  BY <1>1, <1>3, EntriesSame
<1>6. GroupOK'
  <2>1. delivered' \in [Streams -> Nat] /\ pending' \in [Streams -> SUBSET Nat]
    BY <1>1, <1>2, <1>3, <1>4 DEF GroupOK
  <2>2. \A t \in Streams : delivered'[t] <= Len(entries'[t])
    BY <1>1, <1>2, <1>3, <1>4 DEF GroupOK
  <2>3. \A t \in Streams : pending'[t] \subseteq 1..delivered'[t]
    BY <1>1, <1>2, <1>3, <1>4 DEF GroupOK, id
  <2>4. \A t \in Streams : idle'[t] \subseteq pending'[t]
    BY <1>1, <1>2, <1>3 DEF GroupOK
  <2> QED
    BY <1>1, <1>3, <2>1, <2>2, <2>3, <2>4 DEF GroupOK
<1>7. \A t \in Streams : Acked(t)' \subseteq Acked(t)
  <2> SUFFICES ASSUME NEW t \in Streams PROVE Acked(t)' \subseteq Acked(t)
    OBVIOUS
  <2>1. CASE t = s
    <3>1. delivered'[t] = id /\ pending'[t] = pending[t] \union {id}
      BY <1>1, <1>2, <1>3, <2>1 DEF GroupOK
    <3> QED
      BY <1>1, <2>1, <3>1 DEF Acked, GroupOK, id
  <2>2. CASE t # s
    BY <1>1, <1>3, <2>2 DEF Acked, GroupOK
  <2> QED
    BY <2>1, <2>2
<1>8. Grows
  <2>1. \A t \in Streams : delivered'[t] \in Nat /\ delivered[t] <= delivered'[t]
    BY <1>1, <1>2, <1>3, <1>4 DEF GroupOK, id
  <2> QED
    BY <1>3, <1>5, <2>1 DEF Grows
<1>9. OutcomeOK'
  BY <1>1, <1>3 DEF OutcomeOK
<1>10. /\ hand' \in [Consumer -> Hand] /\ BoundsOK'
       /\ \A d \in Consumer \ {c} : hand'[d] = hand[d]
       /\ HandInv(c)'
  <2>1. CASE hand' = [hand EXCEPT ![c] = Handling(s, id)] /\ UNCHANGED bounds
    <3>1. Handling(s, id) \in Hand
      BY <1>1, <1>2, <1>4, HandlingType
    <3>2. id \in 1..delivered'[s]
      BY <1>1, <1>2, <1>3, <1>4 DEF GroupOK, id
    <3>3. hand'[c] = Handling(s, id)
      BY <1>1, <2>1
    <3>4. HandInv(c)'
      BY <1>3, <3>2, <3>3, HandlingInv DEF s
    <3> QED
      BY <1>1, <2>1, <3>1, <3>4, BoundsSame
  <2>2. CASE Fault /\ UNCHANGED hand
    BY <1>1, <1>5, <1>8, <2>2, HandStays, FaultBounded
  <2> QED
    BY <2>1, <2>2 DEF GetTask, s, id
<1>11. TypeOK'
  BY <1>5, <1>6, <1>9, <1>10 DEF TypeOK, EntriesOK, GroupOK, OutcomeOK, Hand, BoundsOK, Message
<1> QED
  BY <1>7, <1>8, <1>10, <1>11, StepOf

\* The steps that leave the consumer group alone.
LEMMA GrowsStep ==
  ASSUME IInv, \A t \in Streams : Extends(entries[t], entries'[t]), delivered' = delivered,
         saved \subseteq saved', dropped \subseteq dropped', lost \subseteq lost'
  PROVE  Grows
BY TypeParts, DeliveredSame DEF IInv, Grows

LEMMA WorkStep ==
  ASSUME IInv, EntriesOK', Grows, UNCHANGED <<delivered, pending, idle>>, OutcomeOK', BoundsOK',
         hand' \in [Consumer -> Hand], NEW c \in Consumer,
         \A d \in Consumer \ {c} : hand'[d] = hand[d], HandInv(c)'
  PROVE  IInv'
<1>1. EntriesOK /\ GroupOK
  BY TypeParts DEF IInv
<1>2. GroupOK' /\ \A s \in Streams : Acked(s)' \subseteq Acked(s)
  BY <1>1, GroupSame DEF Grows
<1>3. TypeOK'
  BY <1>2 DEF TypeOK, EntriesOK, GroupOK, OutcomeOK, Hand, BoundsOK, Message
<1> QED
  BY <1>2, <1>3, StepOf

LEMMA CrawlAddsInv == ASSUME IInv, NEW p \in Pages, CrawlAdds(p) PROVE IInv' /\ Grows
<1>1. EntriesOK /\ GroupOK /\ OutcomeOK /\ hand \in [Consumer -> Hand] /\ BoundsOK
  BY TypeParts DEF IInv
<1>2. UNCHANGED <<delivered, pending, idle, saved, dropped, lost, running, hand, faults, slow>>
  BY DEF CrawlAdds
<1>3. EntriesOK' /\ \A t \in Streams : Extends(entries[t], entries'[t])
  <2>1. "CatalogPageTask" \in Streams /\ "PageRetryTask" \in Streams
    BY DEF Streams
  <2> QED
    BY <1>1, <2>1, PayloadsAre, AddTaskAdds DEF CrawlAdds
<1>4. Grows
  BY <1>2, <1>3, GrowsStep
<1>5. OutcomeOK'
  BY <1>1, <1>2 DEF OutcomeOK
<1>6. BoundsOK'
  BY <1>1, <1>2, WorkersAssumption DEF WorkersAssumption, BoundsOK, CrawlAdds
<1>7. PICK s \in Streams : TRUE
  BY DEF Streams
<1>8. Claimer(s) \in Consumer
  BY ClaimerIs
<1>9. HandInv(Claimer(s))'
  BY <1>2, <1>3, <1>4, <1>8, HandStays
<1> QED
  BY <1>1, <1>2, <1>3, <1>4, <1>5, <1>6, <1>8, <1>9, WorkStep

LEMMA RejectDummyInv == ASSUME IInv, NEW c \in Consumer, RejectDummy(c) PROVE IInv' /\ Grows
<1>1. EntriesOK /\ GroupOK /\ OutcomeOK /\ hand \in [Consumer -> Hand] /\ BoundsOK
  BY TypeParts DEF IInv
<1>2. UNCHANGED <<redis, saved, dropped, lost, running, bounds>> /\ LetGo(c)
  BY DEF RejectDummy
<1>3. EntriesOK' /\ \A t \in Streams : Extends(entries[t], entries'[t])
  BY <1>1, <1>2, EntriesSame DEF redis
<1>4. Grows
  BY <1>2, <1>3, GrowsStep DEF redis
<1>5. OutcomeOK' /\ BoundsOK'
  BY <1>1, <1>2, BoundsSame DEF OutcomeOK
<1> QED
  BY <1>1, <1>2, <1>3, <1>4, <1>5, LetGoStep, WorkStep DEF redis

\* The item that is passed over is saved, in the retry queue or given up.
LEMMA ParsePageItemInv == ASSUME IInv, NEW c \in Consumer, ParsePageItem(c) PROVE IInv' /\ Grows
<1>0. PICK item : item = Head(hand[c].rest)
  OBVIOUS
<1>1. EntriesOK /\ GroupOK /\ OutcomeOK /\ hand \in [Consumer -> Hand] /\ BoundsOK
  BY TypeParts DEF IInv
<1>2. /\ hand[c].step = "handle" /\ hand[c].rest # << >>
      /\ hand' = [hand EXCEPT ![c].rest = Tail(@)]
      /\ UNCHANGED <<delivered, pending, idle, dropped, running>>
      /\ \/ saved' = saved \union {item} /\ UNCHANGED <<entries, lost, bounds>>
         \/ AddTask("ItemRetryTask", item) /\ UNCHANGED <<saved, lost, bounds>>
         \/ AddTaskFails("ItemRetryTask", item) /\ lost' = lost \union {item} /\ UNCHANGED saved
  BY <1>0 DEF ParsePageItem
<1>3. hand[c].rest \in Seq(Items)
  BY <1>1 DEF Hand
<1>4. /\ item \in Items
      /\ Tail(hand[c].rest) \in Seq(Items)
      /\ \A x \in ToSet(hand[c].rest) : x = item \/ x \in ToSet(Tail(hand[c].rest))
  BY <1>0, <1>2, <1>3, HeadOrTail
<1>5. "ItemRetryTask" \in Streams /\ item \in Payload("ItemRetryTask") \union {Dummy}
  BY <1>4, PayloadsAre DEF Streams
<1>6. EntriesOK' /\ \A t \in Streams : Extends(entries[t], entries'[t])
  BY <1>1, <1>2, <1>5, AddTaskAdds, EntriesSame DEF AddTaskFails
<1>7. Grows
  BY <1>2, <1>6, GrowsStep
<1>8. OutcomeOK'
  BY <1>1, <1>2, <1>4 DEF OutcomeOK
<1>9. BoundsOK'
  BY <1>1, <1>2, FaultBounded, BoundsSame DEF AddTaskFails
<1>10. ItemDone(item)'
  <2>1. AddTask("ItemRetryTask", item) => item \in ToSet(entries'["ItemRetryTask"])
    BY <1>1, <1>5, AddTaskAdds
  <2>2. item \in saved' \/ item \in lost' \/ item \in ToSet(entries'["ItemRetryTask"])
    BY <1>2, <2>1
  <2> QED
    BY <2>2 DEF ItemDone
<1>11. /\ hand'[c].step = "handle"
       /\ hand'[c].id = hand[c].id
       /\ hand'[c].rest = Tail(hand[c].rest)
  BY <1>1, <1>2 DEF Hand
<1>12. hand' \in [Consumer -> Hand] /\ \A d \in Consumer \ {c} : hand'[d] = hand[d]
  BY <1>1, <1>2, <1>4 DEF Hand
<1>13. HandInv(c)'
  <2>1. /\ hand[c].id \in 1..delivered[StreamOf(c)]
        /\ hand[c].id \in DOMAIN entries[StreamOf(c)]
        /\ StreamOf(c) \in Streams
    BY <1>2, HeldMessage, ConsumersAre
  <2>2. MessageOf(c)' = MessageOf(c)
    BY <1>1, <1>7, <1>11, <2>1, MessageStays DEF MessageOf
  <2>3. ASSUME StreamOf(c) = "CatalogPageTask", MessageOf(c) # Dummy,
               NEW x \in ToSet(PageItems[MessageOf(c)])
        PROVE  ItemDone(x)' \/ x \in ToSet(Tail(hand[c].rest))
    <3>1. ItemDone(x) \/ x \in ToSet(hand[c].rest)
      BY <1>2, <2>3, HandsAre DEF IInv, WorkersInv, HandInv
    <3>2. ItemDone(x) => ItemDone(x)'
      BY <1>1, <1>6, <1>7, ItemDoneStays
    <3>3. x = item => ItemDone(x)'
      BY <1>10 DEF ItemDone
    <3> QED
      BY <1>4, <3>1, <3>2, <3>3
  <2> QED
    BY <1>2, <1>11, <2>1, <2>2, <2>3 DEF HandInv
<1> QED
  BY <1>2, <1>6, <1>7, <1>8, <1>9, <1>12, <1>13, WorkStep

\* At the end of a page no item is left.
LEMMA FinishPageInv == ASSUME IInv, NEW c \in Consumer, FinishPage(c) PROVE IInv' /\ Grows
<1>1. EntriesOK /\ GroupOK /\ OutcomeOK /\ hand \in [Consumer -> Hand] /\ BoundsOK
  BY TypeParts DEF IInv
<1>2. /\ hand[c].step = "handle" /\ hand[c].rest = << >>
      /\ StreamOf(c) = "CatalogPageTask" /\ MessageOf(c) # Dummy
      /\ AboutToAck(c)
      /\ UNCHANGED <<redis, saved, dropped, lost, running, bounds>>
  BY DEF FinishPage
<1>3. EntriesOK' /\ \A t \in Streams : Extends(entries[t], entries'[t])
  BY <1>1, <1>2, EntriesSame DEF redis
<1>4. Grows
  BY <1>2, <1>3, GrowsStep DEF redis
<1>5. OutcomeOK' /\ BoundsOK'
  BY <1>1, <1>2, BoundsSame DEF OutcomeOK
<1>6. Done(StreamOf(c), hand[c].id)
  <2>1. \A item \in ToSet(PageItems[MessageOf(c)]) : ItemDone(item) \/ item \in ToSet(<< >>)
    BY <1>2, HandsAre DEF IInv, WorkersInv, HandInv
  <2>2. ToSet(<< >>) = {}
    BY DEF ToSet
  <2> QED
    BY <1>2, <2>1, <2>2 DEF Done, MessageOf
<1>7. Done(StreamOf(c), hand[c].id)'
  BY <1>2, <1>6 DEF redis, Done, ItemDone, AboutToAck, StreamOf
<1> QED
  BY <1>1, <1>2, <1>3, <1>4, <1>5, <1>7, AboutToAckStep, AboutToAckInv, WorkStep DEF redis

\* A page to retry is dropped, a page task again, or not acknowledged.
LEMMA RetryPageInv == ASSUME IInv, NEW c \in Consumer, RetryPage(c) PROVE IInv' /\ Grows
<1> DEFINE p == MessageOf(c)
<1>1. EntriesOK /\ GroupOK /\ OutcomeOK /\ hand \in [Consumer -> Hand] /\ BoundsOK
  BY TypeParts DEF IInv
<1>2. /\ hand[c].step = "handle" /\ StreamOf(c) = "PageRetryTask" /\ p # Dummy
      /\ UNCHANGED <<delivered, pending, idle, saved, lost, running>>
      /\ \/ dropped' = dropped \union {p} /\ AboutToAck(c) /\ UNCHANGED <<entries, bounds>>
         \/ AddTask("CatalogPageTask", p) /\ AboutToAck(c) /\ UNCHANGED <<dropped, bounds>>
         \/ AddTaskFails("CatalogPageTask", p) /\ LetGo(c) /\ UNCHANGED dropped
  BY DEF RetryPage
<1>3. /\ hand[c].id \in DOMAIN entries[StreamOf(c)]
      /\ p \in Pages
      /\ StreamOf(c) \in Streams
  BY <1>2, HeldMessage, PayloadsAre, ConsumersAre
<1>4. entries[StreamOf(c)][hand[c].id] = p
  BY DEF MessageOf
<1> HIDE DEF p
<1>5. "CatalogPageTask" \in Streams /\ p \in Payload("CatalogPageTask") \union {Dummy}
  BY <1>3, PayloadsAre DEF Streams
<1>6. EntriesOK' /\ \A t \in Streams : Extends(entries[t], entries'[t])
  BY <1>1, <1>2, <1>5, AddTaskAdds, EntriesSame DEF AddTaskFails
<1>7. Grows
  BY <1>2, <1>6, GrowsStep
<1>8. OutcomeOK'
  BY <1>1, <1>2, <1>3 DEF OutcomeOK
<1>9. BoundsOK'
  BY <1>1, <1>2, FaultBounded, BoundsSame DEF AddTaskFails
<1>10. entries'[StreamOf(c)][hand[c].id] = p
  BY <1>1, <1>3, <1>4, <1>7, MessageStays
<1>11. CASE AboutToAck(c)
  <2>1. \/ p \in dropped'
        \/ p \in ToSet(entries'["CatalogPageTask"])
        \/ LetGo(c)
    BY <1>1, <1>2, <1>5, AddTaskAdds
  <2>2. ~LetGo(c)
    <3>1. hand'[c].step = "ack"
      BY <1>1, <1>11, AboutToAckStep
    <3>2. LetGo(c) => hand'[c].step = "idle"
      BY <1>1 DEF LetGo, Nothing
    <3> QED
      BY <3>1, <3>2
  <2>3. /\ p # Dummy
        /\ StreamOf(c) = "PageRetryTask"
        /\ p \in dropped' \union ToSet(entries'["CatalogPageTask"])
    BY <1>2, <2>1, <2>2
  <2>4. hand'[c].id = hand[c].id
    BY <1>1, <1>11, AboutToAckStep
  <2>5. HandInv(c)'
    <3>1. hand[c].id \in 1..delivered'[StreamOf(c)]
      BY <1>2, HeldMessage
    <3>2. hand'[c].step = "ack"
      BY <1>1, <1>11, AboutToAckStep
    <3> QED
      BY <1>10, <2>3, <2>4, <3>1, <3>2 DEF HandInv, Done
  <2> QED
    BY <1>1, <1>2, <1>6, <1>7, <1>8, <1>9, <1>11, <2>5, AboutToAckStep, WorkStep
<1>12. CASE LetGo(c)
  BY <1>1, <1>2, <1>6, <1>7, <1>8, <1>9, <1>12, LetGoStep, WorkStep
<1> QED
  BY <1>2, <1>11, <1>12

\* An item to retry is saved or dropped.
LEMMA RetryItemInv == ASSUME IInv, NEW c \in Consumer, RetryItem(c) PROVE IInv' /\ Grows
<1> DEFINE item == MessageOf(c)
<1>1. EntriesOK /\ GroupOK /\ OutcomeOK /\ hand \in [Consumer -> Hand] /\ BoundsOK
  BY TypeParts DEF IInv
<1>2. /\ hand[c].step = "handle" /\ StreamOf(c) = "ItemRetryTask" /\ item # Dummy
      /\ AboutToAck(c)
      /\ UNCHANGED <<redis, lost, running, bounds>>
      /\ \/ saved' = saved \union {item} /\ UNCHANGED dropped
         \/ dropped' = dropped \union {item} /\ UNCHANGED saved
  BY DEF RetryItem
<1>3. item \in Items
  BY <1>2, HeldMessage, PayloadsAre
<1>4. entries'[StreamOf(c)][hand[c].id] = item
  BY <1>2 DEF MessageOf, redis
<1> HIDE DEF item
<1>5. EntriesOK' /\ \A t \in Streams : Extends(entries[t], entries'[t])
  BY <1>1, <1>2, EntriesSame DEF redis
<1>6. Grows
  BY <1>2, <1>5, GrowsStep DEF redis
<1>7. OutcomeOK'
  BY <1>1, <1>2, <1>3 DEF OutcomeOK
<1>8. BoundsOK'
  BY <1>1, <1>2, BoundsSame
<1>9. hand'[c].step = "ack" /\ hand'[c].id = hand[c].id
  BY <1>1, <1>2, AboutToAckStep
<1>10. HandInv(c)'
  <2>1. hand[c].id \in 1..delivered'[StreamOf(c)]
    BY <1>2, HeldMessage DEF redis
  <2>2. item \in saved' \union dropped'
    BY <1>2
  <2> QED
    BY <1>2, <1>4, <1>9, <2>1, <2>2 DEF HandInv, Done
<1> QED
  BY <1>1, <1>2, <1>5, <1>6, <1>7, <1>8, <1>10, AboutToAckStep, WorkStep DEF redis

\* The acknowledgement crosses off a message whose work its consumer has done.
LEMMA AckTaskInv == ASSUME IInv, NEW c \in Consumer, AckTask(c) PROVE IInv' /\ Grows
<1>0. PICK s, id : s = StreamOf(c) /\ id = hand[c].id
  OBVIOUS
<1>1. EntriesOK /\ GroupOK /\ OutcomeOK /\ hand \in [Consumer -> Hand] /\ BoundsOK
  BY TypeParts DEF IInv
<1>2. /\ hand[c].step = "ack" /\ LetGo(c)
      /\ UNCHANGED <<entries, delivered, saved, dropped, lost, running>>
      /\ \/ /\ pending' = [pending EXCEPT ![s] = @ \ {id}]
            /\ idle' = [idle EXCEPT ![s] = @ \ {id}]
            /\ UNCHANGED bounds
         \/ Fault /\ UNCHANGED <<pending, idle>>
  BY <1>0 DEF AckTask
<1>3. s \in Streams /\ id \in 1..delivered[s] /\ id \in DOMAIN entries[s]
  BY <1>0, <1>2, HeldMessage, ConsumersAre
<1>4. Done(s, id)
  BY <1>0, <1>2, HandsAre DEF IInv, WorkersInv, HandInv
<1>5. EntriesOK' /\ \A t \in Streams : Extends(entries[t], entries'[t])
  BY <1>1, <1>2, EntriesSame
<1>6. Grows
  BY <1>2, <1>5, GrowsStep
<1>7. OutcomeOK' /\ BoundsOK'
  BY <1>1, <1>2, BoundsSame, FaultBounded DEF OutcomeOK
<1>8. GroupOK'
  BY <1>1, <1>2, <1>3 DEF GroupOK
<1>9. /\ hand' \in [Consumer -> Hand]
      /\ \A d \in Consumer \ {c} : hand'[d] = hand[d]
      /\ HandInv(c)'
  BY <1>1, <1>2, LetGoStep
<1>10. TypeOK'
  BY <1>5, <1>7, <1>8, <1>9 DEF TypeOK, EntriesOK, GroupOK, OutcomeOK, Hand, BoundsOK, Message
<1>11. HandsInv'
  <2>1. \A d \in Consumer : HandInv(d)'
    BY <1>5, <1>6, <1>9, HandStays
  <2> QED
    BY <2>1 DEF HandsInv, HandInv
<1>12. AckedIsDone'
  <2> SUFFICES ASSUME NEW t \in Streams, NEW n \in Acked(t)' PROVE Done(t, n)'
    BY DEF AckedIsDone
  <2>1. n \in Acked(t) \/ (t = s /\ n = id)
    BY <1>1, <1>2, <1>3 DEF Acked, GroupOK
  <2>2. n \in DOMAIN entries[t]
    BY <1>1, <1>2 DEF Acked, GroupOK, EntriesOK
  <2>3. Done(t, n)
    BY <1>4, <2>1 DEF IInv, WorkersInv, AckedIsDone
  <2> QED
    BY <1>1, <1>5, <1>6, <2>2, <2>3, DoneStays
<1> QED
  BY <1>6, <1>10, <1>11, <1>12 DEF IInv, WorkersInv

LEMMA IdleElapsesInv ==
  ASSUME IInv, NEW s \in Streams, NEW id \in pending[s], IdleElapses(s, id)
  PROVE  IInv' /\ Grows
<1>1. EntriesOK /\ GroupOK /\ OutcomeOK /\ hand \in [Consumer -> Hand] /\ BoundsOK
  BY TypeParts DEF IInv
<1>2. /\ idle' = [idle EXCEPT ![s] = @ \union {id}]
      /\ UNCHANGED <<entries, delivered, pending, saved, dropped, lost, running, hand, crawled, faults>>
      /\ \/ slow < MaxSlow /\ slow' = slow + 1
         \/ UNCHANGED slow
  BY DEF IdleElapses
<1>3. EntriesOK' /\ \A t \in Streams : Extends(entries[t], entries'[t])
  BY <1>1, <1>2, EntriesSame
<1>4. Grows
  BY <1>2, <1>3, GrowsStep
<1>5. OutcomeOK' /\ BoundsOK'
  BY <1>1, <1>2, WorkersAssumption DEF WorkersAssumption, OutcomeOK, BoundsOK
<1>6. GroupOK'
  BY <1>1, <1>2 DEF GroupOK
<1>7. \A t \in Streams : Acked(t)' \subseteq Acked(t)
  BY <1>2 DEF Acked
<1>8. TypeOK'
  BY <1>1, <1>2, <1>3, <1>5, <1>6
     DEF TypeOK, EntriesOK, GroupOK, OutcomeOK, Hand, BoundsOK, Message
<1>9. Claimer(s) \in Consumer
  BY ClaimerIs
<1>10. HandInv(Claimer(s))'
  BY <1>2, <1>3, <1>4, <1>9, HandStays
<1> QED
  BY <1>2, <1>4, <1>7, <1>8, <1>9, <1>10, StepOf

\* A claim moves a message to another consumer, which starts over.
LEMMA AutoClaimInv == ASSUME IInv, NEW s \in Streams, AutoClaim(s) PROVE IInv' /\ Grows
<1> DEFINE c == Claimer(s)
<1>1. EntriesOK /\ GroupOK /\ OutcomeOK /\ hand \in [Consumer -> Hand] /\ BoundsOK
  BY TypeParts DEF IInv
<1>2. c \in Consumer /\ StreamOf(c) = s
  BY ClaimerIs
<1>3. PICK id \in idle[s] :
        /\ idle' = [idle EXCEPT ![s] = @ \ {id}]
        /\ \/ hand' = [hand EXCEPT ![c] = Handling(s, id)] /\ UNCHANGED bounds
           \/ Fault /\ UNCHANGED hand
  BY DEF AutoClaim
<1>4. UNCHANGED <<entries, delivered, pending, saved, dropped, lost, running>>
  BY DEF AutoClaim
<1> HIDE DEF c
<1>5. id \in 1..delivered[s] /\ delivered[s] \in Nat /\ delivered[s] <= Len(entries[s])
  BY <1>1 DEF GroupOK
<1>6. id \in DOMAIN entries[s]
  BY <1>1, <1>5 DEF EntriesOK
<1>7. EntriesOK' /\ \A t \in Streams : Extends(entries[t], entries'[t])
  BY <1>1, <1>4, EntriesSame
<1>8. Grows
  BY <1>4, <1>7, GrowsStep
<1>9. OutcomeOK' /\ BoundsOK'
  BY <1>1, <1>3, <1>4, BoundsSame, FaultBounded DEF OutcomeOK
<1>10. GroupOK'
  BY <1>1, <1>3, <1>4 DEF GroupOK
<1>11. \A t \in Streams : Acked(t)' \subseteq Acked(t)
  BY <1>4 DEF Acked
<1>12. /\ hand' \in [Consumer -> Hand]
       /\ \A d \in Consumer \ {c} : hand'[d] = hand[d]
       /\ HandInv(c)'
  <2>1. CASE hand' = [hand EXCEPT ![c] = Handling(s, id)]
    <3>1. Handling(s, id) \in Hand
      BY <1>1, <1>6, HandlingType
    <3>2. hand'[c] = Handling(StreamOf(c), id)
      BY <1>1, <1>2, <2>1
    <3>3. HandInv(c)'
      BY <1>2, <1>4, <1>5, <3>2, HandlingInv
    <3> QED
      BY <1>1, <2>1, <3>1, <3>3
  <2>2. CASE UNCHANGED hand
    BY <1>1, <1>2, <1>7, <1>8, <2>2, HandStays
  <2> QED
    BY <1>3, <2>1, <2>2
<1>13. TypeOK'
  BY <1>7, <1>9, <1>10, <1>12 DEF TypeOK, EntriesOK, GroupOK, OutcomeOK, Hand, BoundsOK, Message
<1> QED
  BY <1>2, <1>8, <1>11, <1>12, <1>13, StepOf

LEMMA CrashInv == ASSUME IInv, Crash PROVE IInv' /\ Grows
<1>1. EntriesOK /\ GroupOK /\ OutcomeOK /\ hand \in [Consumer -> Hand] /\ BoundsOK
  BY TypeParts DEF IInv
<1>2. /\ Fault /\ running' = FALSE
      /\ hand' = [c \in Consumer |-> Nothing]
      /\ UNCHANGED <<redis, saved, dropped, lost>>
  BY DEF Crash
<1>3. EntriesOK' /\ \A t \in Streams : Extends(entries[t], entries'[t])
  BY <1>1, <1>2, EntriesSame DEF redis
<1>4. Grows
  BY <1>2, <1>3, GrowsStep DEF redis
<1>5. OutcomeOK' /\ BoundsOK'
  BY <1>1, <1>2, FaultBounded DEF OutcomeOK
<1>6. GroupOK' /\ \A s \in Streams : Acked(s)' \subseteq Acked(s)
  BY <1>1, <1>2, <1>3, GroupSame DEF redis
<1>7. hand' \in [Consumer -> Hand]
  BY <1>2, NothingType
<1>8. TypeOK'
  BY <1>3, <1>5, <1>6, <1>7 DEF TypeOK, EntriesOK, GroupOK, OutcomeOK, Hand, BoundsOK, Message
<1>9. HandsInv'
  BY <1>2 DEF HandsInv, Nothing
<1>10. AckedIsDone'
  BY <1>3, <1>4, <1>6, AckedStays
<1> QED
  BY <1>4, <1>8, <1>9, <1>10 DEF IInv, WorkersInv

LEMMA StutterInv == ASSUME IInv, UNCHANGED vars PROVE IInv' /\ Grows
<1>1. EntriesOK /\ GroupOK
  BY TypeParts DEF IInv
<1>2. EntriesOK' /\ \A t \in Streams : Extends(entries[t], entries'[t])
  BY <1>1, EntriesSame DEF vars, redis
<1>3. Grows
  BY <1>2, GrowsStep DEF vars, redis
<1>4. TypeOK'
  BY DEF IInv, TypeOK, vars, redis, bounds
<1>5. HandsInv'
  <2>1. \A d \in Consumer : HandInv(d)'
    BY <1>2, <1>3, HandStays DEF vars
  <2> QED
    BY <2>1 DEF HandsInv, HandInv
<1>6. AckedIsDone'
  <2>1. \A s \in Streams : Acked(s)' \subseteq Acked(s)
    BY DEF Acked, vars, redis
  <2> QED
    BY <1>2, <1>3, <2>1, AckedStays
<1> QED
  BY <1>3, <1>4, <1>5, <1>6 DEF IInv, WorkersInv

LEMMA NextInv == ASSUME IInv, [Next]_vars PROVE IInv' /\ Grows
<1>1. CASE EnsureStreamsExist
  BY <1>1, EnsureStreamsExistInv
<1>2. ASSUME NEW p \in Pages, CrawlAdds(p) PROVE IInv' /\ Grows
  BY <1>2, CrawlAddsInv
<1>3. ASSUME NEW c \in Consumer, GetTask(c) PROVE IInv' /\ Grows
  BY <1>3, GetTaskInv
<1>4. ASSUME NEW c \in Consumer, ProcessMessage(c) PROVE IInv' /\ Grows
  BY <1>4, RejectDummyInv, ParsePageItemInv, FinishPageInv, RetryPageInv, RetryItemInv, AckTaskInv
     DEF ProcessMessage
<1>5. ASSUME NEW s \in Streams, AutoClaim(s) PROVE IInv' /\ Grows
  BY <1>5, AutoClaimInv
<1>6. ASSUME NEW s \in Streams, NEW id \in pending[s], IdleElapses(s, id) PROVE IInv' /\ Grows
  BY <1>6, IdleElapsesInv
<1>7. CASE Crash
  BY <1>7, CrashInv
<1>8. CASE UNCHANGED vars
  BY <1>8, StutterInv
<1> QED
  BY <1>1, <1>2, <1>3, <1>4, <1>5, <1>6, <1>7, <1>8 DEF Next

-----------------------------------------------------------------------------
(* The theorems.                                                           *)

\* The inductive invariant of the workers, with its types.
THEOREM Invariant == Spec => []IInv
<1>1. Init => IInv
  BY InitInv
<1>2. IInv /\ [Next]_vars => IInv'
  BY NextInv
<1> QED
  BY <1>1, <1>2, PTL DEF Spec

\* Streams, consumer group, database and consumers have their types.
THEOREM TypeCorrect == Spec => []TypeOK
<1>1. IInv => TypeOK
  BY DEF IInv
<1> QED
  BY <1>1, Invariant, PTL

\* What a consumer holds was delivered, and what it is past is done; what was
\* acknowledged is done.
THEOREM WorkersInvariant == Spec => []WorkersInv
<1>1. IInv => WorkersInv
  BY DEF IInv
<1> QED
  BY <1>1, Invariant, PTL

\* A message is acknowledged only when its work is done, whoever read it, claimed it
\* or died with it, and however many consumers had it at once.
THEOREM AckedWorkIsDone == Spec => []AckedIsDone
<1>1. IInv => AckedIsDone
  BY DEF IInv, WorkersInv
<1> QED
  BY <1>1, Invariant, PTL

-----------------------------------------------------------------------------
(* What AckedWorkIsDone means for a page over all three streams.           *)

\* A message about m is not acknowledged yet: it waits in the stream, or a consumer has it.
Waits(s, m) == \E id \in DOMAIN entries[s] \ Acked(s) : entries[s][id] = m

\* A page to retry waits, was dropped, or has become a page task; a page task waits, or each
\* of its items is settled or has a retry that waits.
WorkInSight ==
  /\ \A p \in ToSet(entries["PageRetryTask"]) \ {Dummy} :
       Waits("PageRetryTask", p) \/ p \in dropped \union ToSet(entries["CatalogPageTask"])
  /\ \A p \in ToSet(entries["CatalogPageTask"]) \ {Dummy} :
       \/ Waits("CatalogPageTask", p)
       \/ \A item \in ToSet(PageItems[p]) :
            item \in saved \union dropped \union lost \/ Waits("ItemRetryTask", item)

LEMMA WaitsOrDone ==
  ASSUME AckedIsDone, NEW s \in Streams, NEW m \in ToSet(entries[s])
  PROVE  Waits(s, m) \/ \E id \in DOMAIN entries[s] : entries[s][id] = m /\ Done(s, id)
<1>1. PICK id \in DOMAIN entries[s] : entries[s][id] = m
  BY DEF ToSet
<1>2. CASE id \in Acked(s)
  BY <1>1, <1>2 DEF AckedIsDone
<1>3. CASE id \notin Acked(s)
  BY <1>1, <1>3 DEF Waits
<1> QED BY <1>2, <1>3

\* No page and no item that was ever put in a stream gets out of sight: it is settled or a
\* message about it waits, whatever failed and whoever died.  So when every message has been
\* acknowledged (QueueDrains) every item of every page task is settled (ItemsSettle).
THEOREM NothingOutOfSight == Spec => []WorkInSight
<1>1. AckedIsDone => WorkInSight
  <2> SUFFICES ASSUME AckedIsDone PROVE WorkInSight
    OBVIOUS
  <2>1. ASSUME NEW p \in ToSet(entries["PageRetryTask"]), p # Dummy
        PROVE  \/ Waits("PageRetryTask", p)
               \/ p \in dropped \union ToSet(entries["CatalogPageTask"])
    BY <2>1, WaitsOrDone DEF Done, Streams
  <2>2. ASSUME NEW p \in ToSet(entries["CatalogPageTask"]), p # Dummy
        PROVE  \/ Waits("CatalogPageTask", p)
               \/ \A item \in ToSet(PageItems[p]) :
                    item \in saved \union dropped \union lost \/ Waits("ItemRetryTask", item)
    <3>1. CASE ~Waits("CatalogPageTask", p)
      <4>1. \A item \in ToSet(PageItems[p]) : ItemDone(item)
        BY <3>1, WaitsOrDone DEF Done, Streams
      <4>2. ASSUME NEW item \in ToSet(entries["ItemRetryTask"])
            PROVE  item \in saved \union dropped \/ Waits("ItemRetryTask", item)
        BY WaitsOrDone DEF Done, Streams
      <4> QED BY <4>1, <4>2 DEF ItemDone
    <3> QED BY <3>1
  <2> QED BY <2>1, <2>2 DEF WorkInSight
<1> QED BY <1>1, AckedWorkIsDone, PTL

-----------------------------------------------------------------------------
(* The refinement.                                                         *)

\* What the ledger sees of a state.
Added == Messages \ Dummies
Finished == {m \in Messages : Done(m[1], m[2])}
Crossed == UNION {{s} \X Acked(s) : s \in Streams}

\* A message is a stream and an ID in it.
LEMMA MessagesAre ==
  ASSUME NEW m
  PROVE  m \in Messages <=> /\ m = <<m[1], m[2]>>
                            /\ m[1] \in Streams
                            /\ m[2] \in DOMAIN entries[m[1]]
BY DEF Messages

LEMMA CrossedAre ==
  ASSUME NEW m
  PROVE  m \in Crossed <=> /\ m = <<m[1], m[2]>>
                           /\ m[1] \in Streams
                           /\ m[2] \in Acked(m[1])
BY DEF Crossed

LEMMA AddedAre == \A m : m \in Added <=> m \in Messages /\ entries[m[1]][m[2]] # Dummy
BY DEF Added, Dummies

LEMMA AddedAreTasks == ASSUME EntriesOK PROVE Added \subseteq Streams \X Nat
<1> SUFFICES ASSUME NEW m \in Added PROVE m \in Streams \X Nat
  OBVIOUS
<1>1. m = <<m[1], m[2]>> /\ m[1] \in Streams /\ m[2] \in DOMAIN entries[m[1]]
  BY AddedAre, MessagesAre
<1>2. m[2] \in Nat
  BY <1>1 DEF EntriesOK
<1> QED
  BY <1>1, <1>2

LEMMA FinishedAreAdded == Finished \subseteq Added
BY AddedAre DEF Finished, Done

\* What is acknowledged was added and is finished.
LEMMA CrossedAreFinished == IInv => Crossed \subseteq Finished
<1> SUFFICES ASSUME IInv, NEW m \in Crossed PROVE m \in Finished
  OBVIOUS
<1>1. m = <<m[1], m[2]>> /\ m[1] \in Streams /\ m[2] \in Acked(m[1])
  BY CrossedAre
<1>2. EntriesOK /\ GroupOK
  BY TypeParts DEF IInv
<1>3. m[2] \in DOMAIN entries[m[1]]
  BY <1>1, <1>2 DEF Acked, GroupOK, EntriesOK
<1>4. Done(m[1], m[2])
  BY <1>1 DEF IInv, WorkersInv, AckedIsDone
<1> QED
  BY <1>1, <1>3, <1>4, MessagesAre DEF Finished

\* Tasks that are added stay added, and finished ones finished.
LEMMA LedgerGrows ==
  ASSUME IInv, EntriesOK', Grows
  PROVE  Added \subseteq Added' /\ Finished \subseteq Finished'
<1>1. EntriesOK
  BY TypeParts DEF IInv
<1>2. ASSUME NEW m \in Messages
      PROVE  /\ m = <<m[1], m[2]>> /\ m[1] \in Streams
             /\ m[2] \in DOMAIN entries[m[1]]
             /\ m[2] \in DOMAIN entries'[m[1]]
             /\ entries'[m[1]][m[2]] = entries[m[1]][m[2]]
  <2>1. m = <<m[1], m[2]>> /\ m[1] \in Streams /\ m[2] \in DOMAIN entries[m[1]]
    BY MessagesAre
  <2>2. Extends(entries[m[1]], entries'[m[1]])
    BY <2>1 DEF Grows
  <2>3. m[2] \in DOMAIN entries'[m[1]]
    BY <1>1, <2>1, <2>2 DEF EntriesOK, Extends
  <2> QED
    BY <1>1, <2>1, <2>3, MessageStays
<1>3. Messages \subseteq Messages'
  BY <1>2 DEF Messages
<1>4. Added \subseteq Added'
  BY <1>2, <1>3 DEF Added, Dummies
<1>5. ASSUME NEW m \in Messages, Done(m[1], m[2]) PROVE Done(m[1], m[2])'
  BY <1>1, <1>2, <1>5, DoneStays
<1>6. Finished \subseteq Finished'
  BY <1>3, <1>5 DEF Finished
<1> QED
  BY <1>4, <1>6

\* Only an acknowledgement crosses tasks off.
LEMMA OnlyAckTaskCrosses ==
  ASSUME IInv, [Next]_vars
  PROVE  (\E c \in Consumer : AckTask(c)) \/ Crossed' = Crossed
<1>1. GroupOK
  BY TypeParts DEF IInv
<1>2. UNCHANGED <<delivered, pending>> => Crossed' = Crossed
  BY DEF Crossed, Acked
<1>3. ASSUME NEW c \in Consumer, GetTask(c) PROVE Crossed' = Crossed
  <2>0. PICK s \in Streams : s = StreamOf(c)
    BY ConsumersAre
  <2>1. /\ delivered' = [delivered EXCEPT ![s] = delivered[s] + 1]
        /\ pending' = [pending EXCEPT ![s] = @ \union {delivered[s] + 1}]
    BY <1>3, <2>0 DEF GetTask
  <2>2. ASSUME NEW t \in Streams PROVE Acked(t)' = Acked(t)
    <3>1. CASE t = s
      <4>1. delivered'[t] = delivered[t] + 1 /\ pending'[t] = pending[t] \union {delivered[t] + 1}
        BY <1>1, <2>1, <3>1 DEF GroupOK
      <4> QED
        BY <1>1, <4>1 DEF Acked, GroupOK
    <3>2. CASE t # s
      BY <1>1, <2>1, <3>2 DEF Acked, GroupOK
    <3> QED
      BY <3>1, <3>2
  <2> QED
    BY <2>2 DEF Crossed
<1>4. ASSUME NEW c \in Consumer, ProcessMessage(c), ~AckTask(c) PROVE UNCHANGED <<delivered, pending>>
  BY <1>4 DEF ProcessMessage, RejectDummy, ParsePageItem, FinishPage, RetryPage, RetryItem, redis
<1> QED
  BY <1>2, <1>3, <1>4
     DEF Next, EnsureStreamsExist, CrawlAdds, AutoClaim, IdleElapses, Crash, redis, vars

\* An acknowledgement changes nothing else that the ledger sees.
LEMMA AckTaskCrosses ==
  ASSUME IInv, NEW c \in Consumer, AckTask(c)
  PROVE  Added' = Added /\ Finished' = Finished /\ Crossed \subseteq Crossed'
<1>1. GroupOK
  BY TypeParts DEF IInv
<1>2. UNCHANGED <<entries, delivered, saved, dropped, lost>>
  BY DEF AckTask
<1>3. Messages' = Messages /\ Dummies' = Dummies
  BY <1>2 DEF Messages, Dummies
<1>4. Added' = Added
  BY <1>3 DEF Added
<1>5. Finished' = Finished
  BY <1>2, <1>3 DEF Finished, Done, ItemDone
<1>6. \A s \in Streams : Acked(s) \subseteq Acked(s)'
  BY <1>1, <1>2 DEF Acked, AckTask, GroupOK
<1>7. Crossed \subseteq Crossed'
  BY <1>6 DEF Crossed
<1> QED
  BY <1>4, <1>5, <1>7

LEMMA LedgerStep == ASSUME IInv, [Next]_vars PROVE [Ledger!Next]_(Ledger!ledgerVars)
<1>1. IInv' /\ Grows
  BY NextInv
<1>2. EntriesOK'
  BY <1>1 DEF IInv, TypeOK, EntriesOK, Message
<1>3. Added \subseteq Added' /\ Finished \subseteq Finished'
  BY <1>1, <1>2, LedgerGrows
<1>4. Added' \subseteq Streams \X Nat
  BY <1>2, AddedAreTasks DEF EntriesOK, Added, Messages, Dummies
<1>5. (Finished \subseteq Added)'
  BY FinishedAreAdded, PTL
<1>6. CASE Crossed' = Crossed
  BY <1>3, <1>4, <1>5, <1>6 DEF Ledger!Next, Ledger!Add, Added, Finished, Crossed
<1>7. ASSUME NEW c \in Consumer, AckTask(c) PROVE Ledger!Next
  <2>1. Added' = Added /\ Finished' = Finished /\ Crossed \subseteq Crossed'
    BY <1>7, AckTaskCrosses
  <2>2. (Crossed \subseteq Finished)'
    BY <1>1, CrossedAreFinished, PTL
  <2> QED
    BY <2>1, <2>2 DEF Ledger!Next, Ledger!CrossOff, Added, Finished, Crossed
<1> QED
  BY <1>6, <1>7, OnlyAckTaskCrosses

\* The workers implement the ledger: whatever consumers, claims, faults and deaths
\* there are, tasks and finished work stay, and only finished tasks are crossed off.
THEOREM WorkersImplementLedger == Spec => ImplementsLedger
<1>1. Init => Ledger!Init
  <2> SUFFICES ASSUME Init PROVE Added = {} /\ Finished = {} /\ Crossed = {}
    BY DEF Ledger!Init, Added, Finished, Crossed
  <2>1. \A s \in Streams : DOMAIN entries[s] = {} /\ delivered[s] = 0
    BY DEF Init
  <2>2. Messages = {}
    BY <2>1 DEF Messages
  <2>3. Crossed = {}
    BY <2>1 DEF Crossed, Acked
  <2> QED
    BY <2>2, <2>3 DEF Added, Finished
<1>2. IInv /\ [Next]_vars => [Ledger!Next]_(Ledger!ledgerVars)
  BY LedgerStep
<1> QED
  BY <1>1, <1>2, Invariant, PTL DEF Spec, ImplementsLedger, Ledger!Spec

=============================================================================
