--------------------------- MODULE HandlersProofs ---------------------------
(***************************************************************************)
(* That two consumers have the same message only when one of them was      *)
(* slow.  As long as none was, a message in somebody's hands is pending    *)
(* and not idle: a regular worker reads one that is neither, and the       *)
(* auto-claimer takes over one that is idle.  Only its handler takes it    *)
(* off the pending list, and only the time its handler takes makes it      *)
(* idle.                                                                   *)
(*                                                                         *)
(* And that an item gets no more retries than places in page tasks that a  *)
(* worker has gone past, as long as nothing failed and nobody was slow.    *)
(***************************************************************************)
EXTENDS TaskWorkersProofs, FiniteSetTheorems

\* The messages in hands are pending and not idle.
HeldIsFresh ==
  \A c \in Consumer :
    hand[c].step # "idle" => hand[c].id \in pending[StreamOf(c)] \ idle[StreamOf(c)]

\* No two consumers have one.
HeldOnce ==
  \A c, d \in Consumer :
    /\ hand[c].step # "idle" /\ hand[d].step # "idle"
    /\ StreamOf(c) = StreamOf(d) /\ hand[c].id = hand[d].id
    => c = d

HandlersInv == slow = 0 => HeldIsFresh /\ HeldOnce

-----------------------------------------------------------------------------

LEMMA SlowIs == ASSUME IInv PROVE slow \in Nat /\ (slow' = slow + 1 => slow' # 0)
BY WorkersAssumption DEF WorkersAssumption, IInv, TypeOK

LEMMA NothingIdle == Nothing.step = "idle"
BY DEF Nothing

\* A consumer that takes a message which is pending, not idle and in nobody's hands,
\* or lets go of its own.
LEMMA OneHandChanges ==
  ASSUME HeldIsFresh, HeldOnce, NEW c \in Consumer,
         \A d \in Consumer \ {c} : hand'[d] = hand[d],
         \A d \in Consumer \ {c} :
           hand[d].step # "idle" =>
             hand[d].id \in pending'[StreamOf(d)] \ idle'[StreamOf(d)],
         hand'[c].step # "idle" =>
           /\ hand'[c].id \in pending'[StreamOf(c)] \ idle'[StreamOf(c)]
           /\ \A d \in Consumer \ {c} :
                ~(hand[d].step # "idle" /\ StreamOf(d) = StreamOf(c) /\ hand[d].id = hand'[c].id)
  PROVE  HeldIsFresh' /\ HeldOnce'
<1>1. HeldIsFresh'
  <2> SUFFICES ASSUME NEW d \in Consumer, hand'[d].step # "idle"
               PROVE  hand'[d].id \in pending'[StreamOf(d)] \ idle'[StreamOf(d)]
    BY DEF HeldIsFresh, StreamOf
  <2> QED
    OBVIOUS
<1>2. HeldOnce'
  <2> SUFFICES ASSUME NEW d \in Consumer, NEW e \in Consumer,
                      hand'[d].step # "idle", hand'[e].step # "idle",
                      StreamOf(d) = StreamOf(e), hand'[d].id = hand'[e].id
               PROVE  d = e
    BY DEF HeldOnce, StreamOf
  <2>1. CASE d # c /\ e # c
    BY <2>1 DEF HeldOnce
  <2>2. CASE d = c \/ e = c
    BY <2>2
  <2> QED
    BY <2>1, <2>2
<1> QED
  BY <1>1, <1>2

\* A consumer goes on with its message.
LEMMA HandGoesOn ==
  ASSUME IInv, HandlersInv, NEW c \in Consumer, hand[c].step # "idle",
         \A d \in Consumer \ {c} : hand'[d] = hand[d],
         hand'[c].step = "idle" \/ hand'[c].id = hand[c].id,
         UNCHANGED <<pending, idle, slow>>
  PROVE  HandlersInv'
<1> SUFFICES ASSUME slow = 0 PROVE HeldIsFresh' /\ HeldOnce'
  BY DEF HandlersInv
<1>1. HeldIsFresh /\ HeldOnce
  BY DEF HandlersInv
<1>2. \A d \in Consumer : hand[d].step # "idle" =>
        hand[d].id \in pending'[StreamOf(d)] \ idle'[StreamOf(d)]
  BY <1>1 DEF HeldIsFresh
<1>3. \A d \in Consumer \ {c} :
        ~(hand[d].step # "idle" /\ StreamOf(d) = StreamOf(c) /\ hand[d].id = hand[c].id)
  BY <1>1 DEF HeldOnce
<1> QED
  BY <1>1, <1>2, <1>3, OneHandChanges

LEMMA HandlersSame ==
  ASSUME HandlersInv, UNCHANGED <<pending, idle, hand, slow>>
  PROVE  HandlersInv'
BY DEF HandlersInv, HeldIsFresh, HeldOnce, StreamOf

-----------------------------------------------------------------------------
(* The actions.                                                            *)

LEMMA InitHandlers == Init => HandlersInv
BY NothingIdle DEF Init, HandlersInv, HeldIsFresh, HeldOnce

LEMMA GetTaskHandlers ==
  ASSUME IInv, HandlersInv, NEW c \in Consumer, GetTask(c)
  PROVE  HandlersInv'
<1> DEFINE s == StreamOf(c)
           id == delivered[s] + 1
<1>1. s \in Streams
  BY ConsumersAre
<1>2. slow' = slow
  BY DEF GetTask, Fault, bounds
<1> SUFFICES ASSUME slow = 0 PROVE HeldIsFresh' /\ HeldOnce'
  BY <1>2 DEF HandlersInv
<1>3. HeldIsFresh /\ HeldOnce
  BY DEF HandlersInv
<1>4. delivered[s] \in Nat /\ idle[s] \subseteq pending[s] /\ pending[s] \subseteq 1..delivered[s]
  BY <1>1 DEF IInv, TypeOK
<1>5. id \notin pending[s] /\ id \notin idle[s]
  BY <1>4
<1>6. pending' = [pending EXCEPT ![s] = pending[s] \union {id}] /\ idle' = idle
  BY DEF GetTask
<1>7. pending \in [Streams -> SUBSET Nat] /\ hand \in [Consumer -> Hand]
  BY TypeParts DEF IInv, GroupOK
<1>8. \A d \in Consumer : hand[d].step # "idle" =>
        hand[d].id \in pending'[StreamOf(d)] \ idle'[StreamOf(d)]
  BY <1>1, <1>3, <1>6, <1>7, ConsumersAre DEF HeldIsFresh
<1>9. hand' = [hand EXCEPT ![c] = Handling(s, id)] \/ hand' = hand
  BY DEF GetTask
<1>10. CASE hand' = hand
  BY <1>3, <1>8, <1>10 DEF HeldIsFresh, HeldOnce, StreamOf
<1>11. CASE hand' = [hand EXCEPT ![c] = Handling(s, id)]
  <2>1. hand'[c].id = id /\ \A d \in Consumer \ {c} : hand'[d] = hand[d]
    BY <1>7, <1>11 DEF Handling
  <2>2. id \in pending'[s] \ idle'[s]
    BY <1>1, <1>5, <1>6, <1>7
  <2>3. \A d \in Consumer : ~(hand[d].step # "idle" /\ StreamOf(d) = s /\ hand[d].id = id)
    BY <1>3, <1>5 DEF HeldIsFresh
  <2> QED
    BY <1>3, <1>8, <2>1, <2>2, <2>3, OneHandChanges
<1> QED
  BY <1>9, <1>10, <1>11

LEMMA AutoClaimHandlers ==
  ASSUME IInv, HandlersInv, NEW s \in Streams, AutoClaim(s)
  PROVE  HandlersInv'
<1> DEFINE c == Claimer(s)
<1>1. c \in Consumer /\ StreamOf(c) = s
  BY ClaimerIs
<1>2. PICK id \in idle[s] :
        /\ idle' = [idle EXCEPT ![s] = @ \ {id}]
        /\ \/ hand' = [hand EXCEPT ![c] = Handling(s, id)] /\ UNCHANGED bounds
           \/ Fault /\ UNCHANGED hand
  BY DEF AutoClaim
<1>3. pending' = pending /\ slow' = slow
  BY <1>2 DEF AutoClaim, Fault, bounds
<1> SUFFICES ASSUME slow = 0 PROVE HeldIsFresh' /\ HeldOnce'
  BY <1>3 DEF HandlersInv
<1>4. HeldIsFresh /\ HeldOnce
  BY DEF HandlersInv
<1>5. id \in pending[s]
  BY DEF IInv, TypeOK
<1>6. idle \in [Streams -> SUBSET Nat] /\ hand \in [Consumer -> Hand]
  BY TypeParts DEF IInv, GroupOK
<1>7. \A d \in Consumer : hand[d].step # "idle" =>
        hand[d].id \in pending'[StreamOf(d)] \ idle'[StreamOf(d)]
  BY <1>2, <1>3, <1>4, <1>6, ConsumersAre DEF HeldIsFresh
<1>8. CASE hand' = hand
  BY <1>4, <1>7, <1>8 DEF HeldIsFresh, HeldOnce, StreamOf
<1>9. CASE hand' = [hand EXCEPT ![c] = Handling(s, id)]
  <2>1. hand'[c].id = id /\ \A d \in Consumer \ {c} : hand'[d] = hand[d]
    BY <1>1, <1>6, <1>9 DEF Handling
  <2>2. id \in pending'[s] \ idle'[s]
    BY <1>2, <1>3, <1>5, <1>6
  <2>3. \A d \in Consumer : ~(hand[d].step # "idle" /\ StreamOf(d) = s /\ hand[d].id = id)
    BY <1>4 DEF HeldIsFresh
  <2> HIDE DEF c
  <2> QED
    BY <1>1, <1>4, <1>7, <2>1, <2>2, <2>3, OneHandChanges
<1> QED
  BY <1>2, <1>8, <1>9

LEMMA ProcessMessageHandlers ==
  ASSUME IInv, HandlersInv, NEW c \in Consumer, ProcessMessage(c)
  PROVE  HandlersInv'
<1>1. hand \in [Consumer -> Hand]
  BY TypeParts DEF IInv
<1>2. hand[c].step # "idle"
  BY DEF ProcessMessage, RejectDummy, ParsePageItem, FinishPage, RetryPage, RetryItem, AckTask
<1>3. CASE ~AckTask(c)
  <2>1. UNCHANGED <<pending, idle, slow>>
    BY <1>3 DEF ProcessMessage, RejectDummy, ParsePageItem, FinishPage, RetryPage, RetryItem,
                redis, bounds, AddTaskFails, Fault
  <2>2. LetGo(c) \/ AboutToAck(c) \/ hand' = [hand EXCEPT ![c].rest = Tail(@)]
    BY <1>3 DEF ProcessMessage, RejectDummy, ParsePageItem, FinishPage, RetryPage, RetryItem
  <2>3. \A d \in Consumer \ {c} : hand'[d] = hand[d]
    BY <1>1, <2>2 DEF LetGo, AboutToAck
  <2>4. hand'[c].step = "idle" \/ hand'[c].id = hand[c].id
    BY <1>1, <2>2 DEF LetGo, AboutToAck, Nothing, Hand
  <2> QED
    BY <1>2, <2>1, <2>3, <2>4, HandGoesOn
<1>4. CASE AckTask(c)
  <2> DEFINE s == StreamOf(c)
  <2>1. s \in Streams
    BY ConsumersAre
  <2>2. slow' = slow /\ hand' = [hand EXCEPT ![c] = Nothing]
    BY <1>4 DEF AckTask, Fault, bounds, LetGo
  <2> SUFFICES ASSUME slow = 0 PROVE HeldIsFresh' /\ HeldOnce'
    BY <2>2 DEF HandlersInv
  <2>3. HeldIsFresh /\ HeldOnce
    BY DEF HandlersInv
  <2>4. hand'[c].step = "idle" /\ \A d \in Consumer \ {c} : hand'[d] = hand[d]
    BY <1>1, <2>2, NothingIdle
  <2>5. pending \in [Streams -> SUBSET Nat] /\ idle \in [Streams -> SUBSET Nat]
    BY TypeParts DEF IInv, GroupOK
  <2>6. \/ /\ pending' = [pending EXCEPT ![s] = pending[s] \ {hand[c].id}]
           /\ idle' = [idle EXCEPT ![s] = idle[s] \ {hand[c].id}]
        \/ pending' = pending /\ idle' = idle
    BY <1>4 DEF AckTask
  <2>7. ASSUME NEW d \in Consumer \ {c}, hand[d].step # "idle"
        PROVE  hand[d].id \in pending'[StreamOf(d)] \ idle'[StreamOf(d)]
    <3>1. StreamOf(d) \in Streams
      BY ConsumersAre
    <3>2. hand[d].id \in pending[StreamOf(d)] \ idle[StreamOf(d)]
      BY <2>3, <2>7 DEF HeldIsFresh
    <3>3. StreamOf(d) = s => hand[d].id # hand[c].id
      BY <1>2, <2>3, <2>7 DEF HeldOnce
    <3> QED
      BY <2>1, <2>5, <2>6, <3>1, <3>2, <3>3
  <2> QED
    BY <2>3, <2>4, <2>7, OneHandChanges
<1> QED
  BY <1>3, <1>4

LEMMA IdleElapsesHandlers ==
  ASSUME IInv, HandlersInv, NEW s \in Streams, NEW id \in pending[s], IdleElapses(s, id)
  PROVE  HandlersInv'
<1> SUFFICES ASSUME slow' = 0 PROVE HeldIsFresh' /\ HeldOnce'
  BY DEF HandlersInv
<1>1. slow' = slow /\ ~ \E c \in Consumers(s) : Holds(c, s, id)
  BY SlowIs DEF IdleElapses
<1>2. HeldIsFresh /\ HeldOnce
  BY <1>1 DEF HandlersInv
<1>3. idle \in [Streams -> SUBSET Nat]
  BY TypeParts DEF IInv, GroupOK
<1>4. ASSUME NEW d \in Consumer, hand[d].step # "idle"
      PROVE  hand[d].id \in pending'[StreamOf(d)] \ idle'[StreamOf(d)]
  <2>1. StreamOf(d) \in Streams /\ d \in Consumers(StreamOf(d))
    BY ConsumersAre
  <2>2. ~(StreamOf(d) = s /\ hand[d].id = id)
    BY <1>1, <1>4, <2>1 DEF Holds
  <2>3. hand[d].id \in pending[StreamOf(d)] \ idle[StreamOf(d)]
    BY <1>2, <1>4 DEF HeldIsFresh
  <2>4. pending' = pending /\ idle' = [idle EXCEPT ![s] = idle[s] \union {id}]
    BY DEF IdleElapses
  <2> QED
    BY <1>3, <2>1, <2>2, <2>3, <2>4
<1>5. hand' = hand
  BY DEF IdleElapses
<1> QED
  BY <1>2, <1>4, <1>5 DEF HeldIsFresh, HeldOnce, StreamOf

LEMMA NextHandlers == ASSUME IInv, HandlersInv, [Next]_vars PROVE HandlersInv'
<1>1. CASE EnsureStreamsExist
  BY <1>1, HandlersSame DEF EnsureStreamsExist, bounds
<1>2. ASSUME NEW p \in Pages, CrawlAdds(p) PROVE HandlersInv'
  BY <1>2, HandlersSame DEF CrawlAdds
<1>3. ASSUME NEW c \in Consumer, GetTask(c) \/ ProcessMessage(c) PROVE HandlersInv'
  BY <1>3, GetTaskHandlers, ProcessMessageHandlers
<1>4. ASSUME NEW s \in Streams, AutoClaim(s) PROVE HandlersInv'
  BY <1>4, AutoClaimHandlers
<1>5. ASSUME NEW s \in Streams, NEW id \in pending[s], IdleElapses(s, id) PROVE HandlersInv'
  BY <1>5, IdleElapsesHandlers
<1>6. CASE Crash
  <2>1. \A c \in Consumer : hand'[c].step = "idle"
    BY <1>6, NothingIdle DEF Crash
  <2> QED
    BY <2>1 DEF HandlersInv, HeldIsFresh, HeldOnce
<1>7. CASE UNCHANGED vars
  BY <1>7, HandlersSame DEF vars, redis, bounds
<1> QED
  BY <1>1, <1>2, <1>3, <1>4, <1>5, <1>6, <1>7 DEF Next

-----------------------------------------------------------------------------
(* The theorems.                                                           *)

\* While no consumer was slow, a message in hands is pending, not idle, and in one
\* consumer's hands only.
THEOREM HandlersInvariant == Spec => []HandlersInv
<1>1. Spec => []IInv
  BY Invariant
<1>2. Init => HandlersInv
  BY InitHandlers
<1>3. IInv /\ HandlersInv /\ [Next]_vars => HandlersInv'
  BY NextHandlers
<1> QED
  BY <1>1, <1>2, <1>3, PTL DEF Spec

\* Two consumers handle the same message only when one of them took longer than
\* minIdleTime over a message: SingleHandler of every run.
THEOREM OneHandlerEach == Spec => []SingleHandler
<1>1. ASSUME HandlersInv PROVE SingleHandler
  <2> SUFFICES ASSUME slow = 0, NEW s \in Streams,
                      NEW c \in Consumers(s), NEW d \in Consumers(s), NEW id,
                      Holds(c, s, id), Holds(d, s, id)
               PROVE  c = d
    BY DEF SingleHandler
  <2>1. c \in Consumer /\ d \in Consumer
    BY DEF Consumer
  <2> QED
    BY <1>1, <2>1 DEF HandlersInv, HeldOnce, Holds
<1> QED
  BY <1>1, HandlersInvariant, PTL

-----------------------------------------------------------------------------
(***************************************************************************)
(* That without faults and slow consumers an item gets at most one retry   *)
(* for every time a page task lists it.                                    *)
(*                                                                         *)
(* A place where a page task lists an item is spent when a worker has gone *)
(* past it.  Nobody gets there again: a page task that was delivered is in *)
(* the hands of its worker until it is acknowledged (PendingHeld), a claim *)
(* finds nothing but dummies, and no two workers have one (HandlersInv).   *)
(* A retry is only added by going past a place, so there are never more    *)
(* retries than places that are spent.                                     *)
(***************************************************************************)

PageTasks == entries["CatalogPageTask"]

\* The items a page task lists.
ItemsAt(id) == PageItems[PageTasks[id]]

\* A worker that holds the page task is past the place.
Past(c, turn) ==
  Holds(c, "CatalogPageTask", turn[1]) =>
    turn[2] + Len(hand[c].rest) <= Len(ItemsAt(turn[1]))

Spent(item) ==
  {turn \in Listings(item) :
     turn[1] <= delivered["CatalogPageTask"] /\ \A c \in Consumer : Past(c, turn)}

\* What a worker has left of a page is the end of the page's list.
RestOf(c) ==
  hand[c].rest # << >> =>
    /\ hand[c].step = "handle"
    /\ StreamOf(c) = "CatalogPageTask"
    /\ MessageOf(c) # Dummy
    /\ Len(hand[c].rest) <= Len(ItemsAt(hand[c].id))
    /\ \A k \in 1..Len(hand[c].rest) :
         hand[c].rest[k] = ItemsAt(hand[c].id)[Len(ItemsAt(hand[c].id)) - Len(hand[c].rest) + k]

RestInv == \A c \in Consumer : RestOf(c)

\* What is pending is in somebody's hands, or a dummy.
PendingHeld ==
  \A s \in Streams : \A id \in pending[s] :
    entries[s][id] # Dummy => \E c \in Consumer : Holds(c, s, id)

PlacesFinite == \A item \in Items : IsFiniteSet(Listings(item))

RetriesSpent == \A item \in Items : Cardinality(Retries(item)) <= Cardinality(Spent(item))

RetriesInv ==
  /\ RestInv
  /\ PlacesFinite
  /\ faults = 0 /\ slow = 0 => PendingHeld /\ RetriesSpent

-----------------------------------------------------------------------------
(* What a worker has left.                                                 *)

LEMMA ItemsAtType ==
  ASSUME IInv, NEW id \in DOMAIN PageTasks, PageTasks[id] # Dummy
  PROVE  ItemsAt(id) \in Seq(Items)
<1>1. PageTasks[id] \in Pages
  BY PayloadsAre, TypeHasEntries DEF IInv, EntriesOK, PageTasks, Streams
<1> QED
  BY <1>1, WorkersAssumption DEF WorkersAssumption, ItemsAt

LEMMA HandStaysRest ==
  ASSUME IInv, IInv', Grows, NEW c \in Consumer, RestOf(c),
         hand'[c] = hand[c] \/ hand'[c].rest = << >>
  PROVE  RestOf(c)'
<1> SUFFICES ASSUME hand'[c] = hand[c], hand[c].rest # << >> PROVE RestOf(c)'
  BY DEF RestOf
<1>1. /\ hand[c].step = "handle" /\ StreamOf(c) = "CatalogPageTask" /\ MessageOf(c) # Dummy
      /\ Len(hand[c].rest) <= Len(ItemsAt(hand[c].id))
      /\ \A k \in 1..Len(hand[c].rest) :
           hand[c].rest[k] = ItemsAt(hand[c].id)[Len(ItemsAt(hand[c].id)) - Len(hand[c].rest) + k]
  BY DEF RestOf
<1>2. hand[c].id \in DOMAIN entries[StreamOf(c)]
  BY <1>1, HeldMessage
<1>3. entries'["CatalogPageTask"][hand[c].id] = entries["CatalogPageTask"][hand[c].id]
  BY <1>1, <1>2, TypeHasEntries, MessageStays DEF IInv, Streams
<1>4. ItemsAt(hand[c].id)' = ItemsAt(hand[c].id)
  BY <1>3 DEF ItemsAt, PageTasks
<1>5. MessageOf(c)' = MessageOf(c)
  BY <1>1, <1>3 DEF MessageOf, StreamOf
<1> QED
  BY <1>1, <1>4, <1>5 DEF RestOf, StreamOf

LEMMA HandlingRest ==
  ASSUME IInv, NEW c \in Consumer, NEW id \in DOMAIN entries[StreamOf(c)],
         hand'[c] = Handling(StreamOf(c), id), entries' = entries
  PROVE  RestOf(c)'
<1>1. hand'[c].id = id /\ hand'[c].step = "handle"
  BY DEF Handling
<1> SUFFICES ASSUME hand'[c].rest # << >> PROVE RestOf(c)'
  BY DEF RestOf
<1>2. StreamOf(c) = "CatalogPageTask" /\ PageTasks[id] # Dummy /\ hand'[c].rest = ItemsAt(id)
  BY DEF Handling, ItemsAt, PageTasks
<1>3. ItemsAt(id) \in Seq(Items)
  BY <1>2, ItemsAtType DEF PageTasks
<1>4. MessageOf(c)' # Dummy
  BY <1>1, <1>2 DEF MessageOf, StreamOf, PageTasks
<1>5. ItemsAt(hand[c].id)' = ItemsAt(id)
  BY <1>1 DEF ItemsAt, PageTasks
<1>6. PICK items : items = ItemsAt(id) /\ Len(items) \in Nat
  BY <1>3
<1>7. Len(items) <= Len(items) /\ \A k \in 1..Len(items) : items[k] = items[Len(items) - Len(items) + k]
  BY <1>6
<1>8. hand'[c].rest = items /\ ItemsAt(hand[c].id)' = items
  BY <1>2, <1>5, <1>6
<1> QED
  BY <1>1, <1>2, <1>4, <1>7, <1>8 DEF RestOf, StreamOf

\* Where a worker goes past a place.
LEMMA ParsePageItemAt ==
  ASSUME IInv, NEW c \in Consumer, RestOf(c), ParsePageItem(c)
  PROVE  LET id == hand[c].id
             place == Len(ItemsAt(id)) - Len(hand[c].rest) + 1
         IN  /\ id \in DOMAIN PageTasks /\ id <= delivered["CatalogPageTask"]
             /\ PageTasks[id] # Dummy /\ ItemsAt(id) \in Seq(Items)
             /\ StreamOf(c) = "CatalogPageTask"
             /\ place \in DOMAIN ItemsAt(id)
             /\ ItemsAt(id)[place] = Head(hand[c].rest)
             /\ Len(hand[c].rest) \in Nat \ {0}
<1> DEFINE id == hand[c].id
           rest == hand[c].rest
<1>1. /\ hand[c].step = "handle" /\ StreamOf(c) = "CatalogPageTask" /\ MessageOf(c) # Dummy
      /\ Len(rest) <= Len(ItemsAt(id))
      /\ \A k \in 1..Len(rest) : rest[k] = ItemsAt(id)[Len(ItemsAt(id)) - Len(rest) + k]
  BY DEF RestOf, ParsePageItem
<1>2. id \in 1..delivered["CatalogPageTask"] /\ id \in DOMAIN PageTasks
  BY <1>1, HeldMessage DEF PageTasks
<1>3. PageTasks[id] # Dummy
  BY <1>1 DEF MessageOf, PageTasks
<1>4. ItemsAt(id) \in Seq(Items)
  BY <1>2, <1>3, ItemsAtType
<1>5. rest \in Seq(Items) /\ rest # << >>
  BY TypeParts DEF IInv, Hand, ParsePageItem
<1>6. Len(rest) \in Nat \ {0} /\ Len(ItemsAt(id)) \in Nat /\ Head(rest) = rest[1]
  BY <1>4, <1>5
<1>7. delivered["CatalogPageTask"] \in Nat
  BY DEF IInv, TypeOK, Streams
<1> HIDE DEF id, rest
<1>8. Len(ItemsAt(id)) - Len(rest) + 1 \in DOMAIN ItemsAt(id)
  BY <1>1, <1>4, <1>6
<1>9. ItemsAt(id)[Len(ItemsAt(id)) - Len(rest) + 1] = Head(rest)
  BY <1>1, <1>6
<1>10. id <= delivered["CatalogPageTask"]
  BY <1>2, <1>7
<1> QED
  BY <1>1, <1>2, <1>3, <1>4, <1>6, <1>8, <1>9, <1>10, Zenon DEF id, rest

LEMMA ParsePageItemRest ==
  ASSUME IInv, IInv', Grows, NEW c \in Consumer, RestOf(c), ParsePageItem(c)
  PROVE  RestOf(c)'
<1> DEFINE id == hand[c].id
           rest == hand[c].rest
<1>1. /\ hand[c].step = "handle" /\ StreamOf(c) = "CatalogPageTask" /\ MessageOf(c) # Dummy
      /\ Len(rest) <= Len(ItemsAt(id))
      /\ \A k \in 1..Len(rest) : rest[k] = ItemsAt(id)[Len(ItemsAt(id)) - Len(rest) + k]
  BY DEF RestOf, ParsePageItem
<1>2. id \in DOMAIN entries["CatalogPageTask"]
  BY <1>1, HeldMessage
<1>3. entries'["CatalogPageTask"][id] = entries["CatalogPageTask"][id]
  BY <1>2, TypeHasEntries, MessageStays DEF IInv, Streams
<1>4. hand \in [Consumer -> Hand]
  BY TypeParts DEF IInv
<1>5. hand'[c].id = id /\ hand'[c].step = "handle" /\ hand'[c].rest = Tail(rest)
  BY <1>1, <1>4 DEF ParsePageItem, Hand
<1>6. ItemsAt(hand[c].id)' = ItemsAt(id) /\ MessageOf(c)' = MessageOf(c)
  BY <1>1, <1>3, <1>5 DEF ItemsAt, PageTasks, MessageOf, StreamOf
<1>7. rest \in Seq(Items) /\ rest # << >>
  BY <1>4 DEF Hand, ParsePageItem
<1>8. ItemsAt(id) \in Seq(Items)
  BY ParsePageItemAt
<1> HIDE DEF id, rest
<1>9. /\ Len(rest) \in Nat \ {0} /\ Len(ItemsAt(id)) \in Nat /\ Len(Tail(rest)) = Len(rest) - 1
      /\ \A k \in 1..(Len(rest) - 1) : Tail(rest)[k] = rest[k + 1]
  BY <1>7, <1>8
<1>10. \A k \in 1..Len(Tail(rest)) :
         Tail(rest)[k] = ItemsAt(id)[Len(ItemsAt(id)) - Len(Tail(rest)) + k]
  <2> TAKE k \in 1..Len(Tail(rest))
  <2>1. k + 1 \in 1..Len(rest) /\ Tail(rest)[k] = rest[k + 1]
    BY <1>9
  <2>2. Len(ItemsAt(id)) - Len(rest) + (k + 1) = Len(ItemsAt(id)) - Len(Tail(rest)) + k
    BY <1>9
  <2> QED
    BY <1>1, <2>1, <2>2
<1>11. Len(Tail(rest)) <= Len(ItemsAt(id))
  BY <1>1, <1>9
<1> QED
  BY <1>1, <1>5, <1>6, <1>10, <1>11 DEF RestOf, StreamOf

LEMMA NextRest == ASSUME IInv, IInv', Grows, RestInv, [Next]_vars PROVE RestInv'
<1>1. hand \in [Consumer -> Hand] /\ EntriesOK /\ GroupOK
  BY TypeParts DEF IInv
<1>2. ASSUME \A c \in Consumer : hand'[c] = hand[c] \/ hand'[c].rest = << >> PROVE RestInv'
  <2>1. \A c \in Consumer : RestOf(c)'
    BY <1>2, HandStaysRest DEF RestInv
  <2> QED
    BY <2>1 DEF RestInv, RestOf
<1>3. ASSUME NEW c \in Consumer, RestOf(c)', \A d \in Consumer \ {c} : hand'[d] = hand[d]
      PROVE  RestInv'
  <2>1. \A d \in Consumer : RestOf(d)'
    BY <1>3, HandStaysRest DEF RestInv
  <2> QED
    BY <2>1 DEF RestInv, RestOf
<1>4. CASE hand' = hand
  BY <1>2, <1>4
<1>5. ASSUME NEW c \in Consumer, GetTask(c), hand' # hand PROVE RestInv'
  <2> DEFINE id == delivered[StreamOf(c)] + 1
  <2>1. /\ hand' = [hand EXCEPT ![c] = Handling(StreamOf(c), id)]
        /\ id <= Len(entries[StreamOf(c)]) /\ entries' = entries
    BY <1>5 DEF GetTask
  <2>2. id \in DOMAIN entries[StreamOf(c)]
    BY <1>1, <2>1, ConsumersAre DEF EntriesOK, GroupOK
  <2> QED
    BY <1>1, <1>3, <2>1, <2>2, HandlingRest
<1>6. ASSUME NEW s \in Streams, AutoClaim(s), hand' # hand PROVE RestInv'
  <2>1. PICK c : c = Claimer(s) /\ c \in Consumer /\ StreamOf(c) = s
    BY ClaimerIs
  <2>2. PICK id \in idle[s] : hand' = [hand EXCEPT ![c] = Handling(s, id)] /\ entries' = entries
    BY <1>6, <2>1 DEF AutoClaim
  <2>3. id \in DOMAIN entries[s]
    <3>1. id \in pending[s]
      BY <1>1 DEF GroupOK
    <3>2. id \in 1..delivered[s] /\ delivered[s] <= Len(entries[s]) /\ delivered[s] \in Nat
      BY <1>1, <3>1 DEF GroupOK
    <3> QED
      BY <1>1, <3>2 DEF EntriesOK
  <2> QED
    BY <1>1, <1>3, <2>1, <2>2, <2>3, HandlingRest
<1>7. ASSUME NEW c \in Consumer, ProcessMessage(c) PROVE RestInv'
  <2>1. CASE ParsePageItem(c)
    <3>1. RestOf(c)'
      BY <2>1, ParsePageItemRest DEF RestInv
    <3>2. \A d \in Consumer \ {c} : hand'[d] = hand[d]
      BY <1>1, <2>1 DEF ParsePageItem
    <3> QED
      BY <1>3, <3>1, <3>2
  <2>2. CASE LetGo(c)
    BY <1>1, <1>2, <2>2 DEF LetGo, Nothing
  <2>3. CASE AboutToAck(c) /\ hand[c].rest = << >>
    BY <1>1, <1>2, <2>3 DEF AboutToAck, Hand
  <2>4. RetryPage(c) \/ RetryItem(c) => hand[c].rest = << >>
    BY DEF RestInv, RestOf, RetryPage, RetryItem
  <2> QED
    BY <1>7, <2>1, <2>2, <2>3, <2>4
       DEF ProcessMessage, RejectDummy, FinishPage, RetryPage, RetryItem, AckTask
<1>8. CASE Crash
  BY <1>2, <1>8 DEF Crash, Nothing
<1>9. CASE EnsureStreamsExist
  BY <1>4, <1>9 DEF EnsureStreamsExist
<1>10. ASSUME NEW p \in Pages, CrawlAdds(p) PROVE RestInv'
  BY <1>4, <1>10 DEF CrawlAdds
<1>11. ASSUME NEW s \in Streams, NEW id \in pending[s], IdleElapses(s, id) PROVE RestInv'
  BY <1>4, <1>11 DEF IdleElapses
<1>12. CASE UNCHANGED vars
  BY <1>4, <1>12 DEF vars
<1> QED
  BY <1>4, <1>5, <1>6, <1>7, <1>8, <1>9, <1>10, <1>11, <1>12 DEF Next

-----------------------------------------------------------------------------
(* Places and retries.                                                     *)

\* What is new in a stream is a dummy.
OnlyDummiesNew(s) ==
  \A id \in DOMAIN entries'[s] : id \in DOMAIN entries[s] \/ entries'[s][id] = Dummy

LEMMA StartAddsDummies ==
  ASSUME EntriesOK, EnsureStreamsExist, NEW s \in Streams
  PROVE  OnlyDummiesNew(s)
<1>1. PICK left, again : entries' = LeaveDummies(LeaveDummies(entries, left), again)
  BY DEF EnsureStreamsExist
<1>2. ASSUME NEW q \in [Streams -> Seq(Message)], NEW l
      PROVE  \A id \in DOMAIN LeaveDummies(q, l)[s] :
               id \in DOMAIN q[s] \/ LeaveDummies(q, l)[s][id] = Dummy
  <2>1. CASE s \in l
    <3>1. LeaveDummies(q, l)[s] = Append(q[s], Dummy)
      BY <2>1 DEF LeaveDummies
    <3>2. q[s] \in Seq(Message) /\ Dummy \in Message
      BY DEF Message
    <3>3. \A id \in DOMAIN Append(q[s], Dummy) : id \in DOMAIN q[s] \/ Append(q[s], Dummy)[id] = Dummy
      BY <3>2
    <3> QED
      BY <3>1, <3>3
  <2>2. CASE s \notin l
    BY <2>2 DEF LeaveDummies
  <2> QED
    BY <2>1, <2>2
<1>3. PICK middle : middle = LeaveDummies(entries, left)
  OBVIOUS
<1>4. /\ middle \in [Streams -> Seq(Message)]
      /\ \A t \in Streams : \A id \in DOMAIN middle[t] : middle[t][id] \in Payload(t) \union {Dummy}
  BY <1>3, DummiesAdd DEF EntriesOK
<1>5. \A id \in DOMAIN entries'[s] : id \in DOMAIN middle[s] \/ entries'[s][id] = Dummy
  BY <1>1, <1>2, <1>3, <1>4
<1>6. \A id \in DOMAIN middle[s] : id \in DOMAIN entries[s] \/ middle[s][id] = Dummy
  BY <1>2, <1>3 DEF EntriesOK
<1>7. \A id \in DOMAIN middle[s] : entries'[s][id] = middle[s][id]
  <2>1. Extends(middle[s], entries'[s])
    BY <1>1, <1>3, <1>4, DummiesAdd
  <2> QED
    BY <1>4, <2>1 DEF Extends
<1> QED
  BY <1>5, <1>6, <1>7 DEF OnlyDummiesNew

\* Dummies apart, a step adds at most a page task, and a retry of an item only when a
\* worker goes past it.
LEMMA StreamsStep ==
  ASSUME IInv, [Next]_vars
  PROVE  /\ \/ OnlyDummiesNew("CatalogPageTask")
            \/ \E p \in Pages : entries'["CatalogPageTask"] = Append(entries["CatalogPageTask"], p)
         /\ \/ OnlyDummiesNew("ItemRetryTask")
            \/ \E c \in Consumer : ParsePageItem(c)
<1>1. EntriesOK
  BY TypeHasEntries DEF IInv
<1>2. ASSUME entries' = entries PROVE \A s \in Streams : OnlyDummiesNew(s)
  BY <1>2 DEF OnlyDummiesNew
<1>3. ASSUME NEW s \in Streams, NEW m, AddTask(s, m)
      PROVE  /\ \A t \in Streams \ {s} : OnlyDummiesNew(t)
             /\ entries'[s] = Append(entries[s], m)
  BY <1>1, <1>3 DEF AddTask, EntriesOK, OnlyDummiesNew
<1>4. "CatalogPageTask" \in Streams /\ "PageRetryTask" \in Streams /\ "ItemRetryTask" \in Streams
  BY DEF Streams
<1>5. CASE EnsureStreamsExist
  BY <1>1, <1>4, <1>5, StartAddsDummies
<1>6. ASSUME NEW p \in Pages, CrawlAdds(p)
      PROVE  /\ \/ OnlyDummiesNew("CatalogPageTask")
                \/ entries'["CatalogPageTask"] = Append(entries["CatalogPageTask"], p)
             /\ OnlyDummiesNew("ItemRetryTask")
  BY <1>3, <1>4, <1>6 DEF CrawlAdds
<1>7. ASSUME NEW c \in Consumer, ParsePageItem(c) PROVE OnlyDummiesNew("CatalogPageTask")
  BY <1>2, <1>3, <1>4, <1>7 DEF ParsePageItem, AddTaskFails
<1>8. ASSUME NEW c \in Consumer, RetryPage(c)
      PROVE  /\ \/ OnlyDummiesNew("CatalogPageTask")
                \/ \E p \in Pages : entries'["CatalogPageTask"] = Append(entries["CatalogPageTask"], p)
             /\ OnlyDummiesNew("ItemRetryTask")
  <2>1. MessageOf(c) \in Pages
    BY <1>8, HeldMessage, PayloadsAre DEF RetryPage
  <2>2. entries' = entries \/ AddTask("CatalogPageTask", MessageOf(c))
    BY <1>8 DEF RetryPage, AddTaskFails
  <2> QED
    BY <1>2, <1>3, <1>4, <2>1, <2>2
<1>9. ASSUME NEW c \in Consumer,
             GetTask(c) \/ RejectDummy(c) \/ FinishPage(c) \/ RetryItem(c) \/ AckTask(c)
      PROVE  entries' = entries
  BY <1>9 DEF GetTask, RejectDummy, FinishPage, RetryItem, AckTask, redis
<1>10. ASSUME NEW s \in Streams, AutoClaim(s) \/ \E id \in pending[s] : IdleElapses(s, id)
       PROVE  entries' = entries
  BY <1>10 DEF AutoClaim, IdleElapses
<1>11. Crash \/ UNCHANGED vars => entries' = entries
  BY DEF Crash, vars, redis
<1> QED
  BY <1>2, <1>4, <1>5, <1>6, <1>7, <1>8, <1>9, <1>10, <1>11 DEF Next, ProcessMessage

\* The turn is a place in the sequence of page tasks where the item is listed.
Lists(q, item, turn) ==
  \E id \in DOMAIN q : \E i \in DOMAIN PageItems[q[id]] :
    q[id] # Dummy /\ PageItems[q[id]][i] = item /\ turn = <<id, i>>

LEMMA ListsIs ==
  ASSUME NEW q, NEW item, NEW turn
  PROVE  turn \in UNION {{id} \X {i \in DOMAIN PageItems[q[id]] : PageItems[q[id]][i] = item} :
                         id \in {n \in DOMAIN q : q[n] # Dummy}}
         <=> Lists(q, item, turn)
<1> DEFINE Ids == {n \in DOMAIN q : q[n] # Dummy}
           At(id) == {i \in DOMAIN PageItems[q[id]] : PageItems[q[id]][i] = item}
<1>1. turn \in UNION {{id} \X At(id) : id \in Ids} <=> \E id \in Ids : turn \in {id} \X At(id)
  OBVIOUS
<1>2. \A id \in Ids : turn \in {id} \X At(id) <=> \E i \in At(id) : turn = <<id, i>>
  OBVIOUS
<1>3. (\E id \in Ids : \E i \in At(id) : turn = <<id, i>>) <=> Lists(q, item, turn)
  BY DEF Lists
<1> QED
  BY <1>1, <1>2, <1>3

LEMMA ListingIs ==
  ASSUME NEW item, NEW turn
  PROVE  /\ turn \in Listings(item) <=> Lists(PageTasks, item, turn)
         /\ turn \in Listings(item)' <=> Lists(PageTasks', item, turn)
BY ListsIs DEF Listings, PageTasks

LEMMA PageTasksType ==
  /\ IInv => PageTasks \in Seq(Message)
  /\ IInv' => PageTasks' \in Seq(Message)
BY DEF IInv, TypeOK, PageTasks, Message, Streams

LEMMA PageTaskStays ==
  ASSUME IInv, IInv', Grows, NEW id \in DOMAIN PageTasks
  PROVE  id \in DOMAIN PageTasks' /\ PageTasks'[id] = PageTasks[id] /\ ItemsAt(id)' = ItemsAt(id)
<1>1. EntriesOK /\ "CatalogPageTask" \in Streams
  BY TypeHasEntries DEF IInv, Streams
<1>2. PageTasks'[id] = PageTasks[id]
  BY <1>1, MessageStays DEF PageTasks
<1>3. id \in DOMAIN PageTasks'
  BY <1>1, PageTasksType DEF Grows, Extends, PageTasks
<1> QED
  BY <1>2, <1>3 DEF ItemsAt

LEMMA ListingsStay ==
  ASSUME IInv, IInv', Grows, NEW item
  PROVE  Listings(item) \subseteq Listings(item)'
<1> SUFFICES ASSUME NEW turn \in Listings(item) PROVE Lists(PageTasks', item, turn)
  BY ListingIs
<1>1. Lists(PageTasks, item, turn)
  BY ListingIs
<1> QED
  BY <1>1, PageTaskStays DEF Lists

LEMMA PlacesStayFinite ==
  ASSUME IInv, IInv', Grows, PlacesFinite, [Next]_vars
  PROVE  PlacesFinite'
<1> SUFFICES ASSUME NEW item \in Items PROVE IsFiniteSet(Listings(item)')
  BY DEF PlacesFinite
<1>1. IsFiniteSet(Listings(item))
  BY DEF PlacesFinite
<1>2. CASE OnlyDummiesNew("CatalogPageTask")
  <2>1. ASSUME NEW turn \in Listings(item)' PROVE turn \in Listings(item)
    <3>1. Lists(PageTasks', item, turn)
      BY <2>1, ListingIs
    <3>2. Lists(PageTasks, item, turn)
      BY <1>2, <3>1, PageTaskStays DEF Lists, OnlyDummiesNew, PageTasks
    <3> QED
      BY <3>2, ListingIs
  <2> QED
    BY <1>1, <2>1, FS_Subset
<1>3. ASSUME NEW p \in Pages, PageTasks' = Append(PageTasks, p) PROVE IsFiniteSet(Listings(item)')
  <2> DEFINE id == Len(PageTasks) + 1
             new == {id} \X (1..Len(PageItems[p]))
  <2>1. PageTasks \in Seq(Message) /\ p \in Message /\ PageItems[p] \in Seq(Items)
    BY PageTasksType, WorkersAssumption DEF WorkersAssumption, Message
  <2>2. IsFiniteSet(new)
    <3>1. Len(PageItems[p]) \in Nat
      BY <2>1
    <3>2. IsFiniteSet(1..Len(PageItems[p]))
      <4>1. 1 \in Int /\ Len(PageItems[p]) \in Int
        BY <3>1
      <4> QED
        BY <4>1, FS_Interval
    <3>3. IsFiniteSet({id})
      BY FS_Singleton
    <3> QED
      BY <3>2, <3>3, FS_Product
  <2>3. ASSUME NEW turn \in Listings(item)' PROVE turn \in Listings(item) \union new
    <3>1. PICK n \in DOMAIN PageTasks' :
            \E i \in DOMAIN PageItems[PageTasks'[n]] :
              /\ PageTasks'[n] # Dummy /\ PageItems[PageTasks'[n]][i] = item
              /\ turn = <<n, i>>
      BY <2>3, ListingIs DEF Lists
    <3>2. CASE n = id
      <4>1. PageTasks'[n] = p
        BY <1>3, <2>1, <3>2
      <4>2. DOMAIN PageItems[p] = 1..Len(PageItems[p])
        BY <2>1
      <4> QED
        BY <3>1, <3>2, <4>1, <4>2
    <3>3. CASE n # id
      <4>1. n \in DOMAIN PageTasks
        BY <1>3, <2>1, <3>1, <3>3
      <4>2. PageTasks'[n] = PageTasks[n]
        BY <4>1, PageTaskStays
      <4>3. Lists(PageTasks, item, turn)
        BY <3>1, <4>1, <4>2 DEF Lists
      <4> QED
        BY <4>3, ListingIs
    <3> QED
      BY <3>2, <3>3
  <2>4. IsFiniteSet(Listings(item) \union new)
    BY <1>1, <2>2, FS_Union
  <2>5. Listings(item)' \subseteq Listings(item) \union new
    BY <2>3
  <2> QED
    BY <2>4, <2>5, FS_Subset
<1> QED
  BY <1>2, <1>3, StreamsStep DEF PageTasks

-----------------------------------------------------------------------------
(* Without faults and slow consumers.                                      *)

\* No fault happened, and nobody was slow, in a step after which none did and was.
LEMMA NoFaultStep ==
  ASSUME IInv, [Next]_vars, faults' = 0, slow' = 0
  PROVE  faults = 0 /\ slow = 0 /\ ~Fault
<1>1. faults \in Nat /\ slow \in Nat
  BY WorkersAssumption DEF WorkersAssumption, IInv, TypeOK
<1>2. faults' = faults \/ Fault
  BY DEF Next, EnsureStreamsExist, CrawlAdds, GetTask, ProcessMessage, RejectDummy, ParsePageItem,
         FinishPage, RetryPage, RetryItem, AckTask, AddTaskFails, AutoClaim, IdleElapses, Crash,
         vars, bounds
<1>3. ~Fault
  BY <1>1 DEF Fault
<1>4. slow' = slow \/ slow' = slow + 1
  BY DEF Next, EnsureStreamsExist, CrawlAdds, GetTask, ProcessMessage, RejectDummy, ParsePageItem,
         FinishPage, RetryPage, RetryItem, AckTask, AddTaskFails, AutoClaim, IdleElapses, Crash,
         vars, bounds, Fault
<1> QED
  BY <1>1, <1>2, <1>3, <1>4

\* A claim finds a dummy.
LEMMA ClaimsDummies ==
  ASSUME IInv, HandlersInv, PendingHeld, slow = 0, NEW s \in Streams, NEW id \in idle[s]
  PROVE  entries[s][id] = Dummy
<1>1. id \in pending[s]
  BY DEF IInv, TypeOK
<1>2. ASSUME NEW c \in Consumer, Holds(c, s, id) PROVE FALSE
  BY <1>2 DEF HandlersInv, HeldIsFresh, Holds
<1> QED
  BY <1>1, <1>2 DEF PendingHeld

\* What a consumer does with its hand: it lets go, goes on with its message, or takes
\* one that was not delivered before or is a dummy.
HandGoes(c) ==
  \/ hand'[c].step = "idle"
  \/ /\ hand[c].step # "idle" /\ hand'[c].id = hand[c].id
     /\ Len(hand'[c].rest) <= Len(hand[c].rest)
  \/ hand'[c].id > delivered[StreamOf(c)]
  \/ entries[StreamOf(c)][hand'[c].id] = Dummy

LEMMA HandsGo ==
  ASSUME IInv, IInv', HandlersInv, PendingHeld, [Next]_vars, slow = 0, ~Fault, NEW c \in Consumer
  PROVE  HandGoes(c)
<1>1. hand \in [Consumer -> Hand] /\ GroupOK
  BY TypeParts DEF IInv
<1>2. CASE hand'[c] = hand[c]
  <2>1. Len(hand[c].rest) \in Nat
    BY <1>1 DEF Hand
  <2> QED
    BY <1>2, <2>1 DEF HandGoes
<1>3. ASSUME NEW d \in Consumer, GetTask(d) PROVE HandGoes(c)
  <2>1. hand' = [hand EXCEPT ![d] = Handling(StreamOf(d), delivered[StreamOf(d)] + 1)]
    BY <1>3 DEF GetTask
  <2>2. CASE c = d
    <3>1. hand'[c].id = delivered[StreamOf(c)] + 1
      BY <1>1, <2>1, <2>2 DEF Handling
    <3>2. delivered[StreamOf(c)] \in Nat
      BY <1>1, ConsumersAre DEF GroupOK
    <3> QED
      BY <3>1, <3>2 DEF HandGoes
  <2> QED
    BY <1>1, <1>2, <2>1, <2>2
<1>4. ASSUME NEW s \in Streams, AutoClaim(s) PROVE HandGoes(c)
  <2>1. PICK d : d = Claimer(s) /\ d \in Consumer /\ StreamOf(d) = s
    BY ClaimerIs
  <2>2. PICK id \in idle[s] : hand' = [hand EXCEPT ![d] = Handling(s, id)]
    BY <1>4, <2>1 DEF AutoClaim
  <2>3. entries[s][id] = Dummy
    BY ClaimsDummies
  <2>4. c = d => hand'[c].id = id
    BY <1>1, <2>2 DEF Handling
  <2>5. c # d => hand'[c] = hand[c]
    BY <1>1, <2>2
  <2> QED
    BY <1>2, <2>1, <2>3, <2>4, <2>5 DEF HandGoes
<1>5. ASSUME NEW d \in Consumer, ProcessMessage(d) PROVE HandGoes(c)
  <2>1. hand[d].step # "idle"
    BY <1>5 DEF ProcessMessage, RejectDummy, ParsePageItem, FinishPage, RetryPage, RetryItem, AckTask
  <2>2. CASE ParsePageItem(d)
    <3>1. hand' = [hand EXCEPT ![d].rest = Tail(@)] /\ hand[d].rest # << >>
      BY <2>2 DEF ParsePageItem
    <3>2. hand[d].rest \in Seq(Items)
      BY <1>1 DEF Hand
    <3>3. Len(Tail(hand[d].rest)) <= Len(hand[d].rest)
      BY <3>1, <3>2
    <3>4. c = d => hand'[c].id = hand[c].id /\ hand'[c].rest = Tail(hand[c].rest)
      BY <1>1, <3>1 DEF Hand
    <3>5. c # d => hand'[c] = hand[c]
      BY <1>1, <3>1
    <3> QED
      BY <1>2, <2>1, <3>3, <3>4, <3>5 DEF HandGoes
  <2>3. CASE LetGo(d)
    <3>1. c # d => hand'[c] = hand[c]
      BY <1>1, <2>3 DEF LetGo
    <3>2. c = d => hand'[c].step = "idle"
      BY <1>1, <2>3 DEF LetGo, Nothing
    <3> QED
      BY <1>2, <3>1, <3>2 DEF HandGoes
  <2>4. CASE AboutToAck(d)
    <3>1. c # d => hand'[c] = hand[c]
      BY <1>1, <2>4 DEF AboutToAck
    <3>2. c = d => hand'[c].id = hand[c].id /\ hand'[c].rest = hand[c].rest
      BY <1>1, <2>4 DEF AboutToAck, Hand
    <3>3. Len(hand[c].rest) \in Nat
      BY <1>1 DEF Hand
    <3> QED
      BY <1>2, <2>1, <3>1, <3>2, <3>3 DEF HandGoes
  <2> QED
    BY <1>5, <2>2, <2>3, <2>4
       DEF ProcessMessage, RejectDummy, FinishPage, RetryPage, RetryItem, AckTask
<1>6. EnsureStreamsExist \/ (\E p \in Pages : CrawlAdds(p))
      \/ (\E s \in Streams : \E id \in pending[s] : IdleElapses(s, id)) \/ UNCHANGED vars
      => hand' = hand
  BY DEF EnsureStreamsExist, CrawlAdds, IdleElapses, vars
<1>7. ~Crash
  BY DEF Crash
<1> QED
  BY <1>2, <1>3, <1>4, <1>5, <1>6, <1>7 DEF Next

\* A place that is spent stays spent.
LEMMA SpentStays ==
  ASSUME IInv, IInv', Grows, \A c \in Consumer : HandGoes(c), NEW item
  PROVE  Spent(item) \subseteq Spent(item)'
<1> SUFFICES ASSUME NEW turn \in Spent(item) PROVE turn \in Spent(item)'
  OBVIOUS
<1>1. PICK id \in DOMAIN PageTasks :
        PageTasks[id] # Dummy /\ \E i \in DOMAIN ItemsAt(id) : turn = <<id, i>>
  BY ListingIs DEF Spent, Lists, ItemsAt
<1>2. PICK i \in DOMAIN ItemsAt(id) : turn = <<id, i>>
  BY <1>1
<1>3. ItemsAt(id) \in Seq(Items) /\ i \in Nat /\ Len(ItemsAt(id)) \in Nat
  BY <1>1, ItemsAtType
<1>4. turn[1] = id /\ turn[2] = i
  BY <1>2
<1>5. ItemsAt(id)' = ItemsAt(id)
  BY PageTaskStays
<1>6. hand \in [Consumer -> Hand] /\ hand' \in [Consumer -> Hand]
  BY TypeParts DEF IInv, TypeOK, Hand
<1>7. "CatalogPageTask" \in Streams
  BY DEF Streams
<1>8. /\ delivered["CatalogPageTask"] \in Nat /\ delivered'["CatalogPageTask"] \in Nat
      /\ delivered["CatalogPageTask"] <= delivered'["CatalogPageTask"]
      /\ id \in Nat
  <2>1. id \in Nat
    BY PageTasksType
  <2>2. delivered["CatalogPageTask"] \in Nat
    BY <1>7 DEF IInv, TypeOK
  <2> QED
    BY <1>7, <2>1, <2>2 DEF Grows
<1>9. id <= delivered["CatalogPageTask"]
  BY <1>4 DEF Spent
<1>10. ASSUME NEW c \in Consumer PROVE Past(c, turn)'
  <2> SUFFICES ASSUME hand'[c].step # "idle", StreamOf(c) = "CatalogPageTask", hand'[c].id = id
               PROVE  i + Len(hand'[c].rest) <= Len(ItemsAt(id))
    BY <1>4, <1>5 DEF Past, Holds, StreamOf
  <2>1. hand[c].step # "idle" /\ hand[c].id = id /\ Len(hand'[c].rest) <= Len(hand[c].rest)
    BY <1>1, <1>8, <1>9 DEF HandGoes, PageTasks
  <2>2. i + Len(hand[c].rest) <= Len(ItemsAt(id))
    BY <1>4, <2>1 DEF Spent, Past, Holds
  <2>3. Len(hand[c].rest) \in Nat /\ Len(hand'[c].rest) \in Nat
    BY <1>6 DEF Hand
  <2> QED
    BY <1>3, <2>1, <2>2, <2>3
<1>11. turn \in Listings(item)'
  BY ListingsStay DEF Spent
<1>12. turn[1] <= delivered'["CatalogPageTask"]
  BY <1>4, <1>8, <1>9
<1> QED
  BY <1>10, <1>11, <1>12 DEF Spent

\* What is pending stays in somebody's hands.
LEMMA PendingStays ==
  ASSUME IInv, IInv', Grows, HandlersInv, PendingHeld, [Next]_vars, slow = 0, ~Fault
  PROVE  PendingHeld'
<1>1. EntriesOK /\ GroupOK /\ hand \in [Consumer -> Hand]
  BY TypeParts DEF IInv
<1> SUFFICES ASSUME NEW s \in Streams, NEW id \in pending'[s], entries'[s][id] # Dummy
             PROVE  \E c \in Consumer : Holds(c, s, id)'
  BY DEF PendingHeld, Holds, StreamOf
<1>2. ASSUME id \in pending[s]
      PROVE  /\ entries[s][id] # Dummy
             /\ \E c \in Consumer : Holds(c, s, id)
  <2>1. id \in DOMAIN entries[s]
    <3>1. id \in 1..delivered[s] /\ delivered[s] <= Len(entries[s]) /\ delivered[s] \in Nat
      BY <1>1, <1>2 DEF GroupOK
    <3> QED
      BY <1>1, <3>1 DEF EntriesOK
  <2>2. entries[s][id] # Dummy
    BY <1>1, <2>1, MessageStays
  <2> QED
    BY <1>2, <2>2 DEF PendingHeld
<1>3. CASE pending' = pending /\ hand' = hand
  BY <1>2, <1>3 DEF Holds, StreamOf
<1>4. ASSUME NEW d \in Consumer, GetTask(d) PROVE \E c \in Consumer : Holds(c, s, id)'
  <2> DEFINE new == delivered[StreamOf(d)] + 1
  <2>1. /\ hand[d].step = "idle" /\ hand' = [hand EXCEPT ![d] = Handling(StreamOf(d), new)]
        /\ pending' = [pending EXCEPT ![StreamOf(d)] = @ \union {new}]
    BY <1>4 DEF GetTask
  <2>2. CASE id \in pending[s]
    <3>1. PICK c \in Consumer : Holds(c, s, id)
      BY <1>2, <2>2
    <3>2. hand'[c] = hand[c]
      BY <1>1, <2>1, <3>1 DEF Holds
    <3> QED
      BY <3>1, <3>2 DEF Holds, StreamOf
  <2>3. CASE id \notin pending[s]
    <3>1. StreamOf(d) = s /\ id = new
      BY <1>1, <2>1, <2>3 DEF GroupOK
    <3>2. hand'[d].step = "handle" /\ hand'[d].id = new
      BY <1>1, <2>1 DEF Handling
    <3> QED
      BY <3>1, <3>2 DEF Holds, StreamOf
  <2> QED
    BY <2>2, <2>3
<1>5. ASSUME NEW t \in Streams, AutoClaim(t) PROVE \E c \in Consumer : Holds(c, s, id)'
  <2>1. PICK d : d = Claimer(t) /\ d \in Consumer
    BY ClaimerIs
  <2>2. hand[d].step = "idle" /\ pending' = pending /\ \A c \in Consumer \ {d} : hand'[c] = hand[c]
    BY <1>1, <1>5, <2>1 DEF AutoClaim
  <2>3. PICK c \in Consumer : Holds(c, s, id)
    BY <1>2, <2>2
  <2>4. hand'[c] = hand[c]
    BY <2>2, <2>3 DEF Holds
  <2> QED
    BY <2>3, <2>4 DEF Holds, StreamOf
<1>6. ASSUME NEW d \in Consumer, ProcessMessage(d) PROVE \E c \in Consumer : Holds(c, s, id)'
  <2>1. id \in pending[s]
    BY <1>1, <1>6 DEF ProcessMessage, RejectDummy, ParsePageItem, FinishPage, RetryPage, RetryItem,
                      AckTask, redis, GroupOK
  <2>2. PICK c \in Consumer : Holds(c, s, id)
    BY <1>2, <2>1
  <2>3. ASSUME hand'[c].step # "idle", hand'[c].id = hand[c].id PROVE Holds(c, s, id)'
    BY <2>2, <2>3 DEF Holds, StreamOf
  <2>4. CASE c # d
    <3>1. hand'[c] = hand[c]
      BY <1>1, <1>6, <2>4 DEF ProcessMessage, RejectDummy, ParsePageItem, FinishPage, RetryPage,
                              RetryItem, AckTask, LetGo, AboutToAck
    <3> QED
      BY <2>2, <2>3, <3>1 DEF Holds
  <2>5. CASE c = d /\ RejectDummy(d)
    BY <1>2, <2>1, <2>2, <2>5 DEF RejectDummy, MessageOf, Holds
  <2>6. CASE c = d /\ ParsePageItem(d)
    <3>1. hand' = [hand EXCEPT ![d].rest = Tail(@)] /\ hand[d].step = "handle"
      BY <2>6 DEF ParsePageItem
    <3>2. hand'[c].step = "handle" /\ hand'[c].id = hand[c].id
      BY <1>1, <2>6, <3>1 DEF Hand
    <3> QED
      BY <2>3, <3>2
  <2>7. CASE c = d /\ (FinishPage(d) \/ RetryPage(d) \/ RetryItem(d))
    <3>1. AboutToAck(d)
      BY <2>7 DEF FinishPage, RetryPage, RetryItem, AddTaskFails
    <3>2. hand'[c].step = "ack" /\ hand'[c].id = hand[c].id
      BY <1>1, <2>7, <3>1, AboutToAckStep
    <3> QED
      BY <2>3, <3>2
  <2>8. CASE c = d /\ AckTask(d)
    <3>1. pending' = [pending EXCEPT ![StreamOf(d)] = @ \ {hand[d].id}]
      BY <2>8 DEF AckTask
    <3>2. StreamOf(d) = s /\ hand[d].id = id
      BY <2>2, <2>8 DEF Holds
    <3>3. id \notin pending'[s]
      BY <1>1, <3>1, <3>2 DEF GroupOK
    <3> QED
      BY <3>3
  <2> QED
    BY <1>6, <2>4, <2>5, <2>6, <2>7, <2>8 DEF ProcessMessage
<1>7. EnsureStreamsExist \/ (\E p \in Pages : CrawlAdds(p))
      \/ (\E t \in Streams : \E n \in pending[t] : IdleElapses(t, n)) \/ UNCHANGED vars
      => pending' = pending /\ hand' = hand
  BY DEF EnsureStreamsExist, CrawlAdds, IdleElapses, vars, redis
<1>8. ~Crash
  BY DEF Crash
<1> QED
  BY <1>3, <1>4, <1>5, <1>6, <1>7, <1>8 DEF Next

-----------------------------------------------------------------------------
(* Counting.                                                               *)

LEMMA RetriesFinite ==
  ASSUME IInv, NEW item
  PROVE  IsFiniteSet(Retries(item)) /\ Cardinality(Retries(item)) \in Nat
<1>1. entries["ItemRetryTask"] \in Seq(Message)
  BY TypeHasEntries DEF IInv, EntriesOK, Streams
<1>2. Len(entries["ItemRetryTask"]) \in Nat
      /\ Retries(item) \subseteq 1..Len(entries["ItemRetryTask"])
  BY <1>1 DEF Retries
<1>3. IsFiniteSet(1..Len(entries["ItemRetryTask"]))
  <2>1. 1 \in Int /\ Len(entries["ItemRetryTask"]) \in Int
    BY <1>2
  <2> QED
    BY <2>1, FS_Interval
<1>4. IsFiniteSet(Retries(item))
  BY <1>2, <1>3, FS_Subset
<1> QED
  BY <1>4, FS_CardinalityType

LEMMA SpentFinite ==
  ASSUME PlacesFinite, NEW item \in Items
  PROVE  /\ IsFiniteSet(Spent(item)) /\ Cardinality(Spent(item)) \in Nat
         /\ Cardinality(Spent(item)) <= Cardinality(Listings(item))
<1>1. IsFiniteSet(Listings(item)) /\ Spent(item) \in SUBSET Listings(item)
  BY DEF PlacesFinite, Spent
<1>2. IsFiniteSet(Spent(item)) /\ Cardinality(Spent(item)) <= Cardinality(Listings(item))
  BY <1>1, FS_Subset
<1> QED
  BY <1>2, FS_CardinalityType

LEMMA SpentFiniteNext ==
  ASSUME PlacesFinite', NEW item \in Items
  PROVE  IsFiniteSet(Spent(item)') /\ Cardinality(Spent(item)') \in Nat
<1>1. IsFiniteSet(Listings(item)') /\ Spent(item)' \in SUBSET Listings(item)'
  BY DEF PlacesFinite, Spent
<1>2. IsFiniteSet(Spent(item)')
  BY <1>1, FS_Subset
<1> QED
  BY <1>2, FS_CardinalityType

\* Going past a place spends it.
LEMMA ItemSpends ==
  ASSUME IInv, IInv', Grows, HandlersInv, slow = 0, NEW c \in Consumer, RestOf(c), ParsePageItem(c),
         NEW item, item = Head(hand[c].rest)
  PROVE  \E turn : turn \notin Spent(item) /\ turn \in Spent(item)'
<1>0. PICK id, rest, items, place, turn :
        /\ id = hand[c].id /\ rest = hand[c].rest /\ item = Head(rest) /\ items = ItemsAt(id)
        /\ place = Len(items) - Len(rest) + 1 /\ turn = <<id, place>>
  OBVIOUS
<1>1. /\ id \in DOMAIN PageTasks /\ id <= delivered["CatalogPageTask"] /\ PageTasks[id] # Dummy
      /\ items \in Seq(Items) /\ StreamOf(c) = "CatalogPageTask"
      /\ place \in DOMAIN items /\ items[place] = item
      /\ Len(rest) \in Nat \ {0}
  BY <1>0, ParsePageItemAt
<1>2. /\ hand[c].step = "handle" /\ hand' = [hand EXCEPT ![c].rest = Tail(@)]
      /\ delivered' = delivered
  BY DEF ParsePageItem
<1>3. hand \in [Consumer -> Hand]
  BY TypeParts DEF IInv
<1>4. /\ hand'[c].step = "handle" /\ hand'[c].id = id /\ hand'[c].rest = Tail(rest)
      /\ \A d \in Consumer \ {c} : hand'[d] = hand[d]
  BY <1>0, <1>2, <1>3 DEF Hand
<1>5. Len(Tail(rest)) = Len(rest) - 1
  <2>1. rest \in Seq(Items) /\ rest # << >>
    BY <1>0, <1>3 DEF Hand, ParsePageItem
  <2> QED
    BY <2>1
<1>6. Len(items) \in Nat
  BY <1>1
<1>7. ~(place + Len(rest) <= Len(items))
  BY <1>0, <1>1, <1>6
<1>8. place + Len(Tail(rest)) <= Len(items)
  <2>1. PICK m \in Nat, n \in Nat : m = Len(rest) /\ n = Len(items)
    BY <1>1, <1>6
  <2>2. place = n - m + 1 /\ Len(Tail(rest)) = m - 1
    BY <1>0, <1>5, <2>1
  <2>3. (n - m + 1) + (m - 1) <= n
    OBVIOUS
  <2> QED
    BY <2>1, <2>2, <2>3
<1>9. turn \notin Spent(item)
  <2>1. ~Past(c, turn)
    BY <1>0, <1>1, <1>2, <1>7 DEF Past, Holds
  <2> QED
    BY <2>1 DEF Spent
<1>10. Lists(PageTasks, item, turn)
  BY <1>0, <1>1 DEF Lists, ItemsAt
<1>11. turn \in Listings(item)'
  BY <1>10, ListingIs, ListingsStay
<1>12. ItemsAt(id)' = items
  BY <1>0, <1>1, PageTaskStays
<1>13. ASSUME NEW d \in Consumer PROVE Past(d, turn)'
  <2> SUFFICES ASSUME hand'[d].step # "idle", StreamOf(d) = "CatalogPageTask", hand'[d].id = id
               PROVE  place + Len(hand'[d].rest) <= Len(items)
    BY <1>0, <1>12 DEF Past, Holds, StreamOf
  <2>1. d = c
    BY <1>0, <1>1, <1>2, <1>4 DEF HandlersInv, HeldOnce
  <2> QED
    BY <1>4, <1>8, <2>1
<1>14. turn[1] <= delivered'["CatalogPageTask"]
  BY <1>0, <1>1, <1>2
<1>15. turn \in Spent(item)'
  BY <1>11, <1>13, <1>14 DEF Spent
<1> QED
  BY <1>9, <1>15

LEMMA RetriesStaySpent ==
  ASSUME IInv, IInv', Grows, HandlersInv, RestInv, PlacesFinite, PlacesFinite',
         PendingHeld, RetriesSpent, [Next]_vars, slow = 0, ~Fault
  PROVE  RetriesSpent'
<1> SUFFICES ASSUME NEW item \in Items
             PROVE  Cardinality(Retries(item)') <= Cardinality(Spent(item)')
  BY DEF RetriesSpent
<1>1. Cardinality(Retries(item)) <= Cardinality(Spent(item))
  BY DEF RetriesSpent
<1>2. IsFiniteSet(Retries(item)) /\ Cardinality(Retries(item)) \in Nat
  BY RetriesFinite
<1>3. /\ IsFiniteSet(Spent(item)) /\ Cardinality(Spent(item)) \in Nat
      /\ IsFiniteSet(Spent(item)') /\ Cardinality(Spent(item)') \in Nat
  BY SpentFinite, SpentFiniteNext
<1>4. Spent(item) \subseteq Spent(item)'
  BY HandsGo, SpentStays
<1>5. Cardinality(Spent(item)) <= Cardinality(Spent(item)')
  BY <1>3, <1>4, FS_Subset
<1>6. ASSUME Retries(item)' \subseteq Retries(item)
      PROVE  Cardinality(Retries(item)') <= Cardinality(Spent(item)')
  <2>1. IsFiniteSet(Retries(item)') /\ Cardinality(Retries(item)') <= Cardinality(Retries(item))
    BY <1>2, <1>6, FS_Subset
  <2>2. Cardinality(Retries(item)') \in Nat
    BY <2>1, FS_CardinalityType
  <2> QED
    BY <1>1, <1>2, <1>3, <1>5, <2>1, <2>2
<1>7. "ItemRetryTask" \in Streams /\ EntriesOK
  BY TypeHasEntries DEF Streams, IInv
<1>8. item # Dummy /\ item \in Message
  BY WorkersAssumption DEF WorkersAssumption, Message
<1>9. CASE OnlyDummiesNew("ItemRetryTask")
  <2>1. Retries(item)' \subseteq Retries(item)
    BY <1>7, <1>8, <1>9, MessageStays DEF Retries, OnlyDummiesNew
  <2> QED
    BY <1>6, <2>1
<1>10. ASSUME NEW c \in Consumer, ParsePageItem(c)
       PROVE  Cardinality(Retries(item)') <= Cardinality(Spent(item)')
  <2> DEFINE q == entries["ItemRetryTask"]
             new == Len(q) + 1
  <2>1. q \in Seq(Message)
    BY <1>7 DEF EntriesOK
  <2>2. Head(hand[c].rest) \in Message
    <3>1. hand[c].rest \in Seq(Items) /\ hand[c].rest # << >>
      BY <1>10, TypeParts DEF IInv, Hand, ParsePageItem
    <3>2. Head(hand[c].rest) \in Items
      BY <3>1, HeadOrTail
    <3> QED
      BY <3>2 DEF Message
  <2>3. entries' = entries \/ entries' = [entries EXCEPT !["ItemRetryTask"] = Append(@, Head(hand[c].rest))]
    BY <1>10 DEF ParsePageItem, AddTask, AddTaskFails
  <2>4. CASE entries' = entries
    BY <1>6, <2>4 DEF Retries
  <2>5. CASE entries' = [entries EXCEPT !["ItemRetryTask"] = Append(@, Head(hand[c].rest))]
    <3>1. entries'["ItemRetryTask"] = Append(q, Head(hand[c].rest))
      BY <1>7, <2>5 DEF EntriesOK
    <3>2. \A id \in DOMAIN Append(q, Head(hand[c].rest)) :
            \/ id \in DOMAIN q /\ Append(q, Head(hand[c].rest))[id] = q[id]
            \/ id = new /\ Append(q, Head(hand[c].rest))[id] = Head(hand[c].rest)
      BY <2>1, <2>2
    <3>3. CASE item # Head(hand[c].rest)
      <4>1. Retries(item)' \subseteq Retries(item)
        BY <3>1, <3>2, <3>3 DEF Retries
      <4> QED
        BY <1>6, <4>1
    <3>4. CASE item = Head(hand[c].rest)
      <4>1. Retries(item)' \subseteq Retries(item) \union {new}
        BY <3>1, <3>2 DEF Retries
      <4>2. IsFiniteSet(Retries(item) \union {new})
            /\ Cardinality(Retries(item) \union {new}) <= Cardinality(Retries(item)) + 1
        <5>1. /\ IsFiniteSet(Retries(item) \union {new})
              /\ \/ Cardinality(Retries(item) \union {new}) = Cardinality(Retries(item))
                 \/ Cardinality(Retries(item) \union {new}) = Cardinality(Retries(item)) + 1
          BY <1>2, FS_AddElement, Zenon
        <5> QED
          BY <1>2, <5>1
      <4>3. Cardinality(Retries(item) \union {new}) \in Nat
        BY <4>2, FS_CardinalityType
      <4>4. IsFiniteSet(Retries(item)')
            /\ Cardinality(Retries(item)') <= Cardinality(Retries(item) \union {new})
        BY <4>1, <4>2, FS_Subset
      <4>5. Cardinality(Retries(item)') \in Nat
        BY <4>4, FS_CardinalityType
      <4>6. PICK turn : turn \notin Spent(item) /\ turn \in Spent(item)'
        BY <1>10, <3>4, ItemSpends DEF RestInv
      <4>7. Cardinality(Spent(item) \union {turn}) = Cardinality(Spent(item)) + 1
        BY <1>3, <4>6, FS_AddElement
      <4>8. Spent(item) \union {turn} \in SUBSET Spent(item)'
        BY <1>4, <4>6
      <4>9. Cardinality(Spent(item) \union {turn}) <= Cardinality(Spent(item)')
        BY <1>3, <4>8, FS_Subset
      <4> QED
        BY <1>1, <1>2, <1>3, <4>2, <4>3, <4>4, <4>5, <4>7, <4>9
    <3> QED
      BY <3>3, <3>4
  <2> QED
    BY <2>3, <2>4, <2>5
<1> QED
  BY <1>9, <1>10, StreamsStep

-----------------------------------------------------------------------------
(* The theorems.                                                           *)

LEMMA InitRetries == Init => RetriesInv
<1> SUFFICES ASSUME Init PROVE RetriesInv
  OBVIOUS
<1>1. RestInv
  BY DEF Init, RestInv, RestOf, Nothing
<1>2. "CatalogPageTask" \in Streams /\ "ItemRetryTask" \in Streams
  BY DEF Streams
<1>3. ASSUME NEW item \in Items PROVE Listings(item) = {} /\ Retries(item) = {} /\ Spent(item) = {}
  <2>1. PageTasks = << >> /\ entries["ItemRetryTask"] = << >>
    BY <1>2 DEF Init, PageTasks
  <2>2. \A turn : turn \notin Listings(item)
    BY <2>1, ListingIs DEF Lists
  <2> QED
    BY <2>1, <2>2 DEF Retries, Spent
<1>4. PlacesFinite
  BY <1>3, FS_EmptySet DEF PlacesFinite
<1>5. RetriesSpent
  <2> SUFFICES ASSUME NEW item \in Items PROVE Cardinality(Retries(item)) <= Cardinality(Spent(item))
    BY DEF RetriesSpent
  <2>1. Retries(item) = {} /\ Spent(item) = {} /\ Cardinality({}) = 0
    BY <1>3, FS_EmptySet
  <2> QED
    BY <2>1
<1>6. PendingHeld
  BY DEF Init, PendingHeld
<1> QED
  BY <1>1, <1>4, <1>5, <1>6 DEF RetriesInv

\* Pending page tasks are held, what a worker has left is the end of its page's list,
\* and there are no more retries of an item than places the workers have gone past.
THEOREM RetriesInvariant == Spec => []RetriesInv
<1>1. IInv /\ IInv' /\ HandlersInv /\ RetriesInv /\ [Next]_vars => RetriesInv'
  <2> SUFFICES ASSUME IInv, IInv', HandlersInv, RetriesInv, [Next]_vars PROVE RetriesInv'
    OBVIOUS
  <2>1. Grows
    BY NextInv
  <2>2. RestInv' /\ PlacesFinite'
    BY <2>1, NextRest, PlacesStayFinite DEF RetriesInv
  <2>3. ASSUME faults' = 0, slow' = 0 PROVE PendingHeld' /\ RetriesSpent'
    <3>1. faults = 0 /\ slow = 0 /\ ~Fault
      BY <2>3, NoFaultStep
    <3>2. RestInv /\ PlacesFinite /\ PendingHeld /\ RetriesSpent
      BY <3>1 DEF RetriesInv
    <3> QED
      BY <2>1, <2>2, <3>1, <3>2, PendingStays, RetriesStaySpent
  <2> QED
    BY <2>2, <2>3 DEF RetriesInv
<1> QED
  BY <1>1, InitRetries, Invariant, HandlersInvariant, PTL DEF Spec

\* Without faults and slow consumers an item is put into the retry queue at most once
\* for every time a page task lists it: RetriesBounded of every run.
THEOREM RetriesAreBounded == Spec => []RetriesBounded
<1>1. ASSUME IInv, RetriesInv PROVE RetriesBounded
  <2> SUFFICES ASSUME faults = 0, slow = 0, NEW item \in Items
               PROVE  Cardinality(Retries(item)) <= Cardinality(Listings(item))
    BY DEF RetriesBounded
  <2>1. PlacesFinite /\ Cardinality(Retries(item)) <= Cardinality(Spent(item))
    BY <1>1 DEF RetriesInv, RetriesSpent
  <2>2. IsFiniteSet(Listings(item)) /\ Cardinality(Listings(item)) \in Nat
    BY <2>1, FS_CardinalityType DEF PlacesFinite
  <2>3. /\ Cardinality(Spent(item)) \in Nat
        /\ Cardinality(Spent(item)) <= Cardinality(Listings(item))
    BY <2>1, SpentFinite
  <2>4. Cardinality(Retries(item)) \in Nat
    BY <1>1, RetriesFinite
  <2> QED
    BY <2>1, <2>2, <2>3, <2>4
<1> QED
  BY <1>1, Invariant, RetriesInvariant, PTL

=============================================================================
