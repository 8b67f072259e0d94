---------------------------- MODULE TaskWorkers ----------------------------
(***************************************************************************)
(* The workers of Service.RunWorkers and the three Redis streams they read *)
(* through one consumer group: page tasks, page retries and item retries.  *)
(* Every stream has its regular workers, which read new messages, and one  *)
(* auto-claimer, which takes over messages whose consumer has not          *)
(* acknowledged them for minIdleTime.                                      *)
(*                                                                         *)
(* A message is its payload: the page or the item it is about.  Its ID is  *)
(* its position in the stream.  What a page holds is a constant; whether a *)
(* page or an item can be fetched or saved is decided anew at every try.   *)
(* The failure stage of an item retry is left out: retryItem fetches and   *)
(* saves the item again in both stages.                                    *)
(*                                                                         *)
(* The crawl is the environment: it adds page tasks and page retries       *)
(* (module CatalogCrawl).  The process may die at any moment and is        *)
(* started again; the streams, the group and the database survive.         *)
(***************************************************************************)
EXTENDS Integers, Sequences, FiniteSets, SequencesExt

CONSTANTS
  Pages,        \* catalog pages
  Items,        \* items they list
  PageItems,    \* the items of a page, in its order
  Dummy,        \* the entry EnsureStreamsExist puts in a stream
  MaxWorkers,   \* numWorkers of RunWorkers
  MaxCrawled,   \* bound: messages the crawl adds
  MaxFaults,    \* bound: Redis calls that fail, and deaths of the process
  MaxSlow,      \* bound: messages left idle for minIdleTime by a live consumer
  MaxDummies    \* bound: dummy entries that are left behind

ASSUME WorkersAssumption ==
  /\ PageItems \in [Pages -> Seq(Items)]
  /\ Dummy \notin Pages \union Items
  /\ {MaxWorkers, MaxCrawled, MaxFaults, MaxSlow, MaxDummies} \subseteq Nat

VARIABLES
  \* Redis.
  entries,    \* the messages of a stream
  delivered,  \* last-delivered-id of the group
  pending,    \* delivered and not acknowledged (the group's PEL)
  idle,       \* of these, the ones last delivered at least minIdleTime ago
  \* Postgres.
  saved,      \* items in the parts table
  \* History: payloads the code gives up, which it does by logging an error.
  dropped,    \* their final retry failed
  lost,       \* their retry task could not be added
  \* The process.
  running,    \* EnsureStreamsExist is done, the workers run
  hand,       \* what a consumer is doing
  \* Counters of the bounds.
  crawled, faults, slow

redis == <<entries, delivered, pending, idle>>
bounds == <<crawled, faults, slow>>
vars == <<redis, saved, dropped, lost, running, hand, bounds>>

-----------------------------------------------------------------------------
(* Streams and consumers.                                                  *)

Streams == {"CatalogPageTask", "PageRetryTask", "ItemRetryTask"}

\* What a message of a stream is about.
Payload(s) == IF s = "ItemRetryTask" THEN Items ELSE Pages

WorkerCount(s) ==
  CASE s = "CatalogPageTask" -> MaxWorkers
    [] s = "PageRetryTask" -> MaxWorkers \div 4 + 1
    [] s = "ItemRetryTask" -> MaxWorkers \div 3 + 1

\* Consumer 0 of a stream is its auto-claimer.
Consumers(s) == {s} \X (0..WorkerCount(s))
Consumer == UNION {Consumers(s) : s \in Streams}
Claimer(s) == <<s, 0>>

StreamOf(c) == c[1]

\* A consumer waits for a message, handles one (of a page task the items in
\* rest are left), or is about to acknowledge it.
Nothing == [step |-> "idle", id |-> 0, rest |-> << >>]

Handling(s, id) ==
  LET m == entries[s][id] IN
  [step |-> "handle",
   id |-> id,
   rest |-> IF s = "CatalogPageTask" /\ m # Dummy THEN PageItems[m] ELSE << >>]

MessageOf(c) == entries[StreamOf(c)][hand[c].id]

Holds(c, s, id) == hand[c].step # "idle" /\ StreamOf(c) = s /\ hand[c].id = id

\* The messages of the streams, as pairs of stream and ID.
Messages == UNION {{s} \X DOMAIN entries[s] : s \in Streams}

Dummies == {m \in Messages : entries[m[1]][m[2]] = Dummy}

-----------------------------------------------------------------------------
(* The queue.                                                              *)

AddTask(s, m) == entries' = [entries EXCEPT ![s] = Append(@, m)]

\* A call of Redis that returns an error may have been carried out.
Fault ==
  /\ faults < MaxFaults
  /\ faults' = faults + 1
  /\ UNCHANGED <<crawled, slow>>

AddTaskFails(s, m) == Fault /\ (AddTask(s, m) \/ UNCHANGED entries)

\* The consumer is done with its message, which stays pending when it was not
\* acknowledged.
LetGo(c) == hand' = [hand EXCEPT ![c] = Nothing]

AboutToAck(c) == hand' = [hand EXCEPT ![c].step = "ack"]

-----------------------------------------------------------------------------
(* The specification.                                                      *)

Init ==
  /\ entries = [s \in Streams |-> << >>]
  /\ delivered = [s \in Streams |-> 0]
  /\ pending = [s \in Streams |-> {}]
  /\ idle = [s \in Streams |-> {}]
  /\ saved = {}
  /\ dropped = {}
  /\ lost = {}
  /\ running = FALSE
  /\ hand = [c \in Consumer |-> Nothing]
  /\ crawled = 0
  /\ faults = 0
  /\ slow = 0

LeaveDummies(streams, left) ==
  [s \in Streams |-> IF s \in left THEN Append(streams[s], Dummy) ELSE streams[s]]

\* The process starts: for every stream in turn a dummy entry is added, the group
\* is created if it is not there, and the dummy is deleted.  A deletion that fails
\* is logged and leaves it behind; so does the death of the process before it.
\* NewRedisQueue does so, then Container.Run again, before there is any worker.
EnsureStreamsExist ==
  /\ ~running
  /\ \E left, leftAgain \in SUBSET Streams :
       /\ Cardinality(Dummies) + Cardinality(left) + Cardinality(leftAgain) <= MaxDummies
       /\ entries' = LeaveDummies(LeaveDummies(entries, left), leftAgain)
  /\ running' = TRUE
  /\ UNCHANGED <<delivered, pending, idle, saved, dropped, lost, hand, bounds>>

\* The crawl adds a page it fetched, or the retry of a page it could not fetch.
CrawlAdds(p) ==
  /\ running
  /\ crawled < MaxCrawled
  /\ crawled' = crawled + 1
  /\ \/ AddTask("CatalogPageTask", p)
     \/ AddTask("PageRetryTask", p)
  /\ UNCHANGED <<delivered, pending, idle, saved, dropped, lost, running, hand, faults, slow>>

\* Plausible bug: the group is read with NOACK, nothing is ever pending.
GetTaskNoAck(c) ==
  LET s == StreamOf(c)
      id == delivered[s] + 1 IN
  /\ running
  /\ c # Claimer(s)
  /\ hand[c].step = "idle"
  /\ id <= Len(entries[s])
  /\ delivered' = [delivered EXCEPT ![s] = id]
  /\ hand' = [hand EXCEPT ![c] = Handling(s, id)]
  /\ UNCHANGED <<entries, pending, idle, saved, dropped, lost, running, bounds>>

\* A regular worker reads the next new message; when the reply is lost the message
\* is delivered all the same.
GetTask(c) ==
  LET s == StreamOf(c)
      id == delivered[s] + 1 IN
  /\ running
  /\ c # Claimer(s)
  /\ hand[c].step = "idle"
  /\ id <= Len(entries[s])
  /\ delivered' = [delivered EXCEPT ![s] = id]
  /\ pending' = [pending EXCEPT ![s] = @ \union {id}]
  /\ \/ hand' = [hand EXCEPT ![c] = Handling(s, id)] /\ UNCHANGED bounds
     \/ Fault /\ UNCHANGED hand
  /\ UNCHANGED <<entries, idle, saved, dropped, lost, running>>

\* minIdleTime passes for a message.
IdleElapses(s, id) ==
  /\ id \in pending[s] \ idle[s]
  /\ idle' = [idle EXCEPT ![s] = @ \union {id}]
  /\ IF \E c \in Consumers(s) : Holds(c, s, id)
     THEN slow < MaxSlow /\ slow' = slow + 1
     ELSE UNCHANGED slow
  /\ UNCHANGED <<entries, delivered, pending, saved, dropped, lost, running, hand, crawled, faults>>

\* Plausible bug: MinIdle is not passed on, any pending message is taken over.
ClaimWithoutMinIdle(s) ==
  LET c == Claimer(s) IN
  /\ running
  /\ hand[c].step = "idle"
  /\ \E id \in pending[s] :
       /\ \A other \in pending[s] : id <= other
       /\ idle' = [idle EXCEPT ![s] = @ \ {id}]
       /\ hand' = [hand EXCEPT ![c] = Handling(s, id)]
  /\ UNCHANGED <<entries, delivered, pending, saved, dropped, lost, running, bounds>>

\* Plausible bug: claimed messages are counted and not processed.
ClaimOnly(s) ==
  /\ running
  /\ \E id \in idle[s] : idle' = [idle EXCEPT ![s] = @ \ {id}]
  /\ UNCHANGED <<entries, delivered, pending, saved, dropped, lost, running, hand, bounds>>

\* The auto-claimer takes the oldest message that was idle for minIdleTime over
\* (the scan starts at 0-0 every time and claims one message).
AutoClaim(s) ==
  LET c == Claimer(s) IN
  /\ running
  /\ hand[c].step = "idle"
  /\ \E id \in idle[s] :
       /\ \A other \in idle[s] : id <= other
       /\ idle' = [idle EXCEPT ![s] = @ \ {id}]
       /\ \/ hand' = [hand EXCEPT ![c] = Handling(s, id)] /\ UNCHANGED bounds
          \/ Fault /\ UNCHANGED hand
  /\ UNCHANGED <<entries, delivered, pending, saved, dropped, lost, running>>

\* processMessage of a dummy: it has no task type, an error, and no acknowledgement.
RejectDummy(c) ==
  /\ hand[c].step = "handle"
  /\ MessageOf(c) = Dummy
  /\ LetGo(c)
  /\ UNCHANGED <<redis, saved, dropped, lost, running, bounds>>

\* Plausible bug: parsePage returns at the first item it cannot save.
ParsePageUpToFailure(c) ==
  LET item == Head(hand[c].rest) IN
  /\ hand[c].step = "handle"
  /\ hand[c].rest # << >>
  /\ \/ /\ saved' = saved \union {item}
        /\ hand' = [hand EXCEPT ![c].rest = Tail(@)]
        /\ UNCHANGED entries
     \/ /\ AddTask("ItemRetryTask", item)
        /\ hand' = [hand EXCEPT ![c].rest = << >>]
        /\ UNCHANGED saved
  /\ UNCHANGED <<delivered, pending, idle, dropped, lost, running, bounds>>

\* One turn of parsePage: the next item is fetched and saved, or handed to the item
\* retry queue; when even that fails, the error is logged.  Its URL is one that
\* parseItemURL understands: extractItems lists no other.
ParsePageItem(c) ==
  LET item == Head(hand[c].rest) IN
  /\ hand[c].step = "handle"
  /\ hand[c].rest # << >>
  /\ hand' = [hand EXCEPT ![c].rest = Tail(@)]
  /\ \/ /\ saved' = saved \union {item}
        /\ UNCHANGED <<entries, lost, bounds>>
     \/ /\ AddTask("ItemRetryTask", item)
        /\ UNCHANGED <<saved, lost, bounds>>
     \/ /\ AddTaskFails("ItemRetryTask", item)
        /\ lost' = lost \union {item}
        /\ UNCHANGED saved
  /\ UNCHANGED <<delivered, pending, idle, dropped, running>>

\* The end of parsePage.  It never returns an error: the page itself is never put
\* in the retry queue.
FinishPage(c) ==
  /\ hand[c].step = "handle"
  /\ hand[c].rest = << >>
  /\ StreamOf(c) = "CatalogPageTask"
  /\ MessageOf(c) # Dummy
  /\ AboutToAck(c)
  /\ UNCHANGED <<redis, saved, dropped, lost, running, bounds>>

\* Plausible bug: the recovered page goes to the stream of the item retries.
RetryPageToItems(c) ==
  /\ hand[c].step = "handle"
  /\ StreamOf(c) = "PageRetryTask"
  /\ MessageOf(c) # Dummy
  /\ AddTask("ItemRetryTask", MessageOf(c))
  /\ AboutToAck(c)
  /\ UNCHANGED <<delivered, pending, idle, saved, dropped, lost, running, bounds>>

\* Plausible bug: a recovered page whose task cannot be added is acknowledged.
RetryPageAlwaysAcked(c) ==
  /\ hand[c].step = "handle"
  /\ StreamOf(c) = "PageRetryTask"
  /\ MessageOf(c) # Dummy
  /\ \/ AddTask("CatalogPageTask", MessageOf(c)) /\ UNCHANGED bounds
     \/ AddTaskFails("CatalogPageTask", MessageOf(c))
  /\ AboutToAck(c)
  /\ UNCHANGED <<delivered, pending, idle, saved, dropped, lost, running>>

\* retryPage: a page that cannot be fetched is dropped, one that can becomes a
\* page task.  When the task cannot be added the retry is not acknowledged.
RetryPage(c) ==
  LET p == MessageOf(c) IN
  /\ hand[c].step = "handle"
  /\ StreamOf(c) = "PageRetryTask"
  /\ p # Dummy
  /\ \/ /\ dropped' = dropped \union {p}
        /\ AboutToAck(c)
        /\ UNCHANGED <<entries, bounds>>
     \/ /\ AddTask("CatalogPageTask", p)
        /\ AboutToAck(c)
        /\ UNCHANGED <<dropped, bounds>>
     \/ /\ AddTaskFails("CatalogPageTask", p)
        /\ LetGo(c)
        /\ UNCHANGED dropped
  /\ UNCHANGED <<delivered, pending, idle, saved, lost, running>>

\* Plausible bug: the retry that fails is queued again.
RetryItemAgain(c) ==
  /\ hand[c].step = "handle"
  /\ StreamOf(c) = "ItemRetryTask"
  /\ MessageOf(c) # Dummy
  /\ \/ saved' = saved \union {MessageOf(c)} /\ UNCHANGED entries
     \/ AddTask("ItemRetryTask", MessageOf(c)) /\ UNCHANGED saved
  /\ AboutToAck(c)
  /\ UNCHANGED <<delivered, pending, idle, dropped, lost, running, bounds>>

\* Plausible bug: the final failure is returned as an error.
RetryItemUnacked(c) ==
  /\ hand[c].step = "handle"
  /\ StreamOf(c) = "ItemRetryTask"
  /\ MessageOf(c) # Dummy
  /\ \/ saved' = saved \union {MessageOf(c)} /\ AboutToAck(c)
     \/ UNCHANGED saved /\ LetGo(c)
  /\ UNCHANGED <<redis, dropped, lost, running, bounds>>

\* retryItem: the item is saved, or dropped when it still cannot be.
RetryItem(c) ==
  LET item == MessageOf(c) IN
  /\ hand[c].step = "handle"
  /\ StreamOf(c) = "ItemRetryTask"
  /\ item # Dummy
  /\ \/ saved' = saved \union {item} /\ UNCHANGED dropped
     \/ dropped' = dropped \union {item} /\ UNCHANGED saved
  /\ AboutToAck(c)
  /\ UNCHANGED <<redis, lost, running, bounds>>

\* The end of processMessage.
AckTask(c) ==
  LET s == StreamOf(c) IN
  /\ hand[c].step = "ack"
  /\ \/ /\ pending' = [pending EXCEPT ![s] = @ \ {hand[c].id}]
        /\ idle' = [idle EXCEPT ![s] = @ \ {hand[c].id}]
        /\ UNCHANGED bounds
     \/ Fault /\ UNCHANGED <<pending, idle>>
  /\ LetGo(c)
  /\ UNCHANGED <<entries, delivered, saved, dropped, lost, running>>

\* The process dies; its consumers forget what they were doing.
Crash ==
  /\ running
  /\ Fault
  /\ running' = FALSE
  /\ hand' = [c \in Consumer |-> Nothing]
  /\ UNCHANGED <<redis, saved, dropped, lost>>

ProcessMessage(c) ==
  RejectDummy(c) \/ ParsePageItem(c) \/ FinishPage(c) \/ RetryPage(c) \/ RetryItem(c) \/ AckTask(c)

Next ==
  \/ EnsureStreamsExist
  \/ \E p \in Pages : CrawlAdds(p)
  \/ \E c \in Consumer : GetTask(c) \/ ProcessMessage(c)
  \/ \E s \in Streams : AutoClaim(s)
  \/ \E s \in Streams : \E id \in pending[s] : IdleElapses(s, id)
  \/ Crash

Spec == Init /\ [][Next]_vars

\* The scheduler runs every goroutine that can run, calls of Redis and of the site
\* end, the tickers tick, time passes, and the process is started again when it
\* died.  A crawl need not go on.
Fairness ==
  /\ WF_vars(EnsureStreamsExist)
  /\ \A c \in Consumer : WF_vars(GetTask(c)) /\ WF_vars(ProcessMessage(c))
  /\ \A s \in Streams : WF_vars(AutoClaim(s))
  /\ \A s \in Streams : WF_vars(\E id \in pending[s] : IdleElapses(s, id))

FairSpec == Spec /\ Fairness

-----------------------------------------------------------------------------
(* Properties.                                                             *)

TypeOK ==
  /\ entries \in [Streams -> Seq(Pages \union Items \union {Dummy})]
  /\ \A s \in Streams : \A id \in DOMAIN entries[s] : entries[s][id] \in Payload(s) \union {Dummy}
  /\ delivered \in [Streams -> Nat]
  /\ \A s \in Streams : delivered[s] <= Len(entries[s])
  /\ pending \in [Streams -> SUBSET Nat]
  /\ \A s \in Streams : pending[s] \subseteq 1..delivered[s]
  /\ idle \in [Streams -> SUBSET Nat]
  /\ \A s \in Streams : idle[s] \subseteq pending[s]
  /\ saved \subseteq Items
  /\ dropped \subseteq Pages \union Items
  /\ lost \subseteq Items
  /\ running \in BOOLEAN
  /\ hand \in [Consumer -> [step : {"idle", "handle", "ack"}, id : Nat, rest : Seq(Items)]]
  /\ crawled \in 0..MaxCrawled
  /\ faults \in 0..MaxFaults
  /\ slow \in 0..MaxSlow

\* An item of a page needs no more work from the page's task.
ItemDone(item) == item \in saved \union lost \union ToSet(entries["ItemRetryTask"])

\* The work of a message is done.
Done(s, id) ==
  LET m == entries[s][id] IN
  /\ m # Dummy
  /\ s = "CatalogPageTask" => \A item \in ToSet(PageItems[m]) : ItemDone(item)
  /\ s = "PageRetryTask" => m \in dropped \union ToSet(entries["CatalogPageTask"])
  /\ s = "ItemRetryTask" => m \in saved \union dropped

Acked(s) == (1..delivered[s]) \ pending[s]

\* A message is acknowledged only when its work is done: every item of the page is
\* in the database, in the retry queue, or given up in the log; the page to retry
\* is a task again or dropped; the item to retry is saved or dropped.  This is so
\* whoever read it, claimed it, died with it or acknowledged it for somebody else.
AckedIsDone == \A s \in Streams : \A id \in Acked(s) : Done(s, id)

\* Two consumers handle the same message only when one of them took longer than
\* minIdleTime over a message; deaths and lost replies do not cause it.
SingleHandler ==
  slow = 0 =>
    \A s \in Streams : \A c, d \in Consumers(s) : \A id \in DOMAIN entries[s] :
      Holds(c, s, id) /\ Holds(d, s, id) => c = d

\* The places where page tasks list an item, and its retries.
Listings(item) ==
  UNION {{id} \X {i \in DOMAIN PageItems[entries["CatalogPageTask"][id]] :
                    PageItems[entries["CatalogPageTask"][id]][i] = item} :
         id \in {n \in DOMAIN entries["CatalogPageTask"] :
                   entries["CatalogPageTask"][n] # Dummy}}

Retries(item) == {id \in DOMAIN entries["ItemRetryTask"] : entries["ItemRetryTask"][id] = item}

\* Without faults and slow consumers an item is put into the retry queue at most
\* once for every time a page task lists it: no retry begets another retry.
RetriesBounded ==
  faults = 0 /\ slow = 0 =>
    \A item \in Items : Cardinality(Retries(item)) <= Cardinality(Listings(item))

\* An item of a page task ends up saved, or given up in the log.
ItemsSettle ==
  \A p \in Pages : \A item \in ToSet(PageItems[p]) :
    p \in ToSet(entries["CatalogPageTask"]) ~> item \in saved \union dropped \union lost

\* In the end every message of every stream has been delivered and acknowledged.
QueueDrains ==
  <>[](\A s \in Streams : delivered[s] = Len(entries[s]) /\ pending[s] = {})

-----------------------------------------------------------------------------
(* The inductive invariant behind AckedIsDone.                             *)

\* A consumer that holds a message holds a delivered one, and the items it is past
\* need no more work; about to acknowledge, it has done all of it.
HandsInv ==
  \A c \in Consumer :
    hand[c].step # "idle" =>
      LET s == StreamOf(c)
          m == MessageOf(c) IN
      /\ hand[c].id \in 1..delivered[s]
      /\ hand[c].step = "ack" => Done(s, hand[c].id)
      /\ hand[c].step = "handle" /\ s = "CatalogPageTask" /\ m # Dummy =>
           \A item \in ToSet(PageItems[m]) : ItemDone(item) \/ item \in ToSet(hand[c].rest)

WorkersInv == HandsInv /\ AckedIsDone

-----------------------------------------------------------------------------
\* The workers implement the ledger of tasks.  A task is a message.
Ledger == INSTANCE TaskLedger WITH
  Task <- Streams \X Nat,
  added <- Messages \ Dummies,
  done <- {m \in Messages : Done(m[1], m[2])},
  crossed <- UNION {{s} \X Acked(s) : s \in Streams}

ImplementsLedger == Ledger!Spec

=============================================================================
