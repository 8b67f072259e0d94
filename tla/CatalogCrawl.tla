---------------------------- MODULE CatalogCrawl ----------------------------
(***************************************************************************)
(* The crawl of ONE catalog category: the goroutine Service.ParseAll       *)
(* starts for it, the fetcher goroutines of                                *)
(* brickLinkClient.GetAllCatalogPagesCh that feed it through a buffered    *)
(* channel under a counting semaphore, and the resume page that the state  *)
(* manager keeps in Redis.  The process may be restarted at any moment:    *)
(* what is in Redis survives, everything else starts again.                *)
(*                                                                         *)
(* The five categories share no state but the Redis server (every one has  *)
(* its own progress key), so one category is the unit of the model.        *)
(*                                                                         *)
(* A page is its requested number.  What the site answers is abstracted to *)
(* what the code reads of it: how many pages the category has, and whether *)
(* the page carries the "Page x of y" text both numbers are parsed from.   *)
(***************************************************************************)
EXTENDS Integers, Sequences, FiniteSets, SequencesExt

CONSTANTS
  MaxWorkers,   \* cfg.BrickLink.MaxWorkers: semaphore size, and also minSaveInterval
  Totals,       \* the page counts the site may report
  Unnumbered,   \* the pages without that text: PageNumber and TotalPages stay 0
  MaxRestarts   \* bound on the restarts of the process

ASSUME CrawlAssumption ==
  /\ MaxWorkers \in Nat \ {0}
  /\ Totals \subseteq Nat \ {0}
  /\ Unnumbered \subseteq Nat
  /\ MaxRestarts \in Nat

VARIABLES
  \* In Redis: survive a restart.
  progress,     \* bricklink:progress:page:<category>; 0 when nothing was saved
  pageTasks,    \* pages added to the CatalogPageTask stream
  pageRetries,  \* pages added to the PageRetryTask stream
  \* History: pages whose fetch failed and whose retry task could not be added.
  abandoned,
  restarts,     \* how often the process was started again
  \* Goroutine of the category (ParseAll and the head of GetAllCatalogPagesCh).
  pc,
  startPage,    \* lastProcessedPage as passed to GetAllCatalogPagesCh; NoPage before that
  totalPages,   \* firstPage.TotalPages, also the capacity of pagesChan
  countPages,
  page,         \* the page received from the channel and not yet added
  \* The channel, the launching goroutine and the fetchers.
  pagesChan,
  launcher,     \* the goroutine that launches the fetchers and closes pagesChan
  pageNum,      \* the next page it launches a fetcher for
  semaphore,    \* slots taken
  fetching,     \* pages whose fetcher has not handed its result over
  leaving       \* pages whose fetcher has, and still holds its slot

durable == <<progress, pageTasks, pageRetries, abandoned, restarts>>
main == <<pc, startPage, totalPages, countPages, page>>
fetchers == <<pageNum, semaphore, fetching, leaving>>
vars == <<durable, main, pagesChan, launcher, fetchers>>

-----------------------------------------------------------------------------
(* Values.                                                                 *)

Page == Nat \ {0}

\* The value of startPage before the progress was read, and of page between two
\* turns of the receiving loop.
NoPage == 0

\* CatalogPage.PageNumber as the parser fills it in.
PageNumber(p) == IF p \in Unnumbered THEN 0 ELSE p

\* Plausible bug: the lower bound of max(0, ...) is forgotten.
UnclampedMaxOf(a, b) == b

MaxOf(a, b) == IF a > b THEN a ELSE b

\* Pages the crawl has put in Redis or has given up on.
Handed == pageTasks \union pageRetries \union abandoned

-----------------------------------------------------------------------------
(* The specification.                                                      *)

Init ==
  /\ progress = 0
  /\ pageTasks = {}
  /\ pageRetries = {}
  /\ abandoned = {}
  /\ restarts = 0
  /\ pc = "starting"
  /\ startPage = NoPage
  /\ totalPages = 0
  /\ countPages = 0
  /\ page = NoPage
  /\ pagesChan = << >>
  /\ launcher = "none"
  /\ pageNum = 1
  /\ semaphore = 0
  /\ fetching = {}
  /\ leaving = {}

\* SetLastProcessedPage: its callers ignore the error, so the write happens
\* or it does not.
SetLastProcessedPage(number) == progress' \in {progress, number}

\* Plausible bug: the saved page counts as done and the run starts after it.
ResumeAfterProgress ==
  /\ pc = "starting"
  /\ startPage' = progress + 1
  /\ pc' = "fetchFirst"
  /\ UNCHANGED <<durable, totalPages, countPages, page, pagesChan, launcher, fetchers>>

\* GetLastProcessedPage; a category without saved progress starts at page 1.
GetLastProcessedPage ==
  /\ pc = "starting"
  /\ \/ /\ startPage' = IF progress = 0 THEN 1 ELSE progress
        /\ pc' = "fetchFirst"
     \/ /\ pc' = "failed"
        /\ UNCHANGED startPage
  /\ UNCHANGED <<durable, totalPages, countPages, page, pagesChan, launcher, fetchers>>

\* Plausible bug: the launching loop starts at startPage and fetches it again.
FetchFirstPageTwice ==
  /\ pc = "fetchFirst"
  /\ startPage \notin Unnumbered
  /\ totalPages' \in Totals
  /\ pagesChan' = <<startPage>>
  /\ launcher' = IF totalPages' > startPage THEN "running" ELSE "none"
  /\ pageNum' = startPage
  /\ pc' = "range"
  /\ UNCHANGED <<durable, startPage, countPages, page, semaphore, fetching, leaving>>

\* The fetch of the start page: it sizes the channel, is its first element, and
\* decides whether there is a launching goroutine.  A page without the text
\* makes a channel of capacity 0: it has no reader yet, and sending to it never
\* returns.
FetchFirstPage ==
  /\ pc = "fetchFirst"
  /\ \/ /\ startPage \notin Unnumbered
        /\ totalPages' \in Totals
        /\ pagesChan' = <<startPage>>
        /\ launcher' = IF totalPages' > startPage THEN "running" ELSE "none"
        /\ pageNum' = startPage + 1
        /\ pc' = "range"
     \/ /\ startPage \in Unnumbered
        /\ pc' = "blocked"
        /\ UNCHANGED <<totalPages, pagesChan, launcher, pageNum>>
     \/ /\ pc' = "failed"
        /\ UNCHANGED <<totalPages, pagesChan, launcher, pageNum>>
  /\ UNCHANGED <<durable, startPage, countPages, page, semaphore, fetching, leaving>>

\* The launching goroutine takes a slot, then starts the fetcher of pageNum.
LaunchFetcher ==
  /\ launcher = "running"
  /\ pageNum <= totalPages
  /\ semaphore < MaxWorkers
  /\ semaphore' = semaphore + 1
  /\ fetching' = fetching \union {pageNum}
  /\ pageNum' = pageNum + 1
  /\ UNCHANGED <<durable, main, pagesChan, launcher, leaving>>

\* Plausible bug: the channel is made for one page and not for all of them.
SendPageUnbuffered(p) ==
  /\ p \in fetching
  /\ Len(pagesChan) < 1
  /\ pagesChan' = Append(pagesChan, p)
  /\ fetching' = fetching \ {p}
  /\ leaving' = leaving \union {p}
  /\ UNCHANGED <<durable, main, launcher, pageNum, semaphore>>

\* A fetcher got its page and sends it to the channel.
SendPage(p) ==
  /\ p \in fetching
  /\ Len(pagesChan) < totalPages
  /\ pagesChan' = Append(pagesChan, p)
  /\ fetching' = fetching \ {p}
  /\ leaving' = leaving \union {p}
  /\ UNCHANGED <<durable, main, launcher, pageNum, semaphore>>

\* Plausible bug: the error path returns without giving the slot back.
FailPageKeepingSlot(p) ==
  /\ p \in fetching
  /\ pageRetries' = pageRetries \union {p}
  /\ fetching' = fetching \ {p}
  /\ UNCHANGED <<progress, pageTasks, abandoned, restarts, main, pagesChan, launcher, pageNum,
                 semaphore, leaving>>

\* Plausible bug: the error path adds no retry task.
FailPageSilently(p) ==
  /\ p \in fetching
  /\ fetching' = fetching \ {p}
  /\ leaving' = leaving \union {p}
  /\ UNCHANGED <<durable, main, pagesChan, launcher, pageNum, semaphore>>

\* A fetcher could not get its page: it adds a retry task, or logs that AddTask
\* failed as well (whether the task was added all the same is not told apart:
\* the code has given the page up).
FailPage(p) ==
  /\ p \in fetching
  /\ \/ /\ pageRetries' = pageRetries \union {p}
        /\ UNCHANGED abandoned
     \/ /\ abandoned' = abandoned \union {p}
        /\ UNCHANGED pageRetries
  /\ fetching' = fetching \ {p}
  /\ leaving' = leaving \union {p}
  /\ UNCHANGED <<progress, pageTasks, restarts, main, pagesChan, launcher, pageNum, semaphore>>

\* A fetcher gives its slot back and is done.
ReleaseSlot(p) ==
  /\ p \in leaving
  /\ leaving' = leaving \ {p}
  /\ semaphore' = semaphore - 1
  /\ UNCHANGED <<durable, main, pagesChan, launcher, pageNum, fetching>>

\* Plausible bug: the channel is closed without waiting for the fetchers.
CloseWithoutWaiting ==
  /\ launcher = "running"
  /\ pageNum > totalPages
  /\ launcher' = "closed"
  /\ UNCHANGED <<durable, main, pagesChan, fetchers>>

\* The launching goroutine has launched every page, waits for the fetchers and
\* closes the channel.
ClosePagesChan ==
  /\ launcher = "running"
  /\ pageNum > totalPages
  /\ fetching \union leaving = {}
  /\ launcher' = "closed"
  /\ UNCHANGED <<durable, main, pagesChan, fetchers>>

\* Plausible bug: the last page of the category is saved, as at its end.
ReceivePageSavingLast ==
  /\ pc = "range"
  /\ pagesChan # << >>
  /\ page' = Head(pagesChan)
  /\ pagesChan' = Tail(pagesChan)
  /\ countPages' = countPages + 1
  /\ IF countPages' % MaxWorkers = 0
     THEN SetLastProcessedPage(totalPages)
     ELSE UNCHANGED progress
  /\ pc' = "adding"
  /\ UNCHANGED <<pageTasks, pageRetries, abandoned, restarts, startPage, totalPages,
                 launcher, fetchers>>

\* One turn of "for page := range dataCh": every MaxWorkers-th page moves the
\* resume page, before the page itself is added to the stream.
ReceivePage ==
  /\ pc = "range"
  /\ pagesChan # << >>
  /\ page' = Head(pagesChan)
  /\ pagesChan' = Tail(pagesChan)
  /\ countPages' = countPages + 1
  /\ IF countPages' % MaxWorkers = 0
     THEN SetLastProcessedPage(MaxOf(0, PageNumber(page') - MaxWorkers))
     ELSE UNCHANGED progress
  /\ pc' = "adding"
  /\ UNCHANGED <<pageTasks, pageRetries, abandoned, restarts, startPage, totalPages,
                 launcher, fetchers>>

\* AddTask of the received page; an error, which may be the loss of the reply
\* only, ends the category's goroutine and leaves the fetchers running.
AddPageTask ==
  /\ pc = "adding"
  /\ \/ /\ pageTasks' = pageTasks \union {page}
        /\ pc' \in {"range", "failed"}
     \/ /\ pc' = "failed"
        /\ UNCHANGED pageTasks
  /\ page' = NoPage
  /\ UNCHANGED <<progress, pageRetries, abandoned, restarts, startPage, totalPages, countPages,
                 pagesChan, launcher, fetchers>>

\* Plausible bug: the category is finished as soon as the channel is closed.
FinishBeforeDrained ==
  /\ pc = "range"
  /\ launcher = "closed"
  /\ SetLastProcessedPage(totalPages)
  /\ pc' = "done"
  /\ UNCHANGED <<pageTasks, pageRetries, abandoned, restarts, startPage, totalPages, countPages,
                 page, pagesChan, launcher, fetchers>>

\* The channel is drained and closed: the last page becomes the resume page.
FinishCategory ==
  /\ pc = "range"
  /\ pagesChan = << >>
  /\ launcher = "closed"
  /\ SetLastProcessedPage(totalPages)
  /\ pc' = "done"
  /\ UNCHANGED <<pageTasks, pageRetries, abandoned, restarts, startPage, totalPages, countPages,
                 page, pagesChan, launcher, fetchers>>

\* The process dies, or is stopped, and is started again.
Restart ==
  /\ restarts < MaxRestarts
  /\ restarts' = restarts + 1
  /\ pc' = "starting"
  /\ startPage' = NoPage
  /\ totalPages' = 0
  /\ countPages' = 0
  /\ page' = NoPage
  /\ pagesChan' = << >>
  /\ launcher' = "none"
  /\ pageNum' = 1
  /\ semaphore' = 0
  /\ fetching' = {}
  /\ leaving' = {}
  /\ UNCHANGED <<progress, pageTasks, pageRetries, abandoned>>

CategoryStep ==
  GetLastProcessedPage \/ FetchFirstPage \/ ReceivePage \/ AddPageTask \/ FinishCategory

LauncherStep == LaunchFetcher \/ ClosePagesChan

FetcherStep(p) == SendPage(p) \/ FailPage(p) \/ ReleaseSlot(p)

Next ==
  \/ CategoryStep
  \/ LauncherStep
  \/ \E p \in fetching \union leaving : FetcherStep(p)
  \/ Restart

Spec == Init /\ [][Next]_vars

\* Every goroutine that can run does (the Go scheduler), a fetch ends (the
\* client's timeouts) and so does a call to Redis.  Nothing obliges a fetch to fail,
\* so a fetcher that waits for room in the channel may wait for ever, nor anybody to
\* restart the process.
Fairness ==
  /\ WF_vars(CategoryStep)
  /\ WF_vars(LauncherStep)
  /\ \A total \in Totals : \A p \in 1..total : WF_vars(SendPage(p) \/ ReleaseSlot(p))

FairSpec == Spec /\ Fairness

-----------------------------------------------------------------------------
(* Properties.                                                             *)

TypeOK ==
  /\ progress \in Nat
  /\ pageTasks \subseteq Page
  /\ pageRetries \subseteq Page
  /\ abandoned \subseteq Page
  /\ restarts \in 0..MaxRestarts
  /\ pc \in {"starting", "fetchFirst", "blocked", "range", "adding", "done", "failed"}
  /\ startPage \in Nat
  /\ totalPages \in Nat
  /\ countPages \in Nat
  /\ page \in Page \union {NoPage}
  /\ pagesChan \in Seq(Page)
  /\ launcher \in {"none", "running", "closed"}
  /\ pageNum \in Page
  /\ semaphore \in 0..MaxWorkers
  /\ fetching \subseteq Page
  /\ leaving \subseteq Page

\* Pages of this run that the saved resume page has passed although Redis does
\* not hold them and nobody has given them up: a restart would skip them.
Overtaken == {p \in startPage..(progress - 1) : p \notin Handed}

\* The fetchers finish in any order, so the resume page of ParseAll may pass
\* pages that are still being fetched, but never more of them in one run than
\* the other slots of the semaphore: MaxWorkers - 1.
CheckpointGap == startPage # NoPage => Cardinality(Overtaken) <= MaxWorkers - 1

\* Nothing below the resume page is missing from Redis: a run that continues
\* there ("Continue from page %d") leaves no page out.  One worker keeps it.
NoPageSkipped == \A p \in 1..(progress - 1) : p \in Handed

\* When the goroutine reports "Completed", every page from its start page on
\* is in a stream or was given up by its own fetcher: no fetcher is late.
CompletedIsHanded ==
  pc = "done" => \A p \in startPage..totalPages : p \in Handed

\* A fetcher never waits for the reader of the channel, even when the reader
\* has returned with an error: the channel has room for every page in flight.
SendNeverBlocks == fetching # {} => Len(pagesChan) < totalPages

\* The fetchers of a category all end, also after its goroutine has failed.
FetchersExit == fetching \union leaving # {} ~> fetching \union leaving = {}

\* A crawl that starts below the last page ends: completed, failed, or cut
\* short by a restart.
CrawlEnds ==
  (pc = "range" /\ startPage < totalPages) ~> pc \in {"done", "failed", "starting"}

\* What Container.Run takes for granted ("ParseAll finishing"): the goroutine
\* of a category ends whatever page it starts at.
ParseAllFinishes == pc = "range" ~> pc \in {"done", "failed", "starting"}

-----------------------------------------------------------------------------
(* The inductive invariant behind CheckpointGap, CompletedIsHanded and     *)
(* SendNeverBlocks.                                                        *)

\* The semaphore counts the fetchers that hold a slot.
SlotsCounted ==
  /\ IsFiniteSet(fetching)
  /\ IsFiniteSet(leaving)
  /\ fetching \intersect leaving = {}
  /\ semaphore = Cardinality(fetching) + Cardinality(leaving)

\* Fetchers exist only while the launching goroutine waits for them, and only
\* for pages it has launched.
Launched ==
  /\ launcher # "running" => fetching \union leaving = {}
  /\ launcher = "running" => startPage # NoPage /\ pageNum \in (startPage + 1)..(totalPages + 1)
  /\ launcher = "closed" => pageNum = totalPages + 1
  /\ \A p \in fetching \union leaving : startPage < p /\ p < pageNum

\* The goroutine of the category has nothing of a run before it has started
\* one, and no page in hand outside AddTask.
Phases ==
  /\ pc \in {"starting", "fetchFirst", "blocked"} => pagesChan = << >> /\ launcher = "none"
  /\ pc = "adding" <=> page # NoPage
  /\ pc \in {"fetchFirst", "blocked", "range", "adding", "done"} => startPage # NoPage
  /\ pc = "starting" => startPage = NoPage

Receiving == pc \in {"range", "adding"}

\* Every launched page is in Redis, given up, in a fetcher, in the channel or
\* in the receiving goroutine's hands.
Accounted ==
  Receiving => \A p \in startPage..(pageNum - 1) :
                 p \in Handed \union fetching \union ToSet(pagesChan) \union {page}

\* Pages that will still be missing from Redis when the i-th page of the channel
\* is received although they come before it in the catalog.
Late(i) ==
  {p \in startPage..(pagesChan[i] - 1) :
     p \notin Handed /\ p # page /\ \A j \in 1..(i - 1) : pagesChan[j] # p}

\* They were in the other slots of the semaphore when that page was sent.
FewLate ==
  Receiving => \A i \in 1..Len(pagesChan) : Cardinality(Late(i)) <= MaxWorkers - 1

\* The channel has room for the pages in flight.
Room ==
  launcher = "running" => Len(pagesChan) + Cardinality(fetching) <= pageNum - startPage

CrawlInv ==
  /\ SlotsCounted
  /\ Launched
  /\ Phases
  /\ Accounted
  /\ FewLate
  /\ Room
  /\ CheckpointGap
  /\ CompletedIsHanded

\* With one worker nothing is overtaken in a run; what NoPageSkipped needs besides
\* is that a run leaves nothing out below the page it starts at.
BelowStart == startPage # NoPage => \A p \in 1..(startPage - 1) : p \in Handed

-----------------------------------------------------------------------------
\* The crawl implements the abstract resumable scan: Redis and the log of
\* abandoned pages are what is handed over, the progress key is the mark.
Scan == INSTANCE ResumableScan WITH
          Slack <- MaxWorkers - 1,
          handed <- Handed,
          mark <- progress,
          from <- startPage

ImplementsScan == Scan!Spec

=============================================================================
