---------------------------- MODULE Application ----------------------------
(***************************************************************************)
(* The process: main loads the configuration, container.New connects to    *)
(* Redis, makes sure that the streams exist and logs in, Container.Run     *)
(* makes sure of the streams again and starts ParseAll and RunWorkers side *)
(* by side.  ParseAll has a goroutine for every category, whose first      *)
(* error its error group keeps, and a channel that takes their results.    *)
(*                                                                         *)
(* What a category's goroutine does with the catalog is the business of    *)
(* CatalogCrawl, what a worker does with a task that of TaskWorkers.  Here *)
(* it matters whether they run, end, fail or hang, and in which process.   *)
(* log.Fatalf and a panic end the process; it can be started again.        *)
(***************************************************************************)
EXTENDS Integers, FiniteSets

CONSTANTS
  Category,   \* CategoryTypes
  Stream,     \* the streams of the queue
  Number,     \* what the configuration file may say where it wants a number: any int
  Half,       \* an int is in -Half..Half-1 (2^63)
  Second,     \* time.Second, in nanoseconds
  Unset,      \* the file does not say
  NoError,    \* the error of an error group nothing of which failed
  MaxStarts   \* bound: how often the process is started again

ASSUME ApplicationAssumption ==
  /\ IsFiniteSet(Category)
  /\ {Half, Second} \subseteq Nat
  /\ 10 < Half /\ 0 < 120 * Second /\ 120 * Second < Half
  /\ Number \subseteq -Half..(Half - 1)
  /\ Unset \notin Int
  /\ NoError \notin Category
  /\ MaxStarts \in Nat

VARIABLES
  file,         \* config.yaml, as it was when it was last read
  groups,       \* streams with a consumer group (Redis; survives the process)
  pc,           \* where main is; "wait" is in Container.Run, at the end
  session,      \* logged in
  crawl,        \* where the goroutine of a category is
  launching,    \* the categories whose launching goroutine has yet to make its semaphore
  resultsChan,  \* the categories whose results are in the channel
  groupErr,     \* the category whose error the group of ParseAll keeps
  parseAll,     \* where ParseAll is
  allResults,   \* the categories whose results ParseAll has collected
  workers,      \* what RunWorkers has started
  starts

crawling == <<crawl, launching, resultsChan, groupErr, parseAll, allResults>>
vars == <<file, groups, pc, session, crawling, workers, starts>>

-----------------------------------------------------------------------------
(* Configuration.                                                          *)

File == [workers : Number \union {Unset}, rate : Number \union {Unset},
         idle : Number \union {Unset}, credentials : BOOLEAN]

Default(value, default) == IF value = Unset THEN default ELSE value

\* Plausible bug: the defaults come after the file was decoded.
UnmarshalledEarly(f) ==
  [workers |-> Default(f.workers, 0), rate |-> Default(f.rate, 0),
   idle |-> Default(f.idle, 0), credentials |-> f.credentials]

\* max_workers, max_requests_per_second and min_idle_time, and whether there are a
\* user name and a password.  The rate has no default.
Unmarshalled(f) ==
  [workers |-> Default(f.workers, 10), rate |-> Default(f.rate, 0),
   idle |-> Default(f.idle, 120), credentials |-> f.credentials]

\* What this process has loaded.
cfg == Unmarshalled(file)

\* time.Duration(minIdleTime) * time.Second, in 64 bits.
Duration(seconds) ==
  LET product == (seconds * Second) % (2 * Half)
  IN  IF product < Half THEN product ELSE product - 2 * Half

-----------------------------------------------------------------------------
(* The process starts.                                                     *)

Init ==
  /\ file \in File
  /\ groups = {}
  /\ pc = "load"
  /\ session = FALSE
  /\ crawl = [k \in Category |-> "off"]
  /\ launching = {}
  /\ resultsChan = {}
  /\ groupErr = NoError
  /\ parseAll = "off"
  /\ allResults = {}
  /\ workers = "off"
  /\ starts = 0

\* main goes on, or an error ends it in log.Fatalf.
GoTo(next) == pc' = next
GoToOrDie(next) == pc' = next \/ pc' = "fatal"

\* config.yaml may have been changed since the last start.
Load ==
  /\ pc = "load"
  /\ file' \in File
  /\ GoToOrDie("connect")
  /\ UNCHANGED <<groups, session, crawling, workers, starts>>

\* The pool of Postgres, and a ping of Redis.
Connect ==
  /\ pc = "connect"
  /\ GoToOrDie("queue")
  /\ UNCHANGED <<file, groups, session, crawling, workers, starts>>

\* Plausible bug: a group that cannot be created is only logged.
EnsureStreamsLeniently(at, next) ==
  /\ pc = at
  /\ \E made \in SUBSET Stream : groups' = groups \union made
  /\ GoTo(next)
  /\ UNCHANGED <<file, session, crawling, workers, starts>>

\* EnsureStreamsExist: a group for every stream, or an error after some of them (of
\* which the last may have been created all the same).
EnsureStreamsExist(at, next) ==
  /\ pc = at
  /\ \/ groups' = Stream /\ GoTo(next)
     \/ /\ \E made \in SUBSET Stream : groups' = groups \union made
        /\ GoTo("fatal")
  /\ UNCHANGED <<file, session, crawling, workers, starts>>

\* The limiter divides by the rate (a negative one is no error).  A session is wanted
\* with credentials only.
NewBrickLinkClient ==
  /\ pc = "client"
  /\ IF cfg.rate = 0 THEN GoTo("panicked")
     ELSE IF cfg.credentials THEN GoTo("mainPage") ELSE GoTo("ensure")
  /\ UNCHANGED <<file, groups, session, crawling, workers, starts>>

\* Login, first request: any surprise is fatal.
GetMainPage ==
  /\ pc = "mainPage"
  /\ GoToOrDie("login")
  /\ UNCHANGED <<file, groups, session, crawling, workers, starts>>

\* Plausible bug: the failure is returned to NewBrickLinkClient, which logs it.
PostLoginReturningError ==
  /\ pc = "login"
  /\ session' \in BOOLEAN
  /\ GoTo("ensure")
  /\ UNCHANGED <<file, groups, crawling, workers, starts>>

\* Login, second request: only returnCode 0 is a session.  All else is fatal, so
\* that the error NewBrickLinkClient would go on after never gets there.
PostLogin ==
  /\ pc = "login"
  /\ \/ session' = TRUE /\ GoTo("ensure")
     \/ UNCHANGED session /\ GoTo("fatal")
  /\ UNCHANGED <<file, groups, crawling, workers, starts>>

StartUp ==
  \/ Load \/ Connect \/ EnsureStreamsExist("queue", "client")
  \/ NewBrickLinkClient \/ GetMainPage \/ PostLogin \/ EnsureStreamsExist("ensure", "wait")

-----------------------------------------------------------------------------
(* The crawl.                                                              *)

\* ParseAll starts a goroutine for every category.
StartParseAll ==
  /\ pc = "wait"
  /\ parseAll = "off"
  /\ parseAll' = "waiting"
  /\ crawl' = [k \in Category |-> "reading"]
  /\ UNCHANGED <<file, groups, pc, session, launching, resultsChan, groupErr, allResults, workers, starts>>

\* The goroutine returns an error; the error group keeps the first one.  It has no
\* context: nobody else notices.
ReturnError(k) ==
  /\ crawl' = [crawl EXCEPT ![k] = "failed"]
  /\ groupErr' = IF groupErr = NoError THEN k ELSE groupErr

Proceed(k, next) == crawl' = [crawl EXCEPT ![k] = next] /\ UNCHANGED groupErr

\* The resume page is read from Redis.
ReadProgress(k) ==
  /\ pc = "wait"
  /\ crawl[k] = "reading"
  /\ Proceed(k, "fetching") \/ ReturnError(k)
  /\ UNCHANGED <<file, groups, pc, session, launching, resultsChan, parseAll, allResults, workers,
                 starts>>

\* The first page of the category: there are more pages, which a goroutine will launch
\* the fetchers of; or it is the last one, and nobody will ever close the channel; or the
\* channel has no room for it (CatalogCrawl shows when); or there is an error.
FetchFirstPage(k) ==
  /\ pc = "wait"
  /\ crawl[k] = "fetching"
  /\ \/ Proceed(k, "receiving") /\ launching' = launching \union {k}
     \/ /\ Proceed(k, "lastPage") \/ Proceed(k, "hung") \/ ReturnError(k)
        /\ UNCHANGED launching
  /\ UNCHANGED <<file, groups, pc, session, resultsChan, parseAll, allResults, workers, starts>>

\* The launching goroutine makes its semaphore, a channel of MaxWorkers elements.
MakeSemaphore(k) ==
  /\ pc = "wait"
  /\ k \in launching
  /\ launching' = launching \ {k}
  /\ pc' = IF cfg.workers < 0 THEN "panicked" ELSE pc
  /\ UNCHANGED <<file, groups, session, crawl, resultsChan, groupErr, parseAll, allResults, workers,
                 starts>>

\* A page comes out of the channel and is made a task.  The interval of saving the
\* resume page is MaxWorkers, and the count of pages is divided by it.
ReceivePage(k) ==
  /\ pc = "wait"
  /\ crawl[k] \in {"receiving", "received", "lastPage"}
  /\ IF cfg.workers = 0
     THEN pc' = "panicked" /\ UNCHANGED <<crawl, groupErr>>
     ELSE /\ Proceed(k, IF crawl[k] = "lastPage" THEN "hung" ELSE "received") \/ ReturnError(k)
          /\ UNCHANGED pc
  /\ UNCHANGED <<file, groups, session, launching, resultsChan, parseAll, allResults, workers, starts>>

\* Plausible bug: the channel of the results has no buffer.
FinishUnbuffered(k) ==
  /\ pc = "wait"
  /\ crawl[k] = "received"
  /\ k \notin launching
  /\ parseAll # "waiting"
  /\ resultsChan' = resultsChan \union {k}
  /\ Proceed(k, "done")
  /\ UNCHANGED <<file, groups, pc, session, launching, parseAll, allResults, workers, starts>>

\* The channel of the category is closed.  Its result is sent, which waits for room.
FinishCategory(k) ==
  /\ pc = "wait"
  /\ crawl[k] = "received"
  /\ k \notin launching
  /\ Cardinality(resultsChan) < Cardinality(Category)
  /\ resultsChan' = resultsChan \union {k}
  /\ Proceed(k, "done")
  /\ UNCHANGED <<file, groups, pc, session, launching, parseAll, allResults, workers, starts>>

CategoryStep(k) ==
  ReadProgress(k) \/ FetchFirstPage(k) \/ MakeSemaphore(k) \/ ReceivePage(k) \/ FinishCategory(k)

Returned(k) == crawl[k] \in {"done", "failed"}

\* Plausible bug: ParseAll returns with the first error.
ParseAllReturnsEarly ==
  /\ pc = "wait"
  /\ parseAll = "waiting"
  /\ groupErr # NoError \/ \A k \in Category : Returned(k)
  /\ parseAll' = IF groupErr = NoError THEN "completed" ELSE "failed"
  /\ allResults' = resultsChan
  /\ resultsChan' = {}
  /\ UNCHANGED <<file, groups, pc, session, crawl, launching, groupErr, workers, starts>>

\* ParseAll waits for all of its goroutines.  It returns the error that was kept, or
\* collects the results.  Container.Run waits for the workers, too, and these return
\* only when the context of main is done, which is context.Background().
ParseAllReturns ==
  /\ pc = "wait"
  /\ parseAll = "waiting"
  /\ \A k \in Category : Returned(k)
  /\ IF groupErr = NoError
     THEN /\ parseAll' = "completed"
          /\ allResults' = resultsChan
          /\ resultsChan' = {}
     ELSE parseAll' = "failed" /\ UNCHANGED <<allResults, resultsChan>>
  /\ UNCHANGED <<file, groups, pc, session, crawl, launching, groupErr, workers, starts>>

-----------------------------------------------------------------------------
(* The workers, and the end of the process.                                *)

\* A ticker of minIdleTime for each stream, which has to be positive.  The goroutines
\* never end; of a number of workers that is not positive some streams have none.
RunWorkers ==
  /\ pc = "wait"
  /\ workers = "off"
  /\ IF Duration(cfg.idle) <= 0
     THEN pc' = "panicked" /\ UNCHANGED workers
     ELSE workers' = "running" /\ UNCHANGED pc
  /\ UNCHANGED <<file, groups, session, crawling, starts>>

\* The process ended, or is ended, and is started again.
Restart ==
  /\ starts < MaxStarts
  /\ starts' = starts + 1
  /\ pc' = "load"
  /\ session' = FALSE
  /\ crawl' = [k \in Category |-> "off"]
  /\ launching' = {}
  /\ resultsChan' = {}
  /\ groupErr' = NoError
  /\ parseAll' = "off"
  /\ allResults' = {}
  /\ workers' = "off"
  /\ UNCHANGED <<file, groups>>

Next ==
  \/ StartUp \/ StartParseAll \/ ParseAllReturns \/ RunWorkers \/ Restart
  \/ \E k \in Category : CategoryStep(k)

Spec == Init /\ [][Next]_vars

\* The scheduler runs what can run, calls of Redis and of the site end, and so does a
\* channel that somebody closes.  No call has to fail, and nobody has to start the
\* process again.
Fairness ==
  /\ WF_vars(StartUp) /\ WF_vars(StartParseAll) /\ WF_vars(ParseAllReturns) /\ WF_vars(RunWorkers)
  /\ \A k \in Category :
       /\ WF_vars(ReadProgress(k) \/ FetchFirstPage(k) \/ FinishCategory(k))
       /\ WF_vars(MakeSemaphore(k))
       /\ WF_vars(crawl[k] \in {"receiving", "lastPage"} /\ ReceivePage(k))

FairSpec == Spec /\ Fairness

-----------------------------------------------------------------------------
(* Properties.                                                             *)

TypeOK ==
  /\ file \in File
  /\ groups \subseteq Stream
  /\ pc \in {"load", "connect", "queue", "client", "mainPage", "login", "ensure", "wait",
             "fatal", "panicked"}
  /\ session \in BOOLEAN
  /\ crawl \in [Category -> {"off", "reading", "fetching", "receiving", "received", "lastPage",
                             "hung", "done", "failed"}]
  /\ launching \subseteq Category
  /\ resultsChan \subseteq Category
  /\ groupErr \in Category \union {NoError}
  /\ parseAll \in {"off", "waiting", "failed", "completed"}
  /\ allResults \subseteq Category
  /\ workers \in {"off", "running"}
  /\ starts \in 0..MaxStarts

Working == workers = "running" \/ \E k \in Category : crawl[k] # "off"

\* Nothing is crawled and no stream is read before every stream has its group,
\* whatever failed in this start of the process or in an earlier one.
GroupsBeforeWork == Working => groups = Stream

\* With credentials nothing is asked of the site without a session: a login that
\* fails is not survived, although NewBrickLinkClient looks as if it were.
LoginBeforeWork == Working /\ cfg.credentials => session

\* ParseAll reports what happened: when it completes, every category is done and its
\* results were collected; when it fails, it fails with the error of a category that
\* failed, and not before the others returned.
ParseAllIsHonest ==
  /\ parseAll = "completed" => allResults = Category /\ \A k \in Category : crawl[k] = "done"
  /\ parseAll = "failed" => crawl[groupErr] = "failed" /\ \A k \in Category : Returned(k)

\* A file that says nothing, or something sensible: some workers, a rate, and an idle time
\* that is positive also in nanoseconds.  Nobody checks it.
Sensible(f) ==
  /\ f.workers = Unset \/ f.workers > 0
  /\ f.rate # Unset /\ f.rate # 0
  /\ f.idle = Unset \/ (f.idle > 0 /\ f.idle * Second < Half)

\* With a sensible file the process never panics, wherever it is and whatever fails.
PanicsOverFileOnly == pc = "panicked" => ~Sensible(file)

\* One category's failure does not keep the others from ending.
CategoriesEnd ==
  \A k \in Category :
    crawl[k] = "reading" ~> crawl[k] \in {"done", "failed", "hung"} \/ pc # "wait"

\* "Application exited with error" (main.go) is where the error of ParseAll, wrapped
\* by Container.Run, is to end up.
ErrorReachesMain == parseAll = "failed" ~> pc = "fatal"

-----------------------------------------------------------------------------
(* The inductive invariant behind them.                                    *)

ApplicationInv ==
  /\ GroupsBeforeWork
  /\ pc = "wait" => groups = Stream
  /\ Working => pc \in {"wait", "panicked"}
  /\ pc \in {"ensure", "wait"} /\ cfg.credentials => session
  /\ LoginBeforeWork
  /\ PanicsOverFileOnly
  /\ parseAll = "off" => \A k \in Category : crawl[k] = "off"
  /\ parseAll # "off" => \A k \in Category : crawl[k] # "off"
  /\ groupErr = NoError => \A k \in Category : crawl[k] # "failed"
  /\ groupErr # NoError => crawl[groupErr] = "failed"
  /\ parseAll \in {"off", "waiting"} => resultsChan = {k \in Category : crawl[k] = "done"}
  /\ ParseAllIsHonest

=============================================================================
