--------------------------- MODULE CatalogPipeline ---------------------------
(***************************************************************************)
(* The way of pages and items through the program, under the circuit       *)
(* breaker that all of its goroutines share.  A page is fetched by the     *)
(* crawl, or by the one retry it gets; the items it lists are fetched and  *)
(* saved by a worker, or by the one retry each of them gets.  A fetch that *)
(* the breaker refuses is a failed fetch like any other.                   *)
(*                                                                         *)
(* A page lists links, one for every time it mentions an item: the parser  *)
(* keeps them all and a worker fetches each of them, so that an item is    *)
(* fetched as often as it is linked.  The auto-claimer of a stream handles *)
(* a message again that its worker keeps for too long; the message is then *)
(* a copy, with links of its own.                                          *)
(*                                                                         *)
(* Every step of a goroutine is a step of CircuitBreaker together with     *)
(* what it does to the page or link in hand.  Here the calls of Redis do   *)
(* not fail and nothing crashes; TaskWorkers has faults and restarts,      *)
(* CatalogCrawl the start and the end of the crawl.  The first page of a   *)
(* crawl, whose failure ends it, is left to CatalogCrawl.                  *)
(***************************************************************************)
EXTENDS CircuitBreaker, FiniteSets

CONSTANTS
  Page,     \* the pages the crawl fetches, and the copies of their messages
  Link,     \* the links of all pages, and the copies of the messages of their retries
  About,    \* the catalog page or the item that a page or link stands for
  Listed,   \* the links of a page
  Copy,     \* bound: what a claimed message of a stream is handled as, or Nothing
  Role,     \* what a caller is: a fetcher of the crawl, or a goroutine of a stream
  Nothing   \* no page or link

Streams == {"pageRetry", "page", "itemRetry"}
Roles == {"crawl"} \union Streams

Target == Page \union Link

\* What a stream, or the crawl, has messages of.
Kind(role) == IF role = "itemRetry" THEN Link ELSE Page

Copies == {Copy[r][t] : r \in Streams, t \in Target} \ {Nothing}

ASSUME PipelineAssumption ==
  /\ IsFiniteSet(Page) /\ IsFiniteSet(Link)
  /\ Page \intersect Link = {}
  /\ Nothing \notin Target
  /\ DOMAIN About = Target
  /\ Listed \in [Page -> SUBSET Link]
  /\ \A p, q \in Page : p # q => Listed[p] \intersect Listed[q] = {}
  /\ Copy \in [Streams -> [Target -> Target \union {Nothing}]]
  /\ \A r \in Streams : \A t \in Target :
       Copy[r][t] # Nothing => Copy[r][t] \in Kind(r) /\ \A p \in Page : Copy[r][t] \notin Listed[p]
  /\ Role \in [Caller -> Roles]

VARIABLES
  todo,       \* the pages the crawl is to fetch, and the messages of the streams
  job,        \* the page or link a caller has asked fetchHTML for
  left,       \* the links of its page that a worker has not come to yet
  done,       \* parsed pages, links whose item was saved
  dropped,    \* pages and links whose final retry failed
  \* History.
  asked,      \* requests sent for a page or a link
  quotaSeen   \* the site has answered "Quota Exceeded"

pipeline == <<todo, job, left, done, dropped, asked, quotaSeen>>
allVars == <<vars, pipeline>>

\* Where a page or a link can be.
Place ==
  ({"todo"} \X Roles) \union ({"job", "left"} \X Caller) \union ({"end"} \X {"done", "dropped"})

IsAt(t, place) ==
  CASE place[1] = "todo" -> t \in todo[place[2]]
    [] place[1] = "job" -> t = job[place[2]]
    [] place[1] = "left" -> t \in left[place[2]]
    [] place = <<"end", "done">> -> t \in done
    [] place = <<"end", "dropped">> -> t \in dropped

Places(t) == {place \in Place : IsAt(t, place)}

\* What is anywhere.
Found ==
  Target \intersect
    ((UNION {todo[r] : r \in Roles}) \union {job[c] : c \in Caller}
       \union (UNION {left[c] : c \in Caller}) \union done \union dropped)

-----------------------------------------------------------------------------
(* How a fetch begins and ends.                                            *)

PipelineInit ==
  /\ Init
  /\ todo = [r \in Roles |-> IF r = "crawl" THEN Page \ Copies ELSE {}]
  /\ job = [c \in Caller |-> Nothing]
  /\ left = [c \in Caller |-> {}]
  /\ done = {}
  /\ dropped = {}
  /\ asked = [t \in Target |-> 0]
  /\ quotaSeen = FALSE

\* A fetcher of the crawl or a worker of a retry stream takes its next page or link
\* and calls fetchHTML, which begins with the check of the breaker.
TakeTask(c) ==
  /\ Role[c] # "page"
  /\ CheckOpen(c)
  /\ \E t \in todo[Role[c]] :
       /\ todo' = [todo EXCEPT ![Role[c]] = @ \ {t}]
       /\ job' = [job EXCEPT ![c] = t]
  /\ UNCHANGED <<left, done, dropped, asked, quotaSeen>>

\* Plausible bug: a worker takes a new page before it is through with the last one.
TakePageEarly(c) ==
  /\ Role[c] = "page"
  /\ pc[c] = "idle"
  /\ \E p \in todo["page"] :
       /\ todo' = [todo EXCEPT !["page"] = @ \ {p}]
       /\ left' = [left EXCEPT ![c] = Listed[p]]
       /\ done' = done \union {p}
  /\ UNCHANGED <<vars, job, dropped, asked, quotaSeen>>

\* A worker takes a page task, whose links were listed when the page was fetched.
TakePage(c) ==
  /\ Role[c] = "page"
  /\ pc[c] = "idle"
  /\ left[c] = {}
  /\ \E p \in todo["page"] :
       /\ todo' = [todo EXCEPT !["page"] = @ \ {p}]
       /\ left' = [left EXCEPT ![c] = Listed[p]]
       /\ done' = done \union {p}
  /\ UNCHANGED <<vars, job, dropped, asked, quotaSeen>>

\* It goes on to the next link of the page (here in any order).
TakeItem(c) ==
  /\ CheckOpen(c)
  /\ \E i \in left[c] :
       /\ left' = [left EXCEPT ![c] = @ \ {i}]
       /\ job' = [job EXCEPT ![c] = i]
  /\ UNCHANGED <<todo, done, dropped, asked, quotaSeen>>

Add(role, t) == todo' = [todo EXCEPT ![role] = @ \union {t}]

\* What a goroutine has taken from its stream and not acknowledged.
Unacknowledged(c) ==
  IF Role[c] = "page"
  THEN {p \in Page : Listed[p] \intersect (left[c] \union {job[c]}) # {}}
  ELSE {job[c]} \ {Nothing}

\* It has been at it for minIdleTime, and the auto-claimer claims the message.  Nobody
\* tells the worker.
Claim(c) ==
  /\ Role[c] \in Streams
  /\ \E t \in Unacknowledged(c) :
       /\ Copy[Role[c]][t] # Nothing
       /\ Copy[Role[c]][t] \notin Found
       /\ Add(Role[c], Copy[Role[c]][t])
  /\ UNCHANGED <<vars, job, left, done, dropped, asked, quotaSeen>>

\* Plausible bug: a page that is recovered by its retry is not made a page task.
SucceedsUnqueued(c) ==
  /\ IF Role[c] = "crawl" THEN Add("page", job[c]) ELSE UNCHANGED todo
  /\ done' = IF Role[c] \in {"page", "itemRetry"} THEN done \union {job[c]} ELSE done
  /\ job' = [job EXCEPT ![c] = Nothing]
  /\ UNCHANGED dropped

\* Page and item have the parser's and the database's consent: a page becomes a task
\* of the page stream, an item is saved.
Succeeds(c) ==
  /\ IF Role[c] \in {"crawl", "pageRetry"}
     THEN Add("page", job[c]) /\ UNCHANGED done
     ELSE done' = done \union {job[c]} /\ UNCHANGED todo
  /\ job' = [job EXCEPT ![c] = Nothing]
  /\ UNCHANGED dropped

\* Plausible bug: the item that was fetched and could not be saved is not retried.
FailsForGood(c) ==
  /\ IF Role[c] = "crawl" THEN Add("pageRetry", job[c]) /\ UNCHANGED dropped
     ELSE UNCHANGED todo /\ dropped' = dropped \union {job[c]}
  /\ job' = [job EXCEPT ![c] = Nothing]
  /\ UNCHANGED done

\* Plausible bug: an item whose retry fails is put in the queue again.
FailsAgain(c) ==
  /\ CASE Role[c] = "crawl" -> Add("pageRetry", job[c]) /\ UNCHANGED dropped
       [] Role[c] = "pageRetry" -> dropped' = dropped \union {job[c]} /\ UNCHANGED todo
       [] OTHER -> Add("itemRetry", job[c]) /\ UNCHANGED dropped
  /\ job' = [job EXCEPT ![c] = Nothing]
  /\ UNCHANGED done

\* It was refused, or not answered, not parsed or not saved: the first time that
\* makes a retry task, the second time it is only logged.
Fails(c) ==
  /\ CASE Role[c] = "crawl" -> Add("pageRetry", job[c]) /\ UNCHANGED dropped
       [] Role[c] = "page" -> Add("itemRetry", job[c]) /\ UNCHANGED dropped
       [] OTHER -> dropped' = dropped \union {job[c]} /\ UNCHANGED todo
  /\ job' = [job EXCEPT ![c] = Nothing]
  /\ UNCHANGED done

-----------------------------------------------------------------------------
(* The specification.                                                      *)

CountRequest(c) == asked' = [asked EXCEPT ![job[c]] = @ + 1]

\* The steps of fetchHTML up to its last one.
Fetch(c) ==
  \/ /\ ResetIfExpired(c)
     /\ UNCHANGED pipeline
  \/ /\ SendRequest(c) \/ ResendRequest(c)
     /\ CountRequest(c)
     /\ UNCHANGED <<todo, job, left, done, dropped, quotaSeen>>
  \/ /\ ReceiveAnswer(c)
     /\ pc'[c] = "quota"
     /\ quotaSeen' = TRUE
     /\ UNCHANGED <<todo, job, left, done, dropped, asked>>

\* fetchHTML returns, with a page or with an error.
Settle(c) ==
  /\ \/ ReturnRefused(c) /\ Fails(c)
     \/ TriggerCircuitBreaker(c) /\ Fails(c)
     \/ ReceiveAnswer(c) /\ pc'[c] = "idle" /\ (Succeeds(c) \/ Fails(c))
  /\ UNCHANGED <<left, asked, quotaSeen>>

TimePasses == Tick /\ UNCHANGED pipeline

Work(c) == TakeTask(c) \/ TakePage(c) \/ TakeItem(c) \/ Fetch(c) \/ Settle(c)

PipelineNext == TimePasses \/ \E c \in Caller : Work(c) \/ Claim(c)

PipelineSpec == PipelineInit /\ [][PipelineNext]_allVars

\* Time passes, and every goroutine goes on with whatever it can do: the workers ask
\* for tasks again and again, a call of fetchHTML ends.  Nothing has to be claimed.
PipelineFairness == WF_allVars(TimePasses) /\ \A c \in Caller : WF_allVars(Work(c))

PipelineFairSpec == PipelineSpec /\ PipelineFairness

-----------------------------------------------------------------------------
(* Properties.                                                             *)

PipelineTypeOK ==
  /\ todo \in [Roles -> SUBSET Target]
  /\ \A r \in Roles : todo[r] \subseteq Kind(r)
  /\ job \in [Caller -> Target \union {Nothing}]
  /\ left \in [Caller -> SUBSET Link]
  /\ done \subseteq Target
  /\ dropped \subseteq Target
  /\ asked \in [Target -> Nat]
  /\ quotaSeen \in BOOLEAN

\* Nothing is in two places, and nothing that was found is lost on the way: a page of
\* the crawl is somewhere, and so is every link of a page that a worker has taken, the
\* first time or again.
WorkAccounted ==
  /\ \A t \in Target : \A a, b \in Places(t) : a = b
  /\ Page \ Copies \subseteq Found
  /\ \A p \in Page : \A i \in Listed[p] : i \in Found <=> p \in done

\* The pages or links that were found of a catalog page or an item, with their copies,
\* and the requests for it.
FoundOf(subject) == {t \in Found : About[t] = subject}
Requests(subject) == UNION {{t} \X (1..asked[t]) : t \in FoundOf(subject)}

\* The site is asked for an item with two requests and their repetitions at most for
\* every link to it that a worker comes to, and every retry handled again; for a page
\* with two, and two for every message handled again.  No number of pauses adds to it.
RequestsBounded ==
  \A subject \in {About[t] : t \in Target} :
    Cardinality(Requests(subject)) <= 2 * (RetryCount + 1) * Cardinality(FoundOf(subject))

\* A retry that is handled again starts from its message: its first fetch is not its own.
Fetches(t) == IF t \in Copies THEN 1 ELSE 2

\* As long as the site has not asked for a pause, whatever is given up was asked for
\* in every one of its fetches: the breaker refuses nobody before.
UnaskedOnlyAfterQuota == \A t \in dropped : asked[t] >= Fetches(t) \/ quotaSeen

\* In the end every page is parsed or dropped, and every link of a parsed page, and
\* everything that is handled again, is saved or dropped, with however many pauses.
AllSettle ==
  <>[](/\ Page \ Copies \subseteq done \union dropped
       /\ Found \subseteq done \union dropped)

-----------------------------------------------------------------------------
(* The inductive invariant behind them.                                    *)

First(role) == role \in {"crawl", "page"}

\* A goroutine has a page or a link in hand while it is in fetchHTML, of the kind its
\* role is about; only the worker of a page has links left.
HandsInv ==
  \A c \in Caller :
    /\ pc[c] = "idle" <=> job[c] = Nothing
    /\ job[c] # Nothing => job[c] \in IF Role[c] \in {"crawl", "pageRetry"} THEN Page ELSE Link
    /\ Role[c] # "page" => left[c] = {}
    /\ pc[c] = "inFlight" => attempts[c] > 0

\* How many requests there were for what waits to be fetched, and for what is in hand.
AskedInv ==
  /\ \A p \in todo["crawl"] : asked[p] = 0
  /\ \A c \in Caller : \A i \in left[c] : asked[i] = 0
  /\ \A r \in {"pageRetry", "itemRetry"} : \A t \in todo[r] :
       asked[t] <= RetryCount + 1 /\ (asked[t] >= Fetches(t) - 1 \/ quotaSeen)
  /\ \A c \in Caller : pc[c] # "idle" =>
       IF First(Role[c])
       THEN /\ asked[job[c]] <= IF pc[c] = "quota" THEN RetryCount + 1 ELSE attempts[c]
            /\ asked[job[c]] >= attempts[c]
       ELSE /\ asked[job[c]] <= IF pc[c] = "quota" THEN 2 * (RetryCount + 1)
                                ELSE RetryCount + 1 + attempts[c]
            /\ asked[job[c]] >= attempts[c] + Fetches(job[c]) - 1 \/ quotaSeen

\* What was not found yet was never asked for.
UnfoundInv == \A t \in Target \ Found : asked[t] = 0

\* What RequestsBounded comes from.
AskedBounded == \A t \in Target : asked[t] <= 2 * (RetryCount + 1)

\* Without "Quota Exceeded" the breaker is closed.
QuotaInv ==
  /\ triggered => quotaSeen
  /\ \A c \in Caller : pc[c] \in {"refused", "quota"} => quotaSeen

PipelineInv ==
  /\ HandsInv
  /\ WorkAccounted
  /\ AskedInv
  /\ UnfoundInv
  /\ QuotaInv
  /\ AskedBounded
  /\ UnaskedOnlyAfterQuota

=============================================================================
