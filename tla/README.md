# Verification of the BrickLink parser

TLA+ models of `bricklink-parser`, a Go program that walks the catalog of
BrickLink page by page, puts every page into a Redis stream, and lets workers
fetch the items of the pages and save them in Postgres. The models are checked
with TLC on small instances; what matters most is proved with TLAPS for every
value of the constants.

## 1. The system

The repository has no tests and no documents; the source (about 2200 lines of
Go), its comments and its log messages are all there is to go by.

| Component | Where | State it keeps | Operations |
|---|---|---|---|
| Catalog crawl | `service.go` `ParseAll`, `bricklink.go` `GetAllCatalogPagesCh` | per category: start page, channel, semaphore, fetchers | read the resume page, fetch the first page, launch fetchers, receive pages, save the resume page, add page tasks, finish |
| Progress state | `state/state.go` | one Redis key per category | get, set |
| Task queue | `queue/redis.go` | three Redis streams with one consumer group | add, read, acknowledge, auto-claim, create streams and groups |
| Workers | `service.go` `RunWorkers` and below | the message a goroutine handles | `parsePage`, `retryPage`, `retryItem`, `processMessage` |
| Circuit breaker | `bricklink.go` `fetchHTML`, `isCircuitBreakerOpen`, `triggerCircuitBreaker` | `quotaExceededUntil` under a read-write lock | check, reset, open |
| Login | `bricklink.go` `Login` | session cookies | two requests, fatal on every unexpected answer |
| Catalog parser | `catalog_parser.go` | none | HTML to page, HTML to item details |
| Repository | `repository/part.go` | the table `part_details` | upsert by item id |
| Proxy supplier | `proxy/supplier.go` | list of proxies, next index | test all in parallel, round robin; nothing constructs it |
| Container, main | `container.go`, `main.go` | the objects, the error groups | create, run crawl and workers side by side |
| Configuration | `config.go` | the values loaded | load the file, fill in defaults |
| Domain types | `domain/` | none | |

How they interact. `main` creates the container, which connects to Redis, makes
sure the streams exist (`NewRedisQueue`, and `Run` once more) and logs in. `Run`
then starts `ParseAll` and `RunWorkers` side by side. `ParseAll` has one
goroutine per category; it reads the category's resume page, calls
`GetAllCatalogPagesCh` and ranges over the channel that call returns. The
fetchers behind the channel put a page they cannot fetch into the page-retry
stream themselves. The workers read the three streams through one consumer
group: a page task becomes saved items and item retries, a page retry becomes a
page task or is dropped, an item retry becomes a saved item or is dropped. One
auto-claimer per stream takes over what its consumer has not acknowledged.
Crawl and workers share the HTTP client, so also its rate limiter and its
circuit breaker. The process may die at any moment; Redis and Postgres survive.

What is hard here: pages arrive out of order while a resume page is derived
from them; a reader that returns early while goroutines still send to it;
crashes between the steps of a message; replies of Redis that get lost after the
command was carried out; two consumers with the same message; a clock that is
read under one lock and used under another; a breaker that fails the fetch and
the only retry of the same page; a start that fails half way and is repeated;
errors that wait behind goroutines which never end; tables of a page that lie
inside one another. `PROJECT.json` lists these hazards at the lines where they
bite, with the properties meant for them.

What makes the parts correct:

* crawl: a restart continues where the work is, no page is forgotten, every
  goroutine ends, nothing is sent to a closed or a full channel;
* queue and workers: a message is acknowledged only when its work is done, work
  survives crashes, retries end, everything is settled eventually;
* breaker: a pause the site asks for is respected by all callers but those
  already past the check, its end is noticed exactly once, nobody is stuck;
* crawl and workers under the breaker: whatever the pauses, each page and each link
  to an item is in one place, is settled in the end, and costs the site few requests;
* application: no work without streams and session, an outcome of `ParseAll` that is
  true, no panic over a configuration that makes sense;
* proxies: the tests are bounded and none waits for its result to be taken, and the
  good proxies are handed out in turn;
* parser: the numbers of a page belong together, the colours and parts of an item
  are those of the sections that count, in spite of nested tables.

## 2. The modules

| Module | Role |
|---|---|
| `CatalogCrawl` | the crawl of one category, with restarts |
| `ResumableScan` | abstract: hand pages over in any order, resume at a mark that passes at most `Slack` pages too early |
| `CatalogCrawlProofs` | theorems about `CatalogCrawl` |
| `TaskWorkers` | the streams, the consumer group, the workers and auto-claimers, with crashes and failing calls |
| `TaskLedger` | abstract: tasks are added, worked on (perhaps repeatedly), and crossed off only when done |
| `TaskWorkersProofs` | theorems about `TaskWorkers` |
| `HandlersProofs` | theorems about `TaskWorkers` again: two handlers of one message, the number of retries |
| `CircuitBreaker` | the breaker in front of every request, with any number of callers |
| `CircuitBreakerProofs` | theorems about `CircuitBreaker` |
| `CatalogPipeline` | composition: the crawl's fetchers and the workers on one `CircuitBreaker` |
| `CatalogPipelineProofs` | theorems about `CatalogPipeline`, and that it implements `CircuitBreaker` |
| `Application` | the process: start-up, login, `ParseAll` and its error group, `RunWorkers`, restarts |
| `ApplicationProofs` | theorems about `Application` |
| `ProxySupplier` | the parallel test of the proxies and their round robin |
| `ProxySupplierProofs` | theorems about `ProxySupplier` |
| `CatalogParser` | `ParseCatalogPage` and `ParseItemDetails` over documents, callback by callback |
| `CatalogParserProofs` | theorems about `CatalogParser` |
| `MCCatalogCrawl`, `MCTaskWorkers`, `MCCircuitBreaker`, `MCCatalogPipeline`, `MCApplication`, `MCProxySupplier`, `MCCatalogParser` | what TLC runs |

How they hang together. `CatalogCrawl` implements `ResumableScan`, `TaskWorkers`
implements `TaskLedger`. `CatalogPipeline` extends `CircuitBreaker`: it takes its
variables and actions as they are. `Application` is one level above the others: it
knows of a category only whether it still runs, is done, has failed or hangs.

Every module also holds a few operators marked "Plausible bug": variants of an
action with the kind of mistake that is easily made there. They are used to see
that each property can fail; no specification refers to them.

### CatalogCrawl and the code

`progress`, `pageTasks`, `pageRetries` are what Redis holds of the category (the
crawl's view: which pages were added, not what became of them). `abandoned` is
the log line of `bricklink.go:202`: a page that could neither be fetched nor be
put into the retry stream. `pc`, `startPage`, `totalPages`, `countPages`, `page`
are the locals of the goroutine of `ParseAll`; `pagesChan`, `launcher`,
`pageNum`, `semaphore` those of `GetAllCatalogPagesCh`. A fetcher is a page in
`fetching` (until it has sent its page or given it up) and then in `leaving`
(until it has given its slot back).

A page is its requested number. What the site answers is abstracted to how many
pages there are (`Totals`, chosen anew at each first fetch, so the catalog may
change between two runs) and which pages lack the "Page x of y" text
(`Unnumbered`: the parser leaves `PageNumber` and `TotalPages` at 0, since their
text still says "Items Found"). Any fetch and any Redis call may fail; a call
that fails may have been carried out. Both outcomes of a failed write of the
resume page are possible, since `ParseAll` ignores its error.

One action is one step between two points where another goroutine can be
noticed: a channel operation, a semaphore operation, a call of Redis. Receiving a
page and saving the resume page are one action (`ReceivePage`), adding the task
is the next (`AddPageTask`), so the process can die between them.

### TaskWorkers and the code

`entries`, `delivered`, `pending`, `idle` are the streams and the consumer group:
`delivered` is the last-delivered-id, `pending` the group's pending list, `idle`
the pending messages whose idle time has reached `minIdleTime`. `saved` is the
table in Postgres. `dropped` and `lost` are log lines: a final retry that failed,
an item whose retry task could not be added. `hand` is the goroutine of each
consumer, with the items of a page it still has to go through.

`GetTask`, `AutoClaim`, `AckTask`, `AddTask` are the functions of `redis.go`;
`ParsePageItem` is one turn of the loop of `parsePage`; `FinishPage`, `RetryPage`
and `RetryItem` are the rest of `processMessage`. Each fetch and each save may fail
at any time without a bound. `Fault` bounds failing Redis calls and deaths of the
process together. The item a page lists always has a URL that `parseItemURL`
understands, because `extractItems` uses the same pattern, so that error path of
`parsePage` cannot be taken and is not in the model. `EnsureStreamsExist` is one
action for the two calls before the workers start; its only lasting effect besides
the groups are dummy entries whose deletion failed (a deleted entry is never
delivered), at most `MaxDummies` of them.

The Redis client of the program may repeat a command on a network error without
telling its caller; a doubled XADD of that kind is not modelled.

### CircuitBreaker and the code

`quotaExceededUntil` matters only by its distance from the clock, so the state is
`remaining`, and `Tick` makes it smaller. `triggered` tells the zero time from a
past one. `isCircuitBreakerOpen` reads the clock once, under the read lock, and
compares it a second time under the write lock: `expired` keeps for each caller
whether the clock it has read is past the present `quotaExceededUntil`. `quiet`,
`lateSends`, `announced` are history: how long the pause that the last "Quota
Exceeded" asked for still lasts, how many requests a caller has sent in it, and how
often the end was logged.

### CatalogPipeline and the code

`todo` are the pages the crawl still has to fetch and the messages of the three
streams, `job` is what a goroutine has called `fetchHTML` for, `left` the rest of the
loop in `parsePage`, `done` and `dropped` where a page or a link ends. The goroutines
are of four roles: a fetcher of the crawl, and those of the three streams, where a worker
and an auto-claimer do the same with a message once they have it. Every step
is one of the steps of `CircuitBreaker` and says besides what becomes of the page or
link: `TakeTask` and `TakeItem` begin a call with `CheckOpen`; `Settle` is the return of
`fetchHTML` together with what its caller does next. The first failure makes a retry
task, the second one is only logged (`Fails`), and a refusal by the breaker is a
failure like any other. `Succeeds` includes the parser's and the database's consent, so
`Fails` stands for theirs as well. `asked` counts the requests for a page or a link,
`quotaSeen` remembers that the site has ever asked for a pause; both are history.

What a page lists are links (`Link`), not items: `extractItems` keeps every link that
matches, `parsePage` fetches each of them, and an item that is linked on two places of a
page, or on two pages, is fetched for each. `About` says which item a link goes to, or
which page of the catalog a `Page` is.

A message that its worker keeps for `minIdleTime` is claimed and handled again from its
start, while the worker, whom nobody tells, goes on with it (`Claim`). What is handled
again is another element of `Page` or `Link`, the copy (`Copy`), about the same page or
item and with links of its own, since a page task that is handled again fetches all of its
items again, and a page that is fetched again may list others. A copy may be claimed in
its turn if it has a copy; `Copy` is the bound on claims. Nothing has to be claimed.
`WorkAccounted`, `RequestsBounded` and `AllSettle` count pages and links with their
copies.

The calls of Redis do not fail in this module and nothing crashes: that is the subject of
`TaskWorkers`.

### Application and the code

`pc` is where `main` is, from loading the configuration to the wait at the end of
`Container.Run`; `log.Fatalf` leads to `"fatal"`, a panic (a division by zero, a channel
of a negative size, a ticker of no or a negative duration) to `"panicked"`. `groups` is the only state that outlives the process
here: the streams that have their consumer group. `crawl` is where the goroutine of a category
is; `"hung"` is a channel nobody closes, or one with no room for the first page, whose causes
`CatalogCrawl` shows. `launching` are the launching goroutines that have yet to make their
semaphore, which is where a negative `max_workers` panics; a category of one page has none. `groupErr`
is the first error of the error group of `ParseAll`, `resultsChan` its buffered channel.
`file` is what the configuration, which is read anew at every start, says of the four
settings control depends on; `Unmarshalled` is what becomes of them. The numbers are plain
ints that nobody validates, so they may be negative, and `Duration` is the product with
`time.Second` in 64 bits. Hosts, ports and passwords are part of whether
`Connect` succeeds.

`EnsureStreamsExist` is called twice, by `NewRedisQueue` and by `Run`, and may fail after
some of the streams (of which the last may have been created, though the reply was
lost). `Login` has two requests; only a return code of 0 is a session, all else is
`log.Fatalf`.

### ProxySupplier and the code

A proxy is its place in the list, so a list with repetitions is covered. `pc` is the
goroutine of a proxy: waiting for the semaphore, testing, sending, leaving. `Collect` is
the constructor after `wg.Wait`; `Get` holds the mutex throughout and is one action.
`works` and `given` are history: which tests succeeded, and how often the proxy at an
index of the working list was handed out. Nothing in the repository constructs a
supplier. `GetAllCatalogPages`, which nothing calls either, fans out in the same way.

### CatalogParser and the code

A document is the sequence of its elements in document order; an element has a depth, a
tag (what the selectors can tell of it), its own text and the id in its address. `Text`
is `s.Text()`: the element's own text and those of the elements inside it; own text comes
before inner text here. `Find` is `s.Find`. A text is a wording with the numbers in it, or
a name.

The parser is a sequence of searches, `doc.Find(..).Each` with a callback, in most of which
there is a second `Each` over links. `step` is the search it is in. `at` is the element the
outer callback was last called with, `link` that of the inner one; 0 is none. `Places` are the
elements at which the outer callback does something, `Links` the links the inner one is
called with there. `Enter`, `Look` and `Leave` are the call of the outer callback, the call
of the inner one and the return of the outer `Each`; each action is one of them with what
the code does there. `FindBanner` is the callback that keeps a text, `ExtractPaginationInfo` what
follows when all elements were looked at; `PriceGuide`, `LotsForSale` and `KnownColors` are the
inner callbacks of the three searches for colours, of which the second only takes place
while there are fewer than `Enough` (the 5 of `len(colorMap) < 5`); `ListColor` is one turn of
the loop over the map, in any order; `ConsistsOf` is the outer callback that empties the list
at a cell that says N/A. Callbacks that only start the inner search are `Search`, the ends of
searches are `SearchOver`. Nothing interleaves with the parser, so the steps are there for what
one call leaves to the next.

Two pieces of the source cannot be reached and are not in the model: the second search for
pagination text (its regular expression matches only where the first search has
already found a banner), and the branch for a page with items but without numbers
(the items are read afterwards).

## 3. The runs

| Run | Instance | What it shows |
|---|---|---|
| `crawl_restart` | 2 workers, 1 or 5 pages, page 3 unnumbered, one restart, fair | type invariant; the resume page passes at most `MaxWorkers - 1` pages that are still under way (`CheckpointGap`); a completed category has handed everything over; a fetcher never waits for the channel; the inductive invariant; the refinement of `ResumableScan`; fetchers end even when the reader has gone; a crawl that starts below the last page ends |
| `crawl_one_worker` | 1 worker, up to 4 pages, two restarts | with one worker no page is ever skipped |
| `crawl_hang` | violation; 2 workers, 1 or 3 pages | a category that starts at its last page never ends |
| `crawl_skip` | violation; 2 workers, 5 pages | with two workers the resume page passes a page that is in no stream |
| `tasks_claims` | a page of two items, one slow consumer, one dummy | type invariant; acknowledged means done; one handler per message unless a consumer is slow; retries do not multiply |
| `tasks_settle` | a page of one item, one fault, one slow consumer, fair | the inductive invariant; the refinement of `TaskLedger`; every item is settled, the streams are drained |
| `breaker_callers` | 3 callers, pause of 2 ticks, 1 repetition, fair | the pause is not cut short; late requests are bounded; the end is announced once; the breaker closes; calls return |
| `pipeline_outage` | one goroutine of each role and a second one of the page stream, a page with a link whose retry and whose task may be claimed, pause of 1 tick, 1 repetition, fair | nothing is lost or in two places; few requests for each link and for what is handled again; nothing given up unasked before the first pause; everything settles |
| `application_start` | 3 categories, 2 streams, settings of -1, 0, 3, 600 or none, one restart with another file, fair | no work without groups and session; `ParseAll` reports what happened; panics only over a file that is not sensible; categories end on their own |
| `application_error` | violation; 2 categories | the error of `ParseAll` does not reach `main` |
| `proxies_tests` | 4 proxies, 2 slots, 7 calls of `Get`, fair | no result waits; exactly the working proxies are kept, and handed out evenly; the constructor returns |
| `parser_pages` | documents of up to 10 elements | the pagination is read from one innermost banner; colours and parts are those of the sections that count |

### Bounds

* Crawl: two workers are the fewest that can overtake each other. With five pages the
  resume page (saved at every second page received, two pages back) can pass a late
  fetcher: when the fourth page received is page 5, page 3 is saved, and page 2 may still be
  under way. With four pages it cannot. So `CheckpointGap` meets its bound, and the
  refinement uses its slack. One page is the case without a launching goroutine; the
  unnumbered page makes the resume page fall back to 0 (`max`) and, after a restart, blocks
  the first send. With one worker two restarts let a run resume at a page a previous run has
  resumed at. The theorems of section 4 cover all other sizes.
* Workers: one page or page retry is enough to reach all three streams, because
  the page retry becomes a page task and the items become item retries. With
  `MaxWorkers = 1` every stream has one worker and one auto-claimer, the two
  consumers that can meet over a message. One fault at any point is a death
  between any two steps; one slow consumer is enough for two handlers of one
  message.
* Breaker: of three callers one opens the breaker, and two race for the reset. A
  delay of 2 has an inside, a boundary and an outside. One repetition stands for
  the three of the HTTP client.
* Pipeline: five goroutines can all be past the check when the site asks for a pause. One
  page goes the whole way, with its link. Its retry may be claimed (as `p2`, which does not
  list anything any more) and its task may be claimed (as `p3`, with a second link to the
  same item), so that up to three pages and two links are under way, refused and retried at
  once. The second goroutine of the page stream is the auto-claimer; it may take any message
  of the stream and so stands for a second worker, too. A claim of an item's retry, and a
  page that links an item twice, are left to the theorems. The number of pauses is not
  bounded.
* Application: three categories allow two failures, so that there is a first one, beside a
  success. Two streams allow one to be missing. A number is -1, 0, 3, 600 or not in the file, so
  that every default, division by zero, negative channel size and ticker is met. TLC's integers have
  32 bits, so an int has 30 here (`Half`) and a second 10^6 nanoseconds: 600 seconds
  overflow into a negative duration. One restart meets the groups an
  earlier start has left.
* Proxies: four proxies for two slots, so that some wait; seven calls go round every
  possible list at least once and stop in the middle of a round.
* Parser: all documents of a body and up to four elements out of those that matter to
  pagination or to colours, at two depths; price guides of two colours followed by three
  more elements; sequences of three of seven fragments with lists, breadcrumb and image. With
  `Enough = 2` both outcomes of the comparison occur within that size.

Deadlock is checked for the breaker, which never stops. It is not checked in the other runs,
since each may come to an end: a category is completed or failed, a queue is empty,
everything is settled, the process has died or only waits, nobody calls `Get` any more,
the parser has returned. That they do not stop elsewhere is what their liveness
properties say.

### Fairness

Weak fairness throughout. `CatalogCrawl`: the category's goroutine, the launching
goroutine and each fetcher; the Go scheduler runs what can run, the HTTP client has
timeouts (60 s, and 90 s for the request with its repetitions), so a fetch ends, and
a Redis call ends as well. Nothing makes a fetch fail, so a fetcher with its page in
hand and no room in the channel would be stuck, which is what `FetchersExit` excludes.
`TaskWorkers`: each consumer, both in reading and in processing; the tickers of the
auto-claimers; the passing of idle time; and the start of the process, because a
process that died and is never started again settles nothing. `CircuitBreaker`: time,
and calls that have begun. `CatalogPipeline`: time, and every goroutine, since the workers
ask for messages in a loop. `Application`: `main`, `ParseAll`, `RunWorkers` and the goroutine
of each category; a category that keeps receiving pages need not ever come to the end of
them, but it does receive the first one. `ProxySupplier`: the constructor and the tests,
which have a timeout. Nothing makes anybody restart a running process, make the crawl add a
page, call `fetchHTML` on its own, or call `Get`; and nothing has to fail.

### What disagrees with the code's own words

With a run:

* A channel nobody closes (`crawl_hang`). After a category is completed its resume
  page is its last page, so every later run of the program hangs in `ParseAll` for it.
* A resume page that has passed a page still being fetched (`crawl_skip`).
* "Application exited with error" (`main.go:30`) is never logged for a failure of `ParseAll`
  (`application_error`): `g.Wait` of `container.go:128` waits for the workers, too, which
  never return.

Noticed while modelling, without a run of their own:

* A dummy entry whose deletion fails stays in its stream and reaches a worker that cannot
  handle it (`redis.go:156` and `178`); it occurs in `tasks_claims`.
* The breaker's messages and comments say thirty minutes, the constant is five
  (`bricklink.go:69`, `273`, `449`).
* `NewBrickLinkClient` logs "Successfully logged in" after a failed login as well
  (`bricklink.go:77` to `81`). `Login` never returns an error, so it does not show.
* "Stop searching" (`catalog_parser.go:229`) does not stop the search, and a single page
  without pagination text is refused although `catalog_parser.go:121` means to accept it.

## 4. What is proved

`CatalogCrawlProofs`, for every number of workers, every set of page counts and
unnumbered pages and any bound on restarts (assumption: `CrawlAssumption`):

* `TypeCorrect`: the type invariant is inductive on its own.
* `CrawlInvariant`: `CrawlInv`. `CheckpointGap` is not inductive: that the page at
  the head of the channel overtakes few pages depends on how the fetchers got
  there. The strengthening counts slots (`SlotsCounted`), says where every launched
  page is (`Accounted`), and bounds for *each* page in the channel the pages that
  come before it in the catalog and will still be missing when it is received
  (`FewLate`). That number is fixed when the page is sent: its own fetcher has one
  slot, so at most `MaxWorkers - 1` other pages were being fetched. It only shrinks
  afterwards. `GapBounded` follows because the page saved is at least `MaxWorkers`
  before the page received.
* `CompletedHanded`, `SendsNeverBlock`: from the same invariant; the second one needs
  `Room`, that channel and fetchers together hold no more pages than were launched.
* `OneWorkerSkipsNothing`: with `MaxWorkers = 1` no page is skipped over any number of
  restarts. The additional invariant is that everything below the start page of the
  run was handed over (`BelowStart`).
* `CrawlImplementsScan`: the refinement, step by step.
* `NothingElseStands`, `RunsWindDown`: what `CrawlEnds` and `FetchersExit` rest on besides
  fairness. A run that stands still has no fetchers, and if it is not over it waits for a
  channel that nobody is there to close, as it does when it started at its last page (the
  hang of `MCCatalogCrawl_hang`); and every step of a run lowers the number of steps left.

`TaskWorkersProofs`, for any pages, items, number of workers and bounds (assumption:
`WorkersAssumption`):

* `TypeCorrect`, `WorkersInvariant`, `AckedWorkIsDone`. The argument rests on `Grows`:
  no step takes anything out of a stream, the database or the log, so done stays done
  (`DoneStays`). `AckedIsDone` needs `HandsInv`, which says that a consumer is done with
  the items it is past, and with everything when it is about to acknowledge; this is
  why a claim, which starts the message over, does no harm. Types and `WorkersInv` are
  inductive only together: that a page retry holds a page needs that its handler holds
  a message that exists.
* `WorkersImplementLedger`: every step but `AckTask` leaves alone what is crossed off
  and lets the rest grow; `AckTask` changes nothing else and crosses off finished work.
* `NothingOutOfSight`: `AckedIsDone` followed through the three streams. A page to retry is
  dropped, a page task, or not acknowledged; a page task is not acknowledged, or each of its
  items is saved, dropped or logged, or has a retry that is not acknowledged. So nothing is
  unsettled when the queue has drained, which connects `QueueDrains` with `ItemsSettle`.

`HandlersProofs`, under the same assumption:

* `OneHandlerEach`, from `HandlersInv`: while no consumer was slow, what somebody has in
  hand is pending and not idle (`HeldIsFresh`), and nobody else has it (`HeldOnce`). A
  worker reads what is not pending, the auto-claimer takes what is idle, and a death of
  the process empties all hands before anything becomes idle. `SingleHandler` alone would not be
  inductive: it does not say why a claim cannot hit a message in somebody's hands.

* `RetriesAreBounded`, from `RetriesInv` and the two invariants before. A place where a page task lists an item is spent
  when a worker has gone past it; there are never more retries than spent places
  (`RetriesSpent`). That no place is passed twice needs that, without faults and slow
  consumers, a message that is pending and no dummy is in somebody's hands
  (`PendingHeld`), so that a claim only ever finds a dummy; that nobody else has it
  (`HeldOnce`); and that what a worker has left is the end of its page's list (`RestInv`).

`CircuitBreakerProofs`, for any callers, delay and number of repetitions (assumption:
`BreakerAssumption`):

* `TypeCorrect`, `PauseIsKept`, `LateRequestsBounded`, `AnnouncedAtMostOnce`, all from
  `IInv`. Its parts: a clock read before the breaker was opened again is not past the
  new end (so a stale reader does not reset it); a caller that is let through has sent
  nothing in the present pause (`LateInv`), because it finds no pause; while the breaker
  is open nothing was announced.
* `CallsReturn`: a call of `fetchHTML` takes at most `RetryCount + 4` steps of its own and no
  step of another caller or of the clock adds to them. `PausesRunOut`: while the breaker
  is open nobody joins the callers that can prolong the pause, and one that does so leaves
  them. These are `FetchReturns` and `BreakerCloses` without the fairness.

`CatalogPipelineProofs`, for any pages, links, copies, goroutines of each role, delay and
repetitions (assumptions: `PipelineAssumption`, `BreakerAssumption`):

* `PipelineImplementsBreaker`: every step is a step of the breaker or leaves its variables
  alone, so `PauseIsKept` and its companions hold of the composition.
* `PipelineInvariant`, and from it `NothingIsLost`, `RequestsAreBounded` and
  `GivenUpAfterItsRequests`, for any links (any number of them to the same item), and any
  claims in any of the streams. `WorkAccounted` says that a page or link has one place at
  most, so one step's change is a change of places, and a claim adds a place to something
  that had none. The bound on requests needs to
  know for what waits and for what is in hand how much was asked already
  (`AskedInv`): at most one call's worth before the second call. That gives `AskedBounded`
  for every page and link, which `RequestsAreBounded` sums over those that are about the same
  thing; what was not found was not asked for (`UnfoundInv`). The retry of a link or page that
  is claimed starts as a retry, so it has one fetch and not two (`Fetches`).
* `PipelineCallsReturn`: `CallsReturn` and `PausesRunOut` under the pipeline.
* `PipelineMovesOn`: the places are ranked by `Stage` (waits for its first fetch, is fetched,
  waits for its retry, is retried, is a page task, has settled), and every step leaves a page
  or a link where it is or takes it to a place of a higher rank; a claimed message is a copy
  with ranks of its own. Each is therefore taken, retried and settled once at most, which is
  what `AllSettle` needs besides the fairness of the goroutines. Page and link share the
  ranks; a link skips that of a page task.
* `PipelineTypeCorrect`: types.

`ApplicationProofs` (assumption: `ApplicationAssumption`), all from `ApplicationInv`:

* `GroupsComeFirst`, `LoginComesFirst`, `ParseAllTellsTheTruth`, `OnlyTheFilePanics`, for any
  number of categories, streams and restarts and any ints in the file, negative ones included. Its parts tie `pc` to what has been
  done before it, and the kept error to the goroutines: it is set if and only if one has
  failed, and the channel holds the results of those that are done.

`ProxySupplierProofs` (assumption: `SupplierAssumption`), all from `SupplierInv`:

* `TestsAreBounded`, `SendsNeverWait`, `WorkingProxiesKept`, `HandedOutInTurn`, for any number
  of proxies and slots. The semaphore equals the number of goroutines that hold a slot; the
  channel holds each proxy that was sent once; what was handed out is some number of
  whole rounds and a part of the next, up to `current`.
* `NobodyIsStuck`, `ConstructorWindsDown`: until the constructor has returned a goroutine can
  go on, and every step lowers the number of steps left; `Constructed` without the fairness.

`CatalogParserProofs`, for any documents and any number of colours that are enough
(assumptions: `DocumentsAssumption`, which says that a document is a finite sequence, and
`EnoughAssumption`), all from `ParserInv`:

* `TypeCorrect`: the ids and names that are collected are those of the document, and the outer
  callback is at an element of `Places`.
* `OneBannerIsRead`, `PriceGuideCounts`, `AllColorsListed`, `PartsBelowNA`. The properties are about
  the result, so none of them is inductive. `ParserInv` says for each search what its
  variables hold when the callbacks have been called up to `at` and `link`: the names of the
  last links met (`NameInv`), the ids of all links met (`ColorInv`), every entry of the map at
  most once (`ListInv`), the inventories met since the last N/A (`PartsInv`). A call adds one
  link to those that were met, since no link lies between one and the next (`ComesNext`);
  when a search is over all of its links were met. That no induction over the document
  is needed is the reason for modelling the parser call by call.
* `PageInv` has the banner: the last element with the words. It is an innermost one because what
  is inside an element comes after it.

With these every safety property and every refinement that a run checks is a theorem. Only
model-checked are the liveness properties (`FetchersExit`, `CrawlEnds`, `ItemsSettle`,
`QueueDrains`, `BreakerCloses`, `FetchReturns`, `AllSettle`, `CategoriesEnd`,
`Constructed`), since liveness under fairness is out of this
prover's reach. What does not need fairness in them is proved where it could be stated: a number
or a rank that steps lower or raise, and that somebody can go on. The latter says ENABLED by
the guards of the actions, because the prover does not expand ENABLED. `CategoriesEnd`
has no such theorem. No module uses a RECURSIVE operator, so
nothing had to be left out for that.

## 5. What is not modelled

* `GetAllCatalogPages`, `ParseCatalogTreeTask`, `Container.Close`: nothing calls or produces
  them. The fan-out of the first is that of `ProxySupplier`.
* The name, year, weight and dimensions of an item: single patterns on a text. Addresses are
  members of a set, so making them absolute is left out.
* Column values in Postgres: an upsert by item id; two categories with the same item
  number overwrite each other there, which the set `saved` does not show.
* A positive `MaxWorkers` is assumed in `CatalogCrawl`; what zero and negative numbers do is in
  `Application`.
* The silent repetition of a command by the Redis client on a network error.
* Time other than idle time and the breaker's delay; the pace of the rate limiter; a busy loop
  over a failing read; the growing number of consumer names of the auto-claimers.

## 6. Plan

Order of work, most important behaviour first.

1. `CatalogCrawl`, `ResumableScan`, their runs and proofs (done).
2. `TaskWorkers`, `TaskLedger`, their runs and proofs (done, `SingleHandler` and
   `RetriesBounded` included).
3. `CircuitBreaker`, its run and proofs (done).
4. `CatalogPipeline`: breaker, crawl and workers together (done).
5. `Application`: start-up, error groups, restarts (done).
6. `ProxySupplier` (done).
7. `CatalogParser` and its proofs (done but for the single patterns of section 5).
8. Still to prove: that in `TaskWorkers` a message that is not acknowledged can always be
   read, claimed or gone on with, and how often it can be handled again under the bounds on
   faults.
9. Still to model: several categories' fetchers on one breaker, and a pipeline whose queue has
   the faults of `TaskWorkers`.
