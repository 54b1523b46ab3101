# Formal models of yozh-scraper

TLA+ modules that model the concurrent core of yozh-scraper, the TLC
configurations that check them on small instances, and TLAPS proofs that lift the
most important results to every value of the constants. Paths below are relative
to the repository root.

## 1. The system

| Component | State it keeps | Operations | What is hard |
|---|---|---|---|
| Scrape API (`src/scrape_service.py`, `src/api/scrape.py`) | none of its own | submit (depth check, create, one `kiq` per chain head), status, results, cancel | a fan-out is many round trips; cancel works on a snapshot |
| Job store (`src/queue/store.py`) | three Redis keys per job: meta hash (status, total, done, cancelled, chain links), pages hash, results hash | create (MULTI), `_WRITE_SLOT`, `_CANCEL_FILL`, `_MARK_RUNNING` (Lua), separate reads | duplicate and late writes, two finalizers, key expiry |
| Stream (`src/queue/broker.py`, taskiq-redis) | Redis stream with one consumer group and its pending list | XADD, XREADGROUP (one entry at a time), XACK | at-least-once delivery |
| Worker task (`src/queue/tasks.py`) | the delivery it executes | `scrape_page_task`, `login_task` | crash between any two awaits |
| Reaper (`src/queue/reaper.py`, `scheduler.py`) | cursor and claimed entries of a pass | XAUTOCLAIM, then XADD and XACK per entry | claims what is still running, dies half-way |
| Worker browser lifecycle (`src/queue/worker.py`) | warm runners, page counters, idle clock, browser lock | lazy start, idle close, retirement, drain | state read before a lock and used after it |
| Browser runners (`src/browser/`) | what one fetch has opened | open, navigate, wait, read, judge, close | an exception or a cancellation at each await |
| Session store (`src/sessions/`) and `src/queue/locks.py` | one JSON record per session, an LRU index, locks | create/evict, get/expire, delete, read-modify-write updates, login hand-off | two locks with different coverage, a task and an API request that time out separately |
| Attempt loop (`src/queue/scrape_runner.py`, `src/proxy/`) | attempt number, best failure so far, deadline, proxy rotation state | attempt, rotate, recover, give up | a budget shared by attempts, which evidence survives |
| Presets (`src/presets/`) | one file per preset and its lock file | create, stamped read, conditional update, delete, self-heal | minutes and a model call between read and write |
| Extraction (`src/extract/`) | none | rows and columns, prices, redirect stubs | columns that shift silently, numbers off by a factor, answers in any order |
| Search (`src/api/search.py`) | none | two jobs, results and their pages | a page or a link attached to the wrong result |
| Crawler (`yozh-crawler/src/`) | jobs, frontier, visited set, limiter buckets, scraper session | submit, worker pool, retries, cancel, event stream, `/map` | page cap and termination with concurrent workers, caps of different kinds |

Jobs flow as follows. The API stores the batch under a new job id, then enqueues one
stream entry per *chain head*: pages that share a `session_id` form a chain in index
order (`plan_chains`), and each finished page enqueues its successor. A worker takes
one entry, reads the job's meta hash, leaves at once if the job is over, skips to the
chain step if the slot is filled already, else scrapes and writes the slot; the write
that completes the count finalizes the job. taskiq acknowledges the entry when the
task returns or raises. Entries whose consumer died stay pending until the reaper
re-adds and acknowledges them. Finalized jobs carry a TTL.

`PROJECT.json` lists every component, modelled or not, and every hazard with its line.

## 2. Modules

| Module | What it is |
|---|---|
| `ScrapeQueue` | the pipeline above: API, job store, stream, workers, reaper, clients |
| `ScrapeJob` | what the API promises about a job, with no queue and no workers |
| `MCScrapeQueue` | instance for TLC (symmetry) |
| `ScrapeQueueProofs` | TLAPS proofs about `ScrapeQueue`: the store; order, coverage and the contract |
| `Frontier` | the crawl frontier as operators on one record |
| `FrontierFairness` | the frontier on its own, with the history a rotation promise needs |
| `CrawlEngine` | one crawl: worker pool, frontier, seen pages, cap, retries, stops |
| `PageLife` | what a crawl promises each page, with no workers and no frontier |
| `ManagedSession` | the proxy session the fetches of a crawl share |
| `CrawlJobs` | the crawler service: job queue, engines, cancellation, event streams |
| `ProxySession` | the exits of one page task: leases, excluded proxies, how each pool recovers |
| `AttemptLoop` | one page task: budget, attempts, rotation, which failure is reported |
| `SessionStore` | sessions in Redis: the API calls, scrapes and logins that share them |
| `PageFetch` | one fetch by a pooled, an ephemeral or a Camoufox runner |
| `WorkerBrowser` | the browser a worker keeps warm, its tasks and its lifecycle loop |
| `SelfHeal` | materialisation of a recipe, the tiers of the parser, what of a repair may be stored, as operators |
| `PresetStore` | a preset file, the people who write it and the jobs that repair it; extends `SelfHeal` |
| `RowExtraction`, `NumberParsing`, `RedirectResolve` | row-scoped columns, prices and integers, redirect stubs |
| `SearchResults` | `POST /search` |
| `DomainLimiter` | one domain's bucket of the crawler's rate limiter |
| `Arrangement` | what a comprehension keeps of a list, what a sort and a slice make of it, as operators |
| `SiteMap` | `POST /map` |
| `MCAttemptLoop`, `MCCrawlEngine`, `MCCrawlJobs` | instances for TLC |
| `MCParts` | instance for TLC of the components that stand alone: each behaviour drives one of them |
| `AttemptLoopProofs`, `SessionStoreProofs`, `CrawlEngineProofs`, `CrawlJobsProofs` | TLAPS proofs about the module they name |
| `PartsProofs` | TLAPS proofs about `PageFetch`, `WorkerBrowser`, `RedirectResolve`, `PresetStore`, `RowExtraction` |
| `ListProofs` | TLAPS proofs about `Arrangement`, `SearchResults`, `NumberParsing`, `SiteMap` |
| `CrawlPartsProofs` | TLAPS proofs about `ManagedSession`, `DomainLimiter`, `FrontierFairness` |

### ScrapeQueue: state and actions

One action is one Redis round trip: a Lua script or a MULTI block is atomic, everything
else may interleave at each `await`.

| Variables | Code |
|---|---|
| `status total done cancelled links` | the meta hash; `links` is the set of `chain_next:<i>` fields |
| `slot` | the results hash; `stub` is what cancelling fills in |
| `msg lastId delivered pending` | the stream, the group's last-delivered-id, its pending entries list |
| `sub heads stubs` | the coroutine running `ScrapeService._enqueue` for a job: its step, the heads left, the unfilled pages it saw |
| `pc held out` | a worker: next step of `_scrape_page_task`, the entry it executes, the outcome of the run |
| `reaper` | the `reclaim_once` pass: claimed entries still to re-add, XADD or XACK next |
| `client` | a caller of results or cancel: which of `get_full`'s three reads is next, what it saw |
| `faults` | crashes, failing calls and slow deliveries so far |

| Actions | Code |
|---|---|
| `SubmitCheck SubmitCreate SubmitKiq SubmitReturn` | `_enqueue` |
| `SubmitCreateRaises` | `store.create` raising, before its transaction or after it was applied; outside the `try` |
| `SubmitKiqRaises SubmitConverge SubmitCancel` | its except branch, `_cancel_unfilled` |
| `SubmitConvergeRaises` | `get_full` or `request_cancel` raising inside that branch |
| `Deliver Ack` | taskiq-redis (external), `xread_count=1` |
| `TaskMeta TaskSlot TaskMark TaskPage TaskScrape TaskWrite TaskRemeta TaskChain` | the awaits of `_scrape_page_task` in their order |
| `TaskRaises` | a Redis call of the task body that raises |
| `ReaperClaim ReaperClaimSlow ReaperXadd ReaperXack` | `reclaim_once` |
| `ClientStart ... ClientCancel` | `get_full`, `request_cancel` |
| `Expire` | the TTLs of the three keys, taken as one; a new slot re-arms that of the results key alone, so results may outlive the meta hash, but then nobody can reach them |
| `ApiCrash WorkerCrash ReaperCrash` | the processes die |

Payloads, page contents and error texts are abstracted to the outcome `ok` or `error`; a
page is its index and (through the links) its session. Any number of pages up to
`MaxPages` with any assignment of sessions is submitted.

`ScrapeJob` is the contract: a job is created, runs, every page gets its slot once, the
last one ends the job; cancelling fills the empty slots; a page may finish again
(delivery is at least once); nothing else ever changes a job. `ScrapeQueue` implements
it under the identity mapping of `status`, `total` and `slot` (`PromiseSpec`).

### CrawlEngine, Frontier, PageLife: state and actions

The crawler is one event loop, so an action runs from one `await` of a task to its next
one. The loop head of `_worker` is an action boundary too, although the code reaches it
without suspending: that allows every schedule of the loop and a few more.

| Variables | Code |
|---|---|
| `frontier` | `Frontier._queues`, `_domain_order`, `_size`; a request's `next_attempt_at` is the flag `due` |
| `seen inFlight` | `_dedup`, `_in_flight` |
| `worker` | the tasks of `run()`: where each one is (`loop`, `semaphore`, `fetch`, or over) and its request |
| `stats linkStats pages` | the counters of `CrawlStats`, the records given to `on_page` |
| `stopped` | `cancel(hard=...)` or the job's `wait_for` timeout |
| `links` | external: which hrefs each page of the site holds, chosen in `Init` |

| Actions | Code |
|---|---|
| `Return Dispatch` | the branches of the `_worker` loop |
| `Enter` | `async with domain_semaphore` |
| `Failed` | the except branches of `_process`, the not-genuine answer, `_handle_failure` |
| `Visited` | the rest of `_process`: page record, then every link through dedup and scope |
| `Raises` | `extract_links` raising on an href that `urljoin` refuses |
| `Stop Elapse` | cancel and timeout; a backoff that runs out |

A url is a model value; its fingerprint (dedup), its host (frontier), the site of a host
(semaphore) and the scope are constants, because two spellings of a host are one page and
one site but two sub-queues. `PageLife` is the contract of a page: unseen, waiting, in a
worker's hands, then visited or failed once, back to waiting for a retry, skipped by the
scope, or lost with its worker; `CrawlEngine` implements it (`LifeSpec`) with the phase
of a page computed from the frontier, the workers and the records.

### ManagedSession, CrawlJobs

`ManagedSession`: `Acquire` and `Release` are the two methods; scores count half points;
`holds` is the session object a running fetch refers to. `CrawlJobs`: `Submit`,
`RequestCancel`, `Subscribe`, `Send`, `Disconnect` are the endpoints, `Take`, `PageOut`,
`EngineDone`, `EngineFails` the stretches of `JobRunner._worker` between real suspensions
(`set_status` is a coroutine but never suspends), `Stop` is the shutdown, one step because
every cancelled task only runs code that does not suspend. `accepted` is a history of
cancels answered with success.

### ProxySession, AttemptLoop

`AttemptLoop` is `run_scrape` under the ceiling `scrape_page` puts over it; it extends
`ProxySession`, whose actions are the conjuncts of `open_session` and `on_failure`.

| Action | Code |
|---|---|
| `OpenSession`, `OpenSessionFails` | `proxy_resolver.open_session`; an API error, no proxy, no key, impossible targeting |
| `NotStarted`, `Fetch`, `FetchRaises` | the top of the loop: no budget, `runner.fetch` and the choice of the reported attempt, a browser that cannot be launched |
| `Stop`, `Rotate` | the decisions on the attempt just made |
| `OnFailure` | the provider's recovery: `ChangeIp`, `RotateNext`, `Reconnect`, or none |
| `Parse`, `SkipParse`, `Pack` | the parser behind its gate and `within_deadline`; the envelope |
| `CeilingFires` | `asyncio.wait_for` cancels the await at hand |

The clock is `left`, the time to `attempt_deadline`; an await takes any time up to the most
it can. What the loop grants an await (`Granted`) is, for a fetch, its phases at the promised timeout
and the dwell, for the parser and the packing what is left; up to `ExcessMax` more goes by in
what no timeout of the loop governs (`MayExceed`): calls to a provider, and of a fetch the
launch, the reads while the page settles, the screenshot and the teardown. `unbudgeted` adds
that up. Nothing relates `ExcessMax` to the slack, as nothing in the code does: closing alone
may wait ten seconds per object, the slack is at most five, so the ceiling can fire inside a
fetch, and does in the instance. `pc` stays where the task was when it ended. A fetch result is a kind
(`why`) and whether the egress guard refused anything (`denied`), the facts the loop tells
apart. An exit is a source proxy and the serial number of its purchase. `seen` and `used`
are histories; `reported` is an index into `seen`. The order of the API's list is not
specified, so `Candidates` is any available proxy where the code takes the first; proxies
come and go between calls (`listed`). A premium session caches every lookup, so its
recovery asks nobody and cannot fail.

### SessionStore

| Variables | Code |
|---|---|
| `record index` | `session:{id}`, `sessions:index` |
| `lock rmw` | the session's lock (`src/queue/locks.py`) and the short one around a read-modify-write |
| `due` | sessions whose `expires_at` has passed |
| `caller` | an API call or a scrape: the round trips it still has to make (`Trips`) and its local copies |
| `mail` | payload, result and task of a login handed to a worker |
| `gone crashed torn` | histories: evicted or deleted, a call died on it, its short lock lapsed under its holder |

Every action is one round trip: `Save Count Evict Drop Get Bump Check AcquireLock GiveUp
Unlock ReadUnderLock WriteUnderLock TooLarge Peek Unindex Run Enqueue Await TakeLogin
EndLogin`; `Redeliver`, `Crash`, `Lapse` and `LapseShort` (the key of a lock runs out) and
`Age` are the environment. An eviction counts, then reads the victims, then deletes one after
the other. Cookies are told apart by their expiry only: what a browser exports (`Exported`,
maybe nothing), what may be injected (any list, the empty one and strings included), and what
`Normalized` makes of them. A string passes unchanged, and a browser context refuses to load
it, which ends the next scrape or login. Which session is least recently used is left open.

### PageFetch, WorkerBrowser

`PageFetch` has one action per await of a fetch: what it opens (`OpenNext`, `OpenFails`,
`Refuse`), `Warmup`, `Goto`, `WaitForSelector`, `ReadPage`, `TakeShot`, `ReadState`, and the
teardown (`Close`); `StepFails`, `Interrupted` and `CloseInterrupted` are exceptions and
cancellations. `place` is the page the browser is on, one of a few kinds, and may change by
itself between two awaits, to a page of any status. The status a fetch is judged by and
reports is that of the response `goto` returned, or none (`NoStatus`); the verdict
(`Verdict`) is computed of that and of what was read at different moments. `open` is what has been opened and not closed.

`WorkerBrowser` has the task (`Enter StartDriver Launch Abandon Render RecordPage`), the
lifecycle pass (`Wake Look Stop Closed`), `Drain`, and a browser that dies by itself
(`Die`). Steps end where the code yields. `pages` and `activity` are the counters on which
the pass decides; a task updates them only when it has left the guard.

### SelfHeal, PresetStore

A recipe is a record: whether it has a row container, and its fields with selector,
`required`, whether the value is coerced, and where the base of its links comes from. Text
is not modelled: a selector finds nothing, a label or a value. `Materialized` fills in what
one request needs, `Stripped` takes it out again, `Parsed` is the cascade of
`parser_pipeline.py`, `Repair` what a model's answer may become.

`PresetStore` makes each system call a step, because threads of the API and workers in
other containers share the directory: `Exists Vacant Lock Stat Compare Replace Unlink Open
Write` are executed as the `Program` of a call says, `Call`, `Read`, `Reject`, `Parse` and
`Load` begin a call or take a job from the read of a preset to the copy it wants to store,
and `Fail` ends any of them anywhere. `inode` tells a created file from one that replaced
it. `last` is a history of what people stored or removed.

### Extraction, search, /map, rate limiter

`RowExtraction` takes a page as a tree and a selector as the axes of its steps;
`RowSafe` is the validator, `OnePerRow` and `Escaped` what the extractor does.
`NumberParsing` takes a number as digits and separators, printed by every convention
(`Rendered`), and reads it back. `RedirectResolve` collects the stubs of some cells, asks
them a few at a time, settles at the deadline and rewrites the cells. `SearchResults` has
the two jobs of a search, with pages that end in any order, before or after the deadline.
`SiteMap` walks documents from the robots file or the common locations next to the fetch of
the seed page, then merges, filters, sorts and cuts. `DomainLimiter` holds times relative
to now: `ready` until the next token, `throttled` until the end of the cooldown; `sleeper`
is the caller asleep with the bucket's lock.

## 3. Runs

| Run | What it shows |
|---|---|
| `ScrapeQueueCrash` | two faults of any kind: no page and no chain link is lost, a half-submitted job converges unless its convergence fails too, chains keep their order, the contract is implemented |
| `ScrapeQueueCancel` | a cancel computed from a stale snapshot against running, redelivered and expiring pages: exact counters, full and final terminal jobs |
| `ScrapeQueueLive` | every accepted batch ends and the queue drains, with one fault and a client that cancels, its stubs included or (`JobPagesUnreadable`) not |
| `ScrapeQueueRedisError` | *violation*: one Redis error in the task body strands the job |
| `AttemptLoop` | up to three attempts, every order of outcomes, every kind of proxy session, a roomy and a spent budget: what is reported and parsed, what the ceiling can destroy, when an exit is bought, no exit twice |
| `CrawlEngine` | three sites, every answer to every fetch, soft and hard cancels and the timeout at any point: the cap with pages in hand, nothing fetched after the return, the life cycle of every page, no admissible link lost, and every crawl ends, stopped or not |
| `CrawlJobs` | cancels, failures, shutdown and a stream opened at any moment: a job ends once, cancels are honoured, streams are complete; fair schedules end jobs and streams |
| `Parts` | each of the components above that stand alone, under any calls its callers may make, see the table below |
| `PresetReverted` | *violation*: two PUTs around a repair, the second one restoring the first content |
| `MapBadChild` | *violation*: a child sitemap whose address no url parser takes |
| `CrawlEngineBadHref` | *violation*: one href ends the worker that met it |
| `CrawlEngineStarve` | *violation*: one slow host holds the whole pool |

| Property of `Parts` | What it says |
|---|---|
| `LoggingInHasLogin` | no way out of a login leaves its session `logging_in` |
| `ReadyHasState` | until it expires, a session that says `ready` has a storage state, and nothing is stored with a null, negative or fractional expiry |
| `OkIsGenuine` | a fetch that says ok was answered with no banning status, read a public page that is no block, and saw what it waited for |
| `ClosedAtTheEnd` | however a fetch ends, it has closed what it opened |
| `EditSurvives` | a stored repair never undoes an edit or a removal, and changes selectors only |
| `HealedIsWhole` | what is called `self_healed` has every required field |
| `NeverClosedInUse` | the lifecycle pass never takes browser or driver from under a task |
| `RowsAligned` | a column has one entry per row, of that row, or is empty with a warning; if all its text is gone there is a warning, or some of it was left as empty strings |
| `NumbersReadBack` | prices and integers come back as printed, or with a warning |
| `OwnDestination` | a resolved address stands where its own stub stood |
| `OwnResults` | a search result, and the page attached to it, is that of its own row |
| `HealthyUnlessRetired` | a proxy session that is not retired is below its error limit, and so are its uses that came back below the usage limit |
| `BoundedOvertaking` | no host of the frontier that is ready is passed over twice by another one |
| `RateKept` | two tokens of a domain are never closer than its fastest job allows |
| `MapIsComplete` | a page that was asked for is in the answer once, but for the caps |

**Bounds.** `MaxPages` 2 or 3: with two pages there are independent pages and a chain,
with three a chain with an interior link. Two workers are the fewest that execute one
page twice at the same time. `MaxFaults` 1 or 2: two faults are a crash of the worker
followed by a crash of the reaper that repairs it, or a redelivery of a page that is
still running followed by a crash. `MaxMsgs` bounds stream ids: it is a state bound that
blocks further XADDs, chosen above what the pages and the faults of the instance can
produce in the liveness runs (an instance with too few ids would report jobs stuck
behind the bound). Workers, jobs and clients are symmetric. In the safety runs the bound
on messages may stop the system, and an idle queue is a legal end, so deadlock is not
checked.

A crawl has four workers because `run()` starts `min(20, 4 * per_domain_concurrency)` of
them and the concurrency is one; they are symmetric. Three sites are enough for the cases
that matter: a page met under two spellings and from two pages with malformed, outside
and repeated links (`Twins`), a page one link away on one path and too deep on another
(`Depths`), and an href that `urljoin` refuses (`Bad`). `MaxPages = 4` is below what one
site holds and reached exactly by another. `MaxRetries = 2` gives a page a second retry.
In `Parts`, three fetches overlap on sessions good for four uses or two errors, so
both limits are met and overshot; three hosts are the fewest with a third one to pass
over. Two jobs, two workers and a queue of one let a job wait, be refused and be cancelled
in the queue while another runs. In `AttemptLoop`, three attempts are `MAX_RETRIES`'
default and the fewest with an attempt between the first and the last; one, two and three
phases are all there are; the budget of 4 pays for three attempts only of the cheapest
kind, the budget of 0 stands for a task that waited on its session's lock; `ExcessMax = 3` is
more than the slack of 2, so a single provider call, launch or teardown can outlast the
ceiling, and two smaller ones together. Two proxies, one a
modem with a change-ip link, let a pool run out. In `Parts` two callers share a
store of room for one session that has one; two more may be created, so evictions count one
set of sessions and read another, and an eviction, a login and a scrape meet on one record; two people and one job share a preset of two fields, which is enough for an edit before and after the job's read,
a repair that covers one field, and one that leaves its row. The worker's browser retires
after two pages, with a clock of four ticks of the idle window. Four cells, three links
and two requests at a time make a stub that is not asked and one that waits. A page is a
tree of seven nodes with nested and empty rows, numbers have up to eight digits before the
point, hence two separators; the intervals are 5 and 10 ticks, of which the jitter takes
exact fifths. Three sites of a sitemap index (whole, cut or
private, broken) are asked for with every combination of filters; three rows of seven
kinds are searched.
A page task that has answered, a crawl that is over, and a service without clients do nothing: deadlock is not checked there
either.

**Fairness** (`FairSpec`). A worker process that lives reads the next entry and takes its
next step: the run inside the task has a hard `wait_for` limit, every other await is one
Redis call. The submit coroutine runs to its end. The scheduler fires `reclaim_stale`
every 60 seconds, so an orphan is eventually claimed, re-added and acknowledged. Nothing
obliges a client, a fault or an expiry to happen.
In a crawl, the event loop runs every task that can go on (weak fairness of the loop
steps), a fetch ends at the latest at its polling deadline, a backoff is at most
`RETRY_BACKOFF_MAX`, and `asyncio.Semaphore` wakes its waiters first in, first out: a
waiter that is let in again and again is let in (strong fairness of `Enter`). In
`CrawlJobs` an engine ends at the latest at `job_timeout_ms`, and a client that stays
connected reads its stream.

**Disagreements found.** (1) `tasks.py` says the body "never raises past its guard", but
only the scrape itself is inside it: any Redis call around it that raises ends the
delivery, which is acknowledged, and an accepted job then stays `running` until its 24
hour safety TTL. (2) "One malformed href costs one link, never the worker": the `try` starts after
`extract_links`, whose `urljoin` raises on `http://[x`; the worker ends, the page is in no
counter, and if all four workers meet such a page the crawl is reported done with pages
waiting. (3) "One slow host can't starve others": the frontier alternates, but workers
wait for a host's semaphore with a request in hand, so one host with `4 * concurrency`
ready requests holds them all while another host has a request and a free permit.
(4) "unless the preset moved under us": the stamp of a repair compares contents, but what
is written is a copy read after the job was made; with one PUT before that copy and one
that restores the first content after it, the repair brings back everything the first PUT
had changed (`RestSurvives`; `EditSurvives` holds, because the recipe itself comes from the
job's plan). (5) A test is named "an undeclared prefix in one child does not erase the
others", and the parser is kept from raising out of the walk; but an address that `urlparse`
or httpx refuses raises out of `_fetch`, and everything read before is lost.

More that no run states. "Idempotent slot writes" (`store.py:9`): counting is, the
write is not; of two deliveries alive at once the later one replaces the result, an
`error` over an `ok` (which is why `ResultsKept` only forbids stubs over results).
`src/README.md:77-78` says `retries` is how many retries happened: `retries_used` is set
before the loop knows whether it may rotate, so three failed attempts report 3 and a
direct request, which never retries, reports 1 after a failure. `get_full` is three reads
and the keys may expire between them, so a finished job can be answered with empty slots
although the README says its results are fully populated (the model's client reads in
these three steps). `NoLinkLost` needs an exemption, because a page is marked as seen
before the scope looks at its depth: met first at the end of a long path, it is not
crawled from a shorter one. `LoggingInHasLogin` leaves out sessions whose call died or met
a failing Redis (`crashed`): nothing resets those. It and `ReadyHasState` leave out sessions
whose short lock lapsed between read and save (`torn`): the save is not conditional on the
lock, and undoes what others wrote meanwhile. `ready` does not promise cookies:
`POST /sessions/{id}/cookies` takes an empty list, and a login script may set none.
`FailedSubmitConverges` allows an active job after a second fault: the comment on the except
branch (`scrape_service.py:75-78`, and `:88-91`) speaks of converging the job so that a polling
caller sees a terminal state, but only `JobPagesUnreadable` is caught there, so a Redis error
of `get_full` or `request_cancel` replaces the original one and leaves the job active until
its 24 hour TTL. So does, with a single fault, a `create` that raises when its transaction
was applied (`SubmitCreateRaises`; the caller gets no job id then, and nothing was enqueued).
`OkIsGenuine` speaks of the status of the navigation: a page that moves itself on to a 429 or
503 without the text of a block is reported ok with the first status. `RowsAligned` asks for
no warning where a step leaves empty strings (a regex with an empty group, `replace`, `strip`
of given characters): the check for silent losses counts nulls only. `ClosedAtTheEnd` leaves out fetches
cancelled during their own teardown and contexts whose set-up fails after they were
created (`late`). The limiter's docstring says `on_429` halves the rate for a minute; a
second one halves it again, down to a tenth. `NumbersReadBack` asks for a warning on a lost
point only for numbers of four or five figures that nothing groups.
A page met first without a date keeps none (`MapIsComplete` exempts it). The crawler's README says `/map`
"degrades to direct" when the scraper refuses to resolve a proxy; `create_map` answers 502
(`ProxyRefused`), as its own comment says. A sitemap address in `robots.txt` that `urljoin`
refuses ends the walk in the same way, before anything was read (`Discover`). The docstring of `EngineProfile` (`search.py:50`) calls the first link of a block
the result's; `_parse_results` takes the `links` column where the preset aligns one (`LinkOf`).

**Hazards without a property.** Listed with their lines in `PROJECT.json` are those that a
property covers. The code has others, which the modules show but no property is about: the
short lock of a session that lapses between read and save (`LapseShort`); the eviction of
sessions counts and reads the oldest in two calls (the model's `Count` and `Evict`), so two
creates may evict one victim too many; a bare navigation deadline is granted one rotation,
and `runner.fetch` may raise, which replaces the evidence of earlier attempts by an error
(`FetchRaises`); a browser that died is taken for a live one until the lifecycle loop
closes it (`Die`), and a start after a failed launch starts a second driver
(`StartDriver`); an href that cannot be joined makes `/map` answer 500.

## 4. Proofs

Every theorem holds for all values of the constants, from the assumptions named in the
module that declares them. Liveness under fairness stays with TLC.

### The pipeline

`ScrapeQueueProofs` has, for every number of jobs, workers,
clients, pages, stream ids and faults, from `QueueAssumption` (the bounds are natural
numbers) alone:

| Theorem | Statement |
|---|---|
| `TypeCorrect` | `Spec => []TypeOK` |
| `CountsAreExact` | `Spec => []DoneCountsSlots` |
| `DoneJobsAreFull` | `Spec => []DoneIsFull` |
| `FlagFollowsStatus` | `Spec => []FlagIsStatus` |
| `CancelledJobsAreFull` | `Spec => []CancelledIsFull` if page specs stay readable (`~SchemaSkew`) |
| `FailedSubmitsConverge` | `Spec => []FailedSubmitConverges`: an active job behind a failed submit takes a second fault |
| `TerminalStays` | `Spec => TerminalIsFinal` |
| `ResultsSurvive` | `Spec => ResultsKept` |
| `SessionsInOrder` | `Spec => []ChainInOrder` |
| `PagesAreCovered` | `Spec => []PagesCovered` if no Redis call of a task body raises (`~RedisErrors`) |
| `ImplementsPromise` | `Spec => PromiseSpec` |

*The store.* `TypeOK` is not inductive: a slot write needs to know that the entry the
worker holds names a page of its batch. `Shape` adds that: entries name pages of stored
batches, a busy worker holds a delivered entry, a job that does not exist has no slots
and no links, the submit coroutine and the clients deal with pages of their own batch.
Frame lemmas (`FrameStore` ... `FrameClient`) carry the parts a step leaves alone.
`StoreEffects` then reduces the twenty-odd actions to what they can do to one job's keys:
nothing, create, mark running, write a slot, cancel with stubs, expire; the store's
invariants (`StoreInv`: the counter is the number of slots, a done job is full, flag and
status agree) are preserved by each. They need each other: the flag decides which
terminal status the last write picks, and the exact counter is why that write finds the
job full. `CancelledJobsAreFull` adds `Snapshots`: what a cancelling process has read as
empty still covers what is empty, because slots are only ever filled while a job lives.

*Order.* Chains are lines (`ChainsAreLines`), heads are first in theirs, and a task goes on
along the chain only from a page whose slot exists (`ChainedAreWritten`); so every entry
there ever was names a page whose predecessors have their slots (`EntriesInOrder`).

*Coverage.* A page cannot be followed through the system, because an entry is redelivered,
claimed and re-added. The invariant follows entries instead: an entry of an active job is
either still carried by the stream, a worker or the reaper, or its page is written and so
is, or carried is, the page after it in its chain (`EntriesCaredFor`); only a page that had
an entry is written before a cancel brings its stubs (`WrittenHaveEntries`); and a head has
its entry or is still to be enqueued (`HeadsHaveEntries`). A redelivery of a written page
is what re-issues a chain. `~RedisErrors` is needed: run `ScrapeQueueRedisError` shows
the page a raising task loses.

*The contract.* Each effect of `StoreEffects` is a step of `ScrapeJob` or a stutter of it,
given that what is scraped was marked running (`ScrapedAreMarked`) and what a cancel stubs
covers what is empty (`Snapshots`, unless page specs may be unreadable).

### The page task

For every pool, request, budget, dwell and list of outcomes, from `ProxyAssumption` and
`AttemptAssumption`:

| Theorem of `AttemptLoopProofs` | Statement | Argument |
|---|---|---|
| `TypeCorrect` | `Spec => []TypeOK` | a rotation is begun only with an attempt left (`AttemptLeft`) |
| `EvidenceIsKept` | `Spec => []EvidenceKept` | only the last result can be a success (`SuccessIsLast`); then by cases on the comparison with the incumbent |
| `GenuinePagesAreParsed` | `Spec => []GenuinePageParsed` | the parser's gate is the rank by which the reported attempt was chosen (`GateIsRank`), so a genuine page among the attempts is the reported one |
| `BudgetIsKept` | `Spec => []BudgetKept` | phases times the floor of the quotient is at most the time left (`PhasesFit`), so what is granted never reaches past `attempt_deadline` (`GrantFits`), and the time past it is `unbudgeted` (`Accounted`) |
| `BurnedExitsAreOut` | `Spec => []BurnedExitsStayOut` | serials grow in the order of use (`Bought`); every proxy used but the one held is excluded (`Excluded`) |
| `ExitsAreFetchedThrough` | `Spec => ExitsAreNotWasted` | at a rotation as many exits were bought as used, and budget and number were vetted (`Vetted`) |

`BudgetIsKept` assumes nothing of what the slack is kept for. It does not say that the ceiling
spares a fetch: a teardown that runs into its timeouts, or a slow launch, can use up the slack
by itself. It says that the loop's own arithmetic never contributes: over all attempts, phases
and dwells, a task is cut only when the time that no timeout of the loop governs adds up to
the whole slack.

### The session store

For any sessions, callers, requests and limits (`SessionStoreProofs`):

| Theorem | Statement |
|---|---|
| `StoreIsTyped` | `SSpec => []TypeOK` |
| `NobodyIsLeftLoggingIn` | `SSpec => []LoggingInHasLogin` |
| `ReadySessionsHaveState` | `SSpec => []ReadyHasState` |

Callers follow their programs (`OnTheLine`: what a caller still has to do is one of the
tails its call may reach), and whoever has read a record to change it holds the short lock
(`Exclusive`), so no write between read and write is lost, as long as that lock has not lapsed. On this rest the two results.
While a record, or a copy of it, says `logging_in`, some login is still obliged to write
another status (`SomeoneObliged`); and when a caller is past its store of cookies, neither
record nor copy is without a storage state (`StoredFirst`), where a session whose create has not run
yet has to be nobody's business (`NothingBeforeBirth`). The long lock of a login, whose key may
lapse, is not used: the results do not depend on it.

### The crawler

For every site, pool, queue, number of clients and limit:

| Theorem | Statement | Argument |
|---|---|---|
| `CrawlEngineProofs!NeverPastMaxPages` | `Spec => []PageCap` | `_in_flight` is the number of pages in hand, by a cardinality lemma per way a worker takes or leaves one; the cap then follows because a visit turns a page in hand into a visited one |
| `CrawlEngineProofs!ReturnsOnlyAtTheEnd` | `Spec => []NoWorkAfterReturn` | a worker returns with nothing in hand and nothing that the cap admits; only a page in hand could change that |
| `CrawlEngineProofs!EveryLinkIsFollowed` | `Spec => []NoLinkLost` | below |
| `CrawlEngineProofs!PagesLiveOnce` | `Spec => LifeSpec` | below |
| `CrawlJobsProofs!OneEnginePerRunningJob` | `Spec => []RunningHasEngine` | a queued job is in the queue once and has no engine; the queue is duplicate free |
| `CrawlJobsProofs!CancelIsHonoured` | `Spec => []CancelHonoured` | an accepted cancel leaves the status cancelled or the engine's flag set |
| `CrawlJobsProofs!EndedStaysEnded` | `Spec => SettledStays` | an engine runs only jobs that have not ended |
| `CrawlJobsProofs!StreamsAreComplete` | `Spec => []StreamComplete` | what a stream was sent, followed by what waits in its queue, is the record of its job up to now (`StreamTold`); the record itself is what the engine put out (`RecordTold`) |
| `CrawlPartsProofs!UsageNeverRunsAway` | `Spec => []UsageBounded` | a session below its limit counts only uses that came back; what is out is one per fetch |
| `CrawlPartsProofs!OnlyHealthySessionsServe` | `Spec => []HealthyUnlessRetired` | with the sessions not made yet being fresh, and nobody holding two |
| `CrawlPartsProofs!TokensKeepTheirDistance` | `LSpec => []RateKept` | what is still to wait makes up for what has passed since the last token (`WaitsEnough`), and a sleeper will charge the interval of some job (`ChargesEnough`); throttling only lengthens intervals (`ThrottledIsLonger`), jitter takes at most a fifth |
| `CrawlPartsProofs!NoHostStarves` | `RSpec => []BoundedOvertaking` | `InTurn`: how often a ready host was passed over plus its place in the rotation is at most the number of hosts; a pop takes every host behind the one it serves to the front (`RotatedIs`) |

*Links and pages.* A visit folds the links of a page into the seen set, the frontier and the
counters. What that fold computes is proved by induction over the links
(`SetInduction`, induction on numbers stated about sets): every href's page is seen
afterwards, and what is new to the frontier are pages that were not seen, in scope, within depth, once each. The invariant behind `EveryLinkIsFollowed` is that
every seen page is in hand, lost with its worker, waiting in the frontier, recorded, or
refused at a page that was visited; when all workers are over and the cap was not reached the
frontier is empty, so what remains is recorded or refused. `PagesLiveOnce` refines: the phase
of a page is computed of frontier, workers and records, and `Single` and `OneHome` say
that a page is at one place, once; then each action moves the pages it touches along one
edge of `PageLife` and leaves the others.

### Fetches, browsers, presets, redirects, rows

`PartsProofs` has, for all constants of the five modules:

| Theorem | Statement | Argument |
|---|---|---|
| `OkPagesAreGenuine` | `FSpec => []OkIsGenuine` | nothing is ok before the page was read; the verdict is of what was read, and a selector not seen is known to be missing by then (`Honest`) |
| `FetchesCloseUp` | `FSpec => []ClosedAtTheEnd` | what is open is of what the runner opens, and from the start of the teardown on is covered by what is still to be closed (`Tidy`) |
| `NoBrowserIsTakenAway` | `WSpec => []NeverClosedInUse` | a pass that is closing and a task inside the guard exclude each other; a handle never is without a driver |
| `DestinationsLandAtHome` | `ResolveSpec => []OwnDestination` | an answer stands in the place of its own hop, and cells are rewritten from there only |
| `PeopleHaveTheLastWord` | `PSpec => []EditSurvives` | below |
| `SelfHealedIsNotPartial` | `PSpec => []HealedIsWhole` | only reading and parsing touch what a job reports, and a repair is chosen only if it recovers the required fields |
| `ColumnsLineUp` | `RowSpec => []RowsAligned` | ancestors of ancestors are ancestors (`AncestorsGoUp`), so a safe step stays in the subtree it starts in (`SafeStepsStay`), and by induction on its steps so does a selector (`SafeSelectorsStay`); what is kept of a match is the least node inside the row (`OneFromEachRow`) |

`RowAssumption` says that nodes are numbered in document order, so that a parent comes
before its children. The recursive functions `ancestors` and `Reached` are shown to satisfy their own equations
(`AncestorsAre`, `ReachedIs`) before anything is said of them. The two theorems about
presets need `PresetAssumption`: presets people send passed the validator that keeps
selectors in their row, and plans of a model are recipes. `PeopleHaveTheLastWord` has two
halves. `RepairKeeps` is about data: a recipe materialised, repaired by a plan that covers
its fields and stripped again has the contract (names, `required`, coercion, bases, scope)
of the recipe it came from; `StoreIsRepair` says that this is what the parser hands over.
The other half is about steps: whoever is between lock and write holds the lock
(`Locked`), so after a job's comparison the file is the one it read, until it writes
(`JobInv`); `create` and `generate` take no lock, but only write where there was no file,
or to the blank one they made.

### Lists: search results, numbers, site map

`ListProofs` has, for all constants of the three modules:

| Theorem | Statement | Argument |
|---|---|---|
| `ResultsAreOwn` | `QSpec => []OwnResults` | a result is of a row of its own (`OfRows`: the k-th fresh row has k of them up to it, `NthIs`), slots stand at the places of the results (`Slotted`), so what is attached by position is the page of that address (`Attached`) |
| `NumbersAreReadBack` | `NumSpec => []NumbersReadBack` | a printed number is lead figures, q groups of three and k decimals (`RenderedIsPrinted`); the point is the last separator or there is none (`PriceIs`), figures are what is left when separators are taken away (`DigitsAre`), and the groups read are all q, since one fewer is followed by the same separator and a figure, and one more does not fit (`IntDigitsIs`) |
| `MapsAreComplete` | `MapSpec => []MapIsComplete` | below |

All rest on `Arrangement`: in a finite set with a total order, counting who goes before
brings every member to one place (`InOrderIs`), so a comprehension keeps each element it
chooses once and nothing else (`PickedKeeps`), a sort keeps everything and orders it
(`SortedIs`), and a slice leaves out only what stands behind it (`AtMostKeeps`).

`MapIsComplete` speaks of the answer only; the invariant below it (`Heard`) follows the
walk: everything found was listed by a document that was read and mentions the search
text, and unless the walk was erased or the cap reached, every listed url that mentions it
was found. Reading a document adds the same to both sides; the final cut removes something
only if the cap was reached. The answer is computed in one step (`AnswerIs`): of the
spellings of a page in scope the first one is kept, it passes the filter if it has the
date of the one asked for (scope and canonical spelling are the same, `SiteAssumption`),
and what the slice leaves out has `limit` urls before it that are no older.

`SearchAssumption` and `NumberAssumption` say that limits are numbers. `SiteAssumption`
says in addition that documents and the seed page hold lists of locs with dates, and that
scope and canonical search are decided of the page, not of its spelling.

### Only model-checked

Liveness (`AcceptedConverges`, `DepthDrains`, `Finishes`, `JobsSettle`, `StreamsEnd`) is
out of the prover's reach. Every invariant and every action property of the passing runs is
a theorem. Induction is put in first order where it is needed, as a least counterexample of
a well-founded order: the fold over a page's links and `MinIsLeast` are proved that way.

A type invariant is stated in each of the modules with proofs and proved there
(`TypeOK` or a part of the inductive invariant); the runs check the properties that rest on
it.

## 5. Not modelled

*Egress guard* (`src/security/`): it classifies addresses and resolves names, with no state
but a cache; the loop and the fetch see its verdict as an input (`denied`, `refused`).
*Settings, schemas, logging, redaction*: configuration, validation and wording. *Test
targets, examples, scripts*: not part of the running system.

Within the modelled components: trimming of the stream at `STREAM_MAXLEN`; text, which
means the single text operations and the markdown of the extractor, url templates and
locales of presets, prompts, what marks a page as a block, robots files and XML,
canonicalisation of urls and scope patterns; what a browser is told (fingerprints,
geolocation, launch arguments); HTTP clients, listings and user names of the proxy
provider, and its socks bridge; the fetcher's submit and poll; the steps of a login script;
periodic stats events, the limit on stored jobs and paging of the crawler. `PROJECT.json`
gives the reason per component. These parts are either pure functions of text, which a
model would have to abstract to the point of saying nothing, or I/O without state of its
own.

## 6. How it grew, and what is left

1. `ScrapeQueue`, `ScrapeJob`, `CrawlEngine`, `Frontier`, `PageLife`, `ManagedSession`,
   `CrawlJobs`, `ProxySession`, `AttemptLoop` and their proofs.
2. `SessionStore`, `PageFetch`, `WorkerBrowser`, `SelfHeal`, `PresetStore`,
   `RowExtraction`, `NumberParsing`, `RedirectResolve`, `SearchResults`, `DomainLimiter`,
   `SiteMap`, and proofs for three of them.
3. Order, coverage and the contract of the pipeline, the exactness of the frontier and the
   contract of a page, the completeness of streams, what is parsed, the session store, the
   rate limiter, the rotation, the fetch, `HealedIsWhole`, the columns of a recipe, the
   results of a search, the numbers of a page and the map of a site as theorems.
4. Left: trimming of the stream.
