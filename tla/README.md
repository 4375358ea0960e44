# Termómetro Cultural: formal specifications

TLA+ specifications of the ingestion and analysis backend of Termómetro Cultural, model-checked with
TLC and proved with TLAPS. Paths are relative to the repository root (`src/`).

- [Inventory](#inventory): the system's parts, their state, how they interact, where it is hard
- [Modules](#modules): what models what
- [Runs](#runs): what TLC checks, the bounds, the fairness
- [Findings](#findings): where the code and what it says of itself differ
- [Proofs](#proofs): what holds for all constants, and by which invariant
- [Limits](#limits): abstractions, and what is not modelled
- [Plan](#plan): what is done and what could follow

## Inventory

| Component | State | Operations | Correct when |
|---|---|---|---|
| Celery task chain (`app/scheduler/tasks.py`) | the locals of a running task: new ids, the rows read, the item at hand | `scrape_sources` → `process_text_data` → `update_analytics` → `notify_n8n` | every stored post is analysed in the end, once; a crash repeats or loses nothing |
| Broker, routes, Beat (`celery_app.py`) | three queues, unacknowledged messages | publish, deliver, acknowledge, deliver again | a message is worked on until it is done |
| Repository (`repository.py`) | tables posts, analysis_results, topics, sentiment_scores | `upsert_post`, `get_unprocessed_posts`, `save_analysis_result`, `update_post_cache`, `get_stale_posts` | one row per URL, a cached label comes from an analysis |
| NLP pipeline (`app/processing/`) | one post's stage, labels, confidence | `process_record`, `classify_*`, `detect_language` | labels and confidence say what the LLM said; an outage is no opinion |
| LLM client (`_llm.py`) | attempts of a call | `llm_complete`, `llm_complete_json` | bounded retries, bounded rate |
| Rate limiter (`core/rate_limiter.py`) | a token bucket per process and key | `allow`, `wait_time`, `init_rate_limiters` | no window sees more than a burst and the refill |
| Event loop helper (`_run_async`) and sessions (`storage/database.py`) | the thread's loop, what is suspended on it, the pooled connections | run a coroutine | nothing bound to a loop is used after it; no connection of a lost loop fails two reports |
| Scrapers (`ingestion/scrapers/`) | attempts, the browser, the items of one visit | `scrape` with retries, `_scrape_one` | every text is stored under its URL, a source that fails costs only itself and leaves no browser |
| Privacy (`processing/privacy.py`) | none | `sanitize`, `sanitize_record` | no identifier reaches the tables |
| Aggregates, reports, score (`app/analysis/`) | none; several reads per report | `generate_report`, `detect_spikes`, `compute_social_thermometer_score` | parts agree, score within 0..100 |
| API and webhooks (`app/api/`) | the limiters | `trigger_scraping`, report and list endpoints | only callers with the secret use up the rate, and they publish no more scrapes than it allows |
| Batch and retry helpers (`core/`) | a semaphore | `process_batch_async`, retry decorators | at most `max_concurrent` at once, no result lost |

How they interact:

- **Messages.** Beat, or `POST /webhooks/trigger-scraping`, publishes `scrape_sources`. Its last act is to
  publish `process_text_data(new_post_ids)`, which publishes `update_analytics`, which publishes
  `notify_n8n`; Beat also publishes `update_analytics` every six hours.
- **Shared state.** Tasks share nothing but the database. Each repository call is a transaction of its
  own, so two tasks interleave between calls, and inside `upsert_post`, whose SELECT and INSERT are two
  statements at READ COMMITTED on a table without a unique URL.
- **Calls.** `process_text_data` calls the NLP pipeline once per post, which calls the LLM client up to
  five times, each call guarded by the rate limiter of its process.
- **The loop.** `_run_async` runs the coroutines of all tasks of a worker process, scrapers and reports
  alike, on one loop as long as none of them raises a RuntimeError.
- **Signals.** The soft time limit is an exception raised wherever the process happens to be: in the loop,
  where it leaves the coroutine suspended, or in a `try` that excepts `Exception`.
- **Reads.** A report is seven SELECTs in one READ COMMITTED session; each sees what the workers have
  committed by then.

Where it is hard: two workers on one URL or one post; a worker lost between two transactions; a message
delivered twice; a batch that is smaller than the message; rows used long after they were read; parts of one
report read at different times; a retry that takes every exception for a transient one; defaults that make a
failure look like a result; texts and links of a page paired by position; a loop that outlives a task, and
browsers and connections that outlive their loop.
`PROJECT.json` lists these hazards with the line where each one bites.

## Modules

### TaskPipeline

`TaskPipeline.tla` is the core: queues, tables and worker processes. A worker takes a message
(`Receive...`), steps through the task with one action per database transaction or message, reaches a step
in `Done`, and acknowledges.

| Code | Model |
|---|---|
| tables posts, analysis_results | `posts`, `analyses`: sequences, the row id is the index; `by` is the worker that inserted it (an auxiliary field no guard reads) |
| queues | `scraping`, `analytics`, `notifications`: counts; `processing`: the `post_ids` of its messages, `{}` for none |
| position and locals of a task | `at`, `ids`, `todo`, `items`, `url`, `post`, `verdict`, `retries` |
| `scrape_sources` | `ReceiveScrape`, `GetActiveSources`, `ScrapeSource`, `SelectPost`, `InsertPost`, `ChainProcessing` |
| `process_text_data` | `ReceiveProcess`, `GetUnprocessedPosts`, `ProcessRecord`, `SaveAnalysisResult`, `UpdatePostCache`, `TriggerAnalytics` |
| `update_analytics` | `ReceiveAnalytics`, `GetStalePosts`, `SyncRow`, `TriggerNotify` |
| `notify_n8n` | `ReceiveNotify`, `SkipReport`, `SendReport`, `ReportFails` |
| `except` branches, time limits | `UpsertFails`, `InsertUnreported`, `PostFails`, `SyncFails`, `SoftTimeLimit`, `TaskFails` |
| `task_acks_late`, `task_reject_on_worker_lost` | `Acknowledge`, `WorkerLost` |
| the broker's visibility timeout | `DeliverAgain` |

`PostLifecycle.tla` is the abstract specification for readers of the tables: posts are stored and stay,
verdicts are only added, a shown label is one that was given. `TaskPipeline` refines it with `Given` and
`Shown` for its variables.

### NlpPipeline

`NlpPipeline.tla` takes the posts of one batch through `process_record`: cleaning, language (heuristic or
LLM), the combined call, the three fallback calls, the mean confidence, and saving. Every request may be
answered well, answered badly or fail; `attempts` counts tenacity's attempts; `Raise` is what each caller
does with the exception that is left. The soft time limit reaches the loop (`LimitEndsLoop`) or is raised
inside `llm_complete` (`LimitInCall`), where it is one more failed attempt. It details the single step
`ProcessRecord` of `TaskPipeline`.

### RateLimiter

`RateLimiter.tla` has one token bucket per process and key. `Admit` and `Deny` are the two outcomes of
`allow()`, `Pass` is a call in a process where `init_rate_limiters` never ran, `Restart` makes new buckets.
`OpenWindow` starts an observation at any time, so that `WindowBound` speaks of every window and not of the
whole run only. Float tokens are integers in units of 1/60 token: with `rpm` tokens a minute the refill per
second is `rpm` units, a whole number.

### Webhooks

`Webhooks.tla` puts the endpoints in front of `RateLimiter`: `Request` is the two dependencies in the order
FastAPI solves them (`Refuse` for 401, the limiter's `Deny` for 429, its `Admit`) and the handler.
`TriggerScraping` publishes a task or, when the broker fails, none; the answer "error" stands for either,
since the sources are read after the task is published. Nothing in a request waits before its first query,
so a request is one step of its process. `RateLimiter!Spec` is what it implements (`HooksImplementLimiter`).

### EventLoop and Scraping

`EventLoop.tla` is `_run_async` and the pool of the asynchronous engine. `RaiseRuntimeError` is a coroutine
that raises one: the thread has no loop from then on, and what was bound to it is lost. `CutOff` is the soft
limit raised while the loop waits, `CutOffReport` the same in a report, inside its `async with` block, and
`Resume` the loop going on with what it left: a report then returns its connection. `EndReport` is a
`notify_n8n` that generates its report or fails for a reason of its own, since either way the session ends and the
connection goes to the pool; without a kept loop it is dead from then on. `SpoilReport` is one that meets such a
connection, `Disconnect` the database breaking its connections. `pooled` and `holding` count the connections in the
pool and with suspended reports, `used` and `spoiled` the reports that had one of their own and those that failed
on another's. A checkout takes a pooled connection or one of the places that have none (`CheckedOut`).

`Scraping.tla` details the step `ScrapeSource` of `TaskPipeline` on such a loop:

| Code | Model |
|---|---|
| `_scrape_one` (which scraper, with or without `GROK_API_KEY`) | `ScrapeOne`, `FirstStep` |
| `BaseScraper.scrape` and its retry | `Launch`, `LaunchTransient`, `PageFails`, `attempt` |
| the `_scrape_impl` of each platform | `FacebookItems`, `InstagramItems`, `TwitterItems`, `NewsItems`, `GrokItems`: every list of URL and text a visit can give, under any URL for Grok |
| a Grok reply that is JSON of another shape (`grok_search.py`, lines 243, 252 and 256) | `GrokSearch` by way of `FailSource` |
| `_fetch_static` and its fallback | `FetchStatic` |
| the loop of `scrape_sources`, `upsert_post` with its `sanitize_record` | `BeginPass`, `UpsertPost`, `Sanitize`, `UpsertFails`, `SourceDone`, `EndPass` |
| SoftTimeLimitExceeded | `LimitInLoop`, `LimitInScraper`, `LimitSwallowed`, `LimitInPass`: by where it is raised |
| the coroutine that the limit leaves suspended, its browser open or not | `LeaveScraper` |
| the loop going on with it, beside a scraper or in another task | `GoOn`, `ResumeBeside`, `OtherTask` |
| the loop given up, and what was left on it | `LoseLoop` |

`open` is the browser of the page being read. A scraper that was cut off is in `cut` while its loop can go on with
it, and its browser in `adrift`; when the loop is given up, or was of one call only, the browser is in `stray`, as
nothing closes it any more. `Private` are the posts of whose text `sanitize` leaves nothing.
`stored` is the table as URL to text; `dropped` remembers under which URLs a text was skipped because another
was there, and no guard reads it.

### Reports

`Reports.tla` is `generate_report`, one action per statement, among writers. The writers are the actions of
`PostLifecycle` (`Lifecycle!Store`, `Analyse`, `Show`), so it rests on what `TaskPipeline` is shown to implement
and not on how; `StorePost` adds whether the post's date lies in the period, `SaveAnalysis` the topic it links,
which it finds only if `SeedLookupTables` of the worker start-up succeeded once. A number of the report is kept
as the set of rows it counts, so that "adds up to no more than" is set inclusion. `ReportFails` is a statement
that raises, and `BeginReport` any number of later reports, each with a period of its own.

### Scoring

`Scoring.tla` is `compute_social_thermometer_score` on what `generate_report` makes of the counts by topic.
Its steps are not steps of the program: each adds one mention, so that an action property compares the scores
of two weeks that differ in one analysis. The arithmetic is exact: weights are in halves and tenths, crisis
points in a unit by which every division comes out even.

### Proof and model-checking modules

`TaskPipeline_steps` (one lemma per action), `TaskPipeline_proofs`, `NlpPipeline_proofs`, `RateLimiter_proofs`,
`Webhooks_proofs`, `Scraping_proofs`, `Reports_proofs` and `Scoring_proofs` hold the theorems; `MCTaskPipeline`
adds the symmetry sets, `MCScoring` two topics and their weights, `MCScraping` the texts that are personal data
only. Definitions under the heading *Mutants* are slips the code could have made; no specification uses them.
Each property of a passing run fails when the definition that a mutant stands for is replaced by it.

## Runs

| Run | Question | Properties |
|---|---|---|
| `pipeline_race` | two scrapes and everything after them, no faults | `TypeOK`, `CopiesFromDistinctWorkers`, `StaleOnlyByFault`, `LifecycleSpec` |
| `pipeline_faults` | a fault anywhere, a repeated delivery and a manual `process_text_data()` in one chain, n8n off, two sources | `AnalysesFromDistinctWorkers`, `NoDoubleAnalysis`, `OnlyTheseStepsOrphanPosts`, `IdsAreStored`, `CacheIsOfAnAnalysis`, `OnlyRivalsChangeALabel` |
| `pipeline_live` | under fairness and one fault: is the cache repaired, and is every stored post analysed unless the fault occurs? | `AnalysedEventuallyCached`, `StoredEventuallyAnalysed` |
| `webhooks` | do the buckets keep their promise, and what do the endpoints make of it? | `HookTypeOK`, `WindowBound`, `WaitTimeIsExact`, `DenialsCostNothing`, `OnlyTheSecretSpends`, `ScrapesAreBounded` |
| `scraping` | whatever a page shows and whatever fails: which text is stored under which URL, which source is skipped, which browsers stay, how many reports does a lost loop fail? | `TypeOK`, `FailuresArePaid`, `BrowsersAreAccounted`, `TextOfItsUrl`, `OnlyTheseLoseAText`, `OnlyTheLimitSkipsSources`, `NothingAfterTheLimit` |
| `nlp_batch` | what can a batch of posts get out of an LLM? | `TypeOK`, `DefaultsAddNoConfidence`, `CombinedIsWhole`, `OutageStoresNothing`, `RequestsBounded`, `EveryPostCounted`, `BatchEnds` |
| `reports` | do the parts of a report agree, though the workers write between its statements? | `TypeOK`, `LaterPartsCoverEarlier`, `SharesAddUp`, `SummaryIsClassified` |
| `scoring` | does one more mention move the score the right way, and not too far? | `TypeOK`, `BadNewsNeverHelps`, `GoodNewsNeverHurts`, `OneMentionIsBounded` |
| `bug_*` | one finding each, see below | |

**Bounds.** Two worker processes are what `docker-compose.yml` starts (`--concurrency=2`). Two URLs and two
triggers let two scrapes race for a URL while another is stored; two verdicts tell two analyses apart.
`BatchSize` and `StaleLimit` are chosen per run below and above the number of rows, so that both limits cut:
a batch of one in `pipeline_faults`, where a manual run meets more posts than that, of two in `pipeline_race` and
`pipeline_live`.
`MaxFaults` bounds faults: one, anywhere, together with a repeated delivery and a manual run lets a second
attempt and two rivals meet; any number of each is what the theorems cover. `MaxManual`, `MaxRepeats`,
`MaxTriggers` and `MaxPending` bound publishers that never stop of themselves. For the limiter a capacity (7)
that is no multiple of the cost (3) or the rate (2) makes rounding and capping bite; three ticks refill what two
calls spent. Two endpoints, one of which publishes, and a worker process without a limiter are every kind of
bucket there is. For scraping two posts a page tell a text from that of its neighbour, two scrapes let a second
visit find what the first one stored (of the same source or another), three attempts are the code's, and two
coroutines that are cut off can be one on the kept loop and one on a loop of its own. A Grok search finds one post:
two searches already let one meet what the other stored, and lists of several are the theorems' (`MaxFound` any).
`MCPrivate` empties a text on three platforms and none on the others. Two reports, two spoiled ones and two coroutines
that are cut off let a connection made by a failed or by a cut-off and resumed report spoil one, and the next report
meet what is left. For the NLP pipeline three attempts
are the code's, `MaxConf = 2` puts a value strictly between the clamps, and two posts show what one leaves for
the next. For reports two posts, three analyses and an alert limit of one let an older post change, a post be
analysed twice and the limit cut; two topics and the unlinked case tell shares from their total. For the score
four mentions of each of two topics take the crisis (at most 26.4) beyond a base of 20, where the code's is 100,
so that the clamp at 0 is reached; the weights are the largest and the smallest of `config/scoring.yaml`.

**Deadlock.** `TaskPipeline` always has a Beat or a worker that can go on and is checked for deadlock, the
webhooks, the scraping and the reports too; a batch of `NlpPipeline` ends and `Scoring` has only so many
mentions, so their runs do not check for it.

**Fairness.** `FairSpec` of `TaskPipeline` assumes that Beat goes on (weak), that a worker process with a
next step takes it (weak, per worker: tasks have time limits, a dead worker is replaced by its pool), and
that each queue is served again and again (strong, per kind of message): workers consume the three queues
in turn, so a queue that is non-empty again and again is not passed over for ever. Nothing is assumed of
faults or of the operator. `FairSpec` of `NlpPipeline` assumes that every request ends: the SDK has a
timeout. The time limit is not fair.

## Findings

Each is a run in which TLC finds the quoted claim violated.

| Run | Claim | What happens |
|---|---|---|
| `bug_duplicate` | "Insert a post if its URL doesn't exist yet." (`repository.py:129`) | two scrapes look the URL up before either inserts it |
| `bug_crash` | "ack only after task completes" (`celery_app.py:35`), new posts are chained (`ARCHITECTURE.md:195`) | a scrape that crashes after an insert never chains that post: its second run finds it stored |
| `bug_report` | "push report after each scraping cycle" (`config.py:72`) | after a cycle without faults nothing is stale and the task returns before `notify_n8n` |
| `bug_limit` | "55 min soft limit" (`celery_app.py:59`) | raised inside `llm_complete` it is retried or turned into a default, and the loop goes on |

More differences were met while reading; the models contain the behaviour unless noted, and no run is spent
on them:

- ids beyond `process_batch_size` are dropped (against "on the specific post_ids
  passed by scrape_sources", `tasks.py:284`; `CutsBatch`, one of the steps that `OnlyTheseStepsOrphanPosts` names,
  and the reason why `StoredEventuallyAnalysed` is checked with a batch that holds all posts);
- "retry on transient errors (network, timeout)" (`base.py:4`) holds for `OSError`, `ConnectionError` and
  `TimeoutError` (`base.py:85`): Playwright's timeouts are errors of its own, so a slow page costs its source the pass (`PageFails`);
- tweets of a profile are paired with status links by position, though photos have such links too
  (`twitter.py:123`; `TwitterItems`, the exception `Pairs` in `TextOfItsUrl`);
- every article of a news section is stored under the URL of the section, so only the first is ever kept
  (`NewsItems`); posts without a link share the URL of their page in the same way;
- with a Grok key a post gets whatever URL the LLM gives, also that of another post, and of two posts under one URL
  only the first is kept (`grok_search.py:256`; `GrokItems`, hence the condition in `TextOfItsUrl` and
  `OnlyTheseLoseAText`);
- a Grok reply that is JSON but no object, or holds a post that is none, raises outside the `try` and fails the
  source (`grok_search.py:243`; `GrokSearch`);
- a text that `sanitize_record` empties is stored blank, and the text of every later visit is skipped
  (`repository.py:133`; `Sanitize`, `UpsertPost`);
- the soft limit leaves the coroutine of a scraper suspended with its browser running, until another task runs the
  loop, or for ever once the loop is given up (`tasks.py:94`; `LeaveScraper`, `LoseLoop`);
- `trigger_scraping` answers "error" when it cannot read the sources, after it has queued the task
  (`webhooks.py:166`; `TriggerScraping`);
- `_run_async` takes any RuntimeError for a missing loop, runs the finished coroutine again and leaves the
  thread without a loop (`tasks.py:97`; `RaiseRuntimeError`); each report on a loop of its own then leaves a dead
  connection in the pool, also when it failed, on which a later report fails (`tasks.py:471`; `EndReport`,
  `SpoilReport`);
- the proxies are "rotated" from the first one again for each source, since the scraper is made anew
  (`base.py:36`; left out);
- the comments of a Facebook post are kept as they are in its metadata (`facebook.py:127`) and no privacy rule
  is applied to them (`repository.py:133`; left out);
- a failing `process_text_data` is gone, since it sets `max_retries` but neither `autoretry_for` nor calls
  `self.retry` (against `tasks.py:12`; `TaskFails`);
- `update_analytics` writes the rows of its earlier read, all analyses of a post in no order, over labels
  written meanwhile (against "from the latest analysis result", `repository.py:365`; `SyncRow`);
- the limiters are initialised in the API process only, the LLM calls are made in the workers (against
  `_llm.py:4`; `Pass`);
- a confidence that is no number in a combined reply raises instead of giving None (against `pipeline.py:84`;
  `CombinedReply`);
- a positive mention of high urgency raises the crisis of a topic with negative ones, as it raises the average
  urgency (against "positive reduces crisis", `scoring.py:6`; hence the condition in `GoodNewsNeverHurts`);
- `report_generator` runs four queries at once on one session (`report_generator.py:149`), which
  `reports.py:200` says cannot be done (not modelled, as nothing after them runs);
- `detect_spikes` flags `>=` where its docstring says `>` (`reports.py:111`; not modelled).

## Proofs

All theorems hold for every value of the constants that satisfies the named `ASSUME`s.

**TaskPipeline.** No property above is inductive by itself. The invariants, each used by the next:

1. *Base*: types, every id anywhere names a stored row, and what each worker holds fits its step. It gives
   `TypeCorrect`, `IdsAlwaysStored` and, with the cached labels, `CacheCorrect`.
2. *Authors*: what a worker is about to insert is not a URL it stored already. A worker inserts one URL at
   a time right after its own SELECT, so this gives `UrlCopiesBounded`.
3. *Analysts*: what a worker still has to visit it has not analysed. It gives `AnalysesBounded`, with any
   number of manual runs and repeated deliveries, and with `CacheCorrect` it gives `LabelsOfRivals`: a label that
   gives way and the one that replaces it are of two analyses, which two workers made.
4. *OnePass* and *Owners*: as long as there was no manual run and no repeated delivery, every post that is
   not analysed has at most one holder (a scrape's ids, one message, or one task), and an analysed one none
   that would analyse it again. A crash moves the post from the task to its message, so it never has two.
   It gives `AnalysedOnce`.
5. *Chain*: what a task holds belongs to its message. A task that is between two messages holds nothing, and
   every post it still has to visit is one that its message covers, so that a message put back covers what the
   task had. It gives `OrphansAccounted`, holder by holder: `MessageStep` follows a post whose message is taken,
   `HolderStep` one whose task takes a step, `NewPostStep` one that is inserted. `CutsBatch` is among the steps
   that may drop a post, so the theorem needs no assumption on `BatchSize`.

`NothingForgotten` puts *Chain* and the count of faults together: while nothing failed and the posts fit into one
batch, no post is an orphan, for a batch that takes all it finds takes every post it covers (`BatchIsAll`).
This is the safety half of `StoredEventuallyAnalysed`: what is not analysed is in a message or with a task.

From `UrlCopiesBounded` and `AnalysesBounded` follow counts: the rows of a URL, and the analyses of a post, map
one to one to worker processes, so there are no more of them (`CopiesCounted`, `AnalysesCounted`, for finitely many
workers). With a single worker process `UniqueUrls` holds (`OneWorkerStoresOnce`), which `bug_duplicate` refutes
for two: the race is the only way to a duplicate.

`StaleByFault` says that update_analytics finds work only after a fault: a post that is analysed and has no
label is the one some worker is about to label. `LabelStep` follows the position of the worker, `FaultsStep`
shows that a fault is never forgotten, `StaleStep` puts both together.

`Refinement` shows that the initial state maps to that of `PostLifecycle` and that each action is one of
`Store`, `Analyse` or `Show`, or a stutter.

**NlpPipeline.** `Strong` adds to the properties that during the fallback the combined call has been answered
(`Heard`, the reason for `OutageStoresNothing`), that a record has no confidence before its last stage
(`Uncertain`), and how many requests the calls before the present one can have cost (`Spent`).

`BatchRunsOut` is about the end of a batch: `StepsLeft` counts backwards, for each post its beginning, `MaxAttempts`
failures of at most five calls, and its end. Every step leaves fewer, so a batch is over after
`1 + BatchSize * (5 * MaxAttempts + 2)` steps at most (`BatchLength`), whatever the LLM answers and wherever the
time limit strikes. What remains of `BatchEnds` for TLC is that the loop can always go on.

**RateLimiter.** `Budget` relates the level of a bucket to the calls let through: admitted calls and the tokens
still there never exceed the allowance of the window. `WindowBound` follows since tokens are never negative.
`WaitTimeExact` assumes `Cost <= Capacity`, that is, a rate of at least one call a minute: a bucket that can
never hold the price of a call has no time to wait for. `DenialsFree` needs no invariant beyond the types.

**Webhooks.** `HooksImplementLimiter`: every step of the endpoints is a step of `RateLimiter` or leaves its
variables alone, so `HookWindowBounded` is its theorem again. `SecretSpends` is inductive together with the
types: `Deny` and `Refuse` spend nothing. `ScrapesBounded` goes by way of it: a process published no more than
it admitted.

**Scraping.** The invariant has these parts: the types; what control implies (no items are held between sources,
a browser is `open` on a page only, a pass that ended is idle); what was left behind (`BehindOK`: the scrapers
that were cut off are among the loop's suspended coroutines, which are no reports, each has one browser at most,
and browsers that nothing closes belong to coroutines that are lost); that every item held *fits* (its text is
that of its URL, unless the URL is a page's, the pairing is by position or a Grok key is set); and, for the
loop, that nothing outlives it and that failures are paid. *Fits* is proved of every list a visit can give,
platform by platform, and carried to the table by `UpsertPost`, where `Sanitize` keeps it, as the empty text
fits any URL. It gives `TextsStayWithUrls` and, with the first text under a URL, `TextsLostHere`.
`BrowsersCounted` is the sum of control and `BehindOK`; `SourcesTried` and `LimitIsFinal` follow from control.
`LoopKeepsItsPromises` proves the loop's part of `EventLoop` alone: a checkout never makes a connection that is
not paid for by the report that made it. `ScrapingKeepsTheLoop` shows that `Scraping` implements it
(`LoopSpec`): a pass, the tasks beside it and the coroutines it resumes do to the loop what `_run_async` does,
so the promise holds for them too (`FailuresPaid`).

**Reports.** `ReadIsSelected`: what a statement selected would still be selected now, for posts and analyses stay,
dates do not change during a report and a label, once there, is not taken back. `ReadAgrees` carries the
inclusions from statement to statement, and `LabelsComeFromAnalyses` (a shown label has an analysis) makes the
summary part of the classified. The four theorems follow. `ReportsReadTheLifecycle` shows that the tables of `Reports`
behave as `PostLifecycle` says, as those of `TaskPipeline` do (`Refinement`): what a report relies on is what the
chain provides.

**Scoring.** The crisis of a week is summed over the topics with a fold. What the fold computes is proved by an
induction on the number of topics, written as an argument about the least number at which it fails
(`LeastNatural`, from `NatLessThanWellFounded`), since the library's induction theorems take an operator that none of
the provers can instantiate: a mention of one topic changes the sum by the change of that topic's crisis.
For one topic, crisis and its change are compared over a common unit in which no division leaves a rest; the
division by `Scale` and the rounding are shown to be monotone (`ScoreAntitone`). `MentionMoves` bounds the change
for each kind of mention; `BadNews`, `GoodNews` and `MentionBounded` follow. They hold for every finite set of
topics and for all weights the module's `ASSUME` admits.

**Only model-checked**: liveness (`AnalysedEventuallyCached`, `StoredEventuallyAnalysed`, `BatchEnds`), which
needs fairness and so ENABLED, out of the prover's reach. `NothingForgotten` and `BatchRunsOut` prove the safety in
the last two. Every invariant, every other action property and the refinements that the passing runs check are
theorems.

## Limits

Abstractions of `TaskPipeline`: a scrape returns a set of URLs (a repeated URL in one scrape is found stored
the second time); the topic link and the lookup tables are left out, a failing lookup is a failing post; ids
and `scraped_at` ascend together; countdowns are arbitrary delays; a verdict stands for sentiment, urgency
and confidence together, since they are always written together; two equal `process_text_data` messages
count as one, since the second finds nothing to do that the first did not. The schema is that of the
SQLAlchemy models: the only migration lacks the column `posts.language` that `upsert_post` writes.

Abstractions of `NlpPipeline`: texts and replies are known by the branches they take; what the OpenAI client
repeats by itself within one attempt is not counted, in `RequestsBounded` either; the rounding of the mean
confidence is left out; NaN is a number too large, as `min(1.0, nan)` is 1.0; `run_pipeline` and
`extract_topics` have no caller.

Abstractions of `RateLimiter`: time passes in ticks; float rounding is left out; the default of `_last` is
taken when a key is first used, microseconds after `now`, so that the first call sees slightly less than a full
bucket, which only matters where the capacity is the price of one call (a rate of one a minute); the API process
and the workers each have their own limiter.

Abstractions of `Webhooks`: the secret is right or wrong; validation of the body (422) happens after both
dependencies and reads nothing; the handlers other than `trigger_scraping` only read, and the report among them
is that of `Reports`.

Abstractions of `EventLoop`: what a coroutine does between two waits is not told apart, only whether it ended,
raised RuntimeError, was cut off or holds a connection; the pool's limit (10 connections and 20 more) is not
reached, and which of its places a checkout takes is left open.

Abstractions of `Scraping`: HTML is known by the posts it shows, their links and their texts; a source is known
by its platform, one of each; a text is known by the post it belongs to; proxies, dates, metadata, prompts,
delays and scrolling are left out. Posts are numbered by source: two sources share a URL only where an LLM gives
it. Of `sanitize_record` the model has that it may leave nothing of a text. A second worker that scrapes at the
same time is the subject of `TaskPipeline`. An exception a scraper catches around a single post or field shows
as a post skipped or a text missing.

Abstractions of `Reports`: which sentiment a label says is left out, only alerts are told apart; the topics fit
the query's limit of seven, as the table has the seven that are seeded; percentages, days, spikes and text are
left out; `SharesAddUp` is about the shares before each is rounded to hundredths. Ties of the alerts' order, and
posts dated later than newer ones, make the list of alerts any full page of them.

Abstractions of `Scoring`: no float error, so that a score exactly between two tenths may be rounded the other
way by the code; engagement is the constant 0 the caller passes, for a multiplier of 1.0; the trend is always
"stable", as nobody passes `previous_week_score`; top concerns are left out.

Not modelled, and why:

- **What the privacy layer and text cleaning take out**: regular expressions over the characters of one text,
  without state or failure path. A model on abstract tokens would repeat the list of expressions and show nothing
  of them.
- **Report generator** (`report_generator.py`): its first step raises (see Findings), so nothing of the rest
  runs.
- **Batch and retry helpers** (`core/batch.py`, `core/retry.py`): nothing in the repository calls them.
- **Legacy entry points** (`scheduler/jobs.py`, `processor/topic.py`): superseded by the tasks and called by none.
- **`detect_spikes`**, top concerns, the trend: pure functions of one timeline or of an argument nobody passes;
  unit tests over a few inputs reach all of their branches.
- **List endpoints**: single reads; the API promises nothing about two pages.
- **Exceptions, logging, schemas, engine construction**: declarations.

## Plan

Done: `TaskPipeline`, `PostLifecycle`, `NlpPipeline`, `RateLimiter`, `Webhooks`, `EventLoop`, `Scraping`, `Reports`
and `Scoring`, with their proofs, in this order. What could follow:

1. That `NlpPipeline` implements the step `ProcessRecord` of `TaskPipeline`, and `Scraping` the step `ScrapeSource`:
   each details one step of the chain today, as the text above says and no theorem does.
2. A module for `process_batch_async` when something calls it, and one for `report_generator` when its queries
   have sessions of their own.
