---------------------------- MODULE TaskPipeline ----------------------------
(***************************************************************************)
(* The Celery task chain of app/scheduler/tasks.py and the PostgreSQL      *)
(* tables it writes through app/scheduler/repository.py:                   *)
(*                                                                         *)
(*   scrape_sources -> process_text_data -> update_analytics -> notify_n8n *)
(*                                                                         *)
(* Worker processes take messages from the broker and run one task at a    *)
(* time, one database transaction per step, so the steps of two workers    *)
(* interleave exactly where two tasks can meet in the database.  Messages  *)
(* are acknowledged after the task (task_acks_late): a worker that is lost *)
(* gives its message back (task_reject_on_worker_lost), a task that raises *)
(* or is killed by the hard time limit does not.                           *)
(***************************************************************************)
EXTENDS Integers, Sequences, FiniteSetsExt

CONSTANTS
  Workers,        \* the worker processes (celery worker --concurrency)
  Urls,           \* the URLs a scraped item can carry
  Verdicts,       \* what the NLP pipeline can say of a post: sentiment, urgency, confidence
  None,           \* SQL NULL, Python None
  NumSources,     \* rows of table sources, their ids are 1..NumSources
  BatchSize,      \* settings.process_batch_size, the LIMIT of get_unprocessed_posts
  StaleLimit,     \* the LIMIT of get_stale_posts
  MaxRetries,     \* max_retries of notify_n8n
  N8nConfigured,  \* settings.n8n_webhook_url is set
  MaxTriggers,    \* bound: how often Beat and the webhook publish scrape_sources
  MaxManual,      \* bound: how often an operator publishes process_text_data()
  MaxRepeats,     \* bound: messages delivered again while a worker holds them
  MaxFaults,      \* bound: crashes, time limits and failing calls in a behaviour
  MaxPending      \* bound: Beat holds update_analytics back when so many are queued

ASSUME PipelineAssumption ==
  /\ NumSources \in Nat
  /\ BatchSize \in Nat \ {0}
  /\ StaleLimit \in Nat \ {0}
  /\ MaxRetries \in Nat
  /\ N8nConfigured \in BOOLEAN
  /\ MaxTriggers \in Nat
  /\ MaxManual \in Nat
  /\ MaxRepeats \in Nat
  /\ MaxFaults \in Nat
  /\ MaxPending \in Nat
  /\ None \notin Urls
  /\ None \notin Verdicts

VARIABLES
  posts,          \* table posts; the id of a row is its index
  analyses,       \* table analysis_results; the id of a row is its index
  scraping,       \* queue "scraping": number of scrape_sources messages
  processing,     \* queue "processing": the post_ids of the process_text_data messages
  analytics,      \* queue "default": number of update_analytics messages
  notifications,  \* queue "default": notify_n8n messages, counted by their retries
  at,             \* where every worker process is in its task
  ids,            \* new_post_ids of its scrape_sources, post_ids of its process_text_data
  todo,           \* what its loop has still to visit: source, post or analysis ids
  items,          \* URLs of the scraped items it has still to upsert
  url,            \* the URL it is about to insert
  post,           \* the post it is about to save or cache a verdict of
  verdict,        \* that verdict
  retries,        \* retries of the notify_n8n message it works on
  reports,        \* number of reports the n8n webhook received
  triggers,       \* scrape_sources messages published so far
  manual,         \* process_text_data() messages an operator published so far
  repeats,        \* messages delivered again so far while a worker held them
  faults          \* faults so far

tables == <<posts, analyses>>
broker == <<scraping, processing, analytics, notifications>>
current == <<url, post, verdict>>
locals == <<at, ids, todo, items, current, retries>>
budget == <<triggers, manual, repeats, faults>>
vars == <<posts, analyses, scraping, processing, analytics, notifications, at, ids,
          todo, items, url, post, verdict, retries, reports, triggers, manual, repeats,
          faults>>

-----------------------------------------------------------------------------
PostIds == DOMAIN posts

Analysed(p) == \E a \in DOMAIN analyses : analyses[a].post = p

\* ORDER BY scraped_at DESC LIMIT n: ids and scraped_at ascend together.
Newest(S, n) == {p \in S : Cardinality({q \in S : q > p}) < n}

\* post_ids = None and post_ids = [] both mean "every post": `if post_ids`.
Covers(message, p) == message = {} \/ p \in message

\* The steps of the tasks.  At the last one of each the task is done and its
\* message not yet acknowledged.
ScrapeSteps == {"sources", "scrape", "insert", "scraped"}
ProcessSteps == {"unprocessed", "classify", "save", "cache", "processed"}
AnalyticsSteps == {"stale", "sync", "synced"}
NotifySteps == {"report", "notified"}
Done == {"scraped", "processed", "synced", "notified"}

Fault == faults < MaxFaults /\ faults' = faults + 1

Go(w, step) == at' = [at EXCEPT ![w] = step]

\* The loop of process_text_data leaves its current post.
NextPost(w) ==
  /\ Go(w, "classify")
  /\ post' = [post EXCEPT ![w] = 0]
  /\ verdict' = [verdict EXCEPT ![w] = None]

\* The next row of update_analytics's loop, in the order it was read.
NextRow(w, a) ==
  /\ \A b \in todo[w] : analyses[a].post >= analyses[b].post
  /\ todo' = [todo EXCEPT ![w] = @ \ {a}]

-----------------------------------------------------------------------------
(* Mutants: slips the code could have made and the properties must notice. *)

\* The URL is reset before the row is built.
InsertReset(w) ==
  /\ Go(w, "scrape")
  /\ url' = [url EXCEPT ![w] = None]
  /\ posts' = Append(posts, [url |-> url'[w], cached |-> None, by |-> w])

\* The session is closed without a commit, the id was returned all the same.
InsertUncommitted(w) ==
  /\ at[w] = "insert"
  /\ Go(w, "scrape")
  /\ url' = [url EXCEPT ![w] = None]
  /\ ids' = [ids EXCEPT ![w] = @ \cup {Len(posts) + 1}]
  /\ UNCHANGED <<tables, broker, todo, items, post, verdict, retries, reports, budget>>

\* The URL is not looked up.
SelectNothing(w) ==
  /\ at[w] = "scrape"
  /\ \E u \in items[w] :
       /\ items' = [items EXCEPT ![w] = @ \ {u}]
       /\ url' = [url EXCEPT ![w] = u]
  /\ Go(w, "insert")
  /\ UNCHANGED <<tables, broker, ids, todo, post, verdict, retries, reports, budget>>

\* The new ids are not passed on.
ChainNothing(w) ==
  /\ at[w] = "scrape"
  /\ items[w] = {}
  /\ todo[w] = {}
  /\ ids' = [ids EXCEPT ![w] = {}]
  /\ Go(w, "scraped")
  /\ UNCHANGED <<tables, broker, todo, items, current, retries, reports, budget>>

\* The query lacks WHERE ar.id IS NULL.
GetPosts(w) ==
  /\ at[w] = "unprocessed"
  /\ LET found == Newest({p \in PostIds : Covers(ids[w], p)}, BatchSize)
     IN  /\ todo' = [todo EXCEPT ![w] = found]
         /\ Go(w, IF found = {} THEN "processed" ELSE "classify")
  /\ UNCHANGED <<tables, broker, ids, items, current, retries, reports, budget>>

\* The loop comes back to a post.
ProcessAgain(w) ==
  /\ at[w] = "classify"
  /\ \E p \in todo[w], v \in Verdicts :
       /\ post' = [post EXCEPT ![w] = p]
       /\ verdict' = [verdict EXCEPT ![w] = v]
  /\ Go(w, "save")
  /\ UNCHANGED <<tables, broker, ids, todo, items, url, retries, reports, budget>>

\* save_analysis_result without commit.
SaveUncommitted(w) ==
  /\ at[w] = "save"
  /\ Go(w, "cache")
  /\ UNCHANGED <<tables, broker, ids, todo, items, current, retries, reports, budget>>

\* update_post_cache without commit.
UpdateUncommitted(w) ==
  /\ at[w] = "cache"
  /\ NextPost(w)
  /\ UNCHANGED <<tables, broker, ids, todo, items, url, retries, reports, budget>>

\* get_stale_posts takes the LIMIT before it looks for NULLs.
GetNewestRows(w) ==
  /\ at[w] = "stale"
  /\ LET rows == {a \in Newest(DOMAIN analyses, StaleLimit) : posts[analyses[a].post].cached = None}
     IN  /\ todo' = [todo EXCEPT ![w] = rows]
         /\ Go(w, IF rows = {} THEN "synced" ELSE "sync")
  /\ UNCHANGED <<tables, broker, ids, items, current, retries, reports, budget>>

\* update_post_cache is given the id of the analysis for the id of the post.
SyncWrongId(w) ==
  /\ at[w] = "sync"
  /\ \E a \in todo[w] \cap PostIds :
       /\ NextRow(w, a)
       /\ posts' = [posts EXCEPT ![a].cached = analyses[a].verdict]
  /\ UNCHANGED <<analyses, broker, at, ids, items, current, retries, reports, budget>>

-----------------------------------------------------------------------------
Init ==
  /\ posts = <<>>
  /\ analyses = <<>>
  /\ scraping = 0
  /\ processing = {}
  /\ analytics = 0
  /\ notifications = [r \in 0..MaxRetries |-> 0]
  /\ at = [w \in Workers |-> "idle"]
  /\ ids = [w \in Workers |-> {}]
  /\ todo = [w \in Workers |-> {}]
  /\ items = [w \in Workers |-> {}]
  /\ url = [w \in Workers |-> None]
  /\ post = [w \in Workers |-> 0]
  /\ verdict = [w \in Workers |-> None]
  /\ retries = [w \in Workers |-> 0]
  /\ reports = 0
  /\ triggers = 0
  /\ manual = 0
  /\ repeats = 0
  /\ faults = 0

-----------------------------------------------------------------------------
(* Publishers outside the chain. *)

\* Beat, twelve-hourly, or POST /webhooks/trigger-scraping, at any time.
TriggerScrape ==
  /\ triggers < MaxTriggers
  /\ triggers' = triggers + 1
  /\ scraping' = scraping + 1
  /\ UNCHANGED <<tables, processing, analytics, notifications, locals, reports, manual,
                 repeats, faults>>

\* An operator runs process_text_data without post_ids.
ProcessEverything ==
  /\ manual < MaxManual
  /\ manual' = manual + 1
  /\ processing' = processing \cup {{}}
  /\ UNCHANGED <<tables, scraping, analytics, notifications, locals, reports, triggers,
                 repeats, faults>>

\* Beat, every six hours.
BeatAnalytics ==
  /\ analytics < MaxPending
  /\ analytics' = analytics + 1
  /\ UNCHANGED <<tables, scraping, processing, notifications, locals, reports, budget>>

-----------------------------------------------------------------------------
(* scrape_sources *)

ReceiveScrape(w) ==
  /\ at[w] = "idle"
  /\ scraping > 0
  /\ scraping' = scraping - 1
  /\ Go(w, "sources")
  /\ UNCHANGED <<tables, processing, analytics, notifications, ids, todo, items, current,
                 retries, reports, budget>>

\* Any of the sources may be the active ones; none active ends the task.
GetActiveSources(w) ==
  /\ at[w] = "sources"
  /\ \E active \in SUBSET (1..NumSources) :
       /\ todo' = [todo EXCEPT ![w] = active]
       /\ Go(w, IF active = {} THEN "scraped" ELSE "scrape")
  /\ UNCHANGED <<tables, broker, ids, items, current, retries, reports, budget>>

\* One source: the scraper returns items, or raises and so returns none.
\* Items without a URL change nothing (they are skipped or fail to upsert).
ScrapeSource(w) ==
  /\ at[w] = "scrape"
  /\ items[w] = {}
  /\ todo[w] # {}
  /\ todo' = [todo EXCEPT ![w] = @ \ {Min(@)}]
  /\ \E found \in SUBSET Urls : items' = [items EXCEPT ![w] = found]
  /\ UNCHANGED <<tables, broker, at, ids, current, retries, reports, budget>>

\* upsert_post, first half: SELECT id FROM posts WHERE url = :url.
SelectPost(w) ==
  /\ at[w] = "scrape"
  /\ \E u \in items[w] :
       /\ items' = [items EXCEPT ![w] = @ \ {u}]
       /\ IF \E p \in PostIds : posts[p].url = u
            THEN UNCHANGED <<at, url>>
            ELSE Go(w, "insert") /\ url' = [url EXCEPT ![w] = u]
  /\ UNCHANGED <<tables, broker, ids, todo, post, verdict, retries, reports, budget>>

\* INSERT ... RETURNING id and COMMIT.
Insert(w) ==
  /\ posts' = Append(posts, [url |-> url[w], cached |-> None, by |-> w])
  /\ Go(w, "scrape")
  /\ url' = [url EXCEPT ![w] = None]

\* upsert_post, second half, and its caller taking note of the new id.
InsertPost(w) ==
  /\ at[w] = "insert"
  /\ Insert(w)
  /\ ids' = [ids EXCEPT ![w] = @ \cup {Len(posts) + 1}]
  /\ UNCHANGED <<analyses, broker, todo, items, post, verdict, retries, reports, budget>>

\* Every source is done: the new posts, if any, go to process_text_data.
ChainProcessing(w) ==
  /\ at[w] = "scrape"
  /\ items[w] = {}
  /\ todo[w] = {}
  /\ processing' = IF ids[w] = {} THEN processing ELSE processing \cup {ids[w]}
  /\ ids' = [ids EXCEPT ![w] = {}]
  /\ Go(w, "scraped")
  /\ UNCHANGED <<tables, scraping, analytics, notifications, todo, items, current,
                 retries, reports, budget>>

-----------------------------------------------------------------------------
(* process_text_data *)

ReceiveProcess(w) ==
  /\ at[w] = "idle"
  /\ \E message \in processing :
       /\ processing' = processing \ {message}
       /\ ids' = [ids EXCEPT ![w] = message]
  /\ Go(w, "unprocessed")
  /\ UNCHANGED <<tables, scraping, analytics, notifications, todo, items, current,
                 retries, reports, budget>>

\* get_unprocessed_posts: read once, worked through to the end of the task.
GetUnprocessedPosts(w) ==
  /\ at[w] = "unprocessed"
  /\ LET found == Newest({p \in PostIds : ~Analysed(p) /\ Covers(ids[w], p)}, BatchSize)
     IN  /\ todo' = [todo EXCEPT ![w] = found]
         /\ Go(w, IF found = {} THEN "processed" ELSE "classify")
  /\ UNCHANGED <<tables, broker, ids, items, current, retries, reports, budget>>

\* The next post of the loop, newest first, and what process_record says of it.
ProcessRecord(w) ==
  /\ at[w] = "classify"
  /\ \E p \in todo[w], v \in Verdicts :
       /\ \A q \in todo[w] : p >= q
       /\ todo' = [todo EXCEPT ![w] = @ \ {p}]
       /\ post' = [post EXCEPT ![w] = p]
       /\ verdict' = [verdict EXCEPT ![w] = v]
  /\ Go(w, "save")
  /\ UNCHANGED <<tables, broker, ids, items, url, retries, reports, budget>>

\* save_analysis_result: the row and its topic link, one transaction.
SaveAnalysisResult(w) ==
  /\ at[w] = "save"
  /\ analyses' = Append(analyses, [post |-> post[w], verdict |-> verdict[w], by |-> w])
  /\ Go(w, "cache")
  /\ UNCHANGED <<posts, broker, ids, todo, items, current, retries, reports, budget>>

\* update_post_cache: a transaction of its own.
UpdatePostCache(w) ==
  /\ at[w] = "cache"
  /\ posts' = [posts EXCEPT ![post[w]].cached = verdict[w]]
  /\ NextPost(w)
  /\ UNCHANGED <<analyses, broker, ids, todo, items, url, retries, reports, budget>>

TriggerAnalytics(w) ==
  /\ at[w] = "classify"
  /\ todo[w] = {}
  /\ analytics' = analytics + 1
  /\ Go(w, "processed")
  /\ UNCHANGED <<tables, scraping, processing, notifications, ids, todo, items, current,
                 retries, reports, budget>>

-----------------------------------------------------------------------------
(* update_analytics *)

ReceiveAnalytics(w) ==
  /\ at[w] = "idle"
  /\ analytics > 0
  /\ analytics' = analytics - 1
  /\ Go(w, "stale")
  /\ UNCHANGED <<tables, scraping, processing, notifications, ids, todo, items, current,
                 retries, reports, budget>>

\* The analyses whose post has no cached label: the JOIN returns every one.
Stale == {a \in DOMAIN analyses : posts[analyses[a].post].cached = None}

\* get_stale_posts: StaleLimit rows of the newest posts.  Ties stay open.
GetStalePosts(w) ==
  /\ at[w] = "stale"
  /\ \E rows \in SUBSET Stale :
       /\ Cardinality(rows) = Min({StaleLimit, Cardinality(Stale)})
       /\ \A a \in rows, b \in Stale \ rows : analyses[a].post >= analyses[b].post
       /\ todo' = [todo EXCEPT ![w] = rows]
       /\ Go(w, IF rows = {} THEN "synced" ELSE "sync")
  /\ UNCHANGED <<tables, broker, ids, items, current, retries, reports, budget>>

\* The loop body: update_post_cache with the row that was read.
SyncRow(w) ==
  /\ at[w] = "sync"
  /\ \E a \in todo[w] :
       /\ NextRow(w, a)
       /\ posts' = [posts EXCEPT ![analyses[a].post].cached = analyses[a].verdict]
  /\ UNCHANGED <<analyses, broker, at, ids, items, current, retries, reports, budget>>

TriggerNotify(w) ==
  /\ at[w] = "sync"
  /\ todo[w] = {}
  /\ notifications' = [notifications EXCEPT ![0] = @ + 1]
  /\ Go(w, "synced")
  /\ UNCHANGED <<tables, scraping, processing, analytics, ids, todo, items, current,
                 retries, reports, budget>>

-----------------------------------------------------------------------------
(* notify_n8n *)

ReceiveNotify(w) ==
  /\ at[w] = "idle"
  /\ \E r \in 0..MaxRetries :
       /\ notifications[r] > 0
       /\ notifications' = [notifications EXCEPT ![r] = @ - 1]
       /\ retries' = [retries EXCEPT ![w] = r]
  /\ Go(w, "report")
  /\ UNCHANGED <<tables, scraping, processing, analytics, ids, todo, items, current,
                 reports, budget>>

SkipReport(w) ==
  /\ at[w] = "report"
  /\ ~N8nConfigured
  /\ Go(w, "notified")
  /\ UNCHANGED <<tables, broker, ids, todo, items, current, retries, reports, budget>>

SendReport(w) ==
  /\ at[w] = "report"
  /\ N8nConfigured
  /\ reports' = reports + 1
  /\ Go(w, "notified")
  /\ UNCHANGED <<tables, broker, ids, todo, items, current, retries, budget>>

\* The report cannot be generated, or the POST fails; when only its answer
\* was lost the webhook has the report all the same.  self.retry publishes
\* the task again, until max_retries is reached.
ReportFails(w) ==
  /\ at[w] = "report"
  /\ N8nConfigured
  /\ Fault
  /\ reports' \in {reports, reports + 1}
  /\ notifications' = IF retries[w] < MaxRetries
                        THEN [notifications EXCEPT ![retries[w] + 1] = @ + 1]
                        ELSE notifications
  /\ Go(w, "notified")
  /\ UNCHANGED <<tables, scraping, processing, analytics, ids, todo, items, current,
                 retries, triggers, manual, repeats>>

-----------------------------------------------------------------------------
(* Ends of tasks, and faults. *)

\* The worker process is free; what its task knew is gone.
Free(w) ==
  /\ Go(w, "idle")
  /\ ids' = [ids EXCEPT ![w] = {}]
  /\ todo' = [todo EXCEPT ![w] = {}]
  /\ items' = [items EXCEPT ![w] = {}]
  /\ url' = [url EXCEPT ![w] = None]
  /\ post' = [post EXCEPT ![w] = 0]
  /\ verdict' = [verdict EXCEPT ![w] = None]
  /\ retries' = [retries EXCEPT ![w] = 0]

Acknowledge(w) ==
  /\ at[w] \in Done
  /\ Free(w)
  /\ UNCHANGED <<tables, broker, reports, budget>>

\* `except Exception` around an upsert: the call fails, has no URL, or meets
\* the soft time limit.
UpsertFails(w) ==
  /\ Fault
  /\ \/ /\ at[w] = "insert"
        /\ Go(w, "scrape")
        /\ url' = [url EXCEPT ![w] = None]
        /\ UNCHANGED items
     \/ /\ at[w] = "scrape"
        /\ \E u \in items[w] : items' = [items EXCEPT ![w] = @ \ {u}]
        /\ UNCHANGED <<at, url>>
  /\ UNCHANGED <<tables, broker, ids, todo, post, verdict, retries, reports, triggers, manual, repeats>>

\* The INSERT is committed, but the call raises before it returns the id (the
\* answer to COMMIT is lost, the soft limit falls there): logged and forgotten.
InsertUnreported(w) ==
  /\ at[w] = "insert"
  /\ Fault
  /\ Insert(w)
  /\ UNCHANGED <<analyses, broker, ids, todo, items, post, verdict, retries, reports,
                 triggers, manual, repeats>>

\* `except Exception` around a post: process_record or a transaction fails.
PostFails(w) ==
  /\ at[w] \in {"save", "cache"}
  /\ Fault
  /\ NextPost(w)
  /\ UNCHANGED <<tables, broker, ids, todo, items, url, retries, reports, triggers, manual, repeats>>

\* `except Exception` around update_post_cache in update_analytics.
SyncFails(w) ==
  /\ at[w] = "sync"
  /\ Fault
  /\ \E a \in todo[w] : NextRow(w, a)
  /\ UNCHANGED <<tables, broker, at, ids, items, current, retries, reports, triggers, manual, repeats>>

\* SoftTimeLimitExceeded where it breaks the loop: while a scraper runs, and
\* anywhere in the body of process_text_data's loop.
SoftTimeLimit(w) ==
  /\ Fault
  /\ \/ /\ at[w] = "scrape"
        /\ todo[w] # {} \/ items[w] # {}
        /\ UNCHANGED at
     \/ /\ at[w] \in {"save", "cache"}
        /\ Go(w, "classify")
  /\ todo' = [todo EXCEPT ![w] = {}]
  /\ items' = [items EXCEPT ![w] = {}]
  /\ post' = [post EXCEPT ![w] = 0]
  /\ verdict' = [verdict EXCEPT ![w] = None]
  /\ UNCHANGED <<tables, broker, ids, url, retries, reports, triggers, manual, repeats>>

\* An exception outside the try blocks, or the hard time limit: the task fails
\* and its message is acknowledged, whatever it still had to do.
TaskFails(w) ==
  /\ at[w] \notin Done \cup {"idle"}
  /\ Fault
  /\ Free(w)
  /\ UNCHANGED <<tables, broker, reports, triggers, manual, repeats>>

\* The message of w's task is in its queue again.
Requeue(w) ==
  /\ scraping' = IF at[w] \in ScrapeSteps THEN scraping + 1 ELSE scraping
  /\ processing' = IF at[w] \in ProcessSteps THEN processing \cup {ids[w]} ELSE processing
  /\ analytics' = IF at[w] \in AnalyticsSteps THEN analytics + 1 ELSE analytics
  /\ notifications' = IF at[w] \in NotifySteps
                        THEN [notifications EXCEPT ![retries[w]] = @ + 1]
                        ELSE notifications

\* The worker process dies: the broker delivers its message again.
WorkerLost(w) ==
  /\ at[w] # "idle"
  /\ Fault
  /\ Free(w)
  /\ Requeue(w)
  /\ UNCHANGED <<tables, reports, triggers, manual, repeats>>

\* The broker's visibility timeout: a message not acknowledged within the hour
\* (its countdown waited out behind busy processes, then a long task) is
\* delivered again although its task is well and goes on.
DeliverAgain(w) ==
  /\ at[w] # "idle"
  /\ repeats < MaxRepeats
  /\ repeats' = repeats + 1
  /\ Requeue(w)
  /\ UNCHANGED <<tables, locals, reports, triggers, manual, faults>>

-----------------------------------------------------------------------------
Scrape(w) ==
  \/ ReceiveScrape(w) \/ GetActiveSources(w) \/ ScrapeSource(w)
  \/ SelectPost(w) \/ InsertPost(w) \/ ChainProcessing(w)

Process(w) ==
  \/ ReceiveProcess(w) \/ GetUnprocessedPosts(w) \/ ProcessRecord(w)
  \/ SaveAnalysisResult(w) \/ UpdatePostCache(w) \/ TriggerAnalytics(w)

Analytics(w) ==
  \/ ReceiveAnalytics(w) \/ GetStalePosts(w) \/ SyncRow(w) \/ TriggerNotify(w)

Notify(w) == ReceiveNotify(w) \/ SkipReport(w) \/ SendReport(w)

\* What a worker process does of itself, and what befalls it.
Work(w) == Scrape(w) \/ Process(w) \/ Analytics(w) \/ Notify(w) \/ Acknowledge(w)

Fails(w) ==
  \/ UpsertFails(w) \/ InsertUnreported(w) \/ PostFails(w) \/ SyncFails(w)
  \/ ReportFails(w) \/ SoftTimeLimit(w) \/ TaskFails(w) \/ WorkerLost(w)
  \/ DeliverAgain(w)

Next ==
  \/ TriggerScrape \/ ProcessEverything \/ BeatAnalytics
  \/ \E w \in Workers : Work(w) \/ Fails(w)

Spec == Init /\ [][Next]_vars

\* A worker that can go on does, Beat never stops for good, and the workers
\* consume their queues in turn: none starves while another one is refilled.
Fairness ==
  /\ WF_vars(BeatAnalytics)
  /\ \A w \in Workers : WF_vars(Work(w))
  /\ SF_vars(\E w \in Workers : ReceiveScrape(w))
  /\ SF_vars(\E w \in Workers : ReceiveProcess(w))
  /\ SF_vars(\E w \in Workers : ReceiveAnalytics(w))
  /\ SF_vars(\E w \in Workers : ReceiveNotify(w))

FairSpec == Spec /\ Fairness

-----------------------------------------------------------------------------
(* Properties *)

Post == [url : Urls, cached : Verdicts \cup {None}, by : Workers]

Analysis == [post : Nat, verdict : Verdicts, by : Workers]

TableTypes ==
  /\ posts \in Seq(Post)
  /\ analyses \in Seq(Analysis)

QueueTypes ==
  /\ scraping \in Nat
  /\ processing \subseteq SUBSET Nat
  /\ analytics \in Nat
  /\ notifications \in [0..MaxRetries -> Nat]

Steps == {"idle"} \cup ScrapeSteps \cup ProcessSteps \cup AnalyticsSteps \cup NotifySteps

LocalTypes ==
  /\ at \in [Workers -> Steps]
  /\ ids \in [Workers -> SUBSET Nat]
  /\ todo \in [Workers -> SUBSET Nat]
  /\ items \in [Workers -> SUBSET Urls]
  /\ url \in [Workers -> Urls \cup {None}]
  /\ post \in [Workers -> Nat]
  /\ verdict \in [Workers -> Verdicts \cup {None}]
  /\ retries \in [Workers -> 0..MaxRetries]

CounterTypes ==
  reports \in Nat /\ triggers \in Nat /\ manual \in Nat /\ repeats \in Nat /\ faults \in Nat

\* The types of the tables, the queues, the workers' locals and the counters.
TypeOK == TableTypes /\ QueueTypes /\ LocalTypes /\ CounterTypes

\* Every id that travels through the chain names a committed row: no task ever
\* looks for a post or an analysis that is not there, whatever crashed before.
IdsAreStored ==
  /\ \A a \in DOMAIN analyses : analyses[a].post \in PostIds
  /\ \A message \in processing : message \subseteq PostIds
  /\ \A w \in Workers :
       /\ ids[w] \subseteq PostIds
       /\ at[w] \in ProcessSteps => todo[w] \subseteq PostIds
       /\ at[w] \in {"save", "cache"} => post[w] \in PostIds
       /\ at[w] \in AnalyticsSteps => todo[w] \subseteq DOMAIN analyses

\* The race of upsert_post is bounded: two rows with one URL were inserted by
\* two different worker processes, so there are never more rows of a URL than
\* worker processes, and one worker never stores a URL twice.
CopiesFromDistinctWorkers ==
  \A p, q \in PostIds : p # q /\ posts[p].url = posts[q].url => posts[p].by # posts[q].by

\* Whatever is redelivered after a crash, no post is analysed twice as long as
\* nobody runs process_text_data without post_ids and no message outlives its
\* visibility timeout: every post has one holder (the scrape that found it, one
\* message, or one task) at a time.
NoDoubleAnalysis ==
  manual = 0 /\ repeats = 0 =>
    \A a, b \in DOMAIN analyses : analyses[a].post = analyses[b].post => a = b

\* The cached label of a post is one that an analysis of this post gave,
\* whichever of process_text_data and update_analytics wrote it last.
CacheIsOfAnAnalysis ==
  \A p \in PostIds : posts[p].cached # None =>
    \E a \in DOMAIN analyses : analyses[a].post = p /\ analyses[a].verdict = posts[p].cached

\* The task of the worker has the post, or will find it.
Holds(w, p) ==
  \/ at[w] \in ScrapeSteps /\ p \in ids[w]
  \/ at[w] = "unprocessed" /\ Covers(ids[w], p)
  \/ at[w] \in ProcessSteps /\ p \in todo[w] \cup {post[w]}

\* The post is still on its way to an analysis.
InFlight(p) == (\E message \in processing : Covers(message, p)) \/ \E w \in Workers : Holds(w, p)

\* Stored, not analysed, and no task or message will ever name it again.
Orphans == {p \in PostIds : ~Analysed(p) /\ ~InFlight(p)}

\* The posts that process_text_data would take up do not fit into one batch.
CutsBatch(w) ==
  /\ GetUnprocessedPosts(w)
  /\ Cardinality({p \in PostIds : ~Analysed(p) /\ Covers(ids[w], p)}) > BatchSize

\* The steps that may leave a post behind.
Drops(w) ==
  \/ at[w] \in ScrapeSteps /\ (WorkerLost(w) \/ TaskFails(w) \/ InsertUnreported(w))
  \/ at[w] \in ProcessSteps /\ (TaskFails(w) \/ PostFails(w) \/ SoftTimeLimit(w))
  \/ CutsBatch(w)

\* A post drops out of the chain only where a scrape is cut off with its ids
\* unsent or unreported, where a task fails for good, where an item of
\* process_text_data fails or is passed over by its time limit, or where a
\* message covers more posts than process_batch_size: never in another run
\* without faults, and never because one task overtook or repeated another.
OnlyTheseStepsOrphanPosts ==
  [][Orphans' \subseteq Orphans \/ \E w \in Workers : Drops(w)]_vars

\* An analysed post without a cached label exists only while a worker is about
\* to write it, or after a fault: reconciliation is needed for faults alone.
StaleOnlyByFault ==
  faults = 0 => \A a \in Stale : \E w \in Workers :
    at[w] = "cache" /\ post[w] = analyses[a].post

\* A label that is shown changes only between the verdicts of two worker processes
\* that both analysed the post and disagreed: neither update_analytics, whose rows
\* may be old, nor a repeated run of the same worker replaces it by anything else.
OnlyRivalsChangeALabel ==
  [][\A p \in PostIds : posts[p].cached \notin {None, posts'[p].cached} =>
       \E a, b \in DOMAIN analyses :
         /\ analyses[a].post = p /\ analyses[b].post = p
         /\ analyses[a].by # analyses[b].by
         /\ analyses[a].verdict = posts[p].cached
         /\ analyses[b].verdict = posts'[p].cached]_vars

\* update_analytics repairs the cache after every crash: an analysed post gets
\* its label, although the pass that should have written it is gone.
AnalysedEventuallyCached ==
  \A a \in 1..(MaxTriggers * Cardinality(Urls)) :
    (a \in DOMAIN analyses) ~> (a \in DOMAIN analyses /\ a \notin Stale)

\* Every stored post is analysed in the end, unless a fault took it out of the
\* chain: the chain itself forgets none that fits into a batch.
StoredEventuallyAnalysed ==
  \A p \in 1..(MaxTriggers * Cardinality(Urls)) :
    (p \in PostIds) ~> (Analysed(p) \/ faults > 0)

\* Two analyses of one post, however often its message was delivered, come from
\* two different worker processes: a worker never analyses a post twice, and a
\* post never has more analyses than there are worker processes.
AnalysesFromDistinctWorkers ==
  \A a, b \in DOMAIN analyses :
    a # b /\ analyses[a].post = analyses[b].post => analyses[a].by # analyses[b].by

Given == [p \in PostIds |->
  {analyses[a].verdict : a \in {b \in DOMAIN analyses : analyses[b].post = p}}]

Shown == [p \in PostIds |-> posts[p].cached]

Lifecycle == INSTANCE PostLifecycle WITH given <- Given, shown <- Shown

\* The tables refine their abstract specification: readers of the database see
\* posts stored, analysed and labelled, in this order and never undone.
LifecycleSpec == Lifecycle!Spec

-----------------------------------------------------------------------------
(* What the documentation says and the code does not do *)

\* "Insert a post if its URL doesn't exist yet" (repository.py): no URL is
\* stored twice.  Fails when two scrapes are between SELECT and INSERT at once.
UniqueUrls == \A p, q \in PostIds : posts[p].url = posts[q].url => p = q

\* "ack only after task completes" (celery_app.py) and "if there are new posts,
\* process_text_data(post_ids) is chained" (ARCHITECTURE.md): losing a worker
\* loses no post.  Fails for a scrape, whose redelivery finds no new posts.
CrashLosesNoPost ==
  [][\A w \in Workers : WorkerLost(w) => Orphans' \subseteq Orphans]_vars

\* "push report after each scraping cycle" (config.py): new posts are followed
\* by a report.  Fails in every cycle in which nothing went wrong, for then
\* update_analytics finds no stale post and returns before notify_n8n.
ReportAfterCycle == (posts # <<>>) ~> (reports > 0)

=============================================================================
