------------------------- MODULE TaskPipeline_steps -------------------------
(***************************************************************************)
(* What one step of the task chain can do, action by action: the types,    *)
(* the ids, the workers' locals, the tables, and who owns a post.  The     *)
(* theorems of TaskPipeline_proofs reason from these lemmas alone.         *)
(***************************************************************************)
EXTENDS TaskPipeline, FiniteSetTheorems, TLAPS

\* A worker's locals are set where the step that reads them comes.
Locals == \A w \in Workers :
  /\ at[w] = "idle" => todo[w] = {}
  /\ at[w] = "insert" => url[w] \in Urls
  /\ at[w] \in {"save", "cache"} => verdict[w] \in Verdicts
  /\ at[w] \in {"save", "cache"} => post[w] \notin todo[w]
  /\ at[w] = "cache" => \E a \in DOMAIN analyses :
       analyses[a].post = post[w] /\ analyses[a].verdict = verdict[w]

\* The inductive invariant the other proofs rest on.
Base == TypeOK /\ IdsAreStored /\ Locals

\* The three ways a step can change the tables: an insert into posts ...
Stored(w) ==
  /\ at[w] = "insert"
  /\ posts' = Append(posts, [url |-> url[w], cached |-> None, by |-> w])
  /\ at'[w] # "insert"
  /\ UNCHANGED analyses

\* ... an insert into analysis_results ...
Saved(w) ==
  /\ at[w] = "save"
  /\ analyses' = Append(analyses, [post |-> post[w], verdict |-> verdict[w], by |-> w])
  /\ at'[w] = "cache"
  /\ UNCHANGED <<posts, todo, post>>

\* ... or an update of the cached label of a post.
Cached(a) ==
  /\ posts' = [posts EXCEPT ![analyses[a].post].cached = analyses[a].verdict]
  /\ UNCHANGED analyses

TablesChange ==
  \/ UNCHANGED tables
  \/ \E w \in Workers : Stored(w) \/ Saved(w)
  \/ \E a \in DOMAIN analyses : Cached(a)

\* The LIMIT of a query returns some of its rows.
LEMMA NewestSubset ==
  ASSUME NEW S, NEW n PROVE Newest(S, n) \subseteq S
BY DEF Newest

\* A LIMIT that the rows fit into takes all of them.
LEMMA NewestIsAll ==
  ASSUME NEW S, S \subseteq Nat, IsFiniteSet(S), NEW n \in Nat, Cardinality(S) <= n
  PROVE  Newest(S, n) = S
<1>1. ASSUME NEW p \in S PROVE Cardinality({q \in S : q > p}) < n
  <2>1. {q \in S : q > p} \subseteq S \ {p}
    OBVIOUS
  <2>2. IsFiniteSet(S \ {p}) /\ Cardinality(S \ {p}) = Cardinality(S) - 1
    BY FS_RemoveElement
  <2>3. Cardinality({q \in S : q > p}) <= Cardinality(S \ {p})
    BY <2>1, <2>2, FS_Subset
  <2>4. Cardinality(S) \in Nat /\ Cardinality(S \ {p}) \in Nat /\ Cardinality({q \in S : q > p}) \in Nat
    BY <2>1, <2>2, FS_Subset, FS_CardinalityType
  <2> QED
    BY <2>2, <2>3, <2>4
<1> QED
  BY <1>1 DEF Newest

\* Row ids are natural numbers.
LEMMA IdsAreNat == Base => PostIds \subseteq Nat /\ DOMAIN analyses \subseteq Nat
BY DEF Base, TypeOK, TableTypes, PostIds

\* Every step keeps the types of the workers' locals.
LEMMA LocalTypesStep ==
  ASSUME Base, Next PROVE LocalTypes'
<1>. USE PipelineAssumption DEF Base, TypeOK, LocalTypes, QueueTypes, tables, broker,
       budget, locals, current, Go, Free, NextPost, NextRow, Insert, Fault, Requeue,
       Steps, ScrapeSteps, ProcessSteps, AnalyticsSteps, NotifySteps, Done
<1>1. CASE TriggerScrape
  BY <1>1 DEF TriggerScrape
<1>2. CASE ProcessEverything
  BY <1>2 DEF ProcessEverything
<1>3. CASE BeatAnalytics
  BY <1>3 DEF BeatAnalytics
<1>4. ASSUME NEW w \in Workers, ReceiveScrape(w) PROVE LocalTypes'
  BY <1>4 DEF ReceiveScrape
<1>5. ASSUME NEW w \in Workers, GetActiveSources(w) PROVE LocalTypes'
  BY <1>5 DEF GetActiveSources
<1>6. ASSUME NEW w \in Workers, ScrapeSource(w) PROVE LocalTypes'
  BY <1>6 DEF ScrapeSource
<1>7. ASSUME NEW w \in Workers, SelectPost(w) PROVE LocalTypes'
  <2>1. PICK u \in items[w] :
          /\ items' = [items EXCEPT ![w] = @ \ {u}]
          /\ at' = at \/ at' = [at EXCEPT ![w] = "insert"]
          /\ url' = url \/ url' = [url EXCEPT ![w] = u]
    BY <1>7 DEF SelectPost
  <2>2. u \in Urls
    OBVIOUS
  <2>3. at' \in [Workers -> Steps]
    BY <2>1
  <2>4. items' \in [Workers -> SUBSET Urls] /\ url' \in [Workers -> Urls \cup {None}]
    BY <2>1, <2>2
  <2>. QED BY <1>7, <2>3, <2>4 DEF SelectPost
<1>8. ASSUME NEW w \in Workers, InsertPost(w) PROVE LocalTypes'
  BY <1>8 DEF InsertPost
<1>9. ASSUME NEW w \in Workers, ChainProcessing(w) PROVE LocalTypes'
  BY <1>9 DEF ChainProcessing
<1>10. ASSUME NEW w \in Workers, ReceiveProcess(w) PROVE LocalTypes'
  BY <1>10 DEF ReceiveProcess
<1>11. ASSUME NEW w \in Workers, GetUnprocessedPosts(w) PROVE LocalTypes'
  <2>1. todo' \in [Workers -> SUBSET Nat]
    BY <1>11, IdsAreNat, NewestSubset DEF GetUnprocessedPosts, Base, TypeOK, LocalTypes
  <2>2. at' \in [Workers -> Steps]
    BY <1>11 DEF GetUnprocessedPosts, Go, Base, TypeOK, LocalTypes, Steps, ScrapeSteps, ProcessSteps, AnalyticsSteps, NotifySteps, Done
  <2>. QED BY <1>11, <2>1, <2>2 DEF GetUnprocessedPosts, current, Base, TypeOK, LocalTypes
<1>12. ASSUME NEW w \in Workers, ProcessRecord(w) PROVE LocalTypes'
  BY <1>12 DEF ProcessRecord
<1>13. ASSUME NEW w \in Workers, SaveAnalysisResult(w) PROVE LocalTypes'
  BY <1>13 DEF SaveAnalysisResult
<1>14. ASSUME NEW w \in Workers, UpdatePostCache(w) PROVE LocalTypes'
  BY <1>14 DEF UpdatePostCache
<1>15. ASSUME NEW w \in Workers, TriggerAnalytics(w) PROVE LocalTypes'
  BY <1>15 DEF TriggerAnalytics
<1>16. ASSUME NEW w \in Workers, ReceiveAnalytics(w) PROVE LocalTypes'
  BY <1>16 DEF ReceiveAnalytics
<1>17. ASSUME NEW w \in Workers, GetStalePosts(w) PROVE LocalTypes'
  <2>1. todo' \in [Workers -> SUBSET Nat]
    BY <1>17, IdsAreNat DEF GetStalePosts, Stale, Base, TypeOK, LocalTypes
  <2>2. at' \in [Workers -> Steps]
    BY <1>17 DEF GetStalePosts, Go, Base, TypeOK, LocalTypes, Steps, ScrapeSteps, ProcessSteps, AnalyticsSteps, NotifySteps, Done
  <2>. QED BY <1>17, <2>1, <2>2 DEF GetStalePosts, current, Base, TypeOK, LocalTypes
<1>18. ASSUME NEW w \in Workers, SyncRow(w) PROVE LocalTypes'
  BY <1>18 DEF SyncRow
<1>19. ASSUME NEW w \in Workers, TriggerNotify(w) PROVE LocalTypes'
  BY <1>19 DEF TriggerNotify
<1>20. ASSUME NEW w \in Workers, ReceiveNotify(w) PROVE LocalTypes'
  BY <1>20 DEF ReceiveNotify
<1>21. ASSUME NEW w \in Workers, SkipReport(w) PROVE LocalTypes'
  BY <1>21 DEF SkipReport
<1>22. ASSUME NEW w \in Workers, SendReport(w) PROVE LocalTypes'
  BY <1>22 DEF SendReport
<1>23. ASSUME NEW w \in Workers, Acknowledge(w) PROVE LocalTypes'
  BY <1>23 DEF Acknowledge
<1>24. ASSUME NEW w \in Workers, UpsertFails(w) PROVE LocalTypes'
  BY <1>24 DEF UpsertFails
<1>25. ASSUME NEW w \in Workers, InsertUnreported(w) PROVE LocalTypes'
  BY <1>25 DEF InsertUnreported
<1>26. ASSUME NEW w \in Workers, PostFails(w) PROVE LocalTypes'
  BY <1>26 DEF PostFails
<1>27. ASSUME NEW w \in Workers, SyncFails(w) PROVE LocalTypes'
  <2>1. todo' \in [Workers -> SUBSET Nat]
    BY <1>27 DEF SyncFails, NextRow, Base, TypeOK, LocalTypes
  <2>. QED BY <1>27, <2>1 DEF SyncFails, current, Base, TypeOK, LocalTypes
<1>28. ASSUME NEW w \in Workers, SoftTimeLimit(w) PROVE LocalTypes'
  <2>1. at' = at \/ at' = [at EXCEPT ![w] = "classify"]
    BY <1>28 DEF SoftTimeLimit
  <2>2. at' \in [Workers -> Steps]
    BY <2>1
  <2>. QED BY <1>28, <2>2 DEF SoftTimeLimit
<1>29. ASSUME NEW w \in Workers, TaskFails(w) PROVE LocalTypes'
  BY <1>29 DEF TaskFails
<1>30. ASSUME NEW w \in Workers, WorkerLost(w) PROVE LocalTypes'
  BY <1>30 DEF WorkerLost
<1>31. ASSUME NEW w \in Workers, ReportFails(w) PROVE LocalTypes'
  BY <1>31 DEF ReportFails
<1>32. ASSUME NEW w \in Workers, DeliverAgain(w) PROVE LocalTypes'
  BY <1>32 DEF DeliverAgain
<1>. QED
  BY <1>1, <1>2, <1>3, <1>4, <1>5, <1>6, <1>7, <1>8, <1>9, <1>10, <1>11, <1>12,
     <1>13, <1>14, <1>15, <1>16, <1>17, <1>18, <1>19, <1>20, <1>21, <1>22, <1>23, <1>24,
     <1>25, <1>26, <1>27, <1>28, <1>29, <1>30, <1>31, <1>32 DEF Next, Work, Fails, Scrape,
     Process, Analytics, Notify

\* Every step keeps the types of the queues.
LEMMA QueueTypesStep ==
  ASSUME Base, Next PROVE QueueTypes'
<1>. USE PipelineAssumption DEF Base, TypeOK, LocalTypes, QueueTypes, tables, broker,
       budget, locals, current, Fault
<1>1. CASE TriggerScrape
  BY <1>1 DEF TriggerScrape
<1>2. CASE ProcessEverything
  BY <1>2 DEF ProcessEverything
<1>3. CASE BeatAnalytics
  BY <1>3 DEF BeatAnalytics
<1>4. ASSUME NEW w \in Workers, ReceiveScrape(w) PROVE QueueTypes'
  BY <1>4 DEF ReceiveScrape
<1>5. ASSUME NEW w \in Workers, GetActiveSources(w) PROVE QueueTypes'
  BY <1>5 DEF GetActiveSources
<1>6. ASSUME NEW w \in Workers, ScrapeSource(w) PROVE QueueTypes'
  BY <1>6 DEF ScrapeSource
<1>7. ASSUME NEW w \in Workers, SelectPost(w) PROVE QueueTypes'
  BY <1>7 DEF SelectPost
<1>8. ASSUME NEW w \in Workers, InsertPost(w) PROVE QueueTypes'
  BY <1>8 DEF InsertPost
<1>9. ASSUME NEW w \in Workers, ChainProcessing(w) PROVE QueueTypes'
  <2>1. processing' \subseteq processing \cup {ids[w]} /\ ids[w] \in SUBSET Nat
    BY <1>9 DEF ChainProcessing, Base, TypeOK, LocalTypes
  <2>. QED BY <1>9, <2>1 DEF ChainProcessing, Base, TypeOK, QueueTypes
<1>10. ASSUME NEW w \in Workers, ReceiveProcess(w) PROVE QueueTypes'
  BY <1>10 DEF ReceiveProcess
<1>11. ASSUME NEW w \in Workers, GetUnprocessedPosts(w) PROVE QueueTypes'
  BY <1>11 DEF GetUnprocessedPosts
<1>12. ASSUME NEW w \in Workers, ProcessRecord(w) PROVE QueueTypes'
  BY <1>12 DEF ProcessRecord
<1>13. ASSUME NEW w \in Workers, SaveAnalysisResult(w) PROVE QueueTypes'
  BY <1>13 DEF SaveAnalysisResult
<1>14. ASSUME NEW w \in Workers, UpdatePostCache(w) PROVE QueueTypes'
  BY <1>14 DEF UpdatePostCache
<1>15. ASSUME NEW w \in Workers, TriggerAnalytics(w) PROVE QueueTypes'
  BY <1>15 DEF TriggerAnalytics
<1>16. ASSUME NEW w \in Workers, ReceiveAnalytics(w) PROVE QueueTypes'
  BY <1>16 DEF ReceiveAnalytics
<1>17. ASSUME NEW w \in Workers, GetStalePosts(w) PROVE QueueTypes'
  BY <1>17 DEF GetStalePosts
<1>18. ASSUME NEW w \in Workers, SyncRow(w) PROVE QueueTypes'
  BY <1>18 DEF SyncRow
<1>19. ASSUME NEW w \in Workers, TriggerNotify(w) PROVE QueueTypes'
  BY <1>19 DEF TriggerNotify
<1>20. ASSUME NEW w \in Workers, ReceiveNotify(w) PROVE QueueTypes'
  BY <1>20 DEF ReceiveNotify
<1>21. ASSUME NEW w \in Workers, SkipReport(w) PROVE QueueTypes'
  BY <1>21 DEF SkipReport
<1>22. ASSUME NEW w \in Workers, SendReport(w) PROVE QueueTypes'
  BY <1>22 DEF SendReport
<1>23. ASSUME NEW w \in Workers, Acknowledge(w) PROVE QueueTypes'
  BY <1>23 DEF Acknowledge
<1>24. ASSUME NEW w \in Workers, UpsertFails(w) PROVE QueueTypes'
  BY <1>24 DEF UpsertFails
<1>25. ASSUME NEW w \in Workers, InsertUnreported(w) PROVE QueueTypes'
  BY <1>25 DEF InsertUnreported
<1>26. ASSUME NEW w \in Workers, PostFails(w) PROVE QueueTypes'
  BY <1>26 DEF PostFails
<1>27. ASSUME NEW w \in Workers, SyncFails(w) PROVE QueueTypes'
  BY <1>27 DEF SyncFails
<1>28. ASSUME NEW w \in Workers, SoftTimeLimit(w) PROVE QueueTypes'
  BY <1>28 DEF SoftTimeLimit
<1>29. ASSUME NEW w \in Workers, TaskFails(w) PROVE QueueTypes'
  BY <1>29 DEF TaskFails
<1>30. ASSUME NEW w \in Workers, WorkerLost(w) PROVE QueueTypes'
  <2>1. processing' \subseteq processing \cup {ids[w]} /\ ids[w] \in SUBSET Nat
    BY <1>30 DEF WorkerLost, Requeue, Base, TypeOK, LocalTypes
  <2>2. notifications' \in [0..MaxRetries -> Nat]
    BY <1>30 DEF WorkerLost, Requeue, Base, TypeOK, LocalTypes, QueueTypes
  <2>3. scraping' \in Nat /\ analytics' \in Nat
    BY <1>30 DEF WorkerLost, Requeue, Base, TypeOK, QueueTypes
  <2>. QED BY <2>1, <2>2, <2>3 DEF Base, TypeOK, QueueTypes
<1>31. ASSUME NEW w \in Workers, ReportFails(w) PROVE QueueTypes'
  BY <1>31 DEF ReportFails
<1>32. ASSUME NEW w \in Workers, DeliverAgain(w) PROVE QueueTypes'
  <2>1. processing' \subseteq processing \cup {ids[w]} /\ ids[w] \in SUBSET Nat
    BY <1>32 DEF DeliverAgain, Requeue, Base, TypeOK, LocalTypes
  <2>2. notifications' \in [0..MaxRetries -> Nat]
    BY <1>32 DEF DeliverAgain, Requeue, Base, TypeOK, LocalTypes, QueueTypes
  <2>3. scraping' \in Nat /\ analytics' \in Nat
    BY <1>32 DEF DeliverAgain, Requeue, Base, TypeOK, QueueTypes
  <2>. QED BY <2>1, <2>2, <2>3 DEF Base, TypeOK, QueueTypes
<1>. QED
  BY <1>1, <1>2, <1>3, <1>4, <1>5, <1>6, <1>7, <1>8, <1>9, <1>10, <1>11, <1>12,
     <1>13, <1>14, <1>15, <1>16, <1>17, <1>18, <1>19, <1>20, <1>21, <1>22, <1>23, <1>24,
     <1>25, <1>26, <1>27, <1>28, <1>29, <1>30, <1>31, <1>32 DEF Next, Work, Fails, Scrape,
     Process, Analytics, Notify

\* Every step keeps the types of the counters.
LEMMA CounterTypesStep ==
  ASSUME Base, Next PROVE CounterTypes'
<1>. USE DEF Base, TypeOK, CounterTypes, tables, broker, budget, locals, current, Fault
<1>1. CASE TriggerScrape
  BY <1>1 DEF TriggerScrape
<1>2. CASE ProcessEverything
  BY <1>2 DEF ProcessEverything
<1>3. CASE BeatAnalytics
  BY <1>3 DEF BeatAnalytics
<1>4. ASSUME NEW w \in Workers, ReceiveScrape(w) PROVE CounterTypes'
  BY <1>4 DEF ReceiveScrape
<1>5. ASSUME NEW w \in Workers, GetActiveSources(w) PROVE CounterTypes'
  BY <1>5 DEF GetActiveSources
<1>6. ASSUME NEW w \in Workers, ScrapeSource(w) PROVE CounterTypes'
  BY <1>6 DEF ScrapeSource
<1>7. ASSUME NEW w \in Workers, SelectPost(w) PROVE CounterTypes'
  BY <1>7 DEF SelectPost
<1>8. ASSUME NEW w \in Workers, InsertPost(w) PROVE CounterTypes'
  BY <1>8 DEF InsertPost
<1>9. ASSUME NEW w \in Workers, ChainProcessing(w) PROVE CounterTypes'
  BY <1>9 DEF ChainProcessing
<1>10. ASSUME NEW w \in Workers, ReceiveProcess(w) PROVE CounterTypes'
  BY <1>10 DEF ReceiveProcess
<1>11. ASSUME NEW w \in Workers, GetUnprocessedPosts(w) PROVE CounterTypes'
  BY <1>11 DEF GetUnprocessedPosts
<1>12. ASSUME NEW w \in Workers, ProcessRecord(w) PROVE CounterTypes'
  BY <1>12 DEF ProcessRecord
<1>13. ASSUME NEW w \in Workers, SaveAnalysisResult(w) PROVE CounterTypes'
  BY <1>13 DEF SaveAnalysisResult
<1>14. ASSUME NEW w \in Workers, UpdatePostCache(w) PROVE CounterTypes'
  BY <1>14 DEF UpdatePostCache
<1>15. ASSUME NEW w \in Workers, TriggerAnalytics(w) PROVE CounterTypes'
  BY <1>15 DEF TriggerAnalytics
<1>16. ASSUME NEW w \in Workers, ReceiveAnalytics(w) PROVE CounterTypes'
  BY <1>16 DEF ReceiveAnalytics
<1>17. ASSUME NEW w \in Workers, GetStalePosts(w) PROVE CounterTypes'
  BY <1>17 DEF GetStalePosts
<1>18. ASSUME NEW w \in Workers, SyncRow(w) PROVE CounterTypes'
  BY <1>18 DEF SyncRow
<1>19. ASSUME NEW w \in Workers, TriggerNotify(w) PROVE CounterTypes'
  BY <1>19 DEF TriggerNotify
<1>20. ASSUME NEW w \in Workers, ReceiveNotify(w) PROVE CounterTypes'
  BY <1>20 DEF ReceiveNotify
<1>21. ASSUME NEW w \in Workers, SkipReport(w) PROVE CounterTypes'
  BY <1>21 DEF SkipReport
<1>22. ASSUME NEW w \in Workers, SendReport(w) PROVE CounterTypes'
  BY <1>22 DEF SendReport
<1>23. ASSUME NEW w \in Workers, Acknowledge(w) PROVE CounterTypes'
  BY <1>23 DEF Acknowledge
<1>24. ASSUME NEW w \in Workers, UpsertFails(w) PROVE CounterTypes'
  BY <1>24 DEF UpsertFails
<1>25. ASSUME NEW w \in Workers, InsertUnreported(w) PROVE CounterTypes'
  BY <1>25 DEF InsertUnreported
<1>26. ASSUME NEW w \in Workers, PostFails(w) PROVE CounterTypes'
  BY <1>26 DEF PostFails
<1>27. ASSUME NEW w \in Workers, SyncFails(w) PROVE CounterTypes'
  BY <1>27 DEF SyncFails
<1>28. ASSUME NEW w \in Workers, SoftTimeLimit(w) PROVE CounterTypes'
  BY <1>28 DEF SoftTimeLimit
<1>29. ASSUME NEW w \in Workers, TaskFails(w) PROVE CounterTypes'
  BY <1>29 DEF TaskFails
<1>30. ASSUME NEW w \in Workers, WorkerLost(w) PROVE CounterTypes'
  BY <1>30 DEF WorkerLost
<1>31. ASSUME NEW w \in Workers, ReportFails(w) PROVE CounterTypes'
  BY <1>31 DEF ReportFails
<1>32. ASSUME NEW w \in Workers, DeliverAgain(w) PROVE CounterTypes'
  BY <1>32 DEF DeliverAgain
<1>. QED
  BY <1>1, <1>2, <1>3, <1>4, <1>5, <1>6, <1>7, <1>8, <1>9, <1>10, <1>11, <1>12,
     <1>13, <1>14, <1>15, <1>16, <1>17, <1>18, <1>19, <1>20, <1>21, <1>22, <1>23, <1>24,
     <1>25, <1>26, <1>27, <1>28, <1>29, <1>30, <1>31, <1>32 DEF Next, Work, Fails, Scrape,
     Process, Analytics, Notify

\* A step changes the tables in one of three ways or not at all.
LEMMA TablesStep ==
  ASSUME Base, Next PROVE TablesChange
<1>. USE DEF Base, TypeOK, LocalTypes, IdsAreStored, Locals, TablesChange, Stored, Saved,
       Cached, tables, broker, budget, locals, current, Insert, Go, Steps, ScrapeSteps,
       ProcessSteps, AnalyticsSteps, NotifySteps, Done
<1>1. CASE TriggerScrape
  BY <1>1 DEF TriggerScrape
<1>2. CASE ProcessEverything
  BY <1>2 DEF ProcessEverything
<1>3. CASE BeatAnalytics
  BY <1>3 DEF BeatAnalytics
<1>4. ASSUME NEW w \in Workers, ReceiveScrape(w) PROVE TablesChange
  BY <1>4 DEF ReceiveScrape
<1>5. ASSUME NEW w \in Workers, GetActiveSources(w) PROVE TablesChange
  BY <1>5 DEF GetActiveSources
<1>6. ASSUME NEW w \in Workers, ScrapeSource(w) PROVE TablesChange
  BY <1>6 DEF ScrapeSource
<1>7. ASSUME NEW w \in Workers, SelectPost(w) PROVE TablesChange
  BY <1>7 DEF SelectPost
<1>8. ASSUME NEW w \in Workers, InsertPost(w) PROVE TablesChange
  BY <1>8 DEF InsertPost
<1>9. ASSUME NEW w \in Workers, ChainProcessing(w) PROVE TablesChange
  BY <1>9 DEF ChainProcessing
<1>10. ASSUME NEW w \in Workers, ReceiveProcess(w) PROVE TablesChange
  BY <1>10 DEF ReceiveProcess
<1>11. ASSUME NEW w \in Workers, GetUnprocessedPosts(w) PROVE TablesChange
  BY <1>11 DEF GetUnprocessedPosts
<1>12. ASSUME NEW w \in Workers, ProcessRecord(w) PROVE TablesChange
  BY <1>12 DEF ProcessRecord
<1>13. ASSUME NEW w \in Workers, SaveAnalysisResult(w) PROVE TablesChange
  BY <1>13 DEF SaveAnalysisResult
<1>14. ASSUME NEW w \in Workers, UpdatePostCache(w) PROVE TablesChange
  BY <1>14 DEF UpdatePostCache
<1>15. ASSUME NEW w \in Workers, TriggerAnalytics(w) PROVE TablesChange
  BY <1>15 DEF TriggerAnalytics
<1>16. ASSUME NEW w \in Workers, ReceiveAnalytics(w) PROVE TablesChange
  BY <1>16 DEF ReceiveAnalytics
<1>17. ASSUME NEW w \in Workers, GetStalePosts(w) PROVE TablesChange
  BY <1>17 DEF GetStalePosts
<1>18. ASSUME NEW w \in Workers, SyncRow(w) PROVE TablesChange
  BY <1>18 DEF SyncRow
<1>19. ASSUME NEW w \in Workers, TriggerNotify(w) PROVE TablesChange
  BY <1>19 DEF TriggerNotify
<1>20. ASSUME NEW w \in Workers, ReceiveNotify(w) PROVE TablesChange
  BY <1>20 DEF ReceiveNotify
<1>21. ASSUME NEW w \in Workers, SkipReport(w) PROVE TablesChange
  BY <1>21 DEF SkipReport
<1>22. ASSUME NEW w \in Workers, SendReport(w) PROVE TablesChange
  BY <1>22 DEF SendReport
<1>23. ASSUME NEW w \in Workers, Acknowledge(w) PROVE TablesChange
  BY <1>23 DEF Acknowledge
<1>24. ASSUME NEW w \in Workers, UpsertFails(w) PROVE TablesChange
  BY <1>24 DEF UpsertFails
<1>25. ASSUME NEW w \in Workers, InsertUnreported(w) PROVE TablesChange
  BY <1>25 DEF InsertUnreported
<1>26. ASSUME NEW w \in Workers, PostFails(w) PROVE TablesChange
  BY <1>26 DEF PostFails
<1>27. ASSUME NEW w \in Workers, SyncFails(w) PROVE TablesChange
  BY <1>27 DEF SyncFails
<1>28. ASSUME NEW w \in Workers, SoftTimeLimit(w) PROVE TablesChange
  BY <1>28 DEF SoftTimeLimit
<1>29. ASSUME NEW w \in Workers, TaskFails(w) PROVE TablesChange
  BY <1>29 DEF TaskFails
<1>30. ASSUME NEW w \in Workers, WorkerLost(w) PROVE TablesChange
  BY <1>30 DEF WorkerLost
<1>31. ASSUME NEW w \in Workers, ReportFails(w) PROVE TablesChange
  BY <1>31 DEF ReportFails
<1>32. ASSUME NEW w \in Workers, DeliverAgain(w) PROVE TablesChange
  BY <1>32 DEF DeliverAgain
<1>. QED
  BY <1>1, <1>2, <1>3, <1>4, <1>5, <1>6, <1>7, <1>8, <1>9, <1>10, <1>11, <1>12,
     <1>13, <1>14, <1>15, <1>16, <1>17, <1>18, <1>19, <1>20, <1>21, <1>22, <1>23, <1>24,
     <1>25, <1>26, <1>27, <1>28, <1>29, <1>30, <1>31, <1>32 DEF Next, Work, Fails, Scrape,
     Process, Analytics, Notify

\* An UPDATE of one cached column leaves everything else of table posts alone.
LEMMA CacheUpdate ==
  ASSUME posts \in Seq(Post), NEW p \in PostIds, NEW v \in Verdicts,
         posts' = [posts EXCEPT ![p].cached = v]
  PROVE  /\ posts' \in Seq(Post)
         /\ PostIds' = PostIds
         /\ \A q \in PostIds : posts'[q].url = posts[q].url /\ posts'[q].by = posts[q].by
         /\ \A q \in PostIds : posts'[q].cached = IF q = p THEN v ELSE posts[q].cached
<1>. USE DEF PostIds
<1>1. DOMAIN posts' = DOMAIN posts
  OBVIOUS
<1>2. \A q \in DOMAIN posts : posts[q] \in Post
  OBVIOUS
<1>3. \A q \in DOMAIN posts : posts'[q] = IF q = p THEN [posts[q] EXCEPT !.cached = v] ELSE posts[q]
  OBVIOUS
<1>4. \A q \in DOMAIN posts : posts'[q] \in Post
  BY <1>2, <1>3 DEF Post
<1>5. posts' \in Seq(Post)
  BY <1>1, <1>4
<1>. QED
  BY <1>1, <1>2, <1>3, <1>5 DEF Post

\* Rows stay: their ids, URLs and authors never change.
LEMMA TablesGrow ==
  ASSUME Base, Next
  PROVE  /\ TableTypes'
         /\ PostIds \subseteq PostIds'
         /\ DOMAIN analyses \subseteq DOMAIN analyses'
         /\ \A p \in PostIds : posts'[p].url = posts[p].url /\ posts'[p].by = posts[p].by
         /\ \A a \in DOMAIN analyses : analyses'[a] = analyses[a]
<1>. USE DEF Base, TypeOK, TableTypes, PostIds
<1>1. CASE UNCHANGED tables
  BY <1>1 DEF tables
<1>2. ASSUME NEW w \in Workers, Stored(w)
      PROVE  /\ posts' \in Seq(Post) /\ DOMAIN posts \subseteq DOMAIN posts'
             /\ \A p \in DOMAIN posts : posts'[p] = posts[p]
  <2>1. [url |-> url[w], cached |-> None, by |-> w] \in Post
    BY <1>2 DEF Stored, Locals, Post
  <2>. QED BY <1>2, <2>1 DEF Stored
<1>3. ASSUME NEW w \in Workers, Saved(w)
      PROVE  /\ analyses' \in Seq(Analysis) /\ DOMAIN analyses \subseteq DOMAIN analyses'
             /\ \A a \in DOMAIN analyses : analyses'[a] = analyses[a]
  <2>1. [post |-> post[w], verdict |-> verdict[w], by |-> w] \in Analysis
    BY <1>3 DEF Saved, Locals, LocalTypes, Analysis
  <2>. QED BY <1>3, <2>1 DEF Saved
<1>4. ASSUME NEW a \in DOMAIN analyses, Cached(a)
      PROVE  /\ posts' \in Seq(Post) /\ DOMAIN posts' = DOMAIN posts
             /\ \A p \in DOMAIN posts : posts'[p].url = posts[p].url /\ posts'[p].by = posts[p].by
  <2>1. analyses[a] \in Analysis /\ analyses[a].post \in PostIds
    BY DEF IdsAreStored
  <2>2. analyses[a].verdict \in Verdicts
    BY <2>1 DEF Analysis
  <2>. QED BY <1>4, <2>1, <2>2, CacheUpdate DEF Cached
<1>. QED
  BY <1>1, <1>2, <1>3, <1>4, TablesStep DEF TablesChange, Stored, Saved, Cached

\* No step makes an id name a row that is not there.
LEMMA IdsStep ==
  ASSUME Base, Next PROVE IdsAreStored'
<1>. USE TablesGrow DEF Base, TypeOK, IdsAreStored, Locals, LocalTypes, QueueTypes,
       tables, broker, budget, locals, current, Go, Free, NextPost, NextRow, Insert,
       Fault, Requeue, Steps, ScrapeSteps, ProcessSteps, AnalyticsSteps, NotifySteps, Done
<1>1. CASE TriggerScrape
  BY <1>1 DEF TriggerScrape
<1>2. CASE ProcessEverything
  BY <1>2 DEF ProcessEverything
<1>3. CASE BeatAnalytics
  BY <1>3 DEF BeatAnalytics
<1>4. ASSUME NEW w \in Workers, ReceiveScrape(w) PROVE IdsAreStored'
  BY <1>4 DEF ReceiveScrape
<1>5. ASSUME NEW w \in Workers, GetActiveSources(w) PROVE IdsAreStored'
  BY <1>5 DEF GetActiveSources
<1>6. ASSUME NEW w \in Workers, ScrapeSource(w) PROVE IdsAreStored'
  BY <1>6 DEF ScrapeSource
<1>7. ASSUME NEW w \in Workers, SelectPost(w) PROVE IdsAreStored'
  BY <1>7 DEF SelectPost
<1>8. ASSUME NEW w \in Workers, InsertPost(w) PROVE IdsAreStored'
  <2>1. ids[w] \subseteq PostIds
    BY DEF Base, IdsAreStored
  <2>2. Len(posts) + 1 \in PostIds'
    BY <1>8 DEF InsertPost, Insert, Base, TypeOK, TableTypes, PostIds
  <2>3. ids'[w] = ids[w] \cup {Len(posts) + 1} /\ \A x \in Workers : x # w => ids'[x] = ids[x]
    BY <1>8 DEF InsertPost, Base, TypeOK, LocalTypes
  <2>. QED BY <1>8, <2>1, <2>2, <2>3, TablesGrow
          DEF InsertPost, Insert, Go, Base, TypeOK, IdsAreStored, LocalTypes, broker, ProcessSteps, AnalyticsSteps
<1>9. ASSUME NEW w \in Workers, ChainProcessing(w) PROVE IdsAreStored'
  BY <1>9 DEF ChainProcessing
<1>10. ASSUME NEW w \in Workers, ReceiveProcess(w) PROVE IdsAreStored'
  <2>1. PICK message \in processing : ids' = [ids EXCEPT ![w] = message]
    BY <1>10 DEF ReceiveProcess
  <2>2. ids'[w] = message /\ \A x \in Workers : x # w => ids'[x] = ids[x]
    BY <2>1 DEF Base, TypeOK, LocalTypes
  <2>3. todo[w] = {} /\ processing' \subseteq processing
    BY <1>10 DEF ReceiveProcess, Base, Locals
  <2>. QED BY <1>10, <2>2, <2>3, TablesGrow
          DEF ReceiveProcess, Go, Base, TypeOK, IdsAreStored, LocalTypes, tables, current, Steps, ScrapeSteps, ProcessSteps, AnalyticsSteps, NotifySteps, Done
<1>11. ASSUME NEW w \in Workers, GetUnprocessedPosts(w) PROVE IdsAreStored'
  <2>1. todo'[w] \subseteq PostIds /\ \A x \in Workers : x # w => todo'[x] = todo[x]
    BY <1>11, NewestSubset DEF GetUnprocessedPosts, Base, TypeOK, LocalTypes
  <2>. QED BY <1>11, <2>1, TablesGrow
          DEF GetUnprocessedPosts, Go, Base, TypeOK, IdsAreStored, LocalTypes, tables, broker, current, Steps, ScrapeSteps, ProcessSteps, AnalyticsSteps, NotifySteps, Done
<1>12. ASSUME NEW w \in Workers, ProcessRecord(w) PROVE IdsAreStored'
  BY <1>12 DEF ProcessRecord
<1>13. ASSUME NEW w \in Workers, SaveAnalysisResult(w) PROVE IdsAreStored'
  BY <1>13 DEF SaveAnalysisResult
<1>14. ASSUME NEW w \in Workers, UpdatePostCache(w) PROVE IdsAreStored'
  BY <1>14 DEF UpdatePostCache
<1>15. ASSUME NEW w \in Workers, TriggerAnalytics(w) PROVE IdsAreStored'
  BY <1>15 DEF TriggerAnalytics
<1>16. ASSUME NEW w \in Workers, ReceiveAnalytics(w) PROVE IdsAreStored'
  BY <1>16 DEF ReceiveAnalytics
<1>17. ASSUME NEW w \in Workers, GetStalePosts(w) PROVE IdsAreStored'
  <2>1. todo'[w] \subseteq DOMAIN analyses /\ \A x \in Workers : x # w => todo'[x] = todo[x]
    BY <1>17 DEF GetStalePosts, Stale, Base, TypeOK, LocalTypes
  <2>. QED BY <1>17, <2>1, TablesGrow
          DEF GetStalePosts, Go, Base, TypeOK, IdsAreStored, LocalTypes, tables, broker, current, Steps, ScrapeSteps, ProcessSteps, AnalyticsSteps, NotifySteps, Done
<1>18. ASSUME NEW w \in Workers, SyncRow(w) PROVE IdsAreStored'
  BY <1>18 DEF SyncRow
<1>19. ASSUME NEW w \in Workers, TriggerNotify(w) PROVE IdsAreStored'
  BY <1>19 DEF TriggerNotify
<1>20. ASSUME NEW w \in Workers, ReceiveNotify(w) PROVE IdsAreStored'
  BY <1>20 DEF ReceiveNotify
<1>21. ASSUME NEW w \in Workers, SkipReport(w) PROVE IdsAreStored'
  BY <1>21 DEF SkipReport
<1>22. ASSUME NEW w \in Workers, SendReport(w) PROVE IdsAreStored'
  BY <1>22 DEF SendReport
<1>23. ASSUME NEW w \in Workers, Acknowledge(w) PROVE IdsAreStored'
  BY <1>23 DEF Acknowledge
<1>24. ASSUME NEW w \in Workers, UpsertFails(w) PROVE IdsAreStored'
  <2>1. UNCHANGED <<ids, todo, post, processing>> /\ DOMAIN analyses' = DOMAIN analyses
    BY <1>24 DEF UpsertFails
  <2>2. at' = at \/ at' = [at EXCEPT ![w] = "scrape"]
    BY <1>24 DEF UpsertFails
  <2>. QED BY <2>1, <2>2
<1>25. ASSUME NEW w \in Workers, InsertUnreported(w) PROVE IdsAreStored'
  BY <1>25 DEF InsertUnreported
<1>26. ASSUME NEW w \in Workers, PostFails(w) PROVE IdsAreStored'
  BY <1>26 DEF PostFails
<1>27. ASSUME NEW w \in Workers, SyncFails(w) PROVE IdsAreStored'
  BY <1>27 DEF SyncFails
<1>28. ASSUME NEW w \in Workers, SoftTimeLimit(w) PROVE IdsAreStored'
  BY <1>28 DEF SoftTimeLimit
<1>29. ASSUME NEW w \in Workers, TaskFails(w) PROVE IdsAreStored'
  BY <1>29 DEF TaskFails
<1>30. ASSUME NEW w \in Workers, WorkerLost(w) PROVE IdsAreStored'
  BY <1>30 DEF WorkerLost
<1>31. ASSUME NEW w \in Workers, ReportFails(w) PROVE IdsAreStored'
  BY <1>31 DEF ReportFails
<1>32. ASSUME NEW w \in Workers, DeliverAgain(w) PROVE IdsAreStored'
  BY <1>32 DEF DeliverAgain
<1>. QED
  BY <1>1, <1>2, <1>3, <1>4, <1>5, <1>6, <1>7, <1>8, <1>9, <1>10, <1>11, <1>12,
     <1>13, <1>14, <1>15, <1>16, <1>17, <1>18, <1>19, <1>20, <1>21, <1>22, <1>23, <1>24,
     <1>25, <1>26, <1>27, <1>28, <1>29, <1>30, <1>31, <1>32 DEF Next, Work, Fails, Scrape,
     Process, Analytics, Notify

\* Every step leaves a worker's locals ready for its next step.
LEMMA LocalsStep ==
  ASSUME Base, Next PROVE Locals'
<1>. USE TablesGrow DEF Base, TypeOK, Locals, LocalTypes, QueueTypes, tables, broker,
       budget, locals, current, Go, Free, NextPost, NextRow, Insert, Fault, Requeue,
       Steps, ScrapeSteps, ProcessSteps, AnalyticsSteps, NotifySteps, Done
<1>1. CASE TriggerScrape
  BY <1>1 DEF TriggerScrape
<1>2. CASE ProcessEverything
  BY <1>2 DEF ProcessEverything
<1>3. CASE BeatAnalytics
  BY <1>3 DEF BeatAnalytics
<1>4. ASSUME NEW w \in Workers, ReceiveScrape(w) PROVE Locals'
  BY <1>4 DEF ReceiveScrape
<1>5. ASSUME NEW w \in Workers, GetActiveSources(w) PROVE Locals'
  BY <1>5 DEF GetActiveSources
<1>6. ASSUME NEW w \in Workers, ScrapeSource(w) PROVE Locals'
  BY <1>6 DEF ScrapeSource
<1>7. ASSUME NEW w \in Workers, SelectPost(w) PROVE Locals'
  BY <1>7 DEF SelectPost
<1>8. ASSUME NEW w \in Workers, InsertPost(w) PROVE Locals'
  BY <1>8 DEF InsertPost
<1>9. ASSUME NEW w \in Workers, ChainProcessing(w) PROVE Locals'
  BY <1>9 DEF ChainProcessing
<1>10. ASSUME NEW w \in Workers, ReceiveProcess(w) PROVE Locals'
  BY <1>10 DEF ReceiveProcess
<1>11. ASSUME NEW w \in Workers, GetUnprocessedPosts(w) PROVE Locals'
  BY <1>11 DEF GetUnprocessedPosts
<1>12. ASSUME NEW w \in Workers, ProcessRecord(w) PROVE Locals'
  BY <1>12 DEF ProcessRecord
<1>13. ASSUME NEW w \in Workers, SaveAnalysisResult(w) PROVE Locals'
  <2>1. \E a \in DOMAIN analyses' : analyses'[a].post = post[w] /\ analyses'[a].verdict = verdict[w]
    <3>1. analyses' = Append(analyses, [post |-> post[w], verdict |-> verdict[w], by |-> w])
      BY <1>13 DEF SaveAnalysisResult
    <3>2. /\ Len(analyses) + 1 \in DOMAIN analyses'
          /\ analyses'[Len(analyses) + 1].post = post[w]
          /\ analyses'[Len(analyses) + 1].verdict = verdict[w]
      BY <3>1 DEF TableTypes
    <3>. QED BY <3>2
  <2>2. at' = [at EXCEPT ![w] = "cache"] /\ UNCHANGED <<todo, url, post, verdict>>
    BY <1>13 DEF SaveAnalysisResult
  <2>3. \A x \in Workers : at[x] = "cache" => \E a \in DOMAIN analyses' :
          analyses'[a].post = post[x] /\ analyses'[a].verdict = verdict[x]
    BY TablesGrow
  <2>4. \A x \in Workers : at'[x] = IF x = w THEN "cache" ELSE at[x]
    BY <2>2
  <2>5. at[w] = "save"
    BY <1>13 DEF SaveAnalysisResult
  <2>. QED
    <3>. HIDE TablesGrow
    <3>. QED BY <2>1, <2>2, <2>3, <2>4, <2>5
<1>14. ASSUME NEW w \in Workers, UpdatePostCache(w) PROVE Locals'
  BY <1>14 DEF UpdatePostCache
<1>15. ASSUME NEW w \in Workers, TriggerAnalytics(w) PROVE Locals'
  BY <1>15 DEF TriggerAnalytics
<1>16. ASSUME NEW w \in Workers, ReceiveAnalytics(w) PROVE Locals'
  BY <1>16 DEF ReceiveAnalytics
<1>17. ASSUME NEW w \in Workers, GetStalePosts(w) PROVE Locals'
  BY <1>17 DEF GetStalePosts
<1>18. ASSUME NEW w \in Workers, SyncRow(w) PROVE Locals'
  BY <1>18 DEF SyncRow
<1>19. ASSUME NEW w \in Workers, TriggerNotify(w) PROVE Locals'
  BY <1>19 DEF TriggerNotify
<1>20. ASSUME NEW w \in Workers, ReceiveNotify(w) PROVE Locals'
  BY <1>20 DEF ReceiveNotify
<1>21. ASSUME NEW w \in Workers, SkipReport(w) PROVE Locals'
  BY <1>21 DEF SkipReport
<1>22. ASSUME NEW w \in Workers, SendReport(w) PROVE Locals'
  BY <1>22 DEF SendReport
<1>23. ASSUME NEW w \in Workers, Acknowledge(w) PROVE Locals'
  BY <1>23 DEF Acknowledge
<1>24. ASSUME NEW w \in Workers, UpsertFails(w) PROVE Locals'
  BY <1>24 DEF UpsertFails
<1>25. ASSUME NEW w \in Workers, InsertUnreported(w) PROVE Locals'
  BY <1>25 DEF InsertUnreported
<1>26. ASSUME NEW w \in Workers, PostFails(w) PROVE Locals'
  BY <1>26 DEF PostFails
<1>27. ASSUME NEW w \in Workers, SyncFails(w) PROVE Locals'
  BY <1>27 DEF SyncFails
<1>28. ASSUME NEW w \in Workers, SoftTimeLimit(w) PROVE Locals'
  <2>1. at'[w] \in {"scrape", "classify"} /\ \A x \in Workers : x # w => at'[x] = at[x]
    BY <1>28 DEF SoftTimeLimit
  <2>. QED BY <1>28, <2>1 DEF SoftTimeLimit
<1>29. ASSUME NEW w \in Workers, TaskFails(w) PROVE Locals'
  BY <1>29 DEF TaskFails
<1>30. ASSUME NEW w \in Workers, WorkerLost(w) PROVE Locals'
  BY <1>30 DEF WorkerLost
<1>31. ASSUME NEW w \in Workers, ReportFails(w) PROVE Locals'
  BY <1>31 DEF ReportFails
<1>32. ASSUME NEW w \in Workers, DeliverAgain(w) PROVE Locals'
  BY <1>32 DEF DeliverAgain
<1>. QED
  BY <1>1, <1>2, <1>3, <1>4, <1>5, <1>6, <1>7, <1>8, <1>9, <1>10, <1>11, <1>12,
     <1>13, <1>14, <1>15, <1>16, <1>17, <1>18, <1>19, <1>20, <1>21, <1>22, <1>23, <1>24,
     <1>25, <1>26, <1>27, <1>28, <1>29, <1>30, <1>31, <1>32 DEF Next, Work, Fails, Scrape,
     Process, Analytics, Notify

\* A worker about to insert found no row with its URL when it looked, or was
\* already about to.
InsertChange == \A x \in Workers : at'[x] = "insert" =>
  \/ at[x] = "insert" /\ url'[x] = url[x]
  \/ UNCHANGED tables /\ \A p \in PostIds : posts[p].url # url'[x]

\* The worker will still save an analysis of the post in its present task.
Pending(w, p) ==
  \/ at[w] \in ProcessSteps /\ p \in todo[w]
  \/ at[w] = "save" /\ p = post[w]

\* A post the worker will analyse now and would not before had no analysis.
PendingChange == \A x \in Workers, p \in PostIds : Pending(x, p)' =>
   \/ Pending(x, p) 
   \/ UNCHANGED tables /\ ~Analysed(p)

\* Every id new to the chain has one owner: a message or the task of one
\* worker.  Workers analyse the ids they own.
Owners ==
  /\ \A m \in processing : m # {}
  /\ \A m, n \in processing : m # n => m \cap n = {}
  /\ \A m \in processing, w \in Workers : m \cap ids[w] = {}
  /\ \A w, x \in Workers : w # x => ids[w] \cap ids[x] = {}
  /\ \A w \in Workers : at[w] \in ProcessSteps => ids[w] # {}
  /\ \A w \in Workers, p \in PostIds : Pending(w, p) => p \in ids[w]

\* A worker comes to an insert only by finding no row with the URL.
LEMMA InsertStep ==
  ASSUME Base, Next PROVE InsertChange
<1>. USE DEF Base, TypeOK, LocalTypes, InsertChange, tables, broker, budget, locals,
       current, Go, Free, NextPost, NextRow, Insert, Fault, Requeue, Steps, ScrapeSteps,
       ProcessSteps, AnalyticsSteps, NotifySteps, Done
<1>1. CASE TriggerScrape
  BY <1>1 DEF TriggerScrape
<1>2. CASE ProcessEverything
  BY <1>2 DEF ProcessEverything
<1>3. CASE BeatAnalytics
  BY <1>3 DEF BeatAnalytics
<1>4. ASSUME NEW w \in Workers, ReceiveScrape(w) PROVE InsertChange
  BY <1>4 DEF ReceiveScrape
<1>5. ASSUME NEW w \in Workers, GetActiveSources(w) PROVE InsertChange
  BY <1>5 DEF GetActiveSources
<1>6. ASSUME NEW w \in Workers, ScrapeSource(w) PROVE InsertChange
  BY <1>6 DEF ScrapeSource
<1>7. ASSUME NEW w \in Workers, SelectPost(w) PROVE InsertChange
  BY <1>7 DEF SelectPost
<1>8. ASSUME NEW w \in Workers, InsertPost(w) PROVE InsertChange
  BY <1>8 DEF InsertPost
<1>9. ASSUME NEW w \in Workers, ChainProcessing(w) PROVE InsertChange
  BY <1>9 DEF ChainProcessing
<1>10. ASSUME NEW w \in Workers, ReceiveProcess(w) PROVE InsertChange
  BY <1>10 DEF ReceiveProcess
<1>11. ASSUME NEW w \in Workers, GetUnprocessedPosts(w) PROVE InsertChange
  BY <1>11 DEF GetUnprocessedPosts
<1>12. ASSUME NEW w \in Workers, ProcessRecord(w) PROVE InsertChange
  BY <1>12 DEF ProcessRecord
<1>13. ASSUME NEW w \in Workers, SaveAnalysisResult(w) PROVE InsertChange
  BY <1>13 DEF SaveAnalysisResult
<1>14. ASSUME NEW w \in Workers, UpdatePostCache(w) PROVE InsertChange
  BY <1>14 DEF UpdatePostCache
<1>15. ASSUME NEW w \in Workers, TriggerAnalytics(w) PROVE InsertChange
  BY <1>15 DEF TriggerAnalytics
<1>16. ASSUME NEW w \in Workers, ReceiveAnalytics(w) PROVE InsertChange
  BY <1>16 DEF ReceiveAnalytics
<1>17. ASSUME NEW w \in Workers, GetStalePosts(w) PROVE InsertChange
  BY <1>17 DEF GetStalePosts
<1>18. ASSUME NEW w \in Workers, SyncRow(w) PROVE InsertChange
  BY <1>18 DEF SyncRow
<1>19. ASSUME NEW w \in Workers, TriggerNotify(w) PROVE InsertChange
  BY <1>19 DEF TriggerNotify
<1>20. ASSUME NEW w \in Workers, ReceiveNotify(w) PROVE InsertChange
  BY <1>20 DEF ReceiveNotify
<1>21. ASSUME NEW w \in Workers, SkipReport(w) PROVE InsertChange
  BY <1>21 DEF SkipReport
<1>22. ASSUME NEW w \in Workers, SendReport(w) PROVE InsertChange
  BY <1>22 DEF SendReport
<1>23. ASSUME NEW w \in Workers, Acknowledge(w) PROVE InsertChange
  BY <1>23 DEF Acknowledge
<1>24. ASSUME NEW w \in Workers, UpsertFails(w) PROVE InsertChange
  BY <1>24 DEF UpsertFails
<1>25. ASSUME NEW w \in Workers, InsertUnreported(w) PROVE InsertChange
  BY <1>25 DEF InsertUnreported
<1>26. ASSUME NEW w \in Workers, PostFails(w) PROVE InsertChange
  BY <1>26 DEF PostFails
<1>27. ASSUME NEW w \in Workers, SyncFails(w) PROVE InsertChange
  BY <1>27 DEF SyncFails
<1>28. ASSUME NEW w \in Workers, SoftTimeLimit(w) PROVE InsertChange
  BY <1>28 DEF SoftTimeLimit
<1>29. ASSUME NEW w \in Workers, TaskFails(w) PROVE InsertChange
  BY <1>29 DEF TaskFails
<1>30. ASSUME NEW w \in Workers, WorkerLost(w) PROVE InsertChange
  BY <1>30 DEF WorkerLost
<1>31. ASSUME NEW w \in Workers, ReportFails(w) PROVE InsertChange
  BY <1>31 DEF ReportFails
<1>32. ASSUME NEW w \in Workers, DeliverAgain(w) PROVE InsertChange
  BY <1>32 DEF DeliverAgain
<1>. QED
  BY <1>1, <1>2, <1>3, <1>4, <1>5, <1>6, <1>7, <1>8, <1>9, <1>10, <1>11, <1>12,
     <1>13, <1>14, <1>15, <1>16, <1>17, <1>18, <1>19, <1>20, <1>21, <1>22, <1>23, <1>24,
     <1>25, <1>26, <1>27, <1>28, <1>29, <1>30, <1>31, <1>32 DEF Next, Work, Fails, Scrape,
     Process, Analytics, Notify

\* A post becomes pending at a worker only by being found without analysis.
LEMMA PendingStep ==
  ASSUME Base, Next PROVE PendingChange
<1>. USE NewestSubset DEF Base, TypeOK, Locals, LocalTypes, PendingChange, Pending,
       tables, broker, budget, locals, current, Go, Free, NextPost, NextRow, Insert,
       Fault, Requeue, Steps, ScrapeSteps, ProcessSteps, AnalyticsSteps, NotifySteps, Done
<1>1. CASE TriggerScrape
  BY <1>1 DEF TriggerScrape
<1>2. CASE ProcessEverything
  BY <1>2 DEF ProcessEverything
<1>3. CASE BeatAnalytics
  BY <1>3 DEF BeatAnalytics
<1>4. ASSUME NEW w \in Workers, ReceiveScrape(w) PROVE PendingChange
  BY <1>4 DEF ReceiveScrape
<1>5. ASSUME NEW w \in Workers, GetActiveSources(w) PROVE PendingChange
  BY <1>5 DEF GetActiveSources
<1>6. ASSUME NEW w \in Workers, ScrapeSource(w) PROVE PendingChange
  BY <1>6 DEF ScrapeSource
<1>7. ASSUME NEW w \in Workers, SelectPost(w) PROVE PendingChange
  BY <1>7 DEF SelectPost
<1>8. ASSUME NEW w \in Workers, InsertPost(w) PROVE PendingChange
  BY <1>8 DEF InsertPost
<1>9. ASSUME NEW w \in Workers, ChainProcessing(w) PROVE PendingChange
  BY <1>9 DEF ChainProcessing
<1>10. ASSUME NEW w \in Workers, ReceiveProcess(w) PROVE PendingChange
  BY <1>10 DEF ReceiveProcess
<1>11. ASSUME NEW w \in Workers, GetUnprocessedPosts(w) PROVE PendingChange
  BY <1>11 DEF GetUnprocessedPosts
<1>12. ASSUME NEW w \in Workers, ProcessRecord(w) PROVE PendingChange
  BY <1>12 DEF ProcessRecord
<1>13. ASSUME NEW w \in Workers, SaveAnalysisResult(w) PROVE PendingChange
  BY <1>13 DEF SaveAnalysisResult
<1>14. ASSUME NEW w \in Workers, UpdatePostCache(w) PROVE PendingChange
  BY <1>14 DEF UpdatePostCache
<1>15. ASSUME NEW w \in Workers, TriggerAnalytics(w) PROVE PendingChange
  BY <1>15 DEF TriggerAnalytics
<1>16. ASSUME NEW w \in Workers, ReceiveAnalytics(w) PROVE PendingChange
  BY <1>16 DEF ReceiveAnalytics
<1>17. ASSUME NEW w \in Workers, GetStalePosts(w) PROVE PendingChange
  BY <1>17 DEF GetStalePosts
<1>18. ASSUME NEW w \in Workers, SyncRow(w) PROVE PendingChange
  BY <1>18 DEF SyncRow
<1>19. ASSUME NEW w \in Workers, TriggerNotify(w) PROVE PendingChange
  BY <1>19 DEF TriggerNotify
<1>20. ASSUME NEW w \in Workers, ReceiveNotify(w) PROVE PendingChange
  BY <1>20 DEF ReceiveNotify
<1>21. ASSUME NEW w \in Workers, SkipReport(w) PROVE PendingChange
  BY <1>21 DEF SkipReport
<1>22. ASSUME NEW w \in Workers, SendReport(w) PROVE PendingChange
  BY <1>22 DEF SendReport
<1>23. ASSUME NEW w \in Workers, Acknowledge(w) PROVE PendingChange
  BY <1>23 DEF Acknowledge
<1>24. ASSUME NEW w \in Workers, UpsertFails(w) PROVE PendingChange
  BY <1>24 DEF UpsertFails
<1>25. ASSUME NEW w \in Workers, InsertUnreported(w) PROVE PendingChange
  BY <1>25 DEF InsertUnreported
<1>26. ASSUME NEW w \in Workers, PostFails(w) PROVE PendingChange
  BY <1>26 DEF PostFails
<1>27. ASSUME NEW w \in Workers, SyncFails(w) PROVE PendingChange
  BY <1>27 DEF SyncFails
<1>28. ASSUME NEW w \in Workers, SoftTimeLimit(w) PROVE PendingChange
  BY <1>28 DEF SoftTimeLimit
<1>29. ASSUME NEW w \in Workers, TaskFails(w) PROVE PendingChange
  BY <1>29 DEF TaskFails
<1>30. ASSUME NEW w \in Workers, WorkerLost(w) PROVE PendingChange
  BY <1>30 DEF WorkerLost
<1>31. ASSUME NEW w \in Workers, ReportFails(w) PROVE PendingChange
  BY <1>31 DEF ReportFails
<1>32. ASSUME NEW w \in Workers, DeliverAgain(w) PROVE PendingChange
  BY <1>32 DEF DeliverAgain
<1>. QED
  BY <1>1, <1>2, <1>3, <1>4, <1>5, <1>6, <1>7, <1>8, <1>9, <1>10, <1>11, <1>12,
     <1>13, <1>14, <1>15, <1>16, <1>17, <1>18, <1>19, <1>20, <1>21, <1>22, <1>23, <1>24,
     <1>25, <1>26, <1>27, <1>28, <1>29, <1>30, <1>31, <1>32 DEF Next, Work, Fails, Scrape,
     Process, Analytics, Notify

\* Ids only ever pass from one owner to another.
LEMMA OwnersStep ==
  ASSUME Base, Owners, Next, manual' = 0, repeats' = 0 PROVE Owners'
<1>. USE NewestSubset DEF Base, TypeOK, IdsAreStored, Locals, LocalTypes, CounterTypes,
       Owners, Pending, Covers, tables, broker, budget, locals, current, Go, Free,
       NextPost, NextRow, Insert, Fault, Requeue, Steps, ScrapeSteps, ProcessSteps,
       AnalyticsSteps, NotifySteps, Done
<1>1. CASE TriggerScrape
  BY <1>1 DEF TriggerScrape
<1>2. CASE ProcessEverything
  BY <1>2 DEF ProcessEverything
<1>3. CASE BeatAnalytics
  BY <1>3 DEF BeatAnalytics
<1>4. ASSUME NEW w \in Workers, ReceiveScrape(w) PROVE Owners'
  BY <1>4 DEF ReceiveScrape
<1>5. ASSUME NEW w \in Workers, GetActiveSources(w) PROVE Owners'
  BY <1>5 DEF GetActiveSources
<1>6. ASSUME NEW w \in Workers, ScrapeSource(w) PROVE Owners'
  BY <1>6 DEF ScrapeSource
<1>7. ASSUME NEW w \in Workers, SelectPost(w) PROVE Owners'
  BY <1>7 DEF SelectPost
<1>8. ASSUME NEW w \in Workers, InsertPost(w) PROVE Owners'
  <2>1. Len(posts) + 1 \notin PostIds /\ PostIds' = PostIds \cup {Len(posts) + 1}
    BY <1>8 DEF InsertPost, TableTypes, PostIds
  <2>2. ids'[w] = ids[w] \cup {Len(posts) + 1} /\ \A x \in Workers : x # w => ids'[x] = ids[x]
    BY <1>8 DEF InsertPost
  <2>3. \A x \in Workers : at'[x] \in ProcessSteps => x # w /\ at[x] = at'[x]
    BY <1>8 DEF InsertPost
  <2>. QED BY <1>8, <2>1, <2>2, <2>3 DEF InsertPost
<1>9. ASSUME NEW w \in Workers, ChainProcessing(w) PROVE Owners'
  BY <1>9 DEF ChainProcessing
<1>10. ASSUME NEW w \in Workers, ReceiveProcess(w) PROVE Owners'
  BY <1>10 DEF ReceiveProcess
<1>11. ASSUME NEW w \in Workers, GetUnprocessedPosts(w) PROVE Owners'
  BY <1>11 DEF GetUnprocessedPosts
<1>12. ASSUME NEW w \in Workers, ProcessRecord(w) PROVE Owners'
  BY <1>12 DEF ProcessRecord
<1>13. ASSUME NEW w \in Workers, SaveAnalysisResult(w) PROVE Owners'
  BY <1>13 DEF SaveAnalysisResult
<1>14. ASSUME NEW w \in Workers, UpdatePostCache(w) PROVE Owners'
  BY <1>14 DEF UpdatePostCache
<1>15. ASSUME NEW w \in Workers, TriggerAnalytics(w) PROVE Owners'
  BY <1>15 DEF TriggerAnalytics
<1>16. ASSUME NEW w \in Workers, ReceiveAnalytics(w) PROVE Owners'
  BY <1>16 DEF ReceiveAnalytics
<1>17. ASSUME NEW w \in Workers, GetStalePosts(w) PROVE Owners'
  BY <1>17 DEF GetStalePosts
<1>18. ASSUME NEW w \in Workers, SyncRow(w) PROVE Owners'
  BY <1>18 DEF SyncRow
<1>19. ASSUME NEW w \in Workers, TriggerNotify(w) PROVE Owners'
  BY <1>19 DEF TriggerNotify
<1>20. ASSUME NEW w \in Workers, ReceiveNotify(w) PROVE Owners'
  BY <1>20 DEF ReceiveNotify
<1>21. ASSUME NEW w \in Workers, SkipReport(w) PROVE Owners'
  BY <1>21 DEF SkipReport
<1>22. ASSUME NEW w \in Workers, SendReport(w) PROVE Owners'
  BY <1>22 DEF SendReport
<1>23. ASSUME NEW w \in Workers, Acknowledge(w) PROVE Owners'
  BY <1>23 DEF Acknowledge
<1>24. ASSUME NEW w \in Workers, UpsertFails(w) PROVE Owners'
  BY <1>24 DEF UpsertFails
<1>25. ASSUME NEW w \in Workers, InsertUnreported(w) PROVE Owners'
  BY <1>25 DEF InsertUnreported
<1>26. ASSUME NEW w \in Workers, PostFails(w) PROVE Owners'
  BY <1>26 DEF PostFails
<1>27. ASSUME NEW w \in Workers, SyncFails(w) PROVE Owners'
  BY <1>27 DEF SyncFails
<1>28. ASSUME NEW w \in Workers, SoftTimeLimit(w) PROVE Owners'
  BY <1>28 DEF SoftTimeLimit
<1>29. ASSUME NEW w \in Workers, TaskFails(w) PROVE Owners'
  BY <1>29 DEF TaskFails
<1>30. ASSUME NEW w \in Workers, WorkerLost(w) PROVE Owners'
  BY <1>30 DEF WorkerLost
<1>31. ASSUME NEW w \in Workers, ReportFails(w) PROVE Owners'
  BY <1>31 DEF ReportFails
<1>32. ASSUME NEW w \in Workers, DeliverAgain(w) PROVE Owners'
  BY <1>32 DEF DeliverAgain
<1>. QED
  BY <1>1, <1>2, <1>3, <1>4, <1>5, <1>6, <1>7, <1>8, <1>9, <1>10, <1>11, <1>12,
     <1>13, <1>14, <1>15, <1>16, <1>17, <1>18, <1>19, <1>20, <1>21, <1>22, <1>23, <1>24,
     <1>25, <1>26, <1>27, <1>28, <1>29, <1>30, <1>31, <1>32 DEF Next, Work, Fails, Scrape,
     Process, Analytics, Notify

\* Messages without post_ids and repeated deliveries are never undone.
LEMMA ManualStep ==
  ASSUME Base, Next PROVE manual' = 0 /\ repeats' = 0 => manual = 0 /\ repeats = 0
<1>. USE DEF Base, TypeOK, CounterTypes, budget
<1>1. CASE TriggerScrape \/ ProcessEverything \/ BeatAnalytics
  BY <1>1 DEF TriggerScrape, ProcessEverything, BeatAnalytics
<1>2. ASSUME NEW w \in Workers, Work(w) PROVE UNCHANGED <<manual, repeats>>
  BY <1>2 DEF Work, Scrape, Process, Analytics, Notify, ReceiveScrape, GetActiveSources, ScrapeSource,
              SelectPost, InsertPost, ChainProcessing, ReceiveProcess, GetUnprocessedPosts, ProcessRecord,
              SaveAnalysisResult, UpdatePostCache, TriggerAnalytics, ReceiveAnalytics, GetStalePosts,
              SyncRow, TriggerNotify, ReceiveNotify, SkipReport, SendReport, Acknowledge
<1>3. ASSUME NEW w \in Workers, Fails(w) PROVE manual' = manual /\ (repeats' = repeats \/ repeats' = repeats + 1)
  BY <1>3 DEF Fails, UpsertFails, InsertUnreported, PostFails, SyncFails, ReportFails, SoftTimeLimit,
              TaskFails, WorkerLost, DeliverAgain
<1>. QED
  BY <1>1, <1>2, <1>3 DEF Next

\* What the task of a worker holds belongs to its message: a task that ends has
\* nothing left, and what a message covers its task can take up again.
Chain == \A w \in Workers :
  /\ at[w] \in {"idle", "sources", "scraped"} => ids[w] = {}
  /\ at[w] \in {"idle", "unprocessed", "processed"} => todo[w] = {}
  /\ at[w] \notin {"save", "cache"} => post[w] = 0
  /\ at[w] \in {"save", "cache"} => Covers(ids[w], post[w])
  /\ at[w] \in ProcessSteps => \A p \in todo[w] : Covers(ids[w], p)

\* Every step keeps the tasks within their messages.
LEMMA ChainStep ==
  ASSUME Base, Chain, Next PROVE Chain'
<1>. USE DEF Base, TypeOK, LocalTypes, Chain, Covers, ScrapeSteps, ProcessSteps, AnalyticsSteps, NotifySteps,
             Done, locals, current, Go
<1>1. CASE TriggerScrape \/ ProcessEverything \/ BeatAnalytics
  BY <1>1 DEF TriggerScrape, ProcessEverything, BeatAnalytics
<1>2. ASSUME NEW w \in Workers, ReceiveScrape(w) \/ GetActiveSources(w) \/ ScrapeSource(w)
      PROVE  Chain'
  BY <1>2 DEF ReceiveScrape, GetActiveSources, ScrapeSource
<1>3. ASSUME NEW w \in Workers, SelectPost(w) \/ InsertPost(w) \/ InsertUnreported(w)
      PROVE  Chain'
  BY <1>3 DEF SelectPost, InsertPost, InsertUnreported, Insert
<1>4. ASSUME NEW w \in Workers, ChainProcessing(w) PROVE Chain'
  BY <1>4 DEF ChainProcessing
<1>5. ASSUME NEW w \in Workers, ReceiveProcess(w) PROVE Chain'
  BY <1>5 DEF ReceiveProcess
<1>6. ASSUME NEW w \in Workers, GetUnprocessedPosts(w) PROVE Chain'
  BY <1>6, NewestSubset DEF GetUnprocessedPosts
<1>7. ASSUME NEW w \in Workers, ProcessRecord(w) PROVE Chain'
  BY <1>7 DEF ProcessRecord
<1>8. ASSUME NEW w \in Workers, SaveAnalysisResult(w) \/ UpdatePostCache(w) PROVE Chain'
  BY <1>8 DEF SaveAnalysisResult, UpdatePostCache, NextPost
<1>9. ASSUME NEW w \in Workers, TriggerAnalytics(w) PROVE Chain'
  BY <1>9 DEF TriggerAnalytics
<1>10. ASSUME NEW w \in Workers, Analytics(w) \/ SyncFails(w) PROVE Chain'
  BY <1>10 DEF Analytics, ReceiveAnalytics, GetStalePosts, SyncRow, TriggerNotify, SyncFails, NextRow
<1>11. ASSUME NEW w \in Workers, Notify(w) \/ ReportFails(w) PROVE Chain'
  BY <1>11 DEF Notify, ReceiveNotify, SkipReport, SendReport, ReportFails
<1>12. ASSUME NEW w \in Workers, Free(w) PROVE Chain'
  BY <1>12 DEF Free
<1>13. ASSUME NEW w \in Workers, UpsertFails(w) PROVE Chain'
  BY <1>13 DEF UpsertFails
<1>14. ASSUME NEW w \in Workers, PostFails(w) \/ SoftTimeLimit(w) PROVE Chain'
  BY <1>14 DEF PostFails, NextPost, SoftTimeLimit
<1>15. ASSUME NEW w \in Workers, DeliverAgain(w) PROVE Chain'
  BY <1>15 DEF DeliverAgain
<1>. QED
  BY <1>1, <1>2, <1>3, <1>4, <1>5, <1>6, <1>7, <1>8, <1>9, <1>10, <1>11, <1>12, <1>13, <1>14, <1>15
  DEF Next, Work, Fails, Scrape, Process, Acknowledge, TaskFails, WorkerLost

\* A query that is not cut finds every post its message covers.
LEMMA BatchIsAll ==
  ASSUME Base, NEW w \in Workers, GetUnprocessedPosts(w), ~CutsBatch(w),
         NEW p \in PostIds, ~Analysed(p), Covers(ids[w], p)
  PROVE  p \in todo'[w] /\ at'[w] = "classify"
<1> DEFINE found == {q \in PostIds : ~Analysed(q) /\ Covers(ids[w], q)}
<1>1. PostIds = 1..Len(posts) /\ Len(posts) \in Nat
  BY DEF Base, TypeOK, TableTypes, PostIds
<1>2. IsFiniteSet(found) /\ found \subseteq Nat
  <2>1. IsFiniteSet(PostIds) /\ PostIds \subseteq Nat
    BY <1>1, FS_Interval
  <2> QED
    BY <2>1, FS_Subset
<1>3. Cardinality(found) <= BatchSize
  BY <1>2, FS_CardinalityType, PipelineAssumption DEF CutsBatch
<1>4. Newest(found, BatchSize) = found
  BY <1>2, <1>3, NewestIsAll, PipelineAssumption
<1> QED
  BY <1>4 DEF GetUnprocessedPosts, Go, Base, TypeOK, LocalTypes

\* A message stays in its queue until a worker takes it up.
LEMMA MessageStep ==
  ASSUME Base, Next, NEW m \in processing
  PROVE  m \in processing' \/ \E w \in Workers : at'[w] = "unprocessed" /\ ids'[w] = m
<1>. USE DEF broker
<1>1. CASE TriggerScrape \/ ProcessEverything \/ BeatAnalytics
  BY <1>1 DEF TriggerScrape, ProcessEverything, BeatAnalytics
<1>2. ASSUME NEW w \in Workers, ReceiveProcess(w)
      PROVE  m \in processing' \/ (at'[w] = "unprocessed" /\ ids'[w] = m)
  BY <1>2 DEF ReceiveProcess, Go, Base, TypeOK, LocalTypes
<1>3. ASSUME NEW w \in Workers, Work(w), ~ReceiveProcess(w) PROVE m \in processing'
  BY <1>3 DEF Work, Scrape, Process, Analytics, Notify, ReceiveScrape, GetActiveSources, ScrapeSource,
              SelectPost, InsertPost, ChainProcessing, GetUnprocessedPosts, ProcessRecord,
              SaveAnalysisResult, UpdatePostCache, TriggerAnalytics, ReceiveAnalytics, GetStalePosts,
              SyncRow, TriggerNotify, ReceiveNotify, SkipReport, SendReport, Acknowledge
<1>4. ASSUME NEW w \in Workers, Fails(w) PROVE m \in processing'
  BY <1>4 DEF Fails, UpsertFails, InsertUnreported, PostFails, SyncFails, ReportFails, SoftTimeLimit,
              TaskFails, WorkerLost, DeliverAgain, Requeue
<1>. QED
  BY <1>1, <1>2, <1>3, <1>4 DEF Next

\* A worker lets go of a post only to a message or after its analysis, unless
\* the step is one that drops posts.
LEMMA HolderStep ==
  ASSUME Base, Chain, Next, \A w \in Workers : ~Drops(w),
         NEW p \in PostIds, ~Analysed(p), NEW x \in Workers, Holds(x, p)
  PROVE  Holds(x, p)' \/ \E m \in processing' : Covers(m, p)
<1>. USE DEF Base, TypeOK, LocalTypes, Chain, Covers, Holds, ScrapeSteps, ProcessSteps,
             AnalyticsSteps, NotifySteps, Done, locals, current, Go
<1>0. p # 0
  BY DEF TableTypes, PostIds
<1>1. CASE TriggerScrape \/ ProcessEverything \/ BeatAnalytics
  BY <1>1 DEF TriggerScrape, ProcessEverything, BeatAnalytics
<1>2. ASSUME NEW w \in Workers, ReceiveScrape(w) \/ GetActiveSources(w) \/ ScrapeSource(w)
      PROVE  Holds(x, p)'
  BY <1>2, <1>0 DEF ReceiveScrape, GetActiveSources, ScrapeSource
<1>3. ASSUME NEW w \in Workers, SelectPost(w) \/ InsertPost(w)
      PROVE  Holds(x, p)'
  BY <1>3 DEF SelectPost, InsertPost, Insert
<1>4. ASSUME NEW w \in Workers, ChainProcessing(w)
      PROVE  Holds(x, p)' \/ \E m \in processing' : Covers(m, p)
  BY <1>4 DEF ChainProcessing
<1>5. ASSUME NEW w \in Workers, ReceiveProcess(w) PROVE Holds(x, p)'
  BY <1>5, <1>0 DEF ReceiveProcess
<1>6. ASSUME NEW w \in Workers, GetUnprocessedPosts(w) PROVE Holds(x, p)'
  BY <1>6, <1>0, BatchIsAll DEF GetUnprocessedPosts, Drops
<1>7. ASSUME NEW w \in Workers, ProcessRecord(w) PROVE Holds(x, p)'
  BY <1>7, <1>0 DEF ProcessRecord
<1>8. ASSUME NEW w \in Workers, SaveAnalysisResult(w) PROVE Holds(x, p)'
  BY <1>8 DEF SaveAnalysisResult
<1>9. ASSUME NEW w \in Workers, UpdatePostCache(w) PROVE Holds(x, p)'
  <2>1. p # post[w]
    BY <1>9 DEF UpdatePostCache, Locals, Analysed
  <2>. QED BY <1>9, <2>1 DEF UpdatePostCache, NextPost
<1>10. ASSUME NEW w \in Workers, TriggerAnalytics(w) PROVE Holds(x, p)'
  BY <1>10, <1>0 DEF TriggerAnalytics
<1>11. ASSUME NEW w \in Workers, ReceiveAnalytics(w) \/ GetStalePosts(w) \/ TriggerNotify(w)
       PROVE  Holds(x, p)'
  BY <1>11, <1>0 DEF ReceiveAnalytics, GetStalePosts, TriggerNotify
<1>12. ASSUME NEW w \in Workers, SyncRow(w) \/ SyncFails(w) PROVE Holds(x, p)'
  <2>1. /\ UNCHANGED <<at, ids, post>> /\ at[w] = "sync"
        /\ \E a : todo' = [todo EXCEPT ![w] = @ \ {a}]
    BY <1>12 DEF SyncRow, SyncFails, NextRow
  <2>. QED BY <2>1
<1>13. ASSUME NEW w \in Workers, Notify(w) \/ ReportFails(w) PROVE Holds(x, p)'
  BY <1>13, <1>0 DEF Notify, ReceiveNotify, SkipReport, SendReport, ReportFails
<1>14. ASSUME NEW w \in Workers, Acknowledge(w) PROVE Holds(x, p)'
  BY <1>14, <1>0 DEF Acknowledge, Free
<1>15. ASSUME NEW w \in Workers, UpsertFails(w) PROVE Holds(x, p)'
  BY <1>15 DEF UpsertFails
<1>16. ASSUME NEW w \in Workers, InsertUnreported(w) \/ PostFails(w) PROVE FALSE
  BY <1>16 DEF InsertUnreported, PostFails, Drops
<1>17. ASSUME NEW w \in Workers, SoftTimeLimit(w) PROVE Holds(x, p)'
  <2>1. at[w] \notin ProcessSteps
    BY <1>17 DEF Drops
  <2>2. UNCHANGED <<at, ids>> /\ at[w] = "scrape"
    BY <1>17, <2>1 DEF SoftTimeLimit
  <2>. QED BY <1>17, <2>2 DEF SoftTimeLimit
<1>18. ASSUME NEW w \in Workers, TaskFails(w) PROVE Holds(x, p)'
  <2>1. at[w] \notin ScrapeSteps \cup ProcessSteps
    BY <1>18 DEF Drops
  <2>. QED BY <1>18, <2>1 DEF TaskFails, Free
<1>19. ASSUME NEW w \in Workers, WorkerLost(w)
       PROVE  Holds(x, p)' \/ \E m \in processing' : Covers(m, p)
  <2>1. CASE x # w
    BY <1>19, <2>1 DEF WorkerLost, Free
  <2>2. CASE x = w
    <3>1. at[w] \in ProcessSteps /\ Covers(ids[w], p)
      BY <1>19, <1>0, <2>2 DEF Drops
    <3>. QED BY <1>19, <3>1 DEF WorkerLost, Requeue
  <2>. QED BY <2>1, <2>2
<1>20. ASSUME NEW w \in Workers, DeliverAgain(w) PROVE Holds(x, p)'
  BY <1>20 DEF DeliverAgain
<1>. QED
  BY <1>1, <1>2, <1>3, <1>4, <1>5, <1>6, <1>7, <1>8, <1>9, <1>10, <1>11, <1>12, <1>13, <1>14, <1>15,
     <1>16, <1>17, <1>18, <1>19, <1>20
  DEF Next, Work, Fails, Scrape, Process, Analytics

\* A new row has its id in the hands of the scrape that inserted it.
LEMMA NewPostStep ==
  ASSUME Base, Next, \A w \in Workers : ~Drops(w), NEW p \in PostIds', p \notin PostIds
  PROVE  \E w \in Workers : Holds(w, p)'
<1>. USE DEF PostIds, tables
<1>1. CASE TriggerScrape \/ ProcessEverything \/ BeatAnalytics
  BY <1>1 DEF TriggerScrape, ProcessEverything, BeatAnalytics
<1>2. ASSUME NEW w \in Workers, InsertPost(w) PROVE Holds(w, p)'
  <2>1. p = Len(posts) + 1
    BY <1>2 DEF InsertPost, Insert, Base, TypeOK, TableTypes
  <2>2. p \in ids'[w] /\ at'[w] = "scrape"
    BY <1>2, <2>1 DEF InsertPost, Insert, Go, Base, TypeOK, LocalTypes
  <2>. QED BY <2>2 DEF Holds, ScrapeSteps
<1>3. ASSUME NEW w \in Workers, Work(w), ~InsertPost(w) PROVE PostIds' = PostIds
  BY <1>3 DEF Work, Scrape, Process, Analytics, Notify, ReceiveScrape, GetActiveSources, ScrapeSource,
              SelectPost, ChainProcessing, ReceiveProcess, GetUnprocessedPosts, ProcessRecord,
              SaveAnalysisResult, UpdatePostCache, TriggerAnalytics, ReceiveAnalytics, GetStalePosts,
              SyncRow, TriggerNotify, ReceiveNotify, SkipReport, SendReport, Acknowledge
<1>4. ASSUME NEW w \in Workers, Fails(w), ~InsertUnreported(w) PROVE PostIds' = PostIds
  BY <1>4 DEF Fails, UpsertFails, PostFails, SyncFails, ReportFails, SoftTimeLimit,
              TaskFails, WorkerLost, DeliverAgain
<1>5. ASSUME NEW w \in Workers, InsertUnreported(w) PROVE FALSE
  BY <1>5 DEF InsertUnreported, Drops, ScrapeSteps
<1>. QED
  BY <1>1, <1>2, <1>3, <1>4, <1>5 DEF Next

=============================================================================
