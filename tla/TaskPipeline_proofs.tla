------------------------- MODULE TaskPipeline_proofs -------------------------
(***************************************************************************)
(* The safety properties of the task chain for every number of workers,    *)
(* URLs, sources, triggers and faults, and the refinement of PostLifecycle *)
(* by the tables.  Base is the inductive invariant all of them rest on;    *)
(* each strengthens its property by what the workers hold in their locals. *)
(***************************************************************************)
EXTENDS TaskPipeline_steps

\* The initial state satisfies the inductive invariant.
LEMMA BaseInit == Init => Base
BY PipelineAssumption
DEF Init, Base, TypeOK, TableTypes, QueueTypes, LocalTypes, CounterTypes, IdsAreStored, Locals, PostIds, Steps

\* Every step preserves it.
LEMMA BaseStep == Base /\ [Next]_vars => Base'
<1>1. ASSUME Base, Next PROVE Base'
  BY <1>1, TablesGrow, QueueTypesStep, LocalTypesStep, CounterTypesStep, IdsStep, LocalsStep DEF Base, TypeOK
<1>2. ASSUME Base, UNCHANGED vars PROVE Base'
  BY <1>2 DEF vars, Base, TypeOK, TableTypes, QueueTypes, LocalTypes, CounterTypes, IdsAreStored, Locals, PostIds
<1>. QED BY <1>1, <1>2

\* It holds in every reachable state.
THEOREM BaseInvariant == Spec => []Base
BY BaseInit, BaseStep, PTL DEF Spec

\* Tables, queues and locals keep their types.
THEOREM TypeCorrect == Spec => []TypeOK
BY BaseInvariant, PTL DEF Base

\* No task or message ever names a post or an analysis that is not in the
\* database, whatever is interleaved, lost, redelivered or fails.
THEOREM IdsAlwaysStored == Spec => []IdsAreStored
BY BaseInvariant, PTL DEF Base

\* What the insert of a post does to table posts.
LEMMA StoredRow ==
  ASSUME Base, NEW w \in Workers, Stored(w)
  PROVE  /\ Len(posts) + 1 \notin PostIds
         /\ PostIds' = PostIds \cup {Len(posts) + 1}
         /\ \A p \in PostIds : posts'[p] = posts[p]
         /\ posts'[Len(posts) + 1] = [url |-> url[w], cached |-> None, by |-> w]
BY DEF Base, TypeOK, TableTypes, Stored, PostIds

\* What the insert of an analysis does to table analysis_results.
LEMMA SavedRow ==
  ASSUME Base, NEW w \in Workers, Saved(w)
  PROVE  /\ Len(analyses) + 1 \notin DOMAIN analyses
         /\ DOMAIN analyses' = DOMAIN analyses \cup {Len(analyses) + 1}
         /\ \A a \in DOMAIN analyses : analyses'[a] = analyses[a]
         /\ analyses'[Len(analyses) + 1] = [post |-> post[w], verdict |-> verdict[w], by |-> w]
BY DEF Base, TypeOK, TableTypes, Saved

\* What the update of a cached label does to table posts.
LEMMA CachedRow ==
  ASSUME Base, NEW a \in DOMAIN analyses, Cached(a)
  PROVE  /\ analyses[a].post \in PostIds /\ analyses[a].verdict \in Verdicts
         /\ PostIds' = PostIds
         /\ \A q \in PostIds : posts'[q].url = posts[q].url /\ posts'[q].by = posts[q].by
         /\ \A q \in PostIds : posts'[q].cached =
              IF q = analyses[a].post THEN analyses[a].verdict ELSE posts[q].cached
<1>1. analyses[a] \in Analysis /\ analyses[a].post \in PostIds
  BY DEF Base, TypeOK, TableTypes, IdsAreStored
<1>2. analyses[a].verdict \in Verdicts
  BY <1>1 DEF Analysis
<1>. QED BY <1>1, <1>2, CacheUpdate DEF Cached, Base, TypeOK, TableTypes

\* No worker is about to insert a URL that it has inserted before.
Authors ==
  /\ CopiesFromDistinctWorkers
  /\ \A w \in Workers : at[w] = "insert" => \A p \in PostIds : posts[p].url = url[w] => posts[p].by # w

\* Every step preserves this.
LEMMA AuthorsStep ==
  ASSUME Base, Authors, Next PROVE Authors'
<1>1. CASE UNCHANGED tables
  BY <1>1, InsertStep DEF Authors, CopiesFromDistinctWorkers, InsertChange, tables, PostIds
<1>2. ASSUME NEW w \in Workers, Stored(w) PROVE Authors'
  <2>1. ~UNCHANGED tables
    BY <1>2, StoredRow DEF tables, PostIds
  <2>2. at'[w] # "insert"
    BY <1>2 DEF Stored
  <2>3. \A x \in Workers : at'[x] = "insert" => at[x] = "insert" /\ url'[x] = url[x] /\ x # w
    BY <2>1, <2>2, InsertStep DEF InsertChange
  <2>4. /\ PostIds' = PostIds \cup {Len(posts) + 1}
        /\ \A p \in PostIds : posts'[p] = posts[p]
        /\ posts'[Len(posts) + 1] = [url |-> url[w], cached |-> None, by |-> w]
    BY <1>2, StoredRow
  <2>5. at[w] = "insert"
    BY <1>2 DEF Stored
  <2>6. CopiesFromDistinctWorkers'
    BY <2>4, <2>5 DEF Authors, CopiesFromDistinctWorkers
  <2>7. ASSUME NEW x \in Workers, at'[x] = "insert", NEW p \in PostIds', posts'[p].url = url'[x]
        PROVE  posts'[p].by # x
    BY <2>3, <2>4, <2>7 DEF Authors
  <2>. QED BY <2>6, <2>7 DEF Authors
<1>3. ASSUME NEW w \in Workers, Saved(w) PROVE Authors'
  <2>1. ~UNCHANGED tables
    BY <1>3, SavedRow DEF tables
  <2>. QED BY <1>3, <2>1, InsertStep DEF Saved, Authors, CopiesFromDistinctWorkers, InsertChange, PostIds
<1>4. ASSUME NEW a \in DOMAIN analyses, Cached(a) PROVE Authors'
  BY <1>4, CachedRow, InsertStep DEF Authors, CopiesFromDistinctWorkers, InsertChange, tables
<1>. QED
  BY <1>1, <1>2, <1>3, <1>4, TablesStep DEF TablesChange

\* The race of upsert_post stores a URL at most once per worker process.
THEOREM UrlCopiesBounded == Spec => []CopiesFromDistinctWorkers
<1>1. Init => Authors
  BY DEF Init, Authors, CopiesFromDistinctWorkers, PostIds
<1>2. Base /\ Authors /\ [Next]_vars => Authors'
  <2>1. ASSUME Authors, UNCHANGED vars PROVE Authors'
    BY <2>1 DEF vars, Authors, CopiesFromDistinctWorkers, PostIds
  <2>. QED BY <2>1, AuthorsStep
<1>3. Authors => CopiesFromDistinctWorkers
  BY DEF Authors
<1>. QED
  BY <1>1, <1>2, <1>3, BaseInvariant, PTL DEF Spec

\* With finitely many workers the rows of a URL are no more than they.
LEMMA CopiesCount ==
  ASSUME Base, CopiesFromDistinctWorkers, IsFiniteSet(Workers), NEW u
  PROVE  Cardinality({p \in PostIds : posts[p].url = u}) <= Cardinality(Workers)
<1>. DEFINE rows == {p \in PostIds : posts[p].url = u}
            author == [p \in rows |-> posts[p].by]
<1>1. \A p \in PostIds : posts[p].by \in Workers
  <2>1. \A p \in PostIds : posts[p] \in Post
    BY DEF Base, TypeOK, TableTypes, PostIds
  <2>. QED BY <2>1 DEF Post
<1>2. author \in Injection(rows, Workers)
  BY <1>1 DEF CopiesFromDistinctWorkers, Injection, IsInjective
<1>. QED BY <1>2, FS_Injection

\* A URL is never stored more often than there are worker processes.
THEOREM CopiesCounted ==
  ASSUME IsFiniteSet(Workers)
  PROVE  Spec => [](\A u \in Urls :
           Cardinality({p \in PostIds : posts[p].url = u}) <= Cardinality(Workers))
<1>1. Base /\ CopiesFromDistinctWorkers => \A u \in Urls :
        Cardinality({p \in PostIds : posts[p].url = u}) <= Cardinality(Workers)
  BY CopiesCount
<1>. QED
  BY <1>1, BaseInvariant, UrlCopiesBounded, PTL

\* A single worker process stores no URL twice: what upsert_post promises is
\* broken by a race of two and by nothing else.
THEOREM OneWorkerStoresOnce ==
  ASSUME \A w, x \in Workers : w = x
  PROVE  Spec => []UniqueUrls
<1>1. Base /\ CopiesFromDistinctWorkers => UniqueUrls
  <2>. SUFFICES ASSUME Base, CopiesFromDistinctWorkers PROVE UniqueUrls
    OBVIOUS
  <2>1. \A p \in PostIds : posts[p] \in Post
    BY DEF Base, TypeOK, TableTypes, PostIds
  <2>2. \A p \in PostIds : posts[p].by \in Workers
    BY <2>1 DEF Post
  <2>. QED BY <2>2 DEF CopiesFromDistinctWorkers, UniqueUrls
<1>. QED
  BY <1>1, BaseInvariant, UrlCopiesBounded, PTL

\* No worker will save an analysis of a post it has analysed before.
Analysts ==
  /\ AnalysesFromDistinctWorkers
  /\ \A w \in Workers, p \in PostIds, a \in DOMAIN analyses :
       Pending(w, p) /\ analyses[a].post = p => analyses[a].by # w

\* Every step preserves this.
LEMMA AnalystsStep ==
  ASSUME Base, Analysts, Next PROVE Analysts'
<1>. USE DEF Analysts, AnalysesFromDistinctWorkers
<1>1. CASE UNCHANGED tables
  BY <1>1, PendingStep DEF PendingChange, tables, PostIds, Analysed
<1>2. ASSUME NEW w \in Workers, Stored(w) PROVE Analysts'
  <2>1. UNCHANGED analyses /\ ~UNCHANGED tables
    BY <1>2, StoredRow DEF Stored, tables, PostIds
  <2>2. PostIds' = PostIds \cup {Len(posts) + 1} /\ Len(posts) + 1 \notin PostIds
    BY <1>2, StoredRow
  <2>3. \A a \in DOMAIN analyses : analyses[a].post \in PostIds
    BY DEF Base, IdsAreStored
  <2>. QED BY <2>1, <2>2, <2>3, PendingStep DEF PendingChange
<1>3. ASSUME NEW w \in Workers, Saved(w) PROVE Analysts'
  <2>1. ~UNCHANGED tables /\ PostIds' = PostIds
    BY <1>3, SavedRow DEF Saved, tables, PostIds
  <2>2. /\ DOMAIN analyses' = DOMAIN analyses \cup {Len(analyses) + 1}
        /\ \A a \in DOMAIN analyses : analyses'[a] = analyses[a]
        /\ analyses'[Len(analyses) + 1] = [post |-> post[w], verdict |-> verdict[w], by |-> w]
    BY <1>3, SavedRow
  <2>3. Pending(w, post[w]) /\ post[w] \in PostIds
    BY <1>3 DEF Saved, Pending, Base, IdsAreStored
  <2>4. \A p \in PostIds : Pending(w, p)' => p # post[w]
    BY <1>3 DEF Saved, Pending, Base, Locals
  <2>5. \A x \in Workers, p \in PostIds : Pending(x, p)' => Pending(x, p)
    BY <2>1, PendingStep DEF PendingChange
  <2>6. AnalysesFromDistinctWorkers'
    BY <2>2, <2>3
  <2>7. ASSUME NEW x \in Workers, NEW p \in PostIds, NEW a \in DOMAIN analyses',
               Pending(x, p)', analyses'[a].post = p
        PROVE  analyses'[a].by # x
    BY <2>2, <2>4, <2>5, <2>7
  <2>. QED BY <2>1, <2>6, <2>7
<1>4. ASSUME NEW a \in DOMAIN analyses, Cached(a) PROVE Analysts'
  <2>1. CASE UNCHANGED posts
    BY <1>1, <1>4, <2>1 DEF Cached, tables
  <2>2. CASE ~UNCHANGED posts
    <3>1. PostIds' = PostIds /\ UNCHANGED analyses
      BY <1>4, CachedRow DEF Cached
    <3>2. \A x \in Workers, p \in PostIds : Pending(x, p)' => Pending(x, p)
      BY <2>2, PendingStep DEF PendingChange, tables
    <3>. QED BY <3>1, <3>2
  <2>. QED BY <2>1, <2>2
<1>. QED
  BY <1>1, <1>2, <1>3, <1>4, TablesStep DEF TablesChange

\* A post is analysed at most once per worker process, even when
\* process_text_data is started without post_ids at any moment.
THEOREM AnalysesBounded == Spec => []AnalysesFromDistinctWorkers
<1>1. Init => Analysts
  BY DEF Init, Analysts, AnalysesFromDistinctWorkers, PostIds
<1>2. Base /\ Analysts /\ [Next]_vars => Analysts'
  <2>1. ASSUME Analysts, UNCHANGED vars PROVE Analysts'
    BY <2>1 DEF vars, Analysts, AnalysesFromDistinctWorkers, PostIds, Pending
  <2>. QED BY <2>1, AnalystsStep
<1>3. Analysts => AnalysesFromDistinctWorkers
  BY DEF Analysts
<1>. QED
  BY <1>1, <1>2, <1>3, BaseInvariant, PTL DEF Spec

\* With finitely many workers the analyses of a post are no more than they.
LEMMA AnalysesCount ==
  ASSUME Base, AnalysesFromDistinctWorkers, IsFiniteSet(Workers), NEW p
  PROVE  Cardinality({a \in DOMAIN analyses : analyses[a].post = p}) <= Cardinality(Workers)
<1>. DEFINE rows == {a \in DOMAIN analyses : analyses[a].post = p}
            author == [a \in rows |-> analyses[a].by]
<1>1. \A a \in DOMAIN analyses : analyses[a].by \in Workers
  <2>1. \A a \in DOMAIN analyses : analyses[a] \in Analysis
    BY DEF Base, TypeOK, TableTypes
  <2>. QED BY <2>1 DEF Analysis
<1>2. author \in Injection(rows, Workers)
  BY <1>1 DEF AnalysesFromDistinctWorkers, Injection, IsInjective
<1>. QED BY <1>2, FS_Injection

\* A post is never analysed more often than there are worker processes.
THEOREM AnalysesCounted ==
  ASSUME IsFiniteSet(Workers)
  PROVE  Spec => [](\A p \in PostIds :
           Cardinality({a \in DOMAIN analyses : analyses[a].post = p}) <= Cardinality(Workers))
<1>1. Base /\ AnalysesFromDistinctWorkers => \A p \in PostIds :
        Cardinality({a \in DOMAIN analyses : analyses[a].post = p}) <= Cardinality(Workers)
  BY AnalysesCount
<1>. QED
  BY <1>1, BaseInvariant, AnalysesBounded, PTL

\* What the chain guarantees while every process_text_data message carries ids.
OnePass ==
  /\ Owners
  /\ \A a, b \in DOMAIN analyses : analyses[a].post = analyses[b].post => a = b
  /\ \A w \in Workers, p \in PostIds : Pending(w, p) => ~Analysed(p)

\* Every step preserves this, unless it publishes a message without ids or
\* delivers one again that is still worked on.
LEMMA OnePassStep ==
  ASSUME Base, OnePass, Next, manual' = 0, repeats' = 0 PROVE OnePass'
<1>. USE DEF OnePass
<1>0. Owners'
  BY OwnersStep
<1>1. CASE UNCHANGED tables
  BY <1>0, <1>1, PendingStep DEF PendingChange, tables, PostIds, Analysed
<1>2. ASSUME NEW w \in Workers, Stored(w) PROVE OnePass'
  <2>1. UNCHANGED analyses /\ ~UNCHANGED tables
    BY <1>2, StoredRow DEF Stored, tables, PostIds
  <2>2. PostIds' = PostIds \cup {Len(posts) + 1} /\ Len(posts) + 1 \notin PostIds
    BY <1>2, StoredRow
  <2>3. \A a \in DOMAIN analyses : analyses[a].post \in PostIds
    BY DEF Base, IdsAreStored
  <2>. QED BY <1>0, <2>1, <2>2, <2>3, PendingStep DEF PendingChange, Analysed
<1>3. ASSUME NEW w \in Workers, Saved(w) PROVE OnePass'
  <2>1. ~UNCHANGED tables /\ PostIds' = PostIds
    BY <1>3, SavedRow DEF Saved, tables, PostIds
  <2>2. /\ DOMAIN analyses' = DOMAIN analyses \cup {Len(analyses) + 1}
        /\ \A a \in DOMAIN analyses : analyses'[a] = analyses[a]
        /\ analyses'[Len(analyses) + 1] = [post |-> post[w], verdict |-> verdict[w], by |-> w]
    BY <1>3, SavedRow
  <2>3. Pending(w, post[w]) /\ post[w] \in PostIds
    BY <1>3 DEF Saved, Pending, Base, IdsAreStored
  <2>4. \A x \in Workers, p \in PostIds : Pending(x, p)' => Pending(x, p)
    BY <2>1, PendingStep DEF PendingChange
  <2>5. \A p \in PostIds : Pending(w, p)' => p # post[w]
    BY <1>3 DEF Saved, Pending, Base, Locals
  <2>6. \A x \in Workers, p \in PostIds : Pending(x, p)' => p # post[w]
    BY <2>3, <2>4, <2>5 DEF Owners
  <2>7. \A a \in DOMAIN analyses : analyses[a].post # post[w]
    BY <2>3 DEF Analysed
  <2>8. \A a, b \in DOMAIN analyses' : analyses'[a].post = analyses'[b].post => a = b
    BY <2>2, <2>7
  <2>9. \A p \in PostIds : Analysed(p)' => Analysed(p) \/ p = post[w]
    BY <2>2 DEF Analysed
  <2>. QED BY <1>0, <2>1, <2>4, <2>6, <2>8, <2>9
<1>4. ASSUME NEW a \in DOMAIN analyses, Cached(a) PROVE OnePass'
  <2>1. CASE UNCHANGED posts
    BY <1>1, <1>4, <2>1 DEF Cached, tables
  <2>2. CASE ~UNCHANGED posts
    BY <1>0, <1>4, <2>2, CachedRow, PendingStep DEF Cached, PendingChange, tables, Analysed
  <2>. QED BY <2>1, <2>2
<1>. QED
  BY <1>1, <1>2, <1>3, <1>4, TablesStep DEF TablesChange

\* Without such messages, and with every message in time, no post is analysed
\* twice, although each can be delivered again after the loss of a worker.
THEOREM AnalysedOnce == Spec => []NoDoubleAnalysis
<1>. DEFINE Inv == manual = 0 /\ repeats = 0 => OnePass
<1>1. Init => Inv
  BY DEF Init, OnePass, Owners, Analysed, PostIds, Pending, ProcessSteps
<1>2. Base /\ Inv /\ [Next]_vars => Inv'
  <2>1. ASSUME Inv, UNCHANGED vars PROVE Inv'
    BY <2>1 DEF vars, OnePass, Owners, Analysed, PostIds, Pending
  <2>. QED BY <2>1, OnePassStep, ManualStep
<1>3. Inv => NoDoubleAnalysis
  BY DEF OnePass, NoDoubleAnalysis
<1>. QED
  BY <1>1, <1>2, <1>3, BaseInvariant, PTL DEF Spec

\* A step keeps every cached label backed by an analysis, and writes no label but
\* the verdict of one.
LEMMA CacheStep ==
  ASSUME Base, CacheIsOfAnAnalysis, Next
  PROVE  /\ CacheIsOfAnAnalysis'
         /\ \A p \in PostIds : posts'[p].cached = posts[p].cached
              \/ \E b \in DOMAIN analyses : analyses[b].post = p /\ analyses[b].verdict = posts'[p].cached
<1>. DEFINE Written == \A p \in PostIds : posts'[p].cached = posts[p].cached
              \/ \E b \in DOMAIN analyses : analyses[b].post = p /\ analyses[b].verdict = posts'[p].cached
<1>. USE DEF CacheIsOfAnAnalysis
<1>1. CASE UNCHANGED tables
  BY <1>1 DEF tables, PostIds
<1>2. ASSUME NEW w \in Workers, Stored(w)
      PROVE  CacheIsOfAnAnalysis' /\ Written
  <2>1. /\ PostIds' = PostIds \cup {Len(posts) + 1}
        /\ \A p \in PostIds : posts'[p] = posts[p]
        /\ posts'[Len(posts) + 1] = [url |-> url[w], cached |-> None, by |-> w]
    BY <1>2, StoredRow
  <2>2. posts'[Len(posts) + 1].cached = None
    BY <2>1
  <2>. QED BY <1>2, <2>1, <2>2 DEF Stored
<1>3. ASSUME NEW w \in Workers, Saved(w)
      PROVE  CacheIsOfAnAnalysis' /\ Written
  BY <1>3, SavedRow DEF Saved, PostIds
<1>4. ASSUME NEW a \in DOMAIN analyses, Cached(a)
      PROVE  CacheIsOfAnAnalysis' /\ Written
  <2>1. UNCHANGED analyses /\ PostIds' = PostIds
    BY <1>4, CachedRow DEF Cached
  <2>2. /\ analyses[a].verdict # None
        /\ \A q \in PostIds : posts'[q].cached =
             IF q = analyses[a].post THEN analyses[a].verdict ELSE posts[q].cached
    BY <1>4, CachedRow, PipelineAssumption
  <2>. QED BY <2>1, <2>2
<1>. QED
  BY <1>1, <1>2, <1>3, <1>4, TablesStep DEF TablesChange

\* A cached label is always one that an analysis of this post gave.
THEOREM CacheCorrect == Spec => []CacheIsOfAnAnalysis
<1>1. Init => CacheIsOfAnAnalysis
  BY DEF Init, CacheIsOfAnAnalysis, PostIds
<1>2. Base /\ CacheIsOfAnAnalysis /\ [Next]_vars => CacheIsOfAnAnalysis'
  <2>1. ASSUME CacheIsOfAnAnalysis, UNCHANGED vars PROVE CacheIsOfAnAnalysis'
    BY <2>1 DEF vars, CacheIsOfAnAnalysis, PostIds
  <2>. QED BY <2>1, CacheStep
<1>. QED
  BY <1>1, <1>2, BaseInvariant, PTL DEF Spec

\* A label gives way only to that of another worker process's analysis of the post.
LEMMA RivalsStep ==
  ASSUME Base, CacheIsOfAnAnalysis, AnalysesFromDistinctWorkers, Next,
         NEW p \in PostIds, posts[p].cached \notin {None, posts'[p].cached}
  PROVE  \E a, b \in DOMAIN analyses :
           /\ analyses[a].post = p /\ analyses[b].post = p
           /\ analyses[a].by # analyses[b].by
           /\ analyses[a].verdict = posts[p].cached
           /\ analyses[b].verdict = posts'[p].cached
<1>1. PICK a \in DOMAIN analyses : analyses[a].post = p /\ analyses[a].verdict = posts[p].cached
  BY DEF CacheIsOfAnAnalysis
<1>2. PICK b \in DOMAIN analyses : analyses[b].post = p /\ analyses[b].verdict = posts'[p].cached
  BY CacheStep
<1>3. analyses[a].by # analyses[b].by
  BY <1>1, <1>2 DEF AnalysesFromDistinctWorkers
<1>. QED
  BY <1>1, <1>2, <1>3

\* Whatever update_analytics and process_text_data write, in whatever order and
\* however old, a label shown is replaced only by that of a rival's analysis.
THEOREM LabelsOfRivals == Spec => OnlyRivalsChangeALabel
<1>1. Base /\ CacheIsOfAnAnalysis /\ AnalysesFromDistinctWorkers /\ [Next]_vars =>
        [\A p \in PostIds : posts[p].cached \notin {None, posts'[p].cached} =>
           \E a, b \in DOMAIN analyses :
             /\ analyses[a].post = p /\ analyses[b].post = p
             /\ analyses[a].by # analyses[b].by
             /\ analyses[a].verdict = posts[p].cached
             /\ analyses[b].verdict = posts'[p].cached]_vars
  BY RivalsStep
<1>. QED
  BY <1>1, BaseInvariant, CacheCorrect, AnalysesBounded, PTL DEF Spec, OnlyRivalsChangeALabel

\* Without a fault a worker leaves the post it is about to label only by
\* labelling it.
LEMMA LabelStep ==
  ASSUME Base, Next, faults' = 0,
         NEW w \in Workers, at[w] = "cache"
  PROVE  /\ faults = 0
         /\ \/ at'[w] = "cache" /\ post'[w] = post[w]
            \/ posts' = [posts EXCEPT ![post[w]].cached = verdict[w]]
<1>. USE DEF Base, TypeOK, LocalTypes, CounterTypes, budget, locals, current, Go, Done
<1>1. CASE TriggerScrape \/ ProcessEverything \/ BeatAnalytics
  BY <1>1 DEF TriggerScrape, ProcessEverything, BeatAnalytics
<1>2. ASSUME NEW v \in Workers, Scrape(v) PROVE faults = 0 /\ at'[w] = "cache" /\ post'[w] = post[w]
  BY <1>2 DEF Scrape, ReceiveScrape, GetActiveSources, ScrapeSource, SelectPost, InsertPost, Insert,
              ChainProcessing
<1>3. ASSUME NEW v \in Workers, Analytics(v) \/ Notify(v)
      PROVE  faults = 0 /\ at'[w] = "cache" /\ post'[w] = post[w]
  BY <1>3 DEF Analytics, Notify, ReceiveAnalytics, GetStalePosts, SyncRow, TriggerNotify, ReceiveNotify,
              SkipReport, SendReport
<1>4. ASSUME NEW v \in Workers, ReceiveProcess(v) \/ GetUnprocessedPosts(v) \/ TriggerAnalytics(v)
      PROVE  faults = 0 /\ at'[w] = "cache" /\ post'[w] = post[w]
  BY <1>4 DEF ReceiveProcess, GetUnprocessedPosts, TriggerAnalytics
<1>5. ASSUME NEW v \in Workers, ProcessRecord(v) \/ SaveAnalysisResult(v)
      PROVE  faults = 0 /\ at'[w] = "cache" /\ post'[w] = post[w]
  BY <1>5 DEF ProcessRecord, SaveAnalysisResult
<1>6. ASSUME NEW v \in Workers, UpdatePostCache(v)
      PROVE  /\ faults = 0
             /\ \/ at'[w] = "cache" /\ post'[w] = post[w]
                \/ posts' = [posts EXCEPT ![post[w]].cached = verdict[w]]
  BY <1>6 DEF UpdatePostCache, NextPost
<1>7. ASSUME NEW v \in Workers, Acknowledge(v)
      PROVE  faults = 0 /\ at'[w] = "cache" /\ post'[w] = post[w]
  BY <1>7 DEF Acknowledge, Free
<1>8. ASSUME NEW v \in Workers, Fails(v) PROVE faults = 0 /\ UNCHANGED <<at, post>>
  BY <1>8 DEF Fails, UpsertFails, InsertUnreported, PostFails, SyncFails, ReportFails, SoftTimeLimit,
              TaskFails, WorkerLost, DeliverAgain, Fault
<1>. QED
  BY <1>1, <1>2, <1>3, <1>4, <1>5, <1>6, <1>7, <1>8 DEF Next, Work, Process

\* Faults are never undone.
LEMMA FaultsStep ==
  ASSUME Base, Next, faults' = 0 PROVE faults = 0
<1>. USE DEF Base, TypeOK, CounterTypes, budget
<1>1. CASE TriggerScrape \/ ProcessEverything \/ BeatAnalytics
  BY <1>1 DEF TriggerScrape, ProcessEverything, BeatAnalytics
<1>2. ASSUME NEW v \in Workers, Work(v) PROVE faults' = faults
  BY <1>2 DEF Work, Scrape, Process, Analytics, Notify, ReceiveScrape, GetActiveSources, ScrapeSource,
              SelectPost, InsertPost, ChainProcessing, ReceiveProcess, GetUnprocessedPosts, ProcessRecord,
              SaveAnalysisResult, UpdatePostCache, TriggerAnalytics, ReceiveAnalytics, GetStalePosts,
              SyncRow, TriggerNotify, ReceiveNotify, SkipReport, SendReport, Acknowledge
<1>3. ASSUME NEW v \in Workers, Fails(v) PROVE faults = 0
  BY <1>3 DEF Fails, UpsertFails, InsertUnreported, PostFails, SyncFails, ReportFails, SoftTimeLimit,
              TaskFails, WorkerLost, DeliverAgain, Fault
<1>. QED
  BY <1>1, <1>2, <1>3 DEF Next

\* A step without a fault leaves no analysed post without a label behind.
LEMMA StaleStep ==
  ASSUME Base, StaleOnlyByFault, Next PROVE StaleOnlyByFault'
<1>. SUFFICES ASSUME faults' = 0, NEW a \in Stale'
              PROVE  \E w \in Workers : at'[w] = "cache" /\ post'[w] = analyses'[a].post
  BY DEF StaleOnlyByFault
<1>0. faults = 0
  BY FaultsStep
<1>a. a \in DOMAIN analyses' /\ posts'[analyses'[a].post].cached = None
  BY DEF Stale
<1>1. ASSUME NEW v \in Workers, Saved(v), a = Len(analyses) + 1
      PROVE  \E w \in Workers : at'[w] = "cache" /\ post'[w] = analyses'[a].post
  <2>1. analyses'[Len(analyses) + 1] = [post |-> post[v], verdict |-> verdict[v], by |-> v]
    BY <1>1, SavedRow
  <2>2. analyses'[a].post = post[v]
    BY <1>1, <2>1
  <2>. QED BY <1>1, <2>2 DEF Saved
<1>2. ASSUME a \in DOMAIN analyses, analyses'[a] = analyses[a], a \in Stale
      PROVE  \E w \in Workers : at'[w] = "cache" /\ post'[w] = analyses'[a].post
  <2>1. PICK w \in Workers : at[w] = "cache" /\ post[w] = analyses[a].post
    BY <1>0, <1>2 DEF StaleOnlyByFault
  <2>2. CASE at'[w] = "cache" /\ post'[w] = post[w]
    BY <1>2, <2>1, <2>2
  <2>3. CASE posts' = [posts EXCEPT ![post[w]].cached = verdict[w]]
    <3>1. verdict[w] \in Verdicts /\ post[w] \in PostIds
      BY <2>1 DEF Base, Locals, IdsAreStored
    <3>2. posts \in Seq(Post)
      BY DEF Base, TypeOK, TableTypes
    <3>3. \A q \in PostIds : posts'[q].cached = IF q = post[w] THEN verdict[w] ELSE posts[q].cached
      BY <2>3, <3>1, <3>2, CacheUpdate
    <3>. QED BY <1>a, <1>2, <2>1, <3>1, <3>3, PipelineAssumption
  <2>. QED BY <2>1, <2>2, <2>3, LabelStep
<1>3. a \in DOMAIN analyses => analyses[a].post \in PostIds
  BY DEF Base, IdsAreStored
<1>4. CASE UNCHANGED tables
  BY <1>a, <1>2, <1>4 DEF tables, Stale
<1>5. ASSUME NEW v \in Workers, Stored(v) PROVE a \in Stale /\ UNCHANGED analyses
  BY <1>5, <1>a, <1>3, StoredRow DEF Stored, Stale
<1>6. ASSUME NEW v \in Workers, Saved(v)
      PROVE  a = Len(analyses) + 1 \/ (a \in Stale /\ analyses'[a] = analyses[a])
  BY <1>6, <1>a, SavedRow DEF Saved, Stale
<1>7. ASSUME NEW b \in DOMAIN analyses, Cached(b) PROVE a \in Stale /\ UNCHANGED analyses
  BY <1>7, <1>a, <1>3, CachedRow, PipelineAssumption DEF Cached, Stale
<1>8. Stale \subseteq DOMAIN analyses
  BY DEF Stale
<1>. QED
  BY <1>1, <1>2, <1>4, <1>5, <1>6, <1>7, <1>8, TablesStep DEF TablesChange

\* Without a fault every analysed post has its label, or a worker at it:
\* update_analytics repairs what faults broke, and nothing else.
THEOREM StaleByFault == Spec => []StaleOnlyByFault
<1>1. Init => StaleOnlyByFault
  BY DEF Init, StaleOnlyByFault, Stale
<1>2. Base /\ StaleOnlyByFault /\ [Next]_vars => StaleOnlyByFault'
  <2>1. ASSUME StaleOnlyByFault, UNCHANGED vars PROVE StaleOnlyByFault'
    BY <2>1 DEF vars, StaleOnlyByFault, Stale
  <2>. QED BY <2>1, StaleStep
<1>. QED
  BY <1>1, <1>2, BaseInvariant, PTL DEF Spec

\* Only the named steps leave a post without a holder.
LEMMA OrphanStep ==
  ASSUME Base, Chain, Next, \A w \in Workers : ~Drops(w)
  PROVE  Orphans' \subseteq Orphans
<1>. SUFFICES ASSUME NEW p \in PostIds', ~Analysed(p)', ~InFlight(p)', p \notin Orphans
              PROVE  FALSE
  BY DEF Orphans
<1>1. p \in PostIds
  BY NewPostStep DEF InFlight
<1>2. ~Analysed(p)
  BY TablesGrow DEF Analysed
<1>3. InFlight(p)
  BY <1>1, <1>2 DEF Orphans
<1>4. ASSUME NEW m \in processing, Covers(m, p) PROVE FALSE
  <2>1. m \notin processing'
    BY <1>4 DEF InFlight
  <2>2. PICK w \in Workers : at'[w] = "unprocessed" /\ ids'[w] = m
    BY <2>1, MessageStep
  <2>3. Holds(w, p)'
    BY <1>4, <2>2 DEF Holds, Covers
  <2>. QED BY <2>3 DEF InFlight
<1>5. ASSUME NEW w \in Workers, Holds(w, p) PROVE FALSE
  BY <1>1, <1>2, <1>5, HolderStep DEF InFlight
<1>. QED
  BY <1>3, <1>4, <1>5 DEF InFlight

\* A post drops out of the chain only by a fault of the kinds named, or where
\* a message covers more posts than a batch takes.
THEOREM OrphansAccounted == Spec => OnlyTheseStepsOrphanPosts
<1>1. Init => Chain
  BY DEF Init, Chain, ProcessSteps
<1>2. Base /\ Chain /\ [Next]_vars => Chain'
  <2>1. ASSUME Chain, UNCHANGED vars PROVE Chain'
    BY <2>1 DEF vars, Chain
  <2>. QED BY <2>1, ChainStep
<1>3. Base /\ Chain /\ [Next]_vars =>
        [Orphans' \subseteq Orphans \/ \E w \in Workers : Drops(w)]_vars
  BY OrphanStep
<1>. QED
  BY <1>1, <1>2, <1>3, BaseInvariant, PTL DEF Spec, OnlyTheseStepsOrphanPosts

\* The numbers of n rows are n.
LEMMA NumbersTo ==
  ASSUME NEW n \in Nat PROVE IsFiniteSet(1..n) /\ Cardinality(1..n) = n
BY FS_Interval

\* As long as nothing failed and the posts fit into one batch, every post that
\* is not analysed is in a message or with a task.
THEOREM NothingForgotten == Spec => [](faults = 0 /\ Len(posts) <= BatchSize => Orphans = {})
<1>. DEFINE Kept == faults = 0 /\ Len(posts) <= BatchSize => Orphans = {}
<1>1. Init => Chain /\ Kept
  BY DEF Init, Chain, ProcessSteps, Orphans, PostIds
<1>2. Base /\ Chain /\ [Next]_vars => Chain'
  <2>1. ASSUME Chain, UNCHANGED vars PROVE Chain'
    BY <2>1 DEF vars, Chain
  <2>. QED BY <2>1, ChainStep
<1>3. ASSUME Base, Chain, Kept, [Next]_vars PROVE Kept'
  <2>1. CASE UNCHANGED vars
    BY <1>3, <2>1 DEF vars, Orphans, PostIds, Analysed, InFlight, Holds
  <2>2. ASSUME Next, faults' = 0, Len(posts') <= BatchSize PROVE Orphans' = {}
    <3>1. faults = 0
      BY <1>3, <2>2, FaultsStep
    <3>2. /\ PostIds = 1..Len(posts) /\ Len(posts) \in Nat
          /\ PostIds' = 1..Len(posts') /\ Len(posts') \in Nat
          /\ PostIds \subseteq PostIds'
      BY <1>3, <2>2, TablesGrow DEF Base, TypeOK, TableTypes, PostIds
    <3>3. Len(posts) <= BatchSize
      BY <2>2, <3>2, PipelineAssumption
    <3>4. ASSUME NEW w \in Workers PROVE ~CutsBatch(w)
      <4>. DEFINE found == {p \in PostIds : ~Analysed(p) /\ Covers(ids[w], p)}
      <4>1. IsFiniteSet(PostIds) /\ Cardinality(PostIds) = Len(posts)
        BY <3>2, NumbersTo
      <4>2. Cardinality(found) \in Nat /\ Cardinality(found) <= Len(posts)
        <5>1. found \subseteq PostIds
          OBVIOUS
        <5>2. IsFiniteSet(found) /\ Cardinality(found) <= Cardinality(PostIds)
          BY <4>1, <5>1, FS_Subset
        <5>. QED BY <4>1, <5>2, FS_CardinalityType
      <4>. QED BY <3>2, <3>3, <4>2, PipelineAssumption DEF CutsBatch
    <3>5. ASSUME NEW w \in Workers PROVE ~Drops(w)
      <4>1. ~Fault
        BY <2>2, <3>1 DEF Fault
      <4>. QED
        BY <3>4, <4>1 DEF Drops, WorkerLost, TaskFails, InsertUnreported, PostFails, SoftTimeLimit
    <3>. QED BY <1>3, <2>2, <3>1, <3>3, <3>5, OrphanStep
  <2>. QED BY <1>3, <2>1, <2>2
<1>. QED
  BY <1>1, <1>2, <1>3, BaseInvariant, PTL DEF Spec

\* The refinement mapping yields sequences as long as table posts.
LEMMA RefinedTypes ==
  ASSUME Base
  PROVE  /\ Given \in Seq(SUBSET Verdicts) /\ Shown \in Seq(Verdicts \cup {None})
         /\ Len(Given) = Len(posts) /\ Len(Shown) = Len(posts)
<1>1. PostIds = 1..Len(posts) /\ Len(posts) \in Nat
  BY DEF Base, TypeOK, TableTypes, PostIds
<1>2. \A a \in DOMAIN analyses : analyses[a].verdict \in Verdicts
  <2>1. \A a \in DOMAIN analyses : analyses[a] \in Analysis
    BY DEF Base, TypeOK, TableTypes
  <2>. QED BY <2>1 DEF Analysis
<1>3. \A p \in PostIds : posts[p].cached \in Verdicts \cup {None}
  <2>1. \A p \in PostIds : posts[p] \in Post
    BY DEF Base, TypeOK, TableTypes, PostIds
  <2>. QED BY <2>1 DEF Post
<1>4. Given \in [1..Len(posts) -> SUBSET Verdicts]
  BY <1>1, <1>2 DEF Given
<1>5. Shown \in [1..Len(posts) -> Verdicts \cup {None}]
  BY <1>1, <1>3 DEF Shown
<1>. QED BY <1>1, <1>4, <1>5

\* A sequence one longer, with the same front, is an Append.
LEMMA Appended ==
  ASSUME NEW S, NEW s \in Seq(S), NEW e \in S, NEW f \in Seq(S), Len(f) = Len(s) + 1,
         \A i \in 1..Len(s) : f[i] = s[i], f[Len(s) + 1] = e
  PROVE  f = Append(s, e)
OBVIOUS

\* A step of the chain is a step of the life cycle of posts, or stutters.
LEMMA LifecycleStep ==
  ASSUME Base, Next
  PROVE  [Lifecycle!Next]_(Lifecycle!vars)
<1>. USE RefinedTypes DEF Lifecycle!Next, Lifecycle!vars
<1>0. PostIds = DOMAIN Given /\ DOMAIN Shown = PostIds
  BY DEF Given, Shown
<1>1. CASE UNCHANGED tables
  BY <1>1 DEF tables, Given, Shown, PostIds
<1>2. ASSUME NEW w \in Workers, Stored(w) PROVE Lifecycle!Store
  <2>1. /\ UNCHANGED analyses
        /\ PostIds' = PostIds \cup {Len(posts) + 1} /\ Len(posts) + 1 \notin PostIds
        /\ \A p \in PostIds : posts'[p] = posts[p]
        /\ posts'[Len(posts) + 1] = [url |-> url[w], cached |-> None, by |-> w]
        /\ PostIds = 1..Len(posts) /\ Len(posts') = Len(posts) + 1
    BY <1>2, StoredRow DEF Stored, Base, TypeOK, TableTypes, PostIds
  <2>2. \A a \in DOMAIN analyses : analyses[a].post \in PostIds
    BY DEF Base, IdsAreStored
  <2>3. \A p \in PostIds : Given'[p] = Given[p] /\ Shown'[p] = Shown[p]
    BY <2>1 DEF Given, Shown
  <2>4. Given'[Len(posts) + 1] = {} /\ Shown'[Len(posts) + 1] = None
    BY <2>1, <2>2 DEF Given, Shown
  <2>5. Given \in Seq(SUBSET Verdicts) /\ Given' = Append(Given, {})
    <3>1. Given' \in [1..(Len(posts) + 1) -> SUBSET Verdicts]
      <4>1. \A p \in 1..(Len(posts) + 1) : Given'[p] \in SUBSET Verdicts
        BY <2>1, <2>3, <2>4
      <4>. QED BY <2>1, <4>1 DEF Given
    <3>. QED BY <2>1, <2>3, <2>4, <3>1, Appended
  <2>6. Shown' = Append(Shown, None)
    <3>1. Shown' \in [1..(Len(posts) + 1) -> Verdicts \cup {None}]
      <4>1. \A p \in 1..(Len(posts) + 1) : Shown'[p] \in Verdicts \cup {None}
        BY <2>1, <2>3, <2>4
      <4>. QED BY <2>1, <4>1 DEF Shown
    <3>. QED BY <2>1, <2>3, <2>4, <3>1, Appended
  <2>. QED BY <2>5, <2>6 DEF Lifecycle!Store
<1>3. ASSUME NEW w \in Workers, Saved(w)
      PROVE  \E p \in PostIds, v \in Verdicts : Lifecycle!Analyse(p, v)
  <2>1. /\ UNCHANGED posts
        /\ DOMAIN analyses' = DOMAIN analyses \cup {Len(analyses) + 1}
        /\ \A a \in DOMAIN analyses : analyses'[a] = analyses[a]
        /\ analyses'[Len(analyses) + 1] = [post |-> post[w], verdict |-> verdict[w], by |-> w]
    BY <1>3, SavedRow DEF Saved
  <2>2. post[w] \in PostIds /\ verdict[w] \in Verdicts
    BY <1>3 DEF Saved, Base, IdsAreStored, Locals
  <2>3. PostIds' = PostIds /\ Shown' = Shown
    BY <2>1 DEF Shown, PostIds
  <2>4. \A p \in PostIds :
          Given'[p] = IF p = post[w] THEN Given[p] \cup {verdict[w]} ELSE Given[p]
    BY <2>1, <2>3 DEF Given
  <2>5. Given' = [Given EXCEPT ![post[w]] = @ \cup {verdict[w]}]
    BY <2>2, <2>3, <2>4 DEF Given
  <2>. QED BY <2>2, <2>3, <2>5 DEF Lifecycle!Analyse
<1>4. ASSUME NEW a \in DOMAIN analyses, Cached(a)
      PROVE  \E p \in PostIds, v \in Verdicts : Lifecycle!Show(p, v)
  <2>1. /\ UNCHANGED analyses
        /\ analyses[a].post \in PostIds /\ analyses[a].verdict \in Verdicts
        /\ PostIds' = PostIds
        /\ \A q \in PostIds : posts'[q].cached =
             IF q = analyses[a].post THEN analyses[a].verdict ELSE posts[q].cached
    BY <1>4, CachedRow DEF Cached
  <2>2. Given' = Given /\ analyses[a].verdict \in Given[analyses[a].post]
    BY <2>1 DEF Given
  <2>3. Shown' = [Shown EXCEPT ![analyses[a].post] = analyses[a].verdict]
    BY <2>1 DEF Shown
  <2>. QED BY <2>1, <2>2, <2>3 DEF Lifecycle!Show
<1>. QED
  BY <1>0, <1>1, <1>2, <1>3, <1>4, TablesStep DEF TablesChange

\* The tables, as their readers see them, implement PostLifecycle.
THEOREM Refinement == Spec => LifecycleSpec
<1>1. Init => Lifecycle!Init
  BY DEF Init, Lifecycle!Init, Given, Shown, PostIds
<1>2. Base /\ [Next]_vars => [Lifecycle!Next]_(Lifecycle!vars)
  <2>1. CASE UNCHANGED vars
    BY <2>1 DEF vars, Lifecycle!vars, Given, Shown, PostIds
  <2>. QED BY <2>1, LifecycleStep
<1>. QED
  BY <1>1, <1>2, BaseInvariant, PTL DEF Spec, LifecycleSpec, Lifecycle!Spec

=============================================================================
