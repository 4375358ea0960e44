---------------------------- MODULE Scraping_proofs ----------------------------
(***************************************************************************)
(* Theorems about Scraping and the event loop it runs on.                  *)
(***************************************************************************)
EXTENDS Scraping, FiniteSetTheorems, TLAPS

-----------------------------------------------------------------------------
(* The event loop. *)

LoopInv == LoopTypeOK /\ NothingOutlivesItsLoop /\ FailuresArePaid

LEMMA LoopStart == LoopInit => LoopInv
  BY DEF LoopInit, LoopInv, LoopTypeOK, NothingOutlivesItsLoop, FailuresArePaid

\* Cutting a coroutine off leaves the connections alone.
LEMMA CutOffKeeps == LoopInv /\ CutOff => LoopInv'
  BY DEF CutOff, LoopInv, LoopTypeOK, NothingOutlivesItsLoop, FailuresArePaid

LEMMA ResumeKeeps == LoopInv /\ Resume => LoopInv'
  BY DEF Resume, LoopInv, LoopTypeOK, NothingOutlivesItsLoop, FailuresArePaid

\* One more report holds a connection that the pool may have had.
LEMMA HeldIsPaid ==
  ASSUME NEW s \in Nat, NEW p \in Nat, NEW q \in Nat, NEW h \in Nat, NEW u \in Nat, q <= p, s + p + h <= u
  PROVE  s + q + (h + 1) <= u + 1
  OBVIOUS

LEMMA LoopStep == LoopInv /\ [LoopNext]_loopVars => LoopInv'
<1> SUFFICES ASSUME LoopInv, [LoopNext]_loopVars PROVE LoopInv'
  OBVIOUS
<1> USE DEF LoopInv, LoopTypeOK, NothingOutlivesItsLoop, FailuresArePaid
<1>1. CASE RaiseRuntimeError
  BY <1>1 DEF RaiseRuntimeError
<1>2. CASE CutOff
  BY <1>2, CutOffKeeps
<1>3. CASE Resume
  BY <1>3, ResumeKeeps
<1>4. CASE CutOffReport
  <2>1. pooled' \in Nat /\ pooled' <= pooled
    BY <1>4 DEF CutOffReport, CheckedOut
  <2>2. /\ loop = "kept" /\ UNCHANGED <<loop, lost, spoiled>>
        /\ left' = left + 1 /\ holding' = holding + 1 /\ used' = used + 1
    BY <1>4 DEF CutOffReport
  <2>3. left \in Nat /\ holding \in Nat /\ holding <= left /\ used \in Nat /\ spoiled \in Nat /\ pooled \in Nat
    OBVIOUS
  <2>4. LoopTypeOK'
    <3>1. left' \in Nat /\ used' \in Nat /\ lost' \in Nat /\ spoiled' \in Nat
      BY <2>2, <2>3
    <3>2. holding' \in 0..left'
      BY <2>2, <2>3
    <3> QED
      BY <2>1, <2>2, <3>1, <3>2
  <2>5. spoiled + pooled + holding <= used
    OBVIOUS
  <2> HIDE DEF LoopInv, LoopTypeOK, NothingOutlivesItsLoop, FailuresArePaid
  <2>6. spoiled + pooled' + (holding + 1) <= used + 1
    BY <2>1, <2>3, <2>5, HeldIsPaid
  <2>7. FailuresArePaid' /\ NothingOutlivesItsLoop'
    BY <2>2, <2>6 DEF FailuresArePaid, NothingOutlivesItsLoop
  <2> QED
    BY <2>4, <2>7 DEF LoopInv
<1>5. CASE EndReport \/ SpoilReport
  BY <1>5 DEF EndReport, SpoilReport, CheckedOut
<1>6. CASE Disconnect
  BY <1>6 DEF Disconnect
<1>7. CASE UNCHANGED loopVars
  BY <1>7 DEF loopVars
<1> QED
  BY <1>1, <1>2, <1>3, <1>4, <1>5, <1>6, <1>7 DEF LoopNext

-----------------------------------------------------------------------------
(* What a visit finds. *)

Items == [url : Urls, text : Texts]

\* The item carries the text of its URL, or none, or the URL is no post's or given
\* by the LLM.
Fits(item) ==
  ~grokKey /\ item.url[2] # 0 /\ ~Pairs(item.url[1]) => item.text \in {0, item.url[2]}

FitItems == {item \in Items : Fits(item)}

LEMMA ListOf ==
  ASSUME NEW S, NEW n \in Nat, NEW list, list = [i \in 1..n |-> list[i]], \A i \in 1..n : list[i] \in S
  PROVE  list \in Seq(S)
<1>1. list \in [1..n -> S]
  OBVIOUS
<1> QED
  BY <1>1

LEMMA SingleItem ==
  ASSUME NEW S, NEW x \in S
  PROVE  <<x>> \in Seq(S)
  OBVIOUS

\* What a page shows is a list of its posts.
LEMMA ShowingIsList ==
  ASSUME NEW show \in Showings
  PROVE  \E n \in Nat : show \in [1..n -> 1..MaxPosts]
<1>1. PICK k \in 0..MaxShown : show \in {f \in [1..k -> 1..MaxPosts] :
                                            \A i, j \in 1..k : f[i] = f[j] => i = j}
  BY DEF Showings
<1>2. k \in Nat
  BY ScrapingAssumption
<1> QED
  BY <1>1, <1>2

LEMMA PositionsAreList ==
  ASSUME NEW m \in Nat, NEW kept \in Positions(m)
  PROVE  \E n \in Nat : kept \in [1..n -> 1..m]
<1>1. PICK k \in 0..m : kept \in {f \in [1..k -> 1..m] : \A i, j \in 1..k : i < j => f[i] < f[j]}
  BY DEF Positions
<1> QED
  BY <1>1

LEMMA TextsAreNumbers == /\ 0 \in Texts
                         /\ 1..MaxPosts \subseteq Texts
                         /\ \A s \in Platforms : PageOf(s) \in Urls
  BY ScrapingAssumption DEF Texts, Urls, PageOf

\* A page's own URL goes with every text.
LEMMA PageItemFits ==
  ASSUME NEW s \in Platforms, NEW t \in Texts
  PROVE  Item(PageOf(s), t) \in FitItems
  BY TextsAreNumbers DEF Item, PageOf, FitItems, Items, Fits

\* A post's URL, or the page's, with the text of the post or none.
LEMMA BlankItemFits ==
  ASSUME NEW s \in Platforms, NEW n \in 1..MaxPosts, NEW l \in {0, n}, NEW t \in {0, n}
  PROVE  Item(<<s, l>>, t) \in FitItems
<1>1. n \in Texts /\ l \in Texts /\ t \in Texts
  BY TextsAreNumbers
<1> QED
  BY <1>1 DEF Item, FitItems, Items, Fits, Urls

\* Where links and texts are paired by position, every item is allowed.
LEMMA PairedItemFits ==
  ASSUME ~grokKey, NEW url \in {"twitter"} \X Texts, NEW t \in Texts
  PROVE  Item(url, t) \in FitItems
  BY DEF Item, FitItems, Items, Fits, Urls, Pairs, Platforms

\* With a key, nothing is promised of what is found.
LEMMA GrokFinds ==
  ASSUME grokKey, NEW list \in GrokItems
  PROVE  list \in Seq(FitItems)
<1>1. PICK k \in 0..MaxFound : list \in [1..k -> [url : Urls, text : 1..MaxPosts]]
  BY DEF GrokItems
<1>2. [url : Urls, text : 1..MaxPosts] \subseteq FitItems
  BY TextsAreNumbers DEF FitItems, Items, Fits
<1>3. k \in Nat
  BY ScrapingAssumption
<1> QED
  BY <1>1, <1>2, <1>3

LEMMA FacebookFinds ==
  ASSUME NEW s \in Platforms, NEW list \in FacebookItems(s)
  PROVE  list \in Seq(FitItems)
<1>1. CASE list = <<Item(PageOf(s), 0)>>
  BY <1>1, PageItemFits, TextsAreNumbers, SingleItem
<1>2. CASE list # <<Item(PageOf(s), 0)>>
  <2>1. PICK show \in Showings :
          \E link \in [DOMAIN show -> Texts], text \in [DOMAIN show -> Texts] :
          /\ \A i \in DOMAIN show : link[i] \in {0, show[i]} /\ text[i] \in {0, show[i]}
          /\ list = [i \in DOMAIN show |-> Item(<<s, link[i]>>, text[i])]
    BY <1>2 DEF FacebookItems
  <2>2. PICK link \in [DOMAIN show -> Texts], text \in [DOMAIN show -> Texts] :
          /\ \A i \in DOMAIN show : link[i] \in {0, show[i]} /\ text[i] \in {0, show[i]}
          /\ list = [i \in DOMAIN show |-> Item(<<s, link[i]>>, text[i])]
    BY <2>1
  <2>3. PICK n \in Nat : show \in [1..n -> 1..MaxPosts]
    BY ShowingIsList
  <2>4. ASSUME NEW i \in 1..n PROVE list[i] \in FitItems
    <3>1. show[i] \in 1..MaxPosts /\ i \in DOMAIN show
      BY <2>3
    <3>2. link[i] \in {0, show[i]} /\ text[i] \in {0, show[i]}
      BY <3>1, <2>2
    <3>3. list[i] = Item(<<s, link[i]>>, text[i])
      BY <3>1, <2>2
    <3> QED
      BY <3>1, <3>2, <3>3, BlankItemFits
  <2>5. list = [i \in 1..n |-> list[i]]
    BY <2>2, <2>3
  <2> QED
    BY <2>4, <2>5, ListOf
<1> QED
  BY <1>1, <1>2

\* A single post, or an article of a page: one text under the page's URL.
LEMMA SingleFinds ==
  ASSUME NEW s \in Platforms, NEW t \in Texts, NEW list, list = <<Item(PageOf(s), t)>>
  PROVE  list \in Seq(FitItems)
  BY PageItemFits, SingleItem

LEMMA InstagramFinds ==
  ASSUME NEW s \in Platforms, NEW list \in InstagramItems(s)
  PROVE  list \in Seq(FitItems)
<1>1. CASE s \in single
  <2>1. PICK t \in {0, 1} : list = <<Item(PageOf(s), t)>>
    BY <1>1 DEF InstagramItems
  <2>2. t \in Texts
    BY TextsAreNumbers, ScrapingAssumption
  <2> QED
    BY <2>1, <2>2, SingleFinds
<1>2. CASE s \notin single
  <2>1. PICK show \in Showings : \E text \in [DOMAIN show -> Texts] :
          /\ \A i \in DOMAIN show : text[i] \in {0, show[i]}
          /\ list = [i \in DOMAIN show |-> Item(<<s, show[i]>>, text[i])]
    BY <1>2 DEF InstagramItems
  <2>2. PICK text \in [DOMAIN show -> Texts] :
          /\ \A i \in DOMAIN show : text[i] \in {0, show[i]}
          /\ list = [i \in DOMAIN show |-> Item(<<s, show[i]>>, text[i])]
    BY <2>1
  <2>3. PICK n \in Nat : show \in [1..n -> 1..MaxPosts]
    BY ShowingIsList
  <2>4. ASSUME NEW i \in 1..n PROVE list[i] \in FitItems
    <3>1. show[i] \in 1..MaxPosts /\ i \in DOMAIN show
      BY <2>3
    <3>2. list[i] = Item(<<s, show[i]>>, text[i]) /\ text[i] \in {0, show[i]}
      BY <3>1, <2>2
    <3> QED
      BY <3>1, <3>2, BlankItemFits
  <2>5. list = [i \in 1..n |-> list[i]]
    BY <2>2, <2>3
  <2> QED
    BY <2>4, <2>5, ListOf
<1> QED
  BY <1>1, <1>2

LEMMA TwitterFinds ==
  ASSUME ~grokKey, NEW list \in TwitterItems("twitter")
  PROVE  list \in Seq(FitItems)
<1> DEFINE s == "twitter"
<1>s. s \in Platforms
  BY DEF Platforms
<1>1. CASE s \in single
  <2>1. PICK t \in {0, 1} : list = <<Item(PageOf(s), t)>>
    BY <1>1 DEF TwitterItems
  <2>2. t \in Texts
    BY TextsAreNumbers, ScrapingAssumption
  <2> QED
    BY <2>1, <2>2, <1>s, SingleFinds
<1>2. CASE s \notin single /\ list = <<Item(PageOf(s), 0)>>
  BY <1>2, <1>s, TextsAreNumbers, SingleFinds
<1>3. CASE s \notin single /\ list # <<Item(PageOf(s), 0)>>
  <2> DEFINE url(links, j) == IF j <= Len(links) THEN <<s, links[j]>> ELSE PageOf(s)
  <2>1. PICK show \in Showings : \E links \in Showings, kept \in Positions(Len(show)) \ {<<>>} :
          list = [k \in DOMAIN kept |-> Item(url(links, kept[k]), show[kept[k]])]
    BY <1>3 DEF TwitterItems
  <2>2. PICK links \in Showings, kept \in Positions(Len(show)) :
          list = [k \in DOMAIN kept |-> Item(url(links, kept[k]), show[kept[k]])]
    BY <2>1
  <2>3. PICK n \in Nat : show \in [1..n -> 1..MaxPosts]
    BY ShowingIsList
  <2>4. PICK m \in Nat : links \in [1..m -> 1..MaxPosts]
    BY ShowingIsList
  <2>5. Len(show) = n /\ Len(links) = m
    BY <2>3, <2>4
  <2>6. PICK k \in Nat : kept \in [1..k -> 1..n]
    BY <2>5, PositionsAreList
  <2>7. ASSUME NEW i \in 1..k PROVE list[i] \in FitItems
    <3> DEFINE j == kept[i]
    <3>1. j \in 1..n
      BY <2>6, <2>7
    <3>2. show[j] \in Texts
      BY <3>1, <2>3, TextsAreNumbers
    <3>3. url(links, j) \in {"twitter"} \X Texts
      <4>1. CASE j <= Len(links)
        <5>1. links[j] \in Texts
          BY <4>1, <3>1, <2>4, <2>5, TextsAreNumbers
        <5> QED
          BY <4>1, <5>1
      <4>2. CASE ~(j <= Len(links))
        BY <4>2, TextsAreNumbers DEF PageOf
      <4> QED
        BY <4>1, <4>2
    <3>4. list[i] = Item(url(links, j), show[j])
      BY <2>2, <2>6, <2>7
    <3> HIDE DEF url, j
    <3> QED
      BY <3>2, <3>3, <3>4, PairedItemFits
  <2>8. list = [i \in 1..k |-> list[i]]
    BY <2>2, <2>6
  <2> QED
    BY <2>7, <2>8, ListOf
<1> QED
  BY <1>1, <1>2, <1>3

\* Whatever a page shows, a scraper returns a list of items that fit.
LEMMA PageFinds ==
  ASSUME ~grokKey \/ source = "news", source \in Platforms, NEW list \in PageItems(source)
  PROVE  list \in Seq(FitItems)
<1>1. CASE source = "facebook"
  BY <1>1, FacebookFinds DEF PageItems
<1>2. CASE source = "instagram"
  BY <1>2, InstagramFinds DEF PageItems
<1>3. CASE source = "twitter"
  BY <1>3, TwitterFinds DEF PageItems
<1>4. CASE source = "news"
  <2>1. PICK t \in Texts : list = <<Item(PageOf(source), t)>>
    BY <1>4 DEF PageItems, NewsItems
  <2> QED
    BY <2>1, <1>4, SingleFinds
<1>5. source # "grok_topic"
  BY DEF PageItems
<1> QED
  BY <1>1, <1>2, <1>3, <1>4, <1>5 DEF Platforms

-----------------------------------------------------------------------------
(* The pass. *)

\* Where a scraper is, its platform and the key lead it.
Routed ==
  /\ at \in {"launch", "page"} => ~grokKey \/ source = "news"
  /\ at = "static" => source = "news"
  /\ at = "grok" => grokKey

EndedIsIdle == limit = "ended" => at = "idle"

\* Where the pass is.
ControlOK ==
  /\ todo \subseteq Platforms
  /\ source \in Platforms
  /\ at \in {"idle", "next", "grok", "static", "launch", "page", "save"}
  /\ attempt \in 0..MaxAttempts
  /\ open \in BOOLEAN
  /\ (open <=> at = "page")
  /\ limit \in {"ahead", "swallowed", "ended"}
  /\ scrapes \in Nat
  /\ Routed
  /\ EndedIsIdle
  /\ OnlyTheLimitSkipsSources

\* The scrapers that were cut off, and their browsers.
BehindOK ==
  /\ cut \in 0..(left - holding)
  /\ adrift \in 0..cut
  /\ stray \in 0..lost

\* What is dropped was stored.
DroppedIsStored == \A u \in dropped : stored[u] # Absent

\* What was found and what is stored.
DataOK ==
  /\ items \in Seq(FitItems)
  /\ stored \in [Urls -> Texts \cup {Absent}]
  /\ dropped \subseteq Urls
  /\ TextOfItsUrl
  /\ OnlyTheseLoseAText
  /\ DroppedIsStored

ConfigOK ==
  /\ grokKey \in BOOLEAN
  /\ single \subseteq {"instagram", "twitter"}

Inv == LoopInv /\ ConfigOK /\ BehindOK /\ ControlOK /\ DataOK

LEMMA Types == Inv => TypeOK
<1>1. Seq(FitItems) \subseteq Seq(Items)
  BY DEF FitItems
<1>2. Inv => stray \in Nat
  BY DEF Inv, LoopInv, LoopTypeOK, BehindOK
<1> QED
  BY <1>1, <1>2 DEF Inv, LoopInv, ConfigOK, BehindOK, ControlOK, DataOK, TypeOK, Items

LEMMA Start == Init => Inv
<1> SUFFICES ASSUME Init PROVE Inv
  OBVIOUS
<1>1. LoopInv
  BY LoopStart DEF Init
<1>2. ConfigOK
  BY DEF Init, ConfigOK
<1>3. ControlOK
  <2>1. at = "idle" /\ limit = "ahead" /\ todo = {} /\ open = FALSE
    BY DEF Init
  <2>2. attempt \in 0..MaxAttempts /\ scrapes \in Nat /\ source \in Platforms
    BY ScrapingAssumption DEF Init, Platforms
  <2>3. open \in BOOLEAN /\ (open <=> at = "page")
    BY <2>1
  <2>4. Routed /\ EndedIsIdle /\ OnlyTheLimitSkipsSources
    BY <2>1 DEF Routed, EndedIsIdle, OnlyTheLimitSkipsSources
  <2> QED
    BY <2>1, <2>2, <2>3, <2>4 DEF ControlOK
<1>4. DataOK
  <2>1. items \in Seq(FitItems)
    BY DEF Init
  <2> QED
    BY <2>1 DEF Init, DataOK, TextOfItsUrl, OnlyTheseLoseAText, DroppedIsStored
<1>5. BehindOK
  BY DEF Init, LoopInit, BehindOK
<1> QED
  BY <1>1, <1>2, <1>3, <1>4, <1>5 DEF Inv

\* Whatever a step of the pass or of a task beside it does to the loop is one of
\* the loop's own steps.
LEMMA StepOfLoop == [Next]_vars => [LoopNext]_loopVars
BY DEF vars, worker, loopVars, Next, SoftLimit, BeginPass, ScrapeOne, GrokSearch, FetchStatic, Launch, LaunchTransient,
   PageFails, ReadPage, UpsertPost, UpsertFails, SourceDone, EndPass, LimitInLoop, LimitInScraper,
   LimitSwallowed, LimitInPass, OtherTask, ResumeBeside, Yield, FailSource,
   LeaveScraper, GoOn, LoseLoop, LoopNext

LEMMA StepLoop == Inv /\ [Next]_vars => LoopInv'
BY StepOfLoop, LoopStep DEF Inv

LEMMA StepBehind == Inv /\ [Next]_vars => BehindOK'
<1> SUFFICES ASSUME Inv, [Next]_vars PROVE BehindOK'
  OBVIOUS
<1> USE DEF BehindOK, behind
<1>1. BehindOK /\ left \in Nat /\ lost \in Nat /\ holding \in 0..left
  BY DEF Inv, LoopInv, LoopTypeOK
<1>2. CASE UNCHANGED worker
  BY <1>1, <1>2 DEF worker, loopVars
<1>3. ASSUME GoOn PROVE BehindOK'
  BY <1>1, <1>3 DEF GoOn, Resume, loopVars
<1>4. CASE LimitInLoop
  <2>1. LeaveScraper
    BY <1>4 DEF LimitInLoop
  <2>2. CASE loop = "kept"
    BY <1>1, <2>1, <2>2 DEF LeaveScraper, CutOff
  <2>3. CASE loop # "kept"
    BY <1>1, <2>1, <2>3 DEF LeaveScraper, CutOff
  <2> QED
    BY <2>2, <2>3
<1>5. CASE OtherTask
  <2>1. CASE LoseLoop
    BY <1>1, <2>1 DEF LoseLoop, RaiseRuntimeError
  <2>2. CASE (CutOff \/ CutOffReport \/ EndReport \/ SpoilReport \/ Disconnect) /\ UNCHANGED behind
    BY <1>1, <2>2 DEF CutOff, CutOffReport, EndReport, SpoilReport, Disconnect
  <2> QED
    BY <1>5, <1>3, <2>1, <2>2 DEF OtherTask
<1>6. CASE ResumeBeside
  BY <1>6, <1>3 DEF ResumeBeside
<1>7. UNCHANGED worker \/ LimitInLoop \/ OtherTask \/ ResumeBeside
  BY DEF vars, Next, SoftLimit, BeginPass, ScrapeOne, GrokSearch, FetchStatic, Launch, LaunchTransient,
     PageFails, ReadPage, UpsertPost, UpsertFails, SourceDone, EndPass, LimitInScraper, LimitSwallowed,
     LimitInPass, Yield, FailSource
<1> QED
  BY <1>2, <1>4, <1>5, <1>6, <1>7

LEMMA StepConfig == Inv /\ [Next]_vars => UNCHANGED config
BY DEF vars, config, Next, SoftLimit, BeginPass, ScrapeOne, GrokSearch, FetchStatic, Launch, LaunchTransient,
   PageFails, ReadPage, UpsertPost, UpsertFails, SourceDone, EndPass, LimitInLoop, LimitInScraper,
   LimitSwallowed, LimitInPass, OtherTask, ResumeBeside, Yield, FailSource

LEMMA FirstSteps ==
  ASSUME NEW s \in Platforms
  PROVE  /\ FirstStep(s) \in {"next", "grok", "static", "launch"}
         /\ FirstStep(s) = "launch" => ~grokKey
         /\ FirstStep(s) = "static" => s = "news"
         /\ FirstStep(s) = "grok" => grokKey
  BY DEF FirstStep, Platforms, Social

LEMMA PlatformsFinite == IsFiniteSet(Platforms)
<1>1. IsFiniteSet({"facebook"})
  BY FS_Singleton
<1>2. IsFiniteSet({"facebook"} \cup {"instagram"})
  BY <1>1, FS_AddElement
<1>3. IsFiniteSet({"facebook"} \cup {"instagram"} \cup {"twitter"})
  BY <1>2, FS_AddElement
<1>4. IsFiniteSet({"facebook"} \cup {"instagram"} \cup {"twitter"} \cup {"news"})
  BY <1>3, FS_AddElement
<1>5. IsFiniteSet({"facebook"} \cup {"instagram"} \cup {"twitter"} \cup {"news"} \cup {"grok_topic"})
  BY <1>4, FS_AddElement
<1>6. Platforms = {"facebook"} \cup {"instagram"} \cup {"twitter"} \cup {"news"} \cup {"grok_topic"}
  BY DEF Platforms
<1> QED
  BY <1>5, <1>6

LEMMA StepControl == Inv /\ [Next]_vars => ControlOK'
<1> SUFFICES ASSUME ControlOK, UNCHANGED config, [Next]_vars PROVE ControlOK'
  BY StepConfig DEF Inv
<1>0. 0 \in 0..MaxAttempts /\ 1 \in 0..MaxAttempts
  BY ScrapingAssumption
<1> USE DEF ControlOK, Routed, EndedIsIdle, OnlyTheLimitSkipsSources, config, pass
<1>1. ASSUME BeginPass PROVE ControlOK'
  <2>1. todo' \subseteq Platforms /\ scrapes' \in Nat
    <3>2. IsFiniteSet(todo')
      BY <1>1, PlatformsFinite, FS_Subset DEF BeginPass
    <3>3. Cardinality(todo') \in Nat
      BY <3>2, FS_CardinalityType
    <3> QED
      BY <1>1, <3>3 DEF BeginPass
  <2> QED
    BY <1>1, <2>1 DEF BeginPass
<1>2. ASSUME NEW s \in Platforms, ScrapeOne(s) PROVE ControlOK'
  BY <1>2, FirstSteps, <1>0 DEF ScrapeOne
<1>3. ASSUME GrokSearch \/ FetchStatic \/ Launch \/ PageFails \/ ReadPage PROVE ControlOK'
  <2>1. ASSUME NEW list, Yield(list), at \notin {"idle", "next"} PROVE ControlOK'
    BY <2>1, <1>0 DEF Yield
  <2>2. CASE GrokSearch \/ ReadPage
    BY <2>1, <2>2, <1>0 DEF GrokSearch, ReadPage, FailSource
  <2>3. CASE FetchStatic
    <3>1. CASE \E list \in NewsItems(source) : Yield(list)
      BY <2>1, <2>3, <3>1 DEF FetchStatic
    <3>2. CASE at' = "launch" /\ UNCHANGED <<config, pass, attempt, open, items, table, limit, worker>>
      BY <2>3, <3>2 DEF FetchStatic
    <3> QED
      BY <2>3, <3>1, <3>2 DEF FetchStatic
  <2>4. CASE Launch
    BY <2>4 DEF Launch
  <2>5. CASE PageFails
    BY <2>5, <1>0 DEF PageFails, FailSource
  <2> QED
    BY <1>3, <2>2, <2>3, <2>4, <2>5
<1>4. ASSUME LaunchTransient PROVE ControlOK'
  <2>1. CASE attempt < MaxAttempts
    <3>1. attempt' \in 0..MaxAttempts
      BY <1>4, <2>1, ScrapingAssumption DEF LaunchTransient
    <3>2. at' = FirstStep(source) /\ at = "launch"
          /\ UNCHANGED <<todo, source, scrapes, grokKey, open, limit>>
      BY <1>4, <2>1 DEF LaunchTransient
    <3>3. /\ at' \in {"next", "grok", "static", "launch"}
          /\ at' = "launch" => ~grokKey
          /\ at' = "static" => source = "news"
          /\ at' = "grok" => grokKey
      BY <3>2, FirstSteps
    <3> QED
      BY <3>1, <3>2, <3>3
  <2>2. CASE ~(attempt < MaxAttempts)
    BY <1>4, <2>2, <1>0 DEF LaunchTransient, FailSource
  <2> QED
    BY <2>1, <2>2
<1>5. ASSUME UpsertPost \/ UpsertFails \/ SourceDone \/ EndPass PROVE ControlOK'
  BY <1>5 DEF UpsertPost, UpsertFails, SourceDone, EndPass
<1>6. ASSUME SoftLimit PROVE ControlOK'
  <2>1. CASE LimitInLoop
    BY <2>1, <1>0 DEF LimitInLoop
  <2>2. CASE LimitInScraper
    BY <2>2, <1>0 DEF LimitInScraper
  <2>3. CASE LimitSwallowed
    BY <2>3, <1>0 DEF LimitSwallowed
  <2>4. CASE LimitInPass
    BY <2>4 DEF LimitInPass
  <2> QED
    BY <1>6, <2>1, <2>2, <2>3, <2>4 DEF SoftLimit
<1>7. ASSUME OtherTask \/ ResumeBeside PROVE ControlOK'
  BY <1>7 DEF OtherTask, ResumeBeside
<1>8. ASSUME UNCHANGED vars PROVE ControlOK'
  BY <1>8 DEF vars
<1> QED
  BY <1>1, <1>2, <1>3, <1>4, <1>5, <1>6, <1>7, <1>8 DEF Next

\* upsert_post keeps what fits: a text is refused only under a URL that is taken.
LEMMA UpsertKeeps == Inv /\ UpsertPost => DataOK'
<1> SUFFICES ASSUME DataOK, UpsertPost PROVE DataOK'
  BY DEF Inv
<1> DEFINE url == Head(items).url
           text == Sanitize(Head(items).text)
<1>1. UNCHANGED grokKey
  BY DEF UpsertPost, config
<1>2. Head(items) \in FitItems /\ items' \in Seq(FitItems)
  BY DEF UpsertPost, DataOK
<1>3. url \in Urls /\ text \in Texts /\ text # Absent
  BY <1>2, ScrapingAssumption DEF FitItems, Items, Texts, Absent, Sanitize
<1>4. ~grokKey /\ url[2] # 0 /\ ~Pairs(url[1]) => text \in {0, url[2]}
  BY <1>2 DEF FitItems, Fits, Sanitize
<1>5. /\ stored' = IF stored[url] = Absent THEN [stored EXCEPT ![url] = text] ELSE stored
      /\ dropped' = IF text # 0 /\ stored'[url] # text THEN dropped \cup {url} ELSE dropped
  BY DEF UpsertPost
<1> HIDE DEF url, text
<1>6. /\ stored' \in [Urls -> Texts \cup {Absent}]
      /\ \A u \in Urls : stored'[u] = IF u = url /\ stored[u] = Absent THEN text ELSE stored[u]
  BY <1>3, <1>5 DEF DataOK
<1>7. FitItems' = FitItems /\ \A p : Pairs(p)' <=> Pairs(p)
  BY <1>1 DEF FitItems, Fits, Pairs
<1>8. TextOfItsUrl'
  BY <1>1, <1>4, <1>6, <1>7 DEF TextOfItsUrl, DataOK
<1>9. dropped' \subseteq Urls /\ DroppedIsStored'
  BY <1>3, <1>5, <1>6 DEF DataOK, DroppedIsStored
<1>10. OnlyTheseLoseAText'
  <2> SUFFICES ASSUME ~grokKey, NEW u \in dropped' PROVE u[2] = 0 \/ Pairs(u[1]) \/ stored'[u] = 0
    BY <1>1, <1>7 DEF OnlyTheseLoseAText
  <2>1. CASE u \in dropped
    BY <2>1, <1>3, <1>6 DEF DataOK, OnlyTheseLoseAText, DroppedIsStored
  <2>2. CASE u = url /\ text # 0 /\ stored'[url] # text
    BY <2>2, <1>3, <1>4, <1>6 DEF DataOK, TextOfItsUrl
  <2> QED
    BY <2>1, <2>2, <1>5
<1> QED
  BY <1>2, <1>6, <1>7, <1>8, <1>9, <1>10 DEF DataOK

LEMMA StepData == Inv /\ [Next]_vars => DataOK'
<1> SUFFICES ASSUME Inv, [Next]_vars PROVE DataOK'
  OBVIOUS
<1>1. UNCHANGED <<grokKey, single>>
  BY StepConfig DEF config
<1>2. ASSUME items' \in Seq(FitItems), UNCHANGED table PROVE DataOK'
  <2>1. FitItems' = FitItems /\ \A p : Pairs(p)' <=> Pairs(p)
    BY <1>1 DEF FitItems, Fits, Pairs
  <2> QED
    BY <1>1, <1>2, <2>1
    DEF Inv, DataOK, table, TextOfItsUrl, OnlyTheseLoseAText, DroppedIsStored
<1>3. items \in Seq(FitItems) /\ <<>> \in Seq(FitItems)
  BY DEF Inv, DataOK
<1>4. items # <<>> => Tail(items) \in Seq(FitItems)
  BY <1>3
<1>5. CASE GrokSearch
  <2>1. CASE FailSource
    BY <2>1, <1>2, <1>3 DEF FailSource
  <2>2. CASE \E list \in GrokItems : Yield(list)
    <3>1. PICK list \in GrokItems : Yield(list)
      BY <2>2
    <3>2. grokKey
      BY <1>5 DEF GrokSearch, Inv, ControlOK, Routed
    <3> QED
      BY <3>1, <3>2, <1>2, GrokFinds DEF Yield
  <2> QED
    BY <1>5, <2>1, <2>2 DEF GrokSearch
<1>6. CASE FetchStatic
  <2>1. CASE \E list \in NewsItems(source) : Yield(list)
    <3>1. PICK t \in Texts : Yield(<<Item(PageOf(source), t)>>)
      BY <2>1 DEF NewsItems
    <3> QED
      BY <3>1, <1>2, SingleFinds DEF Yield, Inv, ControlOK
  <2>2. CASE UNCHANGED <<items, table>>
    BY <2>2, <1>2, <1>3
  <2> QED
    BY <1>6, <2>1, <2>2 DEF FetchStatic
<1>7. CASE ReadPage
  <2>1. PICK list \in PageItems(source) : Yield(list)
    BY <1>7 DEF ReadPage
  <2>2. (~grokKey \/ source = "news") /\ source \in Platforms
    BY <1>7 DEF ReadPage, Inv, ControlOK, Routed
  <2> QED
    BY <2>1, <2>2, <1>2, PageFinds DEF Yield
<1>8. CASE UpsertPost
  BY <1>8, UpsertKeeps
<1>9. CASE UpsertFails
  BY <1>9, <1>2, <1>4 DEF UpsertFails
<1>10. CASE SoftLimit
  BY <1>10, <1>2, <1>3, <1>4
  DEF SoftLimit, LimitInLoop, LimitInScraper, LimitSwallowed, LimitInPass
<1>11. CASE UNCHANGED <<items, table>>
  BY <1>11, <1>2, <1>3
<1>12. \/ GrokSearch \/ FetchStatic \/ ReadPage \/ UpsertPost \/ UpsertFails \/ SoftLimit
       \/ UNCHANGED <<items, table>>
  BY DEF Next, vars, table, BeginPass, ScrapeOne, Launch, LaunchTransient, PageFails, SourceDone, EndPass,
     OtherTask, ResumeBeside, FailSource
<1> QED
  BY <1>5, <1>6, <1>7, <1>8, <1>9, <1>10, <1>11, <1>12

LEMMA Step == Inv /\ [Next]_vars => Inv'
  BY StepLoop, StepConfig, StepBehind, StepControl, StepData DEF Inv, ConfigOK, config

LEMMA Always == Spec => []Inv
  BY Start, Step, PTL DEF Spec

-----------------------------------------------------------------------------
(* The theorems. *)

\* The variables keep their types, those of the pass and of the loop below it.
THEOREM ScrapingTypeCorrect == Spec => []TypeOK
  BY Always, Types, PTL

\* A browser runs for the page being read, for a scraper the limit left suspended
\* or for one whose loop is gone: nothing else in scrape() leaves one behind.
THEOREM BrowsersCounted == Spec => []BrowsersAreAccounted
<1>1. Inv => BrowsersAreAccounted
  BY DEF Inv, LoopInv, LoopTypeOK, BehindOK, ControlOK, BrowsersAreAccounted
<1> QED
  BY <1>1, Always, PTL

\* Without a Grok key a post is stored with its own text or with none (upsert_post),
\* whatever was missing on the page and whatever sanitize_record left of it, except
\* where links and texts are paired by position.
THEOREM TextsStayWithUrls == Spec => []TextOfItsUrl
<1>1. Inv => TextOfItsUrl
  BY DEF Inv, DataOK
<1> QED
  BY <1>1, Always, PTL

\* Without a Grok key a text is lost only under a page's URL, a paired one, or one
\* stored blank.
THEOREM TextsLostHere == Spec => []OnlyTheseLoseAText
<1>1. Inv => OnlyTheseLoseAText
  BY DEF Inv, DataOK
<1> QED
  BY <1>1, Always, PTL

\* Whatever fails in scrape_sources, only the limit leaves a source untried.
THEOREM SourcesTried == Spec => []OnlyTheLimitSkipsSources
<1>1. Inv => OnlyTheLimitSkipsSources
  BY DEF Inv, ControlOK
<1> QED
  BY <1>1, Always, PTL

\* Between the limit that ended a pass and the next pass nothing is begun or
\* stored, although a coroutine that was cut off may go on.
THEOREM LimitIsFinal == Spec => NothingAfterTheLimit
<1>1. ASSUME Inv, [Next]_vars, limit = "ended", limit' = "ended"
      PROVE  UNCHANGED <<todo, stored>>
  <2>1. at = "idle"
    BY <1>1 DEF Inv, ControlOK, EndedIsIdle
  <2> QED
    BY <1>1, <2>1
    DEF vars, pass, table, Next, SoftLimit, BeginPass, ScrapeOne, GrokSearch, FetchStatic, Launch,
        LaunchTransient, PageFails, ReadPage, UpsertPost, UpsertFails, SourceDone, EndPass, LimitInLoop,
        LimitInScraper, LimitSwallowed, LimitInPass, OtherTask, ResumeBeside, Running, Yield, FailSource
<1>2. Inv /\ [Next]_vars
        => [limit = "ended" /\ limit' = "ended" => UNCHANGED <<todo, stored>>]_vars
  BY <1>1
<1> QED
  BY <1>2, Always, PTL DEF Spec, NothingAfterTheLimit

-----------------------------------------------------------------------------
\* Whichever tasks the worker runs on its loops, reports that fail on a connection
\* whose loop is gone are paid for by reports that had one of their own, and no
\* coroutine outlives the kept loop.
THEOREM LoopKeepsItsPromises == LoopSpec => [](NothingOutlivesItsLoop /\ FailuresArePaid)
<1>1. LoopInv => NothingOutlivesItsLoop /\ FailuresArePaid
  BY DEF LoopInv
<1> QED
  BY <1>1, LoopStart, LoopStep, PTL DEF LoopSpec

\* The worker that scrapes implements the loop of EventLoop: the pass and the
\* tasks beside it do nothing to the loop that _run_async does not allow.
THEOREM ScrapingKeepsTheLoop == Spec => LoopSpec
<1>1. Init => LoopInit
  BY DEF Init
<1> QED
  BY <1>1, StepOfLoop, PTL DEF Spec, LoopSpec

\* So the promise holds of a worker that scrapes, whatever the pass does meanwhile.
THEOREM FailuresPaid == Spec => []FailuresArePaid
  BY LoopKeepsItsPromises, ScrapingKeepsTheLoop, PTL

=============================================================================
