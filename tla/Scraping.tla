------------------------------- MODULE Scraping -------------------------------
(***************************************************************************)
(* scrape_sources on one Celery worker process: the scrapers of            *)
(* app/ingestion/scrapers, the retry of BaseScraper.scrape, the routing of *)
(* _scrape_one and the loop over the sources (app/scheduler/tasks.py), on  *)
(* the process's event loop.  Between passes the process runs other tasks, *)
(* which use the same loop.                                                *)
(*                                                                         *)
(* A source is known by its platform.  Its posts are numbered; <<s, n>> is *)
(* the URL of post n of source s and <<s, 0>> that of the source's page.   *)
(* The text of a post is its number, and 0 is the empty text, which is all *)
(* that privacy.sanitize leaves of some texts.  What a page shows differs  *)
(* from visit to visit.                                                    *)
(***************************************************************************)
EXTENDS EventLoop, Integers, Sequences, FiniteSets

CONSTANTS
  MaxPosts,     \* bound: posts of a source
  Private,      \* posts, by their URLs, of whose text sanitize leaves nothing
  MaxShown,     \* bound: posts a page shows at once (max_posts, max_tweets)
  MaxFound,     \* bound: posts a Grok search finds (max_results)
  MaxScrapes,   \* bound: sources scraped in a behaviour
  MaxAttempts   \* stop_after_attempt of scrape()

ASSUME ScrapingAssumption ==
  /\ MaxPosts \in Nat \ {0}
  /\ MaxShown \in Nat
  /\ MaxFound \in Nat
  /\ MaxScrapes \in Nat
  /\ MaxAttempts \in Nat \ {0}

VARIABLES
  grokKey,   \* whether GROK_API_KEY is set
  single,    \* sources that are the URL of one post, not of a profile
  todo,      \* sources the pass has not come to
  source,    \* the source being scraped
  at,        \* "idle" between passes, "next" between sources, or what is done for one
  attempt,   \* attempts of scrape() for it, 0 when none is running
  open,      \* whether its browser is open
  cut,       \* scrapers among the coroutines cut off on the kept loop
  adrift,    \* browsers of these
  stray,     \* browsers of scrapers whose loop will never run again: nothing closes them
  items,     \* what it returned and is not saved yet
  stored,    \* table posts: the text under every URL
  dropped,   \* URLs under which a text was skipped for another that came first
  limit,     \* the soft time limit: "ahead", "swallowed", or it "ended" the pass
  scrapes    \* sources scraped so far

config == <<grokKey, single>>
behind == <<cut, adrift, stray>>
pass == <<todo, source, scrapes>>
table == <<stored, dropped>>
worker == <<behind, loopVars>>
vars == <<grokKey, single, todo, source, at, attempt, open, items, stored, dropped, limit, scrapes,
          worker>>

Platforms == {"facebook", "instagram", "twitter", "news", "grok_topic"}

\* Those that GrokSearchScraper takes over.
Social == Platforms \ {"news"}

Texts == 0..MaxPosts

Urls == Platforms \X Texts

ASSUME PrivateAssumption == Private \subseteq Urls

Absent == -1

PageOf(s) == <<s, 0>>

Item(url, text) == [url |-> url, text |-> text]

\* Different posts of a page, in the order they are found.
Showings ==
  UNION {{f \in [1..k -> 1..MaxPosts] : \A i, j \in 1..k : f[i] = f[j] => i = j} : k \in 0..MaxShown}

Running == at \in {"grok", "static", "launch", "page"}

\* What scrape() does first, the platform permitting.
FirstStep(s) ==
  CASE s \in Social /\ grokKey -> "grok"
    [] s = "news" -> "static"
    [] s = "grok_topic" /\ ~grokKey -> "next"
    [] OTHER -> "launch"

\* The coroutine is left as it is, with its browser or one that is just being
\* launched.
LeaveScraper ==
  /\ CutOff
  /\ \E browsers \in {0, 1} :
       /\ browsers = 1 => at \in {"launch", "page"}
       /\ browsers = 0 => at # "page"
       /\ IF loop = "kept"
          THEN /\ cut' = IF at = "grok" THEN cut ELSE cut + 1
               /\ adrift' = adrift + browsers
               /\ UNCHANGED stray
          ELSE /\ stray' = stray + browsers
               /\ UNCHANGED <<cut, adrift>>

-----------------------------------------------------------------------------
(* Mutants: slips the code could have made and the properties must notice. *)

\* post_url is not reset: a post without a link gets that of the one before.
FacebookLinkKept(s) ==
  UNION {{[i \in DOMAIN show |-> Item(<<s, link[i]>>, show[i])] :
            link \in {l \in [DOMAIN show -> 1..MaxPosts] :
                        \A i \in DOMAIN show : l[i] # show[i] => i > 1 /\ l[i] = show[i - 1]}} :
         show \in Showings}

\* text is not reset: a post without a caption gets that of the one before.
InstagramCaptionKept(s) ==
  IF s \in single THEN {<<Item(PageOf(s), t)>> : t \in {0, 1}}
  ELSE UNION {{[i \in DOMAIN show |-> Item(<<s, show[i]>>, text[i])] :
                 text \in {t \in [DOMAIN show -> Texts] :
                             \A i \in DOMAIN show : t[i] = show[i] \/ t[i] = IF i = 1 THEN 0 ELSE t[i - 1]}} :
              show \in Showings}

\* The pass ends with the first source that fails.
FailPass ==
  /\ at' = "idle"
  /\ open' = FALSE
  /\ attempt' = 0
  /\ UNCHANGED <<config, pass, items, table, limit, worker>>

\* The browser is closed only when the page was read.
FailOpen ==
  /\ at' = "next"
  /\ attempt' = 0
  /\ UNCHANGED <<config, pass, open, items, table, limit, worker>>

\* After the limit the pass goes on with the next source.
LimitGoesOn ==
  /\ Running
  /\ limit = "ahead"
  /\ limit' = "ended"
  /\ at' = "next"
  /\ open' = FALSE
  /\ attempt' = 0
  /\ LeaveScraper
  /\ UNCHANGED <<config, pass, items, table>>

\* One attempt too many.
LaunchAgain ==
  /\ at = "launch"
  /\ attempt <= MaxAttempts
  /\ attempt' = attempt + 1
  /\ at' = FirstStep(source)
  /\ UNCHANGED <<config, pass, open, items, table, limit, worker>>

-----------------------------------------------------------------------------
(* What a visit may find.                                                  *)

\* Every article has its own link or gets the URL of the page, and its text
\* may not be there (yet); a page without articles gives a placeholder.  An
\* article that raises is skipped.
FacebookItems(s) ==
  {<<Item(PageOf(s), 0)>>} \cup
  UNION {{[i \in DOMAIN show |-> Item(<<s, link[i]>>, text[i])] :
            link \in {l \in [DOMAIN show -> Texts] : \A i \in DOMAIN show : l[i] \in {0, show[i]}},
            text \in {t \in [DOMAIN show -> Texts] : \A i \in DOMAIN show : t[i] \in {0, show[i]}}} :
         show \in Showings \ {<<>>}}

\* Every link is visited and its caption, which may be missing, taken.
InstagramItems(s) ==
  IF s \in single THEN {<<Item(PageOf(s), t)>> : t \in {0, 1}}
  ELSE UNION {{[i \in DOMAIN show |-> Item(<<s, show[i]>>, text[i])] :
                 text \in {t \in [DOMAIN show -> Texts] : \A i \in DOMAIN show : t[i] \in {0, show[i]}}} :
              show \in Showings}

\* Some of the positions 1..n, in their order.
Positions(n) ==
  UNION {{f \in [1..k -> 1..n] : \A i, j \in 1..k : i < j => f[i] < f[j]} : k \in 0..n}

\* The i-th text is paired with the i-th status link, whosever that is (a photo
\* has one too), or with the URL of the page when there are fewer; tweets
\* without a text are skipped but keep their place.
TwitterItems(s) ==
  IF s \in single THEN {<<Item(PageOf(s), t)>> : t \in {0, 1}}
  ELSE {<<Item(PageOf(s), 0)>>} \cup
       UNION {{[k \in DOMAIN kept |->
                  Item(IF kept[k] <= Len(links) THEN <<s, links[kept[k]]>> ELSE PageOf(s), show[kept[k]])] :
                 links \in Showings, kept \in Positions(Len(show)) \ {<<>>}} :
              show \in Showings}

\* One article, whichever the page shows: always under the URL of the page.
NewsItems(s) == {<<Item(PageOf(s), t)>> : t \in Texts}

\* Posts with a text, under whatever URL the LLM gives each of them: its own, that
\* of the source, or any other.
GrokItems ==
  UNION {[1..k -> [url : Urls, text : 1..MaxPosts]] : k \in 0..MaxFound}

PageItems(s) ==
  CASE s = "facebook" -> FacebookItems(s)
    [] s = "instagram" -> InstagramItems(s)
    [] s = "twitter" -> TwitterItems(s)
    [] s = "news" -> NewsItems(s)
    [] OTHER -> {}

-----------------------------------------------------------------------------
Init ==
  /\ LoopInit
  /\ grokKey \in BOOLEAN
  /\ single \in (IF grokKey THEN {{}} ELSE SUBSET {"instagram", "twitter"})
  /\ todo = {}
  /\ source = "news"
  /\ at = "idle"
  /\ attempt = 0
  /\ open = FALSE
  /\ cut = 0
  /\ adrift = 0
  /\ stray = 0
  /\ items = <<>>
  /\ stored = [u \in Urls |-> Absent]
  /\ dropped = {}
  /\ limit = "ahead"
  /\ scrapes = 0

\* get_active_sources gives the sources of the pass.
BeginPass ==
  /\ at = "idle"
  /\ todo' \in SUBSET Platforms
  /\ scrapes' = scrapes + Cardinality(todo')
  /\ scrapes' <= MaxScrapes
  /\ limit' = "ahead"
  /\ at' = "next"
  /\ UNCHANGED <<config, source, attempt, open, items, table, worker>>

\* _scrape_one makes a new scraper for the next source.
ScrapeOne(s) ==
  /\ at = "next"
  /\ s \in todo
  /\ todo' = todo \ {s}
  /\ source' = s
  /\ at' = FirstStep(s)
  /\ attempt' = IF at' = "next" THEN 0 ELSE 1
  /\ UNCHANGED <<config, open, items, table, limit, scrapes, worker>>

Yield(list) ==
  /\ items' = list
  /\ at' = "save"
  /\ open' = FALSE
  /\ attempt' = 0
  /\ UNCHANGED <<config, pass, table, limit, worker>>

\* An exception of the scraper: the source is given up until the next pass.
FailSource ==
  /\ at' = "next"
  /\ open' = FALSE
  /\ attempt' = 0
  /\ UNCHANGED <<config, pass, items, table, limit, worker>>

\* _scrape_impl of GrokSearchScraper: an error of the API or a reply that is no
\* JSON gives no items, JSON of another shape raises.
GrokSearch ==
  /\ at = "grok"
  /\ (\E list \in GrokItems : Yield(list)) \/ FailSource

\* _fetch_static of NewsScraper, and the fallback when it returns None.
FetchStatic ==
  /\ at = "static"
  /\ \/ \E list \in NewsItems(source) : Yield(list)
     \/ at' = "launch" /\ UNCHANGED <<config, pass, attempt, open, items, table, limit, worker>>

\* The driver and the browser are started and a context is made.
Launch ==
  /\ at = "launch"
  /\ at' = "page"
  /\ open' = TRUE
  /\ UNCHANGED <<config, pass, attempt, items, table, limit, worker>>

\* OSError, ConnectionError or TimeoutError: the whole attempt is repeated,
\* unless it was the last one.
LaunchTransient ==
  /\ at = "launch"
  /\ IF attempt < MaxAttempts
     THEN /\ attempt' = attempt + 1
          /\ at' = FirstStep(source)
          /\ UNCHANGED <<config, pass, open, items, table, limit, worker>>
     ELSE FailSource

\* Playwright's own errors and timeouts are none of these: they are not retried.
PageFails ==
  /\ at \in {"launch", "page"}
  /\ FailSource

ReadPage ==
  /\ at = "page"
  /\ \E list \in PageItems(source) : Yield(list)

\* sanitize_record, as far as it empties a text.
Sanitize(text) == IF <<source, text>> \in Private THEN 0 ELSE text

\* upsert_post: the first text of a URL stays, without what identifies a person.
UpsertPost ==
  /\ at = "save"
  /\ items # <<>>
  /\ LET url == Head(items).url
         text == Sanitize(Head(items).text)
     IN  /\ stored' = IF stored[url] = Absent THEN [stored EXCEPT ![url] = text] ELSE stored
         /\ dropped' = IF text # 0 /\ stored'[url] # text THEN dropped \cup {url} ELSE dropped
  /\ items' = Tail(items)
  /\ UNCHANGED <<config, pass, at, attempt, open, limit, worker>>

\* upsert_post raises, and the next item is saved.
UpsertFails ==
  /\ at = "save"
  /\ items # <<>>
  /\ items' = Tail(items)
  /\ UNCHANGED <<config, pass, at, attempt, open, table, limit, worker>>

SourceDone ==
  /\ at = "save"
  /\ items = <<>>
  /\ at' = "next"
  /\ UNCHANGED <<config, pass, attempt, open, items, table, limit, worker>>

EndPass ==
  /\ at = "next"
  /\ todo = {}
  /\ at' = "idle"
  /\ UNCHANGED <<config, pass, attempt, open, items, table, limit, worker>>

-----------------------------------------------------------------------------
(* SoftTimeLimitExceeded. *)

\* It is raised while the event loop waits.
LimitInLoop ==
  /\ Running
  /\ limit = "ahead"
  /\ limit' = "ended"
  /\ at' = "idle"
  /\ open' = FALSE
  /\ attempt' = 0
  /\ LeaveScraper
  /\ UNCHANGED <<config, pass, items, table>>

\* It is raised in the scraper, which closes its browser and passes it on.
LimitInScraper ==
  /\ Running
  /\ limit = "ahead"
  /\ limit' = "ended"
  /\ at' = "idle"
  /\ open' = FALSE
  /\ attempt' = 0
  /\ UNCHANGED <<config, pass, items, table, worker>>

\* It is raised inside a try that excepts Exception: around the search, the
\* static request, an article of a Facebook page or upsert_post.
LimitSwallowed ==
  /\ limit = "ahead"
  /\ limit' = "swallowed"
  /\ \/ at = "grok" /\ at' = "save" /\ items' = <<>> /\ attempt' = 0
     \/ at = "static" /\ at' = "launch" /\ UNCHANGED <<items, attempt>>
     \/ at = "page" /\ source = "facebook" /\ UNCHANGED <<at, items, attempt>>
     \/ at = "save" /\ items # <<>> /\ items' = Tail(items) /\ UNCHANGED <<at, attempt>>
  /\ UNCHANGED <<config, pass, open, table, worker>>

\* It is raised between the calls of the pass.
LimitInPass ==
  /\ at \in {"next", "save"}
  /\ limit = "ahead"
  /\ limit' = "ended"
  /\ at' = "idle"
  /\ items' = <<>>
  /\ UNCHANGED <<config, pass, attempt, open, table, worker>>

SoftLimit == LimitInLoop \/ LimitInScraper \/ LimitSwallowed \/ LimitInPass

-----------------------------------------------------------------------------
\* While the kept loop runs, it goes on with what was cut off: a scraper may open
\* or close its browser, and a coroutine may end, a scraper without its browser.
GoOn ==
  \/ /\ loop = "kept"
     /\ adrift' \in 0..cut
     /\ UNCHANGED <<cut, stray, loopVars>>
  \/ /\ Resume
     /\ cut + holding' <= left'
     /\ UNCHANGED behind
  \/ /\ Resume
     /\ holding' = holding
     /\ adrift < cut
     /\ cut' = cut - 1
     /\ UNCHANGED <<adrift, stray>>

\* The loop of the thread is given up, with the scrapers that were left on it.
LoseLoop ==
  /\ RaiseRuntimeError
  /\ cut' = 0
  /\ adrift' = 0
  /\ stray' = stray + adrift

\* Tasks that run between the passes.
OtherTask ==
  /\ at = "idle"
  /\ \/ GoOn
     \/ LoseLoop
     \/ (CutOff \/ CutOffReport \/ EndReport \/ SpoilReport \/ Disconnect) /\ UNCHANGED behind
  /\ UNCHANGED <<config, pass, at, attempt, open, items, table, limit>>

\* The loop goes on with what was cut off while it runs the scraper.
ResumeBeside ==
  /\ Running
  /\ GoOn
  /\ UNCHANGED <<config, pass, at, attempt, open, items, table, limit>>

Next ==
  \/ BeginPass
  \/ \E s \in Platforms : ScrapeOne(s)
  \/ GrokSearch \/ FetchStatic \/ Launch \/ LaunchTransient \/ PageFails \/ ReadPage
  \/ UpsertPost \/ UpsertFails \/ SourceDone \/ EndPass
  \/ SoftLimit
  \/ OtherTask \/ ResumeBeside

Spec == Init /\ [][Next]_vars

-----------------------------------------------------------------------------
(* Properties *)

\* The types of the variables.
TypeOK ==
  /\ LoopTypeOK
  /\ grokKey \in BOOLEAN
  /\ single \subseteq {"instagram", "twitter"}
  /\ todo \subseteq Platforms
  /\ source \in Platforms
  /\ at \in {"idle", "next", "grok", "static", "launch", "page", "save"}
  /\ attempt \in 0..MaxAttempts
  /\ open \in BOOLEAN
  /\ cut \in 0..(left - holding)
  /\ adrift \in 0..cut
  /\ stray \in Nat
  /\ items \in Seq([url : Urls, text : Texts])
  /\ stored \in [Urls -> Texts \cup {Absent}]
  /\ dropped \subseteq Urls
  /\ limit \in {"ahead", "swallowed", "ended"}
  /\ scrapes \in Nat

\* Besides the browser of the page being read, a browser runs only for a scraper
\* that the soft time limit left suspended, or whose loop is gone: no failure, no
\* retry and no limit raised in a scraper leaves one behind.
BrowsersAreAccounted ==
  (IF open THEN 1 ELSE 0) + adrift + stray <= (IF at = "page" THEN 1 ELSE 0) + cut + lost

\* Scrapers that pair links and texts by their position.
Pairs(s) == s = "twitter" /\ ~grokKey

\* A scraper that reads pages stores a post under its own URL with its own text,
\* or with none (it was not there yet, or nothing but personal data), whatever was
\* missing on the page and for whatever visit; only the tweets of a profile may
\* carry the text of another.  What Grok finds is whatever the LLM says.
TextOfItsUrl ==
  ~grokKey => \A u \in Urls : u[2] # 0 /\ ~Pairs(u[1]) => stored[u] \in {Absent, 0, u[2]}

\* There are four ways in which a text that was read is lost to another: under the
\* URL of a page, which posts without a link share, on a Twitter profile, with the
\* URLs of an LLM, and after the post was stored without a text.
OnlyTheseLoseAText ==
  ~grokKey => \A u \in dropped : u[2] = 0 \/ Pairs(u[1]) \/ stored[u] = 0

\* Whatever fails, every source of the pass is tried, unless the soft time
\* limit ends it.
OnlyTheLimitSkipsSources ==
  at = "idle" /\ todo # {} => limit = "ended"

\* After the limit has ended a pass no source is begun and no post stored until
\* the next one, although the coroutine it cut off may still go on.
NothingAfterTheLimit ==
  [][limit = "ended" /\ limit' = "ended" => UNCHANGED <<todo, stored>>]_vars

=============================================================================
