------------------------------- MODULE Reports -------------------------------
(***************************************************************************)
(* generate_report (app/analysis/reports.py) with the queries it makes     *)
(* (app/analysis/aggregates.py), while workers write to the tables.  The   *)
(* session is at PostgreSQL's READ COMMITTED: every statement sees what is *)
(* committed when it starts, so each part of a report has its own state of *)
(* the tables.  What agrees between the parts rests on the order in which  *)
(* the workers write and on the order in which the report reads.           *)
(*                                                                         *)
(* The writers are those of PostLifecycle, which TaskPipeline implements.  *)
(* A number of the report is kept as the set of rows it counts.            *)
(***************************************************************************)
EXTENDS Naturals, Sequences, FiniteSets

CONSTANTS
  Verdicts,       \* the labels a post can be given
  AlertVerdicts,  \* those that are negative and of high urgency
  Topics,         \* table topics: the seven seeds, which fit the LIMIT of the query
  None,           \* SQL NULL
  AlertLimit,     \* alert_limit
  MaxPosts,       \* bound: posts stored in a behaviour
  MaxAnalyses     \* bound: analyses made in a behaviour

ASSUME ReportsAssumption ==
  /\ AlertVerdicts \subseteq Verdicts
  /\ None \notin Verdicts
  /\ None \notin Topics
  /\ AlertLimit \in Nat
  /\ MaxPosts \in Nat
  /\ MaxAnalyses \in Nat

VARIABLES
  given,       \* for every post, the verdicts its analyses gave
  shown,       \* for every post, its cached label
  inPeriod,    \* for every post, whether posted_at is known and in the report's period
  analyses,    \* table analysis_results: the post of each, and the linked topic
  seeded,      \* whether the tables topics and sentiment_scores have their rows
  at,          \* the statement the report comes to next
  summary,     \* posts in the sentiment summary
  byPlatform,  \* posts in its breakdown by platform
  topics,      \* analyses counted for every topic
  classified,  \* analyses in the total their shares refer to
  alertCount,  \* posts counted as alerts
  alerts,      \* posts listed as alerts
  timeline     \* posts on the timeline

tables == <<given, shown, inPeriod, analyses, seeded>>
counts == <<summary, byPlatform, topics, classified, alertCount, alerts, timeline>>
vars == <<given, shown, inPeriod, analyses, seeded, at, summary, byPlatform, topics,
          classified, alertCount, alerts, timeline>>

Lifecycle == INSTANCE PostLifecycle

-----------------------------------------------------------------------------
(* What the queries select. *)

\* cached_sentiment_label IS NOT NULL AND posted_at BETWEEN ...
Labelled == {p \in DOMAIN shown : inPeriod[p] /\ shown[p] # None}

\* analysis_results JOIN posts
Classified == {a \in DOMAIN analyses : inPeriod[analyses[a].post]}

\* ... JOIN analysis_result_topics ... GROUP BY topic
About(t) == {a \in Classified : analyses[a].topic = t}

-----------------------------------------------------------------------------
(* Mutants: slips the code could have made and the properties must notice. *)

\* The label is written before the analysis is saved.
ShowEarly(p, v) ==
  /\ shown' = [shown EXCEPT ![p] = v]
  /\ UNCHANGED <<given, inPeriod, analyses, seeded, at, counts>>

\* The total counts what has its cached label, like the summary.
CountLabelled ==
  /\ at = "classified"
  /\ classified' = {a \in Classified : analyses[a].post \in Labelled}
  /\ at' = "alertCount"
  /\ UNCHANGED <<tables, summary, byPlatform, topics, alertCount, alerts, timeline>>

\* The filters are not applied to the alerts.
AlertsOfAnyTime == {p \in DOMAIN shown : shown[p] \in AlertVerdicts}

\* The page has no LIMIT.
ListAll ==
  /\ at = "alerts"
  /\ alerts' = {p \in Labelled : shown[p] \in AlertVerdicts}
  /\ at' = "timeline"
  /\ UNCHANGED <<tables, summary, byPlatform, topics, classified, alertCount, timeline>>

-----------------------------------------------------------------------------
\* cached_urgency = 'high' AND cached_sentiment_label = 'negative', and the period.
Alerts == {p \in Labelled : shown[p] \in AlertVerdicts}

Init ==
  /\ Lifecycle!Init
  /\ inPeriod = <<>>
  /\ analyses = <<>>
  /\ seeded \in BOOLEAN
  /\ at = "idle"
  /\ summary = {}
  /\ byPlatform = {}
  /\ topics = [t \in Topics |-> {}]
  /\ classified = {}
  /\ alertCount = {}
  /\ alerts = {}
  /\ timeline = {}

-----------------------------------------------------------------------------
(* The workers. *)

\* seed_lookup_tables, when a worker process starts: all its rows or, when it
\* fails, none; the worker goes on either way.
SeedLookupTables ==
  /\ ~seeded
  /\ seeded' = TRUE
  /\ UNCHANGED <<given, shown, inPeriod, analyses, at, counts>>

\* upsert_post; scrapers may not find a date, and posts may be old.
StorePost ==
  /\ Len(given) < MaxPosts
  /\ Lifecycle!Store
  /\ \E b \in BOOLEAN : inPeriod' = Append(inPeriod, b)
  /\ UNCHANGED <<analyses, seeded, at, counts>>

\* save_analysis_result: get_or_create_sentiment_score adds a label that is
\* missing, but a topic that is not seeded is not linked.
SaveAnalysis(p, v) ==
  /\ Len(analyses) < MaxAnalyses
  /\ Lifecycle!Analyse(p, v)
  /\ \E t \in (IF seeded THEN Topics ELSE {None}) :
       analyses' = Append(analyses, [post |-> p, topic |-> t])
  /\ UNCHANGED <<inPeriod, seeded, at, counts>>

\* update_post_cache, by process_text_data or update_analytics.
ShowLabel(p, v) ==
  /\ Lifecycle!Show(p, v)
  /\ UNCHANGED <<inPeriod, analyses, seeded, at, counts>>

-----------------------------------------------------------------------------
(* generate_report: one statement after the other. *)

\* Every report has its period, by default the week before it begins.
BeginReport ==
  /\ at \in {"idle", "done"}
  /\ at' = "summary"
  /\ inPeriod' \in [DOMAIN given -> BOOLEAN]
  /\ summary' = {}
  /\ byPlatform' = {}
  /\ topics' = [t \in Topics |-> {}]
  /\ classified' = {}
  /\ alertCount' = {}
  /\ alerts' = {}
  /\ timeline' = {}
  /\ UNCHANGED <<given, shown, analyses, seeded>>

GetSentimentSummary ==
  /\ at = "summary"
  /\ summary' = Labelled
  /\ at' = "byPlatform"
  /\ UNCHANGED <<tables, byPlatform, topics, classified, alertCount, alerts, timeline>>

GetSummaryByPlatform ==
  /\ at = "byPlatform"
  /\ byPlatform' = Labelled
  /\ at' = "topics"
  /\ UNCHANGED <<tables, summary, topics, classified, alertCount, alerts, timeline>>

GetTrendingTopics ==
  /\ at = "topics"
  /\ topics' = [t \in Topics |-> About(t)]
  /\ at' = "classified"
  /\ UNCHANGED <<tables, summary, byPlatform, classified, alertCount, alerts, timeline>>

CountClassified ==
  /\ at = "classified"
  /\ classified' = Classified
  /\ at' = "alertCount"
  /\ UNCHANGED <<tables, summary, byPlatform, topics, alertCount, alerts, timeline>>

CountAlerts ==
  /\ at = "alertCount"
  /\ alertCount' = Alerts
  /\ at' = "alerts"
  /\ UNCHANGED <<tables, summary, byPlatform, topics, classified, alerts, timeline>>

\* ORDER BY posted_at DESC LIMIT: any of them, posts are not stored in that order.
ListAlerts ==
  /\ at = "alerts"
  /\ \E page \in SUBSET Alerts :
       /\ Cardinality(page) <= AlertLimit
       /\ page = Alerts \/ Cardinality(page) = AlertLimit
       /\ alerts' = page
  /\ at' = "timeline"
  /\ UNCHANGED <<tables, summary, byPlatform, topics, classified, alertCount, timeline>>

GetTimeline ==
  /\ at = "timeline"
  /\ timeline' = Labelled
  /\ at' = "done"
  /\ UNCHANGED <<tables, summary, byPlatform, topics, classified, alertCount, alerts>>

\* A statement raises: get_db rolls back, and there is no report.
ReportFails ==
  /\ at \notin {"idle", "done"}
  /\ at' = "idle"
  /\ UNCHANGED <<tables, counts>>

Report ==
  \/ BeginReport \/ GetSentimentSummary \/ GetSummaryByPlatform \/ GetTrendingTopics
  \/ CountClassified \/ CountAlerts \/ ListAlerts \/ GetTimeline \/ ReportFails

Next ==
  \/ SeedLookupTables
  \/ StorePost
  \/ \E p \in DOMAIN given, v \in Verdicts : SaveAnalysis(p, v) \/ ShowLabel(p, v)
  \/ Report

Spec == Init /\ [][Next]_vars

-----------------------------------------------------------------------------
(* Properties *)

Statements ==
  {"summary", "byPlatform", "topics", "classified", "alertCount", "alerts", "timeline"}

TableTypes ==
  /\ given \in Seq(SUBSET Verdicts)
  /\ shown \in Seq(Verdicts \cup {None})
  /\ inPeriod \in Seq(BOOLEAN)
  /\ analyses \in Seq([post : Nat, topic : Topics \cup {None}])
  /\ seeded \in BOOLEAN
  /\ Len(shown) = Len(given)
  /\ Len(inPeriod) = Len(given)
  /\ \A a \in DOMAIN analyses : analyses[a].post \in DOMAIN given

ReportTypes ==
  /\ at \in Statements \cup {"idle", "done"}
  /\ summary \subseteq DOMAIN given
  /\ byPlatform \subseteq DOMAIN given
  /\ topics \in [Topics -> SUBSET DOMAIN analyses]
  /\ classified \subseteq DOMAIN analyses
  /\ alertCount \subseteq DOMAIN given
  /\ alerts \subseteq DOMAIN given
  /\ Cardinality(alerts) <= AlertLimit
  /\ timeline \subseteq DOMAIN given

\* The types of the tables and of the parts of the report, which count rows
\* that exist, and the length of the list of alerts.
TypeOK == TableTypes /\ ReportTypes

\* The parts of a finished report contain each other in the order they were
\* read: the platforms add up to no less than the summary, the days of the
\* timeline to no less than the platforms, and all alerts are on the timeline.
LaterPartsCoverEarlier ==
  at = "done" =>
    /\ summary \subseteq byPlatform
    /\ byPlatform \subseteq timeline
    /\ alertCount \cup alerts \subseteq timeline

\* The shares of the topics add up to 100 % at most, although the counts and
\* their total come from two statements.
SharesAddUp ==
  at = "done" =>
    /\ \A t \in Topics : topics[t] \subseteq classified
    /\ \A s, t \in Topics : s # t => topics[s] \cap topics[t] = {}

\* Every post of the summary is among the classified ones: the workers save an
\* analysis before its label, and the report reads the labels before the
\* analyses.
SummaryIsClassified ==
  at = "done" =>
    \A p \in summary : \E a \in classified : analyses[a].post = p

=============================================================================
