---------------------------- MODULE NlpPipeline ----------------------------
(***************************************************************************)
(* process_record (app/processing/pipeline.py) for the posts of one        *)
(* process_text_data, with the retries of the LLM client (_llm.py), the    *)
(* classifiers it falls back to and the soft time limit of the task.       *)
(*                                                                         *)
(* A label is known by where it comes from: the combined reply, the reply  *)
(* to the classifier's own call, or the default.  The confidence of the    *)
(* record is kept in thirds, so that the mean of three is their sum.       *)
(***************************************************************************)
EXTENDS Integers

CONSTANTS
  MaxAttempts,  \* stop_after_attempt of llm_complete
  MaxConf,      \* the confidence 1.0
  BatchSize     \* posts of the batch

ASSUME NlpAssumption ==
  /\ MaxAttempts \in Nat \ {0}
  /\ MaxConf \in Nat \ {0}
  /\ BatchSize \in Nat

VARIABLES
  left,        \* posts of the batch not yet visited
  stage,       \* where process_record is with its post; "next" between posts
  cleaned,     \* clean_text left something to classify
  attempts,    \* failed attempts of the present llm_complete
  requests,    \* requests sent for this post
  replies,     \* replies to its classification, good or bad
  from,        \* where topic, sentiment and urgency come from
  conf,        \* the confidence of each
  confidence,  \* the confidence of the record, in thirds
  processed,   \* posts of the batch with a verdict
  failed,      \* posts of the batch that failed
  limit        \* the soft time limit: "ahead", "swallowed", or it "ended" the loop

batch == <<left, cleaned, processed, failed>>
record == <<from, conf, confidence>>
vars == <<left, stage, cleaned, attempts, requests, replies, from, conf, confidence,
          processed, failed, limit>>

Fields == {"topic", "sentiment", "urgency"}

\* The stages that wait for the LLM.
LlmStages == {"language", "combined"} \cup Fields

\* The order of the fallback's calls.
Following(f) ==
  CASE f = "topic" -> "sentiment" [] f = "sentiment" -> "urgency" [] f = "urgency" -> "save"

Classification == IF cleaned THEN "combined" ELSE "save"

Sum(c) == c["topic"] + c["sentiment"] + c["urgency"]

\* What an LLM may give for a confidence: too small, too large, in between.
\* NaN compares like one too large; a missing one is 0.5.
RawConfidences == -1..(MaxConf + 1)

Enter(s) == stage' = s /\ attempts' = 0

-----------------------------------------------------------------------------
(* Mutants: slips the code could have made and the properties must notice. *)

\* No clamping.
Unclamped(n) == n

\* The default label comes with the confidence of a missing number, 0.5.
DefaultHalf(f) ==
  /\ from' = [from EXCEPT ![f] = "default"]
  /\ conf' = [conf EXCEPT ![f] = MaxConf]
  /\ Enter(Following(f))
  /\ confidence' = IF Following(f) = "save" THEN Sum(conf') ELSE confidence
  /\ UNCHANGED batch

\* The valid labels of a combined reply are kept when another one is invalid.
CombinedInPart ==
  /\ from' \in [Fields -> {"combined", "default"}]
  /\ Enter("topic")
  /\ UNCHANGED <<batch, conf, confidence>>

\* process_record falls back when the combined call raises, too.
FallBack == Enter("topic") /\ UNCHANGED <<batch, record>>

\* The retry decorator has no stop.
RetryForever == UNCHANGED <<attempts, stage, batch, record>>

\* A post that fails is not counted, ...
FailUncounted == Enter("next") /\ UNCHANGED <<batch, record>>

\* ... or is put back to be tried again.
FailAgain ==
  /\ left' = left + 1
  /\ Enter("next")
  /\ UNCHANGED <<cleaned, processed, failed, record>>

-----------------------------------------------------------------------------
\* max(0.0, min(1.0, float(...)))
Clamp(n) == IF n < 0 THEN 0 ELSE IF n > MaxConf THEN MaxConf ELSE n

Init ==
  /\ left = BatchSize
  /\ stage = "next"
  /\ cleaned = FALSE
  /\ attempts = 0
  /\ requests = 0
  /\ replies = 0
  /\ from = [f \in Fields |-> "default"]
  /\ conf = [f \in Fields |-> 0]
  /\ confidence = 0
  /\ processed = 0
  /\ failed = 0
  /\ limit = "ahead"

\* The next post: cleaning may leave nothing of its text, and the heuristic
\* may be sure of the language or ask the LLM (for the text as it came, when
\* cleaning left nothing).
NextPost ==
  /\ stage = "next"
  /\ left > 0
  /\ left' = left - 1
  /\ cleaned' \in BOOLEAN
  /\ Enter("language") \/ Enter(Classification')
  /\ requests' = 0
  /\ replies' = 0
  /\ from' = [f \in Fields |-> "default"]
  /\ conf' = [f \in Fields |-> 0]
  /\ confidence' = 0
  /\ UNCHANGED <<processed, failed, limit>>

EndBatch ==
  /\ stage = "next"
  /\ left = 0
  /\ Enter("over")
  /\ UNCHANGED <<batch, requests, replies, record, limit>>

-----------------------------------------------------------------------------
(* How a stage ends. *)

\* The language is known, if only by default.
LanguageKnown == Enter(Classification) /\ UNCHANGED <<batch, record>>

\* A label of the fallback with its confidence; the record's is the mean.
Label(f, source, c) ==
  /\ from' = [from EXCEPT ![f] = source]
  /\ conf' = [conf EXCEPT ![f] = c]
  /\ Enter(Following(f))
  /\ confidence' = IF Following(f) = "save" THEN Sum(conf') ELSE confidence
  /\ UNCHANGED batch

DefaultLabel(f) == Label(f, "default", 0)

\* No usable labels: the three classifiers are asked one by one.
CombinedInvalid == Enter("topic") /\ UNCHANGED <<batch, record>>

\* An exception leaves process_record and the loop counts the post as failed.
RecordFails ==
  /\ failed' = failed + 1
  /\ Enter("next")
  /\ UNCHANGED <<left, cleaned, processed, record>>

\* SoftTimeLimitExceeded reaches the loop, which leaves this post and the rest.
Break == Enter("over") /\ UNCHANGED <<batch, record>>

\* llm_complete raises an error, or the time limit: detect_language and the
\* classifiers catch either and give their default, process_record neither.
Raise(uncaught) ==
  \/ stage = "language" /\ LanguageKnown
  \/ stage = "combined" /\ uncaught
  \/ stage \in Fields /\ DefaultLabel(stage)

\* Tenacity tries again after whatever exception, and raises the last one.
Retry ==
  /\ attempts' = attempts + 1
  /\ UNCHANGED <<stage, batch, record>>

AttemptFails(uncaught) ==
  /\ stage \in LlmStages
  /\ IF attempts + 1 < MaxAttempts THEN Retry ELSE Raise(uncaught)

-----------------------------------------------------------------------------
(* What happens to a request. *)

\* Any reply tells the language: two letters, or else the default.
LanguageReply ==
  /\ stage = "language"
  /\ LanguageKnown
  /\ requests' = requests + 1
  /\ UNCHANGED <<replies, limit>>

\* Labels from the lists and a number: taken as a whole.
CombinedValid ==
  /\ from' = [f \in Fields |-> "combined"]
  /\ \E raw \in RawConfidences : confidence' = 3 * Clamp(raw)
  /\ Enter("save")
  /\ UNCHANGED <<batch, conf>>

\* A usable reply; no JSON, an empty object or a label that is on no list; or
\* JSON that is no object or a confidence that is no number, which raises.
CombinedReply ==
  /\ stage = "combined"
  /\ CombinedValid \/ CombinedInvalid \/ RecordFails
  /\ requests' = requests + 1
  /\ replies' = replies + 1
  /\ UNCHANGED limit

\* A usable reply, or one that is not and so gives the default.
FieldReply(f) ==
  /\ stage = f
  /\ \/ \E raw \in RawConfidences : Label(f, "own", Clamp(raw))
     \/ DefaultLabel(f)
  /\ requests' = requests + 1
  /\ replies' = replies + 1
  /\ UNCHANGED limit

\* An attempt fails, at the LLM or before it is sent (no API key, no token of
\* the rate limiter).
RequestFails ==
  /\ AttemptFails(RecordFails)
  /\ requests' \in {requests, requests + 1}
  /\ UNCHANGED <<replies, limit>>

\* save_analysis_result and update_post_cache, or one of them fails.
Save ==
  /\ stage = "save"
  /\ Enter("next")
  /\ \/ processed' = processed + 1 /\ UNCHANGED failed
     \/ failed' = failed + 1 /\ UNCHANGED processed
  /\ UNCHANGED <<left, cleaned, requests, replies, record, limit>>

-----------------------------------------------------------------------------
(* The soft time limit is a signal, raised wherever the process is. *)

\* In the event loop, in the repository, or in the task itself.
LimitEndsLoop ==
  /\ limit = "ahead"
  /\ stage # "over"
  /\ Break
  /\ limit' = "ended"
  /\ UNCHANGED <<requests, replies>>

\* In llm_complete or the SDK: to tenacity it is a failed attempt.
LimitInCall ==
  /\ limit = "ahead"
  /\ AttemptFails(Break)
  /\ limit' = IF stage' = "over" THEN "ended" ELSE "swallowed"
  /\ requests' \in {requests, requests + 1}
  /\ UNCHANGED replies

Work ==
  \/ NextPost \/ EndBatch
  \/ LanguageReply \/ CombinedReply \/ RequestFails
  \/ \E f \in Fields : FieldReply(f)
  \/ Save

Next == Work \/ LimitEndsLoop \/ LimitInCall

Spec == Init /\ [][Next]_vars

\* Every request ends: the SDK has a timeout.
FairSpec == Spec /\ WF_vars(Work)

-----------------------------------------------------------------------------
(* Properties *)

BatchTypes ==
  /\ left \in 0..BatchSize
  /\ stage \in {"next", "save", "over"} \cup LlmStages
  /\ cleaned \in BOOLEAN
  /\ processed \in Nat
  /\ failed \in Nat
  /\ limit \in {"ahead", "swallowed", "ended"}

CallTypes ==
  /\ attempts \in 0..(MaxAttempts - 1)
  /\ requests \in Nat
  /\ replies \in Nat

RecordTypes ==
  /\ from \in [Fields -> {"combined", "own", "default"}]
  /\ conf \in [Fields -> 0..MaxConf]
  /\ confidence \in 0..(3 * MaxConf)

\* The types of the loop, the calls and the record, and how far they count.
TypeOK == BatchTypes /\ CallTypes /\ RecordTypes

\* What the labels that an LLM really gave are worth at most.
Answered == Sum([f \in Fields |-> IF from[f] = "default" THEN 0 ELSE MaxConf])

\* A default adds no certainty: the confidence stored with a record is at most
\* the share of its labels that the LLM gave, and 0.0 when it gave none.
DefaultsAddNoConfidence == confidence <= Answered

\* The labels of the combined reply are taken together or not at all: no record
\* mixes them with labels or defaults of the fallback.
CombinedIsWhole ==
  (\E f \in Fields : from[f] = "combined") =>
    /\ \A f \in Fields : from[f] = "combined"
    /\ stage \notin LlmStages

\* An LLM that is down never makes an opinion: detect_language and the three
\* classifiers turn every error into a default, yet no text is stored as
\* other/neutral/low unless the LLM did answer about it.
OutageStoresNothing == stage = "save" /\ cleaned => replies > 0

\* A post costs at most one retried call for its language, one for the combined
\* classification and one for each field, whichever of them go wrong.  What the
\* OpenAI client repeats inside one attempt is not counted.
RequestsBounded == requests <= 5 * MaxAttempts

\* The counts reported for the task leave out no post, unless the soft time
\* limit cut the loop short.
EveryPostCounted ==
  limit # "ended" =>
    processed + failed + left + (IF stage \in {"next", "over"} THEN 0 ELSE 1) = BatchSize

\* However the LLM answers, the batch comes to its end.
BatchEnds == <>(stage = "over")

-----------------------------------------------------------------------------
(* What the documentation says and the code does not do *)

\* "55 min soft limit" (celery_app.py): no post is begun when it is over.
\* Fails when the signal is raised in an LLM call, where it passes for an error.
SoftLimitEndsBatch == [][NextPost => limit = "ahead"]_vars

=============================================================================
