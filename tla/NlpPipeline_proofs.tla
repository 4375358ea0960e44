------------------------- MODULE NlpPipeline_proofs -------------------------
(***************************************************************************)
(* The invariants of NlpPipeline, for every number of attempts, every      *)
(* scale of the confidences and every size of the batch.                   *)
(***************************************************************************)
EXTENDS NlpPipeline, TLAPS

\* While a field is being asked the combined call has been answered.
Heard == stage \in Fields => replies > 0

\* The record has no confidence before its last stage, and no default any.
Uncertain ==
  /\ stage \in LlmStages => confidence = 0
  /\ \A f \in Fields : from[f] = "default" => conf[f] = 0

\* What was sent when a call begins: MaxAttempts requests for each call before.
Spent ==
  /\ stage = "language" => requests <= attempts
  /\ stage = "combined" => requests <= MaxAttempts + attempts
  /\ stage = "topic" => requests <= 2 * MaxAttempts + attempts
  /\ stage = "sentiment" => requests <= 3 * MaxAttempts + attempts
  /\ stage = "urgency" => requests <= 4 * MaxAttempts + attempts
  /\ RequestsBounded

\* The inductive invariant, of the record, the calls and the loop.
RecordOK == RecordTypes /\ Uncertain /\ DefaultsAddNoConfidence /\ CombinedIsWhole

CallsOK == CallTypes /\ Heard /\ OutageStoresNothing /\ Spent

LoopOK == BatchTypes /\ EveryPostCounted

Strong == RecordOK /\ CallsOK /\ LoopOK

-----------------------------------------------------------------------------
\* What clamping is for: whatever number the LLM gave is in the range after it.
LEMMA ClampRange ==
  ASSUME NEW n \in Int
  PROVE  Clamp(n) \in 0..MaxConf
BY NlpAssumption, SMT DEF Clamp, NlpAssumption

\* Stages of the record's own: what an unchanged record still satisfies.
LEMMA SameRecord ==
  ASSUME RecordOK, UNCHANGED record, stage' \in LlmStages => stage \in LlmStages
  PROVE  RecordOK'
<1> USE DEF RecordOK, record
<1>1. RecordTypes'
  BY DEF RecordTypes
<1>2. Uncertain'
  BY DEF Uncertain
<1>3. DefaultsAddNoConfidence'
  BY DEF DefaultsAddNoConfidence, Answered, Sum
<1>4. CombinedIsWhole'
  BY DEF CombinedIsWhole
<1> QED
  BY <1>1, <1>2, <1>3, <1>4

\* A record as NextPost makes it.
Fresh ==
  /\ from = [f \in Fields |-> "default"]
  /\ conf = [f \in Fields |-> 0]
  /\ confidence = 0

LEMMA FreshRecord == Fresh => RecordOK
<1> SUFFICES ASSUME Fresh PROVE RecordOK
  OBVIOUS
<1> USE NlpAssumption DEF NlpAssumption, Fresh
<1>1. RecordTypes
  <2>1. from \in [Fields -> {"combined", "own", "default"}]
    OBVIOUS
  <2>2. conf \in [Fields -> 0..MaxConf]
    OBVIOUS
  <2>3. confidence \in 0..(3 * MaxConf)
    OBVIOUS
  <2> QED
    BY <2>1, <2>2, <2>3 DEF RecordTypes
<1>2. Uncertain
  BY DEF Uncertain
<1>3. DefaultsAddNoConfidence
  BY DEF DefaultsAddNoConfidence, Answered, Sum, Fields
<1>4. CombinedIsWhole
  BY DEF CombinedIsWhole
<1> QED
  BY <1>1, <1>2, <1>3, <1>4 DEF RecordOK

\* A label of the fallback, from a reply or by default.
LEMMA LabelRecord ==
  ASSUME RecordOK,
         NEW f \in Fields, stage = f,
         NEW source \in {"own", "default"},
         NEW c \in 0..MaxConf, source = "default" => c = 0,
         Label(f, source, c)
  PROVE  RecordOK'
<1> USE NlpAssumption DEF NlpAssumption
<1> USE DEF RecordOK
<1>1. from' \in [Fields -> {"combined", "own", "default"}] /\ conf' \in [Fields -> 0..MaxConf]
  BY DEF Label, RecordTypes
<1>2. /\ from' = [from EXCEPT ![f] = source]
      /\ conf' = [conf EXCEPT ![f] = c]
  BY DEF Label
<1>3. \A g \in Fields : from'[g] = "default" => conf'[g] = 0
  BY <1>2 DEF Uncertain, RecordTypes
<1>4. \A g \in Fields : from'[g] # "combined"
  BY <1>2 DEF CombinedIsWhole, RecordTypes, LlmStages
<1>5. confidence' = 0 \/ (confidence' = Sum(conf') /\ stage' = "save")
  BY DEF Label, Enter, Uncertain, LlmStages
<1>6. stage' \in LlmStages => confidence' = 0
  BY <1>5 DEF LlmStages, Fields
<1>7. Sum(conf') \in 0..(3 * MaxConf) /\ Sum(conf') <= Answered'
  BY <1>1, <1>3 DEF Sum, Answered, Fields
<1>8. 0 <= Answered'
  BY DEF Answered, Sum, Fields
<1>9. RecordTypes'
  BY <1>1, <1>5, <1>7 DEF RecordTypes
<1>10. DefaultsAddNoConfidence'
  BY <1>5, <1>7, <1>8 DEF DefaultsAddNoConfidence
<1> QED
  BY <1>3, <1>4, <1>6, <1>9, <1>10 DEF Uncertain, CombinedIsWhole

\* The labels of the combined reply.
LEMMA CombinedRecord ==
  ASSUME RecordOK, stage = "combined", CombinedValid
  PROVE  RecordOK'
<1> USE NlpAssumption DEF NlpAssumption
<1> USE DEF RecordOK
<1>1. PICK raw \in RawConfidences : confidence' = 3 * Clamp(raw)
  BY DEF CombinedValid
<1>2. Clamp(raw) \in 0..MaxConf
  BY ClampRange DEF RawConfidences
<1>3. from' = [f \in Fields |-> "combined"] /\ conf' = conf /\ stage' = "save"
  BY DEF CombinedValid, Enter
<1>4. from' \in [Fields -> {"combined", "own", "default"}]
  BY <1>3
<1>5. RecordTypes'
  BY <1>1, <1>2, <1>3, <1>4 DEF RecordTypes
<1>6. Uncertain'
  BY <1>3 DEF Uncertain, LlmStages, Fields
<1>7. Answered' = 3 * MaxConf
  BY <1>3 DEF Answered, Sum, Fields
<1>8. DefaultsAddNoConfidence'
  BY <1>1, <1>2, <1>7 DEF DefaultsAddNoConfidence
<1>9. CombinedIsWhole'
  BY <1>3 DEF CombinedIsWhole, LlmStages, Fields
<1> QED
  BY <1>5, <1>6, <1>8, <1>9

-----------------------------------------------------------------------------
\* A call is over, or the post is: at most one more request, and the next call
\* starts without failed attempts.
LEMMA CallOver ==
  ASSUME CallsOK, BatchTypes, stage \in LlmStages, attempts' = 0,
         requests' \in {requests, requests + 1},
         replies' \in {replies, replies + 1},
         stage = "language" => stage' \in {"combined", "save", "over"},
         stage = "language" /\ stage' = "save" => ~cleaned,
         stage = "combined" => stage' \in {"topic", "save", "next", "over"},
         stage = "combined" /\ stage' \in {"topic", "save"} => replies' = replies + 1,
         stage \in Fields => stage' \in {Following(stage), "over"},
         cleaned' = cleaned
  PROVE  CallsOK'
<1> USE NlpAssumption DEF NlpAssumption, CallsOK
<1>1. CallTypes'
  BY DEF CallTypes
<1>2. Heard'
  BY DEF Heard, CallTypes, Fields, LlmStages, Following
<1>3. OutageStoresNothing'
  BY DEF OutageStoresNothing, Heard, CallTypes, LlmStages, Fields
<1>4. CASE stage = "language"
  <2>1. requests' <= MaxAttempts
    BY <1>4 DEF Spent, CallTypes
  <2> QED
    BY <1>1, <1>2, <1>3, <1>4, <2>1 DEF Spent, CallTypes, RequestsBounded
<1>5. CASE stage = "combined"
  <2>1. requests' <= 2 * MaxAttempts
    BY <1>5 DEF Spent, CallTypes
  <2> QED
    BY <1>1, <1>2, <1>3, <1>5, <2>1 DEF Spent, CallTypes, RequestsBounded
<1>6. CASE stage = "topic"
  <2>1. requests' <= 3 * MaxAttempts
    BY <1>6 DEF Spent, CallTypes
  <2>2. stage' \in {"sentiment", "over"}
    BY <1>6 DEF Fields, Following
  <2> QED
    BY <1>1, <1>2, <1>3, <2>1, <2>2 DEF Spent, CallTypes, RequestsBounded
<1>7. CASE stage = "sentiment"
  <2>1. requests' <= 4 * MaxAttempts
    BY <1>7 DEF Spent, CallTypes
  <2>2. stage' \in {"urgency", "over"}
    BY <1>7 DEF Fields, Following
  <2> QED
    BY <1>1, <1>2, <1>3, <2>1, <2>2 DEF Spent, CallTypes, RequestsBounded
<1>8. CASE stage = "urgency"
  <2>1. requests' <= 5 * MaxAttempts
    BY <1>8 DEF Spent, CallTypes
  <2>2. stage' \in {"save", "over"}
    BY <1>8 DEF Fields, Following
  <2> QED
    BY <1>1, <1>2, <1>3, <2>1, <2>2 DEF Spent, CallTypes, RequestsBounded
<1> QED
  BY <1>4, <1>5, <1>6, <1>7, <1>8 DEF LlmStages, Fields

\* One more attempt of the same call.
LEMMA RetryKeeps ==
  ASSUME Strong, stage \in LlmStages, attempts + 1 < MaxAttempts, Retry,
         requests' \in {requests, requests + 1}, replies' = replies,
         limit' \in {limit, "swallowed"}, limit' = limit \/ limit = "ahead"
  PROVE  Strong'
<1> USE NlpAssumption DEF NlpAssumption, Strong
<1>1. stage' = stage /\ attempts' = attempts + 1
      /\ UNCHANGED <<left, cleaned, processed, failed>> /\ UNCHANGED record
  BY DEF Retry, batch
<1>2. RecordOK'
  BY <1>1, SameRecord
<1>3. CallTypes' /\ Heard' /\ OutageStoresNothing'
  BY <1>1 DEF CallsOK, CallTypes, Heard, OutageStoresNothing
<1>4. Spent'
  <2>1. requests' <= requests + 1
    BY DEF CallsOK, CallTypes
  <2>2. RequestsBounded'
    BY <1>1, <2>1 DEF CallsOK, Spent, RequestsBounded, CallTypes, LlmStages, Fields
  <2> QED
    BY <1>1, <2>1, <2>2 DEF CallsOK, Spent, CallTypes
<1>5. LoopOK'
  BY <1>1 DEF LoopOK, BatchTypes, EveryPostCounted
<1> QED
  BY <1>2, <1>3, <1>4, <1>5 DEF CallsOK

\* Such a call ends in the language being known, ...
LEMMA LanguageKeeps ==
  ASSUME Strong, stage = "language", LanguageKnown,
         requests' \in {requests, requests + 1}, replies' = replies,
         limit' \in {limit, "swallowed"}, limit' = limit \/ limit = "ahead"
  PROVE  Strong'
<1> USE DEF Strong
<1>1. /\ stage' \in {"combined", "save"} /\ attempts' = 0
      /\ stage' = "save" => ~cleaned
      /\ UNCHANGED <<left, cleaned, processed, failed>> /\ UNCHANGED record
  BY DEF LanguageKnown, Enter, Classification, batch
<1>2. RecordOK'
  BY <1>1, SameRecord DEF LlmStages
<1>3. CallsOK'
  BY <1>1, CallOver DEF LoopOK, LlmStages, Fields, CallsOK, CallTypes
<1>4. LoopOK'
  BY <1>1 DEF LoopOK, BatchTypes, EveryPostCounted, LlmStages
<1> QED
  BY <1>2, <1>3, <1>4

\* ... or in a label.
LEMMA LabelKeeps ==
  ASSUME Strong, NEW f \in Fields, stage = f,
         NEW source \in {"own", "default"},
         NEW c \in 0..MaxConf, source = "default" => c = 0,
         Label(f, source, c),
         requests' \in {requests, requests + 1}, replies' \in {replies, replies + 1},
         limit' \in {limit, "swallowed"}, limit' = limit \/ limit = "ahead"
  PROVE  Strong'
<1> USE DEF Strong
<1>1. /\ stage' = Following(f) /\ attempts' = 0
      /\ UNCHANGED <<left, cleaned, processed, failed>>
  BY DEF Label, Enter, batch
<1>2. Following(f) \in {"sentiment", "urgency", "save"}
  BY DEF Following, Fields
<1>3. RecordOK'
  BY LabelRecord
<1>4. CallsOK'
  BY <1>1, CallOver DEF LoopOK, LlmStages, Fields
<1>5. LoopOK'
  BY <1>1, <1>2 DEF LoopOK, BatchTypes, EveryPostCounted, LlmStages, Fields
<1> QED
  BY <1>3, <1>4, <1>5

-----------------------------------------------------------------------------
LEMMA InitStrong == Init => Strong
<1> SUFFICES ASSUME Init PROVE Strong
  OBVIOUS
<1> USE NlpAssumption DEF NlpAssumption, Init
<1>1. RecordOK
  BY FreshRecord DEF Fresh
<1>2. CallTypes
  BY DEF CallTypes
<1>3. Heard /\ OutageStoresNothing
  BY DEF Heard, OutageStoresNothing, Fields
<1>4. Spent
  BY DEF Spent, RequestsBounded
<1>5. EveryPostCounted
  BY DEF EveryPostCounted
<1>6. BatchTypes
  <2>1. left \in 0..BatchSize
    OBVIOUS
  <2>2. stage \in {"next", "save", "over"} /\ limit \in {"ahead", "swallowed", "ended"}
    OBVIOUS
  <2>3. cleaned \in BOOLEAN /\ processed \in Nat /\ failed \in Nat
    OBVIOUS
  <2> QED
    BY <2>1, <2>2, <2>3 DEF BatchTypes
<1> QED
  BY <1>1, <1>2, <1>3, <1>4, <1>5, <1>6 DEF Strong, CallsOK, LoopOK

LEMMA NextPostKeeps == Strong /\ NextPost => Strong'
<1> SUFFICES ASSUME Strong, NextPost PROVE Strong'
  OBVIOUS
<1> USE NlpAssumption DEF NlpAssumption, Strong
<1>1. Fresh'
  BY DEF NextPost, Fresh
<1>2. RecordOK'
  BY <1>1, FreshRecord, PTL
<1>3. /\ stage' \in {"language", "combined", "save"} /\ attempts' = 0
      /\ stage' = "save" => ~cleaned'
      /\ requests' = 0 /\ replies' = 0
  BY DEF NextPost, Enter, Classification
<1>4. CallsOK'
  BY <1>3 DEF CallsOK, CallTypes, Heard, OutageStoresNothing, Spent, RequestsBounded, Fields
<1>5. LoopOK'
  BY <1>3 DEF LoopOK, BatchTypes, EveryPostCounted, LlmStages, NextPost
<1> QED
  BY <1>2, <1>4, <1>5

LEMMA EndBatchKeeps == Strong /\ EndBatch => Strong'
<1> SUFFICES ASSUME Strong, EndBatch PROVE Strong'
  OBVIOUS
<1> USE NlpAssumption DEF NlpAssumption, Strong, EndBatch, Enter
<1>1. RecordOK'
  BY SameRecord DEF LlmStages, Fields
<1>2. CallsOK'
  BY DEF CallsOK, CallTypes, Heard, OutageStoresNothing, Spent, RequestsBounded, Fields
<1>3. LoopOK'
  BY DEF LoopOK, BatchTypes, EveryPostCounted, LlmStages, batch
<1> QED
  BY <1>1, <1>2, <1>3

LEMMA SaveKeeps == Strong /\ Save => Strong'
<1> SUFFICES ASSUME Strong, Save PROVE Strong'
  OBVIOUS
<1> USE NlpAssumption DEF NlpAssumption, Strong, Save, Enter
<1>1. RecordOK'
  BY SameRecord DEF LlmStages, Fields
<1>2. CallsOK'
  BY DEF CallsOK, CallTypes, Heard, OutageStoresNothing, Spent, RequestsBounded, Fields
<1>3. LoopOK'
  BY DEF LoopOK, BatchTypes, EveryPostCounted, LlmStages
<1> QED
  BY <1>1, <1>2, <1>3

\* The combined call ends in an exception, which fails the post.
LEMMA RecordFailsKeeps ==
  ASSUME Strong, stage = "combined", RecordFails,
         requests' \in {requests, requests + 1}, replies' \in {replies, replies + 1},
         UNCHANGED limit
  PROVE  Strong'
<1> USE DEF Strong, RecordFails, Enter
<1>1. RecordOK'
  BY SameRecord DEF LlmStages, Fields
<1>2. CallsOK'
  BY CallOver DEF LoopOK, LlmStages, Fields
<1>3. LoopOK'
  BY DEF LoopOK, BatchTypes, EveryPostCounted
<1> QED
  BY <1>1, <1>2, <1>3

\* The time limit reaches the loop.
LEMMA BreakKeeps ==
  ASSUME Strong, Break, requests' \in {requests, requests + 1}, replies' = replies,
         stage \notin LlmStages => requests' = requests,
         limit' = "ended"
  PROVE  Strong'
<1> USE NlpAssumption DEF NlpAssumption, Strong, Break, Enter
<1>1. RecordOK'
  BY SameRecord DEF LlmStages, Fields
<1>2. CallsOK'
  <2>1. CASE stage \in LlmStages
    BY <2>1, CallOver DEF LoopOK, LlmStages, Fields, CallsOK, CallTypes, batch
  <2>2. CASE stage \notin LlmStages
    BY <2>2 DEF CallsOK, CallTypes, Heard, OutageStoresNothing, Spent, RequestsBounded, Fields
  <2> QED
    BY <2>1, <2>2
<1>3. LoopOK'
  BY DEF LoopOK, BatchTypes, EveryPostCounted, batch
<1> QED
  BY <1>1, <1>2, <1>3

LEMMA ReplyKeeps ==
  ASSUME Strong, LanguageReply \/ CombinedReply \/ \E f \in Fields : FieldReply(f)
  PROVE  Strong'
<1> USE NlpAssumption DEF NlpAssumption
<1>1. CASE LanguageReply
  BY <1>1, LanguageKeeps DEF LanguageReply
<1>2. CASE CombinedReply
  <2> USE <1>2 DEF CombinedReply
  <2>1. CASE RecordFails
    BY <2>1, RecordFailsKeeps
  <2>2. CASE CombinedValid
    <3>1. stage' = "save" /\ attempts' = 0 /\ UNCHANGED <<left, cleaned, processed, failed>>
      BY <2>2 DEF CombinedValid, Enter, batch
    <3>2. RecordOK'
      BY <2>2, CombinedRecord DEF Strong
    <3>3. CallsOK'
      BY <3>1, CallOver DEF Strong, LoopOK, LlmStages, Fields
    <3>4. LoopOK'
      BY <3>1 DEF Strong, LoopOK, BatchTypes, EveryPostCounted
    <3> QED
      BY <3>2, <3>3, <3>4 DEF Strong
  <2>3. CASE CombinedInvalid
    <3>1. stage' = "topic" /\ attempts' = 0 /\ UNCHANGED <<left, cleaned, processed, failed>>
          /\ UNCHANGED record
      BY <2>3 DEF CombinedInvalid, Enter, batch
    <3>2. RecordOK'
      BY <3>1, SameRecord DEF Strong, LlmStages
    <3>3. CallsOK'
      BY <3>1, CallOver DEF Strong, LoopOK, LlmStages, Fields
    <3>4. LoopOK'
      BY <3>1 DEF Strong, LoopOK, BatchTypes, EveryPostCounted, LlmStages, Fields
    <3> QED
      BY <3>2, <3>3, <3>4 DEF Strong
  <2> QED
    BY <2>1, <2>2, <2>3
<1>3. ASSUME NEW f \in Fields, FieldReply(f) PROVE Strong'
  <2> USE <1>3 DEF FieldReply
  <2>1. CASE DefaultLabel(f)
    BY <2>1, LabelKeeps, 0 \in 0..MaxConf DEF DefaultLabel
  <2>2. ASSUME NEW raw \in RawConfidences, Label(f, "own", Clamp(raw)) PROVE Strong'
    <3>1. Clamp(raw) \in 0..MaxConf
      BY ClampRange DEF RawConfidences
    <3> QED
      BY <2>2, <3>1, LabelKeeps
  <2> QED
    BY <2>1, <2>2
<1> QED
  BY <1>1, <1>2, <1>3

LEMMA FailureKeeps ==
  ASSUME Strong, RequestFails \/ LimitInCall
  PROVE  Strong'
<1> USE NlpAssumption DEF NlpAssumption
<1>1. /\ requests' \in {requests, requests + 1} /\ replies' = replies
      /\ limit' = limit \/ limit = "ahead"
  BY DEF RequestFails, LimitInCall
<1>2. CASE RequestFails
  <2>1. stage \in LlmStages /\ limit' = limit
    BY <1>2 DEF RequestFails, AttemptFails
  <2>2. CASE attempts + 1 < MaxAttempts /\ Retry
    BY <1>1, <2>1, <2>2, RetryKeeps
  <2>3. CASE stage = "language" /\ LanguageKnown
    BY <1>1, <2>1, <2>3, LanguageKeeps
  <2>4. CASE stage = "combined" /\ RecordFails
    BY <1>1, <2>1, <2>4, RecordFailsKeeps
  <2>5. CASE stage \in Fields /\ DefaultLabel(stage)
    BY <1>1, <2>1, <2>5, LabelKeeps, 0 \in 0..MaxConf DEF DefaultLabel
  <2> QED
    BY <1>2, <2>2, <2>3, <2>4, <2>5 DEF RequestFails, AttemptFails, Raise
<1>3. CASE LimitInCall
  <2>1. stage \in LlmStages /\ limit = "ahead"
        /\ limit' = IF stage' = "over" THEN "ended" ELSE "swallowed"
    BY <1>3 DEF LimitInCall, AttemptFails
  <2>2. CASE attempts + 1 < MaxAttempts /\ Retry
    <3>1. limit' = "swallowed"
      BY <2>1, <2>2 DEF Retry, LlmStages, Fields
    <3> QED
      BY <1>1, <2>1, <2>2, <3>1, RetryKeeps
  <2>3. CASE stage = "language" /\ LanguageKnown
    <3>1. limit' = "swallowed"
      BY <2>1, <2>3 DEF LanguageKnown, Enter, Classification
    <3> QED
      BY <1>1, <2>1, <2>3, <3>1, LanguageKeeps
  <2>4. CASE stage = "combined" /\ Break
    <3>1. limit' = "ended"
      BY <2>1, <2>4 DEF Break, Enter
    <3> QED
      BY <1>1, <2>1, <2>4, <3>1, BreakKeeps
  <2>5. CASE stage \in Fields /\ DefaultLabel(stage)
    <3>1. limit' = "swallowed"
      BY <2>1, <2>5 DEF DefaultLabel, Label, Enter, Following, Fields
    <3> QED
      BY <1>1, <2>1, <2>5, <3>1, LabelKeeps, 0 \in 0..MaxConf DEF DefaultLabel
  <2> QED
    BY <1>3, <2>2, <2>3, <2>4, <2>5 DEF LimitInCall, AttemptFails, Raise
<1> QED
  BY <1>2, <1>3

LEMMA StepStrong == Strong /\ [Next]_vars => Strong'
<1> SUFFICES ASSUME Strong, [Next]_vars PROVE Strong'
  OBVIOUS
<1>1. CASE NextPost
  BY <1>1, NextPostKeeps
<1>2. CASE EndBatch
  BY <1>2, EndBatchKeeps
<1>3. CASE LanguageReply \/ CombinedReply \/ \E f \in Fields : FieldReply(f)
  BY <1>3, ReplyKeeps
<1>4. CASE RequestFails \/ LimitInCall
  BY <1>4, FailureKeeps
<1>5. CASE Save
  BY <1>5, SaveKeeps
<1>6. CASE LimitEndsLoop
  BY <1>6, BreakKeeps DEF LimitEndsLoop
<1>7. CASE UNCHANGED vars
  BY <1>7 DEF vars, Strong, RecordOK, CallsOK, LoopOK, RecordTypes, Uncertain,
     DefaultsAddNoConfidence, Answered, Sum, CombinedIsWhole, CallTypes, Heard,
     OutageStoresNothing, Spent, RequestsBounded, BatchTypes, EveryPostCounted
<1> QED
  BY <1>1, <1>2, <1>3, <1>4, <1>5, <1>6, <1>7 DEF Next, Work

-----------------------------------------------------------------------------
\* The inductive invariant holds in every reachable state, for all constants.
THEOREM StrongInvariant == Spec => []Strong
BY InitStrong, StepStrong, PTL DEF Spec

\* The types hold; in particular every stored confidence is within its range.
THEOREM TypeCorrect == Spec => []TypeOK
<1>1. Strong => TypeOK
  BY DEF Strong, RecordOK, CallsOK, LoopOK, TypeOK
<1> QED
  BY <1>1, StrongInvariant, PTL

\* A default label never adds to the confidence that process_record returns.
THEOREM DefaultsUncertain == Spec => []DefaultsAddNoConfidence
<1>1. Strong => DefaultsAddNoConfidence
  BY DEF Strong, RecordOK
<1> QED
  BY <1>1, StrongInvariant, PTL

\* The combined reply is used as a whole or not at all.
THEOREM CombinedWhole == Spec => []CombinedIsWhole
<1>1. Strong => CombinedIsWhole
  BY DEF Strong, RecordOK
<1> QED
  BY <1>1, StrongInvariant, PTL

\* Without a reply of the LLM no text gets a verdict.
THEOREM OutageHarmless == Spec => []OutageStoresNothing
<1>1. Strong => OutageStoresNothing
  BY DEF Strong, CallsOK
<1> QED
  BY <1>1, StrongInvariant, PTL

\* A post never costs more than five retried calls.
THEOREM CostBounded == Spec => []RequestsBounded
<1>1. Strong => RequestsBounded
  BY DEF Strong, CallsOK, Spent
<1> QED
  BY <1>1, StrongInvariant, PTL

\* processed + failed is the number of posts, unless the time limit struck.
THEOREM AllCounted == Spec => []EveryPostCounted
<1>1. Strong => EveryPostCounted
  BY DEF Strong, LoopOK
<1> QED
  BY <1>1, StrongInvariant, PTL

-----------------------------------------------------------------------------
(* How long a batch can take: the steps of process_record are numbered     *)
(* backwards from its end, whatever the LLM answers.                       *)

\* The calls a post can still make, the present one included.
CallsLeft ==
  CASE stage = "language" -> 5
    [] stage = "combined" -> 4
    [] stage = "topic" -> 3
    [] stage = "sentiment" -> 2
    [] stage = "urgency" -> 1

\* A post takes its beginning, MaxAttempts failures of five calls, and its end.
StepsOfPost == 5 * MaxAttempts + 2

\* What is left of the post at hand, and of the batch.
StepsHere ==
  IF stage \in LlmStages THEN 2 + CallsLeft * MaxAttempts - attempts
  ELSE IF stage = "save" THEN 2
  ELSE 1

StepsLeft == IF stage = "over" THEN 0 ELSE left * StepsOfPost + StepsHere

\* One post fewer.
LEMMA OnePostLess ==
  ASSUME NEW n \in Nat, n > 0, NEW k \in Nat
  PROVE  (n - 1) * k + k = n * k
BY SMT

\* What is left of a post is no more than a whole one.
LEMMA PartOfPost ==
  ASSUME NEW a \in Nat, NEW b \in Nat, NEW k \in Nat, NEW h \in Nat, a + k = b, h <= k
  PROVE  a + h < b + 1
BY SMT

\* The steps left are a number, and the loop has one to go until it is over.
Numbered ==
  /\ left * StepsOfPost \in Nat
  /\ StepsHere \in Nat \ {0}
  /\ StepsLeft \in Nat

LEMMA StepsAreNumbers == Strong => Numbered
<1> SUFFICES ASSUME Strong PROVE Numbered
  OBVIOUS
<1> USE NlpAssumption DEF NlpAssumption
<1>1. StepsOfPost \in Nat
  BY DEF StepsOfPost
<1>2. attempts \in 0..(MaxAttempts - 1) /\ left \in Nat
  BY DEF Strong, CallsOK, CallTypes, LoopOK, BatchTypes
<1>3. stage \in LlmStages => CallsLeft \in {1, 2, 3, 4, 5}
  BY DEF CallsLeft, LlmStages, Fields
<1>4. StepsHere \in Nat \ {0}
  BY <1>2, <1>3 DEF StepsHere
<1>5. left * StepsOfPost \in Nat
  BY <1>1, <1>2
<1> QED
  BY <1>4, <1>5 DEF Numbered, StepsLeft

\* Within a post every step leaves less of it.
LEMMA PostRunsOut ==
  ASSUME Strong, Strong', left' = left, stage # "over", stage' # "over", StepsHere' < StepsHere
  PROVE  StepsLeft' < StepsLeft
<1>1. left * StepsOfPost \in Nat /\ StepsHere \in Nat
  BY StepsAreNumbers DEF Numbered
<1>2. Numbered'
  BY StepsAreNumbers, PTL
<1>3. StepsLeft' = left * StepsOfPost + StepsHere'
  BY DEF StepsLeft, StepsOfPost
<1> QED
  BY <1>1, <1>2, <1>3 DEF StepsLeft, Numbered

\* The loop ends, from wherever it is.
LEMMA EndRunsOut ==
  ASSUME Strong, stage # "over", stage' = "over"
  PROVE  StepsLeft' < StepsLeft
<1>1. left * StepsOfPost \in Nat /\ StepsHere \in Nat \ {0}
  BY StepsAreNumbers DEF Numbered
<1> QED
  BY <1>1 DEF StepsLeft

\* A call that ends is not made again.
LEMMA CallRunsOut ==
  ASSUME Strong, Strong', stage \in LlmStages, attempts' = 0, left' = left,
         stage' \in {"next", "save"}
           \/ (stage = "language" /\ stage' = "combined")
           \/ (stage = "combined" /\ stage' = "topic")
           \/ (stage \in Fields /\ stage' = Following(stage))
  PROVE  StepsLeft' < StepsLeft
<1> USE NlpAssumption DEF NlpAssumption
<1>1. attempts \in 0..(MaxAttempts - 1)
  BY DEF Strong, CallsOK, CallTypes
<1>2. stage # "over" /\ stage' # "over"
  BY DEF LlmStages, Fields, Following
<1>3. StepsHere' < StepsHere
  BY <1>1 DEF StepsHere, CallsLeft, LlmStages, Fields, Following
<1> QED
  BY <1>2, <1>3, PostRunsOut

\* A failed attempt is one of MaxAttempts.
LEMMA RetryRunsOut ==
  ASSUME Strong, Strong', stage \in LlmStages, Retry
  PROVE  StepsLeft' < StepsLeft
<1> USE NlpAssumption DEF NlpAssumption
<1>1. stage' = stage /\ attempts' = attempts + 1 /\ left' = left
  BY DEF Retry, batch
<1>2. attempts \in Nat /\ stage # "over"
  BY DEF Strong, CallsOK, CallTypes, LlmStages, Fields
<1>3. StepsHere' < StepsHere
  <2>1. CallsLeft' = CallsLeft /\ CallsLeft \in {1, 2, 3, 4, 5}
    BY <1>1 DEF CallsLeft, LlmStages, Fields
  <2> QED
    BY <1>1, <1>2, <2>1 DEF StepsHere
<1> QED
  BY <1>1, <1>2, <1>3, PostRunsOut

LEMMA NextPostRunsOut ==
  ASSUME Strong, Strong', NextPost
  PROVE  StepsLeft' < StepsLeft
<1> USE NlpAssumption DEF NlpAssumption
<1>1. /\ stage = "next" /\ left > 0 /\ left' = left - 1 /\ attempts' = 0
      /\ stage' \in {"language", "combined", "save"}
  BY DEF NextPost, Enter, Classification
<1>2. left \in Nat /\ StepsOfPost \in Nat
  BY DEF Strong, LoopOK, BatchTypes, StepsOfPost
<1>3. StepsHere' <= StepsOfPost
  BY <1>1 DEF StepsHere, CallsLeft, StepsOfPost, LlmStages, Fields
<1>4. StepsHere' \in Nat
  <2>1. Numbered'
    BY StepsAreNumbers, PTL
  <2> QED
    BY <2>1 DEF Numbered
<1>5. StepsLeft' = (left - 1) * StepsOfPost + StepsHere'
  BY <1>1 DEF StepsLeft, StepsOfPost
<1>6. StepsLeft = left * StepsOfPost + 1
  BY <1>1 DEF StepsLeft, StepsHere, LlmStages, Fields
<1>7. (left - 1) * StepsOfPost + StepsOfPost = left * StepsOfPost
  BY <1>1, <1>2, OnePostLess
<1>8. (left - 1) * StepsOfPost \in Nat /\ left * StepsOfPost \in Nat
  BY <1>1, <1>2
<1> QED
  BY <1>2, <1>3, <1>4, <1>5, <1>6, <1>7, <1>8, PartOfPost, Zenon

LEMMA StepRunsOut == Strong /\ Strong' /\ Next => StepsLeft' < StepsLeft
<1> SUFFICES ASSUME Strong, Strong', Next PROVE StepsLeft' < StepsLeft
  OBVIOUS
<1>1. CASE NextPost
  BY <1>1, NextPostRunsOut
<1>2. CASE EndBatch
  BY <1>2, EndRunsOut DEF EndBatch, Enter
<1>3. CASE LanguageReply
  BY <1>3, CallRunsOut DEF LanguageReply, LanguageKnown, Enter, Classification, batch, LlmStages
<1>4. CASE CombinedReply
  BY <1>4, CallRunsOut
     DEF CombinedReply, CombinedValid, CombinedInvalid, RecordFails, Enter, batch, LlmStages
<1>5. ASSUME NEW f \in Fields, FieldReply(f) PROVE StepsLeft' < StepsLeft
  BY <1>5, CallRunsOut DEF FieldReply, DefaultLabel, Label, Enter, batch, LlmStages
<1>6. CASE Save
  <2>1. stage = "save" /\ stage' = "next" /\ attempts' = 0 /\ left' = left
    BY <1>6 DEF Save, Enter
  <2>2. StepsHere' < StepsHere
    BY <2>1 DEF StepsHere, LlmStages, Fields
  <2> QED
    BY <2>1, <2>2, PostRunsOut
<1>7. CASE RequestFails \/ LimitInCall
  <2>1. stage \in LlmStages /\ stage # "over"
    BY <1>7 DEF RequestFails, LimitInCall, AttemptFails, LlmStages, Fields
  <2>2. CASE Retry
    BY <2>1, <2>2, RetryRunsOut
  <2>3. CASE stage = "language" /\ LanguageKnown
    BY <2>1, <2>3, CallRunsOut DEF LanguageKnown, Enter, Classification, batch
  <2>4. CASE stage = "combined" /\ RecordFails
    BY <2>1, <2>4, CallRunsOut DEF RecordFails, Enter
  <2>5. CASE stage \in Fields /\ DefaultLabel(stage)
    BY <2>1, <2>5, CallRunsOut DEF DefaultLabel, Label, Enter, batch
  <2>6. CASE Break
    BY <2>1, <2>6, EndRunsOut DEF Break, Enter
  <2> QED
    BY <1>7, <2>2, <2>3, <2>4, <2>5, <2>6 DEF RequestFails, LimitInCall, AttemptFails, Raise
<1>8. CASE LimitEndsLoop
  BY <1>8, EndRunsOut DEF LimitEndsLoop, Break, Enter
<1> QED
  BY <1>1, <1>2, <1>3, <1>4, <1>5, <1>6, <1>7, <1>8 DEF Next, Work

\* Every step of a batch, a failing one too, leaves fewer steps to go, so that no
\* batch runs for ever: it is over after 1 + BatchSize * StepsOfPost steps at most.
THEOREM BatchRunsOut == Spec => [][StepsLeft' < StepsLeft]_vars /\ [](StepsLeft \in Nat)
<1>1. Strong /\ Strong' /\ [Next]_vars => [StepsLeft' < StepsLeft]_vars
  BY StepRunsOut
<1>2. Strong => StepsLeft \in Nat
  BY StepsAreNumbers DEF Numbered
<1> QED
  BY <1>1, <1>2, StrongInvariant, PTL DEF Spec

\* The steps a batch begins with.
THEOREM BatchLength == Init => StepsLeft = BatchSize * StepsOfPost + 1
BY DEF Init, StepsLeft, StepsHere, LlmStages, Fields

=============================================================================
