------------------------------- MODULE Scoring -------------------------------
(***************************************************************************)
(* The social thermometer: compute_social_thermometer_score                *)
(* (app/analysis/scoring.py) with the weights of config/scoring.yaml, on   *)
(* what generate_report (reports.py) makes of the classified posts.  A     *)
(* step is one more mention of a topic, so that the properties compare the *)
(* scores of two reports that differ in one analysis.                      *)
(*                                                                         *)
(* Numbers are exact: weights of sentiments and urgencies are in halves,   *)
(* those of topics in tenths, and crisis points in units of 1/(40*Scale).  *)
(* The caller passes total_engagement 0, whose multiplier is 1.0.          *)
(***************************************************************************)
EXTENDS Integers, FiniteSetsExt

CONSTANTS
  Topics,
  Weight,       \* the weight of every topic, in tenths
  Base,         \* score.base
  Top,          \* score.max; score.min is 0
  Scale,        \* precision: divisible by every number of mentions
  MaxMentions   \* bound: mentions of a topic in the period

ASSUME ScoringAssumption ==
  /\ IsFiniteSet(Topics)
  /\ Weight \in [Topics -> Nat]
  /\ Base \in Nat
  /\ Top \in Nat
  /\ Scale \in Nat \ {0}
  /\ MaxMentions \in Nat
  /\ \A n \in 1..MaxMentions : Scale % n = 0

VARIABLES
  mentions,  \* for every topic, its mentions by sentiment
  high       \* for every topic, its mentions of high urgency

vars == <<mentions, high>>

Sentiments == {"positive", "neutral", "negative"}
Urgencies == {"low", "medium", "high"}

Point == 40 * Scale

Larger(m, n) == IF m > n THEN m ELSE n

-----------------------------------------------------------------------------
(* The score. *)

Count(t) == mentions[t]["positive"] + mentions[t]["neutral"] + mentions[t]["negative"]

\* The query only tells mentions of high urgency from the others, which
\* generate_report takes for low.
Low(t) == Count(t) - high[t]

(* Mutants: slips the code could have made and the properties must notice. *)

\* No max(0, ...): a topic liked by all makes up for the others.
SentimentUnclamped(t) == 3 * mentions[t]["negative"] - mentions[t]["positive"]

\* The urgency is summed, not averaged.
CrisisSummed(t) ==
  Larger(0, 3 * mentions[t]["negative"] - mentions[t]["positive"])
    * (4 * high[t] + Low(t)) * Weight[t] * Scale

\* max(0, sent_contrib), times twice the mentions.
SentimentSum(t) == Larger(0, 3 * mentions[t]["negative"] - mentions[t]["positive"])

\* max(0.5, urg_mult), times twice the mentions.
UrgencySum(t) == Larger(Count(t), 4 * high[t] + Low(t))

\* count * sentiment * urgency * weight, both averaged over the mentions.
Crisis(t) ==
  IF Count(t) = 0 THEN 0
  ELSE SentimentSum(t) * UrgencySum(t) * Weight[t] * (Scale \div Count(t))

TotalCrisis == MapThenSumSet(LAMBDA t : Crisis(t), Topics)

\* round(x, 1), x in units of 1/(40*Scale), half to even.
Tenths(x) ==
  LET tenth == Point \div 10
      below == x \div tenth
      more == 2 * (x % tenth)
  IN  IF more > tenth \/ (more = tenth /\ below % 2 = 1) THEN below + 1 ELSE below

\* Mutant: no clamping.
ScoreUnclamped == Tenths(Base * Point - TotalCrisis)

\* The score in tenths.
Score ==
  LET raw == Tenths(Base * Point - TotalCrisis)
  IN  Larger(0, IF raw > 10 * Top THEN 10 * Top ELSE raw)

-----------------------------------------------------------------------------
Init ==
  /\ mentions = [t \in Topics |-> [s \in Sentiments |-> 0]]
  /\ high = [t \in Topics |-> 0]

\* One more row for get_trending_topics.
Mention(t, s, u) ==
  /\ Count(t) < MaxMentions
  /\ mentions' = [mentions EXCEPT ![t][s] = @ + 1]
  /\ high' = IF u = "high" THEN [high EXCEPT ![t] = @ + 1] ELSE high

Next == \E t \in Topics, s \in Sentiments, u \in Urgencies : Mention(t, s, u)

Spec == Init /\ [][Next]_vars

-----------------------------------------------------------------------------
(* Properties *)

\* The types of the counts, and the range of the score.
TypeOK ==
  /\ mentions \in [Topics -> [Sentiments -> Nat]]
  /\ high \in [Topics -> Nat]
  /\ \A t \in Topics : high[t] <= Count(t)
  /\ Score \in 0..(10 * Top)

\* A negative mention never raises the score, nor does a neutral one of high
\* urgency, although each changes two averages and the count.
BadNewsNeverHelps ==
  [][\A t \in Topics :
       (\E u \in Urgencies : Mention(t, "negative", u)) \/ Mention(t, "neutral", "high") =>
         Score' <= Score]_vars

\* A positive mention that is not urgent never lowers it.  (One that is urgent
\* may: it raises the average urgency that multiplies the negative ones.)
GoodNewsNeverHurts ==
  [][\A t \in Topics, u \in {"low", "medium"} :
       Mention(t, "positive", u) => Score' >= Score]_vars

\* No mention adds more to the crisis than a topic's first can, 3 points times
\* the weight of the topic, and none takes more than 3.25 off: one analysis, or
\* one made twice, cannot make a crisis or hide one.
OneMentionIsBounded ==
  [][\A t \in Topics :
       (\E s \in Sentiments, u \in Urgencies : Mention(t, s, u)) =>
         TotalCrisis' - TotalCrisis \in -(13 * Weight[t] * Scale)..(12 * Weight[t] * Scale)]_vars

=============================================================================
