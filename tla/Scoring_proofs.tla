---------------------------- MODULE Scoring_proofs ----------------------------
(***************************************************************************)
(* Theorems about Scoring, for every set of topics and every number of     *)
(* mentions.  What the fold of TotalCrisis computes is shown by induction  *)
(* on the number of topics, as an argument about the least counterexample. *)
(***************************************************************************)
EXTENDS Scoring, FiniteSetTheorems, WellFoundedInduction, TLAPS

-----------------------------------------------------------------------------
(* Sums over a finite set. *)

\* Every set of numbers that is not empty has a least member.
LEMMA LeastNatural ==
  ASSUME NEW T \in SUBSET Nat, T # {}
  PROVE  \E n \in T : \A m \in T : n <= m
<1> DEFINE R == OpToRel(<, Nat)
<1>1. \E n \in T : \A m \in T : ~ (<<m, n>> \in R)
  <2>1. IsWellFoundedOn(R, Nat)
    BY NatLessThanWellFounded
  <2> HIDE DEF R
  <2> QED
    BY <2>1, WFMin
<1>2. ASSUME NEW m \in Nat, NEW n \in Nat, ~ (<<m, n>> \in R)
      PROVE  n <= m
  <2>1. ~ (m < n)
    BY <1>2 DEF OpToRel
  <2> QED
    BY <2>1
<1> HIDE DEF R
<1>3. PICK n \in T : \A m \in T : ~ (<<m, n>> \in R)
  BY <1>1
<1>4. ASSUME NEW m \in T PROVE n <= m
  BY <1>2, <1>3
<1> QED
  BY <1>4

\* A set of numbers with 0 and the successors of its members is Nat.
LEMMA SetInduction ==
  ASSUME NEW T \in SUBSET Nat, 0 \in T, \A n \in T : n + 1 \in T
  PROVE  T = Nat
<1> SUFFICES ASSUME Nat \ T # {} PROVE FALSE
  OBVIOUS
<1>1. PICK n \in Nat \ T : \A m \in Nat \ T : n <= m
  BY LeastNatural
<1>2. n - 1 \in T
  BY <1>1
<1> QED
  BY <1>1, <1>2

\* The member that a fold takes first.
First(s) == CHOOSE x \in s : TRUE

Rest(s) == s \ {First(s)}

\* f is the sum of g over every subset of S.
IsSum(f, g, S) ==
  /\ f \in [SUBSET S -> Int]
  /\ f[{}] = 0
  /\ \A s \in SUBSET S : s # {} => f[s] = g[First(s)] + f[Rest(s)]

LEMMA FirstAndRest ==
  ASSUME NEW S, IsFiniteSet(S), NEW s \in SUBSET S, s # {}
  PROVE  /\ First(s) \in s
         /\ Rest(s) \in SUBSET S
         /\ IsFiniteSet(s)
         /\ Cardinality(s) \in Nat \ {0}
         /\ Cardinality(Rest(s)) = Cardinality(s) - 1
<1>1. First(s) \in s
  BY DEF First
<1>2. IsFiniteSet(s)
  BY FS_Subset
<1>3. Cardinality(s) \in Nat /\ Cardinality(s) # 0
  BY <1>2, FS_CardinalityType, FS_EmptySet
<1>4. Cardinality(Rest(s)) = Cardinality(s) - 1
  BY <1>1, <1>2, FS_RemoveElement DEF Rest
<1> QED
  BY <1>1, <1>2, <1>3, <1>4 DEF Rest

\* The sets with at most n members.
UpTo(S, n) == {s \in SUBSET S : Cardinality(s) <= n}

\* A sum exists.
LEMMA SumExists ==
  ASSUME NEW S, IsFiniteSet(S), NEW g \in [S -> Int]
  PROVE  \E f : IsSum(f, g, S)
<1> DEFINE Sums(n) == {f \in [UpTo(S, n) -> Int] :
                         /\ f[{}] = 0
                         /\ \A s \in UpTo(S, n) : s # {} => f[s] = g[First(s)] + f[Rest(s)]}
           T == {n \in Nat : Sums(n) # {}}
<1>0. {} \in SUBSET S /\ Cardinality({}) = 0
  BY FS_EmptySet
<1>1. 0 \in T
  <2> DEFINE f == [s \in UpTo(S, 0) |-> 0]
  <2>1. \A s \in UpTo(S, 0) : s = {}
    <3> SUFFICES ASSUME NEW s \in UpTo(S, 0), s # {} PROVE FALSE
      OBVIOUS
    <3> QED
      BY FirstAndRest DEF UpTo
  <2>2. {} \in UpTo(S, 0)
    BY <1>0 DEF UpTo
  <2>3. f \in Sums(0)
    BY <2>1, <2>2
  <2> QED
    BY <2>3
<1>2. ASSUME NEW n \in T PROVE n + 1 \in T
  <2>1. PICK f \in Sums(n) : TRUE
    OBVIOUS
  <2> DEFINE h == [s \in UpTo(S, n + 1) |-> IF s = {} THEN 0 ELSE g[First(s)] + f[Rest(s)]]
  <2>2. {} \in UpTo(S, n) /\ {} \in UpTo(S, n + 1)
    BY <1>0 DEF UpTo
  <2>3. ASSUME NEW s \in UpTo(S, n + 1), s # {}
        PROVE  Rest(s) \in UpTo(S, n) /\ Rest(s) \in UpTo(S, n + 1) /\ First(s) \in S
    BY <2>3, FirstAndRest DEF UpTo
  <2>4. h \in [UpTo(S, n + 1) -> Int]
    <3> SUFFICES ASSUME NEW s \in UpTo(S, n + 1)
                 PROVE  (IF s = {} THEN 0 ELSE g[First(s)] + f[Rest(s)]) \in Int
      OBVIOUS
    <3>1. CASE s = {}
      BY <3>1
    <3>2. CASE s # {}
      BY <3>2, <2>1, <2>3
    <3> QED
      BY <3>1, <3>2
  <2>5. ASSUME NEW s \in UpTo(S, n) PROVE h[s] = f[s]
    <3>1. s \in UpTo(S, n + 1)
      <4>1. Cardinality(s) \in Nat
        BY FS_Subset, FS_CardinalityType DEF UpTo
      <4> QED
        BY <4>1 DEF UpTo
    <3>2. CASE s = {}
      BY <3>1, <3>2, <2>1
    <3>3. CASE s # {}
      BY <3>1, <3>3, <2>1
    <3> QED
      BY <3>2, <3>3
  <2>6. ASSUME NEW s \in UpTo(S, n + 1), s # {} PROVE h[s] = g[First(s)] + h[Rest(s)]
    BY <2>6, <2>3, <2>5
  <2>7. h[{}] = 0
    BY <2>2
  <2> HIDE DEF h
  <2>8. h \in Sums(n + 1)
    BY <2>4, <2>6, <2>7
  <2> QED
    BY <2>8
<1> HIDE DEF T
<1>3. T = Nat
  <2>1. T \in SUBSET Nat
    BY DEF T
  <2> QED
    BY <2>1, <1>1, <1>2, SetInduction
<1>4. UpTo(S, Cardinality(S)) = SUBSET S
  BY FS_Subset DEF UpTo
<1>5. Cardinality(S) \in T
  BY <1>3, FS_CardinalityType
<1>6. PICK f \in Sums(Cardinality(S)) : TRUE
  BY <1>5 DEF T
<1>7. IsSum(f, g, S)
  BY <1>4, <1>6 DEF IsSum
<1> QED
  BY <1>7

\* When one summand changes, a sum changes by as much.
LEMMA SumChange ==
  ASSUME NEW S, IsFiniteSet(S), NEW t \in S,
         NEW g \in [S -> Int], NEW g2 \in [S -> Int], \A x \in S : x # t => g2[x] = g[x],
         NEW f, IsSum(f, g, S), NEW f2, IsSum(f2, g2, S)
  PROVE  f2[S] - f[S] = g2[t] - g[t]
<1> DEFINE Holds(s) == f2[s] - f[s] = IF t \in s THEN g2[t] - g[t] ELSE 0
           T == {n \in Nat : \A s \in UpTo(S, n) : Holds(s)}
<1>1. 0 \in T
  <2> SUFFICES ASSUME NEW s \in UpTo(S, 0) PROVE Holds(s)
    OBVIOUS
  <2>1. s = {}
    BY FirstAndRest DEF UpTo
  <2> QED
    BY <2>1 DEF IsSum
<1>2. ASSUME NEW n \in T PROVE n + 1 \in T
  <2> SUFFICES ASSUME NEW s \in UpTo(S, n + 1) PROVE Holds(s)
    OBVIOUS
  <2>1. CASE s = {}
    BY <2>1 DEF IsSum
  <2>2. CASE s # {}
    <3>1. First(s) \in s /\ Rest(s) \in UpTo(S, n) /\ s \in SUBSET S /\ Rest(s) \in SUBSET S
      BY <2>2, FirstAndRest DEF UpTo
    <3>2. Holds(Rest(s))
      BY <3>1
    <3>3. f[s] = g[First(s)] + f[Rest(s)] /\ f2[s] = g2[First(s)] + f2[Rest(s)]
      BY <2>2, <3>1 DEF IsSum
    <3>4. f[Rest(s)] \in Int /\ f2[Rest(s)] \in Int /\ g[First(s)] \in Int /\ g2[First(s)] \in Int
      BY <3>1 DEF IsSum
    <3>5. CASE First(s) = t
      <4>1. t \in s /\ t \notin Rest(s)
        BY <3>1, <3>5 DEF Rest
      <4> QED
        BY <4>1, <3>2, <3>3, <3>4, <3>5
    <3>6. CASE First(s) # t
      <4>1. t \in s <=> t \in Rest(s)
        BY <3>6 DEF Rest
      <4>2. g2[First(s)] = g[First(s)]
        BY <3>1, <3>6
      <4> QED
        BY <4>1, <4>2, <3>2, <3>3, <3>4
    <3> QED
      BY <3>5, <3>6
  <2> QED
    BY <2>1, <2>2
<1> HIDE DEF T
<1>3. T = Nat
  <2>1. T \in SUBSET Nat
    BY DEF T
  <2> QED
    BY <2>1, <1>1, <1>2, SetInduction
<1>4. S \in UpTo(S, Cardinality(S)) /\ Cardinality(S) \in T
  BY <1>3, FS_CardinalityType DEF UpTo
<1>5. Holds(S)
  BY <1>4 DEF T
<1> QED
  BY <1>5

-----------------------------------------------------------------------------
(* The total of the crisis points. *)

Types ==
  /\ mentions \in [Topics -> [Sentiments -> Nat]]
  /\ high \in [Topics -> Nat]
  /\ \A t \in Topics : high[t] <= Count(t)

\* Mention keeps within the bound, by which the precision is chosen.
Bounded == \A t \in Topics : Count(t) <= MaxMentions

Inv == Types /\ Bounded

CrisisOf == [t \in Topics |-> Crisis(t)]

LEMMA LargerType ==
  ASSUME NEW m \in Int, NEW n \in Int
  PROVE  /\ Larger(m, n) \in Int
         /\ Larger(m, n) >= m
         /\ Larger(m, n) >= n
         /\ Larger(m, n) \in {m, n}
  BY DEF Larger

\* What the crisis of a topic is made of.
LEMMA CountTypes ==
  ASSUME Inv, NEW t \in Topics
  PROVE  /\ mentions[t]["positive"] \in Nat
         /\ mentions[t]["neutral"] \in Nat
         /\ mentions[t]["negative"] \in Nat
         /\ high[t] \in Nat
         /\ Count(t) \in Nat
         /\ Low(t) \in Nat
         /\ SentimentSum(t) \in Nat
         /\ SentimentSum(t) <= 3 * Count(t)
         /\ UrgencySum(t) = Count(t) + 3 * high[t]
<1>1. /\ mentions[t]["positive"] \in Nat
      /\ mentions[t]["neutral"] \in Nat
      /\ mentions[t]["negative"] \in Nat
  BY DEF Inv, Types, Sentiments
<1>2. high[t] \in Nat /\ high[t] <= Count(t)
  BY DEF Inv, Types
<1>3. Count(t) \in Nat /\ Low(t) \in Nat
  BY <1>1, <1>2 DEF Count, Low
<1>4. SentimentSum(t) \in Nat /\ SentimentSum(t) <= 3 * Count(t)
  BY <1>1 DEF SentimentSum, Larger, Count
<1>5. UrgencySum(t) = Count(t) + 3 * high[t]
  BY <1>2, <1>3 DEF UrgencySum, Larger, Low
<1> QED
  BY <1>1, <1>2, <1>3, <1>4, <1>5

\* The precision is a multiple of every count.
LEMMA Divides ==
  ASSUME NEW n \in 1..MaxMentions
  PROVE  Scale \div n \in Nat /\ n * (Scale \div n) = Scale
<1>1. \A k \in 1..MaxMentions : Scale % k = 0
  BY ScoringAssumption
<1>2. Scale % n = 0
  BY <1>1, Zenon
<1>3. Scale \in Nat /\ n \in Nat \ {0}
  BY ScoringAssumption
<1> QED
  BY <1>2, <1>3

LEMMA CrisisType == Inv => CrisisOf \in [Topics -> Int]
<1> SUFFICES ASSUME Inv, NEW t \in Topics PROVE Crisis(t) \in Int
  BY DEF CrisisOf
<1>1. CASE Count(t) = 0
  BY <1>1 DEF Crisis
<1>2. CASE Count(t) # 0
  <2>1. Count(t) \in 1..MaxMentions
    BY <1>2, CountTypes, ScoringAssumption DEF Inv, Bounded
  <2>2. Scale \div Count(t) \in Nat /\ Weight[t] \in Nat
    BY <2>1, Divides, ScoringAssumption
  <2>3. SentimentSum(t) \in Nat /\ UrgencySum(t) \in Nat
    BY CountTypes
  <2> QED
    BY <1>2, <2>2, <2>3 DEF Crisis
<1> QED
  BY <1>1, <1>2

\* TotalCrisis is the sum over all topics.
LEMMA TotalIsSum ==
  Inv => \E f : IsSum(f, CrisisOf, Topics) /\ TotalCrisis = f[Topics]
<1> SUFFICES ASSUME Inv PROVE \E f : IsSum(f, CrisisOf, Topics) /\ TotalCrisis = f[Topics]
  OBVIOUS
<1> DEFINE Folds(f) == f = [s \in SUBSET Topics |->
                              IF s = {} THEN 0
                              ELSE Crisis(CHOOSE x \in s : TRUE) + f[s \ {CHOOSE x \in s : TRUE}]]
           f == CHOOSE h : Folds(h)
<1>1. PICK h : IsSum(h, CrisisOf, Topics)
  BY CrisisType, SumExists, ScoringAssumption
<1>2. ASSUME NEW s \in SUBSET Topics, s # {}
      PROVE  CrisisOf[First(s)] = Crisis(CHOOSE x \in s : TRUE)
  BY <1>2, FirstAndRest, ScoringAssumption DEF First, CrisisOf
<1>3. Folds(h)
  <2> DEFINE h2 == [s \in SUBSET Topics |->
                     IF s = {} THEN 0
                     ELSE Crisis(CHOOSE x \in s : TRUE) + h[s \ {CHOOSE x \in s : TRUE}]]
  <2>1. ASSUME NEW s \in SUBSET Topics PROVE h[s] = h2[s]
    <3>1. CASE s = {}
      BY <3>1, <1>1 DEF IsSum
    <3>2. CASE s # {}
      BY <3>2, <1>1, <1>2 DEF IsSum, First, Rest
    <3> QED
      BY <3>1, <3>2
  <2>2. h = h2
    <3>1. h \in [SUBSET Topics -> Int]
      BY <1>1 DEF IsSum
    <3> QED
      BY <3>1, <2>1
  <2> QED
    BY <2>2
<1>4. Folds(f)
  BY <1>3
<1>5. TotalCrisis = f[Topics]
  BY DEF TotalCrisis, MapThenSumSet, MapThenFoldSet
<1>6. IsSum(f, CrisisOf, Topics)
  <2> DEFINE Same(s) == f[s] = h[s]
             T == {n \in Nat : \A s \in UpTo(Topics, n) : Same(s)}
  <2> HIDE DEF f
  <2>e. ASSUME NEW s \in SUBSET Topics
        PROVE  f[s] = IF s = {} THEN 0 ELSE CrisisOf[First(s)] + f[Rest(s)]
    <3>1. f[s] = IF s = {} THEN 0
                 ELSE Crisis(CHOOSE x \in s : TRUE) + f[s \ {CHOOSE x \in s : TRUE}]
      BY <1>4
    <3> QED
      BY <3>1, <1>2 DEF First, Rest
  <2>1. 0 \in T
    <3> SUFFICES ASSUME NEW s \in UpTo(Topics, 0) PROVE Same(s)
      OBVIOUS
    <3>1. s = {} /\ s \in SUBSET Topics
      BY FirstAndRest, ScoringAssumption DEF UpTo
    <3> QED
      BY <3>1, <2>e, <1>1 DEF IsSum
  <2>2. ASSUME NEW n \in T PROVE n + 1 \in T
    <3> SUFFICES ASSUME NEW s \in UpTo(Topics, n + 1) PROVE Same(s)
      OBVIOUS
    <3>0. s \in SUBSET Topics
      BY DEF UpTo
    <3>1. CASE s = {}
      BY <3>0, <3>1, <2>e, <1>1 DEF IsSum
    <3>2. CASE s # {}
      <4>1. Rest(s) \in UpTo(Topics, n)
        BY <3>2, FirstAndRest, ScoringAssumption DEF UpTo
      <4>2. Same(Rest(s))
        BY <4>1
      <4> QED
        BY <3>0, <3>2, <4>2, <2>e, <1>1 DEF IsSum
    <3> QED
      BY <3>1, <3>2
  <2> HIDE DEF T
  <2>3. T = Nat
    <3>1. T \in SUBSET Nat
      BY DEF T
    <3> QED
      BY <3>1, <2>1, <2>2, SetInduction
  <2>4. ASSUME NEW s \in SUBSET Topics PROVE f[s] = h[s]
    <3>1. Cardinality(s) \in Nat /\ s \in UpTo(Topics, Cardinality(s))
      BY FS_Subset, FS_CardinalityType, ScoringAssumption DEF UpTo
    <3> QED
      BY <3>1, <2>3 DEF T
  <2>5. f = h
    <3>1. f = [s \in SUBSET Topics |-> f[s]] /\ h = [s \in SUBSET Topics |-> h[s]]
      BY <1>1, <1>4 DEF IsSum
    <3> QED
      BY <3>1, <2>4
  <2> QED
    BY <2>5, <1>1
<1> QED
  BY <1>5, <1>6

-----------------------------------------------------------------------------
(* One mention more. *)

\* Crisis points are divided by n before the mention and by n + 1 after it: in
\* units of which there are n * (n + 1) in a point, both are whole numbers.
LEMMA CommonUnit ==
  ASSUME NEW n \in Nat \ {0}, NEW k \in Nat, NEW k2 \in Nat, n * k = (n + 1) * k2
  PROVE  \E d \in Nat : k2 = n * d /\ k = (n + 1) * d
<1> DEFINE d == k - k2
<1>1. n * d = k2
  <2>1. n * (k - k2) = n * k - n * k2
    OBVIOUS
  <2>2. (n + 1) * k2 = n * k2 + k2
    OBVIOUS
  <2> QED
    BY <2>1, <2>2
<1>2. d \in Nat
  <2> SUFFICES ASSUME d < 0 PROVE FALSE
    OBVIOUS
  <2>1. n * d < 0
    BY n \in Nat \ {0}, d \in Int, d < 0
  <2> QED
    BY <2>1, <1>1
<1>3. k = (n + 1) * d
  <2>1. (n + 1) * d = n * d + d
    OBVIOUS
  <2> QED
    BY <2>1, <1>1
<1> QED
  BY <1>1, <1>2, <1>3

\* The change of a topic's crisis in those units: s is the sum of sentiments,
\* h the mentions of high urgency, n all mentions.
Change(n, s, h, s2, h2) == (s2 - s) * (n * (n + 1)) + 3 * (s2 * h2) * n - 3 * (s * h) * (n + 1)

\* What bounds the change, whatever is mentioned.
LEMMA ChangeBounded ==
  ASSUME NEW n \in Nat, NEW s \in Nat, NEW h \in Nat, NEW s2 \in Nat, NEW h2 \in Nat,
         s <= 3 * n, h <= n, s2 <= s + 3, s <= s2 + 1, h <= h2, h2 <= h + 1
  PROVE  Change(n, s, h, s2, h2) \in -(13 * (n * (n + 1)))..(12 * (n * (n + 1)))
<1>1. Change(n, s, h, s2, h2) <= 12 * (n * (n + 1))
  <2>1. s2 * h2 <= (s + 3) * (h + 1)
    OBVIOUS
  <2>2. (s2 * h2) * n <= ((s + 3) * (h + 1)) * n
    BY <2>1
  <2>3. (s2 - s) * (n * (n + 1)) <= 3 * (n * (n + 1))
    OBVIOUS
  <2>4. Change(n, s, h, s2, h2)
          <= 3 * (n * (n + 1)) + 3 * ((s + 3) * (h + 1)) * n - 3 * (s * h) * (n + 1)
    BY <2>2, <2>3 DEF Change
  <2>5. (3 * n - s) * (n - h) >= 0
    OBVIOUS
  <2>6. 12 * (n * (n + 1))
          - (3 * (n * (n + 1)) + 3 * ((s + 3) * (h + 1)) * n - 3 * (s * h) * (n + 1))
        = 3 * ((3 * n - s) * (n - h))
    OBVIOUS
  <2> QED
    BY <2>4, <2>5, <2>6 DEF Change
<1>2. Change(n, s, h, s2, h2) >= -(13 * (n * (n + 1)))
  <2>1. (s2 * h2) * n >= (s2 * h) * n
    OBVIOUS
  <2>2. (s2 - s) * (n * (n + 1)) >= -(n * (n + 1))
    OBVIOUS
  <2>3. (s2 * h) * n >= (s * h) * n - h * n
    OBVIOUS
  <2>4. Change(n, s, h, s2, h2) >= -(n * (n + 1)) - 3 * (h * n) - 3 * (s * h)
    BY <2>1, <2>2, <2>3 DEF Change
  <2>5. h * n <= n * n /\ s * h <= 3 * (n * n)
    OBVIOUS
  <2> QED
    BY <2>4, <2>5 DEF Change
<1> QED
  BY <1>1, <1>2 DEF Change

\* A worse sentiment, or the same with a higher urgency, adds to the crisis.
LEMMA WorseAdds ==
  ASSUME NEW n \in Nat, NEW s \in Nat, NEW h \in Nat, NEW s2 \in Nat, NEW h2 \in Nat,
         s <= 3 * n, h <= n, h <= h2,
         \/ s = 0
         \/ s2 = s + 3
         \/ s2 = s /\ h2 = h + 1
  PROVE  Change(n, s, h, s2, h2) >= 0
<1>1. CASE s = 0
  BY <1>1 DEF Change
<1>2. CASE s2 = s + 3
  <2>1. (s2 * h2) * n >= (s2 * h) * n
    OBVIOUS
  <2>2. (s2 * h) * n = (s * h) * n + 3 * (h * n)
    BY <1>2
  <2>3. s * h <= 3 * (n * h)
    OBVIOUS
  <2> QED
    BY <1>2, <2>1, <2>2, <2>3 DEF Change
<1>3. CASE s2 = s /\ h2 = h + 1
  <2>1. Change(n, s, h, s2, h2) = 3 * (s * (n - h))
    BY <1>3 DEF Change
  <2>2. s * (n - h) >= 0
    OBVIOUS
  <2> QED
    BY <2>1, <2>2
<1> QED
  BY <1>1, <1>2, <1>3

\* A better sentiment that is not urgent takes from it.
LEMMA BetterTakes ==
  ASSUME NEW n \in Nat, NEW s \in Nat, NEW h \in Nat, NEW s2 \in Nat, s2 <= s
  PROVE  Change(n, s, h, s2, h) <= 0
<1>1. (s2 - s) * (n * (n + 1)) <= 0
  OBVIOUS
<1>2. (s2 * h) * n <= (s * h) * n
  <2>1. s2 * h <= s * h
    OBVIOUS
  <2> QED
    BY <2>1
<1>3. s * h >= 0
  OBVIOUS
<1> QED
  BY <1>1, <1>2, <1>3 DEF Change

-----------------------------------------------------------------------------
(* The invariant, and what a mention does to the total. *)

LEMMA InvInit == Init => Inv
<1> SUFFICES ASSUME Init PROVE Inv
  OBVIOUS
<1>1. mentions \in [Topics -> [Sentiments -> Nat]] /\ high \in [Topics -> Nat]
  BY DEF Init
<1>2. ASSUME NEW t \in Topics PROVE Count(t) = 0 /\ high[t] = 0
  BY DEF Init, Count, Sentiments
<1> QED
  BY <1>1, <1>2, ScoringAssumption DEF Inv, Types, Bounded

\* The new counts.
LEMMA MentionCounts ==
  ASSUME Inv, NEW t \in Topics, NEW s \in Sentiments, NEW u \in Urgencies, Mention(t, s, u)
  PROVE  /\ mentions' \in [Topics -> [Sentiments -> Nat]]
         /\ high' \in [Topics -> Nat]
         /\ high'[t] = IF u = "high" THEN high[t] + 1 ELSE high[t]
         /\ mentions'[t]["positive"] = mentions[t]["positive"] + IF s = "positive" THEN 1 ELSE 0
         /\ mentions'[t]["neutral"] = mentions[t]["neutral"] + IF s = "neutral" THEN 1 ELSE 0
         /\ mentions'[t]["negative"] = mentions[t]["negative"] + IF s = "negative" THEN 1 ELSE 0
         /\ Count(t)' = Count(t) + 1
         /\ Count(t) < MaxMentions
         /\ \A x \in Topics : x # t => mentions'[x] = mentions[x] /\ high'[x] = high[x]
<1>1. mentions \in [Topics -> [Sentiments -> Nat]] /\ high \in [Topics -> Nat]
  BY DEF Inv, Types
<1>2. mentions' = [mentions EXCEPT ![t] = [mentions[t] EXCEPT ![s] = @ + 1]]
  BY DEF Mention
<1>3. mentions'[t] = [mentions[t] EXCEPT ![s] = @ + 1] /\ mentions[t] \in [Sentiments -> Nat]
  BY <1>1, <1>2
<1>4. \A x \in Sentiments : mentions'[t][x] = mentions[t][x] + IF s = x THEN 1 ELSE 0
  BY <1>3
<1>5. /\ mentions'[t]["positive"] = mentions[t]["positive"] + IF s = "positive" THEN 1 ELSE 0
      /\ mentions'[t]["neutral"] = mentions[t]["neutral"] + IF s = "neutral" THEN 1 ELSE 0
      /\ mentions'[t]["negative"] = mentions[t]["negative"] + IF s = "negative" THEN 1 ELSE 0
  BY <1>4 DEF Sentiments
<1>6. Count(t)' = Count(t) + 1
  <2>1. s = "positive" \/ s = "neutral" \/ s = "negative"
    BY DEF Sentiments
  <2>2. /\ mentions[t]["positive"] \in Nat
        /\ mentions[t]["neutral"] \in Nat
        /\ mentions[t]["negative"] \in Nat
    BY CountTypes
  <2> QED
    BY <2>1, <2>2, <1>5 DEF Count
<1>7. mentions' \in [Topics -> [Sentiments -> Nat]]
  BY <1>1, <1>2, <1>3
<1>8. high' \in [Topics -> Nat] /\ high'[t] = IF u = "high" THEN high[t] + 1 ELSE high[t]
  BY <1>1 DEF Mention
<1>9. \A x \in Topics : x # t => mentions'[x] = mentions[x] /\ high'[x] = high[x]
  BY <1>1, <1>2 DEF Mention
<1> QED
  BY <1>5, <1>6, <1>7, <1>8, <1>9 DEF Mention

LEMMA MentionKeeps ==
  ASSUME Inv, NEW t \in Topics, NEW s \in Sentiments, NEW u \in Urgencies, Mention(t, s, u)
  PROVE  Inv'
<1>1. ASSUME NEW x \in Topics PROVE (high[x] <= Count(x))' /\ (Count(x) <= MaxMentions)'
  <2>1. CASE x = t
    BY <2>1, MentionCounts, CountTypes, ScoringAssumption DEF Inv, Types
  <2>2. CASE x # t
    BY <2>2, MentionCounts DEF Inv, Types, Bounded, Count
  <2> QED
    BY <2>1, <2>2
<1> QED
  BY <1>1, MentionCounts DEF Inv, Types, Bounded

LEMMA InvStep == Inv /\ [Next]_vars => Inv'
<1> SUFFICES ASSUME Inv, [Next]_vars PROVE Inv'
  OBVIOUS
<1>1. CASE Next
  BY <1>1, MentionKeeps DEF Next
<1>2. CASE UNCHANGED vars
  BY <1>2 DEF vars, Inv, Types, Bounded, Count
<1> QED
  BY <1>1, <1>2

\* The total changes by what the topic's crisis changes.
LEMMA TotalChange ==
  ASSUME Inv, NEW t \in Topics, NEW s \in Sentiments, NEW u \in Urgencies, Mention(t, s, u)
  PROVE  /\ TotalCrisis \in Int
         /\ TotalCrisis' \in Int
         /\ TotalCrisis' - TotalCrisis = Crisis(t)' - Crisis(t)
<1>1. Inv'
  BY MentionKeeps
<1>2. \E f : IsSum(f, CrisisOf, Topics) /\ TotalCrisis = f[Topics]
  BY TotalIsSum
<1>3. (\E f : IsSum(f, CrisisOf, Topics) /\ TotalCrisis = f[Topics])'
  BY <1>1, TotalIsSum, PTL
<1>4. PICK f : IsSum(f, CrisisOf, Topics) /\ TotalCrisis = f[Topics]
  BY <1>2
<1>5. PICK f2 : IsSum(f2, CrisisOf', Topics) /\ TotalCrisis' = f2[Topics]
  BY <1>3
<1>6. CrisisOf \in [Topics -> Int] /\ CrisisOf' \in [Topics -> Int]
  <2>1. (CrisisOf \in [Topics -> Int])'
    BY <1>1, CrisisType, PTL
  <2> QED
    BY <2>1, CrisisType
<1>7. ASSUME NEW x \in Topics, x # t PROVE CrisisOf'[x] = CrisisOf[x]
  BY <1>7, MentionCounts DEF CrisisOf, Crisis, SentimentSum, UrgencySum, Low, Count
<1>8. f2[Topics] - f[Topics] = CrisisOf'[t] - CrisisOf[t]
  BY <1>4, <1>5, <1>6, <1>7, SumChange, ScoringAssumption
<1>9. f[Topics] \in Int /\ f2[Topics] \in Int
  BY <1>4, <1>5 DEF IsSum
<1> QED
  BY <1>4, <1>5, <1>8, <1>9 DEF CrisisOf

-----------------------------------------------------------------------------
(* What a mention does to the crisis of its topic. *)

\* CountTypes of every topic, in the next state too.
Parts ==
  \A t \in Topics :
    /\ high[t] \in Nat
    /\ high[t] <= Count(t)
    /\ Count(t) \in Nat
    /\ SentimentSum(t) \in Nat
    /\ SentimentSum(t) <= 3 * Count(t)
    /\ UrgencySum(t) = Count(t) + 3 * high[t]

LEMMA PartsHold == Inv => Parts
  BY CountTypes DEF Parts, Inv, Types

\* A mention moves the sum of sentiments by its own, unless it is clamped.
LEMMA SentimentMoves ==
  ASSUME Inv, NEW t \in Topics, NEW s \in Sentiments, NEW u \in Urgencies, Mention(t, s, u)
  PROVE  /\ SentimentSum(t)' <= SentimentSum(t) + 3
         /\ SentimentSum(t) <= SentimentSum(t)' + 1
         /\ s = "negative" => SentimentSum(t) = 0 \/ SentimentSum(t)' = SentimentSum(t) + 3
         /\ s = "neutral" => SentimentSum(t)' = SentimentSum(t)
         /\ s = "positive" => SentimentSum(t)' <= SentimentSum(t)
<1> DEFINE p == mentions[t]["positive"]
           m == mentions[t]["negative"]
           p2 == mentions'[t]["positive"]
           m2 == mentions'[t]["negative"]
<1>1. p \in Nat /\ m \in Nat
  BY CountTypes
<1>2. /\ p2 = p + IF s = "positive" THEN 1 ELSE 0
      /\ m2 = m + IF s = "negative" THEN 1 ELSE 0
  BY MentionCounts
<1>3. SentimentSum(t) = Larger(0, 3 * m - p) /\ SentimentSum(t)' = Larger(0, 3 * m2 - p2)
  BY DEF SentimentSum
<1> HIDE DEF p, m, p2, m2
<1>4. s = "positive" \/ s = "neutral" \/ s = "negative"
  BY DEF Sentiments
<1> QED
  BY <1>1, <1>2, <1>3, <1>4 DEF Larger

\* The first mention of a topic.
LEMMA FirstMention ==
  ASSUME Inv, NEW t \in Topics, NEW s \in Sentiments, NEW u \in Urgencies, Mention(t, s, u),
         Count(t) = 0
  PROVE  /\ Crisis(t)' - Crisis(t) \in 0..(12 * Weight[t] * Scale)
         /\ s = "positive" => Crisis(t)' - Crisis(t) = 0
<1> DEFINE s2 == SentimentSum(t)'
           h2 == high'[t]
           w == Weight[t]
<1>1. Inv'
  BY MentionKeeps
<1>2. Parts'
  BY <1>1, PartsHold, PTL
<1>3. Count(t)' = 1
  BY MentionCounts
<1>4. s2 \in 0..3 /\ h2 \in 0..1 /\ UrgencySum(t)' = 1 + 3 * h2
  <2>1. /\ high'[t] \in Nat /\ high'[t] <= Count(t)'
        /\ SentimentSum(t)' \in Nat /\ SentimentSum(t)' <= 3 * Count(t)'
        /\ UrgencySum(t)' = Count(t)' + 3 * high'[t]
    BY <1>2 DEF Parts
  <2> HIDE DEF s2, h2
  <2>2. s2 \in Nat /\ s2 <= 3 * 1 /\ h2 \in Nat /\ h2 <= 1 /\ UrgencySum(t)' = 1 + 3 * h2
    BY <2>1, <1>3 DEF s2, h2
  <2> QED
    BY <2>2
<1>5. w \in Nat /\ Scale \in Nat /\ Scale \div 1 = Scale
  BY ScoringAssumption
<1>6. Crisis(t) = 0 /\ Crisis(t)' = s2 * (1 + 3 * h2) * w * Scale
  BY <1>3, <1>4, <1>5 DEF Crisis
<1>7. s = "positive" => s2 = 0
  <2>1. SentimentSum(t) = 0
    BY PartsHold DEF Parts
  <2> QED
    BY <2>1, <1>4, SentimentMoves
<1> HIDE DEF s2, h2, w
<1>8. s2 * (1 + 3 * h2) \in 0..12
  BY <1>4
<1>9. s2 * (1 + 3 * h2) * w * Scale \in 0..(12 * w * Scale)
  <2> DEFINE k == s2 * (1 + 3 * h2)
  <2>1. k \in 0..12
    BY <1>8
  <2> HIDE DEF k
  <2>2. w * Scale \in Nat
    BY <1>5
  <2>3. k * (w * Scale) \in 0..(12 * (w * Scale))
    BY <2>1, <2>2
  <2>4. k * w * Scale = k * (w * Scale) /\ 12 * w * Scale = 12 * (w * Scale)
    BY <2>1, <1>5
  <2>5. k * w * Scale \in 0..(12 * w * Scale)
    BY <2>3, <2>4
  <2> QED
    BY <2>5 DEF k
<1>10. s2 = 0 => s2 * (1 + 3 * h2) * w * Scale = 0
  BY <1>4, <1>5
<1> QED
  BY <1>6, <1>7, <1>9, <1>10 DEF w

\* Every further mention, in the units of CommonUnit.
LEMMA NextMention ==
  ASSUME Inv, NEW t \in Topics, NEW s \in Sentiments, NEW u \in Urgencies, Mention(t, s, u),
         Count(t) # 0
  PROVE  \E d \in Nat :
           /\ d * (Count(t) * (Count(t) + 1)) = Scale
           /\ Crisis(t)' - Crisis(t)
                = (Weight[t] * d)
                    * Change(Count(t), SentimentSum(t), high[t], SentimentSum(t)', high'[t])
<1> DEFINE n == Count(t)
           s1 == SentimentSum(t)
           s2 == SentimentSum(t)'
           h1 == high[t]
           h2 == high'[t]
           w == Weight[t]
           k == Scale \div n
           k2 == Scale \div (n + 1)
<1>1. Inv'
  BY MentionKeeps
<1>2. Parts /\ Parts'
  BY <1>1, PartsHold, PTL
<1>3. Count(t)' = n + 1 /\ n < MaxMentions
  BY MentionCounts
<1>4. n \in Nat \ {0} /\ s1 \in Nat /\ h1 \in Nat /\ UrgencySum(t) = n + 3 * h1
  BY <1>2 DEF Parts
<1>5. s2 \in Nat /\ h2 \in Nat /\ UrgencySum(t)' = (n + 1) + 3 * h2
  BY <1>2, <1>3 DEF Parts
<1>6. n \in 1..MaxMentions /\ n + 1 \in 1..MaxMentions
  BY <1>3, <1>4, ScoringAssumption
<1>7. w \in Nat /\ Scale \in Nat
  BY ScoringAssumption
<1>8. k \in Nat /\ n * k = Scale /\ k2 \in Nat /\ (n + 1) * k2 = Scale
  <2>1. \A x \in 1..MaxMentions : Scale \div x \in Nat /\ x * (Scale \div x) = Scale
    BY Divides
  <2> HIDE DEF n
  <2> QED
    BY <2>1, <1>6
<1>9. Crisis(t) = s1 * (n + 3 * h1) * w * k
  BY <1>4 DEF Crisis
<1>10. Crisis(t)' = s2 * ((n + 1) + 3 * h2) * w * k2
  BY <1>3, <1>4, <1>5 DEF Crisis
<1> HIDE DEF n, s1, s2, h1, h2, w, k, k2
<1>11. PICK d \in Nat : k2 = n * d /\ k = (n + 1) * d
  <2>1. n * k = (n + 1) * k2
    BY <1>8
  <2> QED
    BY <2>1, <1>4, <1>8, CommonUnit
<1>12. d * (n * (n + 1)) = Scale
  <2>1. n * ((n + 1) * d) = d * (n * (n + 1))
    BY <1>4
  <2> QED
    BY <2>1, <1>8, <1>11
<1>13. Crisis(t)' - Crisis(t) = (w * d) * Change(n, s1, h1, s2, h2)
  <2>1. Crisis(t) = s1 * (n + 3 * h1) * w * ((n + 1) * d)
    BY <1>9, <1>11
  <2>2. Crisis(t)' = s2 * ((n + 1) + 3 * h2) * w * (n * d)
    BY <1>10, <1>11
  <2> QED
    BY <2>1, <2>2, <1>4, <1>5, <1>7 DEF Change
<1> QED
  BY <1>12, <1>13 DEF n, s1, s2, h1, h2, w

-----------------------------------------------------------------------------
(* The score. *)

\* The parts of a division.
LEMMA Division ==
  ASSUME NEW x \in Int, NEW n \in Nat \ {0}
  PROVE  /\ x \div n \in Int
         /\ x % n \in 0..(n - 1)
         /\ x = n * (x \div n) + (x % n)
  OBVIOUS

\* Rounding keeps the order.
LEMMA TenthsMonotone ==
  ASSUME NEW x \in Int, NEW y \in Int, x <= y
  PROVE  Tenths(x) \in Int /\ Tenths(y) \in Int /\ Tenths(x) <= Tenths(y)
<1> DEFINE tenth == Point \div 10
           a == x \div tenth
           b == y \div tenth
           p == x % tenth
           q == y % tenth
<1>1. tenth \in Nat \ {0}
  BY ScoringAssumption DEF Point
<1> HIDE DEF tenth
<1>2. /\ a \in Int /\ p \in 0..(tenth - 1) /\ x = tenth * a + p
      /\ b \in Int /\ q \in 0..(tenth - 1) /\ y = tenth * b + q
  BY <1>1, Division
<1>3. /\ Tenths(x) = IF 2 * p > tenth \/ (2 * p = tenth /\ a % 2 = 1) THEN a + 1 ELSE a
      /\ Tenths(y) = IF 2 * q > tenth \/ (2 * q = tenth /\ b % 2 = 1) THEN b + 1 ELSE b
  BY DEF Tenths, tenth
<1> HIDE DEF a, b, p, q
<1>4. a <= b
  <2> SUFFICES ASSUME b + 1 <= a PROVE FALSE
    BY <1>2
  <2>1. tenth * (b + 1) <= tenth * a
    BY <1>1, <1>2
  <2>2. tenth * (b + 1) = tenth * b + tenth
    BY <1>1, <1>2
  <2> QED
    BY <2>1, <2>2, <1>1, <1>2
<1>5. CASE a = b
  <2>1. tenth * a = tenth * b /\ tenth * a \in Int
    BY <1>1, <1>2, <1>5
  <2>2. p <= q
    BY <2>1, <1>2
  <2> QED
    BY <2>2, <1>1, <1>2, <1>3, <1>5
<1>6. CASE a < b
  BY <1>1, <1>2, <1>3, <1>6
<1> QED
  BY <1>2, <1>4, <1>5, <1>6

\* The score that a total gives.
ScoreOf(x) == LET raw == Tenths(Base * Point - x)
              IN  Larger(0, IF raw > 10 * Top THEN 10 * Top ELSE raw)

\* A larger total never gives a larger score.
LEMMA ScoreAntitone ==
  ASSUME NEW x \in Int, NEW y \in Int, x <= y
  PROVE  ScoreOf(x) \in 0..(10 * Top) /\ ScoreOf(y) <= ScoreOf(x)
<1> DEFINE r == Tenths(Base * Point - x)
           q == Tenths(Base * Point - y)
<1>1. Base * Point - x \in Int /\ Base * Point - y \in Int /\ Base * Point - y <= Base * Point - x
  <2>1. Base * Point \in Int
    BY ScoringAssumption DEF Point
  <2> QED
    BY <2>1
<1>2. r \in Int /\ q \in Int /\ q <= r
  BY <1>1, TenthsMonotone
<1> HIDE DEF r, q
<1>3. /\ ScoreOf(x) = Larger(0, IF r > 10 * Top THEN 10 * Top ELSE r)
      /\ ScoreOf(y) = Larger(0, IF q > 10 * Top THEN 10 * Top ELSE q)
  BY DEF ScoreOf, r, q
<1>4. Top \in Nat
  BY ScoringAssumption
<1> QED
  BY <1>2, <1>3, <1>4 DEF Larger

LEMMA ScoreIs == Score = ScoreOf(TotalCrisis)
  BY DEF Score, ScoreOf

-----------------------------------------------------------------------------
LEMMA Always == Spec => []Inv
<1>1. Init => Inv
  BY InvInit
<1> QED
  BY <1>1, InvStep, PTL DEF Spec

LEMMA TotalType == Inv => TotalCrisis \in Int
<1> SUFFICES ASSUME Inv PROVE TotalCrisis \in Int
  OBVIOUS
<1>1. PICK f : IsSum(f, CrisisOf, Topics) /\ TotalCrisis = f[Topics]
  BY TotalIsSum
<1> QED
  BY <1>1 DEF IsSum

\* The counts have their types, and the score lies within 0..max, for every set
\* of topics, all weights and any number of mentions.
THEOREM ScoringTypeCorrect == Spec => []TypeOK
<1>1. Inv => TypeOK
  <2> SUFFICES ASSUME Inv PROVE TypeOK
    OBVIOUS
  <2>1. TotalCrisis \in Int
    BY TotalType
  <2>2. Score \in 0..(10 * Top)
    BY <2>1, ScoreIs, ScoreAntitone
  <2> QED
    BY <2>2 DEF TypeOK, Inv, Types
<1> QED
  BY <1>1, Always, PTL

\* How far one mention moves the total, and in which direction.
LEMMA MentionMoves ==
  ASSUME Inv, NEW t \in Topics, NEW s \in Sentiments, NEW u \in Urgencies, Mention(t, s, u)
  PROVE  LET change == TotalCrisis' - TotalCrisis
         IN  /\ change \in -(13 * Weight[t] * Scale)..(12 * Weight[t] * Scale)
             /\ s = "negative" \/ (s = "neutral" /\ u = "high") => change >= 0
             /\ s = "positive" /\ u # "high" => change <= 0
<1> DEFINE change == TotalCrisis' - TotalCrisis
           w == Weight[t]
<1>1. change = Crisis(t)' - Crisis(t)
  BY TotalChange
<1>2. w \in Nat /\ Scale \in Nat
  BY ScoringAssumption
<1>3. 13 * w * Scale \in Nat /\ 12 * w * Scale \in Nat
  BY <1>2
<1>4. CASE Count(t) = 0
  <2>1. change \in 0..(12 * w * Scale) /\ (s = "positive" => change = 0)
    BY <1>1, <1>4, FirstMention
  <2> HIDE DEF change, w
  <2>2. /\ change \in -(13 * w * Scale)..(12 * w * Scale)
        /\ change >= 0
        /\ s = "positive" => change <= 0
    BY <2>1, <1>3
  <2> QED
    BY <2>2 DEF change, w
<1>5. CASE Count(t) # 0
  <2> DEFINE n == Count(t)
             s1 == SentimentSum(t)
             s2 == SentimentSum(t)'
             h1 == high[t]
             h2 == high'[t]
             c == Change(n, s1, h1, s2, h2)
  <2>1. PICK d \in Nat : d * (n * (n + 1)) = Scale /\ change = (w * d) * c
    BY <1>1, <1>5, NextMention
  <2>2. Parts /\ Parts'
    BY MentionKeeps, PartsHold, PTL
  <2>3. n \in Nat /\ s1 \in Nat /\ s1 <= 3 * n /\ h1 \in Nat /\ h1 <= n
    BY <2>2 DEF Parts
  <2>4. s2 \in Nat /\ h2 \in Nat
    BY <2>2 DEF Parts
  <2>5. h2 = IF u = "high" THEN h1 + 1 ELSE h1
    BY MentionCounts
  <2>6. /\ s2 <= s1 + 3
        /\ s1 <= s2 + 1
        /\ s = "negative" => s1 = 0 \/ s2 = s1 + 3
        /\ s = "neutral" => s2 = s1
        /\ s = "positive" => s2 <= s1
    BY SentimentMoves
  <2> HIDE DEF change, w, n, s1, s2, h1, h2
  <2>7. c \in -(13 * (n * (n + 1)))..(12 * (n * (n + 1)))
    BY <2>3, <2>4, <2>5, <2>6, ChangeBounded
  <2>8. s = "negative" \/ (s = "neutral" /\ u = "high") => c >= 0
    <3>1. CASE s = "negative"
      BY <3>1, <2>3, <2>4, <2>5, <2>6, WorseAdds
    <3>2. CASE s = "neutral" /\ u = "high"
      BY <3>2, <2>3, <2>4, <2>5, <2>6, WorseAdds
    <3> QED
      BY <3>1, <3>2
  <2>9. s = "positive" /\ u # "high" => c <= 0
    <3> SUFFICES ASSUME s = "positive", u # "high" PROVE c <= 0
      OBVIOUS
    <3>1. s2 <= s1 /\ h2 = h1
      BY <2>5, <2>6
    <3> QED
      BY <3>1, <2>3, <2>4, BetterTakes
  <2> HIDE DEF c
  <2>10. c \in Int /\ w * d \in Nat
    BY <2>7, <2>3, <2>1, <1>2
  <2>11. change <= 12 * w * Scale
    <3>1. (w * d) * c <= (w * d) * (12 * (n * (n + 1)))
      BY <2>10, <2>7, <2>3
    <3>2. (w * d) * (12 * (n * (n + 1))) = 12 * w * (d * (n * (n + 1)))
      BY <2>1, <1>2, <2>3
    <3> QED
      BY <3>1, <3>2, <2>1
  <2>12. change >= -(13 * w * Scale)
    <3>1. (w * d) * c >= (w * d) * (-(13 * (n * (n + 1))))
      BY <2>10, <2>7, <2>3
    <3>2. (w * d) * (-(13 * (n * (n + 1)))) = -(13 * w * (d * (n * (n + 1))))
      BY <2>1, <1>2, <2>3
    <3> QED
      BY <3>1, <3>2, <2>1
  <2>13. change \in Int /\ (c >= 0 => change >= 0) /\ (c <= 0 => change <= 0)
    BY <2>1, <2>10
  <2>14. /\ change \in -(13 * w * Scale)..(12 * w * Scale)
         /\ s = "negative" \/ (s = "neutral" /\ u = "high") => change >= 0
         /\ s = "positive" /\ u # "high" => change <= 0
    BY <2>8, <2>9, <2>11, <2>12, <2>13, <1>3
  <2> QED
    BY <2>14 DEF change, w
<1> QED
  BY <1>4, <1>5

\* The sign of a difference is the order of its terms.
LEMMA Order ==
  ASSUME NEW a \in Int, NEW b \in Int
  PROVE  (a - b >= 0 => b <= a) /\ (a - b <= 0 => a <= b)
OBVIOUS

\* Whatever was mentioned before, a negative mention and an urgent neutral one
\* never raise the score.
THEOREM BadNews == Spec => BadNewsNeverHelps
<1>1. ASSUME Inv, [Next]_vars
      PROVE  [\A t \in Topics :
                (\E u \in Urgencies : Mention(t, "negative", u)) \/ Mention(t, "neutral", "high") =>
                  Score' <= Score]_vars
  <2> SUFFICES ASSUME NEW t \in Topics, NEW s \in Sentiments, NEW u \in Urgencies, Mention(t, s, u),
                      s = "negative" \/ (s = "neutral" /\ u = "high")
               PROVE  Score' <= Score
    BY DEF Sentiments, Urgencies
  <2>1. TotalCrisis \in Int /\ TotalCrisis' \in Int
    BY <1>1, TotalChange
  <2>2. TotalCrisis <= TotalCrisis'
    <3>1. TotalCrisis' - TotalCrisis >= 0
      BY <1>1, MentionMoves
    <3> QED
      BY <2>1, <3>1, Order
  <2>3. Score = ScoreOf(TotalCrisis) /\ Score' = ScoreOf(TotalCrisis')
    BY DEF Score, ScoreOf
  <2>4. ScoreOf(TotalCrisis') <= ScoreOf(TotalCrisis)
    BY <2>1, <2>2, ScoreAntitone
  <2> QED
    BY <2>3, <2>4
<1> QED
  BY <1>1, Always, PTL DEF Spec, BadNewsNeverHelps

\* A positive mention that is not urgent never lowers it.
THEOREM GoodNews == Spec => GoodNewsNeverHurts
<1>1. ASSUME Inv, [Next]_vars
      PROVE  [\A t \in Topics, u \in {"low", "medium"} :
                Mention(t, "positive", u) => Score' >= Score]_vars
  <2> SUFFICES ASSUME NEW t \in Topics, NEW u \in {"low", "medium"}, Mention(t, "positive", u)
               PROVE  Score' >= Score
    OBVIOUS
  <2>1. "positive" \in Sentiments /\ u \in Urgencies /\ u # "high"
    BY DEF Sentiments, Urgencies
  <2>2. TotalCrisis \in Int /\ TotalCrisis' \in Int
    BY <1>1, <2>1, TotalChange
  <2>3. TotalCrisis' <= TotalCrisis
    <3>1. TotalCrisis' - TotalCrisis <= 0
      BY <1>1, <2>1, MentionMoves
    <3> QED
      BY <2>2, <3>1, Order
  <2>4. Score = ScoreOf(TotalCrisis) /\ Score' = ScoreOf(TotalCrisis')
    BY DEF Score, ScoreOf
  <2>5. ScoreOf(TotalCrisis) \in Int /\ ScoreOf(TotalCrisis') \in Int
    BY <2>2, ScoreAntitone, ScoringAssumption
  <2>6. ScoreOf(TotalCrisis) <= ScoreOf(TotalCrisis')
    BY <2>2, <2>3, ScoreAntitone
  <2> QED
    BY <2>4, <2>5, <2>6
<1> QED
  BY <1>1, Always, PTL DEF Spec, GoodNewsNeverHurts

\* One mention adds at most what a topic's first can, and takes at most 3.25
\* points times the weight: the bounds do not grow with the mentions.
THEOREM MentionBounded == Spec => OneMentionIsBounded
<1>1. ASSUME Inv, [Next]_vars
      PROVE  [\A t \in Topics :
                (\E s \in Sentiments, u \in Urgencies : Mention(t, s, u)) =>
                  TotalCrisis' - TotalCrisis \in -(13 * Weight[t] * Scale)..(12 * Weight[t] * Scale)]_vars
  BY <1>1, MentionMoves
<1> QED
  BY <1>1, Always, PTL DEF Spec, OneMentionIsBounded

=============================================================================
