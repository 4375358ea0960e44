------------------------- MODULE RateLimiter_proofs -------------------------
(***************************************************************************)
(* The window bound of the token bucket for every rate, capacity and cost, *)
(* every set of processes and keys, and every window of time.              *)
(***************************************************************************)
EXTENDS RateLimiter, TLAPS

\* What was let through and what is still in the bucket come out of the same
\* allowance.  The bound alone is not inductive: it does not say that a bucket
\* that let much through is emptier.
Budget ==
  \A b \in Buckets :
    b[1] \in Initialised => admitted[b] * Cost + Level(b) <= Allowance(b[1])

IInv == TypeOK /\ Budget

\* Buckets are pairs of a process and a key.
LEMMA BucketsArePairs == \A b \in Buckets : b[1] \in Processes /\ b[2] \in Keys
BY DEF Buckets

\* A bucket never holds less than nothing or more than its capacity.
LEMMA LevelType ==
  ASSUME TypeOK, NEW b \in Buckets, NEW t \in Nat, last[b] <= t
  PROVE  LevelAt(b, t) \in 0..Capacity
<1>1. (t - last[b]) * Rate \in Nat
  BY LimiterAssumption DEF TypeOK
<1>. QED
  BY <1>1, LimiterAssumption DEF TypeOK, LevelAt, Capped

\* In a tick a bucket gains at most Rate.
LEMMA LevelTick ==
  ASSUME TypeOK, NEW b \in Buckets
  PROVE  LevelAt(b, now + 1) <= Level(b) + Rate
<1>1. (now + 1 - last[b]) * Rate = (now - last[b]) * Rate + Rate
  BY LimiterAssumption DEF TypeOK
<1>2. (now - last[b]) * Rate \in Int
  BY LimiterAssumption DEF TypeOK
<1>. QED
  BY <1>1, <1>2, LimiterAssumption DEF TypeOK, Level, LevelAt, Capped

\* A bucket that was just computed is at its tokens.
LEMMA LevelNow ==
  ASSUME TypeOK, NEW b \in Buckets, last[b] = now
  PROVE  Level(b) = tokens[b]
<1>1. (now - last[b]) * Rate = 0
  BY LimiterAssumption DEF TypeOK
<1>. QED
  BY <1>1, LimiterAssumption DEF TypeOK, Level, LevelAt, Capped

\* The initial state: full buckets, nothing let through.
LEMMA IInvInit == Init => IInv
<1>. SUFFICES ASSUME Init PROVE IInv
  OBVIOUS
<1>1. TypeOK
  BY LimiterAssumption DEF Init, TypeOK
<1>2. Budget
  <2>. SUFFICES ASSUME NEW b \in Buckets, b[1] \in Initialised
                PROVE  admitted[b] * Cost + Level(b) <= Allowance(b[1])
    BY DEF Budget
  <2>1. Level(b) <= Capacity
    BY <1>1, LevelType DEF TypeOK, Level
  <2>2. admitted[b] * Cost = 0
    BY LimiterAssumption DEF Init
  <2>3. Allowance(b[1]) = Capacity
    BY LimiterAssumption, BucketsArePairs DEF Init, Allowance
  <2>. QED BY <1>1, <2>1, <2>2, <2>3, LevelType, LimiterAssumption DEF TypeOK, Level
<1>. QED BY <1>1, <1>2 DEF IInv

\* Every step keeps the types.
LEMMA TypeStep ==
  ASSUME TypeOK, [Next]_vars PROVE TypeOK'
<1>. USE LimiterAssumption DEF TypeOK
<1>1. ASSUME NEW b \in Buckets, Admit(b) PROVE TypeOK'
  <2>1. Level(b) - Cost \in 0..Capacity
    BY <1>1, LevelType DEF Admit, Level
  <2>. QED BY <1>1, <2>1 DEF Admit
<1>2. ASSUME NEW b \in Buckets, Deny(b) PROVE TypeOK'
  <2>1. Level(b) \in 0..Capacity
    BY LevelType DEF Level
  <2>. QED BY <1>2, <2>1 DEF Deny, observed
<1>3. ASSUME NEW b \in Buckets, Pass(b) PROVE TypeOK'
  BY <1>3 DEF Pass, buckets
<1>4. ASSUME NEW p \in Processes, Restart(p) PROVE TypeOK'
  BY <1>4 DEF Restart
<1>5. CASE Tick
  BY <1>5 DEF Tick, buckets, observed
<1>6. CASE OpenWindow
  BY <1>6 DEF OpenWindow, buckets
<1>7. CASE UNCHANGED vars
  BY <1>7 DEF vars
<1>. QED BY <1>1, <1>2, <1>3, <1>4, <1>5, <1>6, <1>7 DEF Next

\* Every step keeps what was let through and what is left within the allowance.
LEMMA BudgetStep ==
  ASSUME IInv, TypeOK', [Next]_vars PROVE Budget'
<1>. USE LimiterAssumption DEF IInv
<1>. SUFFICES ASSUME NEW c \in Buckets, c[1] \in Initialised
              PROVE  (admitted[c] * Cost + Level(c) <= Allowance(c[1]))'
  BY DEF Budget
<1>. c[1] \in Processes
  BY BucketsArePairs
<1>0. /\ admitted[c] * Cost + Level(c) <= Allowance(c[1])
      /\ admitted[c] * Cost \in Nat /\ Level(c) \in 0..Capacity
  BY LevelType DEF Budget, TypeOK, Level
<1>1. ASSUME NEW b \in Buckets, Admit(b)
      PROVE  (admitted[c] * Cost + Level(c) <= Allowance(c[1]))'
  <2>1. Allowance(c[1])' = Allowance(c[1])
    BY <1>1 DEF Admit, Allowance
  <2>2. CASE c = b
    <3>1. Level(c)' = Level(c) - Cost
      BY <1>1, <2>2, LevelType DEF Admit, TypeOK, Level, LevelAt, Capped
    <3>2. admitted'[c] * Cost = admitted[c] * Cost + Cost
      BY <1>1, <2>2 DEF Admit, TypeOK
    <3>. QED BY <1>0, <2>1, <3>1, <3>2
  <2>3. CASE c # b
    BY <1>0, <1>1, <2>1, <2>3 DEF Admit, TypeOK, Level, LevelAt
  <2>. QED BY <2>2, <2>3
<1>2. ASSUME NEW b \in Buckets, Deny(b)
      PROVE  (admitted[c] * Cost + Level(c) <= Allowance(c[1]))'
  <2>1. Allowance(c[1])' = Allowance(c[1]) /\ admitted' = admitted
    BY <1>2 DEF Deny, observed, Allowance
  <2>2. Level(c)' = Level(c)
    <3>1. CASE c = b
      BY <1>2, <3>1, LevelType DEF Deny, TypeOK, Level, LevelAt, Capped
    <3>2. CASE c # b
      BY <1>2, <3>2 DEF Deny, TypeOK, Level, LevelAt
    <3>. QED BY <3>1, <3>2
  <2>. QED BY <1>0, <2>1, <2>2
<1>3. ASSUME NEW b \in Buckets, Pass(b)
      PROVE  (admitted[c] * Cost + Level(c) <= Allowance(c[1]))'
  BY <1>0, <1>3 DEF Pass, buckets, TypeOK, Level, LevelAt, Allowance
<1>4. ASSUME NEW p \in Processes, Restart(p)
      PROVE  (admitted[c] * Cost + Level(c) <= Allowance(c[1]))'
  <2>1. CASE c[1] = p
    <3>1. Allowance(c[1])' = Allowance(c[1]) + Capacity
      BY <1>4, <2>1 DEF Restart, TypeOK, Allowance
    <3>2. Level(c)' <= Capacity
      BY <1>4, <2>1 DEF Restart, TypeOK, Level, LevelAt, Capped
    <3>3. Level(c)' \in Int
      BY <1>4, <2>1 DEF Restart, TypeOK, Level, LevelAt, Capped
    <3>. QED BY <1>0, <1>4, <3>1, <3>2, <3>3 DEF Restart, TypeOK, Allowance
  <2>2. CASE c[1] # p
    BY <1>0, <1>4, <2>2 DEF Restart, TypeOK, Level, LevelAt, Allowance
  <2>. QED BY <2>1, <2>2
<1>5. ASSUME Tick
      PROVE  (admitted[c] * Cost + Level(c) <= Allowance(c[1]))'
  <2>1. Level(c)' = LevelAt(c, now + 1)
    BY <1>5 DEF Tick, buckets, Level, LevelAt
  <2>2. Allowance(c[1])' = Allowance(c[1]) + Rate /\ admitted' = admitted
    BY <1>5 DEF Tick, observed, TypeOK, Allowance
  <2>3. Allowance(c[1]) \in Int /\ LevelAt(c, now + 1) \in Int
    BY LevelType DEF TypeOK, Allowance
  <2>. QED BY <1>0, <2>1, <2>2, <2>3, LevelTick
<1>6. ASSUME OpenWindow
      PROVE  (admitted[c] * Cost + Level(c) <= Allowance(c[1]))'
  <2>1. Level(c)' = Level(c)
    BY <1>6 DEF OpenWindow, buckets, Level, LevelAt
  <2>2. Allowance(c[1])' = Capacity /\ admitted'[c] * Cost = 0
    BY <1>6 DEF OpenWindow, TypeOK, Allowance
  <2>. QED BY <1>0, <2>1, <2>2
<1>7. CASE UNCHANGED vars
  BY <1>0, <1>7 DEF vars, Level, LevelAt, Allowance
<1>. QED BY <1>1, <1>2, <1>3, <1>4, <1>5, <1>6, <1>7 DEF Next

\* The budget holds in every reachable state.
THEOREM BudgetInvariant == Spec => []IInv
<1>1. IInv /\ [Next]_vars => IInv'
  BY TypeStep, BudgetStep DEF IInv
<1>. QED BY IInvInit, <1>1, PTL DEF Spec

\* An initialised process never lets more calls of a key through, in any window
\* of time, than the bucket's capacity, its refill and one more capacity for
\* every restart in the window.
THEOREM WindowBounded == Spec => []WindowBound
<1>1. IInv => WindowBound
  <2>. SUFFICES ASSUME IInv, NEW b \in Buckets, b[1] \in Initialised
                PROVE  admitted[b] * Cost <= Allowance(b[1])
    BY DEF WindowBound
  <2>1. Level(b) \in Nat
    BY LevelType DEF IInv, TypeOK, Level
  <2>2. admitted[b] * Cost \in Int /\ Allowance(b[1]) \in Int
    BY LimiterAssumption, BucketsArePairs DEF IInv, TypeOK, Allowance
  <2>. QED BY <2>1, <2>2 DEF IInv, Budget
<1>. QED BY <1>1, BudgetInvariant, PTL

\* Buckets stay between nothing and their capacity, and look back in time.
THEOREM TypeCorrect == Spec => []TypeOK
BY BudgetInvariant, PTL DEF IInv

\* What a division that is rounded up returns.
LEMMA RoundedUp ==
  ASSUME NEW n \in Nat \ {0}, NEW r \in Nat \ {0}
  PROVE  LET k == (n + r - 1) \div r
         IN  k \in Nat /\ k > 0 /\ k * r >= n /\ (k - 1) * r < n
<1>. DEFINE m == n + r - 1
            k == m \div r
<1>1. m \in Nat /\ m >= r
  OBVIOUS
<1>2. k \in Nat /\ m % r \in 0..(r - 1) /\ m = r * k + (m % r)
  BY <1>1, SMT
<1>3. (k - 1) * r = k * r - r /\ r * k = k * r
  BY <1>2
<1>4. k > 0
  <2>1. CASE k = 0
    BY <1>1, <1>2, <2>1
  <2>. QED BY <1>2, <2>1
<1>. HIDE DEF k
<1>. QED BY <1>1, <1>2, <1>3, <1>4

\* A bucket that has too little is not capped, so time adds to what it has.
LEMMA LevelLater ==
  ASSUME TypeOK, NEW b \in Buckets, NEW k \in Nat, Level(b) < Cost, Cost <= Capacity
  PROVE  LevelAt(b, now + k) = Capped(Level(b) + k * Rate)
<1>1. now - last[b] \in Nat /\ tokens[b] \in Nat
  BY DEF TypeOK
<1>2. ((now + k) - last[b]) * Rate = (now - last[b]) * Rate + k * Rate
  BY <1>1, LimiterAssumption DEF TypeOK
<1>3. (now - last[b]) * Rate \in Nat /\ k * Rate \in Nat
  BY <1>1, LimiterAssumption
<1>4. Level(b) = tokens[b] + (now - last[b]) * Rate
  BY <1>1, <1>3, LimiterAssumption DEF Level, LevelAt, Capped
<1>5. tokens[b] + ((now + k) - last[b]) * Rate = Level(b) + k * Rate
  BY <1>1, <1>2, <1>3, <1>4
<1>. QED BY <1>5 DEF LevelAt

\* wait_time() is exact in every reachable state, for every rate and cost that
\* the bucket can hold at all.
THEOREM WaitTimeExact ==
  ASSUME Cost <= Capacity
  PROVE  Spec => []WaitTimeIsExact
<1>1. IInv => WaitTimeIsExact
  <2>. SUFFICES ASSUME IInv, NEW b \in Buckets
                PROVE  /\ LevelAt(b, now + WaitTime(b)) >= Cost
                       /\ WaitTime(b) > 0 => LevelAt(b, now + WaitTime(b) - 1) < Cost
    BY DEF WaitTimeIsExact
  <2>. TypeOK /\ now \in Nat
    BY DEF IInv, TypeOK
  <2>1. Level(b) \in Nat
    BY LevelType DEF TypeOK, Level
  <2>2. CASE Level(b) >= Cost
    <3>1. WaitTime(b) = 0
      BY <2>2 DEF WaitTime
    <3>. QED BY <2>2, <3>1 DEF Level
  <2>3. CASE ~(Level(b) >= Cost)
    <3>. DEFINE k == WaitTime(b)
    <3>1. k = (Cost - Level(b) + Rate - 1) \div Rate
      BY <2>3 DEF WaitTime
    <3>2. Cost - Level(b) \in Nat \ {0} /\ Rate \in Nat \ {0} /\ Level(b) < Cost
      BY <2>1, <2>3, LimiterAssumption
    <3>3. k \in Nat /\ k > 0 /\ k * Rate >= Cost - Level(b) /\ (k - 1) * Rate < Cost - Level(b)
      BY <3>1, <3>2, RoundedUp
    <3>. HIDE DEF k
    <3>4. LevelAt(b, now + k) >= Cost
      <4>1. LevelAt(b, now + k) = Capped(Level(b) + k * Rate)
        BY <3>2, <3>3, LevelLater
      <4>. QED BY <2>1, <3>2, <3>3, <4>1, LimiterAssumption DEF Capped
    <3>5. LevelAt(b, now + k - 1) < Cost
      <4>1. k - 1 \in Nat /\ now + (k - 1) = now + k - 1
        BY <3>3
      <4>2. LevelAt(b, now + k - 1) = Capped(Level(b) + (k - 1) * Rate)
        BY <3>2, <4>1, LevelLater
      <4>3. (k - 1) * Rate \in Int
        BY <4>1, LimiterAssumption
      <4>. QED BY <2>1, <3>2, <3>3, <4>2, <4>3, LimiterAssumption DEF Capped
    <3>. QED BY <3>4, <3>5 DEF k
  <2>. QED BY <2>2, <2>3
<1>. QED BY <1>1, BudgetInvariant, PTL

\* A denied call leaves no bucket emptier than it was.
THEOREM DenialsFree == Spec => DenialsCostNothing
<1>1. ASSUME IInv, [Next]_vars
      PROVE  [\A b \in Buckets : Deny(b) => Level(b)' >= Level(b)]_vars
  <2>. SUFFICES ASSUME NEW b \in Buckets, Deny(b) PROVE Level(b)' >= Level(b)
    OBVIOUS
  <2>. TypeOK /\ Level(b) \in 0..Capacity
    BY <1>1, LevelType DEF IInv, TypeOK, Level
  <2>1. tokens'[b] = Level(b) /\ last'[b] = now /\ now' = now
    BY DEF Deny, TypeOK
  <2>2. Level(b)' = Capped(tokens'[b] + (now' - last'[b]) * Rate)
    BY DEF Level, LevelAt
  <2>3. (now' - last'[b]) * Rate = 0
    BY <2>1, LimiterAssumption DEF TypeOK
  <2>. QED BY <2>1, <2>2, <2>3, LimiterAssumption DEF Capped
<1>. QED BY <1>1, BudgetInvariant, PTL DEF Spec, DenialsCostNothing

=============================================================================
