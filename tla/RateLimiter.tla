---------------------------- MODULE RateLimiter ----------------------------
(***************************************************************************)
(* The token buckets of app/core/rate_limiter.py, one per process and key. *)
(* A process has limiters once init_rate_limiters ran in it, which the     *)
(* FastAPI lifespan does and nothing in a Celery worker; a process without *)
(* them lets every call pass.  allow() and wait_time() hold the lock from  *)
(* end to end, so a call is one step.                                      *)
(*                                                                         *)
(* Tokens are counted in units so small that Rate and Cost are whole: with *)
(* rpm tokens a minute a token is 60 units and a second brings rpm of them. *)
(***************************************************************************)
EXTENDS Integers

CONSTANTS
  Processes,    \* the API processes and the Celery worker processes
  Initialised,  \* those that ran init_rate_limiters
  Keys,         \* "llm:default", "webhook:<endpoint>"
  Capacity,     \* units a full bucket holds
  Rate,         \* units refilled per tick
  Cost,         \* units of one token
  MaxTime,      \* bound: ticks in a behaviour
  MaxCalls,     \* bound: calls of one key counted where nothing limits them
  MaxRestarts   \* bound: restarts of a process

ASSUME LimiterAssumption ==
  /\ Initialised \subseteq Processes
  /\ Capacity \in Nat
  /\ Rate \in Nat \ {0}
  /\ Cost \in Nat \ {0}
  /\ MaxTime \in Nat
  /\ MaxCalls \in Nat
  /\ MaxRestarts \in Nat

VARIABLES
  tokens,    \* _tokens of every process and key
  last,      \* _last: when tokens was computed
  now,       \* time.monotonic()
  window,    \* when the window under observation was opened
  admitted,  \* calls let through in the window, by process and key
  restarts   \* restarts of every process in the window

buckets == <<tokens, last>>
observed == <<window, admitted, restarts>>
vars == <<tokens, last, now, window, admitted, restarts>>

Buckets == Processes \X Keys

-----------------------------------------------------------------------------
(* Mutants stand before what they mutate. *)

\* The bucket is not capped.
Uncapped(n) == n

Capped(n) == IF n < Capacity THEN n ELSE Capacity

\* min(capacity, tokens + (now - last) * rate), as it will be at time t.
LevelAt(b, t) == Capped(tokens[b] + (t - last[b]) * Rate)

Level(b) == LevelAt(b, now)

\* Mutant: the tokens are refilled for allow() only.
WaitTimeUnrefilled(b) ==
  IF tokens[b] >= Cost THEN 0 ELSE (Cost - tokens[b] + Rate - 1) \div Rate

\* Ticks until a call can be let through, rounded up.
WaitTime(b) ==
  IF Level(b) >= Cost THEN 0 ELSE (Cost - Level(b) + Rate - 1) \div Rate

-----------------------------------------------------------------------------
\* A key that was never used has a full bucket, whatever its `last`.
Init ==
  /\ tokens = [b \in Buckets |-> Capacity]
  /\ last = [b \in Buckets |-> 0]
  /\ now = 0
  /\ window = 0
  /\ admitted = [b \in Buckets |-> 0]
  /\ restarts = [p \in Processes |-> 0]

\* Mutant: allow() stores the time only when it denies.
AdmitForgets(b) ==
  /\ b[1] \in Initialised
  /\ Level(b) >= Cost
  /\ tokens' = [tokens EXCEPT ![b] = Level(b) - Cost]
  /\ admitted' = [admitted EXCEPT ![b] = @ + 1]
  /\ UNCHANGED <<last, now, window, restarts>>

\* Mutant: allow() stores the time but no tokens when it denies.
DenyForgets(b) ==
  /\ b[1] \in Initialised
  /\ Level(b) < Cost
  /\ last' = [last EXCEPT ![b] = now]
  /\ UNCHANGED <<tokens, now, observed>>

Admit(b) ==
  /\ b[1] \in Initialised
  /\ Level(b) >= Cost
  /\ tokens' = [tokens EXCEPT ![b] = Level(b) - Cost]
  /\ last' = [last EXCEPT ![b] = now]
  /\ admitted' = [admitted EXCEPT ![b] = @ + 1]
  /\ UNCHANGED <<now, window, restarts>>

Deny(b) ==
  /\ b[1] \in Initialised
  /\ Level(b) < Cost
  /\ tokens' = [tokens EXCEPT ![b] = Level(b)]
  /\ last' = [last EXCEPT ![b] = now]
  /\ UNCHANGED <<now, observed>>

\* check_*_rate_limit in a process whose limiter is None.
Pass(b) ==
  /\ b[1] \notin Initialised
  /\ admitted[b] < MaxCalls
  /\ admitted' = [admitted EXCEPT ![b] = @ + 1]
  /\ UNCHANGED <<buckets, now, window, restarts>>

\* The process is started anew and the lifespan makes new limiters.
Restart(p) ==
  /\ restarts[p] < MaxRestarts
  /\ restarts' = [restarts EXCEPT ![p] = @ + 1]
  /\ tokens' = [b \in Buckets |-> IF b[1] = p THEN Capacity ELSE tokens[b]]
  /\ last' = [b \in Buckets |-> IF b[1] = p THEN now ELSE last[b]]
  /\ UNCHANGED <<now, window, admitted>>

Tick ==
  /\ now < MaxTime
  /\ now' = now + 1
  /\ UNCHANGED <<buckets, observed>>

\* Whoever observes the calls starts to count, at any time.
OpenWindow ==
  /\ window' = now
  /\ admitted' = [b \in Buckets |-> 0]
  /\ restarts' = [p \in Processes |-> 0]
  /\ UNCHANGED <<buckets, now>>

Next ==
  \/ \E b \in Buckets : Admit(b) \/ Deny(b) \/ Pass(b)
  \/ \E p \in Processes : Restart(p)
  \/ Tick
  \/ OpenWindow

Spec == Init /\ [][Next]_vars

-----------------------------------------------------------------------------
(* Properties *)

\* Buckets hold between nothing and their capacity, and look back in time.
TypeOK ==
  /\ tokens \in [Buckets -> 0..Capacity]
  /\ last \in [Buckets -> Nat]
  /\ \A b \in Buckets : last[b] <= now
  /\ now \in Nat
  /\ window \in Nat /\ window <= now
  /\ admitted \in [Buckets -> Nat]
  /\ restarts \in [Processes -> Nat]

\* What a window may let through: a full bucket, one more for every restart,
\* and what was refilled since it was opened.
Allowance(p) == Capacity * (1 + restarts[p]) + (now - window) * Rate

\* In every window of time, wherever it starts and however its calls are
\* spread or interleaved with other keys', an initialised process lets no more
\* calls of a key through than one burst and the refill.
WindowBound ==
  \A b \in Buckets : b[1] \in Initialised => admitted[b] * Cost <= Allowance(b[1])

\* wait_time() tells the truth: after that time allow() succeeds if nobody
\* else took the token, and a tick earlier it does not.
WaitTimeIsExact ==
  \A b \in Buckets :
    /\ LevelAt(b, now + WaitTime(b)) >= Cost
    /\ WaitTime(b) > 0 => LevelAt(b, now + WaitTime(b) - 1) < Cost

\* Asking again and again is free: a denied call never puts off the next token.
DenialsCostNothing ==
  [][\A b \in Buckets : Deny(b) => Level(b)' >= Level(b)]_vars

=============================================================================
