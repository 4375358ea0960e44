------------------------------ MODULE EventLoop ------------------------------
(***************************************************************************)
(* The asyncio loops of one Celery worker process, which _run_async        *)
(* (app/scheduler/tasks.py) makes, keeps and replaces, and the connections *)
(* that the asynchronous engine (app/storage/database.py) keeps in its     *)
(* pool from one notify_n8n to the next.                                   *)
(*                                                                         *)
(* The first call makes the loop of the thread, which stays open between   *)
(* tasks.  A RuntimeError, even one the coroutine raised itself, is taken  *)
(* for a missing loop: the coroutine is run again on a new loop, where it  *)
(* fails since it has ended, that loop is closed and the thread has none.  *)
(* From then on every call opens a loop of its own and closes it.  What    *)
(* was bound to the former loop, coroutines the soft time limit cut off    *)
(* and the pooled connections, can never be used again.                    *)
(***************************************************************************)
EXTENDS Naturals

CONSTANTS
  MaxReports,  \* bound: reports with a connection, and spoiled ones, in a behaviour
  MaxCutOff    \* bound: coroutines that are cut off and not resumed

ASSUME LoopAssumption == MaxReports \in Nat /\ MaxCutOff \in Nat

VARIABLES
  loop,     \* "kept": the loop of the thread; "none": each call opens its own
  left,     \* coroutines cut off on the kept loop, which goes on with them
  lost,     \* coroutines cut off whose loop will never run again
  holding,  \* those of left that are reports and hold a connection, or wait for one
  pooled,   \* connections in the pool: they work while their loop is kept
  used,     \* reports that had a connection that worked, or still wait for it
  spoiled   \* reports that failed on a connection whose loop is gone

loopVars == <<loop, left, lost, holding, pooled, used, spoiled>>

\* The pool after a checkout: with one connection less, or with one of its
\* places that had none (yet), for which a new connection is made.
CheckedOut == {pooled - 1, pooled} \cap Nat

-----------------------------------------------------------------------------
(* Mutants: slips the code could have made and the properties must notice. *)

\* The connection that failed is put back into the pool.
SpoiledAgain ==
  /\ loop = "none"
  /\ pooled > 0
  /\ spoiled < MaxReports
  /\ spoiled' = spoiled + 1
  /\ UNCHANGED <<loop, left, lost, holding, pooled, used>>

-----------------------------------------------------------------------------
LoopInit ==
  /\ loop = "kept"
  /\ left = 0
  /\ lost = 0
  /\ holding = 0
  /\ pooled = 0
  /\ used = 0
  /\ spoiled = 0

\* A coroutine raises RuntimeError, as llm_complete does without an API key.
RaiseRuntimeError ==
  /\ loop' = "none"
  /\ left' = 0
  /\ lost' = lost + left
  /\ holding' = 0
  /\ UNCHANGED <<pooled, used, spoiled>>

\* The soft time limit is raised while the loop waits: the coroutine stays
\* where it is, and a loop of its own is closed over it, and over the
\* connection that a report on it had.
CutOff ==
  /\ left + lost < MaxCutOff
  /\ left' = IF loop = "kept" THEN left + 1 ELSE left
  /\ lost' = IF loop = "kept" THEN lost ELSE lost + 1
  /\ UNCHANGED <<loop, holding, pooled, used, spoiled>>

\* A report is cut off on the kept loop, in its `async with` block: it goes on
\* holding its connection.
CutOffReport ==
  /\ loop = "kept"
  /\ left + lost < MaxCutOff
  /\ used < MaxReports
  /\ left' = left + 1
  /\ holding' = holding + 1
  /\ used' = used + 1
  /\ pooled' \in CheckedOut
  /\ UNCHANGED <<loop, lost, spoiled>>

\* While the kept loop runs another coroutine, one that was cut off ends.  A
\* report leaves its `async with` block and returns its connection, unless the
\* connection broke.
Resume ==
  /\ left > 0
  /\ left' = left - 1
  /\ \/ holding < left /\ UNCHANGED <<holding, pooled>>
     \/ holding > 0 /\ holding' = holding - 1 /\ pooled' \in {pooled, pooled + 1}
  /\ UNCHANGED <<loop, lost, used, spoiled>>

\* notify_n8n generates its report, or fails to for a reason of its own: either
\* way the session ends and its connection goes (back) to the pool.  Without a
\* kept loop that is a new connection, and dead as soon as the call is over.
EndReport ==
  /\ used < MaxReports
  /\ used' = used + 1
  /\ \E rest \in IF loop = "kept" THEN CheckedOut ELSE {pooled} : pooled' = rest + 1
  /\ UNCHANGED <<loop, left, lost, holding, spoiled>>

\* pool_pre_ping on a connection of another loop raises RuntimeError, and the
\* pool drops the connection.  The task is retried.
SpoilReport ==
  /\ loop = "none"
  /\ pooled > 0
  /\ spoiled < MaxReports
  /\ spoiled' = spoiled + 1
  /\ pooled' = pooled - 1
  /\ UNCHANGED <<loop, left, lost, holding, used>>

\* The database breaks its connections: the first to notice invalidates the pool.
Disconnect ==
  /\ pooled > 0
  /\ pooled' = 0
  /\ UNCHANGED <<loop, left, lost, holding, used, spoiled>>

LoopNext ==
  \/ RaiseRuntimeError \/ CutOff \/ CutOffReport \/ Resume
  \/ EndReport \/ SpoilReport \/ Disconnect

LoopSpec == LoopInit /\ [][LoopNext]_loopVars

-----------------------------------------------------------------------------
(* Properties *)

\* The types of the loop's variables.
LoopTypeOK ==
  /\ loop \in {"kept", "none"}
  /\ left \in Nat
  /\ lost \in Nat
  /\ holding \in 0..left
  /\ pooled \in Nat
  /\ used \in Nat
  /\ spoiled \in Nat

\* A report that fails because a loop is gone (the RuntimeError of _run_async,
\* or a loop of one call) was paid for by an earlier one that had a connection
\* of its own, and every connection that is pooled or still held pays for one
\* more at most: no connection fails two reports, whether the report that made
\* it was generated, failed or was cut off and resumed.
FailuresArePaid == spoiled + pooled + holding <= used

\* What a kept loop still has to finish needs the loop: it does not outlive it.
NothingOutlivesItsLoop == loop = "none" => left = 0

=============================================================================
