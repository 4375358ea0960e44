------------------------------- MODULE Webhooks -------------------------------
(***************************************************************************)
(* The webhook endpoints (app/api/routes/webhooks.py) in front of the      *)
(* token buckets of RateLimiter, one bucket per endpoint.  FastAPI solves  *)
(* the dependencies in the order of the parameters: the secret, then the   *)
(* rate limit; then it validates the request and calls the handler.  None  *)
(* of it waits before the first query, and trigger_scraping never does: it *)
(* publishes its task and reads the sources in synchronous calls.  So a    *)
(* request is one step for the other requests of the process.              *)
(***************************************************************************)
EXTENDS RateLimiter

CONSTANT
  Trigger  \* the key of POST /webhooks/trigger-scraping

ASSUME WebhooksAssumption == Trigger \in Keys

VARIABLES
  secretSet,  \* whether WEBHOOK_SECRET is set
  authentic,  \* requests let through that had the secret, if one is set
  published   \* scrape_sources messages the requests to Trigger published

\* What is counted in the limiter's window.
counted == <<authentic, published>>
hookVars == <<secretSet, authentic, published, vars>>

Endpoints == Initialised \X Keys

-----------------------------------------------------------------------------
(* Mutants: slips the code could have made and the properties must notice. *)

\* The rate limit is the first of the dependencies.
RequestLimitedFirst(b, hasSecret) ==
  /\ \/ Deny(b) /\ UNCHANGED authentic
     \/ /\ Admit(b)
        /\ authentic' = IF secretSet /\ ~hasSecret THEN authentic
                        ELSE [authentic EXCEPT ![b] = @ + 1]
  /\ UNCHANGED <<secretSet, published>>

\* The task is published again when the sources cannot be read.
TriggerAgain(p) ==
  \E n \in 0..2 : published' = [published EXCEPT ![p] = @ + n]

-----------------------------------------------------------------------------
HookInit ==
  /\ Init
  /\ secretSet \in BOOLEAN
  /\ authentic = [b \in Endpoints |-> 0]
  /\ published = [p \in Initialised |-> 0]

\* trigger_scraping publishes one task, or none when the broker fails.  It
\* answers "error" then, and also when it cannot read the sources afterwards:
\* the caller cannot tell, and may ask again for what is queued already.
TriggerScraping(p) ==
  \E n \in 0..1 : published' = [published EXCEPT ![p] = @ + n]

\* The other handlers read.
Handle(b) ==
  \/ b[2] = Trigger /\ TriggerScraping(b[1])
  \/ b[2] # Trigger /\ UNCHANGED published

\* _verify_secret: 401.
Refuse(hasSecret) ==
  /\ secretSet
  /\ ~hasSecret
  /\ UNCHANGED hookVars

\* The check of require_webhook_rate_limit: 429, or on to the handler.
Request(b, hasSecret) ==
  \/ Refuse(hasSecret)
  \/ /\ ~secretSet \/ hasSecret
     /\ Deny(b)
     /\ UNCHANGED <<secretSet, counted>>
  \/ /\ ~secretSet \/ hasSecret
     /\ Admit(b)
     /\ authentic' = [authentic EXCEPT ![b] = @ + 1]
     /\ Handle(b)
     /\ UNCHANGED secretSet

\* The steps of the processes and the clock that are not requests.
Background ==
  /\ \/ \E b \in Buckets : Pass(b)
     \/ \E p \in Processes : Restart(p)
     \/ Tick
  /\ UNCHANGED <<secretSet, counted>>

ObserveFromNow ==
  /\ OpenWindow
  /\ authentic' = [b \in Endpoints |-> 0]
  /\ published' = [p \in Initialised |-> 0]
  /\ UNCHANGED secretSet

HookNext ==
  \/ \E b \in Endpoints, hasSecret \in BOOLEAN : Request(b, hasSecret)
  \/ Background
  \/ ObserveFromNow

HookSpec == HookInit /\ [][HookNext]_hookVars

-----------------------------------------------------------------------------
(* Properties *)

\* The types of the limiter and of what the requests count.
HookTypeOK ==
  /\ TypeOK
  /\ secretSet \in BOOLEAN
  /\ authentic \in [Endpoints -> Nat]
  /\ published \in [Initialised -> Nat]

\* Only requests that show the secret use up an endpoint's tokens: whoever does
\* not know it cannot keep the others from being served.
OnlyTheSecretSpends ==
  \A b \in Endpoints : admitted[b] = authentic[b]

\* However often trigger-scraping is called again after an "error", a process
\* publishes no more scrapes in a window than a burst and the refill.
ScrapesAreBounded ==
  \A p \in Initialised : published[p] * Cost <= Allowance(p)

=============================================================================
