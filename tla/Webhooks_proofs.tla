--------------------------- MODULE Webhooks_proofs ---------------------------
(***************************************************************************)
(* The webhook endpoints use the limiter as RateLimiter says, so what is   *)
(* proved of it holds here; that refused requests spend nothing and that   *)
(* triggered scrapes are bounded is proved on top.                         *)
(***************************************************************************)
EXTENDS Webhooks, RateLimiter_proofs

HookTypes ==
  /\ secretSet \in BOOLEAN
  /\ authentic \in [Endpoints -> Nat]
  /\ published \in [Initialised -> Nat]

\* A scrape is published only for a request that was let through.
PublishedForAuthentic ==
  \A p \in Initialised : published[p] <= authentic[<<p, Trigger>>]

\* What the requests count, on top of the limiter's own invariant.
HookInv == HookTypes /\ OnlyTheSecretSpends /\ PublishedForAuthentic

\* Endpoints are buckets of a limiter that limits.
LEMMA EndpointsAreBuckets ==
  /\ Endpoints \subseteq Buckets
  /\ \A b \in Endpoints : b[1] \in Initialised
  /\ \A p \in Initialised : <<p, Trigger>> \in Endpoints
BY LimiterAssumption, WebhooksAssumption DEF Endpoints, Buckets

-----------------------------------------------------------------------------
\* Every step is one of the limiter, or none of its business.
LEMMA LimiterStep == [HookNext]_hookVars => [Next]_vars
<1>. SUFFICES ASSUME [HookNext]_hookVars PROVE [Next]_vars
  OBVIOUS
<1>1. ASSUME NEW b \in Endpoints, NEW hasSecret \in BOOLEAN, Request(b, hasSecret)
      PROVE  [Next]_vars
  <2>. b \in Buckets
    BY EndpointsAreBuckets
  <2>1. CASE Refuse(hasSecret)
    BY <2>1 DEF Refuse, hookVars
  <2>2. CASE Deny(b) \/ Admit(b)
    BY <2>2 DEF Next
  <2>. QED BY <1>1, <2>1, <2>2 DEF Request
<1>2. CASE Background
  BY <1>2 DEF Background, Next
<1>3. CASE ObserveFromNow
  BY <1>3 DEF ObserveFromNow, Next
<1>4. CASE UNCHANGED hookVars
  BY <1>4 DEF hookVars
<1>. QED BY <1>1, <1>2, <1>3, <1>4 DEF HookNext

\* The endpoints implement the limiter: dependencies in front of it and
\* handlers behind it let it behave in no new way.
THEOREM HooksImplementLimiter == HookSpec => Spec
<1>1. HookInit => Init
  BY DEF HookInit
<1>. QED BY <1>1, LimiterStep, PTL DEF HookSpec, Spec

-----------------------------------------------------------------------------
\* Nothing is counted yet.
LEMMA HookInvInit == HookInit => HookInv
<1>. SUFFICES ASSUME HookInit PROVE HookInv
  OBVIOUS
<1>1. HookTypes
  BY DEF HookInit, HookTypes
<1>2. OnlyTheSecretSpends
  BY EndpointsAreBuckets DEF HookInit, Init, OnlyTheSecretSpends
<1>3. PublishedForAuthentic
  BY EndpointsAreBuckets DEF HookInit, PublishedForAuthentic
<1>. QED BY <1>1, <1>2, <1>3 DEF HookInv

\* A request that is let through counts once for its endpoint, and publishes at
\* most one scrape.
LEMMA AdmittedRequest ==
  ASSUME TypeOK, HookInv, NEW b \in Endpoints, Admit(b), Handle(b),
         authentic' = [authentic EXCEPT ![b] = @ + 1], UNCHANGED secretSet
  PROVE  HookInv'
<1>. USE DEF HookInv, HookTypes
<1>0. /\ b \in Buckets /\ b[1] \in Initialised
      /\ \A p \in Initialised : <<p, Trigger>> \in Endpoints
  BY EndpointsAreBuckets
<1>1. OnlyTheSecretSpends'
  <2>. SUFFICES ASSUME NEW c \in Endpoints PROVE admitted'[c] = authentic'[c]
    BY DEF OnlyTheSecretSpends
  <2>1. c \in Buckets /\ admitted[c] = authentic[c]
    BY EndpointsAreBuckets DEF OnlyTheSecretSpends
  <2>. QED BY <1>0, <2>1 DEF Admit, TypeOK
<1>2. HookTypes' /\ PublishedForAuthentic'
  <2>1. CASE b[2] # Trigger /\ UNCHANGED published
    <3>1. \A p \in Initialised : <<p, Trigger>> # b
      BY <2>1
    <3>. QED BY <1>0, <2>1, <3>1 DEF PublishedForAuthentic
  <2>2. CASE b[2] = Trigger /\ TriggerScraping(b[1])
    <3>1. PICK n \in 0..1 : published' = [published EXCEPT ![b[1]] = @ + n]
      BY <2>2 DEF TriggerScraping
    <3>2. b = <<b[1], Trigger>>
      BY <2>2 DEF Endpoints
    <3>3. HookTypes'
      BY <1>0, <3>1
    <3>4. ASSUME NEW p \in Initialised
          PROVE  published'[p] <= authentic'[<<p, Trigger>>]
      <4>0. published[p] <= authentic[<<p, Trigger>>] /\ published[p] \in Nat
            /\ authentic[<<p, Trigger>>] \in Nat
        BY <1>0 DEF PublishedForAuthentic
      <4>1. CASE p = b[1]
        <5>1. authentic'[<<p, Trigger>>] = authentic[<<p, Trigger>>] + 1
          BY <3>2, <4>1
        <5>2. published'[p] = published[p] + n
          BY <3>1, <4>1
        <5>. QED BY <4>0, <5>1, <5>2
      <4>2. CASE p # b[1]
        <5>1. <<p, Trigger>> # b /\ <<p, Trigger>> \in Endpoints
          BY <1>0, <4>2
        <5>. QED BY <3>1, <4>0, <4>2, <5>1
      <4>. QED BY <4>1, <4>2
    <3>. QED BY <3>3, <3>4 DEF PublishedForAuthentic
  <2>. QED BY <2>1, <2>2 DEF Handle
<1>. QED BY <1>1, <1>2

\* Every step keeps what the requests count.
LEMMA HookInvStep == TypeOK /\ HookInv /\ [HookNext]_hookVars => HookInv'
<1>. SUFFICES ASSUME TypeOK, HookInv, [HookNext]_hookVars PROVE HookInv'
  OBVIOUS
<1>0. ASSUME UNCHANGED <<secretSet, authentic, published>>,
             \A b \in Endpoints : admitted'[b] = admitted[b]
      PROVE  HookInv'
  BY <1>0 DEF HookInv, HookTypes, OnlyTheSecretSpends, PublishedForAuthentic
<1>1. ASSUME NEW b \in Endpoints, NEW hasSecret \in BOOLEAN, Request(b, hasSecret)
      PROVE  HookInv'
  <2>1. CASE Refuse(hasSecret)
    BY <1>0, <2>1 DEF Refuse, hookVars, vars
  <2>2. CASE Deny(b) /\ UNCHANGED <<secretSet, counted>>
    BY <1>0, <2>2 DEF Deny, observed, counted
  <2>3. CASE /\ Admit(b)
             /\ authentic' = [authentic EXCEPT ![b] = @ + 1]
             /\ Handle(b)
             /\ UNCHANGED secretSet
    BY <2>3, AdmittedRequest
  <2>. QED BY <1>1, <2>1, <2>2, <2>3 DEF Request
<1>2. CASE Background
  <2>1. \A b \in Endpoints : admitted'[b] = admitted[b]
    <3>1. ASSUME NEW c \in Buckets, Pass(c), NEW b \in Endpoints
          PROVE  admitted'[b] = admitted[b]
      BY <3>1, EndpointsAreBuckets DEF Pass, TypeOK
    <3>2. CASE \E p \in Processes : Restart(p)
      BY <3>2 DEF Restart
    <3>3. CASE Tick
      BY <3>3 DEF Tick, observed
    <3>. QED BY <1>2, <3>1, <3>2, <3>3 DEF Background
  <2>. QED BY <1>0, <1>2, <2>1 DEF Background, counted
<1>3. CASE ObserveFromNow
  <2>1. HookTypes'
    BY <1>3 DEF ObserveFromNow, HookInv, HookTypes
  <2>2. OnlyTheSecretSpends'
    BY <1>3, EndpointsAreBuckets DEF ObserveFromNow, OpenWindow, OnlyTheSecretSpends
  <2>3. PublishedForAuthentic'
    BY <1>3, EndpointsAreBuckets DEF ObserveFromNow, PublishedForAuthentic
  <2>. QED BY <2>1, <2>2, <2>3 DEF HookInv
<1>4. CASE UNCHANGED hookVars
  BY <1>0, <1>4 DEF hookVars, vars
<1>. QED BY <1>1, <1>2, <1>3, <1>4 DEF HookNext

\* It holds in every reachable state.
LEMMA HookInvariant == HookSpec => [](IInv /\ HookInv)
<1>1. HookSpec => []IInv
  BY HooksImplementLimiter, BudgetInvariant, PTL
<1>2. IInv => TypeOK
  BY DEF IInv
<1>. QED BY <1>1, <1>2, HookInvInit, HookInvStep, PTL DEF HookSpec

-----------------------------------------------------------------------------
\* The limiter and what the requests count keep their types.
THEOREM HookTypeCorrect == HookSpec => []HookTypeOK
<1>1. IInv /\ HookInv => HookTypeOK
  BY DEF IInv, HookInv, HookTypes, HookTypeOK
<1>. QED BY <1>1, HookInvariant, PTL

\* Only requests that show the secret use up an endpoint's tokens, for every
\* number of processes and endpoints.
THEOREM SecretSpends == HookSpec => []OnlyTheSecretSpends
BY HookInvariant, PTL DEF HookInv

\* The window bound of the limiter holds behind the endpoints.
THEOREM HookWindowBounded == HookSpec => []WindowBound
BY HooksImplementLimiter, WindowBounded, PTL

\* A process publishes no more scrapes in a window than a burst, its restarts
\* and the refill, however often its callers try again.
THEOREM ScrapesBounded == HookSpec => []ScrapesAreBounded
<1>1. WindowBound /\ IInv /\ HookInv => ScrapesAreBounded
  <2>. SUFFICES ASSUME WindowBound, IInv, HookInv, NEW p \in Initialised
                PROVE  published[p] * Cost <= Allowance(p)
    BY DEF ScrapesAreBounded
  <2>. DEFINE b == <<p, Trigger>>
  <2>1. b \in Endpoints /\ b \in Buckets /\ b[1] = p /\ p \in Processes
    BY EndpointsAreBuckets, LimiterAssumption
  <2>2. admitted[b] * Cost <= Allowance(p) /\ admitted[b] = authentic[b]
    BY <2>1 DEF WindowBound, HookInv, OnlyTheSecretSpends
  <2>3. published[p] <= authentic[b] /\ published[p] \in Nat /\ authentic[b] \in Nat
    BY <2>1 DEF HookInv, HookTypes, PublishedForAuthentic
  <2>4. published[p] * Cost <= authentic[b] * Cost
    BY <2>3, LimiterAssumption
  <2>5. /\ Allowance(p) \in Int
        /\ published[p] * Cost \in Int
        /\ authentic[b] * Cost \in Int
    BY <2>1, <2>3, LimiterAssumption DEF IInv, TypeOK, Allowance
  <2>. QED BY <2>2, <2>4, <2>5
<1>. QED BY <1>1, HookWindowBounded, HookInvariant, PTL

=============================================================================
