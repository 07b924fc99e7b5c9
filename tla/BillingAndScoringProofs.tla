---------------------- MODULE BillingAndScoringProofs ----------------------
(***************************************************************************)
(* Theorems about two components that do not meet: what users pay for      *)
(* (Billing) and the scoring of audits (Scoring), for any number of        *)
(* requests, reservations, accounts, audits and recompute tasks.           *)
(*                                                                         *)
(* Billing: the counter is exact and stays within what was granted         *)
(* (BillingInv), and who pays is served (ServedInv).                       *)
(*                                                                         *)
(* Scoring: publications under way have taken the version after the newest *)
(* of their cell, unless another one has used it, so of two that overlap   *)
(* one is refused; a created_at names one score, so a person is counted    *)
(* once; the composite never reads a factor that was not measured, every   *)
(* factor and every score is a share, and followers that are bought raise  *)
(* one by the steadiness of the growth they make, by nothing else.         *)
(***************************************************************************)
EXTENDS Billing, Scoring, FiniteSetTheorems, SequenceTheorems, WellFoundedInduction, TLAPS

-----------------------------------------------------------------------------
(* BILLING *)

CallType == [pc : {"idle", "cancel", "insert", "ok", "failed"},
             user : Users \cup {None}, plan : Plans \cup {None},
             status : Status \cup {""}, picked : SUBSET Calls]
HoldType == [pc : {"idle", "limit", "granted", "refused", "released"},
             user : Users \cup {None}, limit : Limits \cup {0}, month : Months]

\* A request that has met the provider carries a plan, and the status the provider
\* gave a new subscription.
Planned ==
  \A s \in Calls :
    /\ call[s].pc \in {"cancel", "insert", "ok"} => call[s].plan \in Plans
    /\ call[s].pc \in {"cancel", "insert"} => call[s].status \in {"trialing", ""}

\* What the user is entitled to now is one of the limits ever granted, and so is
\* the limit a reservation goes by.
Entitled == \A u \in Users : LimitOf(u) \in ceilings[u]
HoldsEntitled == \A h \in Holds : hold[h].pc = "limit" => hold[h].limit \in ceilings[hold[h].user]

BillingInv ==
  /\ TypeOK
  /\ Planned
  /\ Entitled
  /\ HoldsEntitled
  /\ UsageIsEntitled
  /\ CounterCountsHolds

Granted(u, m) == {h \in Holds : hold[h].user = u /\ hold[h].month = m /\ hold[h].pc = "granted"}

LEMMA GrantedIsFinite ==
  \A u \in Users, m \in Months : IsFiniteSet(Granted(u, m)) /\ Cardinality(Granted(u, m)) \in Nat
<1> SUFFICES ASSUME NEW u \in Users, NEW m \in Months
             PROVE  IsFiniteSet(Granted(u, m)) /\ Cardinality(Granted(u, m)) \in Nat
  OBVIOUS
<1>1. Granted(u, m) \subseteq Holds /\ IsFiniteSet(Holds)
  BY BillingAssumption DEF Granted, BillingAssumption
<1> QED BY <1>1, FS_Subset, FS_CardinalityType

LEMMA LimitType ==
  ASSUME TypeOK, Planned, NEW u \in Users
  PROVE  LimitOf(u) \in Limits
<1>1. CASE Live(u) = {}
  BY <1>1 DEF LimitOf, Limits
<1>2. CASE Live(u) # {}
  <2> DEFINE s == CHOOSE t \in Live(u) : TRUE
  <2>1. s \in Live(u)
    BY <1>2
  <2>2. s \in Calls /\ row[s] # "none"
    BY <2>1 DEF Live, LiveStatus
  <2>3. call[s].plan \in Plans
    BY <2>2 DEF TypeOK, Planned
  <2> QED BY <1>2, <2>3 DEF LimitOf, Limits
<1> QED BY <1>1, <1>2

\* The limit of a user follows the user's live rows and their plans.
LEMMA SameLimit ==
  ASSUME NEW u \in Users, Live(u)' = Live(u),
         \A s \in Live(u) : call'[s].plan = call[s].plan
  PROVE  LimitOf(u)' = LimitOf(u)
<1>1. CASE Live(u) = {}
  BY <1>1 DEF LimitOf
<1>2. CASE Live(u) # {}
  <2> DEFINE s == CHOOSE t \in Live(u) : TRUE
  <2>1. s \in Live(u)
    BY <1>2
  <2>2. (CHOOSE t \in Live(u) : TRUE)' = s
    OBVIOUS
  <2>3. call'[s].plan = call[s].plan
    BY <2>1
  <2>4. LimitOf(u) = Quota[call[s].plan]
    BY <1>2 DEF LimitOf
  <2>5. LimitOf(u)' = Quota[call'[s].plan]
    BY <1>2, <2>2 DEF LimitOf
  <2> QED BY <2>3, <2>4, <2>5
<1> QED BY <1>1, <1>2

\* A step that leaves the quota alone and takes no entitlement away.
LEMMA QuotaKept ==
  ASSUME BillingInv, UNCHANGED quotas, \A u \in Users : ceilings[u] \subseteq ceilings'[u]
  PROVE  HoldsEntitled' /\ UsageIsEntitled' /\ CounterCountsHolds'
<1>1. hold' = hold /\ used' = used
  BY DEF quotas
<1>2. HoldsEntitled'
  <2> SUFFICES ASSUME NEW h \in Holds, hold[h].pc = "limit"
               PROVE  hold[h].limit \in ceilings'[hold[h].user]
    BY <1>1 DEF HoldsEntitled
  <2>1. hold[h].user \in Users
    BY DEF BillingInv, TypeOK
  <2> QED BY <2>1 DEF BillingInv, HoldsEntitled
<1>3. UsageIsEntitled'
  BY <1>1 DEF BillingInv, UsageIsEntitled
<1>4. CounterCountsHolds'
  BY <1>1 DEF BillingInv, CounterCountsHolds
<1> QED BY <1>2, <1>3, <1>4

\* A step that leaves the subscriptions alone.
LEMMA PlansKept ==
  ASSUME BillingInv, UNCHANGED <<subscriptions, ceilings>>
  PROVE  Planned' /\ Entitled'
<1>1. call' = call /\ row' = row /\ ceilings' = ceilings
  BY DEF subscriptions
<1>2. ASSUME NEW u \in Users PROVE LimitOf(u)' = LimitOf(u)
  <2>1. Live(u)' = Live(u)
    BY <1>1 DEF Live
  <2> QED BY <1>1, <2>1, SameLimit
<1> QED BY <1>1, <1>2 DEF BillingInv, Planned, Entitled

\* A step that records what the users are entitled to after it.
LEMMA EntitleType ==
  ASSUME BillingInv, Entitle, TypeOK', Planned'
  PROVE  /\ Entitled'
         /\ \A u \in Users : ceilings[u] \subseteq ceilings'[u]
<1>1. \A u \in Users : ceilings'[u] = ceilings[u] \cup {LimitOf(u)'}
  BY DEF Entitle
<1> QED BY <1>1 DEF Entitled

LEMMA CreateInv ==
  ASSUME BillingInv, NEW s \in Calls, NEW u \in Users, NEW p \in Plans,
         CreateSubscription(s, u, p)
  PROVE  BillingInv'
<1>1. /\ call[s].pc = "idle" /\ row[s] = "none"
      /\ row' = row /\ raised' = raised /\ mail' = mail /\ hold' = hold /\ used' = used
      /\ ceilings' = ceilings /\ month' = month
  BY DEF BillingInv, TypeOK, CreateSubscription, quotas
<1>2. PICK c : /\ call' = [call EXCEPT ![s] = c]
               /\ c \in CallType /\ c.user = u
               /\ c.pc \in {"cancel", "failed"}
               /\ c.pc = "cancel" => c.plan = p /\ c.status \in {"trialing", ""}
  <2>1. NoCall \in CallType
    BY DEF NoCall, CallType
  <2>2. ASSUME NEW status \in {"trialing", ""},
               NEW c, c = [NoCall EXCEPT !.pc = "cancel", !.user = u, !.plan = p, !.status = status]
        PROVE  /\ c \in CallType /\ c.user = u /\ c.pc = "cancel" /\ c.plan = p
               /\ c.status = status
    BY <2>2, <2>1 DEF NoCall, CallType, Status, LiveStatus
  <2>3. ASSUME NEW c, c = [NoCall EXCEPT !.pc = "failed", !.user = u]
        PROVE  c \in CallType /\ c.user = u /\ c.pc = "failed"
    BY <2>3, <2>1 DEF NoCall, CallType
  <2>4. MapSubscriptionStatus("created") = "trialing"
    BY DEF MapSubscriptionStatus
  <2>5. CASE \E status \in {"trialing", ""} :
               call' = [call EXCEPT ![s] = [NoCall EXCEPT
                 !.pc = "cancel", !.user = u, !.plan = p, !.status = status]]
    BY <2>2, <2>5
  <2>6. CASE call' = [call EXCEPT ![s] = [NoCall EXCEPT !.pc = "failed", !.user = u]]
    BY <2>3, <2>6
  <2> QED BY <2>4, <2>5, <2>6 DEF CreateSubscription
<1>3. call \in [Calls -> CallType] /\ call' \in [Calls -> CallType]
  BY <1>2 DEF BillingInv, TypeOK, CallType
<1>4. provider' \in [Calls -> ProviderState \cup {"none"}]
  BY DEF BillingInv, TypeOK, CreateSubscription, ProviderState
<1>5. TypeOK'
  <2>1. \A t \in Calls : call'[t] = IF t = s THEN c ELSE call[t]
    BY <1>2, <1>3
  <2>2. \A t \in Calls : row'[t] # "none" <=> call'[t].pc = "ok"
    BY <1>1, <1>2, <2>1 DEF BillingInv, TypeOK
  <2>3. \A t \in Calls : call'[t].pc # "idle" => call'[t].user \in Users
    BY <1>2, <2>1 DEF BillingInv, TypeOK
  <2> QED BY <1>1, <1>3, <1>4, <2>2, <2>3 DEF BillingInv, TypeOK, CallType
<1>6. Planned'
  BY <1>2, <1>3 DEF BillingInv, Planned
<1>7. ASSUME NEW v \in Users PROVE LimitOf(v)' = LimitOf(v)
  <2>1. Live(v)' = Live(v) /\ s \notin Live(v)
    BY <1>1, <1>2, <1>3 DEF Live, LiveStatus
  <2>2. \A t \in Live(v) : call'[t].plan = call[t].plan
    BY <1>2, <1>3, <2>1 DEF Live
  <2> QED BY <2>1, <2>2, SameLimit
<1>8. Entitled'
  BY <1>1, <1>7 DEF BillingInv, Entitled
<1>9. HoldsEntitled' /\ UsageIsEntitled' /\ CounterCountsHolds'
  BY <1>1, QuotaKept DEF quotas
<1> QED BY <1>5, <1>6, <1>8, <1>9 DEF BillingInv
LEMMA CancelInv ==
  ASSUME BillingInv, NEW s \in Calls, CancelExisting(s)
  PROVE  BillingInv'
<1> DEFINE c == [call[s] EXCEPT !.pc = "insert", !.picked = Live(call[s].user)]
<1>1. /\ call[s].pc = "cancel" /\ call' = [call EXCEPT ![s] = c]
      /\ row' = row /\ provider' = provider /\ raised' = raised /\ mail' = mail
      /\ hold' = hold /\ used' = used /\ ceilings' = ceilings /\ month' = month
  BY DEF CancelExisting, gateway, quotas
<1>2. call \in [Calls -> CallType] /\ call[s] \in CallType
  BY DEF BillingInv, TypeOK, CallType
<1>3. /\ c \in CallType /\ c.pc = "insert" /\ c.user = call[s].user
      /\ c.plan = call[s].plan /\ c.status = call[s].status
  BY <1>2 DEF CallType, Live
<1> HIDE DEF c
<1>4. call' \in [Calls -> CallType] /\ \A t \in Calls : call'[t] = IF t = s THEN c ELSE call[t]
  BY <1>1, <1>2, <1>3
<1>5. TypeOK'
  <2>1. \A t \in Calls : row'[t] # "none" <=> call'[t].pc = "ok"
    BY <1>1, <1>3, <1>4 DEF BillingInv, TypeOK
  <2>2. \A t \in Calls : call'[t].pc # "idle" => call'[t].user \in Users
    BY <1>1, <1>3, <1>4 DEF BillingInv, TypeOK
  <2> QED BY <1>1, <1>4, <2>1, <2>2 DEF BillingInv, TypeOK, CallType
<1>6. Planned'
  BY <1>1, <1>3, <1>4 DEF BillingInv, Planned
<1>7. ASSUME NEW v \in Users PROVE LimitOf(v)' = LimitOf(v)
  <2>1. Live(v)' = Live(v)
    BY <1>1, <1>3, <1>4 DEF Live
  <2>2. \A t \in Live(v) : call'[t].plan = call[t].plan
    BY <1>3, <1>4 DEF Live
  <2> QED BY <2>1, <2>2, SameLimit
<1>8. Entitled'
  BY <1>1, <1>7 DEF BillingInv, Entitled
<1>9. HoldsEntitled' /\ UsageIsEntitled' /\ CounterCountsHolds'
  BY <1>1, QuotaKept DEF quotas
<1> QED BY <1>5, <1>6, <1>8, <1>9 DEF BillingInv

\* What a step that records the entitlements has to show itself.
LEMMA EntitledInv ==
  ASSUME BillingInv, Entitle, UNCHANGED quotas, Planned',
         /\ call' \in [Calls -> CallType]
         /\ row' \in [Calls -> Status \cup {"none"}]
         /\ \A t \in Calls : row'[t] # "none" <=> call'[t].pc = "ok"
         /\ \A t \in Calls : call'[t].pc # "idle" => call'[t].user \in Users
         /\ provider' = provider /\ raised' = raised /\ month' = month
         /\ mail' \in [Calls -> SUBSET [event : Event, entity : ProviderState]]
  PROVE  BillingInv'
<1>1. hold' = hold /\ used' = used
  BY DEF quotas
<1>2. ASSUME NEW u \in Users PROVE LimitOf(u)' \in Limits
  <2>1. CASE Live(u)' = {}
    BY <2>1 DEF LimitOf, Limits
  <2>2. CASE Live(u)' # {}
    <3>1. PICK s \in Live(u)' : LimitOf(u)' = Quota[call'[s].plan]
      BY <2>2 DEF LimitOf
    <3>2. s \in Calls /\ row'[s] # "none"
      BY <3>1 DEF Live, LiveStatus
    <3>3. call'[s].plan \in Plans
      BY <3>2 DEF Planned
    <3> QED BY <3>1, <3>3 DEF Limits
  <2> QED BY <2>1, <2>2
<1>3. ceilings' \in [Users -> SUBSET Limits]
  BY <1>2 DEF BillingInv, TypeOK, Entitle
<1>4. TypeOK'
  BY <1>1, <1>3 DEF BillingInv, TypeOK, CallType
<1>5. Entitled' /\ HoldsEntitled' /\ UsageIsEntitled' /\ CounterCountsHolds'
  BY <1>4, EntitleType, QuotaKept
<1> QED BY <1>4, <1>5 DEF BillingInv

LEMMA InsertInv ==
  ASSUME BillingInv, NEW s \in Calls, InsertSubscription(s)
  PROVE  BillingInv'
<1>1. /\ call[s].pc = "insert" /\ call[s].plan \in Plans /\ call[s].user \in Users
      /\ row[s] = "none" /\ call[s] \in CallType /\ call \in [Calls -> CallType]
      /\ row \in [Calls -> Status \cup {"none"}]
  BY DEF BillingInv, TypeOK, Planned, InsertSubscription, CallType
<1>2. /\ provider' = provider /\ raised' = raised /\ mail' = mail /\ month' = month
      /\ UNCHANGED quotas /\ Entitle
  BY DEF InsertSubscription, gateway
<1>3. mail' \in [Calls -> SUBSET [event : Event, entity : ProviderState]]
  BY <1>2 DEF BillingInv, TypeOK
<1>4. CASE /\ call[s].status \in Status
           /\ row' = [t \in Calls |-> IF t = s THEN call[s].status
                                      ELSE IF t \in Replaced(s) THEN "canceled" ELSE row[t]]
           /\ call' = [call EXCEPT ![s].pc = "ok", ![s].picked = {}, ![s].status = ""]
  <2> DEFINE c == [call[s] EXCEPT !.pc = "ok", !.picked = {}, !.status = ""]
  <2>1. call' = [call EXCEPT ![s] = c]
    BY <1>4
  <2>2. /\ c \in CallType /\ c.pc = "ok" /\ c.user = call[s].user /\ c.plan = call[s].plan
    BY <1>1 DEF CallType
  <2> HIDE DEF c
  <2>3. call' \in [Calls -> CallType] /\ \A t \in Calls : call'[t] = IF t = s THEN c ELSE call[t]
    BY <1>1, <2>1, <2>2
  <2>4. Planned'
    BY <1>1, <2>2, <2>3 DEF BillingInv, Planned
  <2>5. row' \in [Calls -> Status \cup {"none"}]
    BY <1>1, <1>4 DEF Status
  <2>6. ASSUME NEW t \in Calls PROVE row'[t] # "none" <=> call'[t].pc = "ok"
    <3>1. CASE t = s
      BY <1>4, <2>2, <2>3, <3>1 DEF Status, LiveStatus
    <3>2. CASE t # s /\ t \in Replaced(s)
      <4>1. row[t] # "none" /\ row'[t] = "canceled"
        BY <1>4, <3>2 DEF Replaced, Live, LiveStatus
      <4> QED BY <2>3, <3>2, <4>1 DEF BillingInv, TypeOK
    <3>3. CASE t # s /\ t \notin Replaced(s)
      BY <1>4, <2>3, <3>3 DEF BillingInv, TypeOK
    <3> QED BY <3>1, <3>2, <3>3
  <2>7. \A t \in Calls : call'[t].pc # "idle" => call'[t].user \in Users
    BY <1>1, <2>2, <2>3 DEF BillingInv, TypeOK
  <2> QED BY <1>2, <1>3, <2>3, <2>4, <2>5, <2>6, <2>7, EntitledInv
<1>5. CASE /\ call' = [call EXCEPT ![s] = [NoCall EXCEPT !.pc = "failed", !.user = call[s].user]]
           /\ Rollback(s)
  <2> DEFINE c == [NoCall EXCEPT !.pc = "failed", !.user = call[s].user]
  <2>1. c \in CallType /\ c.pc = "failed" /\ c.user = call[s].user
    BY <1>1 DEF CallType, NoCall
  <2>2. call' = [call EXCEPT ![s] = c]
    BY <1>5
  <2> HIDE DEF c
  <2>3. call' \in [Calls -> CallType] /\ \A t \in Calls : call'[t] = IF t = s THEN c ELSE call[t]
    BY <1>1, <2>1, <2>2
  <2>4. Planned'
    BY <2>1, <2>3 DEF BillingInv, Planned
  <2>5. row' = row
    BY <1>5 DEF Rollback
  <2>6. \A t \in Calls : row'[t] # "none" <=> call'[t].pc = "ok"
    BY <1>1, <2>1, <2>3, <2>5 DEF BillingInv, TypeOK
  <2>7. \A t \in Calls : call'[t].pc # "idle" => call'[t].user \in Users
    BY <1>1, <2>1, <2>3 DEF BillingInv, TypeOK
  <2> QED BY <1>1, <1>2, <1>3, <2>3, <2>4, <2>5, <2>6, <2>7, EntitledInv
<1> QED BY <1>4, <1>5 DEF InsertSubscription

LEMMA WebhookInv ==
  ASSUME BillingInv, NEW s \in Calls, NEW e \in mail[s], Webhook(s, e)
  PROVE  BillingInv'
<1> DEFINE status == StatusForEvent(e)
<1>1. e \in [event : Event, entity : ProviderState]
  BY DEF BillingInv, TypeOK
<1>2. status \in Status \cup {""}
  <2>1. MapSubscriptionStatus(e.entity) \in Status \cup {""}
    BY <1>1 DEF MapSubscriptionStatus, ProviderState, Status, LiveStatus
  <2> QED BY <1>1, <2>1 DEF StatusForEvent, Event, Status, LiveStatus
<1>3. /\ row' = [row EXCEPT ![s] = IF @ = "none" \/ status = "" THEN @ ELSE status]
      /\ call' = call /\ provider' = provider /\ raised' = raised /\ month' = month
      /\ UNCHANGED quotas /\ Entitle
  BY DEF Webhook
<1> HIDE DEF status
<1>4. mail' \in [Calls -> SUBSET [event : Event, entity : ProviderState]]
  <2> DEFINE E == [event : Event, entity : ProviderState]
  <2>1. mail \in [Calls -> SUBSET E]
    BY DEF BillingInv, TypeOK
  <2>2. mail' = [mail EXCEPT ![s] = @ \ {e}] \/ mail' = mail
    BY DEF Webhook
  <2> HIDE DEF E
  <2>3. mail' \in [Calls -> SUBSET E]
    BY <2>1, <2>2
  <2> QED BY <2>3 DEF E
<1>5. row' \in [Calls -> Status \cup {"none"}]
  BY <1>2, <1>3 DEF BillingInv, TypeOK
<1>6. ASSUME NEW t \in Calls PROVE row'[t] # "none" <=> row[t] # "none"
  BY <1>2, <1>3 DEF BillingInv, TypeOK, Status, LiveStatus
<1>7. Planned'
  BY <1>3 DEF BillingInv, Planned
<1>8. /\ call' \in [Calls -> CallType]
      /\ \A t \in Calls : row'[t] # "none" <=> call'[t].pc = "ok"
      /\ \A t \in Calls : call'[t].pc # "idle" => call'[t].user \in Users
  BY <1>3, <1>6 DEF BillingInv, TypeOK, CallType
<1> QED BY <1>3, <1>4, <1>5, <1>7, <1>8, EntitledInv
LEMMA ProviderInv ==
  ASSUME BillingInv, NEW s \in Calls, ProviderStep(s)
  PROVE  BillingInv'
<1>1. ASSUME NEW event \in Event, NEW state \in ProviderState, Raise(s, event, state)
      PROVE  BillingInv'
  <2>1. UNCHANGED <<subscriptions, quotas, ceilings, month>>
    BY <1>1 DEF Raise
  <2>2. raised' \in 0..MaxEvents
    <3>1. raised \in 0..MaxEvents /\ raised < MaxEvents /\ raised' = raised + 1 /\ MaxEvents \in Nat
      BY <1>1, BillingAssumption DEF BillingInv, TypeOK, Raise, BillingAssumption
    <3> QED BY <3>1
  <2>3. provider' \in [Calls -> ProviderState \cup {"none"}]
    BY <1>1 DEF BillingInv, TypeOK, Raise
  <2>4. mail' \in [Calls -> SUBSET [event : Event, entity : ProviderState]]
    <3> DEFINE E == [event : Event, entity : ProviderState]
               e == [event |-> event, entity |-> state]
    <3>1. mail \in [Calls -> SUBSET E] /\ e \in E
      BY DEF BillingInv, TypeOK
    <3>2. mail' = [mail EXCEPT ![s] = @ \cup {e}]
      BY <1>1 DEF Raise
    <3> HIDE DEF E, e
    <3>3. mail' \in [Calls -> SUBSET E]
      BY <3>1, <3>2
    <3> QED BY <3>3 DEF E
  <2>5. TypeOK'
    BY <2>1, <2>2, <2>3, <2>4 DEF BillingInv, TypeOK, subscriptions, quotas
  <2>6. Planned' /\ Entitled'
    BY <2>1, PlansKept
  <2>7. HoldsEntitled' /\ UsageIsEntitled' /\ CounterCountsHolds'
    BY <2>1, QuotaKept
  <2> QED BY <2>5, <2>6, <2>7 DEF BillingInv
<1> QED BY <1>1 DEF ProviderStep, Event, ProviderState

LEMMA BeginInv ==
  ASSUME BillingInv, NEW h \in Holds, NEW u \in Users, BeginReserve(h, u)
  PROVE  BillingInv'
<1> DEFINE r == [pc |-> "limit", user |-> u, limit |-> LimitOf(u), month |-> month]
<1>1. /\ hold[h].pc = "idle" /\ hold' = [hold EXCEPT ![h] = r]
      /\ UNCHANGED <<subscriptions, gateway, used, ceilings, month>>
  BY DEF BeginReserve
<1>2. /\ r \in HoldType /\ r.pc = "limit" /\ r.user = u /\ r.limit \in ceilings[u]
  BY LimitType DEF BillingInv, TypeOK, Entitled, HoldType
<1> HIDE DEF r
<1>3. hold' \in [Holds -> HoldType] /\ \A k \in Holds : hold'[k] = IF k = h THEN r ELSE hold[k]
  BY <1>1, <1>2 DEF BillingInv, TypeOK, HoldType
<1>4. TypeOK'
  <2>1. \A k \in Holds : hold'[k].pc \in {"limit", "granted"} => hold'[k].user \in Users
    BY <1>2, <1>3 DEF BillingInv, TypeOK
  <2> QED BY <1>1, <1>3, <2>1 DEF BillingInv, TypeOK, HoldType, subscriptions, gateway
<1>5. Planned' /\ Entitled'
  BY <1>1, PlansKept
<1>6. HoldsEntitled'
  BY <1>1, <1>2, <1>3 DEF BillingInv, HoldsEntitled
<1>7. UsageIsEntitled'
  BY <1>1 DEF BillingInv, UsageIsEntitled
<1>8. CounterCountsHolds'
  <2>1. ASSUME NEW v \in Users, NEW m \in Months PROVE Granted(v, m)' = Granted(v, m)
    BY <1>1, <1>2, <1>3 DEF Granted
  <2> QED BY <1>1, <2>1 DEF BillingInv, CounterCountsHolds, Granted
<1> QED BY <1>4, <1>5, <1>6, <1>7, <1>8 DEF BillingInv

LEMMA ReserveInv ==
  ASSUME BillingInv, NEW h \in Holds, ReserveUnit(h)
  PROVE  BillingInv'
<1> DEFINE u == hold[h].user
<1>1. /\ hold[h].pc = "limit" /\ u \in Users /\ hold[h].limit \in ceilings[u]
      /\ UNCHANGED <<subscriptions, gateway, ceilings, month>>
      /\ ceilings[u] \subseteq Limits /\ Limits \subseteq Int
  <2>1. Limits \subseteq Int
    BY BillingAssumption DEF Limits, BillingAssumption
  <2> QED BY <2>1 DEF BillingInv, TypeOK, HoldsEntitled, ReserveUnit
<1>2. PICK m \in hold[h].month..month :
        \/ /\ HasRoom(used[u][m], hold[h].limit)
           /\ used' = [used EXCEPT ![u][m] = @ + 1]
           /\ hold' = [hold EXCEPT ![h] = [NoHold EXCEPT !.pc = "granted", !.user = u, !.month = m]]
        \/ /\ hold' = [hold EXCEPT ![h] = [NoHold EXCEPT !.pc = "refused"]]
           /\ UNCHANGED used
  BY DEF ReserveUnit
<1>3. m \in Months
  <2>1. hold[h].month \in 1..MaxMonth /\ month \in 1..MaxMonth /\ MaxMonth \in Nat
    BY BillingAssumption DEF BillingInv, TypeOK, Months, BillingAssumption
  <2> QED BY <2>1 DEF Months
<1>4. NoHold \in HoldType /\ used \in [Users -> [Months -> Nat]] /\ hold \in [Holds -> HoldType]
  <2>1. 1 \in Months
    BY BillingAssumption DEF Months, BillingAssumption
  <2> QED BY <2>1 DEF BillingInv, TypeOK, NoHold, HoldType
<1>5. Planned' /\ Entitled'
  BY <1>1, PlansKept
<1>6. CASE /\ HasRoom(used[u][m], hold[h].limit)
           /\ used' = [used EXCEPT ![u][m] = @ + 1]
           /\ hold' = [hold EXCEPT ![h] = [NoHold EXCEPT !.pc = "granted", !.user = u, !.month = m]]
  <2> DEFINE r == [NoHold EXCEPT !.pc = "granted", !.user = u, !.month = m]
  <2>1. /\ r \in HoldType /\ r.pc = "granted" /\ r.user = u /\ r.month = m
        /\ hold' = [hold EXCEPT ![h] = r]
    BY <1>1, <1>3, <1>4, <1>6 DEF HoldType, NoHold
  <2> HIDE DEF r
  <2>2. hold' \in [Holds -> HoldType] /\ \A k \in Holds : hold'[k] = IF k = h THEN r ELSE hold[k]
    BY <1>4, <2>1
  <2>3. used' \in [Users -> [Months -> Nat]]
    BY <1>1, <1>3, <1>4, <1>6
  <2>4. \A v \in Users, n \in Months :
          used'[v][n] = IF v = u /\ n = m THEN used[u][m] + 1 ELSE used[v][n]
    BY <1>1, <1>3, <1>4, <1>6
  <2>5. TypeOK'
    <3>1. \A k \in Holds : hold'[k].pc \in {"limit", "granted"} => hold'[k].user \in Users
      BY <1>1, <2>1, <2>2 DEF BillingInv, TypeOK
    <3> QED BY <1>1, <2>2, <2>3, <3>1 DEF BillingInv, TypeOK, HoldType, subscriptions, gateway
  <2>6. HoldsEntitled'
    BY <1>1, <2>1, <2>2 DEF BillingInv, HoldsEntitled
  <2>7. UsageIsEntitled'
    <3>1. -1 \in ceilings[u] \/ used[u][m] + 1 <= hold[h].limit
      <4>1. used[u][m] \in Nat /\ hold[h].limit \in Int
        BY <1>1, <1>3, <1>4
      <4> QED BY <1>1, <1>6, <4>1 DEF HasRoom
    <3> QED BY <1>1, <2>4, <3>1 DEF BillingInv, UsageIsEntitled
  <2>8. ASSUME NEW v \in Users, NEW n \in Months
        PROVE  used'[v][n] = Cardinality(Granted(v, n)')
    <3>1. CASE v = u /\ n = m
      <4>1. Granted(v, n)' = Granted(v, n) \cup {h} /\ h \notin Granted(v, n)
        BY <1>1, <2>1, <2>2, <3>1 DEF Granted
      <4>2. Cardinality(Granted(v, n)') = Cardinality(Granted(v, n)) + 1
        BY <4>1, GrantedIsFinite, FS_AddElement
      <4> QED BY <2>4, <3>1, <4>2 DEF BillingInv, CounterCountsHolds, Granted
    <3>2. CASE ~(v = u /\ n = m)
      <4>1. Granted(v, n)' = Granted(v, n)
        BY <1>1, <2>1, <2>2, <3>2 DEF Granted
      <4> QED BY <2>4, <3>2, <4>1 DEF BillingInv, CounterCountsHolds, Granted
    <3> QED BY <3>1, <3>2
  <2>9. CounterCountsHolds'
    BY <2>8 DEF CounterCountsHolds, Granted
  <2> QED BY <1>5, <2>5, <2>6, <2>7, <2>9 DEF BillingInv
<1>7. CASE hold' = [hold EXCEPT ![h] = [NoHold EXCEPT !.pc = "refused"]] /\ UNCHANGED used
  <2> DEFINE r == [NoHold EXCEPT !.pc = "refused"]
  <2>1. r \in HoldType /\ r.pc = "refused" /\ hold' = [hold EXCEPT ![h] = r]
    BY <1>4, <1>7 DEF HoldType, NoHold
  <2> HIDE DEF r
  <2>2. hold' \in [Holds -> HoldType] /\ \A k \in Holds : hold'[k] = IF k = h THEN r ELSE hold[k]
    BY <1>4, <2>1
  <2>3. TypeOK'
    <3>1. \A k \in Holds : hold'[k].pc \in {"limit", "granted"} => hold'[k].user \in Users
      BY <2>1, <2>2 DEF BillingInv, TypeOK
    <3> QED BY <1>1, <1>7, <2>2, <3>1 DEF BillingInv, TypeOK, HoldType, subscriptions, gateway
  <2>4. HoldsEntitled'
    BY <1>1, <2>1, <2>2 DEF BillingInv, HoldsEntitled
  <2>5. UsageIsEntitled'
    BY <1>1, <1>7 DEF BillingInv, UsageIsEntitled
  <2>6. ASSUME NEW v \in Users, NEW n \in Months PROVE Granted(v, n)' = Granted(v, n)
    BY <1>1, <2>1, <2>2 DEF Granted
  <2>7. CounterCountsHolds'
    BY <1>7, <2>6 DEF BillingInv, CounterCountsHolds, Granted
  <2> QED BY <1>5, <2>3, <2>4, <2>5, <2>7 DEF BillingInv
<1> QED BY <1>2, <1>6, <1>7

LEMMA ReleaseInv ==
  ASSUME BillingInv, NEW h \in Holds, Release(h)
  PROVE  BillingInv'
<1> DEFINE u == hold[h].user
           m == hold[h].month
           r == [NoHold EXCEPT !.pc = "released"]
<1>1. /\ hold[h].pc = "granted" /\ u \in Users /\ m \in Months
      /\ UNCHANGED <<subscriptions, gateway, ceilings, month>>
      /\ used \in [Users -> [Months -> Nat]] /\ hold \in [Holds -> HoldType]
      /\ ceilings \in [Users -> SUBSET Int]
  <2>1. Limits \subseteq Int
    BY BillingAssumption DEF Limits, BillingAssumption
  <2> QED BY <2>1 DEF BillingInv, TypeOK, Release, HoldType
<1>2. r \in HoldType /\ r.pc = "released" /\ hold' = [hold EXCEPT ![h] = r]
  <2>1. 1 \in Months
    BY BillingAssumption DEF Months, BillingAssumption
  <2> QED BY <2>1 DEF Release, HoldType, NoHold
<1> HIDE DEF r
<1>3. hold' \in [Holds -> HoldType] /\ \A k \in Holds : hold'[k] = IF k = h THEN r ELSE hold[k]
  BY <1>1, <1>2
<1>4. used[u][m] > 0
  <2>1. h \in Granted(u, m) /\ IsFiniteSet(Granted(u, m)) /\ Cardinality(Granted(u, m)) \in Nat
    BY <1>1, GrantedIsFinite DEF Granted
  <2>2. Cardinality(Granted(u, m)) # 0
    BY <2>1, FS_EmptySet
  <2> QED BY <1>1, <2>1, <2>2 DEF BillingInv, CounterCountsHolds, Granted
<1>5. used' \in [Users -> [Months -> Nat]]
  BY <1>1, <1>4 DEF Release
<1>6. \A v \in Users, n \in Months :
        used'[v][n] = IF v = u /\ n = m THEN used[u][m] - 1 ELSE used[v][n]
  BY <1>1, <1>4 DEF Release
<1>7. TypeOK'
  <2>1. \A k \in Holds : hold'[k].pc \in {"limit", "granted"} => hold'[k].user \in Users
    BY <1>2, <1>3 DEF BillingInv, TypeOK
  <2> QED BY <1>1, <1>3, <1>5, <2>1 DEF BillingInv, TypeOK, HoldType, subscriptions, gateway
<1>8. Planned' /\ Entitled'
  BY <1>1, PlansKept
<1>9. HoldsEntitled'
  BY <1>1, <1>2, <1>3 DEF BillingInv, HoldsEntitled
<1>10. UsageIsEntitled'
  <2>1. \A v \in Users, n \in Months : used'[v][n] <= used[v][n] /\ used'[v][n] \in Int /\ used[v][n] \in Int
    BY <1>1, <1>5, <1>6
  <2> QED BY <1>1, <2>1 DEF BillingInv, UsageIsEntitled
<1>11. ASSUME NEW v \in Users, NEW n \in Months
       PROVE  used'[v][n] = Cardinality(Granted(v, n)')
  <2>1. CASE v = u /\ n = m
    <3>1. Granted(v, n)' = Granted(v, n) \ {h} /\ h \in Granted(v, n)
      BY <1>1, <1>2, <1>3, <2>1 DEF Granted
    <3>2. Cardinality(Granted(v, n)') = Cardinality(Granted(v, n)) - 1
      BY <3>1, GrantedIsFinite, FS_RemoveElement
    <3> QED BY <1>6, <2>1, <3>2 DEF BillingInv, CounterCountsHolds, Granted
  <2>2. CASE ~(v = u /\ n = m)
    <3>1. Granted(v, n)' = Granted(v, n)
      BY <1>1, <1>2, <1>3, <2>2 DEF Granted
    <3> QED BY <1>6, <2>2, <3>1 DEF BillingInv, CounterCountsHolds, Granted
  <2> QED BY <2>1, <2>2
<1>12. CounterCountsHolds'
  BY <1>11 DEF CounterCountsHolds, Granted
<1> QED BY <1>7, <1>8, <1>9, <1>10, <1>12 DEF BillingInv
LEMMA MonthInv ==
  ASSUME BillingInv, NextMonth
  PROVE  BillingInv'
<1>1. UNCHANGED <<subscriptions, gateway, quotas, ceilings>> /\ month' \in Months
  <2>1. month \in 1..MaxMonth /\ MaxMonth \in Nat /\ month < MaxMonth /\ month' = month + 1
    BY BillingAssumption DEF BillingInv, TypeOK, Months, NextMonth, BillingAssumption
  <2> QED BY <2>1 DEF NextMonth, Months
<1>2. TypeOK'
  BY <1>1 DEF BillingInv, TypeOK, subscriptions, gateway, quotas
<1>3. Planned' /\ Entitled'
  BY <1>1, PlansKept
<1>4. HoldsEntitled' /\ UsageIsEntitled' /\ CounterCountsHolds'
  BY <1>1, QuotaKept
<1> QED BY <1>2, <1>3, <1>4 DEF BillingInv

LEMMA InitInv == Init => BillingInv
<1> SUFFICES ASSUME Init PROVE BillingInv
  OBVIOUS
<1>1. 1 \in Months /\ FreeQuota \in Nat /\ MaxEvents \in Nat
  BY BillingAssumption DEF Months, BillingAssumption
<1>2. NoCall \in CallType /\ NoCall.pc = "idle" /\ NoHold \in HoldType /\ NoHold.pc = "idle"
  BY <1>1 DEF NoCall, NoHold, CallType, HoldType
<1>3. TypeOK
  <2>1. call \in [Calls -> CallType] /\ hold \in [Holds -> HoldType]
    BY <1>2 DEF Init
  <2>2. /\ \A s \in Calls : row[s] = "none" /\ call[s].pc = "idle"
        /\ \A h \in Holds : hold[h].pc = "idle"
    BY <1>2 DEF Init
  <2>3. provider \in [Calls -> ProviderState \cup {"none"}] /\ raised \in 0..MaxEvents
        /\ mail \in [Calls -> SUBSET [event : Event, entity : ProviderState]]
    BY <1>1 DEF Init
  <2>4. used \in [Users -> [Months -> Nat]] /\ ceilings \in [Users -> SUBSET Limits] /\ month \in Months
    BY <1>1 DEF Init, Limits
  <2>5. row \in [Calls -> Status \cup {"none"}]
    BY DEF Init
  <2> QED BY <2>1, <2>2, <2>3, <2>4, <2>5 DEF TypeOK, CallType, HoldType
<1>4. Planned
  BY <1>2 DEF Init, Planned
<1>5. Entitled
  BY DEF Init, Entitled, LimitOf, Live, LiveStatus
<1>6. HoldsEntitled
  BY <1>2 DEF Init, HoldsEntitled
<1>7. UsageIsEntitled
  BY <1>1 DEF Init, UsageIsEntitled
<1>8. CounterCountsHolds
  <2>1. ASSUME NEW u \in Users, NEW m \in Months PROVE used[u][m] = Cardinality(Granted(u, m))
    <3>1. Granted(u, m) = {}
      BY <1>2 DEF Init, Granted
    <3> QED BY <3>1, FS_EmptySet DEF Init
  <2> QED BY <2>1 DEF CounterCountsHolds, Granted
<1> QED BY <1>3, <1>4, <1>5, <1>6, <1>7, <1>8 DEF BillingInv

\* The inductive invariant: TypeOK, the plan a request carries, the entitlement a
\* reservation goes by, and the two properties of the counter.
THEOREM BillingInvariant == Spec => []BillingInv
<1>1. Init => BillingInv
  BY InitInv
<1>2. BillingInv /\ [Next]_vars => BillingInv'
  <2> SUFFICES ASSUME BillingInv, [Next]_vars PROVE BillingInv'
    OBVIOUS
  <2>1. ASSUME NEW s \in Calls, NEW u \in Users, NEW p \in Plans, CreateSubscription(s, u, p)
        PROVE  BillingInv'
    BY <2>1, CreateInv
  <2>2. ASSUME NEW s \in Calls, CancelExisting(s) PROVE BillingInv'
    BY <2>2, CancelInv
  <2>3. ASSUME NEW s \in Calls, InsertSubscription(s) PROVE BillingInv'
    BY <2>3, InsertInv
  <2>4. ASSUME NEW s \in Calls, ProviderStep(s) PROVE BillingInv'
    BY <2>4, ProviderInv
  <2>5. ASSUME NEW s \in Calls, NEW e \in mail[s], Webhook(s, e) PROVE BillingInv'
    BY <2>5, WebhookInv
  <2>6. ASSUME NEW h \in Holds, NEW u \in Users, BeginReserve(h, u) PROVE BillingInv'
    BY <2>6, BeginInv
  <2>7. ASSUME NEW h \in Holds, ReserveUnit(h) PROVE BillingInv'
    BY <2>7, ReserveInv
  <2>8. ASSUME NEW h \in Holds, Release(h) PROVE BillingInv'
    BY <2>8, ReleaseInv
  <2>9. CASE NextMonth
    BY <2>9, MonthInv
  <2>10. CASE UNCHANGED vars
    <3>1. UNCHANGED <<subscriptions, quotas, ceilings>>
      BY <2>10 DEF vars
    <3>2. TypeOK'
      BY <2>10 DEF BillingInv, TypeOK, vars, subscriptions, gateway, quotas
    <3>3. Planned' /\ Entitled'
      BY <3>1, PlansKept
    <3>4. HoldsEntitled' /\ UsageIsEntitled' /\ CounterCountsHolds'
      BY <3>1, QuotaKept
    <3> QED BY <3>2, <3>3, <3>4 DEF BillingInv
  <2> QED BY <2>1, <2>2, <2>3, <2>4, <2>5, <2>6, <2>7, <2>8, <2>9, <2>10 DEF Next
<1> QED BY <1>1, <1>2, PTL DEF Spec

\* The type invariant of Billing holds of every behaviour.
THEOREM BillingTypeCorrect == Spec => []TypeOK
<1>1. BillingInv => TypeOK
  BY DEF BillingInv
<1> QED BY <1>1, BillingInvariant, PTL

\* The counter of a month counts the reservations that hold a unit of it.
THEOREM CounterIsExact == Spec => []CounterCountsHolds
<1>1. BillingInv => CounterCountsHolds
  BY DEF BillingInv
<1> QED BY <1>1, BillingInvariant, PTL

\* The units an account uses in a month stay within the best plan it has had, however
\* many reservations run while its plan changes.
THEOREM UsageStaysEntitled == Spec => []UsageIsEntitled
<1>1. BillingInv => UsageIsEntitled
  BY DEF BillingInv
<1> QED BY <1>1, BillingInvariant, PTL

\* Subscribing never costs a user the plan they have: no step of a subscribe leaves a
\* user who had a live subscription without one.
THEOREM SubscribingKeepsThePlan == Spec => SubscribeKeepsAPlan
<1>1. BillingInv /\ [Next]_vars
        => [\A u \in Users : call' # call /\ Live(u) # {} => Live(u)' # {}]_vars
  <2> SUFFICES ASSUME BillingInv, Next, NEW u \in Users, call' # call, Live(u) # {}
               PROVE  Live(u)' # {}
    BY DEF vars
  <2>1. PICK s \in Calls : \/ \E v \in Users, p \in Plans : CreateSubscription(s, v, p)
                           \/ CancelExisting(s) \/ InsertSubscription(s)
    BY DEF Next, ProviderStep, Raise, Webhook, BeginReserve, ReserveUnit, Release, NextMonth,
           subscriptions
  <2>2. call \in [Calls -> CallType] /\ call[s] \in CallType
    BY DEF BillingInv, TypeOK, CallType
  <2>3. CASE \E v \in Users, p \in Plans : CreateSubscription(s, v, p)
    <3>1. call[s].pc = "idle" /\ row' = row /\ \A t \in Calls \ {s} : call'[t] = call[t]
      BY <2>2, <2>3 DEF CreateSubscription
    <3>2. row[s] = "none"
      BY <3>1 DEF BillingInv, TypeOK
    <3>3. \A t \in Live(u) : t \in Live(u)'
      BY <3>1, <3>2 DEF Live, LiveStatus
    <3> QED BY <3>3
  <2>4. CASE CancelExisting(s)
    <3>1. row' = row /\ \A t \in Calls : call'[t].user = call[t].user
      BY <2>2, <2>4 DEF CancelExisting, CallType
    <3> QED BY <3>1 DEF Live
  <2>5. CASE InsertSubscription(s)
    <3>1. call[s].pc = "insert" /\ call[s].status \in {"trialing", ""}
      BY <2>5 DEF InsertSubscription, BillingInv, Planned
    <3>2. CASE /\ call[s].status \in Status
               /\ row' = [t \in Calls |-> IF t = s THEN call[s].status
                                          ELSE IF t \in Replaced(s) THEN "canceled" ELSE row[t]]
               /\ call' = [call EXCEPT ![s].pc = "ok", ![s].picked = {}, ![s].status = ""]
      <4>1. \A t \in Calls : call'[t].user = call[t].user
        BY <2>2, <3>2 DEF CallType
      <4>2. row'[s] = "trialing"
        BY <3>1, <3>2 DEF Status, LiveStatus
      <4>3. CASE call[s].user = u
        BY <4>1, <4>2, <4>3 DEF Live, LiveStatus
      <4>4. CASE call[s].user # u
        <5>1. PICK t \in Live(u) : TRUE
          OBVIOUS
        <5>2. t \in Calls /\ t # s /\ t \notin Replaced(s)
          BY <4>4, <5>1 DEF Live, Replaced
        <5>3. row'[t] = row[t]
          BY <3>2, <5>2
        <5> QED BY <4>1, <5>1, <5>3 DEF Live
      <4> QED BY <4>3, <4>4
    <3>3. CASE /\ call' = [call EXCEPT ![s] = [NoCall EXCEPT !.pc = "failed", !.user = call[s].user]]
               /\ Rollback(s)
      <4>1. \A t \in Calls : call'[t].user = call[t].user
        BY <2>2, <3>3 DEF NoCall
      <4>2. row' = row
        BY <3>3 DEF Rollback
      <4> QED BY <4>1, <4>2 DEF Live
    <3> QED BY <2>5, <3>2, <3>3 DEF InsertSubscription
  <2> QED BY <2>1, <2>3, <2>4, <2>5
<1> QED BY <1>1, BillingInvariant, PTL DEF Spec, SubscribeKeepsAPlan
-----------------------------------------------------------------------------
(* Who pays is served.  The events about a subscription only end it when the
   provider has ended it for good, so whichever of them come, in whatever
   order, a row of a subscription that is still charged for stays live until
   another row of the user takes its place. *)

\* A later row of the user has replaced that of s, or the provider has ended s.
Over(s) ==
  \/ provider[s] \in {"cancelled", "completed"}
  \/ \E t \in Calls \ {s} : call[t].user = call[s].user /\ row[t] # "none"

\* An event that ends a row was raised when the provider ended the subscription.
Told(s, e) ==
  /\ e.event = "cancelled" => provider[s] = "cancelled"
  /\ e.event = "completed" => provider[s] = "completed"
  /\ e.event = "updated" => e.entity \in {"created", "active", "halted"}

ServedInv ==
  \A s \in Calls :
    /\ call[s].pc = "idle" => provider[s] = "none" /\ mail[s] = {}
    /\ \A e \in mail[s] : Told(s, e)
    /\ row[s] \notin LiveStatus \cup {"none"} => Over(s)

\* A row that was replaced stays so: no step takes a row away, or gives it to
\* another user.
LEMMA OverStays ==
  ASSUME BillingInv, NEW s \in Calls, Over(s),
         provider[s] \in {"cancelled", "completed"} => provider'[s] = provider[s],
         \A t \in Calls : row[t] # "none" => row'[t] # "none" /\ call'[t].user = call[t].user,
         call'[s].user = call[s].user
  PROVE  Over(s)'
BY DEF Over

LEMMA CreateServed ==
  ASSUME BillingInv, ServedInv, NEW s \in Calls, NEW u \in Users, NEW p \in Plans,
         CreateSubscription(s, u, p)
  PROVE  ServedInv'
<1>1. /\ call[s].pc = "idle" /\ row[s] = "none" /\ mail[s] = {}
      /\ row' = row /\ mail' = mail /\ provider[s] = "none"
      /\ call \in [Calls -> CallType] /\ provider \in [Calls -> ProviderState \cup {"none"}]
  BY DEF BillingInv, TypeOK, CallType, ServedInv, CreateSubscription
<1>2. /\ call'[s].pc # "idle"
      /\ \A t \in Calls \ {s} : call'[t] = call[t] /\ provider'[t] = provider[t]
  BY <1>1 DEF CreateSubscription, NoCall
<1>3. \A t \in Calls : row[t] # "none" => row'[t] # "none" /\ call'[t].user = call[t].user
  BY <1>1, <1>2
<1>4. ASSUME NEW t \in Calls, row[t] \notin LiveStatus \cup {"none"} PROVE Over(t)'
  <2>1. t # s /\ Over(t)
    BY <1>1, <1>4 DEF ServedInv
  <2> QED BY <1>2, <1>3, <2>1, OverStays
<1>5. ASSUME NEW t \in Calls, NEW e \in mail[t] PROVE Told(t, e)'
  <2>1. t # s /\ Told(t, e)
    BY <1>1 DEF ServedInv
  <2> QED BY <1>2, <2>1 DEF Told
<1> QED BY <1>1, <1>2, <1>4, <1>5 DEF ServedInv

LEMMA CancelServed ==
  ASSUME BillingInv, ServedInv, NEW s \in Calls, CancelExisting(s)
  PROVE  ServedInv'
<1>1. /\ row' = row /\ mail' = mail /\ provider' = provider /\ call[s].pc = "cancel"
      /\ call \in [Calls -> CallType]
  BY DEF BillingInv, TypeOK, CallType, CancelExisting, gateway
<1>2. /\ \A t \in Calls : call'[t].user = call[t].user
      /\ \A t \in Calls : call'[t].pc = "idle" => call[t].pc = "idle"
  BY <1>1 DEF CancelExisting, CallType
<1>3. \A t \in Calls : Over(t) => Over(t)'
  BY <1>1, <1>2, OverStays
<1>4. \A t \in Calls : \A e \in mail[t] : Told(t, e) => Told(t, e)'
  BY <1>1 DEF Told
<1> QED BY <1>1, <1>2, <1>3, <1>4 DEF ServedInv

\* The insert replaces rows of its own user, and the row it leaves is the reason.
LEMMA InsertServed ==
  ASSUME BillingInv, ServedInv, NEW s \in Calls, InsertSubscription(s)
  PROVE  ServedInv'
<1>1. /\ mail' = mail /\ provider' = provider /\ call[s].pc = "insert" /\ row[s] = "none"
      /\ call \in [Calls -> CallType] /\ call[s] \in CallType
      /\ call[s].status \in {"trialing", ""}
  BY DEF BillingInv, TypeOK, CallType, InsertSubscription, gateway, Planned
<1>2. /\ \A t \in Calls : call'[t].user = call[t].user
      /\ \A t \in Calls : call'[t].pc = "idle" => call[t].pc = "idle"
  <2>1. CASE call' = [call EXCEPT ![s].pc = "ok", ![s].picked = {}, ![s].status = ""]
    BY <1>1, <2>1 DEF CallType
  <2>2. CASE call' = [call EXCEPT ![s] = [NoCall EXCEPT !.pc = "failed", !.user = call[s].user]]
    <3> DEFINE c == [NoCall EXCEPT !.pc = "failed", !.user = call[s].user]
    <3>1. c.pc = "failed" /\ c.user = call[s].user /\ call' = [call EXCEPT ![s] = c]
      BY <2>2 DEF NoCall
    <3> HIDE DEF c
    <3>2. \A t \in Calls : call'[t] = IF t = s THEN c ELSE call[t]
      BY <1>1, <3>1
    <3> QED BY <3>1, <3>2
  <2> QED BY <2>1, <2>2 DEF InsertSubscription
<1>3. \A t \in Calls : \A e \in mail[t] : Told(t, e) => Told(t, e)'
  BY <1>1 DEF Told
<1>4. CASE row' = row
  <2>1. \A t \in Calls : Over(t) => Over(t)'
    BY <1>1, <1>2, <1>4, OverStays
  <2> QED BY <1>1, <1>2, <1>3, <1>4, <2>1 DEF ServedInv
<1>5. CASE row' = [t \in Calls |-> IF t = s THEN call[s].status
                                   ELSE IF t \in Replaced(s) THEN "canceled" ELSE row[t]]
           /\ call[s].status \in Status
  <2>1. row'[s] = "trialing"
    BY <1>1, <1>5 DEF Status, LiveStatus
  <2>2. \A t \in Calls : row[t] # "none" => row'[t] # "none"
    BY <1>1, <1>5
  <2>3. ASSUME NEW t \in Calls, row'[t] \notin LiveStatus \cup {"none"} PROVE Over(t)'
    <3>1. t # s
      BY <2>1, <2>3 DEF LiveStatus
    <3>2. CASE t \in Replaced(s)
      <4>1. call[t].user = call[s].user
        BY <3>2 DEF Replaced, Live
      <4> QED BY <1>2, <2>1, <3>1, <4>1 DEF Over
    <3>3. CASE t \notin Replaced(s)
      <4>1. row'[t] = row[t]
        BY <1>5, <3>1, <3>3
      <4>2. Over(t)
        BY <2>3, <4>1 DEF ServedInv
      <4> QED BY <1>1, <1>2, <2>2, <4>2, OverStays
    <3> QED BY <3>2, <3>3
  <2> QED BY <1>1, <1>2, <1>3, <2>3 DEF ServedInv
<1> QED BY <1>4, <1>5 DEF InsertSubscription, Rollback

\* Cancelled and completed are final at the provider.
LEMMA ProviderServed ==
  ASSUME BillingInv, ServedInv, NEW s \in Calls, ProviderStep(s)
  PROVE  ServedInv'
<1>1. row' = row /\ call' = call /\ provider[s] \notin {"none", "cancelled", "completed"}
  BY DEF ProviderStep, Raise, subscriptions
<1>2. PICK event \in Event, state \in ProviderState :
        /\ Raise(s, event, state)
        /\ event = "cancelled" => state = "cancelled"
        /\ event = "completed" => state = "completed"
        /\ event = "updated" => state \in {"created", "active", "halted"}
  BY DEF ProviderStep, Event, ProviderState
<1>3. /\ mail \in [Calls -> SUBSET [event : Event, entity : ProviderState]]
      /\ provider \in [Calls -> ProviderState \cup {"none"}]
  BY DEF BillingInv, TypeOK
<1>4. /\ provider'[s] = state /\ mail'[s] = mail[s] \cup {[event |-> event, entity |-> state]}
      /\ \A t \in Calls \ {s} : provider'[t] = provider[t] /\ mail'[t] = mail[t]
  BY <1>2, <1>3 DEF Raise
<1>5. \A t \in Calls : Over(t) => Over(t)'
  <2>1. \A t \in Calls : provider[t] \in {"cancelled", "completed"} => provider'[t] = provider[t]
    BY <1>1, <1>4
  <2> QED BY <1>1, <2>1, OverStays
<1>6. ASSUME NEW t \in Calls, NEW e \in mail'[t] PROVE Told(t, e)'
  <2>1. CASE e \in mail[t]
    <3>1. Told(t, e)
      BY <2>1 DEF ServedInv
    <3> QED BY <1>1, <1>4, <3>1 DEF Told
  <2>2. CASE e \notin mail[t]
    <3>1. t = s /\ e = [event |-> event, entity |-> state]
      BY <1>4, <1>6, <2>2
    <3> QED BY <1>2, <1>4, <3>1 DEF Told
  <2> QED BY <2>1, <2>2
<1>7. call[s].pc # "idle"
  BY <1>1 DEF ServedInv
<1> QED BY <1>1, <1>4, <1>5, <1>6, <1>7 DEF ServedInv

\* A webhook ends a row only with an event of a subscription that has ended.
LEMMA WebhookServed ==
  ASSUME BillingInv, ServedInv, NEW s \in Calls, NEW e \in mail[s], Webhook(s, e)
  PROVE  ServedInv'
<1>1. /\ call' = call /\ provider' = provider
      /\ row \in [Calls -> Status \cup {"none"}]
      /\ mail \in [Calls -> SUBSET [event : Event, entity : ProviderState]]
      /\ e \in [event : Event, entity : ProviderState] /\ Told(s, e)
  BY DEF BillingInv, TypeOK, Webhook, ServedInv
<1>2. \A t \in Calls : mail'[t] \subseteq mail[t]
  BY <1>1 DEF Webhook
<1>3. /\ \A t \in Calls \ {s} : row'[t] = row[t]
      /\ row[s] = "none" <=> row'[s] = "none"
      /\ row'[s] = row[s] \/ row'[s] = StatusForEvent(e)
  <2>1. StatusForEvent(e) # "none"
    BY <1>1 DEF StatusForEvent, MapSubscriptionStatus, Event, ProviderState
  <2> QED BY <1>1, <2>1 DEF Webhook
<1>4. StatusForEvent(e) \in LiveStatus \cup {""} \/ provider[s] \in {"cancelled", "completed"}
  BY <1>1 DEF StatusForEvent, MapSubscriptionStatus, Event, Told, LiveStatus
<1>5. \A t \in Calls : Over(t) => Over(t)'
  BY <1>1, <1>3, OverStays
<1>6. row'[s] # ""
  <2>1. row'[s] \in Status \cup {"none"}
    <3>1. row' = [row EXCEPT ![s] = IF @ = "none" \/ StatusForEvent(e) = "" THEN @ ELSE StatusForEvent(e)]
      BY DEF Webhook
    <3>2. StatusForEvent(e) \in Status \cup {""}
      BY <1>1 DEF StatusForEvent, MapSubscriptionStatus, Event, ProviderState, Status, LiveStatus
    <3> QED BY <1>1, <3>1, <3>2
  <2> QED BY <2>1 DEF Status, LiveStatus
<1>7. row'[s] \notin LiveStatus \cup {"none"} => Over(s)'
  <2>1. CASE row'[s] = row[s]
    BY <1>5, <2>1 DEF ServedInv
  <2>2. CASE row'[s] = StatusForEvent(e)
    BY <1>1, <1>4, <1>6, <2>2 DEF Over
  <2> QED BY <1>3, <2>1, <2>2
<1>8. \A t \in Calls : \A f \in mail'[t] : Told(t, f)'
  BY <1>1, <1>2 DEF ServedInv, Told
<1>9. \A t \in Calls : call'[t].pc = "idle" => provider'[t] = "none" /\ mail'[t] = {}
  BY <1>1, <1>2 DEF ServedInv
<1> QED BY <1>3, <1>5, <1>7, <1>8, <1>9 DEF ServedInv

\* A user whose subscription is still charged for is served, whatever the order
\* in which its events, and those of others, arrive.
THEOREM PayersAreServed == Spec => []PaidIsServed
<1>1. Init => ServedInv
  BY DEF Init, ServedInv, NoCall
<1>2. BillingInv /\ ServedInv /\ [Next]_vars => ServedInv'
  <2> SUFFICES ASSUME BillingInv, ServedInv, [Next]_vars PROVE ServedInv'
    OBVIOUS
  <2>1. CASE UNCHANGED <<subscriptions, gateway>>
    BY <2>1 DEF subscriptions, gateway, ServedInv, Over, Told
  <2>2. ASSUME NEW s \in Calls, NEW u \in Users, NEW p \in Plans, CreateSubscription(s, u, p)
        PROVE  ServedInv'
    BY <2>2, CreateServed
  <2>3. ASSUME NEW s \in Calls, CancelExisting(s) PROVE ServedInv'
    BY <2>3, CancelServed
  <2>4. ASSUME NEW s \in Calls, InsertSubscription(s) PROVE ServedInv'
    BY <2>4, InsertServed
  <2>5. ASSUME NEW s \in Calls, ProviderStep(s) PROVE ServedInv'
    BY <2>5, ProviderServed
  <2>6. ASSUME NEW s \in Calls, NEW e \in mail[s], Webhook(s, e) PROVE ServedInv'
    BY <2>6, WebhookServed
  <2> QED BY <2>1, <2>2, <2>3, <2>4, <2>5, <2>6
      DEF Next, BeginReserve, ReserveUnit, Release, NextMonth, vars
<1>3. BillingInv /\ ServedInv => PaidIsServed
  BY DEF ServedInv, PaidIsServed, Over
<1> QED BY <1>1, <1>2, <1>3, BillingInvariant, PTL DEF Spec

-----------------------------------------------------------------------------
(* SCORING *)

(* Least and greatest *)

LEMMA LeastNatural ==
  ASSUME NEW T \in SUBSET Nat, T # {}
  PROVE  \E m \in T : \A k \in T : m <= k
  <1> DEFINE R == {p \in Nat \X Nat : p[1] < p[2]}
  <1>1. IsWellFoundedOn(R, Nat)
    BY NatLessThanWellFounded DEF OpToRel
  <1>2. \A x, y \in Nat : y < x => <<y, x>> \in R
    OBVIOUS
  <1> HIDE DEF R
  <1>3. PICK m \in T : \A y \in T : ~(<<y, m>> \in R)
    BY <1>1, WFMin
  <1>4. ASSUME NEW k \in T PROVE m <= k
    <2>1. ~(k < m)
      BY <1>2, <1>3
    <2> QED BY <2>1
  <1> QED BY <1>4

LEMMA GreatestCount ==
  ASSUME NEW snaps \in Seq(Snapshot)
  PROVE  MaxFollowers(snaps) \in Nat
  <1> DEFINE count(i) == snaps[i].followers
             counts(n) == {count(i) : i \in 1..n} \cup {0}
             Bounded(n) == \E m \in counts(n) : \A k \in counts(n) : k <= m
             Bad == {n \in 0..Len(snaps) : ~Bounded(n)}
  <1>1. Len(snaps) \in Nat
    BY LenProperties
  <1>2. ASSUME NEW i \in 1..Len(snaps) PROVE count(i) \in Nat
    <2>1. snaps[i] \in Snapshot
      BY ElementOfSeq
    <2> QED BY <2>1 DEF Snapshot
  <1>3. ASSUME NEW n \in 0..Len(snaps) PROVE counts(n) \subseteq Nat
    <2> SUFFICES ASSUME NEW i \in 1..n PROVE count(i) \in Nat
      OBVIOUS
    <2>1. i \in 1..Len(snaps)
      BY <1>1
    <2> QED BY <1>2, <2>1
  <1>4. ASSUME NEW n \in 0..Len(snaps), n # 0 PROVE counts(n) = counts(n - 1) \cup {count(n)}
    <2> HIDE DEF count
    <2>1. 1..n = (1..(n - 1)) \cup {n}
      BY <1>1, <1>4
    <2> QED BY <2>1
  <1>5. Bad = {}
    <2> SUFFICES ASSUME Bad # {} PROVE FALSE
      OBVIOUS
    <2>1. PICK n \in Bad : \A k \in Bad : n <= k
      <3>1. Bad \in SUBSET Nat
        BY <1>1
      <3> HIDE DEF Bad
      <3> QED BY <3>1, LeastNatural
    <2>2. n \in 0..Len(snaps) /\ ~Bounded(n)
      BY <2>1
    <2>3. n # 0
      <3>1. 0 \in counts(0) /\ \A k \in counts(0) : k <= 0
        <4>1. 1..0 = {}
          OBVIOUS
        <4> QED BY <4>1
      <3> HIDE DEF counts
      <3> QED BY <2>2, <3>1
    <2>4. n - 1 \in 0..Len(snaps) /\ n - 1 < n
      BY <1>1, <2>2, <2>3
    <2>5. Bounded(n - 1)
      <3>1. n - 1 \notin Bad
        <4> HIDE DEF Bad
        <4> QED BY <1>1, <2>1, <2>2, <2>4
      <3> HIDE DEF Bounded
      <3> QED BY <2>4, <3>1
    <2> HIDE DEF Bad, count
    <2>6. PICK m \in counts(n - 1) : \A k \in counts(n - 1) : k <= m
      BY <2>5
    <2>7. counts(n) = counts(n - 1) \cup {count(n)}
      BY <1>4, <2>2, <2>3
    <2>8. counts(n - 1) \subseteq Nat /\ counts(n) \subseteq Nat
      BY <1>3, <2>2, <2>4
    <2> HIDE DEF counts
    <2>9. count(n) \in Nat /\ count(n) \in counts(n) /\ m \in counts(n) /\ m \in Nat
      BY <2>6, <2>7, <2>8
    <2>10. CASE m <= count(n)
      <3>1. \A k \in counts(n) : k <= count(n)
        BY <2>6, <2>7, <2>8, <2>9, <2>10
      <3> QED BY <2>2, <2>9, <3>1
    <2>11. CASE ~(m <= count(n))
      <3>1. \A k \in counts(n) : k <= m
        BY <2>6, <2>7, <2>8, <2>9, <2>11
      <3> QED BY <2>2, <2>9, <3>1
    <2> QED BY <2>10, <2>11
  <1>6. Bounded(Len(snaps))
    <2>1. Len(snaps) \in 0..Len(snaps) /\ Len(snaps) \notin Bad
      <3> HIDE DEF Bad
      <3> QED BY <1>1, <1>5
    <2> HIDE DEF Bounded
    <2> QED BY <2>1
  <1>7. MaxFollowers(snaps) = CHOOSE n \in counts(Len(snaps)) : \A m \in counts(Len(snaps)) : m <= n
    BY DEF MaxFollowers
  <1> HIDE DEF counts
  <1>8. MaxFollowers(snaps) \in counts(Len(snaps))
    BY <1>6, <1>7
  <1> QED BY <1>1, <1>3, <1>8

LEMMA TierIsOne ==
  ASSUME NEW n \in Nat
  PROVE  TierForFollowers(n) \in {"nano", "micro", "mid", "macro", "mega"}
  BY DEF TierForFollowers

-----------------------------------------------------------------------------
(* THE ENGINE: the score follows the engagement rate *)

LEMMA DivisionIs ==
  ASSUME NEW a \in Int, NEW d \in Nat \ {0}
  PROVE  /\ a \div d \in Int
         /\ d * (a \div d) <= a
         /\ a < d * (a \div d) + d
  OBVIOUS

LEMMA ProductGrows ==
  ASSUME NEW d \in Nat, NEW x \in Int, NEW y \in Int, x <= y
  PROVE  d * x <= d * y
  OBVIOUS

LEMMA DivisionGrows ==
  ASSUME NEW a \in Int, NEW b \in Int, NEW d \in Nat \ {0}, a <= b
  PROVE  a \div d <= b \div d
  <1> DEFINE p == a \div d
             q == b \div d
  <1>1. /\ p \in Int /\ d * p <= a /\ q \in Int /\ b < d * q + d
    BY DivisionIs
  <1> HIDE DEF p, q
  <1>2. ASSUME ~(p <= q) PROVE FALSE
    <2>1. q + 1 <= p /\ q + 1 \in Int
      BY <1>1, <1>2
    <2>2. d * (q + 1) <= d * p
      BY <1>1, <2>1, ProductGrows
    <2>3. d * (q + 1) = d * q + d
      BY <1>1
    <2>4. d * p \in Int /\ d * q \in Int
      BY <1>1
    <2> QED BY <1>1, <2>2, <2>3, <2>4
  <1> QED BY <1>2 DEF p, q

LEMMA DivisionWithin ==
  ASSUME NEW a \in Nat, NEW d \in Nat \ {0}, NEW k \in Nat, a <= d * k
  PROVE  a \div d \in 0..k
  <1> DEFINE p == a \div d
  <1>1. p \in Int /\ d * p <= a /\ a < d * p + d
    BY DivisionIs
  <1> HIDE DEF p
  <1>2. d * p \in Int /\ d * k \in Int
    BY <1>1
  <1>3. ASSUME ~(p <= k) PROVE FALSE
    <2>1. d * (k + 1) <= d * p
      BY <1>1, <1>3, ProductGrows
    <2>2. d * (k + 1) = d * k + d
      OBVIOUS
    <2> QED BY <1>1, <1>2, <2>1, <2>2
  <1>4. ASSUME ~(0 <= p) PROVE FALSE
    <2>1. d * p <= d * (-1)
      BY <1>1, <1>4, ProductGrows
    <2>2. d * (-1) = -d
      OBVIOUS
    <2> QED BY <1>1, <1>2, <2>1, <2>2
  <1> QED BY <1>1, <1>3, <1>4 DEF p

LEMMA ClampKeeps ==
  ASSUME NEW v \in Int, NEW lo \in Int, NEW hi \in Int, lo <= hi
  PROVE  /\ Clamp(v, lo, hi) \in lo..hi
         /\ v \in lo..hi => Clamp(v, lo, hi) = v
  BY DEF Clamp

LEMMA ClampGrows ==
  ASSUME NEW v \in Int, NEW x \in Int, v <= x
  PROVE  Clamp01(v) <= Clamp01(x) /\ Clamp01(v) \in 0..One
  BY DEF Clamp01, Clamp, One

\* The percentiles of a band, in order.
Knot(band, i) == IF i = 1 THEN 0 ELSE band[i - 1]
Rung(i) == Ladder[i]

\* Between which knots a rate lies, and what it scores there.
Within(rate, band, i) == rate <= Knot(band, i + 1) /\ (i = 1 \/ rate > Knot(band, i))
Interpolated(rate, band, i) ==
  IF Knot(band, i + 1) = Knot(band, i) THEN Rung(i + 1)
  ELSE Clamp01(Rung(i) + ((rate - Knot(band, i)) * (Rung(i + 1) - Rung(i)))
                           \div (Knot(band, i + 1) - Knot(band, i)))

LEMMA RungsAre ==
  /\ Rung(1) = 0 /\ Rung(6) = 950
  /\ \A i \in 1..6 : Rung(i) \in 0..950
  /\ \A i, j \in 1..6 : i <= j => Rung(i) <= Rung(j)
  BY DEF Ladder, Rung

LEMMA KnotsAre ==
  ASSUME NEW band, Ascending(band)
  PROVE  /\ Knot(band, 1) = 0 /\ Knot(band, 6) = band[5] /\ band[5] \in Nat
         /\ \A i \in 1..5 : Knot(band, i + 1) = band[i]
         /\ \A i \in 1..6 : Knot(band, i) \in Nat
         /\ \A i, j \in 1..6 : i <= j => Knot(band, i) <= Knot(band, j)
  <1>1. \A i \in 1..5 : band[i] \in Nat
    BY ElementOfSeq DEF Ascending
  <1>2. \A i \in 1..6 : i # 1 => i - 1 \in 1..5 /\ Knot(band, i) = band[i - 1]
    BY DEF Knot
  <1>3. Knot(band, 1) = 0
    BY DEF Knot
  <1>4. ASSUME NEW i \in 1..6 PROVE Knot(band, i) \in Nat
    BY <1>1, <1>2, <1>3
  <1>5. ASSUME NEW i \in 1..6, NEW j \in 1..6, i <= j PROVE Knot(band, i) <= Knot(band, j)
    <2>1. CASE i = 1
      BY <1>3, <1>4, <2>1
    <2>2. CASE i # 1
      <3>1. j # 1 /\ i - 1 <= j - 1
        BY <1>5, <2>2
      <3>2. i - 1 \in 1..5 /\ j - 1 \in 1..5 /\ Knot(band, i) = band[i - 1] /\ Knot(band, j) = band[j - 1]
        BY <1>2, <2>2, <3>1
      <3> QED BY <3>1, <3>2 DEF Ascending
    <2> QED BY <2>1, <2>2
  <1>6. ASSUME NEW i \in 1..5 PROVE Knot(band, i + 1) = band[i]
    <2>1. i + 1 \in 1..6 /\ i + 1 # 1 /\ (i + 1) - 1 = i
      OBVIOUS
    <2> QED BY <1>2, <2>1
  <1>7. Knot(band, 6) = band[5] /\ band[5] \in Nat
    BY <1>1, <1>2
  <1> QED BY <1>3, <1>4, <1>5, <1>6, <1>7

LEMMA PlaceOfRate ==
  ASSUME NEW band, Ascending(band), NEW rate \in Nat, rate < band[5]
  PROVE  \E i \in 1..5 : Within(rate, band, i) /\ PercentileScore(rate, band) = Interpolated(rate, band, i)
  <1> DEFINE knots == <<0>> \o band
             above(i) == rate <= knots[i + 1] /\ \A j \in 1..(i - 1) : rate > knots[j + 1]
             i == CHOOSE k \in 1..5 : above(k)
  <1>1. \A k \in 1..6 : knots[k] = Knot(band, k)
    <2>1. band \in Seq(Nat) /\ Len(band) = 5
      BY DEF Ascending
    <2> DEFINE zero == <<0>>
    <2>2. zero \in Seq(Nat) /\ Len(zero) = 1 /\ zero[1] = 0
      OBVIOUS
    <2>3. knots = zero \o band
      OBVIOUS
    <2> HIDE DEF zero, knots
    <2>4. \A k \in 1..6 : knots[k] = IF k <= 1 THEN zero[k] ELSE band[k - 1]
      <3>1. \A k \in 1..(Len(zero) + Len(band)) :
              (zero \o band)[k] = IF k <= Len(zero) THEN zero[k] ELSE band[k - Len(zero)]
        BY <2>1, <2>2, ConcatProperties
      <3>2. Len(zero) + Len(band) = 6
        BY <2>1, <2>2
      <3> HIDE DEF knots
      <3> QED BY <2>2, <2>3, <3>1, <3>2
    <2> QED BY <2>2, <2>4 DEF Knot
  <1>2. /\ Knot(band, 1) = 0 /\ Knot(band, 6) = band[5]
        /\ \A k \in 1..6 : Knot(band, k) \in Nat
    BY KnotsAre
  <1>3. \A k \in 1..5 : above(k) <=> rate <= Knot(band, k + 1) /\ \A j \in 1..(k - 1) : rate > Knot(band, j + 1)
    <2> HIDE DEF knots
    <2> SUFFICES ASSUME NEW k \in 1..5
                 PROVE  above(k) <=> rate <= Knot(band, k + 1) /\ \A j \in 1..(k - 1) : rate > Knot(band, j + 1)
      OBVIOUS
    <2>1. k + 1 \in 1..6 /\ \A j \in 1..(k - 1) : j + 1 \in 1..6
      OBVIOUS
    <2> QED BY <1>1, <2>1
  <1> HIDE DEF above
  <1>4. \E k \in 1..5 : above(k)
    <2> DEFINE K(k) == Knot(band, k)
    <2>1. K(2) \in Nat /\ K(3) \in Nat /\ K(4) \in Nat /\ K(5) \in Nat /\ K(6) \in Nat /\ rate < K(6)
      BY <1>2
    <2>2. \A k \in 1..5 : above(k) <=> rate <= K(k + 1) /\ \A j \in 1..(k - 1) : rate > K(j + 1)
      BY <1>3
    <2> HIDE DEF K
    <2>3. ASSUME \A k \in 1..5 : ~above(k) PROVE FALSE
      <3>1. ~(rate <= K(2))
        <4>1. 1..(1 - 1) = {} /\ 1 + 1 = 2
          OBVIOUS
        <4> QED BY <2>2, <2>3, <4>1
      <3>2. ~(rate <= K(3))
        <4>1. \A j \in 1..(2 - 1) : j + 1 = 2
          OBVIOUS
        <4>2. rate > K(2) /\ 2 + 1 = 3
          BY <2>1, <3>1
        <4> QED BY <2>2, <2>3, <4>1, <4>2
      <3>3. ~(rate <= K(4))
        <4>1. \A j \in 1..(3 - 1) : j + 1 = 2 \/ j + 1 = 3
          OBVIOUS
        <4>2. rate > K(2) /\ rate > K(3) /\ 3 + 1 = 4
          BY <2>1, <3>1, <3>2
        <4> QED BY <2>2, <2>3, <4>1, <4>2
      <3>4. ~(rate <= K(5))
        <4>1. \A j \in 1..(4 - 1) : j + 1 = 2 \/ j + 1 = 3 \/ j + 1 = 4
          OBVIOUS
        <4>2. rate > K(2) /\ rate > K(3) /\ rate > K(4) /\ 4 + 1 = 5
          BY <2>1, <3>1, <3>2, <3>3
        <4> QED BY <2>2, <2>3, <4>1, <4>2
      <3>5. ~(rate <= K(6))
        <4>1. \A j \in 1..(5 - 1) : j + 1 = 2 \/ j + 1 = 3 \/ j + 1 = 4 \/ j + 1 = 5
          OBVIOUS
        <4>2. rate > K(2) /\ rate > K(3) /\ rate > K(4) /\ rate > K(5) /\ 5 + 1 = 6
          BY <2>1, <3>1, <3>2, <3>3, <3>4
        <4> QED BY <2>2, <2>3, <4>1, <4>2
      <3> QED BY <2>1, <3>5
    <2> QED BY <2>3
  <1>5. i \in 1..5 /\ above(i)
    BY <1>4
  <1>6. PercentileScore(rate, band) =
          IF knots[i + 1] = knots[i] THEN Ladder[i + 1]
          ELSE Clamp01(Ladder[i] + ((rate - knots[i]) * (Ladder[i + 1] - Ladder[i]))
                                     \div (knots[i + 1] - knots[i]))
    <2>1. ~(rate >= band[5])
      BY <1>2
    <2> QED BY <2>1 DEF PercentileScore, above
  <1> HIDE DEF i, knots
  <1>7. knots[i + 1] = Knot(band, i + 1) /\ knots[i] = Knot(band, i)
    <2>1. i \in 1..6 /\ i + 1 \in 1..6
      BY <1>5
    <2> QED BY <1>1, <2>1
  <1>8. PercentileScore(rate, band) = Interpolated(rate, band, i)
    BY <1>6, <1>7 DEF Interpolated, Rung
  <1>9. Within(rate, band, i)
    <2>1. rate <= Knot(band, i + 1)
      BY <1>3, <1>5
    <2>2. ASSUME i # 1 PROVE rate > Knot(band, i)
      <3>1. i - 1 \in 1..(i - 1) /\ (i - 1) + 1 = i
        BY <1>5, <2>2
      <3> QED BY <1>3, <1>5, <3>1
    <2> QED BY <2>1, <2>2 DEF Within
  <1> QED BY <1>5, <1>8, <1>9

LEMMA ScoreOfPlace ==
  ASSUME NEW band, Ascending(band), NEW rate \in Nat, NEW i \in 1..5, Within(rate, band, i)
  PROVE  /\ Interpolated(rate, band, i) \in Rung(i)..Rung(i + 1)
         /\ Knot(band, i + 1) # Knot(band, i) =>
              Interpolated(rate, band, i) =
                Rung(i) + ((rate - Knot(band, i)) * (Rung(i + 1) - Rung(i))) \div (Knot(band, i + 1) - Knot(band, i))
  <1> DEFINE lo == Rung(i)
             hi == Rung(i + 1)
             b == Knot(band, i)
             t == Knot(band, i + 1)
             n == rate - b
             d == t - b
             k == hi - lo
  <1>1. lo \in 0..950 /\ hi \in 0..950 /\ lo <= hi
    <2>1. i \in 1..6 /\ i + 1 \in 1..6 /\ i <= i + 1
      OBVIOUS
    <2> QED BY <2>1, RungsAre
  <1>2. b \in Nat /\ t \in Nat /\ b <= rate /\ rate <= t /\ b <= t
    <2>1. i \in 1..6 /\ i + 1 \in 1..6 /\ i <= i + 1
      OBVIOUS
    <2>2. b \in Nat /\ t \in Nat /\ b <= t /\ (i = 1 => b = 0)
      BY <2>1, KnotsAre
    <2> QED BY <2>2 DEF Within
  <1>3. Interpolated(rate, band, i) = IF t = b THEN hi ELSE Clamp01(lo + (n * k) \div d)
    BY DEF Interpolated
  <1> HIDE DEF lo, hi, b, t
  <1>4. CASE t = b
    BY <1>1, <1>3, <1>4 DEF lo, hi, b, t
  <1>5. CASE t # b
    <2>1. n \in Nat /\ d \in Nat \ {0} /\ n <= d /\ k \in Nat
      BY <1>1, <1>2, <1>5
    <2> HIDE DEF n, d
    <2>2. n * k \in Nat /\ n * k <= d * k
      <3> HIDE DEF k
      <3>1. k * n <= k * d
        BY <2>1, ProductGrows
      <3> QED BY <2>1, <3>1
    <2>3. (n * k) \div d \in 0..k
      <3> HIDE DEF k
      <3> QED BY <2>1, <2>2, DivisionWithin
    <2> DEFINE rise == (n * k) \div d
    <2>4. rise \in 0..k
      BY <2>3
    <2>5. Interpolated(rate, band, i) = Clamp01(lo + rise)
      BY <1>3, <1>5
    <2> HIDE DEF rise
    <2>6. lo + rise \in Int /\ lo + rise \in lo..hi /\ lo + rise \in 0..One
      BY <1>1, <2>4 DEF One
    <2>7. Clamp01(lo + rise) = lo + rise
      <3> DEFINE x == lo + rise
      <3>1. x \in 0..One
        BY <2>6
      <3> HIDE DEF x
      <3>2. Clamp01(x) = x
        BY <3>1 DEF Clamp01, Clamp, One
      <3> QED BY <3>2 DEF x
    <2> QED BY <1>5, <2>5, <2>6, <2>7 DEF lo, hi, b, t, rise, n, d
  <1> QED BY <1>4, <1>5

LEMMA AboveBand ==
  ASSUME NEW band, Ascending(band), NEW rate \in Nat, rate >= band[5]
  PROVE  PercentileScore(rate, band) \in 950..One
  <1> DEFINE top == band[5]
             lifted == (50 * (rate - top)) \div top
  <1>1. top \in Nat
    BY KnotsAre
  <1>2. PercentileScore(rate, band) = IF top = 0 THEN One ELSE Clamp(950 + lifted, 950, One)
    BY DEF PercentileScore
  <1>3. top # 0 => lifted \in Int
    <2> HIDE DEF top
    <2>1. 50 * (rate - top) \in Int
      BY <1>1
    <2> QED BY <1>1, <2>1, DivisionIs
  <1> HIDE DEF lifted, top
  <1> QED BY <1>2, <1>3, ClampKeeps DEF One, Clamp

LEMMA PercentileInRange ==
  ASSUME NEW band, Ascending(band), NEW rate \in Nat
  PROVE  PercentileScore(rate, band) \in 0..One
  <1>1. CASE rate >= band[5]
    BY <1>1, AboveBand DEF One
  <1>2. CASE ~(rate >= band[5])
    <2>1. band[5] \in Nat
      BY KnotsAre
    <2>2. PICK i \in 1..5 : Within(rate, band, i) /\ PercentileScore(rate, band) = Interpolated(rate, band, i)
      BY <1>2, <2>1, PlaceOfRate
    <2>3. i \in 1..6 /\ i + 1 \in 1..6
      OBVIOUS
    <2>4. Rung(i) \in 0..950 /\ Rung(i + 1) \in 0..950
      BY <2>3, RungsAre
    <2>5. PercentileScore(rate, band) \in Rung(i)..Rung(i + 1)
      BY <2>2, ScoreOfPlace
    <2> QED BY <2>4, <2>5 DEF One
  <1> QED BY <1>1, <1>2

\* Of two rates in one ascending band the lower is never scored higher.
LEMMA PercentileGrows ==
  ASSUME NEW band, Ascending(band), NEW low \in Nat, NEW high \in Nat, low <= high
  PROVE  PercentileScore(low, band) <= PercentileScore(high, band)
  <1> DEFINE top == band[5]
  <1>1. top \in Nat
    BY KnotsAre
  <1>2. CASE low >= top
    <2> DEFINE lifted(r) == (50 * (r - top)) \div top
    <2>1. /\ PercentileScore(low, band) = IF top = 0 THEN One ELSE Clamp(950 + lifted(low), 950, One)
          /\ PercentileScore(high, band) = IF top = 0 THEN One ELSE Clamp(950 + lifted(high), 950, One)
      <3>1. high >= top
        BY <1>1, <1>2
      <3> QED BY <1>2, <3>1 DEF PercentileScore
    <2> HIDE DEF top
    <2>2. top # 0 => lifted(low) <= lifted(high) /\ lifted(low) \in Int /\ lifted(high) \in Int
      <3>1. 50 * (low - top) <= 50 * (high - top) /\ 50 * (low - top) \in Int /\ 50 * (high - top) \in Int
        BY <1>1
      <3> QED BY <1>1, <3>1, DivisionGrows, DivisionIs
    <2> HIDE DEF lifted
    <2> QED BY <2>1, <2>2 DEF Clamp, One
  <1>3. CASE ~(low >= top)
    <2>1. PICK i \in 1..5 : Within(low, band, i) /\ PercentileScore(low, band) = Interpolated(low, band, i)
      BY <1>1, <1>3, PlaceOfRate
    <2> DEFINE lo == Rung(i)
               hi == Rung(i + 1)
    <2>2. lo \in 0..950 /\ hi \in 0..950
      <3>1. i \in 1..6 /\ i + 1 \in 1..6
        OBVIOUS
      <3> QED BY <3>1, RungsAre
    <2>3. PercentileScore(low, band) \in lo..hi
      BY <2>1, ScoreOfPlace
    <2>4. CASE high >= top
      <3> HIDE DEF lo, hi
      <3> QED BY <2>2, <2>3, <2>4, AboveBand DEF One
    <2>5. CASE ~(high >= top)
      <3>1. PICK j \in 1..5 : Within(high, band, j) /\ PercentileScore(high, band) = Interpolated(high, band, j)
        BY <1>1, <2>5, PlaceOfRate
      <3>2. PercentileScore(high, band) \in Rung(j)..Rung(j + 1)
        BY <3>1, ScoreOfPlace
      <3>3. i <= j
        <4> SUFFICES ASSUME j < i PROVE FALSE
          OBVIOUS
        <4>1. j + 1 \in 1..6 /\ i \in 1..6 /\ j + 1 <= i /\ i # 1
          OBVIOUS
        <4>2. Knot(band, j + 1) <= Knot(band, i) /\ Knot(band, j + 1) \in Nat /\ Knot(band, i) \in Nat
          BY <4>1, KnotsAre
        <4>3. high <= Knot(band, j + 1) /\ low > Knot(band, i)
          BY <2>1, <3>1, <4>1 DEF Within
        <4> QED BY <4>2, <4>3
      <3>4. CASE i < j
        <4>1. i + 1 \in 1..6 /\ j \in 1..6 /\ j + 1 \in 1..6 /\ i + 1 <= j
          BY <3>4
        <4>2. hi <= Rung(j) /\ Rung(j) \in 0..950 /\ Rung(j + 1) \in 0..950
          BY <4>1, RungsAre
        <4> HIDE DEF lo, hi
        <4> QED BY <2>2, <2>3, <3>2, <4>2
      <3>5. CASE i = j
        <4> DEFINE b == Knot(band, i)
                   t == Knot(band, i + 1)
                   n(r) == (r - b) * (hi - lo)
                   d == t - b
        <4>1. CASE t = b
          <5>1. PercentileScore(low, band) = hi /\ PercentileScore(high, band) = hi
            BY <2>1, <3>1, <3>5, <4>1 DEF Interpolated
          <5> HIDE DEF hi
          <5> QED BY <2>2, <5>1
        <4>2. CASE t # b
          <5>1. /\ PercentileScore(low, band) = lo + n(low) \div d
                /\ PercentileScore(high, band) = lo + n(high) \div d
            BY <2>1, <3>1, <3>5, <4>2, ScoreOfPlace
          <5>2. b \in Nat /\ t \in Nat /\ b <= t
            <6>1. i \in 1..6 /\ i + 1 \in 1..6 /\ i <= i + 1
              OBVIOUS
            <6> QED BY <6>1, KnotsAre
          <5>3. lo <= hi
            <6>1. i \in 1..6 /\ i + 1 \in 1..6 /\ i <= i + 1
              OBVIOUS
            <6> QED BY <6>1, RungsAre
          <5> HIDE DEF b, t, lo, hi
          <5>4. d \in Nat \ {0} /\ hi - lo \in Nat
            BY <2>2, <4>2, <5>2, <5>3
          <5>5. n(low) \in Int /\ n(high) \in Int /\ n(low) <= n(high)
            <6> DEFINE k == hi - lo
            <6>1. k \in Nat
              BY <5>4
            <6> HIDE DEF k
            <6>2. k * (low - b) <= k * (high - b)
              BY <5>2, <6>1, ProductGrows
            <6>3. (low - b) * k \in Int /\ (high - b) * k \in Int /\ (low - b) * k <= (high - b) * k
              BY <5>2, <6>1, <6>2
            <6> QED BY <6>3 DEF k
          <5> HIDE DEF n, d
          <5>6. n(low) \div d <= n(high) \div d /\ n(low) \div d \in Int /\ n(high) \div d \in Int
            BY <5>4, <5>5, DivisionGrows, DivisionIs
          <5> QED BY <2>2, <5>1, <5>6
        <4> QED BY <4>1, <4>2
      <3> QED BY <3>3, <3>4, <3>5
    <2> QED BY <2>4, <2>5
  <1> QED BY <1>2, <1>3

-----------------------------------------------------------------------------
Bases == {"closed_form", "corpus", "model"}
Kinds == {"none", "coverage", "confidence", "prior"}
Subscore == [value : 0..One, basis : Bases, support : 0..One, kind : Kinds]

\* Nothing in sub is better than in other, which rests on the same evidence.
NoBetter(sub, other) == sub.support = other.support /\ sub.value <= other.value

LEMMA SubscoreIs ==
  ASSUME NEW sub \in Subscore
  PROVE  /\ sub.value \in Nat /\ sub.value <= One
         /\ sub.support \in Nat /\ sub.support <= One
         /\ NoBetter(sub, sub)
  <1> DEFINE v == sub.value
             u == sub.support
  <1>1. v \in 0..One /\ u \in 0..One
    BY DEF Subscore
  <1> HIDE DEF v, u
  <1>2. v \in Nat /\ v <= One /\ u \in Nat /\ u <= One /\ v <= v
    BY <1>1 DEF One
  <1> QED BY <1>2 DEF v, u, NoBetter

LEMMA CoverageIsSubscore ==
  ASSUME NEW v \in 0..One, NEW u \in 0..One
  PROVE  Coverage(v, u) \in Subscore
  <1> DEFINE R == 0..One
  <1>1. v \in R /\ u \in R
    OBVIOUS
  <1> HIDE DEF R
  <1>2. Coverage(v, u) \in [value : R, basis : Bases, support : R, kind : Kinds]
    BY <1>1 DEF Coverage, Sub, Bases, Kinds
  <1> QED BY <1>2 DEF R, Subscore

LEMMA UnmeasuredIsSubscore == Unmeasured \in Subscore
  <1> DEFINE R == 0..One
  <1>1. Neutral \in R /\ 0 \in R
    BY DEF Neutral, One
  <1> HIDE DEF R
  <1>2. Unmeasured \in [value : R, basis : Bases, support : R, kind : Kinds]
    BY <1>1 DEF Unmeasured, Sub, Bases, Kinds
  <1> QED BY <1>2 DEF R, Subscore

LEMMA TakenIsBounded ==
  ASSUME NEW sub \in Subscore, NEW other \in Subscore, NoBetter(sub, other), NEW c \in Nat
  PROVE  /\ Take(sub, c) \in Nat /\ Take(sub, c) = Take(other, c)
         /\ Take(sub, c * sub.value) \in Nat /\ Take(other, c * other.value) \in Nat
         /\ Take(sub, c * sub.value) <= Take(other, c * other.value)
         /\ Take(other, c * other.value) <= Take(sub, c) * One
         /\ Take(sub, c * sub.support) \in Nat
         /\ Take(sub, c * sub.support) = Take(other, c * other.support)
  <1>1. /\ sub.value \in Nat /\ other.value \in Nat /\ sub.value <= other.value /\ other.value <= One
        /\ sub.support \in Nat /\ sub.support = other.support
    BY SubscoreIs DEF NoBetter
  <1>2. /\ c * sub.value \in Nat /\ c * other.value \in Nat /\ c * sub.support \in Nat
        /\ c * sub.value <= c * other.value /\ c * other.value <= c * One
    BY <1>1, ProductGrows DEF One
  <1> DEFINE v == c * sub.value
             v2 == c * other.value
  <1>3. v \in Nat /\ v2 \in Nat /\ v <= v2 /\ v2 <= c * One /\ c * One \in Nat
    BY <1>2 DEF One
  <1> HIDE DEF v, v2
  <1>4. Measured(sub) <=> Measured(other)
    BY <1>1 DEF Measured
  <1>5. /\ Take(sub, v) \in Nat /\ Take(other, v2) \in Nat /\ Take(sub, v) <= Take(other, v2)
        /\ Take(other, v2) <= Take(sub, c) * One
    <2>1. CASE Measured(sub)
      BY <1>3, <1>4, <2>1 DEF Take
    <2>2. CASE ~Measured(sub)
      BY <1>4, <2>2 DEF Take, One
    <2> QED BY <2>1, <2>2
  <1>6. /\ Take(sub, c) \in Nat /\ Take(sub, c) = Take(other, c)
        /\ Take(sub, c * sub.support) \in Nat
        /\ Take(sub, c * sub.support) = Take(other, c * other.support)
    BY <1>1, <1>2, <1>4 DEF Take
  <1> QED BY <1>5, <1>6 DEF v, v2

LEMMA AuthenticityGrows ==
  ASSUME NEW e \in Subscore, NEW e2 \in Subscore, NEW a \in Subscore, NEW a2 \in Subscore,
         NEW depth \in Subscore, NEW retention \in Subscore, NoBetter(e2, e), NoBetter(a2, a)
  PROVE  /\ NoBetter(EngagementAuthenticity(e2, a2, depth, retention),
                     EngagementAuthenticity(e, a, depth, retention))
         /\ EngagementAuthenticity(e, a, depth, retention) \in Subscore
         /\ EngagementAuthenticity(e2, a2, depth, retention) \in Subscore
  <1> DEFINE present(x, y) == Take(x, 50) + Take(y, 35) + Take(depth, 15) + Take(retention, 15)
             value(x, y) == Take(x, 50 * x.value) + Take(y, 35 * y.value)
                              + Take(depth, 15 * depth.value) + Take(retention, 15 * retention.value)
             support(x, y) == Take(x, 50 * x.support) + Take(y, 35 * y.support)
                                + Take(depth, 15 * depth.support) + Take(retention, 15 * retention.support)
  <1>1. /\ present(e, a) \in Nat /\ present(e2, a2) = present(e, a)
        /\ support(e, a) \in Nat /\ support(e2, a2) = support(e, a)
        /\ value(e, a) \in Nat /\ value(e2, a2) \in Nat /\ value(e2, a2) <= value(e, a)
        /\ value(e, a) <= present(e, a) * One
    <2>1. NoBetter(depth, depth) /\ NoBetter(retention, retention)
      BY SubscoreIs
    <2> DEFINE Fits(x, y, c) ==
                 /\ Take(x, c) \in Nat /\ Take(x, c) = Take(y, c)
                 /\ Take(x, c * x.value) \in Nat /\ Take(y, c * y.value) \in Nat
                 /\ Take(x, c * x.value) <= Take(y, c * y.value)
                 /\ Take(y, c * y.value) <= Take(x, c) * One
                 /\ Take(x, c * x.support) \in Nat
                 /\ Take(x, c * x.support) = Take(y, c * y.support)
    <2>2. ASSUME NEW x \in Subscore, NEW y \in Subscore, NoBetter(x, y), NEW c \in Nat
          PROVE  Fits(x, y, c)
      BY <2>2, TakenIsBounded
    <2> HIDE DEF Fits
    <2>3. Fits(e2, e, 50) /\ Fits(a2, a, 35) /\ Fits(depth, depth, 15) /\ Fits(retention, retention, 15)
      BY <2>1, <2>2
    <2> USE DEF Fits
    <2> QED BY <2>3 DEF One
  <1>3. \A x, y : EngagementAuthenticity(x, y, depth, retention) =
          IF present(x, y) = 0 THEN Unmeasured
          ELSE Coverage(value(x, y) \div present(x, y), Clamp01(support(x, y) \div present(x, y)))
    BY DEF EngagementAuthenticity
  <1> HIDE DEF present, value, support
  <1>4. CASE present(e, a) = 0
    <2>1. /\ EngagementAuthenticity(e, a, depth, retention) = Unmeasured
          /\ EngagementAuthenticity(e2, a2, depth, retention) = Unmeasured
      BY <1>1, <1>3, <1>4
    <2>2. Unmeasured \in Subscore /\ NoBetter(Unmeasured, Unmeasured)
      BY UnmeasuredIsSubscore, SubscoreIs
    <2> QED BY <2>1, <2>2
  <1>5. CASE present(e, a) # 0
    <2> DEFINE p == present(e, a)
               v == value(e, a)
               v2 == value(e2, a2)
               u == support(e, a)
    <2>1. p \in Nat \ {0} /\ v \in Nat /\ v2 \in Nat /\ u \in Nat /\ v2 <= v /\ v <= p * One
      BY <1>1, <1>5
    <2>2. /\ EngagementAuthenticity(e, a, depth, retention) = Coverage(v \div p, Clamp01(u \div p))
          /\ EngagementAuthenticity(e2, a2, depth, retention) = Coverage(v2 \div p, Clamp01(u \div p))
      BY <1>1, <1>3, <1>5
    <2> HIDE DEF p, v, v2, u
    <2>3. v2 \div p <= v \div p /\ v \div p \in 0..One /\ v2 \div p \in 0..One /\ u \div p \in Int
      <3>1. v2 <= p * One /\ One \in Nat
        BY <2>1 DEF One
      <3>2. v2 \div p <= v \div p
        BY <2>1, DivisionGrows
      <3>3. v \div p \in 0..One /\ v2 \div p \in 0..One
        BY <2>1, <3>1, DivisionWithin
      <3>4. u \div p \in Int
        BY <2>1, DivisionIs
      <3> QED BY <3>2, <3>3, <3>4
    <2>4. Clamp01(u \div p) \in 0..One
      BY <2>3, ClampGrows
    <2> DEFINE q == v \div p
               q2 == v2 \div p
               z == Clamp01(u \div p)
    <2>5. q2 <= q /\ q \in 0..One /\ q2 \in 0..One /\ z \in 0..One
      BY <2>3, <2>4
    <2>6. /\ EngagementAuthenticity(e, a, depth, retention) = Coverage(q, z)
          /\ EngagementAuthenticity(e2, a2, depth, retention) = Coverage(q2, z)
      BY <2>2
    <2> HIDE DEF q, q2, z
    <2>7. Coverage(q, z) \in Subscore /\ Coverage(q2, z) \in Subscore /\ NoBetter(Coverage(q2, z), Coverage(q, z))
      <3>1. Coverage(q, z) \in Subscore /\ Coverage(q2, z) \in Subscore
        BY <2>5, CoverageIsSubscore
      <3>2. NoBetter(Coverage(q2, z), Coverage(q, z))
        BY <2>5 DEF Coverage, Sub, NoBetter
      <3> QED BY <3>1, <3>2
    <2> QED BY <2>6, <2>7
  <1> QED BY <1>4, <1>5

LEMMA EffectiveGrows ==
  ASSUME NEW sub \in Subscore, NEW other \in Subscore, NoBetter(sub, other)
  PROVE  Effective(sub) \in Nat /\ Effective(other) \in Nat /\ Effective(sub) <= Effective(other)
  <1> DEFINE s == sub.support
             x == sub.value - Neutral
             y == other.value - Neutral
  <1>1. s \in Nat /\ s <= 1000 /\ other.support = s /\ x \in Int /\ y \in Int /\ x <= y /\ -500 <= x /\ -500 <= y
    BY SubscoreIs DEF NoBetter, Neutral, One
  <1>2. Effective(sub) = 500000 + s * x /\ Effective(other) = 500000 + s * y
    BY <1>1 DEF Effective, Neutral, One
  <1> HIDE DEF s, x, y
  <1>3. s * x <= s * y /\ s * (-500) <= s * x
    BY <1>1, ProductGrows
  <1>4. s * (-500) >= -500000
    BY <1>1
  <1>5. s * x \in Int /\ s * y \in Int /\ s * (-500) \in Int
    BY <1>1
  <1> QED BY <1>2, <1>3, <1>4, <1>5

\* If no factor is better and each rests on the same evidence the score is no better:
\* a factor that falls never raises it, whatever the weights.
THEOREM ScoreFollowsFactors ==
  ASSUME NEW w \in [1..4 -> Nat], NEW f \in [1..4 -> Subscore], NEW g \in [1..4 -> Subscore],
         \A j \in 1..4 : NoBetter(g[j], f[j])
  PROVE  /\ Composite(w, g) = Withheld <=> Composite(w, f) = Withheld
         /\ Composite(w, f) # Withheld =>
              /\ Composite(w, g).overall <= Composite(w, f).overall
              /\ Composite(w, g).confidence = Composite(w, f).confidence
              /\ Composite(w, f).overall \in 0..One
  <1> DEFINE part(h, j) == Take(h[j], w[j] * Effective(h[j]))
             back(h, j) == Take(h[j], w[j] * h[j].support)
             value(h) == part(h, 1) + part(h, 2) + part(h, 3) + part(h, 4)
             support(h) == back(h, 1) + back(h, 2) + back(h, 3) + back(h, 4)
             rates(h) == [overall |-> Clamp01(value(h) \div (Evidenced(w, h) * One)),
                           confidence |-> Clamp01(support(h) \div WeightTotal(w))]
  <1>1. \A h : Composite(w, h) = IF WeightTotal(w) <= 0 \/ 2 * Evidenced(w, h) < WeightTotal(w)
                                   THEN Withheld ELSE rates(h)
    BY DEF Composite
  <1>2. \A h : rates(h) # Withheld
    <2> SUFFICES ASSUME NEW h PROVE rates(h) # Withheld
      OBVIOUS
    <2> HIDE DEF value, support
    <2>1. DOMAIN rates(h) = {"overall", "confidence"} /\ DOMAIN Withheld = {"reason"}
      BY DEF Withheld
    <2> QED BY <2>1
  <1>3. ASSUME NEW j \in 1..4
        PROVE  /\ part(f, j) \in Nat /\ part(g, j) \in Nat /\ part(g, j) <= part(f, j)
               /\ back(g, j) = back(f, j)
               /\ Take(g[j], w[j]) = Take(f[j], w[j]) /\ Take(f[j], w[j]) \in Nat
    <2> DEFINE x == Effective(g[j])
               y == Effective(f[j])
    <2>1. w[j] \in Nat /\ g[j].support = f[j].support
      BY DEF NoBetter
    <2>2. x \in Nat /\ y \in Nat /\ x <= y
      <3>1. g[j] \in Subscore /\ f[j] \in Subscore /\ NoBetter(g[j], f[j])
        OBVIOUS
      <3> QED BY <3>1, EffectiveGrows
    <2> HIDE DEF x, y
    <2>3. w[j] * x \in Nat /\ w[j] * y \in Nat /\ w[j] * x <= w[j] * y
      BY <2>1, <2>2, ProductGrows
    <2>4. part(g, j) = Take(g[j], w[j] * x) /\ part(f, j) = Take(f[j], w[j] * y)
      BY DEF x, y
    <2> QED BY <2>1, <2>3, <2>4 DEF Take, Measured
  <1>4. Evidenced(w, g) = Evidenced(w, f) /\ Evidenced(w, f) \in Nat
    BY <1>3 DEF Evidenced
  <1> HIDE DEF part, back
  <1>5. value(f) \in Nat /\ value(g) \in Nat /\ value(g) <= value(f) /\ support(g) = support(f)
    BY <1>3
  <1>6. WeightTotal(w) \in Nat
    BY DEF WeightTotal
  <1> HIDE DEF value, support
  <1>7. (Composite(w, g) = Withheld) <=> (Composite(w, f) = Withheld)
    BY <1>1, <1>2, <1>4
  <1>8. ASSUME Composite(w, f) # Withheld
        PROVE  /\ Composite(w, g).overall <= Composite(w, f).overall
               /\ Composite(w, g).confidence = Composite(w, f).confidence
               /\ Composite(w, f).overall \in 0..One
    <2> DEFINE d == Evidenced(w, f) * One
    <2>1. ~(WeightTotal(w) <= 0 \/ 2 * Evidenced(w, f) < WeightTotal(w))
      BY <1>1, <1>8
    <2>2. d \in Nat \ {0}
      BY <1>4, <1>6, <2>1 DEF One
    <2>3. Composite(w, f) = rates(f) /\ Composite(w, g) = rates(g)
      BY <1>1, <1>4, <2>1
    <2>4. /\ Composite(w, f).overall = Clamp01(value(f) \div d)
          /\ Composite(w, g).overall = Clamp01(value(g) \div d)
          /\ Composite(w, f).confidence = Clamp01(support(f) \div WeightTotal(w))
          /\ Composite(w, g).confidence = Clamp01(support(g) \div WeightTotal(w))
      BY <1>4, <2>3
    <2> HIDE DEF d
    <2>5. value(g) \div d <= value(f) \div d /\ value(f) \div d \in Int /\ value(g) \div d \in Int
      BY <1>5, <2>2, DivisionGrows, DivisionIs
    <2> QED BY <1>5, <2>4, <2>5, ClampGrows
  <1> QED BY <1>7, <1>8

LEMMA BenchmarkSupports ==
  ASSUME NEW b, b.source \in {"bootstrap", "corpus"}, b.sample \in Nat
  PROVE  /\ BenchmarkSupport(b) \in 0..One /\ BenchmarkBasis(b) \in Bases /\ BenchmarkKind(b) \in Kinds
  <1> DEFINE n == b.sample
  <1>1. n \in Nat
    OBVIOUS
  <1>2. BenchmarkSupport(b) = IF b.source = "corpus" THEN ConfidenceForSamples(n) ELSE 250
    BY DEF BenchmarkSupport, BootstrapPriorSupport
  <1> HIDE DEF n
  <1>3. ConfidenceForSamples(n) \in 0..One
    <2>1. CASE n <= 0
      BY <2>1 DEF ConfidenceForSamples, One
    <2>2. CASE ~(n <= 0)
      <3> DEFINE a == n * One
                 d == n + CorpusThreshold
      <3>1. a \in Nat /\ d \in Nat \ {0} /\ One \in Nat /\ a <= d * One
        BY <1>1 DEF CorpusThreshold, One
      <3>2. ConfidenceForSamples(n) = a \div d
        BY <2>2 DEF ConfidenceForSamples
      <3> HIDE DEF a, d
      <3> QED BY <3>1, <3>2, DivisionWithin
    <2> QED BY <2>1, <2>2
  <1>4. BenchmarkSupport(b) \in 0..One
    BY <1>2, <1>3 DEF One
  <1>5. BenchmarkBasis(b) \in Bases /\ BenchmarkKind(b) \in Kinds
    BY DEF BenchmarkBasis, BenchmarkKind, Bases, Kinds
  <1> QED BY <1>4, <1>5

LEMMA EngagementGrows ==
  ASSUME NEW b, b.source \in {"bootstrap", "corpus"}, b.sample \in Nat, Ascending(b.band),
         NEW snaps, NEW bought,
         ObservedEngagementRate(snaps) \in Nat, ObservedEngagementRate(bought) \in Nat,
         ObservedEngagementRate(bought) <= ObservedEngagementRate(snaps)
  PROVE  /\ EngagementSubscore(snaps, b) \in Subscore /\ EngagementSubscore(bought, b) \in Subscore
         /\ NoBetter(EngagementSubscore(bought, b), EngagementSubscore(snaps, b))
  <1> DEFINE low == ObservedEngagementRate(bought)
             high == ObservedEngagementRate(snaps)
             x == PercentileScore(low, b.band)
             y == PercentileScore(high, b.band)
             basis == BenchmarkBasis(b)
             support == BenchmarkSupport(b)
             kind == BenchmarkKind(b)
             R == 0..One
  <1>1. low # Nothing /\ high # Nothing
    BY ScoreEngineAssumption
  <1>2. /\ EngagementSubscore(bought, b) = Sub(x, basis, support, kind)
        /\ EngagementSubscore(snaps, b) = Sub(y, basis, support, kind)
    BY <1>1 DEF EngagementSubscore
  <1>3. x \in R /\ y \in R /\ x <= y
    BY PercentileInRange, PercentileGrows
  <1>4. support \in R /\ basis \in Bases /\ kind \in Kinds
    BY BenchmarkSupports
  <1> HIDE DEF x, y, basis, support, kind, R
  <1>5. /\ Sub(x, basis, support, kind) \in [value : R, basis : Bases, support : R, kind : Kinds]
        /\ Sub(y, basis, support, kind) \in [value : R, basis : Bases, support : R, kind : Kinds]
    BY <1>3, <1>4 DEF Sub
  <1>6. NoBetter(Sub(x, basis, support, kind), Sub(y, basis, support, kind))
    BY <1>3 DEF NoBetter, Sub
  <1> QED BY <1>2, <1>5, <1>6 DEF Subscore, R

\* In one band, an account whose engagement rate falls, as it does when followers are
\* bought, and whose authenticity does not rise, is never scored higher for it and never
\* becomes an account that is scored (engagementSubscore, percentileScore,
\* engagementAuthenticitySubscore and Compute), whatever the weights and the other
\* factors.
THEOREM LowerRateNeverHelps ==
  ASSUME NEW b, b.source \in {"bootstrap", "corpus"}, b.sample \in Nat, Ascending(b.band),
         NEW snaps, NEW bought,
         ObservedEngagementRate(snaps) \in Nat, ObservedEngagementRate(bought) \in Nat,
         ObservedEngagementRate(bought) <= ObservedEngagementRate(snaps),
         NEW authenticity \in Subscore, NEW suspected \in Subscore, NoBetter(suspected, authenticity),
         NEW depth \in Subscore, NEW retention \in Subscore,
         NEW audience \in Subscore, NEW consistency \in Subscore, NEW fit \in Subscore,
         NEW w \in [1..4 -> Nat]
  PROVE  LET rated(s, a) ==
               Composite(w, <<EngagementAuthenticity(EngagementSubscore(s, b), a, depth, retention),
                              audience, consistency, fit>>)
         IN \/ rated(bought, suspected) = Withheld
            \/ /\ rated(snaps, authenticity) # Withheld
               /\ rated(bought, suspected).overall <= rated(snaps, authenticity).overall
  <1> DEFINE e == EngagementAuthenticity(EngagementSubscore(snaps, b), authenticity, depth, retention)
             e2 == EngagementAuthenticity(EngagementSubscore(bought, b), suspected, depth, retention)
             f == <<e, audience, consistency, fit>>
             g == <<e2, audience, consistency, fit>>
  <1>1. e \in Subscore /\ e2 \in Subscore /\ NoBetter(e2, e)
    BY EngagementGrows, AuthenticityGrows
  <1> HIDE DEF e, e2
  <1>2. f \in [1..4 -> Subscore] /\ g \in [1..4 -> Subscore]
    BY <1>1
  <1>3. \A j \in 1..4 : NoBetter(g[j], f[j])
    BY <1>1, SubscoreIs
  <1> HIDE DEF f, g
  <1>4. /\ Composite(w, g) = Withheld <=> Composite(w, f) = Withheld
        /\ Composite(w, f) # Withheld => Composite(w, g).overall <= Composite(w, f).overall
    BY <1>2, <1>3, ScoreFollowsFactors
  <1> QED BY <1>4 DEF f, g, e, e2

-----------------------------------------------------------------------------
(* Places in a sequence *)

\* What holds of 0 and passes from each number below n to the next holds up to n.
LEMMA Climb ==
  ASSUME NEW n \in Nat, NEW G, 0 \in G, \A k \in 0..(n - 1) : k \in G => k + 1 \in G
  PROVE  \A k \in 0..n : k \in G
  <1> DEFINE Bad == {k \in 0..n : k \notin G}
  <1>1. CASE Bad = {}
    BY <1>1
  <1>2. ASSUME Bad # {} PROVE FALSE
    <2>1. Bad \in SUBSET Nat
      OBVIOUS
    <2>2. PICK k \in Bad : \A j \in Bad : k <= j
      <3> HIDE DEF Bad
      <3> QED BY <1>2, <2>1, LeastNatural
    <2>3. k \in 0..n /\ k \notin G /\ k # 0
      BY <2>2
    <2>4. k - 1 \in 0..(n - 1) /\ k - 1 \notin Bad /\ k - 1 \in 0..n /\ (k - 1) + 1 = k
      <3>1. k - 1 \in 0..(n - 1) /\ k - 1 \in 0..n /\ (k - 1) + 1 = k /\ ~(k <= k - 1)
        BY <2>3
      <3> HIDE DEF Bad
      <3> QED BY <2>2, <3>1
    <2>5. k - 1 \in G
      BY <2>4
    <2> QED BY <2>3, <2>4, <2>5
  <1> QED BY <1>1, <1>2

-----------------------------------------------------------------------------
(* Sums *)

LEMMA MaxOfPrefix ==
  ASSUME NEW n \in Nat, NEW t, t \subseteq 1..(n + 1), n + 1 \in t
  PROVE  Max(t) = n + 1
  <1>1. \A y \in t : n + 1 >= y
    OBVIOUS
  <1>2. ASSUME NEW x \in t, \A y \in t : x >= y PROVE x = n + 1
    <2>1. x >= n + 1 /\ n + 1 >= x /\ x \in Int
      BY <1>1, <1>2
    <2> QED BY <2>1
  <1>3. \E x \in t : \A y \in t : x >= y
    BY <1>1
  <1> DEFINE top(x) == \A y \in t : x >= y
  <1>4. Max(t) = CHOOSE x \in t : top(x)
    BY DEF Max
  <1> HIDE DEF top
  <1>5. Max(t) \in t /\ top(Max(t))
    <2>1. \E x \in t : top(x)
      BY <1>3 DEF top
    <2> QED BY <1>4, <2>1
  <1> QED BY <1>2, <1>5 DEF top

\* The running totals of a sequence.
Running(s, p) ==
  /\ p \in [0..Len(s) -> Int] /\ p[0] = 0
  /\ \A k \in 1..Len(s) : p[k] = p[k - 1] + s[k]

LEMMA TotalRuns ==
  ASSUME NEW s \in Seq(Int)
  PROVE  \E p : Running(s, p) /\ Total(s) = p[Len(s)]
  <1> DEFINE N == Len(s)
             step(it, t) == IF t = {} THEN 0 ELSE it[t \ {Max(t)}] + s[Max(t)]
             Fold(n, it) == it = [t \in SUBSET (1..n) |-> step(it, t)]
             G == {n \in 0..N : \E it : Fold(n, it)}
  <1>1. N \in Nat /\ DOMAIN s = 1..N /\ \A k \in 1..N : s[k] \in Int
    BY LenProperties
  <1>2. 0 \in G
    <2>1. SUBSET (1..0) = {{}}
      OBVIOUS
    <2>2. Fold(0, [t \in SUBSET (1..0) |-> 0])
      BY <2>1
    <2> QED BY <1>1, <2>2
  <1>3. ASSUME NEW n \in 0..(N - 1), n \in G PROVE n + 1 \in G
    <2>1. PICK it : Fold(n, it)
      BY <1>3
    <2> DEFINE jt == [t \in SUBSET (1..(n + 1)) |->
                        IF n + 1 \in t THEN it[t \ {n + 1}] + s[n + 1] ELSE it[t]]
    <2>2. \A t : t \subseteq 1..(n + 1) /\ n + 1 \notin t => t \subseteq 1..n
      BY <1>1
    <2>3. ASSUME NEW t \in SUBSET (1..(n + 1)) PROVE jt[t] = step(jt, t)
      <3>1. CASE n + 1 \in t
        <4>1. Max(t) = n + 1
          <5>1. n \in Nat /\ t \subseteq 1..(n + 1)
            BY <1>1
          <5> QED BY <3>1, <5>1, MaxOfPrefix
        <4>2. t \ {n + 1} \in SUBSET (1..(n + 1)) /\ n + 1 \notin t \ {n + 1}
          OBVIOUS
        <4>3. jt[t \ {n + 1}] = it[t \ {n + 1}]
          BY <4>2
        <4>4. jt[t] = it[t \ {n + 1}] + s[n + 1]
          BY <3>1
        <4> HIDE DEF jt
        <4> QED BY <3>1, <4>1, <4>3, <4>4
      <3>2. CASE n + 1 \notin t
        <4>1. t \in SUBSET (1..n) /\ jt[t] = it[t]
          BY <2>2, <3>2
        <4>2. it[t] = step(it, t)
          <5> HIDE DEF step
          <5> QED BY <2>1, <4>1
        <4>3. CASE t = {}
          <5> HIDE DEF jt
          <5> QED BY <4>1, <4>2, <4>3
        <4>4. CASE t # {}
          <5>1. t \ {Max(t)} \in SUBSET (1..(n + 1)) /\ n + 1 \notin t \ {Max(t)}
            BY <3>2
          <5>2. jt[t \ {Max(t)}] = it[t \ {Max(t)}]
            BY <5>1
          <5> HIDE DEF jt
          <5> QED BY <4>1, <4>2, <4>4, <5>2
        <4> QED BY <4>3, <4>4
      <3> QED BY <3>1, <3>2
    <2>4. jt = [t \in SUBSET (1..(n + 1)) |-> step(jt, t)]
      <3>1. jt = [t \in SUBSET (1..(n + 1)) |-> jt[t]]
        OBVIOUS
      <3> HIDE DEF jt, step
      <3> QED BY <2>3, <3>1
    <2>5. n + 1 \in 0..N
      BY <1>1
    <2> HIDE DEF jt, step
    <2> QED BY <2>4, <2>5
  <1>4. \E it : Fold(N, it)
    <2>1. \A n \in 0..N : n \in G
      <3> HIDE DEF G
      <3> QED BY <1>1, <1>2, <1>3, Climb
    <2>2. N \in 0..N
      BY <1>1
    <2> HIDE DEF Fold
    <2> QED BY <2>1, <2>2
  <1> DEFINE it == CHOOSE it : Fold(N, it)
  <1>5. Fold(N, it)
    <2> HIDE DEF Fold
    <2> QED BY <1>4
  <1>6. Total(s) = it[1..N]
    BY <1>1 DEF Total, FoldLeft, MapThenFoldSet
  <1> HIDE DEF it
  <1> DEFINE p == [k \in 0..N |-> it[1..k]]
             H == {k \in 0..N : p[k] \in Int}
  <1>7. p[0] = 0
    <2>1. 1..0 = {} /\ {} \in SUBSET (1..N) /\ 0 \in 0..N
      BY <1>1
    <2> QED BY <1>5, <2>1
  <1>8. ASSUME NEW k \in 1..N PROVE p[k] = p[k - 1] + s[k]
    <2>1. 1..k # {} /\ 1..k \in SUBSET (1..N) /\ k \in 0..N /\ k - 1 \in 0..N
      <3>1. k \in Nat /\ 1 <= k /\ k <= N
        BY <1>1
      <3> HIDE DEF N
      <3>2. k \in 1..k
        BY <3>1
      <3>3. k \in 0..N /\ k - 1 \in 0..N
        BY <1>1, <3>1
      <3>4. 1..k \subseteq 1..N
        BY <1>1, <3>1
      <3> QED BY <3>2, <3>3, <3>4
    <2>2. Max(1..k) = k
      <3>1. k - 1 \in Nat /\ 1..k \subseteq 1..((k - 1) + 1) /\ (k - 1) + 1 \in 1..k /\ (k - 1) + 1 = k
        BY <1>1
      <3> QED BY <3>1, MaxOfPrefix
    <2>3. (1..k) \ {k} = 1..(k - 1)
      BY <1>1
    <2> QED BY <1>5, <2>1, <2>2, <2>3
  <1> HIDE DEF p
  <1>9. \A k \in 0..N : k \in H
    <2>1. 0 \in H
      BY <1>1, <1>7
    <2>2. ASSUME NEW k \in 0..(N - 1), k \in H PROVE k + 1 \in H
      <3>1. k + 1 \in 1..N /\ k + 1 \in 0..N /\ (k + 1) - 1 = k
        BY <1>1
      <3> QED BY <1>1, <1>8, <2>2, <3>1
    <2> HIDE DEF H
    <2> QED BY <1>1, <2>1, <2>2, Climb
  <1>10. p \in [0..N -> Int]
    <2>1. p = [k \in 0..N |-> p[k]]
      BY DEF p
    <2> QED BY <1>9, <2>1
  <1>11. p[N] = it[1..N]
    BY <1>1 DEF p
  <1> QED BY <1>6, <1>7, <1>8, <1>10, <1>11 DEF Running

LEMMA TotalType ==
  ASSUME NEW s \in Seq(Int)
  PROVE  Total(s) \in Int
  <1>1. PICK p : Running(s, p) /\ Total(s) = p[Len(s)]
    BY TotalRuns
  <1>2. Len(s) \in Nat
    BY LenProperties
  <1> QED BY <1>1, <1>2 DEF Running

LEMMA TotalGrows ==
  ASSUME NEW s \in Seq(Int), NEW t \in Seq(Int), Len(s) = Len(t), \A k \in 1..Len(s) : s[k] <= t[k]
  PROVE  Total(s) <= Total(t)
  <1> DEFINE N == Len(s)
  <1>1. PICK p : Running(s, p) /\ Total(s) = p[N]
    BY TotalRuns
  <1>2. PICK q : Running(t, q) /\ Total(t) = q[N]
    BY TotalRuns
  <1> DEFINE G == {k \in 0..N : p[k] <= q[k]}
  <1>3. N \in Nat
    BY LenProperties
  <1>4. 0 \in G
    BY <1>1, <1>2, <1>3 DEF Running
  <1>5. ASSUME NEW k \in 0..(N - 1), k \in G PROVE k + 1 \in G
    <2>1. k + 1 \in 1..N /\ k + 1 \in 0..N /\ (k + 1) - 1 = k /\ k \in 0..N
      BY <1>3
    <2>2. /\ p[k + 1] = p[k] + s[k + 1] /\ p[k] \in Int
          /\ q[k + 1] = q[k] + t[k + 1] /\ q[k] \in Int
      BY <1>1, <1>2, <2>1 DEF Running
    <2>3. s[k + 1] \in Int /\ t[k + 1] \in Int /\ s[k + 1] <= t[k + 1]
      BY <2>1, ElementOfSeq
    <2>4. p[k] <= q[k]
      BY <1>5
    <2> QED BY <2>1, <2>2, <2>3, <2>4
  <1>6. \A k \in 0..N : k \in G
    <2> HIDE DEF G
    <2> QED BY <1>3, <1>4, <1>5, Climb
  <1> QED BY <1>1, <1>2, <1>3, <1>6

\* A sum of members that are all at least lo, or at most hi.
LEMMA TotalAtLeast ==
  ASSUME NEW s \in Seq(Int), NEW lo \in Int, \A k \in 1..Len(s) : lo <= s[k]
  PROVE  Len(s) * lo <= Total(s)
  <1> DEFINE N == Len(s)
  <1>1. PICK p : Running(s, p) /\ Total(s) = p[N]
    BY TotalRuns
  <1> DEFINE G == {k \in 0..N : k * lo <= p[k]}
  <1>2. N \in Nat
    BY LenProperties
  <1>3. 0 \in G
    BY <1>1, <1>2 DEF Running
  <1>4. ASSUME NEW k \in 0..(N - 1), k \in G PROVE k + 1 \in G
    <2>1. k + 1 \in 1..N /\ k + 1 \in 0..N /\ (k + 1) - 1 = k /\ k \in 0..N /\ k \in Int
      BY <1>2
    <2>2. p[k + 1] = p[k] + s[k + 1] /\ p[k] \in Int /\ p[k + 1] \in Int
      BY <1>1, <2>1 DEF Running
    <2>3. s[k + 1] \in Int /\ lo <= s[k + 1]
      BY <2>1, ElementOfSeq
    <2>4. (k + 1) * lo = k * lo + lo /\ k * lo \in Int
      BY <2>1
    <2>5. k * lo <= p[k]
      BY <1>4
    <2>6. (k + 1) * lo <= p[k + 1]
      BY <2>1, <2>2, <2>3, <2>4, <2>5
    <2> QED BY <2>1, <2>6
  <1>5. \A k \in 0..N : k \in G
    <2> HIDE DEF G
    <2> QED BY <1>2, <1>3, <1>4, Climb
  <1> QED BY <1>1, <1>2, <1>5 DEF Running

LEMMA TotalAtMost ==
  ASSUME NEW s \in Seq(Int), NEW hi \in Int, \A k \in 1..Len(s) : s[k] <= hi
  PROVE  Total(s) <= Len(s) * hi
  <1> DEFINE N == Len(s)
  <1>1. PICK p : Running(s, p) /\ Total(s) = p[N]
    BY TotalRuns
  <1> DEFINE G == {k \in 0..N : p[k] <= k * hi}
  <1>2. N \in Nat
    BY LenProperties
  <1>3. 0 \in G
    BY <1>1, <1>2 DEF Running
  <1>4. ASSUME NEW k \in 0..(N - 1), k \in G PROVE k + 1 \in G
    <2>1. k + 1 \in 1..N /\ k + 1 \in 0..N /\ (k + 1) - 1 = k /\ k \in 0..N /\ k \in Int
      BY <1>2
    <2>2. p[k + 1] = p[k] + s[k + 1] /\ p[k] \in Int /\ p[k + 1] \in Int
      BY <1>1, <2>1 DEF Running
    <2>3. s[k + 1] \in Int /\ s[k + 1] <= hi
      BY <2>1, ElementOfSeq
    <2>4. (k + 1) * hi = k * hi + hi /\ k * hi \in Int
      BY <2>1
    <2>5. p[k] <= k * hi
      BY <1>4
    <2>6. p[k + 1] <= (k + 1) * hi
      BY <2>1, <2>2, <2>3, <2>4, <2>5
    <2> QED BY <2>1, <2>6
  <1>5. \A k \in 0..N : k \in G
    <2> HIDE DEF G
    <2> QED BY <1>2, <1>3, <1>4, Climb
  <1> QED BY <1>1, <1>2, <1>5 DEF Running

LEMMA DivisionAtLeast ==
  ASSUME NEW a \in Int, NEW d \in Nat \ {0}, NEW k \in Int, d * k <= a
  PROVE  k <= a \div d
  <1> DEFINE p == a \div d
  <1>1. p \in Int /\ a < d * p + d
    BY DivisionIs
  <1> HIDE DEF p
  <1>2. ASSUME p < k PROVE FALSE
    <2>1. p + 1 \in Int /\ p + 1 <= k
      BY <1>1, <1>2
    <2>2. d * (p + 1) <= d * k
      BY <2>1, ProductGrows
    <2>3. d * (p + 1) = d * p + d
      BY <1>1
    <2>4. d * p \in Int /\ d * k \in Int
      BY <1>1
    <2> QED BY <1>1, <2>2, <2>3, <2>4
  <1>3. k <= p
    BY <1>1, <1>2
  <1> QED BY <1>3 DEF p

\* A mean lies among its members.
LEMMA MeanWithin ==
  ASSUME NEW s \in Seq(Int), s # <<>>, NEW lo \in Int, NEW hi \in Int,
         \A k \in 1..Len(s) : lo <= s[k] /\ s[k] <= hi
  PROVE  Mean(s) \in lo..hi
  <1> DEFINE n == Len(s)
             t == Total(s)
  <1>1. n \in Nat \ {0} /\ t \in Int
    BY EmptySeq, TotalType
  <1>2. n * lo <= t /\ t <= n * hi
    BY TotalAtLeast, TotalAtMost
  <1>3. Mean(s) = t \div n
    BY DEF Mean
  <1> HIDE DEF n, t
  <1>4. lo <= t \div n
    BY <1>1, <1>2, DivisionAtLeast
  <1>5. t \div n \in Int /\ t \div n <= (n * hi) \div n
    <2>1. n * hi \in Int
      BY <1>1
    <2> QED BY <1>1, <1>2, <2>1, DivisionGrows, DivisionIs
  <1>6. (n * hi) \div n = hi
    <2> DEFINE q == (n * hi) \div n
    <2>0. n * hi \in Int
      BY <1>1
    <2>1. q \in Int /\ n * q <= n * hi /\ n * hi < n * q + n
      BY <1>1, <2>0, DivisionIs
    <2> HIDE DEF q
    <2>2. n * hi <= n * hi
      BY <2>0
    <2>3. ASSUME hi < q PROVE FALSE
      <3>1. n * (hi + 1) <= n * q
        BY <1>1, <2>1, <2>3, ProductGrows
      <3>2. n * (hi + 1) = n * hi + n /\ n * q \in Int
        BY <1>1, <2>1
      <3> QED BY <1>1, <2>0, <2>1, <3>1, <3>2
    <2>4. ASSUME q < hi PROVE FALSE
      <3>1. n * (q + 1) <= n * hi
        BY <1>1, <2>1, <2>4, ProductGrows
      <3>2. n * (q + 1) = n * q + n /\ n * q \in Int
        BY <1>1, <2>1
      <3> QED BY <1>1, <2>0, <2>1, <3>1, <3>2
    <2>5. q = hi
      BY <2>1, <2>3, <2>4
    <2> QED BY <2>5 DEF q
  <1> QED BY <1>3, <1>4, <1>5, <1>6

LEMMA MeanType ==
  ASSUME NEW s \in Seq(Int)
  PROVE  Mean(s) \in Int
  <1>1. CASE s = <<>>
    BY <1>1 DEF Mean
  <1>2. CASE s # <<>>
    <2>1. Len(s) \in Nat \ {0} /\ Total(s) \in Int
      BY <1>2, EmptySeq, TotalType
    <2> QED BY <1>2, <2>1, DivisionIs DEF Mean
  <1> QED BY <1>1, <1>2

LEMMA MeanGrows ==
  ASSUME NEW s \in Seq(Int), NEW t \in Seq(Int), Len(s) = Len(t), \A k \in 1..Len(s) : s[k] <= t[k]
  PROVE  Mean(s) <= Mean(t)
  <1>1. s = <<>> <=> t = <<>>
    BY EmptySeq
  <1>2. CASE s = <<>>
    BY <1>1, <1>2 DEF Mean
  <1>3. CASE s # <<>>
    <2>1. Len(s) \in Nat \ {0} /\ Total(s) \in Int /\ Total(t) \in Int /\ Total(s) <= Total(t)
      BY <1>3, EmptySeq, TotalType, TotalGrows
    <2>2. Mean(s) = Total(s) \div Len(s) /\ Mean(t) = Total(t) \div Len(s)
      BY <1>1, <1>3 DEF Mean
    <2> QED BY <2>1, <2>2, DivisionGrows
  <1> QED BY <1>2, <1>3

-----------------------------------------------------------------------------
(* Sequences made of sequences *)

\* The concatenations of the first sequences of q.
Joined(q, p, T) ==
  /\ p \in [1..Len(q) -> Seq(T)]
  /\ \A k \in 1..Len(q) : p[k] = IF k = 1 THEN q[k] ELSE p[k - 1] \o q[k]

LEMMA FlattenJoins ==
  ASSUME NEW T, NEW q \in Seq(Seq(T)), Len(q) # 0
  PROVE  \E p : Joined(q, p, T) /\ FlattenSeq(q) = p[Len(q)]
  <1> DEFINE N == Len(q)
             step(it, i) == IF i = 1 THEN q[i] ELSE it[i - 1] \o q[i]
             Fold(n, it) == it = [i \in 1..n |-> step(it, i)]
             G == {n \in 0..N : \E it : Fold(n, it)}
  <1>1. N \in Nat /\ \A k \in 1..N : q[k] \in Seq(T)
    BY LenProperties, ElementOfSeq
  <1>2. 0 \in G
    <2>1. Fold(0, [i \in 1..0 |-> 0])
      OBVIOUS
    <2> HIDE DEF Fold
    <2> QED BY <1>1, <2>1
  <1>3. ASSUME NEW n \in 0..(N - 1), n \in G PROVE n + 1 \in G
    <2>1. PICK it : Fold(n, it)
      BY <1>3
    <2> DEFINE jt == [i \in 1..(n + 1) |-> IF i = n + 1 THEN step(it, i) ELSE it[i]]
    <2>2. ASSUME NEW i \in 1..(n + 1) PROVE jt[i] = step(jt, i)
      <3>1. i = 1 \/ (i - 1 \in 1..(n + 1) /\ i - 1 # n + 1)
        BY <1>1
      <3>2. i = 1 \/ jt[i - 1] = it[i - 1]
        BY <3>1
      <3>3. step(jt, i) = step(it, i)
        <4> HIDE DEF jt
        <4> QED BY <3>2
      <3>4. CASE i = n + 1
        <4>1. jt[i] = step(it, i)
          <5> HIDE DEF step
          <5> QED BY <3>4
        <4> HIDE DEF jt, step
        <4> QED BY <3>3, <4>1
      <3>5. CASE i # n + 1
        <4>1. i \in 1..n /\ jt[i] = it[i]
          BY <1>1, <3>5
        <4>2. it[i] = step(it, i)
          <5> HIDE DEF step, jt
          <5> QED BY <2>1, <4>1
        <4> HIDE DEF jt, step
        <4> QED BY <3>3, <4>1, <4>2
      <3> QED BY <3>4, <3>5
    <2>3. jt = [i \in 1..(n + 1) |-> jt[i]]
      OBVIOUS
    <2>4. n + 1 \in 0..N
      BY <1>1
    <2>5. Fold(n + 1, jt)
      <3> HIDE DEF jt, step
      <3> QED BY <2>2, <2>3
    <2> HIDE DEF Fold, jt
    <2> QED BY <2>4, <2>5
  <1>4. \E it : Fold(N, it)
    <2>1. \A n \in 0..N : n \in G
      <3> HIDE DEF G
      <3> QED BY <1>1, <1>2, <1>3, Climb
    <2>2. N \in 0..N
      BY <1>1
    <2> HIDE DEF Fold
    <2> QED BY <2>1, <2>2
  <1> DEFINE p == CHOOSE it : Fold(N, it)
  <1>5. Fold(N, p)
    <2> HIDE DEF Fold
    <2> QED BY <1>4
  <1>6. FlattenSeq(q) = p[N]
    BY DEF FlattenSeq
  <1> HIDE DEF p
  <1>7. \A k \in 1..N : p[k] = step(p, k)
    <2> HIDE DEF step
    <2> QED BY <1>5
  <1> DEFINE H == {k \in 0..N : k = 0 \/ p[k] \in Seq(T)}
  <1>8. \A k \in 0..N : k \in H
    <2>1. 0 \in H
      BY <1>1
    <2>2. ASSUME NEW k \in 0..(N - 1), k \in H PROVE k + 1 \in H
      <3>1. k + 1 \in 1..N /\ k + 1 \in 0..N /\ (k + 1) - 1 = k /\ (k = 0 <=> k + 1 = 1)
        BY <1>1
      <3>2. p[k + 1] = IF k = 0 THEN q[k + 1] ELSE p[k] \o q[k + 1]
        BY <1>7, <3>1
      <3>3. k = 0 \/ p[k] \in Seq(T)
        BY <2>2
      <3>4. q[k + 1] \in Seq(T)
        BY <1>1, <3>1
      <3>5. p[k + 1] \in Seq(T)
        BY <3>2, <3>3, <3>4, ConcatProperties
      <3> QED BY <3>1, <3>5
    <2> HIDE DEF H
    <2> QED BY <1>1, <2>1, <2>2, Climb
  <1>9. p \in [1..N -> Seq(T)]
    <2>1. \A k \in 1..N : k \in 0..N /\ k # 0
      BY <1>1
    <2>2. \A k \in 1..N : p[k] \in Seq(T)
      BY <1>8, <2>1
    <2>3. p = [k \in 1..N |-> p[k]]
      <3> HIDE DEF step
      <3> QED BY <1>5
    <2> QED BY <2>2, <2>3
  <1> QED BY <1>6, <1>7, <1>9 DEF Joined

LEMMA FlattenType ==
  ASSUME NEW T, NEW q \in Seq(Seq(T))
  PROVE  FlattenSeq(q) \in Seq(T)
  <1>1. CASE Len(q) = 0
    <2>1. q = <<>> /\ FlattenSeq(q) = q
      BY <1>1, EmptySeq DEF FlattenSeq
    <2> QED BY <2>1, EmptySeq
  <1>2. CASE Len(q) # 0
    <2>1. PICK p : Joined(q, p, T) /\ FlattenSeq(q) = p[Len(q)]
      BY <1>2, FlattenJoins
    <2>2. Len(q) \in 1..Len(q)
      BY <1>2, LenProperties
    <2> QED BY <2>1, <2>2 DEF Joined
  <1> QED BY <1>1, <1>2

\* Place by place no number of s is above that of t.
Under(s, t) == Len(s) = Len(t) /\ \A k \in 1..Len(s) : s[k] <= t[k]

LEMMA UnderJoins ==
  ASSUME NEW s \in Seq(Int), NEW t \in Seq(Int), NEW u \in Seq(Int), NEW v \in Seq(Int),
         Under(s, t), Under(u, v)
  PROVE  Under(s \o u, t \o v)
  <1>1. /\ Len(s) \in Nat /\ Len(u) \in Nat /\ Len(s) = Len(t) /\ Len(u) = Len(v)
        /\ Len(s \o u) = Len(s) + Len(u) /\ Len(t \o v) = Len(s) + Len(u)
    <2>1. Len(s) \in Nat /\ Len(u) \in Nat /\ Len(s) = Len(t) /\ Len(u) = Len(v)
      BY LenProperties DEF Under
    <2>2. Len(s \o u) = Len(s) + Len(u)
      BY ConcatProperties
    <2>3. Len(t \o v) = Len(t) + Len(v)
      BY ConcatProperties
    <2> QED BY <2>1, <2>2, <2>3
  <1>2. ASSUME NEW k \in 1..Len(s \o u) PROVE (s \o u)[k] <= (t \o v)[k]
    <2>1. k \in 1..(Len(s) + Len(u)) /\ k \in 1..(Len(t) + Len(v))
      BY <1>1
    <2>2. (s \o u)[k] = IF k <= Len(s) THEN s[k] ELSE u[k - Len(s)]
      BY <2>1, ConcatProperties
    <2>3. (t \o v)[k] = IF k <= Len(s) THEN t[k] ELSE v[k - Len(s)]
      BY <1>1, <2>1, ConcatProperties
    <2>4. CASE k <= Len(s)
      <3>1. k \in 1..Len(s)
        BY <1>1, <2>1, <2>4
      <3> QED BY <2>2, <2>3, <2>4, <3>1 DEF Under
    <2>5. CASE ~(k <= Len(s))
      <3>1. k - Len(s) \in 1..Len(u)
        BY <1>1, <2>1, <2>5
      <3> QED BY <2>2, <2>3, <2>5, <3>1 DEF Under
    <2> QED BY <2>4, <2>5
  <1> QED BY <1>1, <1>2 DEF Under

LEMMA FlattenUnder ==
  ASSUME NEW q \in Seq(Seq(Int)), NEW r \in Seq(Seq(Int)), Len(q) = Len(r),
         \A i \in 1..Len(q) : Under(q[i], r[i])
  PROVE  Under(FlattenSeq(q), FlattenSeq(r))
  <1> DEFINE N == Len(q)
  <1>1. N \in Nat /\ \A k \in 1..N : q[k] \in Seq(Int) /\ r[k] \in Seq(Int)
    BY LenProperties, ElementOfSeq
  <1>2. CASE N = 0
    <2>1. FlattenSeq(q) = <<>> /\ FlattenSeq(r) = <<>>
      BY <1>2, EmptySeq DEF FlattenSeq
    <2> QED BY <2>1 DEF Under
  <1>3. CASE N # 0
    <2>1. PICK p : Joined(q, p, Int) /\ FlattenSeq(q) = p[N]
      BY <1>3, FlattenJoins
    <2>2. PICK o : Joined(r, o, Int) /\ FlattenSeq(r) = o[N]
      BY <1>3, FlattenJoins
    <2> DEFINE G == {k \in 0..N : k = 0 \/ Under(p[k], o[k])}
    <2>3. 0 \in G
      BY <1>1
    <2>4. ASSUME NEW k \in 0..(N - 1), k \in G PROVE k + 1 \in G
      <3>1. k + 1 \in 1..N /\ k + 1 \in 0..N /\ (k + 1) - 1 = k /\ (k = 0 <=> k + 1 = 1) /\ (k # 0 => k \in 1..N)
        BY <1>1
      <3>2. /\ p[k + 1] = IF k = 0 THEN q[k + 1] ELSE p[k] \o q[k + 1]
            /\ o[k + 1] = IF k = 0 THEN r[k + 1] ELSE o[k] \o r[k + 1]
        BY <2>1, <2>2, <3>1 DEF Joined
      <3>3. k = 0 \/ Under(p[k], o[k])
        BY <2>4
      <3>4. k # 0 => p[k] \in Seq(Int) /\ o[k] \in Seq(Int)
        BY <2>1, <2>2, <3>1 DEF Joined
      <3>5. Under(p[k + 1], o[k + 1])
        BY <1>1, <3>1, <3>2, <3>3, <3>4, UnderJoins
      <3> QED BY <3>1, <3>5
    <2>5. \A k \in 0..N : k \in G
      <3> HIDE DEF G
      <3> QED BY <1>1, <2>3, <2>4, Climb
    <2> QED BY <1>1, <1>3, <2>1, <2>2, <2>5
  <1> QED BY <1>2, <1>3

LEMMA PositiveType ==
  ASSUME NEW s \in Seq(Nat)
  PROVE  Positive(s) \in Seq(Nat)
  <1> DEFINE q == [i \in 1..Len(s) |-> IF s[i] > 0 THEN <<s[i]>> ELSE <<>>]
  <1>1. Len(s) \in Nat
    BY LenProperties
  <1>2. ASSUME NEW i \in 1..Len(s) PROVE q[i] \in Seq(Nat)
    <2>1. s[i] \in Nat
      BY ElementOfSeq
    <2> QED BY <2>1
  <1>3. q \in Seq(Seq(Nat))
    BY <1>1, <1>2
  <1> QED BY <1>3, FlattenType DEF Positive

-----------------------------------------------------------------------------
(* Order *)

LEMMA BoundExists ==
  ASSUME NEW s \in Seq(Nat)
  PROVE  \E m \in Nat : \A i \in 1..Len(s) : s[i] <= m
  <1> DEFINE N == Len(s)
             G == {n \in 0..N : \E m \in Nat : \A i \in 1..n : s[i] <= m}
  <1>1. N \in Nat /\ \A i \in 1..N : s[i] \in Nat
    BY LenProperties, ElementOfSeq
  <1>2. 0 \in G
    BY <1>1
  <1>3. ASSUME NEW n \in 0..(N - 1), n \in G PROVE n + 1 \in G
    <2>1. n + 1 \in 0..N /\ n + 1 \in 1..N /\ s[n + 1] \in Nat
      BY <1>1
    <2>2. PICK m \in Nat : \A i \in 1..n : s[i] <= m
      BY <1>3
    <2>3. \A i \in 1..(n + 1) : i = n + 1 \/ i \in 1..n
      BY <1>1
    <2>4. CASE m <= s[n + 1]
      <3>1. ASSUME NEW i \in 1..(n + 1) PROVE s[i] <= s[n + 1]
        <4>1. i \in 1..N
          BY <1>1
        <4> QED BY <1>1, <2>1, <2>2, <2>3, <2>4, <4>1
      <3> QED BY <2>1, <3>1
    <2>5. CASE ~(m <= s[n + 1])
      <3>1. \A i \in 1..(n + 1) : s[i] <= m
        BY <2>1, <2>2, <2>3, <2>5
      <3> QED BY <2>1, <3>1
    <2> QED BY <2>4, <2>5
  <1>4. \A n \in 0..N : n \in G
    <2> HIDE DEF G
    <2> QED BY <1>1, <1>2, <1>3, Climb
  <1>5. N \in 0..N
    BY <1>1
  <1>6. \E m \in Nat : \A i \in 1..N : s[i] <= m
    <2> HIDE DEF N
    <2> QED BY <1>4, <1>5
  <1> QED BY <1>6

LEMMA PlacesAreFinite ==
  ASSUME NEW n \in Nat, NEW S, S \subseteq 1..n
  PROVE  IsFiniteSet(S) /\ Cardinality(S) \in Nat /\ Cardinality(S) <= n
  <1>1. IsFiniteSet(1..n) /\ Cardinality(1..n) = n
    BY FS_Interval
  <1> QED BY <1>1, FS_Subset, FS_CardinalityType

\* The k-th of s: less than k are below it, and k are not above.
Kth(s, k, v) ==
  /\ v \in ToSet(s)
  /\ Cardinality({i \in 1..Len(s) : s[i] < v}) < k
  /\ Cardinality({i \in 1..Len(s) : s[i] <= v}) >= k

LEMMA KthExists ==
  ASSUME NEW s \in Seq(Nat), NEW k \in 1..Len(s)
  PROVE  \E v : Kth(s, k, v)
  <1> DEFINE N == Len(s)
             below(v) == {i \in 1..N : s[i] < v}
             upto(v) == {i \in 1..N : s[i] <= v}
             V == {v \in Nat : Cardinality(upto(v)) >= k}
  <1>1. N \in Nat /\ k \in Nat /\ k <= N /\ k > 0 /\ \A i \in 1..N : s[i] \in Nat
    BY LenProperties, ElementOfSeq
  <1>2. \A v : /\ Cardinality(below(v)) \in Nat /\ Cardinality(upto(v)) \in Nat
               /\ IsFiniteSet(below(v)) /\ IsFiniteSet(upto(v))
    <2> SUFFICES ASSUME NEW v
                 PROVE  /\ Cardinality(below(v)) \in Nat /\ Cardinality(upto(v)) \in Nat
                        /\ IsFiniteSet(below(v)) /\ IsFiniteSet(upto(v))
      OBVIOUS
    <2>1. below(v) \subseteq 1..N /\ upto(v) \subseteq 1..N
      OBVIOUS
    <2> HIDE DEF below, upto, N
    <2> QED BY <1>1, <2>1, PlacesAreFinite
  <1>3. V # {}
    <2>1. PICK m \in Nat : \A i \in 1..N : s[i] <= m
      BY BoundExists
    <2>2. upto(m) = 1..N
      BY <2>1
    <2>3. Cardinality(1..N) = N
      <3> HIDE DEF N
      <3>1. 1 \in Int /\ N \in Int
        BY <1>1
      <3>2. Cardinality(1..N) = IF 1 > N THEN 0 ELSE N - 1 + 1
        BY <3>1, FS_Interval
      <3> QED BY <1>1, <3>2
    <2> HIDE DEF upto
    <2>4. m \in V
      BY <1>1, <2>2, <2>3
    <2> QED BY <2>4
  <1>4. PICK v \in V : \A o \in V : v <= o
    <2>1. V \in SUBSET Nat
      OBVIOUS
    <2> HIDE DEF V
    <2> QED BY <1>3, <2>1, LeastNatural
  <1>5. v \in Nat /\ Cardinality(upto(v)) >= k
    <2> HIDE DEF upto
    <2> QED BY <1>4
  <1>6. Cardinality(below(v)) < k
    <2>1. CASE v = 0
      <3>1. below(v) = {}
        BY <1>1, <2>1
      <3>2. Cardinality({}) = 0
        BY FS_EmptySet
      <3> HIDE DEF below
      <3> QED BY <1>1, <3>1, <3>2
    <2>2. CASE v # 0
      <3>1. v - 1 \in Nat /\ ~(v <= v - 1)
        BY <1>5, <2>2
      <3>2. v - 1 \notin V
        <4> HIDE DEF V
        <4> QED BY <1>4, <3>1
      <3>3. below(v) = upto(v - 1)
        BY <1>1, <1>5, <3>1
      <3> HIDE DEF below, upto
      <3> QED BY <1>1, <1>2, <3>1, <3>2, <3>3
    <2> QED BY <2>1, <2>2
  <1>7. \E i \in 1..N : s[i] = v
    <2> SUFFICES ASSUME \A i \in 1..N : s[i] # v PROVE FALSE
      OBVIOUS
    <2>1. below(v) = upto(v)
      BY <1>1, <1>5
    <2> HIDE DEF below, upto
    <2> QED BY <1>1, <1>2, <1>5, <1>6, <2>1
  <1>8. v \in ToSet(s)
    <2>1. DOMAIN s = 1..N
      BY LenProperties
    <2> QED BY <1>7, <2>1 DEF ToSet
  <1> QED BY <1>5, <1>6, <1>8 DEF Kth

LEMMA SortedIsKth ==
  ASSUME NEW s \in Seq(Nat), NEW k \in 1..Len(s)
  PROVE  Kth(s, k, Sorted(s)[k]) /\ Sorted(s)[k] \in Nat
  <1> DEFINE fits(v) == /\ Cardinality({i \in 1..Len(s) : s[i] < v}) < k
                        /\ Cardinality({i \in 1..Len(s) : s[i] <= v}) >= k
  <1>1. Sorted(s)[k] = CHOOSE v \in ToSet(s) : fits(v)
    BY DEF Sorted
  <1>2. \E v \in ToSet(s) : fits(v)
    BY KthExists DEF Kth
  <1>3. Sorted(s)[k] \in ToSet(s) /\ fits(Sorted(s)[k])
    <2> HIDE DEF fits
    <2> QED BY <1>1, <1>2
  <1>4. ToSet(s) \subseteq Nat
    BY LenProperties, ElementOfSeq DEF ToSet
  <1> QED BY <1>3, <1>4 DEF Kth

LEMMA SortedIs ==
  ASSUME NEW s \in Seq(Nat)
  PROVE  /\ Sorted(s) \in Seq(Nat) /\ Len(Sorted(s)) = Len(s)
         /\ \A k, l \in 1..Len(s) : k <= l => Sorted(s)[k] <= Sorted(s)[l]
  <1> DEFINE N == Len(s)
             t == Sorted(s)
  <1>1. N \in Nat
    BY LenProperties
  <1>2. \A k \in 1..N : t[k] \in Nat /\ Kth(s, k, t[k])
    BY SortedIsKth
  <1>3. t = [k \in 1..N |-> t[k]]
    <2> DEFINE kth(k) == CHOOSE v \in ToSet(s) : /\ Cardinality({i \in 1..Len(s) : s[i] < v}) < k
                                                 /\ Cardinality({i \in 1..Len(s) : s[i] <= v}) >= k
    <2>1. t = [k \in 1..N |-> kth(k)]
      BY DEF Sorted
    <2> HIDE DEF kth, t, N
    <2> QED BY <2>1
  <1> HIDE DEF t
  <1>4. t \in Seq(Nat) /\ Len(t) = N
    <2>1. t \in [1..N -> Nat]
      BY <1>2, <1>3
    <2> HIDE DEF N
    <2> QED BY <1>1, <2>1
  <1>5. ASSUME NEW k \in 1..N, NEW l \in 1..N, k <= l, ~(t[k] <= t[l]) PROVE FALSE
    <2> DEFINE below == {i \in 1..N : s[i] < t[k]}
               upto == {i \in 1..N : s[i] <= t[l]}
    <2>1. t[l] < t[k] /\ t[k] \in Nat /\ t[l] \in Nat
      BY <1>2, <1>5
    <2>2. \A i \in 1..N : s[i] \in Nat
      BY ElementOfSeq
    <2>3. upto \subseteq below /\ below \subseteq 1..N
      BY <2>1, <2>2
    <2>4. Cardinality(below) < k /\ Cardinality(upto) >= l
      BY <1>2 DEF Kth
    <2> HIDE DEF below, upto
    <2>5. IsFiniteSet(below) /\ Cardinality(below) \in Nat
      BY <1>1, <2>3, PlacesAreFinite
    <2>6. Cardinality(upto) <= Cardinality(below) /\ Cardinality(upto) \in Nat
      BY <2>3, <2>5, FS_Subset, FS_CardinalityType
    <2>7. k \in Nat /\ l \in Nat
      BY <1>1
    <2> QED BY <1>5, <2>4, <2>5, <2>6, <2>7
  <1> QED BY <1>4, <1>5 DEF t

LEMMA MedianType ==
  ASSUME NEW s \in Seq(Nat)
  PROVE  Median(s) \in Nat
  <1> DEFINE t == Sorted(s)
             n == Len(t)
  <1>1. t \in Seq(Nat) /\ n \in Nat /\ \A k \in 1..n : t[k] \in Nat
    BY SortedIs, LenProperties, ElementOfSeq
  <1>2. Median(s) = IF n = 0 THEN 0
                    ELSE IF n % 2 = 1 THEN t[n \div 2 + 1]
                    ELSE (t[n \div 2] + t[n \div 2 + 1]) \div 2
    BY DEF Median
  <1> HIDE DEF n, t
  <1>3. CASE n = 0
    BY <1>2, <1>3
  <1>4. CASE n # 0 /\ n % 2 = 1
    <2>1. n \div 2 + 1 \in 1..n
      BY <1>1, <1>4
    <2> QED BY <1>1, <1>2, <1>4, <2>1
  <1>5. CASE n # 0 /\ n % 2 # 1
    <2>1. n \div 2 + 1 \in 1..n /\ n \div 2 \in 1..n
      BY <1>1, <1>5
    <2>2. t[n \div 2] \in Nat /\ t[n \div 2 + 1] \in Nat
      BY <1>1, <2>1
    <2> QED BY <1>1, <1>2, <1>5, <2>2
  <1> QED BY <1>3, <1>4, <1>5

\* The readings of a finite set have places.
LEMMA InTimeType ==
  ASSUME NEW P, P \subseteq Reading, IsFiniteSet(P), NEW k \in 1..Cardinality(P)
  PROVE  InTime(P)[k] \in P
  <1> DEFINE n == Cardinality(P)
             earlier(p) == {q \in P : Before(q, p)}
             f == [p \in P |-> Cardinality(earlier(p))]
  <1>1. n \in Nat
    BY FS_CardinalityType
  <1>2. ASSUME NEW p \in P PROVE IsFiniteSet(earlier(p)) /\ Cardinality(earlier(p)) \in 0..(n - 1)
    <2>1. p \in Reading
      OBVIOUS
    <2>2. ~Before(p, p)
      BY <2>1 DEF Before, Reading
    <2>3. earlier(p) \subseteq P \ {p}
      BY <2>2
    <2>4. IsFiniteSet(P \ {p}) /\ Cardinality(P \ {p}) = n - 1
      BY FS_RemoveElement
    <2> HIDE DEF earlier, n
    <2>5. IsFiniteSet(earlier(p)) /\ Cardinality(earlier(p)) <= n - 1 /\ Cardinality(earlier(p)) \in Nat
      BY <2>3, <2>4, FS_Subset, FS_CardinalityType
    <2> QED BY <1>1, <2>5
  <1>3. ASSUME NEW p \in P, NEW q \in P, Before(p, q) PROVE f[p] # f[q]
    <2>1. p \in Reading /\ q \in Reading
      OBVIOUS
    <2>2. ASSUME NEW o \in P, Before(o, p) PROVE Before(o, q)
      <3>1. o \in Reading
        OBVIOUS
      <3> QED BY <1>3, <2>1, <2>2, <3>1 DEF Before, Reading
    <2>3. ~Before(p, p)
      BY <2>1 DEF Before, Reading
    <2>4. earlier(p) \subseteq earlier(q) /\ p \in earlier(q) /\ p \notin earlier(p)
      BY <1>3, <2>2, <2>3
    <2>5. f[p] = Cardinality(earlier(p)) /\ f[q] = Cardinality(earlier(q))
      OBVIOUS
    <2> HIDE DEF earlier, f
    <2> QED BY <1>2, <2>4, <2>5, FS_Subset
  <1>4. ASSUME NEW p \in P, NEW q \in P, f[p] = f[q] PROVE p = q
    <2>1. p \in Reading /\ q \in Reading
      OBVIOUS
    <2>2. p = q \/ Before(p, q) \/ Before(q, p)
      <3>1. /\ p = [at |-> p.at, v |-> p.v] /\ p.at \in Nat /\ p.v \in Nat
            /\ q = [at |-> q.at, v |-> q.v] /\ q.at \in Nat /\ q.v \in Nat
        BY <2>1 DEF Reading
      <3>2. p.at = q.at /\ p.v = q.v => p = q
        BY <3>1
      <3> QED BY <3>1, <3>2 DEF Before
    <2> HIDE DEF f
    <2> QED BY <1>3, <1>4, <2>2
  <1>5. f \in Injection(P, 0..(n - 1))
    <2>1. f \in [P -> 0..(n - 1)]
      BY <1>2
    <2> HIDE DEF f
    <2> QED BY <1>4, <2>1 DEF Injection, IsInjective
  <1>6. f \in Surjection(P, 0..(n - 1))
    <2>1. IsFiniteSet(0..(n - 1)) /\ Cardinality(0..(n - 1)) = n
      <3> HIDE DEF n
      <3>1. 0 \in Int /\ n - 1 \in Int
        BY <1>1
      <3>2. IsFiniteSet(0..(n - 1)) /\ Cardinality(0..(n - 1)) = IF 0 > n - 1 THEN 0 ELSE (n - 1) - 0 + 1
        BY <3>1, FS_Interval
      <3> QED BY <1>1, <3>2
    <2> HIDE DEF f
    <2> QED BY <1>5, <2>1, FS_Injection
  <1>7. \E p \in P : f[p] = k - 1
    <2>1. k - 1 \in 0..(n - 1)
      BY <1>1
    <2> HIDE DEF f, n
    <2> QED BY <1>6, <2>1 DEF Surjection
  <1>8. \E p \in P : Cardinality(earlier(p)) = k - 1
    <2> HIDE DEF earlier
    <2> QED BY <1>7
  <1>9. InTime(P)[k] = CHOOSE p \in P : Cardinality(earlier(p)) = k - 1
    BY DEF InTime
  <1> HIDE DEF earlier
  <1> QED BY <1>8, <1>9

LEMMA SetToSeqType ==
  ASSUME NEW S, IsFiniteSet(S)
  PROVE  SetToSeq(S) \in [1..Cardinality(S) -> S]
  <1>1. \E f \in [1..Cardinality(S) -> S] : IsInjective(f)
    BY FS_CardinalityType DEF ExistsBijection, Bijection, Injection
  <1> QED BY <1>1 DEF SetToSeq

\* A square is no less than nothing, and the deviation is cut at cap.
LEMMA SquareIsNatural ==
  ASSUME NEW x \in Int
  PROVE  x * x \in Nat
  <1>1. CASE x >= 0
    <2>1. x \in Nat /\ 0 \in Int /\ 0 <= x
      BY <1>1
    <2>2. x * 0 <= x * x
      BY <2>1, ProductGrows
    <2> QED BY <2>2
  <1>2. CASE ~(x >= 0)
    <2>1. -x \in Nat /\ 0 <= -x
      BY <1>2
    <2>2. (-x) * 0 <= (-x) * (-x)
      BY <2>1, ProductGrows
    <2>3. (-x) * (-x) = x * x /\ (-x) * 0 = 0 /\ x * x \in Int
      OBVIOUS
    <2> QED BY <2>2, <2>3
  <1> QED BY <1>1, <1>2

LEMMA DeviationIs ==
  ASSUME NEW s \in Seq(Int), Len(s) # 0, NEW cap \in Nat
  PROVE  Deviation(s, cap) \in 0..cap
  <1> DEFINE n == Len(s)
             m == Mean(s)
             off == [i \in 1..n |-> (s[i] - m) * (s[i] - m)]
             squares == Total(off)
             sq(r) == r * r * n
             fits(r) == /\ sq(r) <= squares
                        /\ r = cap \/ sq(r + 1) > squares
             S == {r \in Nat : r = cap \/ sq(r + 1) > squares}
  <1>1. n \in Nat \ {0} /\ m \in Int /\ \A i \in 1..n : s[i] \in Int
    BY LenProperties, ElementOfSeq, MeanType
  <1>2. \A i \in 1..n : off[i] \in Nat
    <2> SUFFICES ASSUME NEW i \in 1..n PROVE off[i] \in Nat
      OBVIOUS
    <2>1. s[i] - m \in Int
      BY <1>1
    <2>2. (s[i] - m) * (s[i] - m) \in Nat
      BY <2>1, SquareIsNatural
    <2> QED BY <2>2
  <1>3. off \in Seq(Int) /\ Len(off) = n
    <2>1. off \in [1..n -> Int]
      <3>1. off = [i \in 1..n |-> off[i]]
        OBVIOUS
      <3> HIDE DEF off
      <3> QED BY <1>2, <3>1
    <2> HIDE DEF off, n
    <2> QED BY <1>1, <2>1
  <1>4. squares \in Int /\ 0 <= squares
    <2> HIDE DEF off
    <2>1. \A i \in 1..Len(off) : 0 <= off[i]
      BY <1>2, <1>3
    <2>2. Len(off) * 0 <= Total(off) /\ Total(off) \in Int
      BY <1>3, <2>1, TotalAtLeast, TotalType
    <2>3. Len(off) * 0 = 0
      BY <1>1, <1>3
    <2> QED BY <2>2, <2>3
  <1>5. Deviation(s, cap) = CHOOSE r \in 0..cap : fits(r)
    BY DEF Deviation
  <1>6. sq(0) = 0 /\ \A r \in Nat : sq(r) \in Int
    BY <1>1
  <1> HIDE DEF squares, sq
  <1>7. PICK r \in S : \A o \in S : r <= o
    <2>1. S \in SUBSET Nat /\ cap \in S
      OBVIOUS
    <2> HIDE DEF S
    <2> QED BY <2>1, LeastNatural
  <1>8. r \in 0..cap
    <2>1. cap \in S /\ r \in Nat
      OBVIOUS
    <2> HIDE DEF S
    <2> QED BY <1>7, <2>1
  <1>9. sq(r) <= squares
    <2>1. CASE r = 0
      BY <1>4, <1>6, <2>1
    <2>2. CASE r # 0
      <3>1. r - 1 \in Nat /\ ~(r <= r - 1) /\ (r - 1) + 1 = r
        BY <1>8, <2>2
      <3>2. r - 1 \notin S
        <4> HIDE DEF S
        <4> QED BY <1>7, <3>1
      <3>3. ~(sq((r - 1) + 1) > squares)
        BY <3>1, <3>2
      <3>4. ~(sq(r) > squares)
        BY <3>1, <3>3
      <3> QED BY <1>4, <1>6, <3>1, <3>4
    <2> QED BY <2>1, <2>2
  <1>10. fits(r)
    BY <1>7, <1>9
  <1> HIDE DEF fits
  <1> QED BY <1>5, <1>8, <1>10

-----------------------------------------------------------------------------
(* Bands *)

LEMMA BandOfFive ==
  ASSUME NEW f \in [1..5 -> Nat], f[1] <= f[2], f[2] <= f[3], f[3] <= f[4], f[4] <= f[5]
  PROVE  Ascending(f)
  <1>1. f \in Seq(Nat) /\ Len(f) = 5
    <2> DEFINE n == 5
    <2>1. f \in [1..n -> Nat] /\ n \in Nat
      OBVIOUS
    <2> HIDE DEF n
    <2>2. f \in Seq(Nat) /\ Len(f) = n
      BY <2>1
    <2> QED BY <2>2 DEF n
  <1>2. f[1] \in Nat /\ f[2] \in Nat /\ f[3] \in Nat /\ f[4] \in Nat /\ f[5] \in Nat
    OBVIOUS
  <1>3. \A i \in 1..5 : i = 1 \/ i = 2 \/ i = 3 \/ i = 4 \/ i = 5
    OBVIOUS
  <1>4. \A i, j \in 1..5 : i <= j => f[i] <= f[j]
    BY <1>2, <1>3
  <1> QED BY <1>1, <1>4 DEF Ascending

LEMMA BootstrapBandsAscend ==
  ASSUME NEW tier \in {"nano", "micro", "mid", "macro", "mega"}
  PROVE  Ascending(BootstrapBand(tier))
  <1>1. BootstrapBand(tier) \in [1..5 -> Nat]
    BY DEF BootstrapBand
  <1>2. \A i \in 1..4 : BootstrapBand(tier)[i] <= BootstrapBand(tier)[i + 1]
    BY DEF BootstrapBand
  <1> HIDE DEF BootstrapBand
  <1>3. /\ BootstrapBand(tier)[1] <= BootstrapBand(tier)[1 + 1]
        /\ BootstrapBand(tier)[2] <= BootstrapBand(tier)[2 + 1]
        /\ BootstrapBand(tier)[3] <= BootstrapBand(tier)[3 + 1]
        /\ BootstrapBand(tier)[4] <= BootstrapBand(tier)[4 + 1]
    BY <1>2
  <1> QED BY <1>1, <1>3, BandOfFive

\* Percentiles of an ascending sequence ascend.
Ordered(s) == \A k, l \in 1..Len(s) : k <= l => s[k] <= s[l]

LEMMA PercentileIs ==
  ASSUME NEW s \in Seq(Nat), Len(s) # 0, Ordered(s), NEW q \in 0..100
  PROVE  \E lo \in 0..(Len(s) - 1), w \in 0..99 :
           /\ q * (Len(s) - 1) = 100 * lo + w
           /\ lo >= Len(s) - 1 => PercentileCont(s, q) = s[Len(s)]
           /\ lo < Len(s) - 1 =>
                /\ PercentileCont(s, q) = s[lo + 1] + (w * (s[lo + 2] - s[lo + 1])) \div 100
                /\ (w * (s[lo + 2] - s[lo + 1])) \div 100 \in 0..(s[lo + 2] - s[lo + 1])
  <1> DEFINE n == Len(s)
             rank == q * (n - 1)
             lo == rank \div 100
             w == rank % 100
  <1>1. n \in Nat \ {0} /\ \A i \in 1..n : s[i] \in Nat
    BY LenProperties, ElementOfSeq
  <1>2. rank \in Nat /\ rank <= 100 * (n - 1)
    <2> HIDE DEF n
    <2>1. n - 1 \in Nat /\ q \in Int /\ q <= 100 /\ 0 <= q
      BY <1>1
    <2>2. (n - 1) * q <= (n - 1) * 100 /\ (n - 1) * 0 <= (n - 1) * q
      BY <2>1, ProductGrows
    <2>3. (n - 1) * q = q * (n - 1) /\ (n - 1) * 100 = 100 * (n - 1) /\ (n - 1) * 0 = 0 /\ q * (n - 1) \in Int
      BY <2>1
    <2> QED BY <2>1, <2>2, <2>3
  <1>3. lo \in 0..(n - 1)
    <2> HIDE DEF rank, n
    <2>1. n - 1 \in Nat /\ 100 \in Nat \ {0}
      BY <1>1
    <2> QED BY <1>2, <2>1, DivisionWithin
  <1>4. w \in 0..99 /\ rank = 100 * lo + w
    <2> HIDE DEF rank
    <2> QED BY <1>2
  <1>5. PercentileCont(s, q) = IF lo >= n - 1 THEN s[n]
                               ELSE s[lo + 1] + (w * (s[lo + 2] - s[lo + 1])) \div 100
    BY DEF PercentileCont
  <1> HIDE DEF lo, w, rank
  <1>6. ASSUME lo < n - 1 PROVE (w * (s[lo + 2] - s[lo + 1])) \div 100 \in 0..(s[lo + 2] - s[lo + 1])
    <2>1. lo + 1 \in 1..n /\ lo + 2 \in 1..n
      BY <1>1, <1>3, <1>6
    <2> DEFINE d == s[lo + 2] - s[lo + 1]
    <2>2. s[lo + 1] <= s[lo + 2]
      BY <1>3, <2>1 DEF Ordered
    <2>3. d \in Nat
      BY <1>1, <2>1, <2>2
    <2> HIDE DEF d
    <2>4. d * w <= d * 100 /\ d * 0 <= d * w
      BY <1>4, <2>3, ProductGrows
    <2>5. w * d = d * w /\ d * 100 = 100 * d /\ d * 0 = 0 /\ d * w \in Int
      BY <1>4, <2>3
    <2>6. w * d \in Nat /\ w * d <= 100 * d
      BY <2>4, <2>5, <1>4, <2>3
    <2>7. (w * d) \div 100 \in 0..d
      BY <2>3, <2>6, DivisionWithin
    <2> QED BY <2>7 DEF d
  <1>7. lo >= n - 1 \/ lo < n - 1
    BY <1>1, <1>3
  <1>8. q * (Len(s) - 1) = 100 * lo + w
    BY <1>4 DEF rank
  <1>9. lo < n - 1 => ~(lo >= n - 1)
    BY <1>1, <1>3
  <1> QED BY <1>3, <1>4, <1>5, <1>6, <1>7, <1>8, <1>9

LEMMA PercentileContGrows ==
  ASSUME NEW s \in Seq(Nat), Len(s) # 0, Ordered(s), NEW p \in 0..100, NEW q \in 0..100, p <= q
  PROVE  /\ PercentileCont(s, p) \in Nat /\ PercentileCont(s, q) \in Nat
         /\ PercentileCont(s, p) <= PercentileCont(s, q)
  <1> DEFINE n == Len(s)
             P == PercentileCont(s, p)
             Q == PercentileCont(s, q)
             rise(l, w) == (w * (s[l + 2] - s[l + 1])) \div 100
  <1>1. n \in Nat \ {0} /\ \A i \in 1..n : s[i] \in Nat
    BY LenProperties, ElementOfSeq
  <1>2. PICK l \in 0..(n - 1), w \in 0..99 :
          /\ p * (n - 1) = 100 * l + w
          /\ l >= n - 1 => P = s[n]
          /\ l < n - 1 => P = s[l + 1] + rise(l, w) /\ rise(l, w) \in 0..(s[l + 2] - s[l + 1])
    BY PercentileIs
  <1>3. PICK m \in 0..(n - 1), v \in 0..99 :
          /\ q * (n - 1) = 100 * m + v
          /\ m >= n - 1 => Q = s[n]
          /\ m < n - 1 => Q = s[m + 1] + rise(m, v) /\ rise(m, v) \in 0..(s[m + 2] - s[m + 1])
    BY PercentileIs
  <1> HIDE DEF P, Q, n
  <1>4. 100 * l + w <= 100 * m + v
    <2>1. n - 1 \in Nat /\ p \in Int /\ q \in Int
      BY <1>1
    <2>2. (n - 1) * p <= (n - 1) * q
      BY <2>1, ProductGrows
    <2>3. (n - 1) * p = p * (n - 1) /\ (n - 1) * q = q * (n - 1)
      BY <2>1
    <2> QED BY <1>2, <1>3, <2>2, <2>3
  <1>5. l < m \/ (l = m /\ w <= v)
    BY <1>1, <1>4
  <1>6. n \in 1..n /\ \A i \in 1..n : s[i] <= s[n]
    BY <1>1 DEF Ordered, n
  <1>7. ASSUME NEW k \in 0..(n - 1), k < n - 1
        PROVE  k + 1 \in 1..n /\ k + 2 \in 1..n /\ s[k + 1] \in Nat /\ s[k + 2] \in Nat /\ s[k + 1] <= s[k + 2]
    <2>1. k + 1 \in 1..n /\ k + 2 \in 1..n /\ k + 1 <= k + 2
      BY <1>1, <1>7
    <2> QED BY <1>1, <2>1 DEF Ordered, n
  <1>8. m >= n - 1 \/ m < n - 1
    BY <1>1
  <1>9. Q \in Nat
    <2>1. CASE m >= n - 1
      BY <1>1, <1>3, <1>6, <2>1
    <2>2. CASE m < n - 1
      <3> HIDE DEF rise
      <3>1. s[m + 1] \in Nat /\ s[m + 2] \in Nat /\ Q = s[m + 1] + rise(m, v) /\ rise(m, v) \in 0..(s[m + 2] - s[m + 1])
        BY <1>3, <1>7, <2>2
      <3> QED BY <3>1
    <2> QED BY <1>8, <2>1, <2>2
  <1>10. CASE l >= n - 1
    <2>1. m >= n - 1
      BY <1>1, <1>5, <1>10
    <2>2. P = Q
      BY <1>2, <1>3, <1>10, <2>1
    <2> QED BY <1>9, <2>2 DEF P, Q
  <1>11. CASE l < n - 1
    <2> HIDE DEF rise
    <2>1. /\ l + 1 \in 1..n /\ l + 2 \in 1..n /\ s[l + 1] \in Nat /\ s[l + 2] \in Nat
          /\ P = s[l + 1] + rise(l, w) /\ rise(l, w) \in 0..(s[l + 2] - s[l + 1])
      BY <1>2, <1>7, <1>11
    <2>2. P \in Nat /\ P <= s[l + 2]
      BY <2>1
    <2>3. CASE l < m /\ m >= n - 1
      <3>1. Q = s[n] /\ s[l + 2] <= s[n] /\ s[l + 2] \in Nat
        BY <1>3, <1>6, <2>1, <2>3
      <3>2. P <= Q
        BY <1>9, <2>2, <3>1
      <3> QED BY <1>9, <2>2, <3>2 DEF P, Q
    <2>4. CASE l < m /\ m < n - 1
      <3>1. /\ m + 1 \in 1..n /\ s[m + 1] \in Nat /\ s[m + 2] \in Nat
            /\ Q = s[m + 1] + rise(m, v) /\ rise(m, v) \in 0..(s[m + 2] - s[m + 1])
        BY <1>3, <1>7, <2>4
      <3>2. l + 2 <= m + 1
        BY <1>1, <2>4
      <3>3. s[l + 2] <= s[m + 1]
        BY <2>1, <3>1, <3>2 DEF Ordered, n
      <3>4. s[m + 1] <= Q
        <4>1. rise(m, v) \in Nat
          BY <3>1
        <4> QED BY <3>1, <4>1
      <3>5. P <= Q
        <4>1. s[l + 2] \in Nat
          BY <2>1
        <4>2. s[m + 1] \in Nat
          BY <3>1
        <4> QED BY <1>9, <2>2, <3>3, <3>4, <4>1, <4>2
      <3> QED BY <1>9, <2>2, <3>5 DEF P, Q
    <2>5. CASE l = m /\ w <= v
      <3> DEFINE d == s[l + 2] - s[l + 1]
      <3>1. d \in Nat
        BY <1>7, <1>11
      <3>2. Q = s[l + 1] + rise(l, v) /\ rise(l, v) \in 0..d
        BY <1>3, <1>11, <2>5
      <3>3. rise(l, w) <= rise(l, v)
        <4>1. rise(l, w) = (w * d) \div 100 /\ rise(l, v) = (v * d) \div 100
          BY DEF rise
        <4> HIDE DEF d
        <4>2. d * w <= d * v
          BY <2>5, <3>1, ProductGrows
        <4>3. d * w = w * d /\ d * v = v * d /\ w * d \in Int /\ v * d \in Int
          BY <3>1
        <4>4. (w * d) \div 100 <= (v * d) \div 100
          BY <4>2, <4>3, DivisionGrows
        <4> QED BY <4>1, <4>4
      <3>4. P <= Q
        <4> HIDE DEF d
        <4> QED BY <2>1, <3>1, <3>2, <3>3
      <3> QED BY <1>9, <2>2, <3>4 DEF P, Q
    <2>6. (l < m /\ m >= n - 1) \/ (l < m /\ m < n - 1) \/ (l = m /\ w <= v)
      BY <1>5, <1>8
    <2> QED BY <2>3, <2>4, <2>5, <2>6
  <1>12. l >= n - 1 \/ l < n - 1
    BY <1>1
  <1> QED BY <1>10, <1>11, <1>12

-----------------------------------------------------------------------------
(* Every subscore is one *)

\* Snapshots with a finite number of follower readings each.
Whole(snaps) == snaps \in Seq(Snapshot) /\ \A i \in 1..Len(snaps) : IsFiniteSet(snaps[i].points)

LEMMA SubIsSubscore ==
  ASSUME NEW v \in 0..One, NEW u \in 0..One, NEW basis \in Bases, NEW kind \in Kinds
  PROVE  Sub(v, basis, u, kind) \in Subscore
  <1> DEFINE R == 0..One
  <1>1. v \in R /\ u \in R
    OBVIOUS
  <1> HIDE DEF R
  <1>2. Sub(v, basis, u, kind) \in [value : R, basis : Bases, support : R, kind : Kinds]
    BY <1>1 DEF Sub
  <1> QED BY <1>2 DEF R, Subscore

LEMMA DivisionNat ==
  ASSUME NEW a \in Nat, NEW d \in Nat \ {0}
  PROVE  a \div d \in Nat
  <1>1. a \in Int /\ 0 \in Int /\ d * 0 <= a
    OBVIOUS
  <1>2. a \div d \in Int /\ 0 <= a \div d
    BY <1>1, DivisionIs, DivisionAtLeast
  <1> DEFINE p == a \div d
  <1> HIDE DEF p
  <1>3. p \in Nat
    BY <1>2 DEF p
  <1> QED BY <1>3 DEF p

LEMMA Clamp01InRange ==
  ASSUME NEW v \in Int
  PROVE  Clamp01(v) \in 0..One
  <1>1. v <= v
    OBVIOUS
  <1> QED BY <1>1, ClampGrows

LEMMA PortionInRange ==
  ASSUME NEW n \in Int, NEW d \in Nat \ {0}
  PROVE  Portion(n, d) \in 0..One
  <1> DEFINE p == (n * One) \div d
  <1>1. p \in Int
    <2>1. n * One \in Int
      BY DEF One
    <2> QED BY <2>1, DivisionIs
  <1>2. Portion(n, d) = Clamp01(p)
    BY DEF Portion
  <1> HIDE DEF p
  <1> QED BY <1>1, <1>2, Clamp01InRange

LEMMA SnapshotIs ==
  ASSUME NEW snaps \in Seq(Snapshot), NEW i \in 1..Len(snaps)
  PROVE  /\ snaps[i].followers \in Nat /\ snaps[i].posts \in Seq(Post)
         /\ snaps[i].watch \in Seq(Nat) /\ snaps[i].points \subseteq Reading
         /\ snaps[i].audience \in Seq(0..One)
  <1>1. snaps[i] \in Snapshot
    BY ElementOfSeq
  <1> QED BY <1>1 DEF Snapshot

LEMMA PostsOfType ==
  ASSUME NEW snaps \in Seq(Snapshot)
  PROVE  PostsOf(snaps) \in Seq(Post)
  <1> DEFINE n == Len(snaps)
             q == [i \in 1..n |-> snaps[i].posts]
  <1>1. n \in Nat
    BY LenProperties
  <1>2. q \in Seq(Seq(Post))
    <2>1. \A i \in 1..n : snaps[i].posts \in Seq(Post)
      BY SnapshotIs
    <2> HIDE DEF n
    <2> QED BY <1>1, <2>1
  <1>3. PostsOf(snaps) = FlattenSeq(q)
    BY DEF PostsOf
  <1> HIDE DEF q
  <1> QED BY <1>2, <1>3, FlattenType

LEMMA PostIs ==
  ASSUME NEW posts \in Seq(Post), NEW i \in 1..Len(posts)
  PROVE  posts[i].likes \in Nat /\ posts[i].deep \in Nat /\ posts[i].at \in Nat
  <1>1. posts[i] \in Post
    BY ElementOfSeq
  <1> QED BY <1>1 DEF Post

LEMMA ContentIsSubscore ==
  ASSUME NEW snaps \in Seq(Snapshot)
  PROVE  ContentSubscore(snaps) \in Subscore
  <1> DEFINE posts == PostsOf(snaps)
             depth(i) == (posts[i].deep * One) \div (posts[i].likes + 1)
             n == Len(posts)
             depths == [i \in 1..n |-> depth(i)]
  <1>1. posts \in Seq(Post) /\ n \in Nat
    BY PostsOfType, LenProperties
  <1>2. \A i \in 1..n : depth(i) \in Nat
    <2> SUFFICES ASSUME NEW i \in 1..n PROVE depth(i) \in Nat
      OBVIOUS
    <2>1. posts[i].deep * One \in Nat /\ posts[i].likes + 1 \in Nat \ {0}
      <3>1. posts[i].deep \in Nat /\ posts[i].likes \in Nat
        BY <1>1, PostIs
      <3> QED BY <3>1 DEF One
    <2> QED BY <2>1, DivisionNat
  <1>3. depths \in Seq(Nat)
    <2> HIDE DEF depth, n
    <2> QED BY <1>1, <1>2
  <1>4. ContentSubscore(snaps) = IF posts = <<>> THEN Unmeasured
                                 ELSE Coverage(Portion(Median(depths), 150), Portion(n, 10))
    BY DEF ContentSubscore
  <1> HIDE DEF depths, posts, n
  <1>5. Portion(Median(depths), 150) \in 0..One /\ Portion(n, 10) \in 0..One
    <2>1. Median(depths) \in Nat
      BY <1>3, MedianType
    <2> QED BY <1>1, <2>1, PortionInRange
  <1> QED BY <1>4, <1>5, CoverageIsSubscore, UnmeasuredIsSubscore

LEMMA ReelsIsSubscore ==
  ASSUME NEW snaps \in Seq(Snapshot)
  PROVE  ReelsRetentionSubscore(snaps) \in Subscore
  <1> DEFINE n == Len(snaps)
             q == [i \in 1..n |-> snaps[i].watch]
             watch == Positive(FlattenSeq(q))
  <1>1. n \in Nat
    BY LenProperties
  <1>2. q \in Seq(Seq(Nat))
    <2>1. \A i \in 1..n : snaps[i].watch \in Seq(Nat)
      BY SnapshotIs
    <2> HIDE DEF n
    <2> QED BY <1>1, <2>1
  <1>3. ReelsRetentionSubscore(snaps) = IF watch = <<>> THEN Unmeasured
                                        ELSE Coverage(Portion(Median(watch), 30), Portion(Len(watch), 5))
    BY DEF ReelsRetentionSubscore
  <1>4. watch \in Seq(Nat)
    <2> HIDE DEF q
    <2> QED BY <1>2, FlattenType, PositiveType
  <1> HIDE DEF watch
  <1>5. Portion(Median(watch), 30) \in 0..One /\ Portion(Len(watch), 5) \in 0..One
    <2>1. Median(watch) \in Nat /\ Len(watch) \in Nat
      BY <1>4, MedianType, LenProperties
    <2> QED BY <2>1, PortionInRange
  <1> QED BY <1>3, <1>5, CoverageIsSubscore, UnmeasuredIsSubscore

LEMMA AudienceIsSubscore ==
  ASSUME NEW snaps \in Seq(Snapshot)
  PROVE  AudienceQualitySubscore(snaps) \in Subscore
  <1> DEFINE n == Len(snaps)
             opens(i) == /\ snaps[i].audience # <<>>
                         /\ \A j \in 1..(i - 1) : snaps[j].audience = <<>>
             first == CHOOSE i \in 1..n : opens(i)
             shares == snaps[first].audience
             none == MaxFollowers(snaps) < AudienceFloor \/ \A i \in 1..n : snaps[i].audience = <<>>
  <1>1. n \in Nat
    BY LenProperties
  <1>2. AudienceQualitySubscore(snaps) = IF none THEN Unmeasured
                                         ELSE Coverage(Mean(shares), Portion(Len(shares), 3))
    BY DEF AudienceQualitySubscore
  <1>3. CASE none
    BY <1>2, <1>3, UnmeasuredIsSubscore
  <1>4. CASE ~none
    <2> DEFINE S == {i \in 1..n : snaps[i].audience # <<>>}
    <2>1. S # {} /\ S \in SUBSET Nat
      BY <1>4
    <2>2. PICK i \in S : \A j \in S : i <= j
      <3> HIDE DEF S
      <3> QED BY <2>1, LeastNatural
    <2>3. \E k \in 1..n : opens(k)
      <3>1. i \in 1..n /\ snaps[i].audience # <<>>
        OBVIOUS
      <3>2. ASSUME NEW j \in 1..(i - 1) PROVE snaps[j].audience = <<>>
        <4>1. j \in 1..n /\ ~(i <= j)
          <5> HIDE DEF n
          <5> QED BY <1>1, <3>1
        <4> QED BY <2>2, <4>1
      <3> HIDE DEF S
      <3> QED BY <3>1, <3>2
    <2>4. first \in 1..n /\ opens(first)
      <3> HIDE DEF opens
      <3> QED BY <2>3
    <2>5. shares # <<>> /\ shares \in Seq(0..One)
      <3>1. shares # <<>>
        BY <2>4
      <3> HIDE DEF first, n
      <3>2. shares \in Seq(0..One)
        BY <2>4, SnapshotIs DEF n
      <3> QED BY <3>1, <3>2
    <2> HIDE DEF shares, none
    <2>6. Mean(shares) \in 0..One
      <3>1. \A k \in 1..Len(shares) : shares[k] \in 0..One
        BY <2>5, ElementOfSeq
      <3>2. shares \in Seq(Int)
        <4>1. 0..One \subseteq Int
          OBVIOUS
        <4>2. Len(shares) \in Nat /\ shares \in [1..Len(shares) -> 0..One]
          BY <2>5, LenProperties
        <4>3. shares \in [1..Len(shares) -> Int]
          BY <4>1, <4>2
        <4> QED BY <4>2, <4>3
      <3>3. ASSUME NEW k \in 1..Len(shares) PROVE 0 <= shares[k] /\ shares[k] <= One
        <4> DEFINE v == shares[k]
        <4>1. v \in 0..One
          BY <3>1
        <4> HIDE DEF v
        <4>2. 0 <= v /\ v <= One
          BY <4>1 DEF One
        <4> QED BY <4>2 DEF v
      <3>4. One \in Int /\ 0 \in Int
        BY DEF One
      <3> QED BY <2>5, <3>2, <3>3, <3>4, MeanWithin
    <2>7. Portion(Len(shares), 3) \in 0..One
      <3> DEFINE k == Len(shares)
      <3>1. k \in Int /\ 3 \in Nat \ {0}
        BY <2>5, LenProperties
      <3> HIDE DEF k
      <3>2. Portion(k, 3) \in 0..One
        BY <3>1, PortionInRange
      <3> QED BY <3>2 DEF k
    <2> QED BY <1>2, <1>4, <2>6, <2>7, CoverageIsSubscore
  <1> QED BY <1>3, <1>4

LEMMA BrandFitIsSubscore ==
  ASSUME NEW snaps \in Seq(Snapshot)
  PROVE  BrandFitSubscore(snaps) \in Subscore
  <1> DEFINE posts == PostsOf(snaps)
             n == Len(posts)
             captioned == {i \in 1..n : posts[i].caption # "none"}
             of(c) == {i \in captioned : posts[i].caption = c}
             share(c) == Portion(Cardinality(of(c)), Cardinality(captioned))
             disclosed == Clamp01((share("sponsored") * One) \div 200)
             safe == One - share("unsafe")
  <1>1. n \in Nat
    BY PostsOfType, LenProperties
  <1>2. BrandFitSubscore(snaps) = IF captioned = {} THEN Unmeasured
                                  ELSE Coverage((disclosed + safe) \div 2, Portion(Cardinality(captioned), 10))
    BY DEF BrandFitSubscore
  <1>3. CASE captioned = {}
    BY <1>2, <1>3, UnmeasuredIsSubscore
  <1>4. CASE captioned # {}
    <2>1. captioned \subseteq 1..n
      OBVIOUS
    <2>2. \A c : of(c) \subseteq 1..n
      OBVIOUS
    <2> HIDE DEF of, captioned, n
    <2>3. IsFiniteSet(captioned) /\ Cardinality(captioned) \in Nat \ {0}
      BY <1>1, <1>4, <2>1, PlacesAreFinite, FS_EmptySet
    <2>4. \A c : Cardinality(of(c)) \in Nat
      BY <1>1, <2>2, PlacesAreFinite
    <2>5. ASSUME NEW c PROVE share(c) \in 0..One
      <3>1. Cardinality(of(c)) \in Int
        BY <2>4
      <3> QED BY <2>3, <3>1, PortionInRange
    <2> DEFINE paid == share("sponsored")
               unsafe == share("unsafe")
    <2>6. paid \in 0..One /\ unsafe \in 0..One
      BY <2>5
    <2> HIDE DEF paid, unsafe
    <2>7. disclosed \in 0..One
      <3>1. paid * One \in Int
        BY <2>6 DEF One
      <3>2. (paid * One) \div 200 \in Int
        BY <3>1, DivisionIs
      <3> QED BY <3>2, Clamp01InRange DEF paid
    <2>8. safe \in 0..One
      <3>1. One - unsafe \in 0..One
        BY <2>6 DEF One
      <3> QED BY <3>1 DEF unsafe
    <2> HIDE DEF share
    <2> HIDE DEF disclosed, safe
    <2>9. (disclosed + safe) \div 2 \in 0..One
      BY <2>7, <2>8 DEF One
    <2>10. Portion(Cardinality(captioned), 10) \in 0..One
      BY <2>3, PortionInRange
    <2> QED BY <1>2, <1>4, <2>9, <2>10, CoverageIsSubscore
  <1> QED BY <1>3, <1>4

LEMMA AuthenticityIsSubscore ==
  ASSUME NEW fraud \in FraudEstimate
  PROVE  AuthenticitySubscore(fraud) \in Subscore
  <1> DEFINE cost(e, w) == IF e = Nothing THEN 0 ELSE w
             part(e, w) == IF e = Nothing THEN 0 ELSE w * Clamp01(e)
             weight == cost(fraud.risk, 65) + cost(fraud.clique, 35)
             sum == part(fraud.risk, 65) + part(fraud.clique, 35)
             blend == sum \div weight
             trust == Clamp01(fraud.confidence)
  <1>1. /\ fraud.risk \in Estimate /\ fraud.clique \in Estimate /\ fraud.refined \in Estimate
        /\ fraud.confidence \in Int
    BY DEF FraudEstimate
  <1>2. AuthenticitySubscore(fraud) =
          IF ~fraud.present THEN Unmeasured
          ELSE IF fraud.refined # Nothing
            THEN Sub(One - Clamp01(fraud.refined), "model", trust, "confidence")
          ELSE IF weight = 0 THEN Unmeasured
          ELSE Sub(One - Clamp01(blend), "closed_form", Clamp01((trust * weight) \div 100), "confidence")
    BY DEF AuthenticitySubscore
  <1>3. trust \in 0..One
    BY <1>1, Clamp01InRange
  <1>4. \A x \in Int : One - Clamp01(x) \in 0..One
    <2> SUFFICES ASSUME NEW x \in Int PROVE One - Clamp01(x) \in 0..One
      OBVIOUS
    <2>1. Clamp01(x) \in 0..One
      BY Clamp01InRange
    <2> QED BY <2>1 DEF One
  <1>5. \A e \in Estimate : e # Nothing => e \in Int /\ Clamp01(e) \in 0..One
    BY Clamp01InRange DEF Estimate
  <1>6. /\ \A e \in Estimate : part(e, 65) \in Nat /\ part(e, 35) \in Nat
        /\ \A e \in Estimate : cost(e, 65) \in {0, 65} /\ cost(e, 35) \in {0, 35}
    <2>1. \A e \in Estimate : e # Nothing => 65 * Clamp01(e) \in Nat /\ 35 * Clamp01(e) \in Nat
      <3> SUFFICES ASSUME NEW e \in Estimate, e # Nothing
                   PROVE  65 * Clamp01(e) \in Nat /\ 35 * Clamp01(e) \in Nat
        OBVIOUS
      <3> DEFINE c == Clamp01(e)
      <3>1. c \in 0..One
        BY <1>5
      <3> HIDE DEF c
      <3>2. 65 * c \in Nat /\ 35 * c \in Nat
        BY <3>1
      <3> QED BY <3>2 DEF c
    <2> QED BY <2>1
  <1>7. weight \in {0, 35, 65, 100} /\ sum \in Nat
    <2> HIDE DEF cost, part
    <2>1. cost(fraud.risk, 65) \in {0, 65} /\ cost(fraud.clique, 35) \in {0, 35}
      BY <1>1, <1>6
    <2>2. part(fraud.risk, 65) \in Nat /\ part(fraud.clique, 35) \in Nat
      BY <1>1, <1>6
    <2> QED BY <2>1, <2>2
  <1> HIDE DEF weight, sum, trust
  <1>8. CASE ~fraud.present
    BY <1>2, <1>8, UnmeasuredIsSubscore
  <1>9. CASE fraud.present /\ fraud.refined # Nothing
    <2>1. One - Clamp01(fraud.refined) \in 0..One
      BY <1>1, <1>4, <1>9 DEF Estimate
    <2>2. "model" \in Bases /\ "confidence" \in Kinds
      BY DEF Bases, Kinds
    <2> QED BY <1>2, <1>3, <1>9, <2>1, <2>2, SubIsSubscore
  <1>10. CASE fraud.present /\ fraud.refined = Nothing /\ weight = 0
    BY <1>2, <1>10, UnmeasuredIsSubscore
  <1>11. CASE fraud.present /\ fraud.refined = Nothing /\ weight # 0
    <2>1. weight \in Nat \ {0} /\ sum \in Int
      BY <1>7, <1>11
    <2>2. blend \in Int
      BY <2>1, DivisionIs
    <2> HIDE DEF blend
    <2>3. One - Clamp01(blend) \in 0..One
      BY <1>4, <2>2
    <2>4. Clamp01((trust * weight) \div 100) \in 0..One
      <3>1. trust * weight \in Int
        BY <1>3, <2>1
      <3>2. (trust * weight) \div 100 \in Int
        BY <3>1, DivisionIs
      <3> QED BY <3>2, Clamp01InRange
    <2>5. "closed_form" \in Bases /\ "confidence" \in Kinds
      BY DEF Bases, Kinds
    <2> QED BY <1>2, <1>11, <2>3, <2>4, <2>5, SubIsSubscore
  <1> QED BY <1>8, <1>9, <1>10, <1>11

\* A component of the consistency.
Component == [value : 0..One, cover : 0..One]

LEMMA ComponentIs ==
  ASSUME NEW v \in 0..One, NEW c \in 0..One
  PROVE  <<[value |-> v, cover |-> c]>> \in Seq(Component)
  <1> DEFINE R == 0..One
  <1>1. v \in R /\ c \in R
    OBVIOUS
  <1> HIDE DEF R
  <1>2. [value |-> v, cover |-> c] \in [value : R, cover : R]
    BY <1>1
  <1>3. [value |-> v, cover |-> c] \in Component
    BY <1>2 DEF R, Component
  <1> DEFINE r == [value |-> v, cover |-> c]
  <1> HIDE DEF r
  <1>4. <<r>> \in Seq(Component)
    BY <1>3 DEF r
  <1> QED BY <1>4 DEF r

LEMMA ImageIsFinite ==
  ASSUME NEW S, IsFiniteSet(S), NEW f, DOMAIN f = S
  PROVE  IsFiniteSet({f[x] : x \in S})
  <1> DEFINE T == {f[x] : x \in S}
             g == [x \in S |-> f[x]]
  <1>1. g \in Surjection(S, T)
    BY DEF Surjection
  <1> HIDE DEF g, T
  <1>2. IsFiniteSet(T)
    BY <1>1, FS_Surjection
  <1> QED BY <1>2 DEF T

LEMMA PointsAreFinite ==
  ASSUME NEW snaps, Whole(snaps)
  PROVE  /\ IsFiniteSet(UNION {s.points : s \in ToSet(snaps)})
         /\ UNION {s.points : s \in ToSet(snaps)} \subseteq Reading
  <1> DEFINE n == Len(snaps)
             f == [i \in 1..n |-> snaps[i].points]
             T == {f[i] : i \in 1..n}
  <1>1. n \in Nat /\ DOMAIN snaps = 1..n
    BY LenProperties DEF Whole
  <1>2. {s.points : s \in ToSet(snaps)} = T
    BY <1>1 DEF ToSet
  <1>3. IsFiniteSet(T)
    <2>1. IsFiniteSet(1..n)
      <3> HIDE DEF n
      <3>1. 1 \in Int /\ n \in Int
        BY <1>1
      <3> QED BY <3>1, FS_Interval
    <2>2. DOMAIN f = 1..n
      OBVIOUS
    <2> HIDE DEF f, n
    <2> QED BY <2>1, <2>2, ImageIsFinite
  <1>4. \A t \in T : IsFiniteSet(t)
    BY DEF Whole
  <1>5. \A t \in T : t \subseteq Reading
    <2> SUFFICES ASSUME NEW i \in 1..n PROVE snaps[i].points \subseteq Reading
      OBVIOUS
    <2> QED BY SnapshotIs DEF Whole
  <1> HIDE DEF T
  <1>6. IsFiniteSet(UNION T)
    BY <1>3, <1>4, FS_UNION
  <1> QED BY <1>2, <1>5, <1>6

\* A finite set of readings.
Readings(P) == P \subseteq Reading /\ IsFiniteSet(P)

LEMMA GrowthIsComponent ==
  ASSUME NEW snaps, Whole(snaps), NEW history, Readings(history)
  PROVE  GrowthSmoothness(snaps, history) \in Seq(Component)
  <1> DEFINE points == history \cup UNION {s.points : s \in ToSet(snaps)}
             n == Cardinality(points)
             ordered == InTime(points)
             step(i) == ((ordered[i + 1].v - ordered[i].v) * One) \div (ordered[i].v + 1)
             growth == [i \in 1..(n - 1) |-> step(i)]
  <1>1. IsFiniteSet(points) /\ points \subseteq Reading
    BY PointsAreFinite, FS_Union DEF Readings
  <1>2. n \in Nat
    <2> HIDE DEF points
    <2> QED BY <1>1, FS_CardinalityType
  <1>3. \A k \in 1..n : ordered[k] \in Reading
    <2> HIDE DEF points
    <2> QED BY <1>1, InTimeType
  <1>4. GrowthSmoothness(snaps, history) =
          IF n < 3 THEN <<>>
          ELSE <<[value |-> One - 2 * Deviation(growth, 500), cover |-> Portion(n - 2, 10)]>>
    BY DEF GrowthSmoothness
  <1> HIDE DEF points, n, ordered
  <1>5. CASE n < 3
    BY <1>4, <1>5
  <1>6. CASE ~(n < 3)
    <2>1. ASSUME NEW i \in 1..(n - 1) PROVE step(i) \in Int
      <3>1. i \in 1..n /\ i + 1 \in 1..n
        BY <1>2
      <3>2. ordered[i].v \in Nat /\ ordered[i + 1].v \in Nat
        BY <1>3, <3>1 DEF Reading
      <3> DEFINE a == (ordered[i + 1].v - ordered[i].v) * One
                 d == ordered[i].v + 1
      <3>3. a \in Int /\ d \in Nat \ {0}
        BY <3>2 DEF One
      <3> HIDE DEF a, d
      <3>4. a \div d \in Int
        BY <3>3, DivisionIs
      <3> QED BY <3>4 DEF a, d
    <2>2. growth \in Seq(Int) /\ Len(growth) # 0
      <3> HIDE DEF step
      <3> DEFINE m == n - 1
      <3>1. m \in Nat \ {0}
        BY <1>2, <1>6
      <3>2. growth = [i \in 1..m |-> step(i)] /\ \A i \in 1..m : step(i) \in Int
        BY <2>1
      <3> HIDE DEF m, growth
      <3>3. growth \in [1..m -> Int]
        BY <3>2
      <3> QED BY <3>1, <3>3
    <2> HIDE DEF growth
    <2> DEFINE off == Deviation(growth, 500)
    <2>3. off \in 0..500
      <3> DEFINE cap == 500
      <3>1. cap \in Nat
        OBVIOUS
      <3> HIDE DEF cap
      <3>2. Deviation(growth, cap) \in 0..cap
        BY <2>2, <3>1, DeviationIs
      <3> QED BY <3>2 DEF cap
    <2> HIDE DEF off
    <2>4. One - 2 * off \in 0..One
      BY <2>3 DEF One
    <2>5. Portion(n - 2, 10) \in 0..One
      <3>1. n - 2 \in Int
        BY <1>2
      <3> QED BY <3>1, PortionInRange
    <2>6. GrowthSmoothness(snaps, history) = <<[value |-> One - 2 * off, cover |-> Portion(n - 2, 10)]>>
      BY <1>4, <1>6 DEF off
    <2> QED BY <2>4, <2>5, <2>6, ComponentIs
  <1> QED BY <1>5, <1>6

LEMMA CadenceIsComponent ==
  ASSUME NEW snaps \in Seq(Snapshot)
  PROVE  CadenceRegularity(snaps) \in Seq(Component)
  <1> DEFINE posts == PostsOf(snaps)
             at == [i \in 1..Len(posts) |-> posts[i].at]
             times == Sorted(Positive(at))
             n == Len(times)
             gaps == Steps(times)
             m == Mean(gaps)
  <1>1. posts \in Seq(Post) /\ Len(posts) \in Nat
    BY PostsOfType, LenProperties
  <1>2. at \in Seq(Nat)
    <2>1. \A i \in 1..Len(posts) : posts[i].at \in Nat
      BY <1>1, PostIs
    <2> HIDE DEF posts
    <2> QED BY <1>1, <2>1
  <1>3. times \in Seq(Nat) /\ n \in Nat /\ \A i \in 1..n : times[i] \in Nat
    <2> HIDE DEF at
    <2>1. times \in Seq(Nat)
      BY <1>2, PositiveType, SortedIs
    <2> HIDE DEF times
    <2> QED BY <2>1, LenProperties, ElementOfSeq
  <1>4. CadenceRegularity(snaps) =
          IF n < 3 \/ m <= 0 THEN <<>>
          ELSE <<[value |-> One - (Deviation(gaps, m) * One) \div m, cover |-> Portion(n - 2, 10)]>>
    BY DEF CadenceRegularity
  <1> HIDE DEF times, n
  <1>5. CASE n < 3 \/ m <= 0
    BY <1>4, <1>5
  <1>6. CASE ~(n < 3 \/ m <= 0)
    <2>1. gaps \in Seq(Int) /\ Len(gaps) # 0
      <3> DEFINE k == n - 1
      <3>1. k \in Nat \ {0}
        BY <1>3, <1>6
      <3>2. gaps = [i \in 1..k |-> times[i + 1] - times[i]]
        BY DEF Steps, n
      <3>3. ASSUME NEW i \in 1..k PROVE times[i + 1] - times[i] \in Int
        <4>1. i \in 1..n /\ i + 1 \in 1..n
          BY <1>3
        <4> QED BY <1>3, <4>1
      <3> HIDE DEF k, gaps
      <3>4. gaps \in [1..k -> Int]
        BY <3>2, <3>3
      <3> QED BY <3>1, <3>4
    <2> HIDE DEF gaps
    <2>2. m \in Nat \ {0}
      <3>1. m \in Int
        BY <2>1, MeanType
      <3> QED BY <1>6, <3>1
    <2> DEFINE off == Deviation(gaps, m)
    <2>3. off \in 0..m
      <3> HIDE DEF m
      <3> QED BY <2>1, <2>2, DeviationIs
    <2> HIDE DEF m, off
    <2>4. (off * One) \div m \in 0..One
      <3>1. One * off <= One * m
        BY <2>2, <2>3, ProductGrows DEF One
      <3>2. off * One \in Nat /\ off * One <= m * One /\ One \in Nat
        BY <2>2, <2>3, <3>1 DEF One
      <3> QED BY <2>2, <3>2, DivisionWithin
    <2> DEFINE part == (off * One) \div m
    <2> HIDE DEF part
    <2>5. One - part \in 0..One
      <3>1. part \in 0..One
        BY <2>4 DEF part
      <3> QED BY <3>1 DEF One
    <2>6. Portion(n - 2, 10) \in 0..One
      <3> DEFINE k == n - 2
      <3>1. k \in Int /\ 10 \in Nat \ {0}
        BY <1>3
      <3> HIDE DEF k
      <3>2. Portion(k, 10) \in 0..One
        BY <3>1, PortionInRange
      <3> QED BY <3>2 DEF k
    <2>7. CadenceRegularity(snaps) = <<[value |-> One - part, cover |-> Portion(n - 2, 10)]>>
      BY <1>4, <1>6 DEF part, off
    <2> QED BY <2>5, <2>6, <2>7, ComponentIs
  <1> QED BY <1>5, <1>6

LEMMA FormatIsComponent ==
  ASSUME NEW snaps \in Seq(Snapshot)
  PROVE  FormatDiversity(snaps) \in Seq(Component)
  <1> DEFINE posts == PostsOf(snaps)
             n == Len(posts)
             typed == {i \in 1..n : posts[i].media # "none"}
             f == [i \in typed |-> posts[i].media]
             kinds == {f[i] : i \in typed}
  <1>1. n \in Nat
    BY PostsOfType, LenProperties
  <1>2. FormatDiversity(snaps) =
          IF typed = {} THEN <<>>
          ELSE <<[value |-> Portion(Cardinality(kinds), 3), cover |-> Portion(Cardinality(typed), 8)]>>
    <2>1. kinds = {posts[i].media : i \in typed}
      OBVIOUS
    <2> QED BY <2>1 DEF FormatDiversity
  <1>3. typed \subseteq 1..n /\ DOMAIN f = typed
    OBVIOUS
  <1> HIDE DEF typed, n, f
  <1>4. IsFiniteSet(typed) /\ Cardinality(typed) \in Nat
    BY <1>1, <1>3, PlacesAreFinite
  <1>5. Cardinality(kinds) \in Nat
    <2>1. IsFiniteSet(kinds)
      BY <1>3, <1>4, ImageIsFinite
    <2> HIDE DEF kinds
    <2> QED BY <2>1, FS_CardinalityType
  <1> HIDE DEF kinds
  <1>6. Portion(Cardinality(kinds), 3) \in 0..One /\ Portion(Cardinality(typed), 8) \in 0..One
    <2> DEFINE k == Cardinality(kinds)
               l == Cardinality(typed)
    <2>1. k \in Int /\ l \in Int /\ 3 \in Nat \ {0} /\ 8 \in Nat \ {0}
      BY <1>4, <1>5
    <2> HIDE DEF k, l
    <2>2. Portion(k, 3) \in 0..One /\ Portion(l, 8) \in 0..One
      BY <2>1, PortionInRange
    <2> QED BY <2>2 DEF k, l
  <1>7. CASE typed = {}
    BY <1>2, <1>7
  <1>8. CASE typed # {}
    BY <1>2, <1>6, <1>8, ComponentIs
  <1> QED BY <1>7, <1>8

LEMMA MeanOfShares ==
  ASSUME NEW n \in Nat \ {0}, NEW f \in [1..n -> 0..One]
  PROVE  Mean(f) \in 0..One
  <1>1. f \in Seq(Int) /\ Len(f) = n
    <2>1. f \in [1..n -> Int]
      OBVIOUS
    <2> QED BY <2>1
  <1>2. f # <<>>
    BY <1>1, EmptySeq
  <1>3. ASSUME NEW k \in 1..Len(f) PROVE 0 <= f[k] /\ f[k] <= One
    <2> DEFINE v == f[k]
    <2>1. v \in 0..One
      BY <1>1
    <2> HIDE DEF v
    <2>2. 0 <= v /\ v <= One
      BY <2>1 DEF One
    <2> QED BY <2>2 DEF v
  <1>4. 0 \in Int /\ One \in Int
    BY DEF One
  <1> QED BY <1>1, <1>2, <1>3, <1>4, MeanWithin

LEMMA ConsistencyIsSubscore ==
  ASSUME NEW snaps, Whole(snaps), NEW history, Readings(history)
  PROVE  ConsistencySubscore(snaps, history) \in Subscore
  <1> DEFINE seen == GrowthSmoothness(snaps, history) \o CadenceRegularity(snaps) \o FormatDiversity(snaps)
             n == Len(seen)
             values == [i \in 1..n |-> seen[i].value]
             covers == [i \in 1..n |-> seen[i].cover]
  <1>1. seen \in Seq(Component)
    BY GrowthIsComponent, CadenceIsComponent, FormatIsComponent, ConcatProperties DEF Whole
  <1>2. ConsistencySubscore(snaps, history) =
          IF n = 0 THEN Unmeasured ELSE Coverage(Mean(values), Mean(covers))
    BY DEF ConsistencySubscore
  <1> HIDE DEF seen
  <1>3. n \in Nat
    BY <1>1, LenProperties
  <1>4. \A i \in 1..n : seen[i].value \in 0..One /\ seen[i].cover \in 0..One
    <2> SUFFICES ASSUME NEW i \in 1..n PROVE seen[i].value \in 0..One /\ seen[i].cover \in 0..One
      OBVIOUS
    <2>1. seen[i] \in Component
      BY <1>1, ElementOfSeq
    <2> QED BY <2>1 DEF Component
  <1>5. values \in [1..n -> 0..One] /\ covers \in [1..n -> 0..One]
    <2> HIDE DEF n
    <2> QED BY <1>4
  <1> HIDE DEF values, covers, n
  <1>6. CASE n = 0
    BY <1>2, <1>6, UnmeasuredIsSubscore
  <1>7. CASE n # 0
    <2>1. Mean(values) \in 0..One /\ Mean(covers) \in 0..One
      BY <1>3, <1>5, <1>7, MeanOfShares
    <2> QED BY <1>2, <1>7, <2>1, CoverageIsSubscore
  <1> QED BY <1>6, <1>7

-----------------------------------------------------------------------------
(* The rate and the engagement *)

\* The rates of the posts of one snapshot, and of all that report followers.
RatesOf(s) == [k \in 1..Len(s.posts) |-> ((s.posts[k].likes + s.posts[k].deep) * 10000) \div s.followers]
RatesIn(snaps) == [i \in 1..Len(snaps) |-> IF snaps[i].followers > 0 THEN RatesOf(snaps[i]) ELSE <<>>]

LEMMA RateIs ==
  ASSUME NEW snaps
  PROVE  ObservedEngagementRate(snaps) =
           IF FlattenSeq(RatesIn(snaps)) = <<>> THEN Nothing ELSE Mean(FlattenSeq(RatesIn(snaps)))
  BY DEF ObservedEngagementRate, RatesIn, RatesOf

LEMMA RatesType ==
  ASSUME NEW snaps \in Seq(Snapshot)
  PROVE  RatesIn(snaps) \in Seq(Seq(Nat)) /\ Len(RatesIn(snaps)) = Len(snaps)
  <1> DEFINE n == Len(snaps)
             r(i) == IF snaps[i].followers > 0 THEN RatesOf(snaps[i]) ELSE <<>>
  <1>1. n \in Nat
    BY LenProperties
  <1>2. ASSUME NEW i \in 1..n PROVE r(i) \in Seq(Nat)
    <2> DEFINE s == snaps[i]
               m == Len(s.posts)
               rate(k) == ((s.posts[k].likes + s.posts[k].deep) * 10000) \div s.followers
    <2>1. s.followers \in Nat /\ s.posts \in Seq(Post)
      BY SnapshotIs
    <2>2. CASE s.followers > 0
      <3>1. m \in Nat
        BY <2>1, LenProperties
      <3>2. ASSUME NEW k \in 1..m PROVE rate(k) \in Nat
        <4> DEFINE a == (s.posts[k].likes + s.posts[k].deep) * 10000
        <4>1. s.posts[k].likes \in Nat /\ s.posts[k].deep \in Nat
          BY <2>1, PostIs
        <4>2. a \in Nat /\ s.followers \in Nat \ {0}
          BY <2>1, <2>2, <4>1
        <4> HIDE DEF a, s
        <4>3. a \div s.followers \in Nat
          BY <4>2, DivisionNat
        <4> QED BY <4>3 DEF a
      <3>3. RatesOf(s) = [k \in 1..m |-> rate(k)]
        BY DEF RatesOf
      <3>4. r(i) = RatesOf(s)
        BY <2>2
      <3> HIDE DEF rate, m, s, r
      <3>5. RatesOf(s) \in Seq(Nat)
        BY <3>1, <3>2, <3>3
      <3> QED BY <3>4, <3>5
    <2>3. CASE ~(s.followers > 0)
      BY <2>3
    <2> QED BY <2>2, <2>3
  <1>3. RatesIn(snaps) = [i \in 1..n |-> r(i)]
    BY DEF RatesIn
  <1> HIDE DEF r, n
  <1>4. RatesIn(snaps) \in Seq(Seq(Nat)) /\ Len(RatesIn(snaps)) = n
    BY <1>1, <1>2, <1>3
  <1> QED BY <1>4 DEF n

LEMMA NaturalsAreIntegers ==
  ASSUME NEW s \in Seq(Nat)
  PROVE  s \in Seq(Int)
  <1>1. Len(s) \in Nat /\ s \in [1..Len(s) -> Nat]
    BY LenProperties
  <1>2. s \in [1..Len(s) -> Int]
    BY <1>1
  <1> QED BY <1>1, <1>2

LEMMA RateType ==
  ASSUME NEW snaps \in Seq(Snapshot)
  PROVE  ObservedEngagementRate(snaps) \in Nat \cup {Nothing}
  <1> DEFINE all == FlattenSeq(RatesIn(snaps))
  <1>1. all \in Seq(Nat)
    BY RatesType, FlattenType
  <1>2. ObservedEngagementRate(snaps) = IF all = <<>> THEN Nothing ELSE Mean(all)
    BY RateIs
  <1> HIDE DEF all
  <1>3. CASE all = <<>>
    BY <1>2, <1>3
  <1>4. CASE all # <<>>
    <2>1. Len(all) \in Nat \ {0}
      BY <1>1, <1>4, EmptySeq
    <2>2. all \in Seq(Int)
      BY <1>1, NaturalsAreIntegers
    <2>3. \A k \in 1..Len(all) : 0 <= all[k]
      <3>1. \A k \in 1..Len(all) : all[k] \in Nat
        BY <1>1, ElementOfSeq
      <3> QED BY <3>1
    <2>4. Total(all) \in Int /\ Len(all) * 0 <= Total(all)
      BY <2>2, <2>3, TotalType, TotalAtLeast
    <2>5. Total(all) \in Nat
      BY <2>1, <2>4
    <2>6. Mean(all) = Total(all) \div Len(all)
      BY <1>4 DEF Mean
    <2> QED BY <1>2, <1>4, <2>1, <2>5, <2>6, DivisionNat
  <1> QED BY <1>3, <1>4

\* What the engine needs of a benchmark.
Usable(b) == b.source \in {"bootstrap", "corpus"} /\ b.sample \in Nat /\ Ascending(b.band)

LEMMA EngagementIsSubscore ==
  ASSUME NEW snaps \in Seq(Snapshot), NEW b, Usable(b)
  PROVE  EngagementSubscore(snaps, b) \in Subscore
  <1> DEFINE rate == ObservedEngagementRate(snaps)
  <1>1. CASE rate = Nothing
    <2>1. EngagementSubscore(snaps, b) = [Unmeasured EXCEPT !.basis = BenchmarkBasis(b)]
      BY <1>1 DEF EngagementSubscore
    <2>2. [Unmeasured EXCEPT !.basis = BenchmarkBasis(b)] = Sub(Neutral, BenchmarkBasis(b), 0, "none")
      BY DEF Unmeasured, Sub
    <2>3. BenchmarkBasis(b) \in Bases
      BY BenchmarkSupports DEF Usable
    <2>4. Neutral \in 0..One /\ 0 \in 0..One /\ "none" \in Kinds
      BY DEF Neutral, One, Kinds
    <2> QED BY <2>1, <2>2, <2>3, <2>4, SubIsSubscore
  <1>2. CASE rate # Nothing
    <2>1. rate \in Nat /\ rate <= rate
      BY <1>2, RateType
    <2> QED BY <2>1, EngagementGrows DEF Usable
  <1> QED BY <1>1, <1>2

\* An input the engine can be called with.
Sound(in) ==
  /\ Whole(in.snaps) /\ in.fraud \in FraudEstimate /\ in.weights \in [1..4 -> Nat]
  /\ Usable(in.bench) /\ Readings(in.history)

LEMMA FactorsAreSubscores ==
  ASSUME NEW in, Sound(in)
  PROVE  FactorsOf(in) \in [1..4 -> Subscore]
  <1> DEFINE e == EngagementSubscore(in.snaps, in.bench)
             a == AuthenticitySubscore(in.fraud)
             d == ContentSubscore(in.snaps)
             r == ReelsRetentionSubscore(in.snaps)
             x == EngagementAuthenticity(e, a, d, r)
             y == AudienceQualitySubscore(in.snaps)
             z == ConsistencySubscore(in.snaps, in.history)
             t == BrandFitSubscore(in.snaps)
  <1>1. in.snaps \in Seq(Snapshot)
    BY DEF Sound, Whole
  <1>2. e \in Subscore /\ a \in Subscore /\ d \in Subscore /\ r \in Subscore
    BY <1>1, EngagementIsSubscore, AuthenticityIsSubscore, ContentIsSubscore, ReelsIsSubscore DEF Sound
  <1>3. FactorsOf(in) = <<x, y, z, t>>
    BY DEF FactorsOf
  <1>4. x \in Subscore
    <2> HIDE DEF e, a, d, r
    <2>1. NoBetter(e, e) /\ NoBetter(a, a)
      BY <1>2, SubscoreIs
    <2> QED BY <1>2, <2>1, AuthenticityGrows
  <1>5. y \in Subscore /\ z \in Subscore /\ t \in Subscore
    BY <1>1, AudienceIsSubscore, ConsistencyIsSubscore, BrandFitIsSubscore DEF Sound
  <1> HIDE DEF x, y, z, t
  <1> QED BY <1>3, <1>4, <1>5

-----------------------------------------------------------------------------
(* Buying followers *)

\* The same snapshots with more followers where there are any, whatever becomes of
\* their readings.
Grown(bought, snaps) ==
  /\ bought \in Seq(Snapshot) /\ Len(bought) = Len(snaps)
  /\ \A i \in 1..Len(snaps) :
       /\ bought[i].posts = snaps[i].posts /\ bought[i].watch = snaps[i].watch
       /\ bought[i].audience = snaps[i].audience
       /\ snaps[i].followers <= bought[i].followers
       /\ bought[i].followers > 0 <=> snaps[i].followers > 0

LEMMA DivisionByMore ==
  ASSUME NEW a \in Nat, NEW d \in Nat \ {0}, NEW e \in Nat \ {0}, d <= e
  PROVE  a \div e <= a \div d
  <1> DEFINE q == a \div e
  <1>1. q \in Nat /\ e * q <= a
    BY DivisionNat, DivisionIs
  <1> HIDE DEF q
  <1>2. q * d <= q * e
    BY <1>1, ProductGrows
  <1>3. q * d = d * q /\ q * e = e * q /\ d * q \in Int /\ e * q \in Int
    BY <1>1
  <1>4. d * q <= a
    BY <1>1, <1>2, <1>3
  <1>5. q <= a \div d
    BY <1>1, <1>4, DivisionAtLeast
  <1> QED BY <1>5 DEF q

LEMMA RatesFall ==
  ASSUME NEW snaps \in Seq(Snapshot), NEW bought, Grown(bought, snaps)
  PROVE  Under(FlattenSeq(RatesIn(bought)), FlattenSeq(RatesIn(snaps)))
  <1> DEFINE n == Len(snaps)
             q == RatesIn(snaps)
             r == RatesIn(bought)
  <1>1. n \in Nat /\ bought \in Seq(Snapshot) /\ Len(bought) = n
    BY LenProperties DEF Grown
  <1>2. q \in Seq(Seq(Nat)) /\ Len(q) = n /\ r \in Seq(Seq(Nat)) /\ Len(r) = n
    BY <1>1, RatesType
  <1>3. q \in Seq(Seq(Int)) /\ r \in Seq(Seq(Int))
    <2> HIDE DEF q, r, n
    <2>1. \A i \in 1..n : q[i] \in Seq(Nat) /\ r[i] \in Seq(Nat)
      BY <1>2, ElementOfSeq
    <2>2. \A i \in 1..n : q[i] \in Seq(Int) /\ r[i] \in Seq(Int)
      BY <2>1, NaturalsAreIntegers
    <2>3. q \in [1..n -> Seq(Int)] /\ r \in [1..n -> Seq(Int)]
      <3>1. q \in [1..n -> Seq(Nat)] /\ r \in [1..n -> Seq(Nat)]
        BY <1>2, LenProperties
      <3> QED BY <2>2, <3>1
    <2> QED BY <1>1, <2>3
  <1>4. ASSUME NEW i \in 1..n PROVE Under(r[i], q[i])
    <2> DEFINE s == snaps[i]
               b == bought[i]
               m == Len(s.posts)
               rate(k) == ((s.posts[k].likes + s.posts[k].deep) * 10000) \div s.followers
               cut(k) == ((s.posts[k].likes + s.posts[k].deep) * 10000) \div b.followers
    <2>1. /\ s.followers \in Nat /\ s.posts \in Seq(Post) /\ b.followers \in Nat /\ b.posts = s.posts
          /\ s.followers <= b.followers /\ (b.followers > 0 <=> s.followers > 0)
      BY <1>1, SnapshotIs DEF Grown
    <2>2. /\ q[i] = IF s.followers > 0 THEN RatesOf(s) ELSE <<>>
          /\ r[i] = IF b.followers > 0 THEN RatesOf(b) ELSE <<>>
      BY <1>1 DEF RatesIn
    <2>3. RatesOf(s) = [k \in 1..m |-> rate(k)] /\ RatesOf(b) = [k \in 1..m |-> cut(k)]
      BY <2>1 DEF RatesOf
    <2>4. CASE s.followers > 0
      <3>1. m \in Nat
        BY <2>1, LenProperties
      <3>2. ASSUME NEW k \in 1..m PROVE cut(k) <= rate(k)
        <4> DEFINE a == (s.posts[k].likes + s.posts[k].deep) * 10000
                   d == s.followers
                   e == b.followers
        <4>1. s.posts[k].likes \in Nat /\ s.posts[k].deep \in Nat
          BY <2>1, PostIs
        <4>2. a \in Nat /\ d \in Nat \ {0} /\ e \in Nat \ {0} /\ d <= e
          BY <2>1, <2>4, <4>1
        <4> HIDE DEF a, d, e
        <4>3. a \div e <= a \div d
          BY <4>2, DivisionByMore
        <4> QED BY <4>3 DEF a, d, e
      <3>3. q[i] = RatesOf(s) /\ r[i] = RatesOf(b)
        BY <2>1, <2>2, <2>4
      <3> HIDE DEF rate, cut, m, s, b, q, r
      <3>4. Len(q[i]) = m /\ Len(r[i]) = m
        BY <2>3, <3>1, <3>3
      <3>5. \A k \in 1..m : r[i][k] <= q[i][k]
        BY <2>3, <3>2, <3>3
      <3> QED BY <3>4, <3>5 DEF Under
    <2>5. CASE ~(s.followers > 0)
      <3>1. q[i] = <<>> /\ r[i] = <<>>
        BY <2>1, <2>2, <2>5
      <3> HIDE DEF q, r
      <3> QED BY <3>1 DEF Under
    <2> QED BY <2>4, <2>5
  <1>5. Len(r) = Len(q) /\ \A i \in 1..Len(r) : Under(r[i], q[i])
    <2> HIDE DEF q, r, n
    <2> QED BY <1>2, <1>4
  <1>6. Under(FlattenSeq(r), FlattenSeq(q))
    <2> HIDE DEF q, r
    <2> QED BY <1>3, <1>5, FlattenUnder
  <1> QED BY <1>6

LEMMA RateFalls ==
  ASSUME NEW snaps \in Seq(Snapshot), NEW bought, Grown(bought, snaps)
  PROVE  \/ ObservedEngagementRate(snaps) = Nothing /\ ObservedEngagementRate(bought) = Nothing
         \/ /\ ObservedEngagementRate(snaps) \in Nat /\ ObservedEngagementRate(bought) \in Nat
            /\ ObservedEngagementRate(bought) <= ObservedEngagementRate(snaps)
  <1> DEFINE high == FlattenSeq(RatesIn(snaps))
             low == FlattenSeq(RatesIn(bought))
  <1>1. bought \in Seq(Snapshot)
    BY DEF Grown
  <1>2. high \in Seq(Nat) /\ low \in Seq(Nat)
    BY <1>1, RatesType, FlattenType
  <1>3. Under(low, high)
    BY RatesFall
  <1>4. /\ ObservedEngagementRate(snaps) = IF high = <<>> THEN Nothing ELSE Mean(high)
        /\ ObservedEngagementRate(bought) = IF low = <<>> THEN Nothing ELSE Mean(low)
    BY RateIs
  <1>5. ObservedEngagementRate(snaps) \in Nat \cup {Nothing} /\ ObservedEngagementRate(bought) \in Nat \cup {Nothing}
    BY <1>1, RateType
  <1> HIDE DEF high, low
  <1>6. low = <<>> <=> high = <<>>
    BY <1>2, <1>3, EmptySeq DEF Under
  <1>7. low \in Seq(Int) /\ high \in Seq(Int)
    BY <1>2, NaturalsAreIntegers
  <1>8. Mean(low) <= Mean(high) /\ Mean(low) \in Int /\ Mean(high) \in Int
    BY <1>3, <1>7, MeanGrows, MeanType DEF Under
  <1>9. CASE low = <<>>
    BY <1>4, <1>6, <1>9
  <1>10. CASE low # <<>>
    <2>1. ObservedEngagementRate(snaps) = Mean(high) /\ ObservedEngagementRate(bought) = Mean(low)
      BY <1>4, <1>6, <1>10
    <2>2. Mean(high) \in Nat /\ Mean(low) \in Nat
      BY <1>5, <1>8, <2>1, ScoreEngineAssumption
    <2> QED BY <1>8, <2>1, <2>2
  <1> QED BY <1>9, <1>10

LEMMA EngagementFalls ==
  ASSUME NEW snaps \in Seq(Snapshot), NEW bought, Grown(bought, snaps), NEW b, Usable(b)
  PROVE  NoBetter(EngagementSubscore(bought, b), EngagementSubscore(snaps, b))
  <1>1. CASE ObservedEngagementRate(snaps) = Nothing /\ ObservedEngagementRate(bought) = Nothing
    <2>1. EngagementSubscore(bought, b) = EngagementSubscore(snaps, b)
      BY <1>1 DEF EngagementSubscore
    <2>2. EngagementSubscore(snaps, b) \in Subscore
      BY EngagementIsSubscore
    <2> QED BY <2>1, <2>2, SubscoreIs
  <1>2. CASE /\ ObservedEngagementRate(snaps) \in Nat /\ ObservedEngagementRate(bought) \in Nat
             /\ ObservedEngagementRate(bought) <= ObservedEngagementRate(snaps)
    BY <1>2, EngagementGrows DEF Usable
  <1> QED BY <1>1, <1>2, RateFalls

\* A purchase changes no post and no watch time.
LEMMA SamePosts ==
  ASSUME NEW snaps \in Seq(Snapshot), NEW bought, Grown(bought, snaps)
  PROVE  /\ PostsOf(bought) = PostsOf(snaps)
         /\ [i \in 1..Len(bought) |-> bought[i].watch] = [i \in 1..Len(snaps) |-> snaps[i].watch]
  <1> DEFINE n == Len(snaps)
  <1>1. Len(bought) = n /\ n \in Nat
    BY LenProperties DEF Grown
  <1>2. \A i \in 1..n : bought[i].posts = snaps[i].posts /\ bought[i].watch = snaps[i].watch
    BY DEF Grown
  <1>3. [i \in 1..Len(bought) |-> bought[i].posts] = [i \in 1..n |-> snaps[i].posts]
    BY <1>1, <1>2
  <1>4. [i \in 1..Len(bought) |-> bought[i].watch] = [i \in 1..n |-> snaps[i].watch]
    BY <1>1, <1>2
  <1> QED BY <1>3, <1>4 DEF PostsOf

LEMMA SameAudience ==
  ASSUME NEW snaps \in Seq(Snapshot), NEW bought, Grown(bought, snaps),
         MaxFollowers(bought) < AudienceFloor <=> MaxFollowers(snaps) < AudienceFloor
  PROVE  AudienceQualitySubscore(bought) = AudienceQualitySubscore(snaps)
  <1> DEFINE n == Len(snaps)
             opens(s, i) == /\ s[i].audience # <<>>
                            /\ \A j \in 1..(i - 1) : s[j].audience = <<>>
             first(s) == CHOOSE i \in 1..n : opens(s, i)
             empty(s) == \A i \in 1..n : s[i].audience = <<>>
             of(s) == IF MaxFollowers(s) < AudienceFloor \/ empty(s) THEN Unmeasured
                      ELSE Coverage(Mean(s[first(s)].audience), Portion(Len(s[first(s)].audience), 3))
  <1>1. n \in Nat /\ Len(bought) = n /\ \A i \in 1..n : bought[i].audience = snaps[i].audience
    BY LenProperties DEF Grown
  <1>2. AudienceQualitySubscore(bought) = of(bought) /\ AudienceQualitySubscore(snaps) = of(snaps)
    BY <1>1 DEF AudienceQualitySubscore
  <1>3. empty(bought) <=> empty(snaps)
    BY <1>1
  <1>4. \A i \in 1..n : opens(bought, i) <=> opens(snaps, i)
    <2> SUFFICES ASSUME NEW i \in 1..n PROVE opens(bought, i) <=> opens(snaps, i)
      OBVIOUS
    <2>1. \A j \in 1..(i - 1) : j \in 1..n
      <3> HIDE DEF n
      <3> QED BY <1>1
    <2> QED BY <1>1, <2>1
  <1>5. ASSUME ~empty(snaps) PROVE first(bought) = first(snaps) /\ first(snaps) \in 1..n
    <2> DEFINE S == {i \in 1..n : snaps[i].audience # <<>>}
    <2>1. S # {} /\ S \in SUBSET Nat
      BY <1>5
    <2>2. PICK i \in S : \A j \in S : i <= j
      <3> HIDE DEF S
      <3> QED BY <2>1, LeastNatural
    <2>3. i \in 1..n /\ opens(snaps, i)
      <3>1. i \in 1..n /\ snaps[i].audience # <<>>
        OBVIOUS
      <3>2. ASSUME NEW j \in 1..(i - 1) PROVE snaps[j].audience = <<>>
        <4>1. j \in 1..n /\ ~(i <= j)
          <5> HIDE DEF n
          <5> QED BY <1>1, <3>1
        <4> QED BY <2>2, <4>1
      <3> HIDE DEF S
      <3> QED BY <3>1, <3>2
    <2>4. \A k, l \in 1..n : opens(snaps, k) /\ opens(snaps, l) => k = l
      <3> SUFFICES ASSUME NEW k \in 1..n, NEW l \in 1..n, opens(snaps, k), opens(snaps, l), k # l
                   PROVE  FALSE
        OBVIOUS
      <3>1. k \in 1..(l - 1) \/ l \in 1..(k - 1)
        <4> HIDE DEF n, opens
        <4> QED BY <1>1
      <3> QED BY <3>1
    <2> HIDE DEF opens, S
    <2>5. first(snaps) \in 1..n /\ opens(snaps, first(snaps))
      BY <2>3
    <2>6. first(bought) \in 1..n /\ opens(bought, first(bought))
      <3>1. opens(bought, i)
        BY <1>4, <2>3
      <3> QED BY <2>3, <3>1
    <2> HIDE DEF first
    <2> QED BY <1>4, <2>4, <2>5, <2>6
  <1>6. CASE empty(snaps)
    <2> HIDE DEF first, empty
    <2> QED BY <1>2, <1>3, <1>6
  <1>7. CASE ~empty(snaps)
    <2>1. bought[first(bought)].audience = snaps[first(snaps)].audience
      <3> HIDE DEF first, empty, n
      <3> QED BY <1>1, <1>5, <1>7
    <2> HIDE DEF first, empty
    <2> QED BY <1>2, <1>3, <2>1
  <1> QED BY <1>6, <1>7

\* A suspicion raised to certainty is no better for the authenticity.
LEMMA SuspicionNeverHelps ==
  ASSUME NEW fraud \in FraudEstimate, fraud.risk # Nothing
  PROVE  LET sure == [fraud EXCEPT !.risk = One]
         IN sure \in FraudEstimate /\ NoBetter(AuthenticitySubscore(sure), AuthenticitySubscore(fraud))
  <1> DEFINE sure == [fraud EXCEPT !.risk = One]
             rest == IF fraud.clique = Nothing THEN 0 ELSE 35 * Clamp01(fraud.clique)
             weight == 65 + (IF fraud.clique = Nothing THEN 0 ELSE 35)
             trust == Clamp01(fraud.confidence)
             of(risk) == Sub(One - Clamp01((65 * Clamp01(risk) + rest) \div weight), "closed_form",
                             Clamp01((trust * weight) \div 100), "confidence")
  <1>1. /\ fraud.risk \in Int /\ fraud.clique \in Estimate
        /\ One \in Estimate /\ One # Nothing /\ One \in Int
    BY ScoreEngineAssumption DEF FraudEstimate, Estimate, One
  <1>2. sure \in FraudEstimate
    BY <1>1 DEF FraudEstimate
  <1>3. /\ sure.risk = One /\ sure.clique = fraud.clique /\ sure.refined = fraud.refined
        /\ sure.present = fraud.present /\ sure.confidence = fraud.confidence
    BY DEF FraudEstimate
  <1>4. weight \in Nat \ {0}
    OBVIOUS
  <1>5. rest \in Nat
    <2>1. CASE fraud.clique = Nothing
      BY <2>1
    <2>2. CASE fraud.clique # Nothing
      <3> DEFINE c == Clamp01(fraud.clique)
      <3>1. c \in 0..One
        BY <1>1, <2>2, Clamp01InRange DEF Estimate
      <3> HIDE DEF c
      <3>2. 35 * c \in Nat
        BY <3>1
      <3> QED BY <2>2, <3>2 DEF c
    <2> QED BY <2>1, <2>2
  <1> HIDE DEF sure
  <1>6. CASE ~fraud.present \/ fraud.refined # Nothing
    <2>1. AuthenticitySubscore(sure) = AuthenticitySubscore(fraud)
      BY <1>3, <1>6 DEF AuthenticitySubscore
    <2> QED BY <1>2, <2>1, AuthenticityIsSubscore, SubscoreIs DEF sure
  <1>7. CASE fraud.present /\ fraud.refined = Nothing
    <2>1. AuthenticitySubscore(fraud) = of(fraud.risk) /\ AuthenticitySubscore(sure) = of(One)
      BY <1>1, <1>3, <1>4, <1>7 DEF AuthenticitySubscore
    <2> DEFINE x == Clamp01(fraud.risk)
               y == Clamp01(One)
    <2>2. x \in 0..One /\ y = One
      <3>1. x \in 0..One
        BY <1>1, Clamp01InRange
      <3>2. y = One
        BY DEF Clamp01, Clamp, One
      <3> QED BY <3>1, <3>2
    <2> HIDE DEF x, y, rest, weight
    <2> DEFINE p == (65 * x + rest) \div weight
               q == (65 * y + rest) \div weight
    <2>3. p <= q /\ p \in Int /\ q \in Int
      <3>1. 65 * x + rest \in Int /\ 65 * y + rest \in Int /\ 65 * x + rest <= 65 * y + rest
        BY <1>5, <2>2 DEF One
      <3> QED BY <1>4, <3>1, DivisionGrows, DivisionIs
    <2> HIDE DEF p, q
    <2> DEFINE u == Clamp01(p)
               v == Clamp01(q)
    <2>4. u <= v /\ u \in 0..One /\ v \in 0..One
      BY <2>3, ClampGrows, Clamp01InRange
    <2> HIDE DEF u, v
    <2>5. One - v <= One - u
      BY <2>4 DEF One
    <2>6. of(fraud.risk).value = One - u /\ of(One).value = One - v /\ of(fraud.risk).support = of(One).support
      BY DEF Sub, u, v, p, q, x, y
    <2> HIDE DEF of
    <2>7. NoBetter(of(One), of(fraud.risk))
      BY <2>5, <2>6 DEF NoBetter
    <2> QED BY <1>2, <2>1, <2>7 DEF sure
  <1> QED BY <1>6, <1>7

\* What a purchase does to the factors but Consistency, whoever notices it.
LEMMA PurchaseNeverHelps ==
  ASSUME NEW in, Sound(in), NEW to, Grown(to.snaps, in.snaps), to.bench = in.bench,
         to.fraud \in FraudEstimate,
         NoBetter(AuthenticitySubscore(to.fraud), AuthenticitySubscore(in.fraud)),
         MaxFollowers(to.snaps) < AudienceFloor <=> MaxFollowers(in.snaps) < AudienceFloor
  PROVE  NoGain(Composite(in.weights, [FactorsOf(to) EXCEPT ![3] = FactorsOf(in)[3]]), Compute(in))
  <1> DEFINE snaps == in.snaps
             bought == to.snaps
             b == in.bench
             e == EngagementSubscore(snaps, b)
             e2 == EngagementSubscore(bought, b)
             a == AuthenticitySubscore(in.fraud)
             a2 == AuthenticitySubscore(to.fraud)
             d == ContentSubscore(snaps)
             r == ReelsRetentionSubscore(snaps)
  <1>1. snaps \in Seq(Snapshot) /\ bought \in Seq(Snapshot) /\ Grown(bought, snaps) /\ Usable(b)
    <2>1. bought \in Seq(Snapshot)
      BY DEF Grown
    <2> QED BY <2>1 DEF Sound, Whole
  <1>2. /\ e \in Subscore /\ e2 \in Subscore /\ a \in Subscore /\ a2 \in Subscore
        /\ d \in Subscore /\ r \in Subscore
    BY <1>1, EngagementIsSubscore, AuthenticityIsSubscore, ContentIsSubscore, ReelsIsSubscore DEF Sound
  <1>3. NoBetter(e2, e) /\ NoBetter(a2, a)
    BY <1>1, EngagementFalls
  <1>4. ContentSubscore(bought) = d /\ ReelsRetentionSubscore(bought) = r
    <2>1. ContentSubscore(bought) = d
      BY <1>1, SamePosts DEF ContentSubscore
    <2>2. ReelsRetentionSubscore(bought) = r
      BY <1>1, SamePosts DEF ReelsRetentionSubscore
    <2> QED BY <2>1, <2>2
  <1>5. BrandFitSubscore(bought) = BrandFitSubscore(snaps)
    BY <1>1, SamePosts DEF BrandFitSubscore
  <1>7. AudienceQualitySubscore(bought) = AudienceQualitySubscore(snaps)
    BY <1>1, SameAudience
  <1> DEFINE f == FactorsOf(in)
             g == [FactorsOf(to) EXCEPT ![3] = f[3]]
             x == EngagementAuthenticity(e, a, d, r)
             x2 == EngagementAuthenticity(e2, a2, d, r)
             y == AudienceQualitySubscore(snaps)
             z == ConsistencySubscore(snaps, in.history)
             t == BrandFitSubscore(snaps)
             z2 == ConsistencySubscore(bought, to.history)
  <1>8. f \in [1..4 -> Subscore]
    BY FactorsAreSubscores
  <1> HIDE DEF e, e2, a, a2, d, r
  <1>9. f = <<x, y, z, t>> /\ FactorsOf(to) = <<x2, y, z2, t>>
    BY <1>4, <1>5, <1>7 DEF FactorsOf, e, e2, a, a2, d, r
  <1>10. x2 \in Subscore /\ NoBetter(x2, x)
    BY <1>2, <1>3, AuthenticityGrows
  <1> HIDE DEF x, x2, y, z, z2, t
  <1>11. g = <<x2, y, z, t>>
    <2> HIDE DEF f
    <2> QED BY <1>9
  <1> HIDE DEF f, g
  <1>12. g \in [1..4 -> Subscore] /\ \A j \in 1..4 : NoBetter(g[j], f[j])
    <2>1. f[1] = x /\ f[2] = y /\ f[3] = z /\ f[4] = t
      BY <1>9
    <2>2. y \in Subscore /\ z \in Subscore /\ t \in Subscore
      BY <1>8, <2>1
    <2>3. g[1] = x2 /\ g[2] = y /\ g[3] = z /\ g[4] = t
      BY <1>11
    <2>4. NoBetter(y, y) /\ NoBetter(z, z) /\ NoBetter(t, t)
      BY <2>2, SubscoreIs
    <2>5. g \in [1..4 -> Subscore]
      BY <1>10, <1>11, <2>2
    <2> QED BY <1>10, <2>1, <2>3, <2>4, <2>5
  <1> DEFINE w == in.weights
  <1>13. w \in [1..4 -> Nat]
    BY DEF Sound
  <1>14. Compute(in) = Composite(w, f)
    BY DEF Compute, f
  <1> HIDE DEF w
  <1>15. /\ Composite(w, g) = Withheld <=> Composite(w, f) = Withheld
         /\ Composite(w, f) # Withheld => Composite(w, g).overall <= Composite(w, f).overall
    BY <1>8, <1>12, <1>13, ScoreFollowsFactors
  <1>16. NoGain(Composite(w, g), Compute(in))
    BY <1>14, <1>15 DEF NoGain
  <1> QED BY <1>16 DEF w, g, f

-----------------------------------------------------------------------------
(* THE SCORING OF AUDITS *)

LEMMA TiersAre == /\ ToSet(BootTiers) = {"nano", "micro", "mid", "macro", "mega"}
                  /\ Len(BootTiers) = 5
                  /\ \A i, j \in 1..5 : BootTiers[i] = BootTiers[j] => i = j
                  /\ \A i \in 1..5 : BootTiers[i] \in ToSet(BootTiers)
  BY DEF BootTiers, ToSet

-----------------------------------------------------------------------------
(* The inductive invariant *)

\* What a recompute task has still to publish.
Publishable(c) == BandRow(c) /\ c.source = "corpus" /\ c.active

\* The version a publication took when it began: one more than the newest of the cell,
\* which another publication may have used meanwhile.
NextVersion(rows, c, v) ==
  LET cell == {b \in rows : SameCell(c, b)} IN
  /\ v \in Nat \ {0}
  /\ v = 1 \/ \E b \in cell : b.version = v - 1
  /\ (\E b \in cell : b.version = v) \/ (\A b \in cell : b.version < v)

NightsRight ==
  /\ DOMAIN night = Nights
  /\ \A r \in Nights :
       /\ night[r].pc \in {"cells", "tx"} => serving
       /\ \A c \in night[r].cells : Publishable(c)
       /\ night[r].pc = "tx" => Publishable(night[r].next) /\ NextVersion(bench, night[r].next, night[r].version)

RunsRight ==
  /\ niche \in [People -> Niches \cup {""}]
  /\ DOMAIN run = Audits
  /\ \A a \in Audits :
       /\ DOMAIN run[a] = {"pc", "pull", "niche", "bench"}
       /\ run[a].pc \in {"queued", "niche", "ready", "withheld", "scored", "reported"}
       /\ run[a].pc # "queued" => /\ run[a].pull \in DOMAIN Pulls
                                  /\ run[a].niche \in Niches \cup {Baseline}
       /\ run[a].pc \notin {"queued", "niche"} => Usable(run[a].bench)

\* What the engine gives: shares, subscores and a rate that is no less than nothing.
Graded(s) ==
  /\ s.overall \in Share /\ s.confidence \in Share
  /\ s.factors \in [1..4 -> Subscore]
  /\ s.rate \in Nat \cup {Nothing}

\* A created_at names one score, and none is later than the last insert.
ScoresRight ==
  /\ DOMAIN score = Audits
  /\ \A a \in Audits :
       /\ score[a].created \in Nat /\ score[a].created <= Inserted
       /\ Scored(a) => /\ score[a].person = PersonOf[a] /\ <<score[a].niche, score[a].tier>> \in Cells
                       /\ Graded(score[a])
  /\ \A a, o \in Audits : Scored(a) /\ score[a].created = score[o].created => a = o

BenchRight ==
  /\ Table(bench)
  /\ serving \in BOOLEAN
  /\ serving => \A t \in ToSet(BootTiers) : \E b \in bench : InCell(b, <<Baseline, t>>)

RestRight ==
  /\ DOMAIN series = People /\ \A p \in People : Readings(series[p])
  /\ narrative \in [Audits -> Audits \cup {Nothing}]
  /\ faults \in 0..MaxFaults

ScoringInv == BenchRight /\ NightsRight /\ RunsRight /\ ScoresRight /\ RestRight

-----------------------------------------------------------------------------
(* What an action leaves alone *)

LEMMA BenchFrame == BenchRight /\ UNCHANGED <<bench, serving>> => BenchRight'
  BY DEF BenchRight

LEMMA NightsFrame == NightsRight /\ UNCHANGED <<night, bench, serving>> => NightsRight'
  BY DEF NightsRight

LEMMA RunsFrame == RunsRight /\ UNCHANGED <<niche, run>> => RunsRight'
  BY DEF RunsRight

LEMMA ScoresFrame == ScoresRight /\ UNCHANGED score => ScoresRight'
  BY DEF ScoresRight, Inserted, Scored

LEMMA RestFrame == RestRight /\ UNCHANGED <<series, narrative, faults>> => RestRight'
  BY DEF RestRight

LEMMA InsertedIsNatural ==
  /\ IsFiniteSet({a \in Audits : Scored(a)})
  /\ Inserted \in Nat
  <1>1. {a \in Audits : Scored(a)} \in SUBSET Audits
    OBVIOUS
  <1>2. IsFiniteSet({a \in Audits : Scored(a)})
    BY <1>1, FS_Subset, ScoringAssumption
  <1> QED BY <1>2, FS_CardinalityType DEF Inserted

LEMMA BoundsAre == MaxFaults \in Nat /\ MinDistinct \in Nat \ {0} /\ Extra \in Nat
  BY ScoringAssumption

LEMMA InitialIsRight ==
  ASSUME ScoringInit
  PROVE  ScoringInv
  <1>1. BenchRight
    BY ScoringAssumption DEF ScoringInit, BenchRight
  <1>2. NightsRight
    BY DEF ScoringInit, NightsRight, Asleep
  <1>3. RunsRight
    BY ScoringAssumption DEF ScoringInit, RunsRight, NoRun
  <1>4. ScoresRight
    <2>1. \A a \in Audits : score[a].created = 0
      BY DEF ScoringInit, NoScore
    <2> QED BY <2>1, InsertedIsNatural DEF ScoringInit, ScoresRight, Scored
  <1>5. RestRight
    <2>1. DOMAIN series = People /\ \A p \in People : series[p] = Earlier[p]
      BY ScoringAssumption DEF ScoringInit
    <2>2. \A p \in People : Readings(Earlier[p])
      BY ScoringAssumption DEF Readings
    <2>3. narrative \in [Audits -> Audits \cup {Nothing}]
      BY DEF ScoringInit
    <2>4. faults \in 0..MaxFaults
      BY BoundsAre DEF ScoringInit
    <2> QED BY <2>1, <2>2, <2>3, <2>4 DEF RestRight
  <1> QED BY <1>1, <1>2, <1>3, <1>4, <1>5 DEF ScoringInv

-----------------------------------------------------------------------------
(* The benchmark table *)

\* In a cell the active row is the only one that is active, and the newest.
LEMMA ActiveIsNewest ==
  ASSUME Table(bench), NEW b \in bench, NEW o \in bench, SameCell(b, o), b.active
  PROVE  o.version <= b.version /\ (o.active => b = o)
  <1>1. b.version \in Nat /\ o.version \in Nat
    BY DEF Table, BandRow
  <1>2. o.version <= b.version
    BY DEF Table
  <1>3. ASSUME o.active PROVE b = o
    <2>1. SameCell(o, b)
      BY DEF SameCell, InCell
    <2>2. b.version <= o.version
      BY <1>3, <2>1 DEF Table
    <2> QED BY <1>1, <1>2, <2>2 DEF Table
  <1> QED BY <1>2, <1>3

\* What a boot inserts: nothing, or the second version of an empty cell.
LEMMA SeedIsFirst ==
  ASSUME Table(bench), NEW t \in ToSet(BootTiers), Seedable(t),
         NEW b \in InsertBenchmarkIfAbsent(t)
  PROVE  /\ BandRow(b) /\ b.version = BootstrapVersion /\ b.active
         /\ b.niche = Baseline /\ b.tier = t
         /\ b = Row(<<Baseline, t>>, BootstrapVersion, "bootstrap", BootstrapBand(t), 0, {})
         /\ \A o \in bench : ~SameCell(b, o)
  <1>1. /\ ~\E o \in bench : InCell(o, <<Baseline, t>>) /\ o.version = BootstrapVersion
        /\ b = Row(<<Baseline, t>>, BootstrapVersion, "bootstrap", BootstrapBand(t), 0, {})
    BY DEF InsertBenchmarkIfAbsent
  <1>2. /\ b.niche = Baseline /\ b.tier = t /\ b.version = 2 /\ b.active /\ b.source = "bootstrap"
    BY <1>1 DEF Row, BootstrapVersion
  <1>3. BandRow(b)
    <2>1. <<b.niche, b.tier>> \in Cells
      BY <1>2 DEF Cells
    <2>2. b \in [niche : {b.niche}, tier : {b.tier}, version : Nat,
                 source : {"bootstrap", "corpus"}, band : {b.band}, sample : Nat,
                 people : SUBSET People, active : BOOLEAN]
      BY <1>1 DEF Row, BootstrapVersion
    <2>3. Ascending(b.band)
      BY <1>1, TiersAre, BootstrapBandsAscend DEF Row
    <2> QED BY <1>2, <2>1, <2>2, <2>3 DEF BandRow
  <1>4. ActiveIn(<<Baseline, t>>) = {}
    BY <1>1 DEF Seedable
  <1>5. ASSUME NEW o \in bench, SameCell(b, o) PROVE FALSE
    <2>1. PICK x \in bench : SameCell(o, x) /\ x.active
      BY DEF Table
    <2>2. InCell(x, <<Baseline, t>>)
      BY <1>2, <1>5, <2>1 DEF SameCell, InCell
    <2> QED BY <1>4, <2>1, <2>2 DEF ActiveIn
  <1> QED BY <1>1, <1>2, <1>3, <1>5 DEF BootstrapVersion

LEMMA BootIsRight ==
  ASSUME ScoringInv, NEW n \in 0..Len(BootTiers), EnsureBootstrap(n)
  PROVE  ScoringInv'
  <1> DEFINE seeds == UNION {InsertBenchmarkIfAbsent(BootTiers[i]) : i \in 1..n}
  <1>1. /\ ~serving /\ bench' = bench \cup seeds /\ serving' = (n = 5)
        /\ \A i \in 1..n : Seedable(BootTiers[i])
        /\ UNCHANGED <<niche, run, score, narrative, series, night, faults>>
        /\ n \in 0..5
    BY TiersAre DEF EnsureBootstrap
  <1>2. \A i \in 1..n : i \in 1..5 /\ BootTiers[i] \in ToSet(BootTiers)
    BY <1>1, TiersAre
  <1>3. Table(bench)
    BY DEF ScoringInv, BenchRight
  <1>4. ASSUME NEW b \in seeds
        PROVE  /\ BandRow(b) /\ b.version = 2 /\ b.active
               /\ \A o \in bench : ~SameCell(b, o)
               /\ \A o \in seeds : SameCell(b, o) => b = o
    <2>1. PICK i \in 1..n : b \in InsertBenchmarkIfAbsent(BootTiers[i])
      OBVIOUS
    <2>2. /\ BandRow(b) /\ b.version = 2 /\ b.active /\ b.tier = BootTiers[i]
          /\ b = Row(<<Baseline, BootTiers[i]>>, BootstrapVersion, "bootstrap", BootstrapBand(BootTiers[i]), 0, {})
          /\ \A o \in bench : ~SameCell(b, o)
      BY <1>1, <1>2, <1>3, <2>1, SeedIsFirst DEF BootstrapVersion
    <2>3. ASSUME NEW o \in seeds, SameCell(b, o) PROVE b = o
      <3>1. PICK j \in 1..n : o \in InsertBenchmarkIfAbsent(BootTiers[j])
        OBVIOUS
      <3>2. /\ o.tier = BootTiers[j]
            /\ o = Row(<<Baseline, BootTiers[j]>>, BootstrapVersion, "bootstrap", BootstrapBand(BootTiers[j]), 0, {})
        BY <1>1, <1>2, <1>3, <3>1, SeedIsFirst
      <3>3. b.tier = o.tier
        BY <2>3 DEF SameCell, InCell
      <3> QED BY <2>2, <3>2, <3>3
    <2> QED BY <2>2, <2>3
  <1>5. Table(bench')
    <2>1. ASSUME NEW b \in bench'
          PROVE  /\ BandRow(b) /\ b.version > 0
                 /\ \E o \in bench' : SameCell(b, o) /\ o.active
      <3>1. CASE b \in bench
        BY <1>1, <1>3, <3>1 DEF Table
      <3>2. CASE b \in seeds
        BY <1>1, <1>4, <3>2 DEF SameCell, InCell
      <3> QED BY <1>1, <3>1, <3>2
    <2>2. ASSUME NEW b \in bench', NEW o \in bench', SameCell(b, o)
          PROVE  /\ b.version = o.version => b = o
                 /\ b.active => o.version <= b.version
      <3>1. SameCell(o, b)
        BY <2>2 DEF SameCell, InCell
      <3>2. CASE b \in bench /\ o \in bench
        BY <1>3, <2>2, <3>2 DEF Table
      <3>3. CASE b \in seeds /\ o \in seeds
        BY <1>4, <2>2, <3>3
      <3>4. CASE b \in seeds /\ o \in bench
        BY <1>4, <2>2, <3>4
      <3>5. CASE b \in bench /\ o \in seeds
        BY <1>4, <3>1, <3>5
      <3> QED BY <1>1, <3>2, <3>3, <3>4, <3>5
    <2> QED BY <2>1, <2>2 DEF Table
  <1>6. ASSUME serving', NEW t \in ToSet(BootTiers)
        PROVE  \E b \in bench' : InCell(b, <<Baseline, t>>)
    <2>1. n = 5
      BY <1>1, <1>6
    <2>2. PICK i \in 1..n : BootTiers[i] = t
      BY <2>1, <1>6 DEF ToSet, BootTiers
    <2>3. CASE \E b \in bench : InCell(b, <<Baseline, t>>) /\ b.version = BootstrapVersion
      BY <1>1, <2>3
    <2>4. CASE ~\E b \in bench : InCell(b, <<Baseline, t>>) /\ b.version = BootstrapVersion
      <3> DEFINE new == Row(<<Baseline, t>>, BootstrapVersion, "bootstrap", BootstrapBand(t), 0, {})
      <3>1. new \in InsertBenchmarkIfAbsent(BootTiers[i])
        BY <2>2, <2>4 DEF InsertBenchmarkIfAbsent
      <3>2. new \in bench'
        BY <1>1, <3>1
      <3>3. InCell(new, <<Baseline, t>>)
        BY DEF Row, InCell
      <3> QED BY <3>2, <3>3
    <2> QED BY <2>3, <2>4
  <1>7. BenchRight'
    BY <1>1, <1>5, <1>6 DEF BenchRight
  <1>8. NightsRight'
    BY <1>1 DEF ScoringInv, NightsRight
  <1>9. RunsRight' /\ ScoresRight' /\ RestRight'
    BY <1>1, RunsFrame, ScoresFrame, RestFrame DEF ScoringInv
  <1> QED BY <1>7, <1>8, <1>9 DEF ScoringInv

-----------------------------------------------------------------------------
(* Publishing a band *)

LEMMA CellsAgree ==
  ASSUME NEW b, NEW c
  PROVE  /\ InCell(b, <<c.niche, c.tier>>) <=> SameCell(b, c)
         /\ SameCell(b, c) <=> SameCell(c, b)
  BY DEF InCell, SameCell

LEMMA NewestOfCell ==
  ASSUME Table(bench), NEW c,
         NEW versions, versions = {b.version : b \in {x \in bench : InCell(x, <<c.niche, c.tier>>)}} \cup {0}
  PROVE  NextVersion(bench, c, (CHOOSE v \in versions : \A o \in versions : o <= v) + 1)
  <1> DEFINE cell == {b \in bench : SameCell(c, b)}
             newest == CHOOSE v \in versions : \A o \in versions : o <= v
  <1>1. \A b \in cell : b.version \in Nat /\ b.version > 0
    BY DEF Table, BandRow
  <1>2. versions = {b.version : b \in cell} \cup {0}
    BY CellsAgree
  <1>3. \E v \in versions : \A o \in versions : o <= v
    <2>1. CASE cell = {}
      BY <1>2, <2>1
    <2>2. CASE cell # {}
      <3>1. PICK x \in cell : TRUE
        BY <2>2
      <3>2. PICK b \in bench : SameCell(x, b) /\ b.active
        BY <3>1 DEF Table
      <3>3. b \in cell
        BY <3>1, <3>2 DEF SameCell, InCell
      <3>4. ASSUME NEW o \in cell PROVE o.version <= b.version
        <4>1. SameCell(b, o)
          BY <3>3 DEF SameCell, InCell
        <4> QED BY <3>2, <4>1 DEF Table
      <3>5. b.version \in versions /\ \A o \in versions : o <= b.version
        BY <1>1, <1>2, <3>3, <3>4
      <3> QED BY <3>5
    <2> QED BY <2>1, <2>2
  <1>4. newest \in versions /\ \A o \in versions : o <= newest
    BY <1>3
  <1>5. newest \in Nat
    <2>1. versions \subseteq Nat
      BY <1>1, <1>2
    <2> HIDE DEF newest
    <2> QED BY <1>4, <2>1
  <1> HIDE DEF newest
  <1>6. newest + 1 \in Nat \ {0}
    BY <1>5
  <1>7. newest + 1 = 1 \/ \E b \in cell : b.version = (newest + 1) - 1
    BY <1>2, <1>4, <1>5
  <1>8. \A b \in cell : b.version < newest + 1
    BY <1>1, <1>2, <1>4, <1>5
  <1> QED BY <1>6, <1>7, <1>8 DEF NextVersion, newest

LEMMA BeginIsRight ==
  ASSUME ScoringInv, NEW r \in Nights, BeginPublish(r)
  PROVE  ScoringInv'
  <1>1. PICK c \in night[r].cells :
          LET versions == {b.version : b \in {x \in bench : InCell(x, <<c.niche, c.tier>>)}} \cup {0}
          IN night' = [night EXCEPT ![r] =
               [pc |-> "tx", cells |-> night[r].cells \ {c}, next |-> c,
                version |-> (CHOOSE v \in versions : \A o \in versions : o <= v) + 1]]
    BY DEF BeginPublish
  <1> DEFINE versions == {b.version : b \in {x \in bench : InCell(x, <<c.niche, c.tier>>)}} \cup {0}
             v == (CHOOSE w \in versions : \A o \in versions : o <= w) + 1
  <1>2. NextVersion(bench, c, v)
    BY NewestOfCell DEF ScoringInv, BenchRight
  <1>3. night' = [night EXCEPT ![r] = [pc |-> "tx", cells |-> night[r].cells \ {c}, next |-> c, version |-> v]]
    BY <1>1
  <1> HIDE DEF v
  <1>4. /\ night[r].pc = "cells" /\ DOMAIN night = Nights
        /\ UNCHANGED <<niche, bench, serving, run, score, narrative, series, faults>>
    BY DEF BeginPublish, ScoringInv, NightsRight
  <1>5. NightsRight'
    <2>1. DOMAIN night' = Nights
      BY <1>3, <1>4
    <2>2. ASSUME NEW q \in Nights
          PROVE  /\ night'[q].pc \in {"cells", "tx"} => serving'
                 /\ \A x \in night'[q].cells : Publishable(x)
                 /\ night'[q].pc = "tx" => /\ Publishable(night'[q].next)
                                           /\ NextVersion(bench', night'[q].next, night'[q].version)
      <3>1. CASE q = r
        <4>1. /\ night'[q].cells = night[r].cells \ {c} /\ night'[q].next = c
              /\ night'[q].version = v /\ night'[q].pc = "tx"
          BY <1>3, <1>4, <3>1
        <4>2. serving' /\ Publishable(c) /\ \A x \in night[r].cells : Publishable(x)
          BY <1>4 DEF ScoringInv, NightsRight
        <4>3. NextVersion(bench', night'[q].next, night'[q].version)
          BY <1>2, <1>4, <4>1
        <4> QED BY <4>1, <4>2, <4>3
      <3>2. CASE q # r
        BY <1>3, <1>4, <3>2 DEF ScoringInv, NightsRight
      <3> QED BY <3>1, <3>2
    <2> QED BY <2>1, <2>2 DEF NightsRight
  <1> QED BY <1>4, <1>5, BenchFrame, RunsFrame, ScoresFrame, RestFrame DEF ScoringInv

LEMMA PublishIsRight ==
  ASSUME ScoringInv, NEW r \in Nights, PublishCorpusBenchmark(r)
  PROVE  ScoringInv'
  <1> DEFINE c == night[r].next
             v == night[r].version
             taken == \E b \in bench : InCell(b, <<c.niche, c.tier>>) /\ b.version = v
             new == [c EXCEPT !.version = v]
             kept(b) == IF SameCell(b, c) THEN [b EXCEPT !.active = FALSE] ELSE b
  <1>1. /\ night[r].pc = "tx" /\ Publishable(c) /\ NextVersion(bench, c, v)
        /\ DOMAIN night = Nights /\ serving /\ Table(bench)
        /\ UNCHANGED <<niche, serving, run, score, narrative, series, faults>>
    BY DEF PublishCorpusBenchmark, ScoringInv, NightsRight, BenchRight
  <1>2. CASE taken /\ night' = [night EXCEPT ![r] = Asleep] /\ UNCHANGED bench
    <2>1. NightsRight'
      BY <1>1, <1>2 DEF ScoringInv, NightsRight, Asleep
    <2> QED BY <1>1, <1>2, <2>1, BenchFrame, RunsFrame, ScoresFrame, RestFrame DEF ScoringInv
  <1>3. CASE ~taken /\ bench' = Published(c, v) /\ night' = [night EXCEPT ![r] = AtCells(night[r].cells)]
    <2>1. bench' = {kept(b) : b \in bench} \cup {new}
      BY <1>3, CellsAgree DEF Published
    <2>2. ASSUME NEW b \in bench
          PROVE  /\ BandRow(b) /\ b.version \in Nat \ {0}
                 /\ kept(b).niche = b.niche /\ kept(b).tier = b.tier /\ kept(b).version = b.version
                 /\ BandRow(kept(b))
                 /\ ~SameCell(b, c) => kept(b) = b
                 /\ SameCell(b, c) => ~kept(b).active
      <3>1. BandRow(b) /\ b.version \in Nat \ {0}
        BY <1>1 DEF Table, BandRow
      <3>2. CASE SameCell(b, c)
        <4>1. kept(b) = [niche |-> b.niche, tier |-> b.tier, version |-> b.version, source |-> b.source,
                         band |-> b.band, sample |-> b.sample, people |-> b.people, active |-> FALSE]
          BY <3>1, <3>2 DEF BandRow
        <4> HIDE DEF kept
        <4>2. /\ kept(b).niche = b.niche /\ kept(b).tier = b.tier /\ kept(b).version = b.version
              /\ kept(b).source = b.source /\ kept(b).sample = b.sample /\ kept(b).people = b.people
              /\ kept(b).band = b.band /\ ~kept(b).active
          BY <4>1
        <4>3. BandRow(kept(b))
          BY <3>1, <4>1, <4>2 DEF BandRow
        <4> QED BY <3>1, <3>2, <4>2, <4>3
      <3>3. CASE ~SameCell(b, c)
        BY <3>1, <3>3
      <3> QED BY <3>2, <3>3
    <2>3. /\ new.niche = c.niche /\ new.tier = c.tier /\ new.version = v /\ new.active
          /\ BandRow(new) /\ v \in Nat \ {0}
      <3>1. v \in Nat \ {0}
        BY <1>1 DEF NextVersion
      <3>2. new = [niche |-> c.niche, tier |-> c.tier, version |-> v, source |-> c.source,
                   band |-> c.band, sample |-> c.sample, people |-> c.people, active |-> c.active]
        <4>1. c \in [niche : {c.niche}, tier : {c.tier}, version : Nat, source : {"bootstrap", "corpus"},
                     band : {c.band}, sample : Nat, people : SUBSET People, active : BOOLEAN]
          BY <1>1 DEF Publishable, BandRow
        <4> HIDE DEF c, v
        <4> QED BY <4>1 DEF new
      <3> HIDE DEF new
      <3>3. /\ new.niche = c.niche /\ new.tier = c.tier /\ new.version = v /\ new.active
            /\ new.source = c.source /\ new.sample = c.sample /\ new.people = c.people
            /\ new.band = c.band
        BY <1>1, <3>2 DEF Publishable
      <3>4. BandRow(new)
        BY <1>1, <3>1, <3>2, <3>3 DEF Publishable, BandRow
      <3> QED BY <3>1, <3>3, <3>4
    <2>4. ASSUME NEW b \in bench, SameCell(b, c) PROVE b.version < v
      <3>1. ~\E o \in {x \in bench : SameCell(c, x)} : o.version = v
        BY <1>3, CellsAgree
      <3>2. \A o \in {x \in bench : SameCell(c, x)} : o.version < v
        BY <1>1, <3>1 DEF NextVersion
      <3> QED BY <2>4, <3>2, CellsAgree
    <2> HIDE DEF kept, new, taken, c, v
    <2>5. Table(bench')
      <3>1. ASSUME NEW b \in bench'
            PROVE  /\ BandRow(b) /\ b.version > 0
                   /\ \E o \in bench' : SameCell(b, o) /\ o.active
        <4>1. CASE b = new
          BY <2>1, <2>3, <4>1 DEF SameCell, InCell
        <4>2. CASE b # new
          <5>1. PICK x \in bench : b = kept(x)
            BY <2>1, <4>2
          <5>2. BandRow(b) /\ b.version > 0
            BY <2>2, <5>1
          <5>3. CASE SameCell(x, c)
            <6>1. SameCell(b, new)
              BY <2>2, <2>3, <5>1, <5>3 DEF SameCell, InCell
            <6> QED BY <2>1, <2>3, <5>2, <6>1
          <5>4. CASE ~SameCell(x, c)
            <6>1. PICK o \in bench : SameCell(x, o) /\ o.active
              BY <1>1 DEF Table
            <6>2. ~SameCell(o, c)
              BY <5>4, <6>1 DEF SameCell, InCell
            <6>3. o \in bench' /\ SameCell(b, o)
              BY <2>1, <2>2, <5>1, <5>4, <6>1, <6>2
            <6> QED BY <5>2, <6>1, <6>3
          <5> QED BY <5>3, <5>4
        <4> QED BY <4>1, <4>2
      <3>2. ASSUME NEW b \in bench', NEW o \in bench', SameCell(b, o)
            PROVE  /\ b.version = o.version => b = o
                   /\ b.active => o.version <= b.version
        <4>1. CASE b = new /\ o = new
          BY <2>3, <4>1
        <4>2. CASE b = new /\ o # new
          <5>1. PICK y \in bench : o = kept(y)
            BY <2>1, <4>2
          <5>2. SameCell(y, c)
            BY <2>2, <2>3, <3>2, <4>2, <5>1 DEF SameCell, InCell
          <5>3. o.version < v /\ o.version \in Nat
            BY <2>2, <2>4, <5>1, <5>2
          <5> QED BY <2>3, <4>2, <5>3
        <4>3. CASE b # new /\ o = new
          <5>1. PICK x \in bench : b = kept(x)
            BY <2>1, <4>3
          <5>2. SameCell(x, c)
            BY <2>2, <2>3, <3>2, <4>3, <5>1 DEF SameCell, InCell
          <5>3. b.version < v /\ b.version \in Nat /\ ~b.active
            BY <2>2, <2>4, <5>1, <5>2
          <5> QED BY <2>3, <4>3, <5>3
        <4>4. CASE b # new /\ o # new
          <5>1. PICK x \in bench : b = kept(x)
            BY <2>1, <4>4
          <5>2. PICK y \in bench : o = kept(y)
            BY <2>1, <4>4
          <5>3. SameCell(x, y)
            BY <2>2, <3>2, <5>1, <5>2 DEF SameCell, InCell
          <5>4. /\ x.version = y.version => x = y
                /\ x.active => y.version <= x.version
            BY <1>1, <5>3 DEF Table
          <5>5. b.version = x.version /\ o.version = y.version
            BY <2>2, <5>1, <5>2
          <5>6. b.active => x.active
            BY <2>2, <5>1
          <5> QED BY <5>1, <5>2, <5>4, <5>5, <5>6
        <4> QED BY <4>1, <4>2, <4>3, <4>4
      <3> QED BY <3>1, <3>2 DEF Table
    <2>6. ASSUME NEW t \in ToSet(BootTiers)
          PROVE  \E b \in bench' : InCell(b, <<Baseline, t>>)
      <3>1. PICK x \in bench : InCell(x, <<Baseline, t>>)
        BY <1>1 DEF ScoringInv, BenchRight
      <3>2. kept(x) \in bench' /\ InCell(kept(x), <<Baseline, t>>)
        BY <2>1, <2>2, <3>1 DEF InCell
      <3> QED BY <3>2
    <2>7. BenchRight'
      BY <1>1, <2>5, <2>6 DEF BenchRight, ScoringInv
    <2>8. ASSUME NEW q \in Nights, q # r, night[q].pc = "tx"
          PROVE  NextVersion(bench', night[q].next, night[q].version)
      <3> DEFINE d == night[q].next
                 w == night[q].version
                 old == {b \in bench : SameCell(d, b)}
                 now == {b \in bench' : SameCell(d, b)}
      <3>1. NextVersion(bench, d, w)
        BY <2>8 DEF ScoringInv, NightsRight
      <3> HIDE DEF d, w
      <3>2. /\ w \in Nat \ {0}
            /\ w = 1 \/ \E b \in old : b.version = w - 1
            /\ (\E b \in old : b.version = w) \/ (\A b \in old : b.version < w)
        BY <3>1 DEF NextVersion
      <3>3. ASSUME NEW b \in old PROVE kept(b) \in now /\ kept(b).version = b.version
        BY <2>1, <2>2 DEF SameCell, InCell
      <3>4. ASSUME NEW b \in now, b # new
            PROVE  \E x \in old : b.version = x.version
        <4>1. PICK x \in bench : b = kept(x)
          BY <2>1, <3>4
        <4>2. SameCell(d, x) /\ b.version = x.version
          BY <2>2, <4>1 DEF SameCell, InCell
        <4> QED BY <4>2
      <3>5. CASE ~SameCell(d, c)
        <4>1. new \notin now
          BY <2>3, <3>5 DEF SameCell, InCell
        <4>2. w = 1 \/ \E b \in now : b.version = w - 1
          BY <3>2, <3>3
        <4>3. (\E b \in now : b.version = w) \/ (\A b \in now : b.version < w)
          <5>1. CASE \E b \in old : b.version = w
            BY <3>3, <5>1
          <5>2. CASE \A b \in old : b.version < w
            BY <3>4, <4>1, <5>2
          <5> QED BY <3>2, <5>1, <5>2
        <4> QED BY <3>2, <4>2, <4>3 DEF NextVersion, d, w
      <3>6. CASE SameCell(d, c)
        <4>1. \A b \in old : b.version < v /\ b.version \in Nat
          <5>1. \A b \in old : SameCell(b, c)
            BY <3>6 DEF SameCell, InCell
          <5> QED BY <2>2, <2>4, <5>1
        <4>2. v = 1 \/ \E b \in old : b.version = v - 1
          <5>1. v = 1 \/ \E b \in {x \in bench : SameCell(c, x)} : b.version = v - 1
            BY <1>1 DEF NextVersion, c, v
          <5>2. \A b \in bench : SameCell(c, b) => SameCell(d, b)
            BY <3>6 DEF SameCell, InCell
          <5> QED BY <5>1, <5>2
        <4>3. new \in now /\ new.version = v
          BY <2>1, <2>3, <3>6 DEF SameCell, InCell
        <4>4. w = 1 \/ \E b \in now : b.version = w - 1
          BY <3>2, <3>3
        <4>5. \E b \in now : b.version = w
          <5>1. CASE \E b \in old : b.version = w
            BY <3>3, <5>1
          <5>2. CASE \A b \in old : b.version < w
            <6>1. w - 1 < v
              BY <2>3, <3>2, <4>1
            <6>2. v - 1 < w
              BY <2>3, <3>2, <4>2, <5>2
            <6>3. w = v
              BY <2>3, <3>2, <6>1, <6>2
            <6> QED BY <4>3, <6>3
          <5> QED BY <3>2, <5>1, <5>2
        <4> QED BY <3>2, <4>4, <4>5 DEF NextVersion, d, w
      <3> QED BY <3>5, <3>6
    <2>9. NightsRight'
      <3>1. DOMAIN night' = Nights /\ serving'
        BY <1>1, <1>3
      <3>2. ASSUME NEW q \in Nights
            PROVE  /\ \A x \in night'[q].cells : Publishable(x)
                   /\ night'[q].pc = "tx" => /\ Publishable(night'[q].next)
                                             /\ NextVersion(bench', night'[q].next, night'[q].version)
        <4>1. CASE q = r
          <5>1. night'[q].cells = night[r].cells /\ night'[q].pc # "tx"
            BY <1>1, <1>3, <4>1 DEF AtCells
          <5> QED BY <5>1 DEF ScoringInv, NightsRight
        <4>2. CASE q # r
          <5>1. night'[q] = night[q]
            BY <1>1, <1>3, <4>2
          <5> QED BY <2>8, <4>2, <5>1 DEF ScoringInv, NightsRight
        <4> QED BY <4>1, <4>2
      <3> QED BY <3>1, <3>2 DEF NightsRight
    <2> QED BY <1>1, <2>7, <2>9, RunsFrame, ScoresFrame, RestFrame DEF ScoringInv
  <1> QED BY <1>2, <1>3 DEF PublishCorpusBenchmark

-----------------------------------------------------------------------------
(* Counting people *)

\* An audit counts once for its person, whatever was scored before.
LEMMA OneObservationEach ==
  ASSUME ScoresRight
  PROVE  /\ IsFiniteSet(CorpusObservations)
         /\ \A x \in CorpusObservations : /\ x.person \in People /\ <<x.niche, x.tier>> \in Cells
                                          /\ x.rate \in Nat
         /\ \A x, y \in CorpusObservations : x.person = y.person => x = y
  <1> DEFINE observed == {a \in Audits : /\ Scored(a)
                                         /\ score[a].verification = "verified"
                                         /\ score[a].rate # Nothing}
             newest == {b \in observed : \A o \in observed :
                          PersonOf[o] = PersonOf[b] => score[o].created <= score[b].created}
             rowOf == [a \in newest |-> score[a]]
  <1>1. CorpusObservations = {score[a] : a \in newest}
    BY DEF CorpusObservations
  <1>2. newest \in SUBSET Audits /\ \A a \in newest : Scored(a) /\ score[a].rate # Nothing
    OBVIOUS
  <1>3. \A a, o \in newest : PersonOf[a] = PersonOf[o] =>
          score[a].created <= score[o].created /\ score[o].created <= score[a].created
    OBVIOUS
  <1> HIDE DEF newest
  <1>4. \A a \in newest : /\ score[a].person = PersonOf[a] /\ PersonOf[a] \in People
                          /\ <<score[a].niche, score[a].tier>> \in Cells
                          /\ score[a].rate \in Nat
                          /\ score[a].created \in Nat
    BY <1>2, ScoringAssumption DEF ScoresRight, Graded
  <1>5. ASSUME NEW a \in newest, NEW o \in newest, score[a].person = score[o].person
        PROVE  a = o
    <2>1. PersonOf[a] = PersonOf[o]
      BY <1>4, <1>5
    <2>2. score[a].created <= score[o].created /\ score[o].created <= score[a].created
      BY <1>3, <2>1
    <2>3. score[a].created \in Nat /\ score[o].created \in Nat
      BY <1>4
    <2>4. score[a].created = score[o].created
      BY <2>2, <2>3
    <2> QED BY <1>2, <2>4 DEF ScoresRight
  <1>6. IsFiniteSet(CorpusObservations)
    <2>1. IsFiniteSet(newest)
      BY <1>2, FS_Subset, ScoringAssumption
    <2>2. rowOf \in Surjection(newest, CorpusObservations)
      BY <1>1 DEF Surjection
    <2> QED BY <2>1, <2>2, FS_Surjection
  <1> QED BY <1>1, <1>4, <1>5, <1>6

LEMMA ObservationsArePeople ==
  ASSUME NEW obs, IsFiniteSet(obs), \A x, y \in obs : x.person = y.person => x = y
  PROVE  /\ Cardinality(obs) = Cardinality({o.person : o \in obs})
         /\ Cardinality(obs) \in Nat
  <1> DEFINE people == {o.person : o \in obs}
             person == [o \in obs |-> o.person]
  <1>1. person \in Bijection(obs, people)
    BY DEF Bijection, Injection, Surjection, IsInjective
  <1>2. ExistsBijection(obs, people)
    BY <1>1 DEF ExistsBijection
  <1> QED BY <1>2, FS_Bijection, FS_CardinalityType

\* The percentiles of a corpus ascend.
LEMMA CorpusBandAscends ==
  ASSUME NEW obs, IsFiniteSet(obs), obs # {}, \A o \in obs : o.rate \in Nat
  PROVE  Ascending(CorpusBand(obs))
  <1> DEFINE n == Cardinality(obs)
             rows == SetToSeq(obs)
             q == [i \in 1..Len(rows) |-> rows[i].rate]
             rates == Sorted(q)
             at == <<10, 25, 50, 75, 90>>
             f == [i \in 1..5 |-> PercentileCont(rates, at[i])]
  <1>1. n \in Nat \ {0}
    BY FS_CardinalityType, FS_EmptySet
  <1>2. rows \in [1..n -> obs] /\ Len(rows) = n
    <2>1. rows \in [1..n -> obs]
      BY SetToSeqType
    <2> HIDE DEF rows, n
    <2>2. Len(rows) = n
      BY <1>1, <2>1
    <2> QED BY <2>1, <2>2
  <1>3. q \in Seq(Nat) /\ Len(q) = n
    <2>1. \A i \in 1..n : rows[i].rate \in Nat
      BY <1>2
    <2>2. q = [i \in 1..n |-> rows[i].rate]
      BY <1>2
    <2> HIDE DEF rows, n, q
    <2>3. q \in [1..n -> Nat]
      BY <2>1, <2>2
    <2> QED BY <1>1, <2>3
  <1>4. CorpusBand(obs) = f
    BY DEF CorpusBand
  <1> HIDE DEF rows, q, n
  <1>5. rates \in Seq(Nat) /\ Len(rates) # 0 /\ Ordered(rates)
    <2>1. /\ rates \in Seq(Nat) /\ Len(rates) = Len(q)
          /\ \A k, l \in 1..Len(q) : k <= l => rates[k] <= rates[l]
      BY <1>3, SortedIs
    <2> HIDE DEF rates
    <2> QED BY <1>1, <1>3, <2>1 DEF Ordered
  <1> HIDE DEF rates
  <1>6. \A p, r \in 0..100 : p <= r => /\ PercentileCont(rates, p) \in Nat /\ PercentileCont(rates, r) \in Nat
                                       /\ PercentileCont(rates, p) <= PercentileCont(rates, r)
    BY <1>5, PercentileContGrows
  <1> DEFINE P(k) == PercentileCont(rates, k)
  <1>7. /\ P(10) \in Nat /\ P(25) \in Nat /\ P(50) \in Nat /\ P(75) \in Nat /\ P(90) \in Nat
        /\ P(10) <= P(25) /\ P(25) <= P(50) /\ P(50) <= P(75) /\ P(75) <= P(90)
    BY <1>6
  <1>8. f = [i \in 1..5 |-> P(at[i])]
    OBVIOUS
  <1> HIDE DEF P, f
  <1>9. f[1] = P(10) /\ f[2] = P(25) /\ f[3] = P(50) /\ f[4] = P(75) /\ f[5] = P(90)
    BY <1>8
  <1>10. f \in [1..5 -> Nat]
    <2>1. \A i \in 1..5 : i = 1 \/ i = 2 \/ i = 3 \/ i = 4 \/ i = 5
      OBVIOUS
    <2>2. \A i \in 1..5 : f[i] \in Nat
      BY <1>7, <1>9, <2>1
    <2>3. f = [i \in 1..5 |-> f[i]]
      BY <1>8
    <2> QED BY <2>2, <2>3
  <1> QED BY <1>4, <1>7, <1>9, <1>10, BandOfFive

LEMMA PublicationIsPublishable ==
  ASSUME ScoresRight, NEW c \in CorpusCells(CorpusObservations)
  PROVE  Publishable(c)
  <1> DEFINE obs == CorpusObservations
  <1>1. PICK cell \in {<<o.niche, o.tier>> : o \in obs} :
          /\ c = Publication(cell, {o \in obs : InCell(o, cell)})
          /\ Cardinality({o.person : o \in {x \in obs : InCell(x, cell)}}) >= MinDistinct
    BY DEF CorpusCells
  <1> DEFINE here == {o \in obs : InCell(o, cell)}
             people == {o.person : o \in here}
  <1>2. cell \in Cells /\ people \in SUBSET People
    BY OneObservationEach
  <1>3. IsFiniteSet(here)
    BY OneObservationEach, FS_Subset
  <1>4. \A x, y \in here : x.person = y.person => x = y
    BY OneObservationEach
  <1>5. Cardinality(here) = Cardinality(people) /\ Cardinality(here) \in Nat
    BY <1>3, <1>4, ObservationsArePeople
  <1>6. Cardinality(people) >= MinDistinct
    BY <1>1
  <1>12. Ascending(CorpusBand(here))
    <2>1. here # {}
      <3> HIDE DEF here, people
      <3>1. Cardinality(here) # 0
        BY <1>5, <1>6, BoundsAre
      <3> QED BY <3>1, FS_EmptySet
    <2>2. \A o \in here : o.rate \in Nat
      BY OneObservationEach
    <2> QED BY <1>3, <2>1, <2>2, CorpusBandAscends
  <1>7. c = Row(cell, 0, "corpus", CorpusBand(here), Cardinality(here), people)
    BY <1>1 DEF Publication
  <1>8. cell = <<cell[1], cell[2]>>
    BY <1>2 DEF Cells
  <1> HIDE DEF here, people, obs
  <1>9. /\ c.niche = cell[1] /\ c.tier = cell[2] /\ c.source = "corpus" /\ c.active
        /\ c.sample = Cardinality(here) /\ c.people = people /\ c.band = CorpusBand(here)
    BY <1>7 DEF Row
  <1>10. <<c.niche, c.tier>> \in Cells
    BY <1>2, <1>8, <1>9
  <1>11. c \in [niche : {c.niche}, tier : {c.tier}, version : Nat, source : {"bootstrap", "corpus"},
                band : {c.band}, sample : Nat, people : SUBSET People, active : BOOLEAN]
    BY <1>2, <1>5, <1>7 DEF Row
  <1> QED BY <1>5, <1>6, <1>9, <1>10, <1>11, <1>12 DEF Publishable, BandRow

LEMMA RecomputeIsRight ==
  ASSUME ScoringInv, NEW r \in Nights, RecomputeCorpus(r)
  PROVE  ScoringInv'
  <1>1. /\ serving /\ DOMAIN night = Nights
        /\ night' = [night EXCEPT ![r] = AtCells(CorpusCells(CorpusObservations))]
        /\ UNCHANGED <<niche, bench, serving, run, score, narrative, series, faults>>
    BY DEF RecomputeCorpus, ScoringInv, NightsRight
  <1>2. \A c \in CorpusCells(CorpusObservations) : Publishable(c)
    BY PublicationIsPublishable DEF ScoringInv
  <1>3. NightsRight'
    <2>1. DOMAIN night' = Nights /\ serving'
      BY <1>1
    <2>2. ASSUME NEW q \in Nights
          PROVE  /\ \A x \in night'[q].cells : Publishable(x)
                 /\ night'[q].pc = "tx" => /\ Publishable(night'[q].next)
                                           /\ NextVersion(bench', night'[q].next, night'[q].version)
      <3>1. CASE q = r
        <4>1. night'[q].cells = CorpusCells(CorpusObservations) /\ night'[q].pc # "tx"
          BY <1>1, <3>1 DEF AtCells
        <4> QED BY <1>2, <4>1
      <3>2. CASE q # r
        <4>1. night'[q] = night[q]
          BY <1>1, <3>2
        <4> QED BY <1>1, <4>1 DEF ScoringInv, NightsRight
      <3> QED BY <3>1, <3>2
    <2> QED BY <2>1, <2>2 DEF NightsRight
  <1> QED BY <1>1, <1>3, BenchFrame, RunsFrame, ScoresFrame, RestFrame DEF ScoringInv

LEMMA FailingIsRight ==
  ASSUME ScoringInv, NEW r \in Nights, NightFails(r)
  PROVE  ScoringInv'
  <1>1. /\ night' = [night EXCEPT ![r] = Asleep]
        /\ faults < MaxFaults /\ faults' = faults + 1
        /\ UNCHANGED <<niche, bench, serving, run, score, narrative, series>>
    BY DEF NightFails
  <1>2. NightsRight'
    BY <1>1 DEF ScoringInv, NightsRight, Asleep
  <1>3. RestRight'
    <2>1. faults' \in 0..MaxFaults
      <3>1. faults \in 0..MaxFaults
        BY DEF ScoringInv, RestRight
      <3> QED BY <1>1, <3>1, BoundsAre
    <2> QED BY <1>1, <2>1 DEF ScoringInv, RestRight
  <1> QED BY <1>1, <1>2, <1>3, BenchFrame, RunsFrame, ScoresFrame DEF ScoringInv

-----------------------------------------------------------------------------
(* The audits *)

LEMMA TierOfIsOne ==
  ASSUME RunsRight, NEW a \in Audits, run[a].pc # "queued"
  PROVE  TierOf(a) \in ToSet(BootTiers)
  <1>1. Pulls[run[a].pull].snaps \in Seq(Snapshot)
    BY ScoringAssumption DEF RunsRight
  <1>2. MaxFollowers(Pulls[run[a].pull].snaps) \in Nat
    BY <1>1, GreatestCount
  <1> QED BY <1>2, TierIsOne, TiersAre DEF TierOf

LEMMA PullIsWhole ==
  ASSUME NEW pull \in DOMAIN Pulls
  PROVE  Whole(Pulls[pull].snaps) /\ Pulls[pull].fraud \in FraudEstimate
  <1> DEFINE snaps == Pulls[pull].snaps
  <1>1. /\ snaps \in Seq(Snapshot) /\ Pulls[pull].fraud \in FraudEstimate
        /\ \A s \in ToSet(snaps) : IsFiniteSet(s.points)
    BY ScoringAssumption
  <1> HIDE DEF snaps
  <1>2. \A i \in 1..Len(snaps) : snaps[i] \in ToSet(snaps)
    BY <1>1, LenProperties DEF ToSet
  <1> QED BY <1>1, <1>2 DEF Whole, snaps

LEMMA InputIsSound ==
  ASSUME RunsRight, NEW a \in Audits, run[a].pc = "ready", NEW history, Readings(history)
  PROVE  Sound(Input(a, history))
  <1>1. run[a].pull \in DOMAIN Pulls /\ Usable(run[a].bench)
    BY DEF RunsRight
  <1>2. BootstrapWeights \in [1..4 -> Nat]
    BY DEF BootstrapWeights
  <1>3. Whole(Pulls[run[a].pull].snaps) /\ Pulls[run[a].pull].fraud \in FraudEstimate
    BY <1>1, PullIsWhole
  <1> QED BY <1>1, <1>2, <1>3 DEF Input, Sound

LEMMA ScoreIsGraded ==
  ASSUME NEW w \in [1..4 -> Nat], NEW f \in [1..4 -> Subscore], Composite(w, f) # Withheld
  PROVE  Composite(w, f).overall \in Share /\ Composite(w, f).confidence \in Share
  <1> DEFINE t(i) == Take(f[i], w[i] * f[i].support)
             support == t(1) + t(2) + t(3) + t(4)
             total == WeightTotal(w)
             c == Clamp01(support \div total)
  <1>1. \A i \in 1..4 : w[i] \in Nat /\ f[i] \in Subscore
    OBVIOUS
  <1>2. ASSUME NEW i \in 1..4 PROVE NoBetter(f[i], f[i]) /\ t(i) \in Nat
    <2>1. NoBetter(f[i], f[i])
      BY <1>1, SubscoreIs
    <2> QED BY <1>1, <2>1, TakenIsBounded
  <1>3. Composite(w, f).overall \in 0..One
    BY <1>2, ScoreFollowsFactors
  <1>4. total \in Nat \ {0} /\ Composite(w, f).confidence = c
    <2>1. total \in Nat
      BY <1>1 DEF WeightTotal
    <2>2. ~(total <= 0) /\ Composite(w, f).confidence = c
      BY DEF Composite
    <2> HIDE DEF total
    <2> QED BY <2>1, <2>2
  <1> HIDE DEF t, total
  <1>5. support \in Int
    <2>1. t(1) \in Nat /\ t(2) \in Nat /\ t(3) \in Nat /\ t(4) \in Nat
      BY <1>2
    <2> QED BY <2>1
  <1> HIDE DEF support
  <1>6. c \in 0..One
    <2>1. support \div total \in Int
      BY <1>4, <1>5, DivisionIs
    <2> QED BY <2>1, Clamp01InRange
  <1> QED BY <1>3, <1>4, <1>6 DEF Share

LEMMA NicheIsRight ==
  ASSUME ScoringInv, NEW p \in People, NEW n \in Niches, SetNiche(p, n)
  PROVE  ScoringInv'
  <1>1. RunsRight'
    BY DEF SetNiche, ScoringInv, RunsRight
  <1> QED BY <1>1, BenchFrame, NightsFrame, ScoresFrame, RestFrame DEF ScoringInv, SetNiche

LEMMA RunIsRight ==
  ASSUME ScoringInv, NEW a \in Audits,
         \/ \E pull \in Offered[a] : ResolveNiche(a, pull)
         \/ ResolveBenchmark(a) \/ Report(a) \/ Rerun(a)
  PROVE  ScoringInv'
  <1>1. UNCHANGED <<niche, bench, serving, score, night>>
    BY DEF ResolveNiche, ResolveBenchmark, Report, Rerun
  <1>2. RunsRight'
    <2>1. ASSUME NEW pull \in Offered[a], ResolveNiche(a, pull) PROVE RunsRight'
      <3>1. pull \in DOMAIN Pulls /\ PersonOf[a] \in People
        BY ScoringAssumption
      <3>2. niche[PersonOf[a]] # "" => niche[PersonOf[a]] \in Niches
        BY <3>1 DEF ScoringInv, RunsRight
      <3> QED BY <2>1, <3>1, <3>2 DEF ResolveNiche, ScoringInv, RunsRight
    <2>2. CASE ResolveBenchmark(a)
      <3>1. PICK b \in bench : run[a].pc = "niche" /\ run' = [run EXCEPT ![a].pc = "ready", ![a].bench = b]
        BY <2>2 DEF ResolveBenchmark, ActiveIn
      <3>2. Usable(b)
        BY DEF ScoringInv, BenchRight, Table, BandRow, Usable
      <3> QED BY <1>1, <3>1, <3>2 DEF ScoringInv, RunsRight
    <2>3. CASE Report(a)
      BY <1>1, <2>3 DEF Report, ScoringInv, RunsRight
    <2>4. CASE Rerun(a)
      BY <1>1, <2>4 DEF Rerun, ScoringInv, RunsRight
    <2> QED BY <2>1, <2>2, <2>3, <2>4
  <1>3. RestRight'
    <2>1. ASSUME NEW pull \in Offered[a], ResolveNiche(a, pull) PROVE RestRight'
      <3> DEFINE p == PersonOf[a]
                 more == series[p] \cup PointsOf(pull)
      <3>1. /\ series' = [series EXCEPT ![p] = more] /\ p \in People /\ pull \in DOMAIN Pulls
            /\ UNCHANGED <<narrative, faults>>
        BY <2>1, ScoringAssumption DEF ResolveNiche
      <3>2. Readings(PointsOf(pull))
        BY <3>1, PullIsWhole, PointsAreFinite DEF PointsOf, Readings
      <3>3. Readings(more)
        <4>1. Readings(series[p])
          BY <3>1 DEF ScoringInv, RestRight
        <4> QED BY <3>2, <4>1, FS_Union DEF Readings
      <3> HIDE DEF more, p
      <3> QED BY <3>1, <3>3 DEF ScoringInv, RestRight
    <2>2. CASE ResolveBenchmark(a)
      BY <2>2, RestFrame DEF ResolveBenchmark, ScoringInv
    <2>3. CASE Report(a)
      <3>1. \E o \in Audits : narrative' = [narrative EXCEPT ![a] = o]
        BY <2>3 DEF Report, LatestScore
      <3> QED BY <2>3, <3>1 DEF Report, ScoringInv, RestRight
    <2>4. CASE Rerun(a)
      <3>1. faults' = faults + 1 /\ faults < MaxFaults /\ UNCHANGED <<series, narrative>>
        BY <2>4 DEF Rerun
      <3>2. faults' \in 0..MaxFaults
        <4>1. faults \in 0..MaxFaults
          BY DEF ScoringInv, RestRight
        <4> QED BY <3>1, <4>1, BoundsAre
      <3> QED BY <3>1, <3>2 DEF ScoringInv, RestRight
    <2> QED BY <2>1, <2>2, <2>3, <2>4
  <1> QED BY <1>1, <1>2, <1>3, BenchFrame, NightsFrame, ScoresFrame DEF ScoringInv

LEMMA UpsertIsRight ==
  ASSUME ScoresRight, NEW a \in Audits, NEW in, NEW computed,
         <<run[a].niche, TierOf(a)>> \in Cells, Graded(ScoreRow(a, in, computed)),
         UpsertScore(a, ScoreRow(a, in, computed))
  PROVE  ScoresRight'
  <1> DEFINE at == IF Scored(a) THEN score[a].created ELSE Inserted + 1
             scored == [ScoreRow(a, in, computed) EXCEPT !.created = at]
             before == {x \in Audits : Scored(x)}
  <1>1. Inserted \in Nat /\ IsFiniteSet(before)
    BY InsertedIsNatural
  <1>2. score' = [score EXCEPT ![a] = scored] /\ DOMAIN score = Audits
    BY DEF UpsertScore, ScoresRight
  <1>3. scored.created = at /\ scored.person = PersonOf[a] /\ scored.niche = run[a].niche /\ scored.tier = TierOf(a)
    BY DEF ScoreRow
  <1>11. Graded(scored)
    <2> DEFINE r == ScoreRow(a, in, computed)
    <2>1. /\ scored.overall = r.overall /\ scored.confidence = r.confidence
          /\ scored.factors = r.factors /\ scored.rate = r.rate
      BY DEF ScoreRow
    <2> HIDE DEF scored, r
    <2> QED BY <2>1 DEF Graded, r
  <1>4. at \in Nat /\ at > 0 /\ (Scored(a) => at <= Inserted) /\ (~Scored(a) => at = Inserted + 1)
    <2>1. score[a].created \in Nat /\ score[a].created <= Inserted
      BY DEF ScoresRight
    <2>2. CASE Scored(a)
      <3>1. score[a].created > 0
        BY <2>2 DEF Scored
      <3> QED BY <2>1, <2>2, <3>1
    <2>3. CASE ~Scored(a)
      BY <1>1, <2>3
    <2> QED BY <2>2, <2>3
  <1> HIDE DEF scored
  <1>5. /\ DOMAIN score' = Audits
        /\ \A x \in Audits : score'[x] = IF x = a THEN scored ELSE score[x]
    BY <1>2
  <1>6. Inserted' = IF Scored(a) THEN Inserted ELSE Inserted + 1
    <2>1. {x \in Audits : Scored(x)'} = before \cup {a}
      BY <1>3, <1>4, <1>5 DEF Scored
    <2>2. Inserted' = Cardinality(before \cup {a})
      BY <2>1 DEF Inserted
    <2> QED BY <1>1, <2>2, FS_AddElement DEF Inserted
  <1>7. at <= Inserted'
    BY <1>1, <1>4, <1>6
  <1>8. ASSUME NEW x \in Audits
        PROVE  /\ score'[x].created \in Nat /\ score'[x].created <= Inserted'
               /\ Scored(x)' => /\ score'[x].person = PersonOf[x]
                                /\ <<score'[x].niche, score'[x].tier>> \in Cells
                                /\ Graded(score'[x])
    <2>1. CASE x = a
      BY <1>3, <1>4, <1>5, <1>7, <1>11, <2>1
    <2>2. CASE x # a
      <3>1. score'[x] = score[x]
        BY <1>5, <2>2
      <3>2. score[x].created \in Nat /\ score[x].created <= Inserted
        BY DEF ScoresRight
      <3>3. score[x].created <= Inserted'
        BY <1>1, <1>6, <3>2
      <3> QED BY <3>1, <3>2, <3>3 DEF ScoresRight, Scored
    <2> QED BY <2>1, <2>2
  <1>9. ASSUME NEW x \in Audits, x # a, Scored(x)
        PROVE  score[x].created # at
    <2>1. score[x].created \in Nat /\ score[x].created <= Inserted
      BY DEF ScoresRight
    <2>2. CASE Scored(a)
      BY <1>9, <2>2 DEF ScoresRight
    <2>3. CASE ~Scored(a)
      BY <1>1, <2>1, <2>3
    <2> QED BY <2>2, <2>3
  <1>10. ASSUME NEW x \in Audits, NEW o \in Audits, Scored(x)', score'[x].created = score'[o].created
         PROVE  x = o
    <2>1. score'[x].created > 0 /\ score'[o].created > 0
      BY <1>10 DEF Scored
    <2>2. CASE x # a /\ o # a
      BY <1>5, <1>10, <2>1, <2>2 DEF Scored, ScoresRight
    <2>3. CASE x = a /\ o # a
      BY <1>3, <1>5, <1>9, <1>10, <2>1, <2>3 DEF Scored
    <2>4. CASE x # a /\ o = a
      BY <1>3, <1>5, <1>9, <1>10, <2>1, <2>4 DEF Scored
    <2> QED BY <2>2, <2>3, <2>4
  <1> QED BY <1>5, <1>8, <1>10 DEF ScoresRight

LEMMA ScoreIsRight ==
  ASSUME ScoringInv, NEW a \in Audits, Score(a)
  PROVE  ScoringInv'
  <1>1. run[a].pc = "ready" /\ UNCHANGED <<niche, bench, serving, narrative, series, night, faults>>
    BY DEF Score
  <1>2. PICK history \in {{}, series[PersonOf[a]]} :
          \/ /\ Compute(Input(a, history)) # Withheld
             /\ UpsertScore(a, ScoreRow(a, Input(a, history), Compute(Input(a, history))))
             /\ run' = [run EXCEPT ![a].pc = "scored"]
          \/ /\ UNCHANGED score
             /\ run' = [run EXCEPT ![a].pc = "withheld"]
    BY DEF Score
  <1> DEFINE in == Input(a, history)
             computed == Compute(in)
  <1>6. Sound(in)
    <2>1. Readings(series[PersonOf[a]]) /\ Readings({})
      BY ScoringAssumption, FS_EmptySet DEF ScoringInv, RestRight, Readings
    <2> QED BY <1>1, <2>1, InputIsSound DEF ScoringInv
  <1>7. ASSUME computed # Withheld PROVE Graded(ScoreRow(a, in, computed))
    <2>1. FactorsOf(in) \in [1..4 -> Subscore] /\ in.weights \in [1..4 -> Nat]
      BY <1>6, FactorsAreSubscores DEF Sound
    <2>2. computed.overall \in Share /\ computed.confidence \in Share
      BY <1>7, <2>1, ScoreIsGraded DEF Compute
    <2>3. ObservedEngagementRate(in.snaps) \in Nat \cup {Nothing}
      BY <1>6, RateType DEF Sound, Whole
    <2> HIDE DEF in, computed
    <2> QED BY <2>1, <2>2, <2>3 DEF Graded, ScoreRow
  <1>3. RunsRight'
    BY <1>1, <1>2 DEF ScoringInv, RunsRight
  <1> HIDE DEF in, computed
  <1>4. <<run[a].niche, TierOf(a)>> \in Cells
    BY <1>1, TierOfIsOne DEF ScoringInv, RunsRight, Cells
  <1>5. ScoresRight'
    <2>1. CASE UNCHANGED score
      BY <2>1, ScoresFrame DEF ScoringInv
    <2>2. CASE computed # Withheld /\ UpsertScore(a, ScoreRow(a, in, computed))
      BY <1>4, <1>7, <2>2, UpsertIsRight DEF ScoringInv
    <2> QED BY <1>2, <2>1, <2>2 DEF in, computed
  <1> QED BY <1>1, <1>3, <1>5, BenchFrame, NightsFrame, RestFrame DEF ScoringInv

-----------------------------------------------------------------------------
(* The theorems *)

LEMMA StepIsRight ==
  ASSUME ScoringInv, [ScoringNext]_scoringVars
  PROVE  ScoringInv'
  <1>1. CASE UNCHANGED scoringVars
    BY <1>1, BenchFrame, NightsFrame, RunsFrame, ScoresFrame, RestFrame DEF ScoringInv, scoringVars
  <1>2. ASSUME NEW n \in 0..Len(BootTiers), EnsureBootstrap(n) PROVE ScoringInv'
    BY <1>2, BootIsRight
  <1>3. ASSUME NEW p \in People, NEW n \in Niches, SetNiche(p, n) PROVE ScoringInv'
    BY <1>3, NicheIsRight
  <1>4. ASSUME NEW a \in Audits, AuditStep(a) PROVE ScoringInv'
    BY <1>4, RunIsRight, ScoreIsRight DEF AuditStep
  <1>5. ASSUME NEW r \in Nights, NightStep(r) PROVE ScoringInv'
    BY <1>5, RecomputeIsRight, BeginIsRight, PublishIsRight, FailingIsRight DEF NightStep
  <1> QED BY <1>1, <1>2, <1>3, <1>4, <1>5 DEF ScoringNext

THEOREM ScoringInvariant == ScoringSpec => []ScoringInv
  <1>1. ScoringInit => ScoringInv
    BY InitialIsRight
  <1>2. ScoringInv /\ [ScoringNext]_scoringVars => ScoringInv'
    BY StepIsRight
  <1> QED BY <1>1, <1>2, PTL DEF ScoringSpec

\* However the publications of two recompute tasks overlap, and wherever one of them
\* stops, a cell has one active band at most and it is the newest of the cell
\* (PublishCorpusBenchmark, InsertBenchmarkIfAbsent); once the process serves, every
\* tier has a baseline band for Service.resolveBenchmark to fall back on.
THEOREM CellsAreServed == ScoringSpec => []SeededIsScorable
  <1>1. ASSUME ScoringInv PROVE SeededIsScorable
    <2>1. Table(bench)
      BY <1>1 DEF ScoringInv, BenchRight
    <2>2. OneBandPerCell
      <3>1. ASSUME NEW cell \in Cells, NEW b \in ActiveIn(cell)
            PROVE  /\ \A o \in ActiveIn(cell) : b = o
                   /\ b \in Latest({x \in bench : InCell(x, cell)})
        <4>1. b \in bench /\ InCell(b, cell) /\ b.active
          BY DEF ActiveIn
        <4>2. ASSUME NEW o \in bench, InCell(o, cell)
              PROVE  o.version <= b.version /\ (o.active => b = o)
          <5>1. SameCell(b, o)
            BY <4>1, <4>2 DEF SameCell, InCell
          <5> QED BY <2>1, <4>1, <5>1, ActiveIsNewest
        <4> QED BY <4>1, <4>2 DEF ActiveIn, Latest
      <3> QED BY <3>1 DEF OneBandPerCell
    <2>3. BaselineIsServed
      <3> SUFFICES ASSUME serving, NEW t \in ToSet(BootTiers)
                   PROVE  ActiveIn(<<Baseline, t>>) # {}
        BY DEF BaselineIsServed
      <3>1. PICK b \in bench : InCell(b, <<Baseline, t>>)
        BY <1>1 DEF ScoringInv, BenchRight
      <3>2. PICK o \in bench : SameCell(b, o) /\ o.active
        BY <2>1 DEF Table
      <3>3. InCell(o, <<Baseline, t>>)
        BY <3>1, <3>2 DEF InCell, SameCell
      <3> QED BY <3>2, <3>3 DEF ActiveIn
    <2> QED BY <2>2, <2>3 DEF SeededIsScorable
  <1> QED BY <1>1, ScoringInvariant, PTL

\* A band published from the corpus counts distinct people, and at least the
\* threshold of them, however often one of them was audited (CorpusObservations,
\* CorpusCells).
THEOREM CorpusIsPeople == ScoringSpec => []CorpusCountsPeople
  <1>1. ScoringInv => CorpusCountsPeople
    BY DEF ScoringInv, BenchRight, Table, BandRow, CorpusCountsPeople
  <1> QED BY <1>1, ScoringInvariant, PTL

\* Every score that is written is a share of One, and so are its confidence and its
\* factors, whatever the snapshots held and whatever band it was scored in; a
\* created_at counts audits (Compute, Service.Score, UpsertScore).
THEOREM ScoringTypes == ScoringSpec => []ScoringTypeOK
  <1>1. ASSUME ScoringInv PROVE ScoringTypeOK
    <2>1. niche \in [People -> Niches \cup {""}]
      BY <1>1 DEF ScoringInv, RunsRight
    <2>2. \A b \in bench : /\ <<b.niche, b.tier>> \in Cells
                          /\ b.version \in Nat \ {0} /\ b.active \in BOOLEAN
                          /\ b.source \in {"bootstrap", "corpus"}
                          /\ b.people \subseteq People /\ b.sample \in Nat
      <3> SUFFICES ASSUME NEW b \in bench
                   PROVE  /\ <<b.niche, b.tier>> \in Cells
                          /\ b.version \in Nat \ {0} /\ b.active \in BOOLEAN
                          /\ b.source \in {"bootstrap", "corpus"}
                          /\ b.people \subseteq People /\ b.sample \in Nat
        OBVIOUS
      <3>1. BandRow(b) /\ b.version > 0
        BY <1>1 DEF ScoringInv, BenchRight, Table
      <3>2. /\ b.version \in Nat /\ b.active \in BOOLEAN /\ b.source \in {"bootstrap", "corpus"}
            /\ b.people \in SUBSET People /\ b.sample \in Nat
        BY <3>1 DEF BandRow
      <3> QED BY <3>1, <3>2 DEF BandRow
    <2>3. serving \in BOOLEAN
      BY <1>1 DEF ScoringInv, BenchRight
    <2>4. narrative \in [Audits -> Audits \cup {Nothing}] /\ faults \in 0..MaxFaults
      BY <1>1 DEF ScoringInv, RestRight
    <2>5. Inserted <= Cardinality(Audits) /\ Cardinality(Audits) \in Nat
      <3>1. {a \in Audits : Scored(a)} \subseteq Audits
        OBVIOUS
      <3> QED BY <3>1, FS_Subset, FS_CardinalityType, ScoringAssumption DEF Inserted
    <2>6. ASSUME NEW a \in Audits
          PROVE  /\ run[a].pc \in {"queued", "niche", "ready", "withheld", "scored", "reported"}
                 /\ score[a].created \in 0..Cardinality(Audits)
                 /\ Scored(a) => /\ {score[a].overall, score[a].confidence} \subseteq Share
                                 /\ \A i \in 1..4 : score[a].factors[i].value \in Share
      <3>1. run[a].pc \in {"queued", "niche", "ready", "withheld", "scored", "reported"}
        BY <1>1 DEF ScoringInv, RunsRight
      <3>2. score[a].created \in Nat /\ score[a].created <= Inserted
        BY <1>1 DEF ScoringInv, ScoresRight
      <3>3. score[a].created \in 0..Cardinality(Audits)
        BY <2>5, <3>2, InsertedIsNatural
      <3>4. ASSUME Scored(a)
            PROVE  /\ {score[a].overall, score[a].confidence} \subseteq Share
                   /\ \A i \in 1..4 : score[a].factors[i].value \in Share
        <4>1. Graded(score[a])
          BY <1>1, <3>4 DEF ScoringInv, ScoresRight
        <4>2. ASSUME NEW i \in 1..4 PROVE score[a].factors[i].value \in Share
          <5>1. score[a].factors[i] \in Subscore
            BY <4>1 DEF Graded
          <5> QED BY <5>1 DEF Subscore, Share
        <4> QED BY <4>1, <4>2 DEF Graded
      <3> QED BY <3>1, <3>3, <3>4
    <2> QED BY <2>1, <2>2, <2>3, <2>4, <2>6 DEF ScoringTypeOK
  <1> QED BY <1>1, ScoringInvariant, PTL

\* A purchase raises readings to readings.
LEMMA RaisedAreReadings ==
  ASSUME NEW points \in SUBSET Reading, NEW paid
  PROVE  Raised(points, paid) \in SUBSET Reading
  <1>1. ASSUME NEW p \in points PROVE [p EXCEPT !.v = p.v + Extra] \in Reading
    <2>1. p \in Reading
      OBVIOUS
    <2>2. p.v + Extra \in Nat
      BY <2>1, BoundsAre DEF Reading
    <2> QED BY <2>1, <2>2 DEF Reading
  <1> QED BY <1>1 DEF Raised

\* The snapshots of a purchase are the same ones with more followers.
LEMMA BoughtIsGrown ==
  ASSUME NEW in, Sound(in), NEW risk
  PROVE  /\ Grown(Bought(in, risk).snaps, in.snaps)
         /\ Bought(in, risk).bench = in.bench
         /\ Bought(in, risk).fraud = [in.fraud EXCEPT !.risk = risk]
  <1> DEFINE n == Len(in.snaps)
             paid(s) == IF s.followers > 0 THEN Current(s) ELSE {}
             more(s) == [s EXCEPT !.followers = IF s.followers > 0 THEN s.followers + Extra ELSE 0,
                                  !.points = Raised(s.points, paid(s))]
             to == [i \in 1..n |-> more(in.snaps[i])]
  <1>1. in.snaps \in Seq(Snapshot) /\ n \in Nat /\ DOMAIN in.snaps = 1..n
    BY LenProperties DEF Sound, Whole
  <1>2. /\ Bought(in, risk).snaps = to
        /\ Bought(in, risk).bench = in.bench
        /\ Bought(in, risk).fraud = [in.fraud EXCEPT !.risk = risk]
    BY <1>1 DEF Bought
  <1>3. ASSUME NEW i \in 1..n
        PROVE  /\ to[i] \in Snapshot
               /\ to[i].posts = in.snaps[i].posts /\ to[i].watch = in.snaps[i].watch
               /\ to[i].audience = in.snaps[i].audience
               /\ in.snaps[i].followers <= to[i].followers
               /\ to[i].followers > 0 <=> in.snaps[i].followers > 0
    <2> DEFINE s == in.snaps[i]
               f == IF s.followers > 0 THEN s.followers + Extra ELSE 0
               points == Raised(s.points, paid(s))
    <2>1. s \in Snapshot
      BY <1>1, ElementOfSeq
    <2>2. s.followers \in Nat /\ s.points \in SUBSET Reading
      BY <2>1 DEF Snapshot
    <2>3. f \in Nat /\ s.followers <= f /\ (f > 0 <=> s.followers > 0)
      <3> DEFINE k == s.followers
      <3>1. k \in Nat /\ Extra \in Nat
        BY <2>2, BoundsAre
      <3> HIDE DEF k
      <3>2. LET g == IF k > 0 THEN k + Extra ELSE 0
            IN g \in Nat /\ k <= g /\ (g > 0 <=> k > 0)
        BY <3>1
      <3> QED BY <3>2 DEF k
    <2>4. points \in SUBSET Reading
      BY <2>2, RaisedAreReadings
    <2>5. to[i] = [s EXCEPT !.followers = f, !.points = points]
      OBVIOUS
    <2> HIDE DEF s, f, points, to
    <2>6. /\ to[i] \in Snapshot /\ to[i].followers = f
          /\ to[i].posts = s.posts /\ to[i].watch = s.watch /\ to[i].audience = s.audience
      BY <2>1, <2>3, <2>4, <2>5 DEF Snapshot
    <2> QED BY <2>3, <2>6 DEF s
  <1> HIDE DEF to
  <1>4. to \in Seq(Snapshot) /\ Len(to) = n
    <2>1. to = [i \in 1..n |-> to[i]]
      BY DEF to
    <2> HIDE DEF n
    <2>2. to \in [1..n -> Snapshot]
      BY <1>3, <2>1
    <2> QED BY <1>1, <2>2
  <1>5. Grown(to, in.snaps)
    BY <1>3, <1>4 DEF Grown
  <1> QED BY <1>2, <1>5

\* Where a purchase changes neither the cohort nor whether an audience counts, it adds
\* points by the steadiness of the growth alone (engine.go: growthSmoothness): with
\* Consistency as it was, more followers never raise the score nor make one, noticed by
\* the fraud pass or not, whatever was collected and whatever the band.
THEOREM PurchaseGainsByGrowthAlone == ScoringSpec => []BoughtHelpsByGrowthAlone
  <1>1. ASSUME ScoringInv PROVE BoughtHelpsByGrowthAlone
    <2> SUFFICES ASSUME NEW a \in Audits, run[a].pc = "ready",
                        NEW to \in Purchases(Input(a, series[PersonOf[a]]))
                 PROVE  LET in == Input(a, series[PersonOf[a]])
                        IN NoGain(Composite(in.weights, [FactorsOf(to) EXCEPT ![3] = FactorsOf(in)[3]]),
                                  Compute(in))
      BY DEF BoughtHelpsByGrowthAlone, Compute
    <2> DEFINE in == Input(a, series[PersonOf[a]])
    <2>1. Sound(in)
      <3>1. Readings(series[PersonOf[a]])
        BY <1>1, ScoringAssumption DEF ScoringInv, RestRight
      <3> QED BY <1>1, <3>1, InputIsSound DEF ScoringInv
    <2> HIDE DEF in
    <2>2. PICK risk : /\ to = Bought(in, risk)
                      /\ risk = in.fraud.risk \/ (risk = One /\ in.fraud.risk # Nothing)
                      /\ SameStanding(MaxFollowers(in.snaps), MaxFollowers(to.snaps))
      BY DEF Purchases, in
    <2>3. MaxFollowers(to.snaps) < AudienceFloor <=> MaxFollowers(in.snaps) < AudienceFloor
      BY <2>2 DEF SameStanding
    <2>4. /\ Grown(to.snaps, in.snaps) /\ to.bench = in.bench
          /\ to.fraud = [in.fraud EXCEPT !.risk = risk]
      BY <2>1, <2>2, BoughtIsGrown
    <2>5. /\ to.fraud \in FraudEstimate
          /\ NoBetter(AuthenticitySubscore(to.fraud), AuthenticitySubscore(in.fraud))
      <3>1. in.fraud \in FraudEstimate
        BY <2>1 DEF Sound
      <3>2. CASE risk = in.fraud.risk
        <4>1. to.fraud = in.fraud
          BY <2>4, <3>1, <3>2 DEF FraudEstimate
        <4>2. AuthenticitySubscore(in.fraud) \in Subscore
          BY <3>1, AuthenticityIsSubscore
        <4> QED BY <3>1, <4>1, <4>2, SubscoreIs
      <3>3. CASE risk = One /\ in.fraud.risk # Nothing
        BY <2>4, <3>1, <3>3, SuspicionNeverHelps
      <3> QED BY <2>2, <3>2, <3>3
    <2>6. NoGain(Composite(in.weights, [FactorsOf(to) EXCEPT ![3] = FactorsOf(in)[3]]), Compute(in))
      BY <2>1, <2>3, <2>4, <2>5, PurchaseNeverHelps
    <2> QED BY <2>6 DEF in
  <1> QED BY <1>1, ScoringInvariant, PTL

-----------------------------------------------------------------------------
(* The composite *)

LEMMA UnmeasuredIsUnnamed ==
  ASSUME NEW f, NEW i \in 1..4, ~Measured(f[i]), Composite(BootstrapWeights, f) # Withheld
  PROVE  LET unnamed == Composite([BootstrapWeights EXCEPT ![i] = 0], f)
         IN /\ unnamed # Withheld
            /\ unnamed.overall = Composite(BootstrapWeights, f).overall
  <1> DEFINE W == BootstrapWeights
             w == [BootstrapWeights EXCEPT ![i] = 0]
             value(v) == Take(f[1], v[1] * Effective(f[1])) + Take(f[2], v[2] * Effective(f[2]))
                           + Take(f[3], v[3] * Effective(f[3])) + Take(f[4], v[4] * Effective(f[4]))
             support(v) == Take(f[1], v[1] * f[1].support) + Take(f[2], v[2] * f[2].support)
                             + Take(f[3], v[3] * f[3].support) + Take(f[4], v[4] * f[4].support)
             rated(v) == [overall |-> Clamp01(value(v) \div (Evidenced(v, f) * One)),
                          confidence |-> Clamp01(support(v) \div WeightTotal(v))]
  <1>1. \A v : Composite(v, f) = IF WeightTotal(v) <= 0 \/ 2 * Evidenced(v, f) < WeightTotal(v)
                                   THEN Withheld ELSE rated(v)
    BY DEF Composite
  <1>2. \A v : rated(v) # Withheld /\ rated(v).overall = Clamp01(value(v) \div (Evidenced(v, f) * One))
    <2> SUFFICES ASSUME NEW v
                 PROVE  rated(v) # Withheld /\ rated(v).overall = Clamp01(value(v) \div (Evidenced(v, f) * One))
      OBVIOUS
    <2> HIDE DEF value, support
    <2>1. DOMAIN rated(v) = {"overall", "confidence"} /\ DOMAIN Withheld = {"reason"}
      BY DEF Withheld
    <2> QED BY <2>1
  <1>3. ASSUME NEW j \in 1..4, NEW x, NEW y, j # i => x = y
        PROVE  Take(f[j], x) = Take(f[j], y)
    BY <1>3 DEF Take
  <1>4. \A j \in 1..4 : j # i => w[j] = W[j]
    BY DEF BootstrapWeights
  <1>5. W[1] = 30 /\ W[2] = 30 /\ W[3] = 20 /\ W[4] = 20 /\ w[i] = 0
    BY DEF BootstrapWeights
  <1>6. Evidenced(w, f) = Evidenced(W, f)
    <2>1. \A j \in 1..4 : Take(f[j], w[j]) = Take(f[j], W[j])
      BY <1>3, <1>4
    <2> QED BY <2>1 DEF Evidenced
  <1>7. value(w) = value(W)
    <2>1. \A j \in 1..4 : Take(f[j], w[j] * Effective(f[j])) = Take(f[j], W[j] * Effective(f[j]))
      BY <1>3, <1>4
    <2> QED BY <2>1
  <1>8. WeightTotal(W) = 100 /\ WeightTotal(w) \in 70..80
    <2>1. \A j \in 1..4 : w[j] = IF j = i THEN 0 ELSE W[j]
      BY <1>4, <1>5
    <2> HIDE DEF W, w
    <2>2. i = 1 \/ i = 2 \/ i = 3 \/ i = 4
      OBVIOUS
    <2> QED BY <1>5, <2>1, <2>2 DEF WeightTotal
  <1>9. Evidenced(W, f) \in Int
    <2>1. \A j \in 1..4 : Take(f[j], W[j]) \in Int
      BY <1>5 DEF Take
    <2> QED BY <2>1 DEF Evidenced
  <1> HIDE DEF W, w, rated, value
  <1>10. ~(2 * Evidenced(W, f) < WeightTotal(W))
    BY <1>1 DEF W
  <1>11. ~(WeightTotal(w) <= 0 \/ 2 * Evidenced(w, f) < WeightTotal(w))
    BY <1>6, <1>8, <1>9, <1>10
  <1>12. Composite(W, f) = rated(W) /\ Composite(w, f) = rated(w)
    BY <1>1, <1>8, <1>10, <1>11
  <1> QED BY <1>2, <1>6, <1>7, <1>12 DEF W, w

\* A factor that nobody measured has no say in the composite and no band on its card:
\* the renormalised mean of engine.Compute is what it would be had the weights never
\* named the factor.
THEOREM AbsentHasNoVote == ScoringSpec => []AbsenceHasNoVote
  <1>1. AbsenceHasNoVote
    BY UnmeasuredIsUnnamed DEF AbsenceHasNoVote, FactorCard
  <1> QED BY <1>1, PTL
=============================================================================
