------------------------------- MODULE Billing -------------------------------
(***************************************************************************)
(* Subscriptions and the metered quota: Subscribe creates a subscription   *)
(* at the payment provider and then swaps the user's live row in one       *)
(* transaction, webhooks move rows to the status an event implies, and     *)
(* Reserve reads the limit of the live plan and takes a unit of the month. *)
(*                                                                         *)
(* The subscription a call to Subscribe creates, its row and the events    *)
(* about it are indexed by the call.  The provider may deliver its events  *)
(* late, repeatedly and in any order, also before the row exists.          *)
(***************************************************************************)
EXTENDS Integers, FiniteSets

CONSTANTS
  Calls,      \* POST /billing/subscribe requests
  Holds,      \* quota reservations
  Users,      \* accounts
  Plans,      \* active plans
  Quota,      \* audit_quota of each plan; -1 is unlimited
  FreeQuota,  \* freeAuditQuota: units of an account without a live subscription
  None,       \* no user, no plan
  MaxEvents,  \* bound: events the provider raises in all
  MaxMonth    \* bound: calendar months

ASSUME BillingAssumption ==
  /\ IsFiniteSet(Calls) /\ IsFiniteSet(Holds)
  /\ None \notin Users /\ None \notin Plans
  /\ Quota \in [Plans -> Nat \cup {-1}]
  /\ FreeQuota \in Nat
  /\ MaxEvents \in Nat
  /\ MaxMonth \in Nat \ {0}

VARIABLES
  call,      \* call[s]: the subscribe request s, how far it is, what it has read
  row,       \* row[s]: status of the subscription row of s, or "none"
  provider,  \* provider[s]: state of the subscription at the provider, or "none"
  raised,    \* how many events the provider has raised
  mail,      \* mail[s]: the events about it that are not acknowledged yet
  hold,      \* hold[h]: the reservation h
  used,      \* used[u][m]: usage_counter.audits_used of u in month m
  ceilings,  \* ceilings[u]: limits u was ever entitled to (bookkeeping)
  month      \* the calendar month

subscriptions == <<call, row>>
gateway == <<provider, raised, mail>>
quotas == <<hold, used>>
vars == <<subscriptions, gateway, quotas, ceilings, month>>

Months == 1..MaxMonth
LiveStatus == {"trialing", "active", "past_due"}
Status == LiveStatus \cup {"canceled", "expired"}
ProviderState == {"created", "active", "halted", "paused", "cancelled", "completed"}
Event == {"activated", "halted", "paused", "cancelled", "completed", "updated"}
Limits == {Quota[p] : p \in Plans} \cup {FreeQuota}

NoCall == [pc |-> "idle", user |-> None, plan |-> None, status |-> "", picked |-> {}]
NoHold == [pc |-> "idle", user |-> None, limit |-> 0, month |-> 1]

TypeOK ==
  /\ call \in [Calls -> [pc : {"idle", "cancel", "insert", "ok", "failed"},
                         user : Users \cup {None}, plan : Plans \cup {None},
                         status : Status \cup {""}, picked : SUBSET Calls]]
  /\ row \in [Calls -> Status \cup {"none"}]
  /\ \A s \in Calls : row[s] # "none" <=> call[s].pc = "ok"
  /\ \A s \in Calls : call[s].pc # "idle" => call[s].user \in Users
  /\ provider \in [Calls -> ProviderState \cup {"none"}]
  /\ raised \in 0..MaxEvents
  /\ mail \in [Calls -> SUBSET [event : Event, entity : ProviderState]]
  /\ hold \in [Holds -> [pc : {"idle", "limit", "granted", "refused", "released"},
                         user : Users \cup {None}, limit : Limits \cup {0}, month : Months]]
  /\ \A h \in Holds : hold[h].pc \in {"limit", "granted"} => hold[h].user \in Users
  /\ used \in [Users -> [Months -> Nat]]
  /\ ceilings \in [Users -> SUBSET Limits]
  /\ month \in Months

Live(u) == {s \in Calls : call[s].user = u /\ row[s] \in LiveStatus}

\* LivePlanQuota: the free tier applies to a user without a live subscription.
LimitOf(u) == IF Live(u) = {} THEN FreeQuota ELSE Quota[call[CHOOSE s \in Live(u) : TRUE].plan]

Init ==
  /\ call = [s \in Calls |-> NoCall]
  /\ row = [s \in Calls |-> "none"]
  /\ provider = [s \in Calls |-> "none"]
  /\ raised = 0
  /\ mail = [s \in Calls |-> {}]
  /\ hold = [h \in Holds |-> NoHold]
  /\ used = [u \in Users |-> [m \in Months |-> 0]]
  /\ ceilings = [u \in Users |-> {FreeQuota}]
  /\ month = 1

\* Bookkeeping: what the users are entitled to after a step.
Entitle == ceilings' = [u \in Users |-> ceilings[u] \cup {LimitOf(u)'}]

-----------------------------------------------------------------------------
(* Subscribe: the provider first, then the row *)

MapSubscriptionStatus(state) ==
  CASE state = "created"   -> "trialing"
    [] state = "active"    -> "active"
    [] state = "halted"    -> "past_due"
    [] state = "cancelled" -> "canceled"
    [] state = "completed" -> "expired"
    [] OTHER               -> ""

\* The provider refused, or its answer was lost after it created the subscription;
\* a status outside the vocabulary is passed on as the empty string.
CreateSubscription(s, u, p) ==
  /\ call[s].pc = "idle"
  /\ \/ /\ provider' = [provider EXCEPT ![s] = "created"]
        /\ \E status \in {MapSubscriptionStatus("created"), ""} :
             call' = [call EXCEPT ![s] = [NoCall EXCEPT
               !.pc = "cancel", !.user = u, !.plan = p, !.status = status]]
     \/ /\ provider' = [provider EXCEPT ![s] = "created"] \/ UNCHANGED provider
        /\ call' = [call EXCEPT ![s] = [NoCall EXCEPT !.pc = "failed", !.user = u]]
  /\ UNCHANGED <<row, raised, mail, quotas, ceilings, month>>

\* First statement of the transaction: it picks the user's live rows.
CancelExisting(s) ==
  /\ call[s].pc = "cancel"
  /\ call' = [call EXCEPT ![s].pc = "insert", ![s].picked = Live(call[s].user)]
  /\ UNCHANGED <<row, gateway, quotas, ceilings, month>>

\* Rows the first statement has canceled: those it picked that are live still.
Replaced(s) == call[s].picked \cap Live(call[s].user)

\* A failed insert takes the cancellations back with it.
Rollback(s) == UNCHANGED row

\* Second statement and commit.  A live row that came in between violates the
\* index that admits one live row per user, and an unmapped status the CHECK.
InsertSubscription(s) ==
  /\ call[s].pc = "insert"
  /\ \/ /\ call[s].status \in Status
        /\ Live(call[s].user) \subseteq Replaced(s)
        /\ row' = [t \in Calls |-> IF t = s THEN call[s].status
                                   ELSE IF t \in Replaced(s) THEN "canceled" ELSE row[t]]
        /\ call' = [call EXCEPT ![s].pc = "ok", ![s].picked = {}, ![s].status = ""]
     \/ /\ call' = [call EXCEPT ![s] = [NoCall EXCEPT !.pc = "failed", !.user = call[s].user]]
        /\ Rollback(s)
  /\ Entitle
  /\ UNCHANGED <<gateway, quotas, month>>

-----------------------------------------------------------------------------
(* The payment provider and its webhooks *)

\* An event and the state of the subscription when it was raised.
Raise(s, event, state) ==
  /\ raised < MaxEvents
  /\ provider' = [provider EXCEPT ![s] = state]
  /\ raised' = raised + 1
  /\ mail' = [mail EXCEPT ![s] = @ \cup {[event |-> event, entity |-> state]}]
  /\ UNCHANGED <<subscriptions, quotas, ceilings, month>>

ProviderStep(s) ==
  \/ provider[s] \in {"created", "active", "halted", "paused"} /\ Raise(s, "activated", "active")
  \/ provider[s] = "active" /\ (Raise(s, "halted", "halted") \/ Raise(s, "paused", "paused")
                                \/ Raise(s, "completed", "completed"))
  \/ provider[s] \in {"created", "active", "halted", "paused"} /\ Raise(s, "cancelled", "cancelled")
  \/ provider[s] \in {"created", "active", "halted"} /\ Raise(s, "updated", provider[s])

\* Mutant of StatusForEvent: a paused mandate ends the subscription.
StatusForEventPauseEnds(e) ==
  CASE e.event = "activated" -> "active"
    [] e.event = "halted"    -> "past_due"
    [] e.event \in {"paused", "cancelled"} -> "canceled"
    [] e.event = "completed" -> "expired"
    [] e.event = "updated"   -> MapSubscriptionStatus(e.entity)
    [] OTHER                 -> ""

StatusForEvent(e) ==
  CASE e.event = "activated" -> "active"
    [] e.event = "halted"    -> "past_due"
    [] e.event = "cancelled" -> "canceled"
    [] e.event = "completed" -> "expired"
    [] e.event = "updated"   -> MapSubscriptionStatus(e.entity)
    [] OTHER                 -> ""

\* The update fails only when it would give the user a second live row; an event
\* about an unknown subscription updates nothing.
Accepted(s, status) ==
  row[s] # "none" /\ status \in LiveStatus => Live(call[s].user) \subseteq {s}

\* The event moves the row whatever its status is by now.  When the answer is
\* lost the provider will deliver the event again.
Webhook(s, e) ==
  LET status == StatusForEvent(e) IN
  /\ e \in mail[s]
  /\ Accepted(s, status)
  /\ row' = [row EXCEPT ![s] = IF @ = "none" \/ status = "" THEN @ ELSE status]
  /\ mail' = [mail EXCEPT ![s] = @ \ {e}] \/ UNCHANGED mail
  /\ UNCHANGED <<call, provider, raised, quotas, month>>
  /\ Entitle

-----------------------------------------------------------------------------
(* The quota *)

\* Reserve reads the limit first.
BeginReserve(h, u) ==
  /\ hold[h].pc = "idle"
  /\ hold' = [hold EXCEPT ![h] = [pc |-> "limit", user |-> u, limit |-> LimitOf(u),
                                  month |-> month]]
  /\ UNCHANGED <<subscriptions, gateway, used, ceilings, month>>

\* Mutant of HasRoom: the limit admits one unit too many.
HasRoomOffByOne(count, limit) == limit = -1 \/ count <= limit

HasRoom(count, limit) == limit = -1 \/ count < limit

\* The month was read some time after the limit; check and increment are one
\* statement.
ReserveUnit(h) ==
  LET u == hold[h].user IN
  /\ hold[h].pc = "limit"
  /\ \E m \in hold[h].month..month :
       \/ /\ HasRoom(used[u][m], hold[h].limit)
          /\ used' = [used EXCEPT ![u][m] = @ + 1]
          /\ hold' = [hold EXCEPT ![h] = [NoHold EXCEPT !.pc = "granted", !.user = u, !.month = m]]
       \/ /\ ~HasRoom(used[u][m], hold[h].limit)
          /\ hold' = [hold EXCEPT ![h] = [NoHold EXCEPT !.pc = "refused"]]
          /\ UNCHANGED used
  /\ UNCHANGED <<subscriptions, gateway, ceilings, month>>

\* Mutant of Release: the unit goes back to the month of the release.
ReleaseThisMonth(h) ==
  /\ hold[h].pc = "granted"
  /\ used' = [used EXCEPT ![hold[h].user][month] = IF @ > 0 THEN @ - 1 ELSE @]
  /\ hold' = [hold EXCEPT ![h] = [NoHold EXCEPT !.pc = "released"]]
  /\ UNCHANGED <<subscriptions, gateway, ceilings, month>>

\* The token names the month the unit was taken in.  Commit only parses the token,
\* so a reservation that was committed stays granted.
Release(h) ==
  /\ hold[h].pc = "granted"
  /\ used' = [used EXCEPT ![hold[h].user][hold[h].month] = IF @ > 0 THEN @ - 1 ELSE @]
  /\ hold' = [hold EXCEPT ![h] = [NoHold EXCEPT !.pc = "released"]]
  /\ UNCHANGED <<subscriptions, gateway, ceilings, month>>

NextMonth ==
  /\ month < MaxMonth
  /\ month' = month + 1
  /\ UNCHANGED <<subscriptions, gateway, quotas, ceilings>>

Next ==
  \/ \E s \in Calls :
       \/ \E u \in Users, p \in Plans : CreateSubscription(s, u, p)
       \/ CancelExisting(s) \/ InsertSubscription(s)
       \/ ProviderStep(s)
       \/ \E e \in mail[s] : Webhook(s, e)
  \/ \E h \in Holds :
       (\E u \in Users : BeginReserve(h, u)) \/ ReserveUnit(h) \/ Release(h)
  \/ NextMonth

Spec == Init /\ [][Next]_vars

-----------------------------------------------------------------------------
(* Properties *)

\* The counter of a month is exactly the number of units taken in it and not given
\* back, also when the month changes between the reservation and the release.
CounterCountsHolds ==
  \A u \in Users, m \in Months :
    used[u][m] = Cardinality({h \in Holds : hold[h].user = u /\ hold[h].month = m
                                              /\ hold[h].pc = "granted"})

\* No account ever uses more units in a month than the best plan it has had
\* allows, although the limit is read before the unit is taken and the
\* subscription changes in between.
UsageIsEntitled ==
  \A u \in Users, m \in Months :
    -1 \in ceilings[u] \/ \E limit \in ceilings[u] : used[u][m] <= limit

\* Subscribing never costs the user the plan they have: whatever the provider and
\* the two statements do, a user with a live subscription keeps one
\* ("a failure leaves no orphaned state").
SubscribeKeepsAPlan ==
  [][\A u \in Users : call' # call /\ Live(u) # {} => Live(u)' # {}]_vars

\* A user whose subscription was stored is served as long as the provider charges
\* for it, in whatever order and however often its events arrive.  A later
\* subscription of the user is a reason not to be: its own events decide.
PaidIsServed ==
  \A s \in Calls :
    /\ row[s] # "none" /\ provider[s] = "active"
    /\ \A t \in Calls \ {s} : call[t].user = call[s].user => row[t] = "none"
    => row[s] \in LiveStatus
=============================================================================
