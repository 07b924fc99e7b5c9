----------------------------- MODULE Disclosure -----------------------------
(***************************************************************************)
(* What publication promises about one audit's public badge: it is private *)
(* until its creator publishes it, it may lapse and be renewed, and once   *)
(* withdrawn it is never served again.  ReportPublication implements it.   *)
(***************************************************************************)
CONSTANT Audits

VARIABLE badge \* badge[a]: "private", "public", "lapsed" or "withdrawn"

DisclosureInit == badge = [a \in Audits |-> "private"]

Become(a, from, to) ==
  /\ badge[a] \in from
  /\ badge' = [badge EXCEPT ![a] = to]

Publish(a) == Become(a, {"private", "lapsed"}, "public")
Lapse(a) == Become(a, {"public"}, "lapsed")

\* One withdrawal may take several badges down at once.
Withdraw(S) ==
  /\ \A a \in S : badge[a] # "private"
  /\ badge' = [a \in Audits |-> IF a \in S THEN "withdrawn" ELSE badge[a]]

DisclosureNext ==
  \/ \E a \in Audits : Publish(a) \/ Lapse(a)
  \/ \E S \in SUBSET Audits : Withdraw(S)

DisclosureSpec == DisclosureInit /\ [][DisclosureNext]_badge
=============================================================================
