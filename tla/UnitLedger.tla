----------------------------- MODULE UnitLedger -----------------------------
(***************************************************************************)
(* What the audit flow promises about quota, without any of its machinery: *)
(* a unit taken for a submission is later given back, or charged for an    *)
(* audit that was delivered, and neither fate follows the other.  A unit   *)
(* is only taken while the account has fewer than Limit open ones, and the *)
(* account's counter moves by one when a unit is taken and when it is      *)
(* given back, and never otherwise.  AuditRun is shown to implement this   *)
(* specification.                                                          *)
(***************************************************************************)
EXTENDS Integers, FiniteSets

CONSTANTS
  Calls,  \* submissions; each takes at most one unit
  Users,  \* the accounts that pay
  Limit   \* units one account may have open at any moment

VARIABLES
  unit,    \* unit[c]: what became of the unit call c took
  payer,   \* payer[c]: the account call c is made for
  counter  \* counter[u]: the units account u is charged for

ledgerVars == <<unit, payer, counter>>

\* Units that count against an account: taken, or charged for good.
Open(u) == {c \in Calls : payer[c] = u /\ unit[c] \in {"held", "charged"}}

LedgerInit ==
  /\ unit = [c \in Calls |-> "none"]
  /\ payer \in [Calls -> Users]
  /\ counter = [u \in Users |-> 0]

Take(c) ==
  /\ unit[c] = "none"
  /\ Cardinality(Open(payer[c])) < Limit
  /\ unit' = [unit EXCEPT ![c] = "held"]
  /\ counter' = [counter EXCEPT ![payer[c]] = @ + 1]
  /\ UNCHANGED payer

GiveBack(c) ==
  /\ unit[c] = "held"
  /\ unit' = [unit EXCEPT ![c] = "returned"]
  /\ counter' = [counter EXCEPT ![payer[c]] = @ - 1]
  /\ UNCHANGED payer

Charge(c) ==
  /\ unit[c] = "held"
  /\ unit' = [unit EXCEPT ![c] = "charged"]
  /\ UNCHANGED <<payer, counter>>

LedgerNext == \E c \in Calls : Take(c) \/ GiveBack(c) \/ Charge(c)

LedgerSpec == LedgerInit /\ [][LedgerNext]_ledgerVars
=============================================================================
