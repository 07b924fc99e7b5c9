------------------------------ MODULE TokenChain ------------------------------
(***************************************************************************)
(* What refresh tokens promise: a sign-in opens a chain of tokens, the     *)
(* current token of a chain can be exchanged for a new one that takes its  *)
(* place, and a chain that has ended never continues.                      *)
(***************************************************************************)

CONSTANTS
  Chains,  \* sign-ins
  Tokens   \* refresh tokens

VARIABLES
  issued,  \* issued[c]: the tokens of chain c
  current  \* current[c]: the token of chain c that is good, if any

Fresh(t) == \A c \in Chains : t \notin issued[c]

Init == issued = [c \in Chains |-> {}] /\ current = [c \in Chains |-> {}]

\* Token t becomes the current token of chain c, in the place of the one before it.
Issue(c, t) ==
  /\ issued[c] = {} \/ current[c] # {}
  /\ Fresh(t)
  /\ issued' = [issued EXCEPT ![c] = @ \cup {t}]
  /\ current' = [current EXCEPT ![c] = {t}]

\* Any number of chains end.
End ==
  /\ current' \in [Chains -> SUBSET Tokens]
  /\ \A c \in Chains : current'[c] \in {current[c], {}}
  /\ UNCHANGED issued

Next == (\E c \in Chains, t \in Tokens : Issue(c, t)) \/ End

Spec == Init /\ [][Next]_<<issued, current>>
=============================================================================
