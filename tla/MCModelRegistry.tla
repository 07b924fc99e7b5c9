---------------------------- MODULE MCModelRegistry ----------------------------
(* Small instances of ModelRegistry: which reports are registered. *)
EXTENDS ModelRegistry, TLC

\* A report that passes and one with the canary gate skipped.
PassingReports == {[gates |-> TRUE, canary |-> "pass"], [gates |-> TRUE, canary |-> "skipped"]}

\* A purchase with a receipt, and one with nothing to show for it.
TwoCanaries ==
  {[expected |-> "fraud", reachMin |-> -1, reachMax |-> -1, kind |-> k] :
     k \in {"vendor_receipt", "presumed_clean"}}

\* A live pull, an upload next to one, and a row that names no data path.
ThreeRows == {[sources |-> S, reach |-> -1] :
                S \in {{"instagram-graph"}, {"youtube-api", "csv"}, {}}}

RegistrySymmetry == Permutations(Admins) \cup Permutations(Versions) \cup Permutations(Audits)
=============================================================================
