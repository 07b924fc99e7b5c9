------------------------------ MODULE MCLabels ------------------------------
EXTENDS Labels, TLC

\* A long-lived account with enough posts, a younger one whose few posts came
\* with a follower jump, and an uploaded file without comments.
Steady ==
  [source |-> "instagram-graph", followers |-> 5, readings |-> {[age |-> 0, value |-> 5]},
   posts |-> <<400, 200, 100, 50, 1>>, reach |-> TRUE, comments |-> TRUE]
Bought ==
  [source |-> "youtube-api", followers |-> 4,
   readings |-> {[age |-> 1, value |-> 2], [age |-> 0, value |-> 4]},
   posts |-> <<30, 2>>, reach |-> FALSE, comments |-> FALSE]
Uploaded ==
  [source |-> "csv", followers |-> 5, readings |-> {[age |-> 0, value |-> 5]},
   posts |-> <<300, 200, 100, 50, 1>>, reach |-> FALSE, comments |-> FALSE]

SomeCaptures == {<<Steady>>, <<Uploaded, Bought>>}

CONSTANT a1

\* One audit with a retry; any other is disputed while it is still queued.
OneRuns == [a \in Audits |-> IF a = a1 THEN 2 ELSE 0]

LabelsSymmetry == Permutations(Disputes) \cup Permutations(Requests)
=============================================================================
