----------------------------- MODULE MCAuditRun -----------------------------
EXTENDS AuditRun

\* A budget that grants n faults of each kind in S and none of any other.
Grant(S, n) == [f \in Faults |-> IF f \in S THEN n ELSE 0]

\* Everything but a lease lost under a live run and a task queued although
\* the enqueue reported an error: one fault of each remaining kind.
Guarded == Grant(Faults \ {"overlap", "enqueueLost"}, 1)

\* No more failures of one task than it has retries, a submit whose job could
\* not be created, and the two faults that let a run and something else act on
\* one job at once.
Retryable == Grant({"runError", "createError", "overlap", "enqueueLost"}, 1)
=============================================================================
