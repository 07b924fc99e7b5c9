------------------------- MODULE MCReportPublication -------------------------
EXTENDS ReportPublication, TLC

\* One fault of every kind.
OneEach == [f \in Faults |-> 1]

\* Bound: the environment injects at most one fault in a behaviour.
AtMostOneFault == Cardinality({f \in Faults : budget[f] < FaultBudget[f]}) <= 1

RequestSymmetry == Permutations(Requests) \cup Permutations(Audits)
=============================================================================
