---------------------------- MODULE LabelsProofs ----------------------------
(***************************************************************************)
(* What may be learned from a label, for any number of audits, disputes,   *)
(* requests and retries. The argument is about the dispute rows: they only *)
(* move forward (filed, shown, decided), so whatever was copied from one   *)
(* -- a disclosure, a label on a feature row -- still has its ground there *)
(* when an export reads it.  The types are a second invariant (FieldInv):  *)
(* what a run has read of the models is what it writes on its rows.        *)
(***************************************************************************)
EXTENDS Labels, WellFoundedInduction, TLAPS

DisputeOK(g) == g = NoRow \/ g = DisputeRow(g.audit, g.status, g.evidence, g.shown)

\* A row whose estimate is high says so among its reasons.
RowOK(g) ==
  \/ g = NoRow
  \/ /\ g = FeatureRow(g.capture, g.reach, g.label, g.evidence)
     /\ g.capture.risk >= 30 => "fraud_risk_estimate_high" \in g.capture.reasons

Rows ==
  /\ dispute = [d \in Disputes |-> dispute[d]]
  /\ \A d \in Disputes : DisputeOK(dispute[d])
  /\ row = [a \in Audits |-> row[a]]
  /\ \A a \in Audits : RowOK(row[a])
  /\ request = [r \in Requests |-> request[r]]

\* A request between its two statements is about a filed dispute, and one that
\* still has to record a label about a decided one.
RequestOK(q) ==
  \/ q = Idle
  \/ /\ q = [pc |-> q.pc, dispute |-> q.dispute, present |-> q.present]
     /\ q.dispute \in Disputes /\ Filed(q.dispute)
     /\ q.pc \in {"mark", "record"}
     /\ q.pc = "record" => DecidedAs(q.dispute)

\* The decision an observed label was copied from.
Ground(a, label, d) ==
  /\ DecidedAs(d) /\ Observable(dispute[d].evidence)
  /\ AuditOf(d) = a /\ label = FraudLabel(dispute[d].status)

Grounded(a) ==
  row[a].exists /\ Observable(row[a].evidence) =>
    \E d \in Disputes : Ground(a, row[a].label, d)

Seen(e) == e.dispute \in Disputes /\ Filed(e.dispute) /\ dispute[e.dispute].shown = TRUE

LabelInv ==
  /\ Rows
  /\ \A r \in Requests : RequestOK(request[r])
  /\ \A a \in Audits : Grounded(a)
  /\ \A e \in disclosed : Seen(e)

\* Dispute rows only move forward.
Forward ==
  \A d \in Disputes :
    Filed(d) => /\ Filed(d)' /\ AuditOf(d)' = AuditOf(d)
                /\ (dispute[d].shown = TRUE => dispute'[d].shown = TRUE)
                /\ (DecidedAs(d) => dispute'[d] = dispute[d])

-----------------------------------------------------------------------------
(* What moving forward keeps *)

LEMMA RequestKept ==
  ASSUME Forward, NEW q, RequestOK(q)
  PROVE  RequestOK(q)'
  BY DEF Forward, RequestOK, DecidedAs

LEMMA GroundedKept ==
  ASSUME Forward, NEW a, Grounded(a),
         row'[a].exists => /\ row[a].exists /\ row'[a].label = row[a].label
                           /\ row'[a].evidence = row[a].evidence
  PROVE  Grounded(a)'
  <1>1. CASE ~(row'[a].exists /\ Observable(row'[a].evidence))
    BY <1>1 DEF Grounded
  <1>2. CASE row'[a].exists /\ Observable(row'[a].evidence)
    <2>1. PICK d \in Disputes : Ground(a, row[a].label, d)
      BY <1>2 DEF Grounded
    <2>2. /\ DecidedAs(d)' /\ Observable(dispute'[d].evidence)
          /\ AuditOf(d)' = a /\ row'[a].label = FraudLabel(dispute'[d].status)
      BY <1>2, <2>1 DEF Forward, Ground, DecidedAs, AuditOf
    <2> QED BY <2>2 DEF Grounded, Ground
  <1> QED BY <1>1, <1>2

LEMMA SeenKept ==
  ASSUME Forward, NEW e, Seen(e)
  PROVE  Seen(e)'
  BY DEF Forward, Seen

\* One dispute row is replaced by one that is ahead of it.
LEMMA OneDispute ==
  ASSUME LabelInv, NEW d \in Disputes, NEW g, dispute' = [dispute EXCEPT ![d] = g],
         g = DisputeRow(g.audit, g.status, g.evidence, g.shown),
         Filed(d) => /\ ~DecidedAs(d) /\ g.audit = AuditOf(d)
                     /\ (dispute[d].shown = TRUE => g.shown = TRUE)
  PROVE  /\ Forward
         /\ dispute' = [e \in Disputes |-> dispute'[e]]
         /\ \A e \in Disputes : DisputeOK(dispute'[e])
         /\ dispute'[d] = g
  <1>1. \A e \in Disputes : dispute'[e] = IF e = d THEN g ELSE dispute[e]
    BY DEF LabelInv, Rows
  <1>2. dispute' = [e \in Disputes |-> dispute'[e]]
    BY DEF LabelInv, Rows
  <1>3. g.exists
    BY DEF DisputeRow
  <1>4. Forward
    BY <1>1, <1>3 DEF Forward, Filed, AuditOf, DecidedAs
  <1> QED BY <1>1, <1>2, <1>4 DEF LabelInv, Rows, DisputeOK

\* Whatever else a step does, a request that rests or proceeds, a row that keeps
\* its label or takes a decided one, and a disclosure on the record keep the rest.
LEMMA Kept ==
  ASSUME LabelInv, Forward, Rows',
         \A r \in Requests : request'[r] = request[r] \/ RequestOK(request[r])',
         \A a \in Audits : Grounded(a)',
         \A e \in disclosed' : e \in disclosed \/ Seen(e)'
  PROVE  LabelInv'
  BY RequestKept, SeenKept DEF LabelInv

\* A step that leaves the disputes alone.
LEMMA StillForward ==
  ASSUME UNCHANGED dispute
  PROVE  Forward
  BY DEF Forward, Filed, AuditOf, DecidedAs

-----------------------------------------------------------------------------
(* The steps *)

\* A step of the worker: only RecordFeatures writes a row, and it keeps the label.
LEMMA CaptureKeeps ==
  ASSUME LabelInv, NEW a \in Audits, UNCHANGED <<dispute, request, disclosed>>,
         NEW capture, UpsertFeatureRow(a, capture),
         capture.risk >= 30 => "fraud_risk_estimate_high" \in capture.reasons
  PROVE  LabelInv'
  <1> DEFINE old == row[a]
             new == IF old.exists
                      THEN FeatureRow(capture, old.reach \/ capture.reach, old.label, old.evidence)
                      ELSE FeatureRow(capture, capture.reach, "null", "null")
  <1>1. row' = [row EXCEPT ![a] = new]
    BY DEF UpsertFeatureRow
  <1>2. /\ \A b \in Audits : row'[b] = IF b = a THEN new ELSE row[b]
        /\ row' = [b \in Audits |-> row'[b]]
    BY <1>1 DEF LabelInv, Rows
  <1>3. /\ new.capture = capture
        /\ new = FeatureRow(new.capture, new.reach, new.label, new.evidence)
        /\ old.exists => new.label = old.label /\ new.evidence = old.evidence
        /\ ~old.exists => new.evidence = "null"
    BY DEF FeatureRow
  <1> HIDE DEF new, old
  <1>4. Forward
    BY StillForward
  <1>5. Rows'
    BY <1>2, <1>3 DEF LabelInv, Rows, RowOK, DisputeOK
  <1>6. ASSUME NEW b \in Audits PROVE Grounded(b)'
    <2>1. CASE b = a /\ ~old.exists
      BY <1>2, <1>3, <2>1 DEF Grounded, Observable
    <2>2. CASE b # a \/ old.exists
      <3>1. row'[b].exists => /\ row[b].exists /\ row'[b].label = row[b].label
                              /\ row'[b].evidence = row[b].evidence
        BY <1>2, <1>3, <2>2 DEF old
      <3> QED BY <1>4, <3>1, GroundedKept DEF LabelInv
    <2> QED BY <2>1, <2>2
  <1> QED BY <1>4, <1>5, <1>6, Kept DEF LabelInv

\* A step that writes neither a row nor a dispute, and discloses nothing new.
LEMMA QuietKeeps ==
  ASSUME LabelInv, UNCHANGED <<dispute, row>>,
         request' = [r \in Requests |-> request'[r]],
         \A r \in Requests : request'[r] = request[r] \/ RequestOK(request[r])',
         \A e \in disclosed' : e \in disclosed \/ Seen(e)'
  PROVE  LabelInv'
  <1>1. Forward
    BY StillForward
  <1>2. Rows'
    BY DEF LabelInv, Rows, DisputeOK, RowOK
  <1>3. ASSUME NEW a \in Audits PROVE Grounded(a)'
    BY <1>1, GroundedKept DEF LabelInv
  <1> QED BY <1>1, <1>2, <1>3, Kept

LEMMA WorkerKeeps ==
  ASSUME LabelInv, NEW a \in Audits,
         RecordFraud(a) \/ Score(a) \/ RecordFeatures(a) \/ RetryRun(a)
  PROVE  LabelInv'
  <1>1. UNCHANGED <<dispute, request, disclosed>>
    BY DEF RecordFraud, Score, RecordFeatures, RetryRun
  <1>2. CASE UNCHANGED row
    BY <1>1, <1>2, QuietKeeps DEF LabelInv, Rows
  <1>3. CASE RecordFeatures(a) /\ ~UNCHANGED row
    <2> DEFINE capture == FeatureVector(FeatureCapture(run[a].snaps, fraud[a], LatestScore))
    <2>1. UpsertFeatureRow(a, capture)
      BY <1>3 DEF RecordFeatures, RecordFeatureRow
    <2>2. capture.risk >= 30 => "fraud_risk_estimate_high" \in capture.reasons
      BY DEF FeatureVector, FeatureCapture, EvaluateQuality, Null
    <2> HIDE DEF capture
    <2> QED BY <1>1, <2>1, <2>2, CaptureKeeps
  <1> QED BY <1>2, <1>3 DEF RecordFraud, Score, RetryRun

LEMMA FileKeeps ==
  ASSUME LabelInv, NEW d \in Disputes, NEW a \in Audits, FileDispute(d, a)
  PROVE  LabelInv'
  <1> DEFINE g == DisputeRow(a, "open", "null", FALSE)
  <1>1. /\ dispute' = [dispute EXCEPT ![d] = g]
        /\ g = DisputeRow(g.audit, g.status, g.evidence, g.shown)
        /\ ~Filed(d)
        /\ UNCHANGED <<row, request, disclosed>>
    BY DEF FileDispute, CreateDispute, DisputeRow
  <1> HIDE DEF g
  <1>2. /\ Forward
        /\ dispute' = [e \in Disputes |-> dispute'[e]]
        /\ \A e \in Disputes : DisputeOK(dispute'[e])
    BY <1>1, OneDispute
  <1>3. Rows'
    BY <1>1, <1>2 DEF LabelInv, Rows, DisputeOK, RowOK
  <1>4. ASSUME NEW b \in Audits PROVE Grounded(b)'
    BY <1>1, <1>2, GroundedKept DEF LabelInv
  <1> QED BY <1>1, <1>2, <1>3, <1>4, Kept

LEMMA ReviewKeeps ==
  ASSUME LabelInv, NEW d \in Disputes, ReviewDispute(d)
  PROVE  LabelInv'
  <1>1. dispute[d].shown = TRUE
    <2>1. dispute[d].shown /\ Filed(d)
      BY DEF ReviewDispute
    <2> QED BY <2>1 DEF LabelInv, Rows, DisputeOK, DisputeRow, Filed, NoRow
  <1>2. \A e \in disclosed' : e \in disclosed \/ Seen(e)'
    BY <1>1 DEF ReviewDispute, Seen, Filed
  <1> QED BY <1>2, QuietKeeps DEF ReviewDispute, LabelInv, Rows

LEMMA ReadKeeps ==
  ASSUME LabelInv, NEW r \in Requests, NEW d \in Disputes, ReadScore(r, d)
  PROVE  LabelInv'
  <1> DEFINE q == [pc |-> "mark", dispute |-> d, present |-> fraud[AuditOf(d)].present]
  <1>1. /\ request' = [request EXCEPT ![r] = q]
        /\ Filed(d) /\ UNCHANGED <<dispute, row, disclosed>>
        /\ q = [pc |-> q.pc, dispute |-> q.dispute, present |-> q.present]
        /\ q.dispute = d /\ q.pc = "mark"
    BY DEF ReadScore
  <1> HIDE DEF q
  <1>2. /\ request' = [s \in Requests |-> request'[s]]
        /\ \A s \in Requests : request'[s] = IF s = r THEN q ELSE request[s]
    BY <1>1 DEF LabelInv, Rows
  <1>3. RequestOK(request[r])'
    BY <1>1, <1>2 DEF RequestOK, Filed
  <1> QED BY <1>1, <1>2, <1>3, QuietKeeps


\* What a request in flight is about.
LEMMA InFlight ==
  ASSUME LabelInv, NEW r \in Requests, request[r].pc \in {"mark", "record"}
  PROVE  /\ request[r].dispute \in Disputes
         /\ Filed(request[r].dispute)
         /\ request[r].pc = "record" => DecidedAs(request[r].dispute)
  <1> DEFINE q == request[r]
  <1>1. RequestOK(q)
    BY DEF LabelInv
  <1>2. q.pc # "idle"
    OBVIOUS
  <1>3. q # Idle
    BY <1>2 DEF Idle
  <1> QED BY <1>1, <1>3 DEF RequestOK

\* A request that ends leaves the others as they are.
LEMMA Finished ==
  ASSUME LabelInv, NEW r \in Requests, Finish(r)
  PROVE  /\ request' = [s \in Requests |-> request'[s]]
         /\ \A s \in Requests : request'[s] = request[s] \/ RequestOK(request[s])'
  BY DEF LabelInv, Rows, Finish, RequestOK

\* A reveal records the disclosure on an open dispute before it answers.
LEMMA MarkKeeps ==
  ASSUME LabelInv, NEW r \in Requests, MarkScoreShown(r)
  PROVE  LabelInv'
  <1> DEFINE d == request[r].dispute
             old == dispute[d]
             g == DisputeRow(old.audit, old.status, old.evidence, TRUE)
  <1>1. d \in Disputes /\ Filed(d)
    BY InFlight DEF MarkScoreShown
  <1>2. Finish(r) /\ UNCHANGED row
    BY DEF MarkScoreShown
  <1>3. CASE ~Open(d)
    <2>1. UNCHANGED <<dispute, disclosed>>
      BY <1>3 DEF MarkScoreShown
    <2> QED BY <1>2, <2>1, Finished, QuietKeeps
  <1>4. CASE Open(d)
    <2>1. /\ dispute' = [dispute EXCEPT ![d] = g]
          /\ Disclose(r)
      BY <1>4 DEF MarkScoreShown, Shown
    <2>2. /\ g = DisputeRow(g.audit, g.status, g.evidence, g.shown)
          /\ ~DecidedAs(d) /\ g.audit = AuditOf(d) /\ g.shown = TRUE /\ g.exists
      BY <1>4 DEF Open, DecidedAs, Decided, DisputeRow, AuditOf
    <2> HIDE DEF g
    <2>3. /\ Forward
          /\ dispute' = [e \in Disputes |-> dispute'[e]]
          /\ \A e \in Disputes : DisputeOK(dispute'[e])
          /\ dispute'[d] = g
      BY <1>1, <2>1, <2>2, OneDispute
    <2>4. \A e \in disclosed' : e \in disclosed \/ Seen(e)'
      BY <1>1, <2>1, <2>2, <2>3 DEF Disclose, Seen, Filed
    <2>5. Rows'
      BY <1>2, <2>3, Finished DEF LabelInv, Rows, DisputeOK, RowOK
    <2>6. ASSUME NEW b \in Audits PROVE Grounded(b)'
      BY <1>2, <2>3, GroundedKept DEF LabelInv
    <2> QED BY <1>2, <2>3, <2>4, <2>5, <2>6, Finished, Kept
  <1> QED BY <1>3, <1>4

\* A resolve decides an open dispute and is left with its label to record.
LEMMA ResolveKeeps ==
  ASSUME LabelInv, NEW r \in Requests, NEW d \in Disputes,
         NEW status \in Decided, NEW evidence \in EvidenceKinds,
         ResolveDispute(r, d, status, evidence)
  PROVE  LabelInv'
  <1> DEFINE old == dispute[d]
             g == DisputeRow(old.audit, status, evidence, old.shown)
             q == [pc |-> "record", dispute |-> d, present |-> FALSE]
  <1>1. /\ dispute' = [dispute EXCEPT ![d] = g]
        /\ request' = [request EXCEPT ![r] = q]
        /\ Open(d) /\ UNCHANGED <<row, disclosed>>
    BY DEF ResolveDispute
  <1>2. /\ g = DisputeRow(g.audit, g.status, g.evidence, g.shown)
        /\ ~DecidedAs(d) /\ g.audit = AuditOf(d)
        /\ g.shown = old.shown /\ g.exists /\ g.status \in Decided
    BY <1>1 DEF Open, DecidedAs, Decided, DisputeRow, AuditOf
  <1>3. /\ q = [pc |-> q.pc, dispute |-> q.dispute, present |-> q.present]
        /\ q.dispute = d /\ q.pc = "record"
    OBVIOUS
  <1> HIDE DEF g, q
  <1>4. /\ Forward
        /\ dispute' = [e \in Disputes |-> dispute'[e]]
        /\ \A e \in Disputes : DisputeOK(dispute'[e])
        /\ dispute'[d] = g
    BY <1>1, <1>2, OneDispute
  <1>5. /\ request' = [s \in Requests |-> request'[s]]
        /\ \A s \in Requests : request'[s] = IF s = r THEN q ELSE request[s]
    BY <1>1 DEF LabelInv, Rows
  <1>6. RequestOK(q)'
    BY <1>2, <1>3, <1>4 DEF RequestOK, DecidedAs, Filed
  <1>7. Rows'
    BY <1>1, <1>4, <1>5 DEF LabelInv, Rows, DisputeOK, RowOK
  <1>8. ASSUME NEW b \in Audits PROVE Grounded(b)'
    BY <1>1, <1>4, GroundedKept DEF LabelInv
  <1>9. \A s \in Requests : request'[s] = request[s] \/ RequestOK(request[s])'
    BY <1>5, <1>6 DEF RequestOK
  <1> QED BY <1>1, <1>4, <1>7, <1>8, <1>9, Kept

\* The label sink copies a decided dispute onto the row of its own audit.
LEMMA RecordKeeps ==
  ASSUME LabelInv, NEW r \in Requests, RecordLabel(r)
  PROVE  LabelInv'
  <1> DEFINE d == request[r].dispute
             a == AuditOf(d)
             old == row[a]
             label == FraudLabel(dispute[d].status)
             evidence == dispute[d].evidence
             new == FeatureRow(old.capture, old.reach, label, evidence)
  <1>1. d \in Disputes /\ DecidedAs(d)
    BY InFlight DEF RecordLabel
  <1>2. Finish(r) /\ UNCHANGED <<dispute, disclosed>>
    BY DEF RecordLabel
  <1>3. CASE UNCHANGED row
    BY <1>2, <1>3, Finished, QuietKeeps
  <1>4. CASE ~UNCHANGED row
    <2>1. old.exists /\ row' = [row EXCEPT ![a] = new]
      BY <1>4 DEF RecordLabel, SetFraudLabel, WriteFraudLabel
    <2>2. /\ new.capture = old.capture /\ new.label = label /\ new.evidence = evidence
          /\ new = FeatureRow(new.capture, new.reach, new.label, new.evidence)
      BY DEF FeatureRow
    <2> HIDE DEF new
    <2>3. /\ row' = [b \in Audits |-> row'[b]]
          /\ \A b \in Audits : row'[b] = IF b = a THEN new ELSE row[b]
      BY <2>1 DEF LabelInv, Rows
    <2>4. ASSUME NEW b \in Audits PROVE RowOK(row'[b])
      <3>1. RowOK(row[b])
        BY DEF LabelInv, Rows
      <3>2. CASE b # a
        BY <2>3, <3>1, <3>2
      <3>3. CASE b = a
        BY <2>1, <2>2, <2>3, <3>1, <3>3 DEF RowOK, NoRow
      <3> QED BY <3>2, <3>3
    <2>5. Rows'
      BY <1>2, <2>3, <2>4, Finished DEF LabelInv, Rows, DisputeOK, RowOK
    <2>6. Forward
      BY <1>2, StillForward
    <2>7. ASSUME NEW b \in Audits PROVE Grounded(b)'
      <3>1. CASE b # a
        BY <2>3, <2>6, <3>1, GroundedKept DEF LabelInv
      <3>2. CASE b = a
        BY <1>1, <1>2, <2>2, <2>3, <3>2 DEF Grounded, Ground, DecidedAs, Filed, AuditOf, FraudLabel
      <3> QED BY <3>1, <3>2
    <2> QED BY <1>2, <2>5, <2>6, <2>7, Finished, Kept
  <1> QED BY <1>3, <1>4

LEMMA Start ==
  ASSUME Init
  PROVE  LabelInv
  BY DEF Init, LabelInv, Rows, DisputeOK, RowOK, RequestOK, Grounded, NoRow

LEMMA Step ==
  ASSUME LabelInv, [Next]_vars
  PROVE  LabelInv'
  <1>1. CASE UNCHANGED vars
    BY <1>1, QuietKeeps DEF vars, LabelInv, Rows
  <1>2. CASE \E a \in Audits : RecordFraud(a) \/ Score(a) \/ RecordFeatures(a) \/ RetryRun(a)
    BY <1>2, WorkerKeeps
  <1>3. CASE \E d \in Disputes : ReviewDispute(d) \/ \E a \in Audits : FileDispute(d, a)
    BY <1>3, ReviewKeeps, FileKeeps
  <1>4. CASE \E r \in Requests, d \in Disputes :
               \/ ReadScore(r, d)
               \/ \E status \in Decided, evidence \in EvidenceKinds :
                    ResolveDispute(r, d, status, evidence)
    BY <1>4, ReadKeeps, ResolveKeeps
  <1>5. CASE \E r \in Requests : MarkScoreShown(r) \/ RecordLabel(r)
    BY <1>5, MarkKeeps, RecordKeeps
  <1> QED BY <1>1, <1>2, <1>3, <1>4, <1>5 DEF Next

-----------------------------------------------------------------------------
(* What the trainer is handed *)

LEMMA InvHolds == Spec => []LabelInv
  <1>1. Init => LabelInv
    BY Start
  <1>2. LabelInv /\ [Next]_vars => LabelInv'
    BY Step
  <1> QED BY <1>1, <1>2, PTL DEF Spec

\* Nobody was sent the score of a dispute exported as decided blind: every
\* disclosure is on its dispute's row, and stays there.
THEOREM BlindExamples == Spec => []BlindExamplesWereBlind
  <1>1. ASSUME LabelInv PROVE BlindExamplesWereBlind
    <2> SUFFICES ASSUME NEW x \in ExportLabels, ~x.scoreShown,
                        NEW e \in disclosed, e.dispute = x.dispute
                 PROVE  FALSE
      BY DEF BlindExamplesWereBlind
    <2>1. x.scoreShown = dispute[x.dispute].shown
      BY DEF ExportLabels
    <2>2. dispute[e.dispute].shown = TRUE
      BY <1>1 DEF LabelInv, Seen
    <2> QED BY <2>1, <2>2
  <1> QED BY <1>1, InvHolds, PTL

\* A label handed to a trainer, and a row our own estimate would have left out,
\* has an observed decision on its audit to stand on.
THEOREM Observations == Spec => []LearnsOnlyObservations
  <1>1. ASSUME LabelInv PROVE LearnsOnlyObservations
    <2> SUFFICES ASSUME NEW a \in Audits, NEW x, x = ToFeatureRowItem(a), row[a].exists,
                        x.label # "null" \/ (TrainingEligible(row[a]) /\ x.risk >= 30)
                 PROVE  \E y \in ExportLabels : y.audit = x.audit /\ y.label = x.label
      BY DEF LearnsOnlyObservations, ExportFeatureRows, ListFeatureRows
    <2>2. x.audit = a /\ x.risk = row[a].capture.risk
          /\ x.label = IF Observable(row[a].evidence) THEN row[a].label ELSE "null"
      BY DEF ToFeatureRowItem
    <2>3. row[a].capture.risk >= 30 => "fraud_risk_estimate_high" \in row[a].capture.reasons
      BY <1>1 DEF LabelInv, Rows, RowOK, NoRow
    <2>4. Observable(row[a].evidence)
      BY <2>2, <2>3 DEF TrainingEligible
    <2>5. PICK d \in Disputes : Ground(a, row[a].label, d)
      BY <1>1, <2>4 DEF LabelInv, Grounded
    <2> DEFINE y == [dispute |-> d, audit |-> AuditOf(d),
                     label |-> FraudLabel(dispute[d].status),
                     scoreShown |-> dispute[d].shown, features |-> fraud[AuditOf(d)].exists]
    <2>6. y \in ExportLabels
      BY <2>5 DEF ExportLabels, Ground
    <2>7. y.audit = x.audit /\ y.label = x.label
      BY <2>2, <2>4, <2>5 DEF Ground
    <2> QED BY <2>6, <2>7
  <1> QED BY <1>1, InvHolds, PTL

\* Only a reveal, a resolve and a filing write a dispute row, none of them a
\* decided one.
LEMMA DecidedStay ==
  ASSUME LabelInv, [Next]_vars, NEW d \in Disputes, DecidedAs(d)
  PROVE  dispute'[d] = dispute[d]
  <1>1. ASSUME NEW e \in Disputes, ~DecidedAs(e), NEW g, dispute' = [dispute EXCEPT ![e] = g]
        PROVE  dispute'[d] = dispute[d]
    BY <1>1
  <1>2. CASE \E a \in Audits, e \in Disputes : FileDispute(e, a)
    <2>1. PICK a \in Audits, e \in Disputes : FileDispute(e, a)
      BY <1>2
    <2>2. ~DecidedAs(e)
      BY <2>1 DEF FileDispute, DecidedAs
    <2> QED BY <1>1, <2>1, <2>2 DEF FileDispute, CreateDispute
  <1>3. CASE \E r \in Requests : MarkScoreShown(r)
    <2>1. PICK r \in Requests : MarkScoreShown(r)
      BY <1>3
    <2>2. request[r].dispute \in Disputes
      BY <2>1, InFlight DEF MarkScoreShown
    <2>3. Open(request[r].dispute) => ~DecidedAs(request[r].dispute)
      BY DEF Open, DecidedAs, Decided
    <2> QED BY <1>1, <2>1, <2>2, <2>3 DEF MarkScoreShown, Shown
  <1>4. CASE \E r \in Requests, e \in Disputes, status \in Decided, evidence \in EvidenceKinds :
               ResolveDispute(r, e, status, evidence)
    <2>1. PICK r \in Requests, e \in Disputes, status \in Decided, evidence \in EvidenceKinds :
                 ResolveDispute(r, e, status, evidence)
      BY <1>4
    <2>2. ~DecidedAs(e)
      BY <2>1 DEF ResolveDispute, Open, DecidedAs, Decided
    <2> QED BY <1>1, <2>1, <2>2 DEF ResolveDispute
  <1>5. CASE UNCHANGED dispute
    BY <1>5
  <1> QED BY <1>2, <1>3, <1>4, <1>5
       DEF Next, vars, RecordFraud, Score, RecordFeatures, RetryRun, ReviewDispute, ReadScore,
           RecordLabel

\* A decision, and what its adjudicator had seen, is never rewritten.
THEOREM DecisionsStay == Spec => DecisionIsFinal
  <1>1. LabelInv /\ [Next]_vars =>
          [\A d \in Disputes : DecidedAs(d) => dispute'[d] = dispute[d]]_vars
    BY DecidedStay
  <1> QED BY <1>1, InvHolds, PTL DEF Spec, DecisionIsFinal

\* What one step may do to the label of a row.
LabelStep(a) ==
  row[a].exists /\ row[a].label # "null" =>
    \/ row'[a].label = row[a].label /\ row'[a].evidence = row[a].evidence
    \/ \E d \in Disputes :
         DecidedAs(d) /\ AuditOf(d) = a /\ row'[a].label = FraudLabel(dispute[d].status)

LEMMA LabelStays ==
  ASSUME LabelInv, [Next]_vars, NEW a \in Audits
  PROVE  LabelStep(a)
  <1>1. CASE UNCHANGED row
    BY <1>1 DEF LabelStep
  <1>2. CASE \E b \in Audits : RecordFeatures(b) /\ ~UNCHANGED row
    <2>1. PICK b \in Audits : RecordFeatures(b) /\ ~UNCHANGED row
      BY <1>2
    <2> DEFINE capture == FeatureVector(FeatureCapture(run[b].snaps, fraud[b], LatestScore))
               new == IF row[b].exists
                        THEN FeatureRow(capture, row[b].reach \/ capture.reach,
                                        row[b].label, row[b].evidence)
                        ELSE FeatureRow(capture, capture.reach, "null", "null")
    <2>2. row' = [row EXCEPT ![b] = new]
      BY <2>1 DEF RecordFeatures, RecordFeatureRow, UpsertFeatureRow
    <2>3. row[b].exists => new.label = row[b].label /\ new.evidence = row[b].evidence
      BY DEF FeatureRow
    <2> HIDE DEF new
    <2> QED BY <2>2, <2>3 DEF LabelInv, Rows, LabelStep
  <1>3. CASE \E r \in Requests : RecordLabel(r) /\ ~UNCHANGED row
    <2>1. PICK r \in Requests : RecordLabel(r) /\ ~UNCHANGED row
      BY <1>3
    <2> DEFINE d == request[r].dispute
               b == AuditOf(d)
               label == FraudLabel(dispute[d].status)
               new == FeatureRow(row[b].capture, row[b].reach, label, dispute[d].evidence)
    <2>2. d \in Disputes /\ DecidedAs(d)
      BY <2>1, InFlight DEF RecordLabel
    <2>3. row' = [row EXCEPT ![b] = new]
      BY <2>1 DEF RecordLabel, SetFraudLabel, WriteFraudLabel
    <2>4. new.label = label
      BY DEF FeatureRow
    <2> HIDE DEF new
    <2>5. CASE a = b
      BY <2>2, <2>3, <2>4, <2>5 DEF LabelInv, Rows, LabelStep
    <2>6. CASE a # b
      BY <2>3, <2>6 DEF LabelInv, Rows, LabelStep
    <2> QED BY <2>5, <2>6
  <1> QED BY <1>1, <1>2, <1>3
       DEF Next, vars, RecordFraud, Score, RetryRun, FileDispute, ReviewDispute, ReadScore,
           MarkScoreShown, ResolveDispute

\* Retries capture the audit again and leave its label alone; only a decision on
\* the same audit replaces it.
THEOREM LabelsStay == Spec => LabelsOutliveCaptures
  <1>1. LabelInv /\ [Next]_vars =>
          [\A a \in Audits :
             row[a].exists /\ row[a].label # "null" =>
               \/ row'[a].label = row[a].label /\ row'[a].evidence = row[a].evidence
               \/ \E d \in Disputes :
                    DecidedAs(d) /\ AuditOf(d) = a /\ row'[a].label = FraudLabel(dispute[d].status)]_vars
    BY LabelStays DEF LabelStep
  <1> QED BY <1>1, InvHolds, PTL DEF Spec, LabelsOutliveCaptures

-----------------------------------------------------------------------------
(* What the rows hold *)

RunType ==
  [pc : {"idle", "score", "features", "settle"}, snaps : Captures \cup {<<>>}, runs : Nat]

FraudType ==
  [exists : {TRUE}, present : BOOLEAN, risk : RiskScores \cup {Null}, clique : {0, 1, Null}]

RowTyped(g) ==
  g = NoRow \/
    /\ g.capture.view \in Audits \cup {None}
    /\ g.label \in {"null", "fraud", "legitimate"}
    /\ g.evidence \in EvidenceKinds \cup {"null"}
    /\ (g.label = "null") = (g.evidence = "null")

DisputeTyped(g) ==
  g.exists =>
    /\ g.audit \in Audits
    /\ g.status \in Decided \cup {"open"}
    /\ g.evidence \in EvidenceKinds \cup {"null"}
    /\ (g.status = "open") = (g.evidence = "null")
    /\ g.shown \in BOOLEAN

RequestType == [pc : {"mark", "record"}, dispute : Disputes, present : BOOLEAN]

\* The worker's side: what a run holds and what it has written.
WorkerTyped ==
  /\ run \in [Audits -> RunType]
  /\ \A a \in Audits : run[a].runs <= MaxRuns[a]
  /\ fraud \in [Audits -> {NoRow} \cup FraudType]
  /\ scored \in Seq(Audits)

\* The administrators' side.
DecisionsTyped ==
  /\ \A d \in Disputes : DisputeTyped(dispute[d])
  /\ \A r \in Requests : request[r] = Idle \/ request[r] \in RequestType
  /\ disclosed \subseteq [dispute : Disputes, present : BOOLEAN]

FieldInv ==
  /\ LabelInv
  /\ WorkerTyped
  /\ \A a \in Audits : RowTyped(row[a])
  /\ DecisionsTyped

\* A set of naturals has a least element.
LEMMA Least ==
  ASSUME NEW T \in SUBSET Nat, T # {}
  PROVE  \E m \in T : \A k \in T : m <= k
  <1> DEFINE R == {p \in Nat \X Nat : p[1] < p[2]}
  <1>1. IsWellFoundedOn(R, Nat)
    BY NatLessThanWellFounded DEF OpToRel
  <1>2. \A x, y \in Nat : y < x => <<y, x>> \in R
    OBVIOUS
  <1> HIDE DEF R
  <1>3. PICK m \in T : \A y \in T : ~(<<y, m>> \in R)
    BY <1>1, WFMin
  <1>4. ASSUME NEW k \in T PROVE m <= k
    <2>1. ~(k < m)
      BY <1>2, <1>3
    <2> QED BY <2>1
  <1> QED BY <1>4

\* Risk estimates, if there are any, have a greatest: the one nearest to 100.
LEMMA GreatestRisk ==
  ASSUME NEW S \in SUBSET (0..100), S # {}
  PROVE  \E x \in S : \A y \in S : x >= y
  <1> DEFINE D == {100 - y : y \in S}
  <1>1. D \in SUBSET Nat /\ D # {}
    <2>1. \A y \in S : 100 - y \in Nat
      OBVIOUS
    <2>2. PICK y \in S : TRUE
      OBVIOUS
    <2>3. 100 - y \in D
      OBVIOUS
    <2> QED BY <2>1, <2>3
  <1>2. PICK n \in D : \A m \in D : n <= m
    BY <1>1, Least
  <1>3. PICK x \in S : n = 100 - x
    OBVIOUS
  <1>4. ASSUME NEW y \in S PROVE x >= y
    <2>1. n <= 100 - y
      BY <1>2
    <2> QED BY <1>3, <2>1
  <1> QED BY <1>4

\* The worst of a set of answers is one of them.
LEMMA WorstIsSeen ==
  ASSUME NEW S \in SUBSET (0..100)
  PROVE  Worst(S) \in S \cup {Null}
  <1>1. CASE S = {}
    BY <1>1 DEF Worst
  <1>2. CASE S # {}
    <2>1. \E x \in S : \A y \in S : x >= y
      BY <1>2, GreatestRisk
    <2>2. (CHOOSE x \in S : \A y \in S : x >= y) \in S
      BY <2>1
    <2> QED BY <1>2, <2>2 DEF Worst
  <1> QED BY <1>1, <1>2

\* Whatever the two models answer, or fail to, the fraud row is one of its type.
LEMMA FraudRowTyped ==
  ASSUME NEW snaps, NEW answers, DOMAIN answers = DOMAIN snaps,
         \A i \in DOMAIN snaps : answers[i] \in Answers(snaps[i])
  PROVE  ScoreFraud(answers) \in FraudType
  <1> DEFINE risks == {answers[i]["risk"] : i \in DOMAIN answers} \ {Null}
             cliques == {answers[i]["clique"] : i \in DOMAIN answers} \ {Null}
  <1>1. ASSUME NEW i \in DOMAIN answers
        PROVE  /\ answers[i]["risk"] \in RiskScores \cup {Null}
               /\ answers[i]["clique"] \in {0, 1, Null}
    <2>1. answers[i] \in Answers(snaps[i])
      OBVIOUS
    <2> QED BY <2>1 DEF Answers, Call
  <1>2. risks \subseteq RiskScores /\ cliques \subseteq {0, 1}
    BY <1>1
  <1>3. RiskScores \subseteq 0..100 /\ {0, 1} \subseteq 0..100
    BY LabelsAssumption
  <1> HIDE DEF risks, cliques
  <1>4. Worst(risks) \in RiskScores \cup {Null}
    BY <1>2, <1>3, WorstIsSeen
  <1>5. Worst(cliques) \in {0, 1, Null}
    BY <1>2, <1>3, WorstIsSeen
  <1>6. ScoreFraud(answers) =
          [exists |-> TRUE, present |-> risks \cup cliques # {},
           risk |-> Worst(risks), clique |-> Worst(cliques)]
    BY DEF ScoreFraud, risks, cliques
  <1>7. (risks \cup cliques # {}) \in BOOLEAN
    OBVIOUS
  <1> QED BY <1>4, <1>5, <1>6, <1>7 DEF FraudType

\* One run goes on or starts over.
LEMMA RunMoves ==
  ASSUME WorkerTyped, NEW a \in Audits, NEW g \in RunType, g.runs <= MaxRuns[a],
         run' = [run EXCEPT ![a] = g]
  PROVE  /\ run' \in [Audits -> RunType]
         /\ \A b \in Audits : run'[b].runs <= MaxRuns[b]
  BY DEF WorkerTyped

\* A run moves from one of its places to the next.
LEMMA RunAdvances ==
  ASSUME WorkerTyped, NEW a \in Audits, NEW from,
         NEW to \in {"idle", "score", "features", "settle"}, Advance(a, from, to)
  PROVE  /\ run' \in [Audits -> RunType]
         /\ \A b \in Audits : run'[b].runs <= MaxRuns[b]
  BY DEF Advance, WorkerTyped, RunType

LEMMA RecordFraudTyped ==
  ASSUME WorkerTyped, NEW a \in Audits, RecordFraud(a)
  PROVE  WorkerTyped'
  <1> PICK snaps \in Captures :
        \/ /\ \E answers \in [DOMAIN snaps -> UNION {Answers(snaps[i]) : i \in DOMAIN snaps}] :
                /\ \A i \in DOMAIN snaps : answers[i] \in Answers(snaps[i])
                /\ fraud' = [fraud EXCEPT ![a] = ScoreFraud(answers)]
           /\ run' = [run EXCEPT ![a] = [pc |-> "score", snaps |-> snaps, runs |-> @.runs + 1]]
        \/ /\ run' = [run EXCEPT ![a] = [pc |-> "idle", snaps |-> <<>>, runs |-> @.runs + 1]]
           /\ UNCHANGED fraud
    BY DEF RecordFraud
  <1>1. /\ run[a] \in RunType /\ run[a].runs < MaxRuns[a] /\ MaxRuns[a] \in Nat
        /\ UNCHANGED scored
    BY LabelsAssumption DEF RecordFraud, WorkerTyped
  <1>2. run[a].runs + 1 \in Nat /\ run[a].runs + 1 <= MaxRuns[a]
    BY <1>1 DEF RunType
  <1>3. /\ run' \in [Audits -> RunType]
        /\ \A b \in Audits : run'[b].runs <= MaxRuns[b]
    <2> DEFINE g(pc, s) == [pc |-> pc, snaps |-> s, runs |-> run[a].runs + 1]
    <2>1. /\ g("score", snaps) \in RunType /\ g("score", snaps).runs <= MaxRuns[a]
          /\ g("idle", <<>>) \in RunType /\ g("idle", <<>>).runs <= MaxRuns[a]
      BY <1>2 DEF RunType
    <2> QED BY <2>1, RunMoves
  <1>4. fraud' \in [Audits -> {NoRow} \cup FraudType]
    <2>1. CASE UNCHANGED fraud
      BY <2>1 DEF WorkerTyped
    <2>2. ASSUME NEW answers \in [DOMAIN snaps -> UNION {Answers(snaps[i]) : i \in DOMAIN snaps}],
                 \A i \in DOMAIN snaps : answers[i] \in Answers(snaps[i]),
                 fraud' = [fraud EXCEPT ![a] = ScoreFraud(answers)]
          PROVE  fraud' \in [Audits -> {NoRow} \cup FraudType]
      <3>1. DOMAIN answers = DOMAIN snaps
        OBVIOUS
      <3>2. ScoreFraud(answers) \in FraudType
        BY <2>2, <3>1, FraudRowTyped
      <3> QED BY <2>2, <3>2 DEF WorkerTyped
    <2> QED BY <2>1, <2>2
  <1> QED BY <1>1, <1>3, <1>4 DEF WorkerTyped

LEMMA ScoreTyped ==
  ASSUME WorkerTyped, NEW a \in Audits, Score(a)
  PROVE  WorkerTyped'
  <1>1. scored' \in Seq(Audits)
    BY DEF Score, WorkerTyped
  <1>2. Advance(a, "score", "features") /\ UNCHANGED fraud
    BY DEF Score
  <1> QED BY <1>1, <1>2, RunAdvances DEF WorkerTyped

LEMMA RetryTyped ==
  ASSUME WorkerTyped, NEW a \in Audits, RetryRun(a)
  PROVE  WorkerTyped'
  <1> DEFINE g == [pc |-> "idle", snaps |-> <<>>, runs |-> run[a].runs]
  <1>1. run' = [run EXCEPT ![a] = g] /\ UNCHANGED <<fraud, scored>>
    BY DEF RetryRun
  <1>2. g \in RunType /\ g.runs <= MaxRuns[a]
    BY DEF WorkerTyped, RunType
  <1> HIDE DEF g
  <1> QED BY <1>1, <1>2, RunMoves DEF WorkerTyped

LEMMA LatestScoreTyped ==
  ASSUME WorkerTyped
  PROVE  LatestScore \in Audits \cup {None}
  BY DEF WorkerTyped, LatestScore

\* A capture is written under the niche of some audit, and labels nothing.
LEMMA CaptureTyped ==
  ASSUME FieldInv, NEW a \in Audits, RecordFeatures(a)
  PROVE  WorkerTyped' /\ \A b \in Audits : RowTyped(row'[b])
  <1> DEFINE capture == FeatureVector(FeatureCapture(run[a].snaps, fraud[a], LatestScore))
             old == row[a]
             new == IF old.exists
                      THEN FeatureRow(capture, old.reach \/ capture.reach, old.label, old.evidence)
                      ELSE FeatureRow(capture, capture.reach, "null", "null")
  <1>1. /\ Advance(a, "features", "settle") /\ UNCHANGED <<fraud, scored>>
        /\ UpsertFeatureRow(a, capture) \/ UNCHANGED row
    BY DEF RecordFeatures, RecordFeatureRow
  <1>2. WorkerTyped'
    BY <1>1, RunAdvances DEF FieldInv, WorkerTyped
  <1>3. capture.view \in Audits \cup {None}
    BY LatestScoreTyped DEF FieldInv, FeatureVector, FeatureCapture
  <1> HIDE DEF capture
  <1>4. RowTyped(new)
    BY <1>3 DEF FieldInv, RowTyped, FeatureRow, NoRow
  <1>5. CASE row' = [row EXCEPT ![a] = new]
    <2> HIDE DEF new
    <2> QED BY <1>2, <1>4, <1>5 DEF FieldInv, LabelInv, Rows
  <1>6. CASE UNCHANGED row
    BY <1>2, <1>6 DEF FieldInv
  <1> QED BY <1>1, <1>5, <1>6 DEF UpsertFeatureRow

\* One dispute row is replaced by one of its type.
LEMMA DisputeReplaced ==
  ASSUME FieldInv, NEW d \in Disputes, NEW g, DisputeTyped(g),
         dispute' = [dispute EXCEPT ![d] = g]
  PROVE  \A e \in Disputes : DisputeTyped(dispute'[e])
  BY DEF FieldInv, DecisionsTyped, LabelInv, Rows

\* One request is replaced by one of its type, or ends.
LEMMA RequestReplaced ==
  ASSUME FieldInv, NEW r \in Requests, NEW q, q = Idle \/ q \in RequestType,
         request' = [request EXCEPT ![r] = q]
  PROVE  \A s \in Requests : request'[s] = Idle \/ request'[s] \in RequestType
  BY DEF FieldInv, DecisionsTyped, LabelInv, Rows

LEMMA FileTyped ==
  ASSUME FieldInv, NEW d \in Disputes, NEW a \in Audits, FileDispute(d, a)
  PROVE  DecisionsTyped'
  <1>1. DisputeTyped(DisputeRow(a, "open", "null", FALSE))
    BY DEF DisputeTyped, DisputeRow, Decided
  <1> QED BY <1>1, DisputeReplaced
       DEF FileDispute, CreateDispute, FieldInv, DecisionsTyped

\* The fraud row a reader of a dispute sees says whether there is an estimate.
LEMMA PresentTyped ==
  ASSUME FieldInv, NEW d \in Disputes, Filed(d), fraud[AuditOf(d)].exists
  PROVE  fraud[AuditOf(d)].present \in BOOLEAN
  <1>1. AuditOf(d) \in Audits
    BY DEF FieldInv, DecisionsTyped, DisputeTyped, Filed, AuditOf
  <1>2. fraud[AuditOf(d)] \in {NoRow} \cup FraudType
    BY <1>1 DEF FieldInv, WorkerTyped
  <1>3. fraud[AuditOf(d)] # NoRow
    BY DEF NoRow
  <1> HIDE DEF NoRow
  <1>4. fraud[AuditOf(d)] \in FraudType
    BY <1>2, <1>3
  <1> QED BY <1>4 DEF FraudType

LEMMA ReviewTyped ==
  ASSUME FieldInv, NEW d \in Disputes, ReviewDispute(d)
  PROVE  DecisionsTyped'
  <1>1. fraud[AuditOf(d)].present \in BOOLEAN
    BY PresentTyped DEF ReviewDispute
  <1> QED BY <1>1 DEF ReviewDispute, FieldInv, DecisionsTyped, DisputeTyped

LEMMA ReadTyped ==
  ASSUME FieldInv, NEW r \in Requests, NEW d \in Disputes, ReadScore(r, d)
  PROVE  DecisionsTyped'
  <1> DEFINE q == [pc |-> "mark", dispute |-> d, present |-> fraud[AuditOf(d)].present]
  <1>1. q \in RequestType
    BY PresentTyped DEF ReadScore, RequestType
  <1>2. request' = [request EXCEPT ![r] = q] /\ UNCHANGED <<dispute, disclosed>>
    BY DEF ReadScore
  <1> HIDE DEF q
  <1> QED BY <1>1, <1>2, RequestReplaced DEF FieldInv, DecisionsTyped, DisputeTyped

LEMMA FinishTyped ==
  ASSUME FieldInv, NEW r \in Requests, Finish(r)
  PROVE  \A s \in Requests : request'[s] = Idle \/ request'[s] \in RequestType
  BY RequestReplaced DEF Finish

LEMMA MarkTyped ==
  ASSUME FieldInv, NEW r \in Requests, MarkScoreShown(r)
  PROVE  DecisionsTyped'
  <1> DEFINE d == request[r].dispute
             e == [dispute |-> d, present |-> request[r].present]
  <1>1. d \in Disputes /\ Filed(d)
    BY InFlight DEF MarkScoreShown, FieldInv
  <1>2. e \in [dispute : Disputes, present : BOOLEAN]
    <2>1. request[r].pc = "mark"
      BY DEF MarkScoreShown
    <2>2. request[r] # Idle
      BY <2>1 DEF Idle
    <2>3. request[r] \in RequestType
      BY <2>2 DEF FieldInv, DecisionsTyped
    <2> QED BY <2>3 DEF RequestType
  <1>3. \/ dispute' = [dispute EXCEPT ![d] =
                        DisputeRow(dispute[d].audit, dispute[d].status, dispute[d].evidence, TRUE)]
           /\ disclosed' = disclosed \cup {e}
        \/ UNCHANGED <<dispute, disclosed>>
    BY DEF MarkScoreShown, Shown, Disclose
  <1>4. DisputeTyped(DisputeRow(dispute[d].audit, dispute[d].status, dispute[d].evidence, TRUE))
    BY <1>1 DEF FieldInv, DecisionsTyped, DisputeTyped, DisputeRow, Filed
  <1>5. \A s \in Requests : request'[s] = Idle \/ request'[s] \in RequestType
    BY FinishTyped DEF MarkScoreShown
  <1> HIDE DEF d, e
  <1>6. \A f \in Disputes : DisputeTyped(dispute'[f])
    BY <1>1, <1>3, <1>4, DisputeReplaced DEF FieldInv, DecisionsTyped
  <1> QED BY <1>2, <1>3, <1>5, <1>6 DEF FieldInv, DecisionsTyped

LEMMA ResolveTyped ==
  ASSUME FieldInv, NEW r \in Requests, NEW d \in Disputes,
         NEW status \in Decided, NEW evidence \in EvidenceKinds,
         ResolveDispute(r, d, status, evidence)
  PROVE  DecisionsTyped'
  <1> DEFINE g == DisputeRow(dispute[d].audit, status, evidence, dispute[d].shown)
             q == [pc |-> "record", dispute |-> d, present |-> FALSE]
  <1>1. /\ dispute' = [dispute EXCEPT ![d] = g]
        /\ request' = [request EXCEPT ![r] = q]
        /\ Filed(d) /\ UNCHANGED disclosed
    BY DEF ResolveDispute, Open
  <1>2. DisputeTyped(g)
    BY <1>1 DEF FieldInv, DecisionsTyped, DisputeTyped, DisputeRow, Filed, Decided, EvidenceKinds
  <1>3. q \in RequestType
    BY DEF RequestType
  <1> HIDE DEF g, q
  <1> QED BY <1>1, <1>2, <1>3, DisputeReplaced, RequestReplaced DEF FieldInv, DecisionsTyped

\* The sink writes a label together with its evidence.
LEMMA LabelTyped ==
  ASSUME FieldInv, NEW r \in Requests, RecordLabel(r)
  PROVE  DecisionsTyped' /\ \A b \in Audits : RowTyped(row'[b])
  <1> DEFINE d == request[r].dispute
             a == AuditOf(d)
             label == FraudLabel(dispute[d].status)
             evidence == dispute[d].evidence
             new == FeatureRow(row[a].capture, row[a].reach, label, evidence)
  <1>1. Finish(r) /\ UNCHANGED <<dispute, disclosed>>
    BY DEF RecordLabel
  <1>2. DecisionsTyped'
    BY <1>1, FinishTyped DEF FieldInv, DecisionsTyped, DisputeTyped
  <1>3. d \in Disputes /\ DecidedAs(d)
    BY InFlight DEF RecordLabel, FieldInv
  <1>4. a \in Audits
    BY <1>3 DEF FieldInv, DecisionsTyped, DisputeTyped, DecidedAs, Filed, AuditOf
  <1>5. CASE UNCHANGED row
    BY <1>2, <1>5 DEF FieldInv
  <1>6. CASE ~UNCHANGED row
    <2>1. /\ row[a].exists /\ evidence \in EvidenceKinds
          /\ row' = [row EXCEPT ![a] = new]
      BY <1>6 DEF RecordLabel, SetFraudLabel, WriteFraudLabel
    <2>2. RowTyped(row[a]) /\ row[a] # NoRow
      BY <1>4, <2>1 DEF FieldInv, NoRow
    <2>3. RowTyped(new)
      BY <2>1, <2>2 DEF RowTyped, FeatureRow, FraudLabel, EvidenceKinds
    <2> HIDE DEF new
    <2> QED BY <1>2, <1>4, <2>1, <2>3 DEF FieldInv, LabelInv, Rows
  <1> QED BY <1>5, <1>6

LEMMA FieldStep ==
  ASSUME FieldInv, [Next]_vars
  PROVE  FieldInv'
  <1>1. LabelInv'
    BY Step DEF FieldInv
  <1>2. CASE UNCHANGED vars
    BY <1>1, <1>2 DEF vars, FieldInv, WorkerTyped, DecisionsTyped, DisputeTyped, RowTyped
  <1>3. CASE \E a \in Audits : RecordFraud(a) \/ Score(a) \/ RecordFeatures(a) \/ RetryRun(a)
    <2> PICK a \in Audits : RecordFraud(a) \/ Score(a) \/ RecordFeatures(a) \/ RetryRun(a)
      BY <1>3
    <2>1. DecisionsTyped'
      BY DEF FieldInv, DecisionsTyped, DisputeTyped, RecordFraud, Score, RecordFeatures, RetryRun
    <2>2. CASE RecordFeatures(a)
      BY <1>1, <2>1, <2>2, CaptureTyped DEF FieldInv
    <2>3. CASE RecordFraud(a) \/ Score(a) \/ RetryRun(a)
      <3>1. WorkerTyped'
        BY <2>3, RecordFraudTyped, ScoreTyped, RetryTyped DEF FieldInv
      <3>2. UNCHANGED row
        BY <2>3 DEF RecordFraud, Score, RetryRun
      <3> QED BY <1>1, <2>1, <3>1, <3>2 DEF FieldInv
    <2> QED BY <2>2, <2>3
  <1>4. CASE \E d \in Disputes : ReviewDispute(d) \/ \E a \in Audits : FileDispute(d, a)
    <2>1. DecisionsTyped'
      BY <1>4, ReviewTyped, FileTyped
    <2>2. UNCHANGED <<run, fraud, scored, row>>
      BY <1>4 DEF ReviewDispute, FileDispute
    <2> QED BY <1>1, <2>1, <2>2 DEF FieldInv, WorkerTyped
  <1>5. CASE \E r \in Requests, d \in Disputes :
               \/ ReadScore(r, d)
               \/ \E status \in Decided, evidence \in EvidenceKinds :
                    ResolveDispute(r, d, status, evidence)
    <2>1. DecisionsTyped'
      BY <1>5, ReadTyped, ResolveTyped
    <2>2. UNCHANGED <<run, fraud, scored, row>>
      BY <1>5 DEF ReadScore, ResolveDispute
    <2> QED BY <1>1, <2>1, <2>2 DEF FieldInv, WorkerTyped
  <1>6. CASE \E r \in Requests : MarkScoreShown(r)
    <2>1. DecisionsTyped'
      BY <1>6, MarkTyped
    <2>2. UNCHANGED <<run, fraud, scored, row>>
      BY <1>6 DEF MarkScoreShown
    <2> QED BY <1>1, <2>1, <2>2 DEF FieldInv, WorkerTyped
  <1>7. CASE \E r \in Requests : RecordLabel(r)
    <2>1. DecisionsTyped' /\ \A b \in Audits : RowTyped(row'[b])
      BY <1>7, LabelTyped
    <2>2. UNCHANGED <<run, fraud, scored>>
      BY <1>7 DEF RecordLabel
    <2> QED BY <1>1, <2>1, <2>2 DEF FieldInv, WorkerTyped
  <1> QED BY <1>2, <1>3, <1>4, <1>5, <1>6, <1>7 DEF Next

\* Every row a run, a dispute or the sink writes is one the tables can hold: a
\* label never without its evidence, an open dispute never with one, a fraud row
\* never with an estimate no model gave.
THEOREM LabelTypes == Spec => []TypeOK
  <1>1. ASSUME Init PROVE FieldInv
    <2>1. LabelInv
      BY <1>1, Start
    <2>2. run \in [Audits -> RunType] /\ \A a \in Audits : run[a].runs <= MaxRuns[a]
      BY <1>1, LabelsAssumption DEF Init, RunType, IdleRun
    <2>3. WorkerTyped
      BY <1>1, <2>2 DEF Init, WorkerTyped
    <2>4. DecisionsTyped /\ \A a \in Audits : RowTyped(row[a])
      BY <1>1 DEF Init, DecisionsTyped, DisputeTyped, RowTyped, NoRow
    <2> QED BY <2>1, <2>3, <2>4 DEF FieldInv
  <1>2. FieldInv /\ [Next]_vars => FieldInv'
    BY FieldStep
  <1>3. ASSUME FieldInv PROVE TypeOK
    <2>1. \A a \in Audits : run[a] \in RunType /\ run[a].runs <= MaxRuns[a] /\ MaxRuns[a] \in Nat
      BY <1>3, LabelsAssumption DEF FieldInv, WorkerTyped
    <2>2. \A a \in Audits :
            /\ run[a].pc \in {"idle", "score", "features", "settle"}
            /\ run[a].snaps \in Captures \cup {<<>>}
            /\ run[a].runs \in 0..MaxRuns[a]
      BY <2>1 DEF RunType
    <2>3. \A a \in Audits : fraud[a] = NoRow \/ fraud[a] \in FraudType
      BY <1>3 DEF FieldInv, WorkerTyped
    <2> QED BY <1>3, <2>2, <2>3
         DEF TypeOK, FieldInv, WorkerTyped, DecisionsTyped, RowTyped, DisputeTyped, Filed,
             RequestType, FraudType
  <1> QED BY <1>1, <1>2, <1>3, PTL DEF Spec
=============================================================================
