------------------------------- MODULE Labels -------------------------------
(***************************************************************************)
(* The label loop: what an audit run observes about fraud, the feature row *)
(* it leaves for training, the disputes people file against the audit, and *)
(* the two exports a trainer reads (GET /admin/training/labels and         *)
(* GET /ml/feature-rows).                                                  *)
(*                                                                         *)
(* Four parties act on one audit without a common lock: the worker run and *)
(* its retries, whoever files disputes, the administrators who review,     *)
(* reveal and resolve them, and the label sink that copies a decision onto *)
(* the feature row after the decision has committed. One action is one     *)
(* statement sent to Postgres; what a request holds between two of its     *)
(* statements is in request.                                               *)
(***************************************************************************)
EXTENDS Integers, Sequences, FiniteSets

CONSTANTS
  Audits,        \* audit jobs, all of one influencer
  Disputes,      \* dispute rows that may be filed
  Requests,      \* reveal and resolve requests in flight at once
  Captures,      \* what a run may have collected: sequences of snapshots
  RiskScores,    \* composite risk estimates the fraud model may answer
  None,          \* no audit
  MaxRuns        \* MaxRuns[a]: runs of audit a, the first and its retries

\* A snapshot, as far as the fraud pass and the feature store read it: ages of
\* posts and readings are days before the pull.
SnapshotType ==
  [source : {"instagram-graph", "csv", "youtube-api"}, followers : Nat,
   readings : SUBSET [age : Nat, value : Nat], posts : Seq(Nat),
   reach : BOOLEAN, comments : BOOLEAN]

ASSUME LabelsAssumption ==
  /\ None \notin Audits
  /\ Captures \subseteq Seq(SnapshotType)
  /\ RiskScores \subseteq 0..100
  /\ MaxRuns \in [Audits -> Nat]

Null == -1     \* SQL NULL, a nil pointer: not observed

VARIABLES
  run,       \* run[a]: where the worker's run of audit a stands
  fraud,     \* fraud[a]: the fraud_result row, or NoRow
  scored,    \* audits with a score row, oldest score first
  row,       \* row[a]: the training_feature_row, or NoRow
  dispute,   \* dispute[d]: the dispute row, or NoRow
  request,   \* request[r]: what an administrator's request holds
  disclosed  \* fraud estimates sent to a reader of a dispute (bookkeeping)

vars == <<run, fraud, scored, row, dispute, request, disclosed>>

NoRow == [exists |-> FALSE]

FeatureRow(vector, reach, label, evidence) ==
  [exists |-> TRUE, capture |-> vector, reach |-> reach, label |-> label, evidence |-> evidence]

DisputeRow(audit, status, evidence, shown) ==
  [exists |-> TRUE, audit |-> audit, status |-> status, evidence |-> evidence, shown |-> shown]

-----------------------------------------------------------------------------
(* What an audit observes *)

Worst(S) == IF S = {} THEN Null ELSE CHOOSE x \in S : \A y \in S : x >= y

\* A call of the ml service: whatever goes wrong in sending it, in the service or
\* in reading the answer is one error, and the signal is not observed.
Call(answers) == answers \cup {Null}

\* The answers of the two models on one snapshot. Without comments the clique
\* model is not asked.
Answers(snap) ==
  [risk : Call(RiskScores), clique : IF snap.comments THEN Call({0, 1}) ELSE {Null}]

\* auditFraud.ScoreFraud: the worst answer per signal over the platforms.
ScoreFraud(answers) ==
  LET Seen(signal) == {answers[i][signal] : i \in DOMAIN answers} \ {Null}
  IN [exists |-> TRUE,
      present |-> Seen("risk") \cup Seen("clique") # {},
      risk |-> Worst(Seen("risk")), clique |-> Worst(Seen("clique"))]

\* primarySnapshot: the largest following, the first of equals.
PrimarySnapshot(snaps) ==
  snaps[CHOOSE i \in DOMAIN snaps :
          /\ \A j \in DOMAIN snaps : snaps[j].followers <= snaps[i].followers
          /\ \A j \in 1..(i - 1) : snaps[j].followers < snaps[i].followers]

\* accountAgeDaysProxy: the oldest dated observation of the snapshot.
AccountAgeDays(snap) ==
  Worst({p.age : p \in snap.readings} \cup {snap.posts[i] : i \in DOMAIN snap.posts})

\* hasFollowerSpike: two neighbouring readings at most a day apart, the later
\* more than half above the earlier.
HasFollowerSpike(readings) ==
  \E p, q \in readings :
    /\ q.age < p.age /\ p.age - q.age <= 1
    /\ ~\E r \in readings : q.age < r.age /\ r.age < p.age
    /\ 2 * (q.value - p.value) > (IF p.value < 1 THEN 1 ELSE p.value)

\* evaluateQuality. The composition root never reports a promoted fraction, so
\* that rule never fires and has no reason here.
EvaluateQuality(estimate, snap) ==
  LET age == AccountAgeDays(snap) IN
  (IF estimate.present THEN {} ELSE {"no_fraud_estimate"}) \cup
  (IF estimate.risk # Null /\ estimate.risk >= 30
     THEN {"fraud_risk_estimate_high"} ELSE {}) \cup
  (IF age # Null /\ age < 90 THEN {"account_too_new"} ELSE {}) \cup
  (IF HasFollowerSpike(snap.readings) THEN {"follower_spike"} ELSE {}) \cup
  (IF Len(snap.posts) < 5 THEN {"insufficient_posts"} ELSE {})

\* deriveReachLabel: a reach was measured by a live Instagram pull.
MeasuresReach(snaps) ==
  \E i \in DOMAIN snaps : snaps[i].source = "instagram-graph" /\ snaps[i].reach

\* The organic flag a capture carries: the composition root leaves it unset.
ReachOrganic == "unknown"

\* The data paths behind a capture. Every connector names its own.
SnapshotSources(snaps) == {snaps[i].source : i \in DOMAIN snaps}

\* What the audit hands to the feature store; view is the audit whose score
\* supplied niche, tier and verification.
FeatureCapture(snaps, estimate, view) ==
  [snaps |-> snaps, fraud |-> estimate, view |-> view, organic |-> ReachOrganic]

\* The frozen vector, as far as a reader of a row can tell: the signals pass
\* through, one not observed stays Null.
FeatureVector(capture) ==
  [risk |-> capture.fraud.risk, clique |-> capture.fraud.clique,
   reasons |-> EvaluateQuality(capture.fraud, PrimarySnapshot(capture.snaps)),
   sources |-> SnapshotSources(capture.snaps),
   reach |-> capture.organic = "organic" /\ MeasuresReach(capture.snaps),
   view |-> capture.view]

-----------------------------------------------------------------------------
(* Disputes and evidence *)

Decided == {"resolved", "rejected"}

\* LabelEvidence: the kinds that name an observation are one kind here.
EvidenceKinds == {"observed", "heuristic_only"}
Observable(evidence) == evidence = "observed"

\* Decision.FraudLabel: a rejected dispute confirms the fraud.
FraudLabel(status) == IF status = "rejected" THEN "fraud" ELSE "legitimate"

Filed(d) == dispute[d].exists
Open(d) == Filed(d) /\ dispute[d].status = "open"
DecidedAs(d) == Filed(d) /\ dispute[d].status \in Decided

IdleRun == [pc |-> "idle", snaps |-> <<>>, runs |-> 0]
Idle == [pc |-> "idle"]

TypeOK ==
  /\ \A a \in Audits :
       /\ run[a].pc \in {"idle", "score", "features", "settle"}
       /\ run[a].snaps \in Captures \cup {<<>>}
       /\ run[a].runs \in 0..MaxRuns[a]
       /\ fraud[a] = NoRow \/ fraud[a] \in
            [exists : {TRUE}, present : BOOLEAN, risk : RiskScores \cup {Null}, clique : {0, 1, Null}]
       /\ row[a] = NoRow \/
            /\ row[a].capture.view \in Audits \cup {None}
            /\ row[a].label \in {"null", "fraud", "legitimate"}
            /\ row[a].evidence \in EvidenceKinds \cup {"null"}
            /\ (row[a].label = "null") = (row[a].evidence = "null")
  /\ scored \in Seq(Audits)
  /\ \A d \in Disputes :
       Filed(d) =>
         /\ dispute[d].audit \in Audits
         /\ dispute[d].status \in Decided \cup {"open"}
         /\ dispute[d].evidence \in EvidenceKinds \cup {"null"}
         /\ (dispute[d].status = "open") = (dispute[d].evidence = "null")
         /\ dispute[d].shown \in BOOLEAN
  /\ \A r \in Requests :
       request[r] = Idle \/
         request[r] \in [pc : {"mark", "record"}, dispute : Disputes, present : BOOLEAN]
  /\ disclosed \subseteq [dispute : Disputes, present : BOOLEAN]

Init ==
  /\ run = [a \in Audits |-> IdleRun]
  /\ fraud = [a \in Audits |-> NoRow]
  /\ scored = <<>>
  /\ row = [a \in Audits |-> NoRow]
  /\ dispute = [d \in Disputes |-> NoRow]
  /\ request = [r \in Requests |-> Idle]
  /\ disclosed = {}

-----------------------------------------------------------------------------
(* The worker: scoreAndReport *)

Advance(a, from, to) ==
  /\ run[a].pc = from
  /\ run' = [run EXCEPT ![a].pc = to]

\* The fraud pass and its row. The comment-quality row is written here too, best
\* effort and for display: no operation of this module reads it. When the fraud
\* row cannot be written the run is retried.
RecordFraud(a) ==
  /\ run[a].pc = "idle" /\ run[a].runs < MaxRuns[a]
  /\ \E snaps \in Captures :
       \/ /\ \E answers \in [DOMAIN snaps -> UNION {Answers(snaps[i]) : i \in DOMAIN snaps}] :
               /\ \A i \in DOMAIN snaps : answers[i] \in Answers(snaps[i])
               /\ fraud' = [fraud EXCEPT ![a] = ScoreFraud(answers)]
          /\ run' = [run EXCEPT ![a] = [pc |-> "score", snaps |-> snaps, runs |-> @.runs + 1]]
       \/ /\ run' = [run EXCEPT ![a] = [pc |-> "idle", snaps |-> <<>>, runs |-> @.runs + 1]]
          /\ UNCHANGED fraud
  /\ UNCHANGED <<scored, row, dispute, request, disclosed>>

\* scorer.Score: a retry keeps the created_at of the score it overwrites.
Score(a) ==
  /\ Advance(a, "score", "features")
  /\ scored' = IF \E i \in DOMAIN scored : scored[i] = a THEN scored ELSE Append(scored, a)
  /\ UNCHANGED <<fraud, row, dispute, request, disclosed>>

\* ReportView: niche, tier and verification come from the influencer's latest
\* score, whichever audit it belongs to.
LatestScore == IF scored = <<>> THEN None ELSE scored[Len(scored)]

\* Mutant of UpsertFeatureRow: a capture also overwrites the label.
UpsertFeatureRowWhole(a, vector) ==
  row' = [row EXCEPT ![a] = FeatureRow(vector, vector.reach, "null", "null")]

\* The upsert of one capture: over the row of an earlier run it keeps the label
\* columns, and the reach when it measured none.
UpsertFeatureRow(a, vector) ==
  row' = [row EXCEPT ![a] =
            IF @.exists THEN FeatureRow(vector, @.reach \/ vector.reach, @.label, @.evidence)
            ELSE FeatureRow(vector, vector.reach, "null", "null")]

RecordFeatureRow(a, capture) == UpsertFeatureRow(a, FeatureVector(capture))

\* recordFeatures: best effort, a failure leaves the row as it is.
RecordFeatures(a) ==
  /\ Advance(a, "features", "settle")
  /\ \/ RecordFeatureRow(a, FeatureCapture(run[a].snaps, fraud[a], LatestScore))
     \/ UNCHANGED row
  /\ UNCHANGED <<fraud, scored, dispute, request, disclosed>>

\* A statement of the run fails, the terminal status included, or its worker
\* dies: the queue runs it again.
RetryRun(a) ==
  /\ run[a].pc \in {"score", "features", "settle"}
  /\ run' = [run EXCEPT ![a] = [pc |-> "idle", snaps |-> <<>>, runs |-> @.runs]]
  /\ UNCHANGED <<fraud, scored, row, dispute, request, disclosed>>

-----------------------------------------------------------------------------
(* Disputes: the admin service *)

AuditOf(d) == dispute[d].audit

CreateDispute(d, a) ==
  dispute' = [dispute EXCEPT ![d] = DisputeRow(a, "open", "null", FALSE)]

\* Anybody signed in may dispute any audit, finished or not, more than once.
FileDispute(d, a) ==
  /\ ~Filed(d)
  /\ CreateDispute(d, a)
  /\ UNCHANGED <<run, fraud, scored, row, request, disclosed>>

\* ReviewDispute: blind, unless a reveal is on the row.
ReviewDispute(d) ==
  /\ Filed(d) /\ dispute[d].shown /\ fraud[AuditOf(d)].exists
  /\ disclosed' = disclosed \cup {[dispute |-> d, present |-> fraud[AuditOf(d)].present]}
  /\ UNCHANGED <<run, fraud, scored, row, dispute, request>>

\* RevealHeuristicScore, first half: the dispute and the stored fraud row are
\* read. Without a fraud row the request ends here and nothing is disclosed.
ReadScore(r, d) ==
  /\ request[r] = Idle
  /\ Filed(d) /\ fraud[AuditOf(d)].exists
  /\ request' = [request EXCEPT ![r] =
       [pc |-> "mark", dispute |-> d, present |-> fraud[AuditOf(d)].present]]
  /\ UNCHANGED <<run, fraud, scored, row, dispute, disclosed>>

Disclose(r) ==
  disclosed' = disclosed \cup {[dispute |-> request[r].dispute, present |-> request[r].present]}

Finish(r) == request' = [request EXCEPT ![r] = Idle]

Shown(d) ==
  dispute' = [dispute EXCEPT ![d] = DisputeRow(@.audit, @.status, @.evidence, TRUE)]

\* Mutant of MarkScoreShown: the score read is sent although the stamp is refused.
MarkScoreShownAfterwards(r) ==
  /\ request[r].pc = "mark"
  /\ IF Open(request[r].dispute) THEN Shown(request[r].dispute) ELSE UNCHANGED dispute
  /\ Disclose(r)
  /\ Finish(r)
  /\ UNCHANGED <<run, fraud, scored, row>>

\* RevealHeuristicScore, second half: the disclosure is recorded on an undecided
\* dispute, and only then answered; a decided one is a conflict.
MarkScoreShown(r) ==
  LET d == request[r].dispute IN
  /\ request[r].pc = "mark"
  /\ \/ Open(d) /\ Shown(d) /\ Disclose(r)
     \/ ~Open(d) /\ UNCHANGED <<dispute, disclosed>>
  /\ Finish(r)
  /\ UNCHANGED <<run, fraud, scored, row>>

\* ResolveDispute, the statement: an open dispute is decided, with the evidence.
ResolveDispute(r, d, status, evidence) ==
  /\ request[r] = Idle
  /\ Open(d)
  /\ dispute' = [dispute EXCEPT ![d] =
       DisputeRow(@.audit, status, evidence, @.shown)]
  /\ request' = [request EXCEPT ![r] = [pc |-> "record", dispute |-> d, present |-> FALSE]]
  /\ UNCHANGED <<run, fraud, scored, row, disclosed>>

\* Mutant of WriteFraudLabel: the label is written without its evidence.
WriteFraudLabelOnly(a, label, evidence) ==
  IF row[a].exists
    THEN row' = [row EXCEPT ![a] = FeatureRow(@.capture, @.reach, label, @.evidence)]
    ELSE UNCHANGED row

\* An UPDATE, so an audit without a feature row keeps none.
WriteFraudLabel(a, label, evidence) ==
  IF row[a].exists
    THEN row' = [row EXCEPT ![a] = FeatureRow(@.capture, @.reach, label, evidence)]
    ELSE UNCHANGED row

\* SetFraudLabel: evidence the feature store cannot name labels nothing.
SetFraudLabel(a, label, evidence) ==
  IF evidence \in EvidenceKinds THEN WriteFraudLabel(a, label, evidence) ELSE UNCHANGED row

\* ResolveDispute, the label: best effort, after the decision has committed. A
\* sink error, or a process that dies in between, drops it.
RecordLabel(r) ==
  LET d == request[r].dispute IN
  /\ request[r].pc = "record"
  /\ \/ SetFraudLabel(AuditOf(d), FraudLabel(dispute[d].status), dispute[d].evidence)
     \/ UNCHANGED row
  /\ Finish(r)
  /\ UNCHANGED <<run, fraud, scored, dispute, disclosed>>

Next ==
  \/ \E a \in Audits :
       RecordFraud(a) \/ Score(a) \/ RecordFeatures(a) \/ RetryRun(a)
  \/ \E d \in Disputes : ReviewDispute(d) \/ \E a \in Audits : FileDispute(d, a)
  \/ \E r \in Requests, d \in Disputes :
       \/ ReadScore(r, d)
       \/ \E status \in Decided, evidence \in EvidenceKinds : ResolveDispute(r, d, status, evidence)
  \/ \E r \in Requests : MarkScoreShown(r) \/ RecordLabel(r)

Spec == Init /\ [][Next]_vars

-----------------------------------------------------------------------------
(* The two exports *)

\* Mutant of TrainingEligible: any label waives the fraud-risk reason.
TrainingEligibleAnyLabel(g) ==
  \A reason \in g.capture.reasons : g.label # "null" /\ reason = "fraud_risk_estimate_high"

\* Only a label that rests on an observation waives the reason our own estimate
\* gave; every observed reason excludes the row.
TrainingEligible(g) ==
  \A reason \in g.capture.reasons :
    g.label # "null" /\ Observable(g.evidence) /\ reason = "fraud_risk_estimate_high"

\* A label without an observation behind it is exported as unlabelled.
ToFeatureRowItem(a) ==
  [audit |-> a,
   label |-> IF Observable(row[a].evidence) THEN row[a].label ELSE "null",
   risk |-> row[a].capture.risk]

\* The window and the limit of a request leave rows out and nothing else.
ListFeatureRows(trainableOnly) ==
  {a \in Audits : row[a].exists /\ (trainableOnly => TrainingEligible(row[a]))}

\* GET /ml/feature-rows: every row for quality=all, what may be trained on otherwise.
ExportFeatureRows(quality) == {ToFeatureRowItem(a) : a \in ListFeatureRows(quality # "all")}

\* GET /admin/training/labels.
ExportLabels ==
  {[dispute |-> d, audit |-> AuditOf(d), label |-> FraudLabel(dispute[d].status),
    scoreShown |-> dispute[d].shown, features |-> fraud[AuditOf(d)].exists] :
     d \in {e \in Disputes : DecidedAs(e) /\ Observable(dispute[e].evidence)}}

-----------------------------------------------------------------------------
(* Properties *)

\* An example exported as decided blind was: whatever the order of reviews,
\* reveals and resolves, nobody was ever sent the score of that dispute.
BlindExamplesWereBlind ==
  \A x \in ExportLabels :
    ~x.scoreShown => \A e \in disclosed : e.dispute # x.dispute

\* A decision, its evidence and what its adjudicator had seen are final: no late
\* reveal or second resolve rewrites the provenance of a label.
DecisionIsFinal ==
  [][\A d \in Disputes : DecidedAs(d) => dispute'[d] = dispute[d]]_vars

\* Whatever the feature store hands out as a label, under any filter, and every
\* account it offers for training that our own estimate would have excluded, rests
\* on an exported decision: somebody observed it, on that audit, and decided just
\* that.
LearnsOnlyObservations ==
  LET Decision(x) == \E y \in ExportLabels : y.audit = x.audit /\ y.label = x.label IN
  /\ \A x \in ExportFeatureRows("all") : x.label # "null" => Decision(x)
  /\ \A x \in ExportFeatureRows("ok") : x.risk >= 30 => Decision(x)

\* A label is only ever replaced by a decision on the same audit: the retries of
\* a run, which capture the audit again, never lose or change it.
LabelsOutliveCaptures ==
  [][\A a \in Audits :
       row[a].exists /\ row[a].label # "null" =>
         \/ row'[a].label = row[a].label /\ row'[a].evidence = row[a].evidence
         \/ \E d \in Disputes :
              DecidedAs(d) /\ AuditOf(d) = a /\ row'[a].label = FraudLabel(dispute[d].status)]_vars

\* What RevealHeuristicScore says and the model refutes: see the README.
\* "stamping the row would enter a disclosure that never happened".
DisclosuresShowAnEstimate == \A e \in disclosed : e.present
=============================================================================
