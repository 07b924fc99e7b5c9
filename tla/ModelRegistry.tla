---------------------------- MODULE ModelRegistry ----------------------------
(***************************************************************************)
(* The champion/challenger registry of one model: registering a version,   *)
(* promoting one or rolling back to one, and the canaries the promotion    *)
(* gates depend on.                                                        *)
(*                                                                         *)
(* A promotion reads the version, the canaries and the champion in three   *)
(* statements and flips the roles in a fourth transaction.  A transaction  *)
(* runs under READ COMMITTED: an UPDATE picks its rows when it starts, and *)
(* changes those that still match when it holds their locks; it is a step  *)
(* that picks the rows and a step that applies and commits.  The objects a *)
(* registration stores are named by the version and are left out.          *)
(***************************************************************************)
EXTENDS Integers, FiniteSets

CONSTANTS
  Model,     \* "fraud" or "reach"
  Versions,  \* artifact versions of the model
  Admins,    \* admin clients; each has one request under way at a time
  Curators,  \* admin clients that create canaries, one at a time each
  Audits,    \* audits a canary can be anchored to
  Reports,   \* validation reports a registration may carry
  FeatureRows,    \* what the feature store may hold of an audit when it is read
  CanaryRequests, \* what curators ask for
  None       \* no version, no canary

Null == -1

Report == [gates : BOOLEAN, canary : {"pass", "skipped", "fail"}]

\* A captured audit: the data paths behind it and the organic reach, if measured.
FeatureRow == [sources : SUBSET {"instagram-graph", "csv", "youtube-api"}, reach : Int]

\* The bases a ground truth may rest on, and those that prove a purchase.
ProvenanceKinds ==
  {"oauth_insights_measured", "platform_enforcement_record", "creator_admission",
   "vendor_receipt", "operator_constructed_positive", "presumed_clean"}
ProvesFraudPositive == ProvenanceKinds \ {"oauth_insights_measured", "presumed_clean"}

CanaryRequest ==
  [expected : {"fraud", "clean", "none"}, reachMin : Int, reachMax : Int,
   kind : ProvenanceKinds]

ASSUME RegistryAssumption ==
  /\ Model \in {"fraud", "reach"}
  /\ Reports \subseteq Report
  /\ FeatureRows \subseteq FeatureRow
  /\ CanaryRequests \subseteq CanaryRequest
  /\ None \notin Versions
  /\ IsFiniteSet(Audits)

VARIABLES
  row,      \* row[v]: the registry row of version v
  canaries, \* audits that are active canaries of the model
  basis,    \* basis[a]: what was asked for and what was read when a became a canary
  intake,   \* intake[c]: the canary curator c has read a feature row for
  req       \* req[r]: the request of admin r, how far it is, and what it has read

vars == <<row, canaries, basis, intake, req>>

Roles == {"none", "challenger", "champion", "archived", "rejected"}
\* earned is bookkeeping: no report registered under the version ever passed the
\* gates, only one that was replaced since did, or the one registered last has.
Row == [role : Roles, promoted : BOOLEAN, earned : {"never", "before", "now"},
        report : Report]
PCs == {"idle", "canaries", "champion", "begin", "commit", "ok", "refused", "conflict"}
Free == {"idle", "ok", "refused", "conflict"}

Canary == [request : CanaryRequests, sample : FeatureRows]

NoReport == [gates |-> FALSE, canary |-> "fail"]
NoRow == [role |-> "none", promoted |-> FALSE, earned |-> "never", report |-> NoReport]
NoRequest == [op |-> "none", pc |-> "idle", version |-> None, mv |-> NoRow,
              canaries |-> 0, champions |-> {}, challengers |-> {}]

TypeOK ==
  /\ row \in [Versions -> Row]
  /\ \A v \in Versions : row[v].role = "champion" => row[v].promoted
  /\ canaries \subseteq Audits
  /\ basis \in [Audits -> Canary \cup {None}]
  /\ \A c \in Curators :
       intake[c] = None \/ intake[c] \in [audit : Audits, canary : Canary]
  /\ req \in [Admins -> [op : {"none", "register", "promote"}, pc : PCs,
                         version : Versions \cup {None}, mv : Row, canaries : Nat,
                         champions : SUBSET Versions, challengers : SUBSET Versions]]

Init ==
  /\ row = [v \in Versions |-> NoRow]
  /\ canaries = {}
  /\ basis = [a \in Audits |-> None]
  /\ intake = [c \in Curators |-> None]
  /\ req = [r \in Admins |-> NoRequest]

With(role) == {v \in Versions : row[v].role = role}
At(r, op, pc) == req[r].op = op /\ req[r].pc = pc
Goto(r, pc) == req' = [req EXCEPT ![r].pc = pc]
End(r, pc) == req' = [req EXCEPT ![r] = [NoRequest EXCEPT !.pc = pc]]

-----------------------------------------------------------------------------
(* Registering a challenger *)

\* The demotion picks the other challengers.
BeginRegister(r, v, report) ==
  /\ req[r].pc \in Free
  /\ req' = [req EXCEPT ![r] = [NoRequest EXCEPT
       !.op = "register", !.pc = "commit", !.version = v,
       !.mv = [role |-> "challenger", promoted |-> FALSE, earned |-> "never", report |-> report],
       !.challengers = With("challenger") \ {v}]]
  /\ UNCHANGED <<row, canaries, basis, intake>>

\* The upsert replaces role, report and artifact and keeps promoted_at.
Registered(old, new) ==
  [new EXCEPT !.promoted = old.promoted,
              !.earned = IF old.earned = "never" THEN "never" ELSE "before"]

\* A challenger that came in between is not demoted, and violates the index
\* that admits one challenger.
CommitRegister(r) ==
  LET v == req[r].version
      demoted == req[r].challengers \cap With("challenger")
  IN
  /\ At(r, "register", "commit")
  /\ IF With("challenger") \subseteq demoted \cup {v}
       THEN /\ row' = [w \in Versions |->
                 IF w = v THEN Registered(row[v], req[r].mv)
                 ELSE IF w \in demoted THEN [row[w] EXCEPT !.role = "rejected"]
                 ELSE row[w]]
            /\ End(r, "ok")
       ELSE UNCHANGED row /\ End(r, "conflict")
  /\ UNCHANGED <<canaries, basis, intake>>

-----------------------------------------------------------------------------
(* Promoting a version, or rolling back to one *)

\* There is no such version, or it was rejected.
Refused(mv) == mv.role \in {"none", "rejected"}

\* Mutant of IsRollback: any archived version is rolled back to, also a challenger
\* that another promotion archived.
IsRollbackOfArchived(mv) == mv.role = "archived"

IsRollback(mv) == mv.role = "archived" /\ mv.promoted

\* What a promotion reads of the version; the bookkeeping is in no column.
GetModelVersion(v) == [row[v] EXCEPT !.earned = "never"]

\* GetModelVersion and the switch on the role.
BeginPromote(r, v) ==
  /\ req[r].pc \in Free
  /\ \/ row[v].role = "champion" /\ End(r, "ok")
     \/ Refused(row[v]) /\ End(r, "refused")
     \/ /\ row[v].role # "champion" /\ ~Refused(row[v])
        /\ req' = [req EXCEPT ![r] = [NoRequest EXCEPT
             !.op = "promote", !.version = v, !.mv = GetModelVersion(v),
             !.pc = IF IsRollback(row[v]) THEN "begin" ELSE "canaries"]]
  /\ UNCHANGED <<row, canaries, basis, intake>>

ListCanaries(r) ==
  /\ At(r, "promote", "canaries")
  /\ req' = [req EXCEPT ![r].canaries = Cardinality(canaries), ![r].pc = "champion"]
  /\ UNCHANGED <<row, canaries, basis, intake>>

\* G0, G1, G2, G4 and G6 must pass, and the canary gate may be skipped only when
\* there is no canary.
ValidatePromotable(report, n) ==
  /\ report.gates
  /\ report.canary = "pass" \/ (report.canary = "skipped" /\ n = 0)

\* Mutant of FirstChampionAllowed: an empty canary set does not matter.
AnyFirstChampion(n, hasChampion) == TRUE

FirstChampionAllowed(n, hasChampion) == hasChampion \/ n > 0

\* Bookkeeping: the row's own report has passed, or one that was replaced meanwhile.
Earned(v, report) ==
  [row EXCEPT ![v].earned = IF @ = "now" \/ row[v].report = report THEN "now" ELSE "before"]

CheckGates(r) ==
  LET n == req[r].canaries
      ok == /\ FirstChampionAllowed(n, With("champion") # {})
            /\ ValidatePromotable(req[r].mv.report, n)
  IN
  /\ At(r, "promote", "champion")
  /\ \/ ok /\ Goto(r, "begin") /\ row' = Earned(req[r].version, req[r].mv.report)
     \/ ~ok /\ End(r, "refused") /\ UNCHANGED row
  /\ UNCHANGED <<canaries, basis, intake>>

\* The two archiving statements pick their rows.
BeginPromoteTx(r) ==
  LET v == req[r].version IN
  /\ At(r, "promote", "begin")
  /\ req' = [req EXCEPT ![r].pc = "commit",
                        ![r].champions = With("champion") \ {v},
                        ![r].challengers = With("challenger") \ {v}]
  /\ UNCHANGED <<row, canaries, basis, intake>>

ArchivedBy(r) ==
  (req[r].champions \cap With("champion")) \cup (req[r].challengers \cap With("challenger"))

\* Mutant of PromotedRoles: the last statement updates a challenger only.
PromotedRolesOfChallenger(v, archived) ==
  [w \in Versions |->
     IF w = v /\ row[v].role = "challenger"
       THEN [row[v] EXCEPT !.role = "champion", !.promoted = TRUE]
     ELSE IF w \in archived THEN [row[w] EXCEPT !.role = "archived"]
     ELSE row[w]]

PromotedRoles(v, archived) ==
  [w \in Versions |->
     IF w = v THEN [row[v] EXCEPT !.role = "champion", !.promoted = TRUE]
     ELSE IF w \in archived THEN [row[w] EXCEPT !.role = "archived"]
     ELSE row[w]]

\* The target is updated whatever its role has become.  A champion that came in
\* between is not archived, and violates the index that admits one champion.
CommitPromote(r) ==
  LET v == req[r].version IN
  /\ At(r, "promote", "commit")
  /\ IF With("champion") \subseteq ArchivedBy(r) \cup {v}
       THEN row' = PromotedRoles(v, ArchivedBy(r)) /\ End(r, "ok")
       ELSE UNCHANGED row /\ End(r, "conflict")
  /\ UNCHANGED <<canaries, basis, intake>>

-----------------------------------------------------------------------------
(* Canaries *)

\* A clean account can only be presumed clean: nothing proves that no follower
\* was bought.
ValidateCanaryGroundTruth(request) ==
  \/ /\ Model = "fraud"
     /\ request.reachMin = Null /\ request.reachMax = Null
     /\ \/ request.expected = "fraud" /\ request.kind \in ProvesFraudPositive
        \/ request.expected = "clean" /\ request.kind = "presumed_clean"
  \/ /\ Model = "reach"
     /\ request.reachMin # Null /\ request.reachMax # Null
     /\ request.expected = "none"
     /\ request.kind = "oauth_insights_measured"

\* An unknown data path backs no canary and neither does an uploaded file; a
\* reach canary needs a measured figure, within its band.
ValidateCanaryProvenance(request, sample) ==
  /\ sample.sources # {} /\ "csv" \notin sample.sources
  /\ Model = "reach" =>
       /\ sample.reach # Null
       /\ request.reachMin <= sample.reach /\ sample.reach <= request.reachMax

\* The vector and the data paths of a canary are those of one read of the row,
\* which a retry of the audit may replace before the canary is inserted.
GetFeatureRow(c, a, request) ==
  /\ intake[c] = None
  /\ ValidateCanaryGroundTruth(request)
  /\ \E sample \in FeatureRows :
       /\ ValidateCanaryProvenance(request, sample)
       /\ intake' = [intake EXCEPT ![c] =
            [audit |-> a, canary |-> [request |-> request, sample |-> sample]]]
  /\ UNCHANGED <<row, canaries, basis, req>>

\* Canaries are created active, one per audit, and nothing deactivates them.
CreateCanary(c) ==
  LET a == intake[c].audit IN
  /\ intake[c] # None
  /\ \/ /\ a \notin canaries
        /\ canaries' = canaries \cup {a}
        /\ basis' = [basis EXCEPT ![a] = intake[c].canary]
     \/ a \in canaries /\ UNCHANGED <<canaries, basis>>
  /\ intake' = [intake EXCEPT ![c] = None]
  /\ UNCHANGED <<row, req>>

Next ==
  \/ \E r \in Admins :
    \/ \E v \in Versions :
         BeginPromote(r, v) \/ \E report \in Reports : BeginRegister(r, v, report)
    \/ CommitRegister(r) \/ ListCanaries(r) \/ CheckGates(r) \/ BeginPromoteTx(r)
    \/ CommitPromote(r)
  \/ \E c \in Curators :
    \/ \E a \in Audits, request \in CanaryRequests : GetFeatureRow(c, a, request)
    \/ CreateCanary(c)

Spec == Init /\ [][Next]_vars
-----------------------------------------------------------------------------
(* Properties *)

\* What a canary may rest on: no figure a creator uploaded, and a purchase only
\* where somebody could observe one.
Anchored(canary) ==
  /\ canary.sample.sources # {} /\ "csv" \notin canary.sample.sources
  /\ canary.request.expected = "fraud" => canary.request.kind \in ProvesFraudPositive

\* "A model's first champion cannot be promoted with an empty canary set",
\* whatever requests overlap: once a version was promoted there is a canary, and
\* it was not built from an upload, also when its audit is captured again.
FirstChampionHasCanary ==
  (\E v \in Versions : row[v].promoted) => \E a \in canaries : Anchored(basis[a])

\* A champion that is archived has been replaced in the same step: the registry
\* never archives the champion and leaves the model without one.
ArchivedIsReplaced ==
  [][(\E v \in Versions : row[v].role = "champion" /\ row'[v].role = "archived")
       => \E w \in Versions : row'[w].role = "champion"]_vars

\* Gates are never waived for a version that never passed them: whoever promotes,
\* rolls back or registers again in between, a version that serves or has served
\* was once registered with a report that passed every required gate. What a
\* rollback skips was thus checked before, if on an earlier registration.
PromotedHavePassed == \A v \in Versions : row[v].promoted => row[v].earned # "never"

-----------------------------------------------------------------------------
(* What comments of the code say and the model refutes: see the README *)

\* A version promoted for the first time shows, in the row that is promoted and
\* against the canaries there are, that every required gate passed: "nothing is
\* promoted on unproven data".
FirstPromotionIsGated ==
  [][\A v \in Versions :
       row[v].role # "champion" /\ row'[v].role = "champion" /\ ~row[v].promoted
         => /\ row[v].report.gates /\ row[v].report.canary # "fail"
            /\ row[v].report.canary = "skipped" => canaries = {}]_vars

\* "Promoting a rejected version ... is a conflict."
RejectedIsNotPromoted ==
  [][\A v \in Versions : row[v].role = "rejected" => row'[v].role # "champion"]_vars

\* A rollback waives the gates only for what earned them: the registration that
\* becomes champion once passed, so "gates cannot be waived for a model that never
\* passed them".
WaivedGatesWereEarned ==
  [][\A v \in Versions :
       row[v].role # "champion" /\ row'[v].role = "champion" => row[v].earned = "now"]_vars

\* Training again on the same data changes nothing that serves: registering a
\* version leaves a model that has a champion with one.
RegisteringKeepsChampion ==
  [][With("champion") # {} => With("champion")' # {}]_vars
=============================================================================
