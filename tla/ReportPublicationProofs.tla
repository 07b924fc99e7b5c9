----------------------- MODULE ReportPublicationProofs -----------------------
(***************************************************************************)
(* Theorems about ReportPublication, for any sets of requests, audits and  *)
(* creators and any budget of faults: the types hold, publication is an    *)
(* implementation of Disclosure, links never change, the step that         *)
(* withdraws a report withdraws every grant on it, and an erasure that     *)
(* answered has reached every report shared before it (EraseInv).          *)
(***************************************************************************)
EXTENDS ReportPublication, TLAPS

ReqType == [op : Ops, pc : PCs, audit : Audits \cup {None}, by : Creators \cup {None},
            version : 0..MaxVersion, scope : SUBSET Audits]
RowType == [slug : Requests \cup {None}, badge : 0..MaxVersion,
            revoked : BOOLEAN, expired : BOOLEAN]

\* A request past its checks names an audit of the creator it acts for, unless
\* it is an erasure, which collects audits of its creator only; grants are
\* recorded by shares past their checks, so those on an audit are its director's.
ReqInv(r) ==
  /\ req[r].op \in {"publish", "share", "revoke"} => req[r].audit \in Audits
  /\ req[r].op = "erase" => req[r].audit = None
  /\ req[r].op = "none" => req[r] = NoRequest
  /\ req[r].pc \notin {"idle", "refused"} /\ req[r].op # "erase" => director[req[r].audit] = req[r].by
  /\ grant[r] # "none" => req[r].op = "share" /\ req[r].pc \notin {"idle", "refused"}
  /\ \A a \in req[r].scope : director[a] = req[r].by

PublicationInv == TypeOK /\ \A r \in Requests : ReqInv(r)

LEMMA ScoreType ==
  ASSUME MaxVersion \in Nat
  PROVE  0 \in 0..MaxVersion /\ \A n \in 0..MaxVersion : n < MaxVersion => n + 1 \in 0..MaxVersion
OBVIOUS

LEMMA NoRequestType == NoRequest \in ReqType /\ NoReport \in RowType
BY PublicationAssumption
   DEF PublicationAssumption, NoRequest, NoReport, ReqType, RowType, Ops, PCs

LEMMA SpendKeepsType ==
  ASSUME budget \in [Faults -> Nat], NEW f \in Faults, Spend(f)
  PROVE  budget' \in [Faults -> Nat]
BY DEF Spend

\* A step to another phase keeps the rest of the request.
LEMMA GotoType ==
  ASSUME TypeOK, NEW r \in Requests, NEW pc \in PCs, Goto(r, pc)
  PROVE  /\ req' \in [Requests -> ReqType]
         /\ req'[r] = [req[r] EXCEPT !.pc = pc]
         /\ \A s \in Requests \ {r} : req'[s] = req[s]
<1>1. req \in [Requests -> ReqType] /\ req[r] \in ReqType
  BY DEF TypeOK, ReqType
<1>2. [req[r] EXCEPT !.pc = pc] \in ReqType
  BY <1>1 DEF ReqType
<1>3. req' = [req EXCEPT ![r] = [req[r] EXCEPT !.pc = pc]]
  BY DEF Goto
<1> QED BY <1>1, <1>2, <1>3

LEMMA BeginType ==
  ASSUME TypeOK, NEW r \in Requests, NEW op \in Ops, NEW a \in Audits \cup {None},
         NEW u \in Creators, NEW ok \in BOOLEAN, NEW pc \in PCs,
         Begin(r, op, a, u, ok, pc)
  PROVE  /\ TypeOK'
         /\ req'[r].op = op /\ req'[r].audit = a /\ req'[r].by = u
         /\ req'[r].pc \in {pc, "refused"}
         /\ req'[r].scope = {}
         /\ req'[r].pc # "refused" => a = None \/ director[a] = u
         /\ \A s \in Requests \ {r} : req'[s] = req[s]
         /\ req[r] = NoRequest
<1> DEFINE next == [NoRequest EXCEPT
       !.op = op, !.audit = a, !.by = u,
       !.pc = IF (a = None \/ director[a] = u) /\ ok THEN pc ELSE "refused",
       !.version = IF op = "publish" THEN score[u] ELSE 0]
<1>1. next \in ReqType
  <2>1. score[u] \in 0..MaxVersion /\ 0 \in 0..MaxVersion
    BY PublicationAssumption, ScoreType DEF TypeOK, PublicationAssumption
  <2> QED BY <2>1, NoRequestType DEF ReqType, NoRequest, PCs
<1>2. req' = [req EXCEPT ![r] = next] /\ req[r] = NoRequest
  BY DEF Begin
<1>3. req \in [Requests -> ReqType]
  BY DEF TypeOK, ReqType
<1>4. req' \in [Requests -> ReqType] /\ req'[r] = next
      /\ \A s \in Requests \ {r} : req'[s] = req[s]
  BY <1>1, <1>2, <1>3
<1>5. before' \in [Requests -> [published : SUBSET Audits, shared : SUBSET Audits]]
  BY DEF Begin, TypeOK, Published, Shared
<1>6. TypeOK'
  BY <1>4, <1>5 DEF Begin, TypeOK, ReqType, accounts, rows
<1> QED BY <1>2, <1>4, <1>6 DEF NoRequest

LEMMA StartInv ==
  ASSUME PublicationInv, NEW r \in Requests, Start(r)
  PROVE  PublicationInv' /\ UNCHANGED <<report, grant, director>>
<1>1. TypeOK /\ ReqInv(r)
  BY DEF PublicationInv
<1>2. PICK u \in Creators :
        \/ BeginErase(r, u)
        \/ \E a \in Audits : BeginPublish(r, a, u) \/ BeginShare(r, a, u) \/ BeginRevoke(r, a, u)
  BY DEF Start
<1>3. PICK op \in {"publish", "share", "revoke", "erase"}, a \in Audits \cup {None},
           ok \in BOOLEAN, pc \in {"put", "grant", "revoke", "forget"} :
        Begin(r, op, a, u, ok, pc) /\ (op = "erase" => a = None) /\ (op # "erase" => a \in Audits)
  <2>1. CASE BeginErase(r, u)
    <3>1. Begin(r, "erase", None, u, TRUE, "forget")
      BY <2>1 DEF BeginErase
    <3> QED BY <3>1
  <2>2. CASE \E a \in Audits : BeginPublish(r, a, u)
    <3>1. PICK a \in Audits : Begin(r, "publish", a, u, score[u] > 0, "put")
      BY <2>2 DEF BeginPublish
    <3>2. (score[u] > 0) \in BOOLEAN
      OBVIOUS
    <3> QED BY <3>1, <3>2
  <2>3. CASE \E a \in Audits : BeginShare(r, a, u)
    <3>1. PICK a \in Audits : Begin(r, "share", a, u, a \in Published, "grant")
      BY <2>3 DEF BeginShare
    <3>2. (a \in Published) \in BOOLEAN
      OBVIOUS
    <3> QED BY <3>1, <3>2
  <2>4. CASE \E a \in Audits : BeginRevoke(r, a, u)
    <3>1. PICK a \in Audits : Begin(r, "revoke", a, u, TRUE, "revoke")
      BY <2>4 DEF BeginRevoke
    <3> QED BY <3>1
  <2> QED BY <1>2, <2>1, <2>2, <2>3, <2>4
<1>4. op \in Ops /\ pc \in PCs
  BY DEF Ops, PCs
<1>5. /\ TypeOK'
      /\ req'[r].op = op /\ req'[r].audit = a /\ req'[r].by = u
      /\ req'[r].pc \in {pc, "refused"}
      /\ req'[r].scope = {}
      /\ req'[r].pc # "refused" => a = None \/ director[a] = u
      /\ \A s \in Requests \ {r} : req'[s] = req[s]
      /\ req[r] = NoRequest
  BY <1>1, <1>3, <1>4, BeginType
<1>6. UNCHANGED <<report, grant, director>>
  BY <1>3 DEF Begin, rows, accounts
<1>7. grant[r] = "none"
  BY <1>1, <1>5 DEF ReqInv, NoRequest, TypeOK
<1>8. ReqInv(r)'
  <2>1. req'[r].pc # "refused" /\ op # "erase" => director[a] = u
    BY <1>3, <1>5, PublicationAssumption DEF PublicationAssumption
  <2> QED BY <1>3, <1>5, <1>6, <1>7, <2>1 DEF ReqInv
<1>9. \A s \in Requests \ {r} : ReqInv(s)'
  BY <1>5, <1>6 DEF PublicationInv, ReqInv
<1> QED BY <1>5, <1>6, <1>8, <1>9 DEF PublicationInv

RevokedSet(S) == {a \in S : report[a].slug # None}

LEMMA RevokeRowsType ==
  ASSUME TypeOK, NEW S \in SUBSET Audits, RevokeRows(S)
  PROVE  /\ report' \in [Audits -> RowType]
         /\ \A a \in Audits : report'[a].slug = None => report'[a] = NoReport
         /\ \A a \in Audits : IF a \in RevokedSet(S)
                                THEN report'[a] = [report[a] EXCEPT !.revoked = TRUE]
                                ELSE report'[a] = report[a]
<1>1. \A a \in Audits : IF a \in RevokedSet(S)
                          THEN report'[a] = [report[a] EXCEPT !.revoked = TRUE]
                          ELSE report'[a] = report[a]
  BY DEF RevokeRows, RevokedSet
<1>2. \A a \in Audits : report[a] \in RowType
  BY DEF TypeOK, RowType
<1>3. \A a \in Audits : [report[a] EXCEPT !.revoked = TRUE] \in RowType
                        /\ [report[a] EXCEPT !.revoked = TRUE].slug = report[a].slug
  BY <1>2 DEF RowType
<1>4. report' \in [Audits -> RowType]
  BY <1>1, <1>2, <1>3 DEF RevokeRows
<1>5. \A a \in Audits : report'[a].slug = None => report'[a] = NoReport
  BY <1>1, <1>3 DEF TypeOK, RevokedSet
<1> QED BY <1>1, <1>4, <1>5

LEMMA UpsertRow ==
  ASSUME TypeOK, NEW r \in Requests, NEW a \in Audits, NEW v \in 0..MaxVersion
  PROVE  LET row == RowAfterPublish(report[a], r, v) IN
         /\ row \in RowType
         /\ row.slug = (IF report[a].slug = None THEN r ELSE report[a].slug)
         /\ row.slug # None
         /\ row.revoked = report[a].revoked
         /\ row.expired = FALSE
<1>1. report[a] \in RowType
  BY DEF TypeOK, RowType
<1> QED BY <1>1, PublicationAssumption DEF RowAfterPublish, RowType, PublicationAssumption

\* What a request's step may do to the report rows.
RowStep(r) ==
  \/ report' = report
  \/ /\ At(r, "publish", "upsert")
     /\ report' = [report EXCEPT ![req[r].audit] =
                     RowAfterPublish(@, r, req[r].version)]
  \/ \E S \in SUBSET Audits : RevokeRows(S)

LEMMA ProceedFrame ==
  ASSUME PublicationInv, NEW r \in Requests, Proceed(r) \/ Die(r)
  PROVE  /\ \/ \E pc \in PCs \ {"idle", "refused"} : Goto(r, pc)
            \/ ScanReports(r)
         /\ RowStep(r)
         /\ director' = director /\ score' = score /\ before' = before
         /\ connected' \in [Creators -> BOOLEAN]
         /\ budget' \in [Faults -> Nat]
         /\ req[r].op # "none" /\ req[r].pc \notin {"idle", "refused"}
<1>1. TypeOK /\ ReqInv(r)
  BY DEF PublicationInv
<1>2. req[r].pc \notin {"idle", "refused"} /\ req[r].pc \in PCs
  BY <1>1 DEF Proceed, Die, PutObject, UpsertReport, MintLink, InsertShareGrant,
       RevokeByAuditJob, ForgetProviderUser, ScanReports, RevokeGrantsByUser, At, Ended,
       TypeOK, PCs
<1>3. req[r].op # "none"
  BY <1>1, <1>2 DEF ReqInv, NoRequest
<1>4. \/ \E pc \in PCs \ {"idle", "refused"} : Goto(r, pc)
      \/ ScanReports(r)
  BY DEF Proceed, Die, PutObject, UpsertReport, MintLink, InsertShareGrant,
       RevokeByAuditJob, ForgetProviderUser, RevokeGrantsByUser, PCs
<1>5. director' = director /\ score' = score /\ before' = before
  BY DEF Proceed, Die, PutObject, UpsertReport, MintLink, InsertShareGrant,
       RevokeByAuditJob, ForgetProviderUser, ScanReports, RevokeGrantsByUser, accounts
<1>6. connected' \in [Creators -> BOOLEAN]
  BY <1>1 DEF Proceed, Die, PutObject, UpsertReport, MintLink, InsertShareGrant,
       RevokeByAuditJob, ForgetProviderUser, ScanReports, RevokeGrantsByUser, accounts, TypeOK
<1>7. budget' \in [Faults -> Nat]
  <2>1. budget' = budget \/ \E f \in Faults : Spend(f)
    BY DEF Proceed, Die, PutObject, UpsertReport, MintLink, InsertShareGrant,
         RevokeByAuditJob, ForgetProviderUser, ScanReports, RevokeGrantsByUser, NoFault, Faults
  <2> QED BY <1>1, <2>1, SpendKeepsType DEF TypeOK
<1>8. RowStep(r)
  <2>1. CASE RevokeByAuditJob(r)
    <3>1. {req[r].audit} \in SUBSET Audits
      BY <1>1, <2>1 DEF RevokeByAuditJob, At, ReqInv
    <3> QED BY <2>1, <3>1 DEF RevokeByAuditJob, RowStep
  <2>2. CASE RevokeGrantsByUser(r)
    <3>1. req[r].scope \in SUBSET Audits
      BY <1>1 DEF TypeOK
    <3> QED BY <2>2, <3>1 DEF RevokeGrantsByUser, RowStep, rows
  <2>3. CASE UpsertReport(r)
    BY <2>3 DEF UpsertReport, RowStep
  <2> QED BY <2>1, <2>2, <2>3
      DEF Proceed, Die, PutObject, MintLink, InsertShareGrant, ForgetProviderUser, ScanReports,
          RowStep, rows
<1> QED BY <1>2, <1>3, <1>4, <1>5, <1>6, <1>7, <1>8

LEMMA ProceedInv ==
  ASSUME PublicationInv, NEW r \in Requests, Proceed(r) \/ Die(r)
  PROVE  PublicationInv'
<1>1. TypeOK /\ ReqInv(r)
  BY DEF PublicationInv
<1>2. /\ req' \in [Requests -> ReqType]
      /\ \A s \in Requests \ {r} : req'[s] = req[s]
      /\ req'[r].op = req[r].op /\ req'[r].audit = req[r].audit /\ req'[r].by = req[r].by
      /\ req'[r].pc \notin {"idle", "refused"}
      /\ \A a \in req'[r].scope : director[a] = req[r].by
  <2>1. req \in [Requests -> ReqType] /\ req[r] \in ReqType
    BY <1>1 DEF TypeOK, ReqType
  <2>2. CASE \E pc \in PCs \ {"idle", "refused"} : Goto(r, pc)
    <3>1. PICK pc \in PCs \ {"idle", "refused"} : Goto(r, pc)
      BY <2>2
    <3>2. pc \in PCs
      BY <3>1
    <3>3. /\ req' \in [Requests -> ReqType]
          /\ req'[r] = [req[r] EXCEPT !.pc = pc]
          /\ \A s \in Requests \ {r} : req'[s] = req[s]
      BY <1>1, <3>1, <3>2, GotoType
    <3>4. req'[r].pc = pc /\ req'[r].scope = req[r].scope
          /\ req'[r].op = req[r].op /\ req'[r].audit = req[r].audit /\ req'[r].by = req[r].by
      BY <2>1, <3>3 DEF ReqType
    <3> QED BY <1>1, <3>1, <3>3, <3>4 DEF ReqInv
  <2>3. CASE ScanReports(r)
    <3> DEFINE S == {a \in Audits : ~report[a].revoked
                                   /\ GrantsOn(a) \cap GrantsBy(req[r].by) # {}}
    <3>1. req' = [req EXCEPT ![r] = [req[r] EXCEPT !.pc = "commit", !.scope = S]]
      BY <2>3 DEF ScanReports
    <3>2. S \in SUBSET Audits
      OBVIOUS
    <3> HIDE DEF S
    <3>3. [req[r] EXCEPT !.pc = "commit", !.scope = S] \in ReqType
      BY <2>1, <3>2 DEF ReqType, PCs
    <3>4. \A a \in S : director[a] = req[r].by
      <4>1. SUFFICES ASSUME NEW a \in S PROVE director[a] = req[r].by
        OBVIOUS
      <4>2. PICK s \in Requests : grant[s] # "none" /\ req[s].audit = a /\ req[s].by = req[r].by
        BY DEF S, GrantsOn, GrantsBy
      <4> QED BY <4>2 DEF PublicationInv, ReqInv
    <3> QED BY <2>1, <3>1, <3>3, <3>4 DEF ReqType
  <2> QED BY <2>2, <2>3, ProceedFrame
<1>3. /\ report' \in [Audits -> RowType]
      /\ \A a \in Audits : report'[a].slug = None => report'[a] = NoReport
  <2>1. CASE report' = report
    BY <1>1, <2>1 DEF TypeOK, RowType
  <2>2. CASE At(r, "publish", "upsert")
             /\ report' = [report EXCEPT ![req[r].audit] = RowAfterPublish(@, r, req[r].version)]
    <3> DEFINE a == req[r].audit
               row == RowAfterPublish(report[a], r, req[r].version)
    <3>1. a \in Audits /\ req[r].version \in 0..MaxVersion
      BY <1>1, <2>2 DEF ReqInv, At, TypeOK
    <3>2. row \in RowType /\ row.slug # None
      BY <1>1, <3>1, UpsertRow
    <3>3. report' = [report EXCEPT ![a] = row] /\ report \in [Audits -> RowType]
      BY <1>1, <2>2 DEF TypeOK, RowType
    <3> HIDE DEF row
    <3> QED BY <1>1, <3>1, <3>2, <3>3 DEF TypeOK
  <2>3. CASE \E S \in SUBSET Audits : RevokeRows(S)
    BY <1>1, <2>3, RevokeRowsType
  <2> QED BY <2>1, <2>2, <2>3, ProceedFrame DEF RowStep
<1>4. object' \in [Audits -> 0..MaxVersion]
  BY <1>1 DEF Proceed, Die, PutObject, UpsertReport, MintLink, InsertShareGrant,
       RevokeByAuditJob, ForgetProviderUser, ScanReports, RevokeGrantsByUser, TypeOK
<1>5. /\ grant' \in [Requests -> {"none", "live", "withdrawn"}]
      /\ \A s \in Requests : grant'[s] # "none" =>
           grant[s] # "none" \/ (s = r /\ req[r].op = "share")
  <2>1. \A u : GrantsBy(u) \subseteq {s \in Requests : grant[s] # "none"}
    BY DEF GrantsBy
  <2>2. \A a : GrantsOn(a) \subseteq {s \in Requests : grant[s] # "none"}
    BY DEF GrantsOn
  <2> QED BY <1>1, <2>1, <2>2
      DEF Proceed, Die, PutObject, UpsertReport, MintLink, InsertShareGrant,
          RevokeByAuditJob, ForgetProviderUser, ScanReports, RevokeGrantsByUser, TypeOK, rows,
          WithdrawGrants, At
<1>6. TypeOK'
  BY <1>1, <1>2, <1>3, <1>4, <1>5, ProceedFrame DEF TypeOK, ReqType, RowType
<1>7. ReqInv(r)'
  BY <1>1, <1>2, <1>5, ProceedFrame DEF ReqInv
<1>8. \A s \in Requests \ {r} : ReqInv(s)'
  BY <1>2, <1>5, ProceedFrame DEF PublicationInv, ReqInv
<1> QED BY <1>6, <1>7, <1>8 DEF PublicationInv

LEMMA EnvironmentInv ==
  ASSUME PublicationInv,
         \/ \E u \in Creators : Rescore(u) \/ Connect(u) \/ Disconnect(u)
         \/ \E a \in Audits : Expire(a)
         \/ UNCHANGED vars
  PROVE  PublicationInv'
<1>1. TypeOK
  BY DEF PublicationInv
<1>2. UNCHANGED <<director, object, grant, req, before, budget>>
  BY DEF Rescore, Connect, Disconnect, Expire, vars, accounts, rows
<1>3. score' \in [Creators -> 0..MaxVersion]
  BY <1>1, ScoreType, PublicationAssumption
  DEF TypeOK, Rescore, Connect, Disconnect, Expire, vars, PublicationAssumption
<1>4. connected' \in [Creators -> BOOLEAN]
  BY <1>1 DEF TypeOK, Rescore, Connect, Disconnect, Expire, vars, accounts
<1>5. /\ report' \in [Audits -> RowType]
      /\ \A a \in Audits : report'[a].slug = None => report'[a] = NoReport
  <2>1. CASE report' = report
    BY <1>1, <2>1 DEF TypeOK, RowType
  <2>2. CASE \E a \in Audits : Expire(a)
    <3>1. PICK a \in Audits : Expire(a)
      BY <2>2
    <3>2. report \in [Audits -> RowType] /\ report[a].slug # None
      BY <1>1, <3>1 DEF TypeOK, RowType, Expire
    <3>3. [report[a] EXCEPT !.expired = TRUE] \in RowType
          /\ [report[a] EXCEPT !.expired = TRUE].slug = report[a].slug
      BY <3>2 DEF RowType
    <3>4. report' = [report EXCEPT ![a] = [report[a] EXCEPT !.expired = TRUE]]
      BY <3>1 DEF Expire
    <3> QED BY <1>1, <3>2, <3>3, <3>4 DEF TypeOK
  <2> QED BY <2>1, <2>2 DEF Rescore, Connect, Disconnect, vars, rows
<1> QED BY <1>1, <1>2, <1>3, <1>4, <1>5 DEF PublicationInv, TypeOK, RowType, ReqInv

LEMMA InitInv == Init => PublicationInv
<1> SUFFICES ASSUME Init PROVE PublicationInv
  OBVIOUS
<1>1. 0 \in 0..MaxVersion
  BY PublicationAssumption, ScoreType DEF PublicationAssumption
<1>2. TypeOK
  BY <1>1, NoRequestType, PublicationAssumption
  DEF Init, TypeOK, ReqType, RowType, PublicationAssumption
<1> QED BY <1>2 DEF Init, PublicationInv, ReqInv, NoRequest

LEMMA NextInv == PublicationInv /\ [Next]_vars => PublicationInv'
BY StartInv, ProceedInv, EnvironmentInv DEF Next

LEMMA InvariantHolds == Spec => []PublicationInv
BY InitInv, NextInv, PTL DEF Spec

\* Every variable keeps its type, and a report row exists exactly when it has a
\* slug: no withdrawal writes a row for an audit that was never published.
THEOREM PublicationTypes == Spec => []TypeOK
<1>1. PublicationInv => TypeOK
  BY DEF PublicationInv
<1> QED BY <1>1, InvariantHolds, PTL

-----------------------------------------------------------------------------
(* What a step may do to the rows *)

LEMMA StepRows ==
  ASSUME PublicationInv, [Next]_vars
  PROVE  \/ \E r \in Requests : RowStep(r)
         \/ \E a \in Audits : Expire(a)
         \/ report' = report
BY StartInv, ProceedFrame DEF Next, Rescore, Connect, Disconnect, vars, rows

\* A public link never changes, whatever publishes of the audit overlap.
THEOREM LinksAreStable == Spec => SlugIsStable
<1>1. ASSUME PublicationInv, [Next]_vars, NEW a \in Audits, report[a].slug # None
      PROVE  report'[a].slug = report[a].slug
  <2>1. TypeOK /\ report \in [Audits -> RowType] /\ report[a] \in RowType
    BY <1>1 DEF PublicationInv, TypeOK, RowType
  <2>2. CASE \E b \in Audits : Expire(b)
    BY <2>1, <2>2 DEF Expire, RowType
  <2>3. ASSUME NEW r \in Requests, At(r, "publish", "upsert"),
               report' = [report EXCEPT ![req[r].audit] =
                            RowAfterPublish(@, r, req[r].version)]
        PROVE  report'[a].slug = report[a].slug
    BY <1>1, <2>1, <2>3 DEF RowAfterPublish, RowType
  <2>4. ASSUME NEW S \in SUBSET Audits, RevokeRows(S)
        PROVE  report'[a].slug = report[a].slug
    <3>1. report'[a] = [report[a] EXCEPT !.revoked = TRUE] \/ report'[a] = report[a]
      BY <2>1, <2>4, RevokeRowsType
    <3> QED BY <2>1, <3>1 DEF RowType
  <2> QED BY <1>1, <2>2, <2>3, <2>4, StepRows DEF RowStep
<1>2. PublicationInv /\ [Next]_vars
        => [\A a \in Audits : report[a].slug # None => report'[a].slug = report[a].slug]_vars
  BY <1>1
<1> QED BY <1>2, InvariantHolds, PTL DEF Spec, SlugIsStable

\* The step that withdraws a report, a revocation or an erasure, leaves no live
\* grant on it.
THEOREM WithdrawalTakesGrants == Spec => WithdrawalIsTotal
<1>1. ASSUME PublicationInv, [Next]_vars, NEW a \in Audits,
             ~report[a].revoked, report'[a].revoked,
             NEW s \in Requests, req[s].audit = a
      PROVE  grant'[s] # "live"
  <2>1. TypeOK /\ report \in [Audits -> RowType] /\ report[a] \in RowType
    BY <1>1 DEF PublicationInv, TypeOK, RowType
  <2>2. report' # report /\ ~ \E b \in Audits : Expire(b)
    BY <1>1, <2>1 DEF Expire, RowType
  <2>3. PICK r \in Requests : Proceed(r) \/ Die(r)
    BY <1>1, <2>2, StartInv DEF Next, Rescore, Connect, Disconnect, vars, rows
  <2>4. CASE RevokeByAuditJob(r)
    <3>1. req[r].audit = a
      BY <1>1, <2>1, <2>4 DEF RevokeByAuditJob, RevokeRows
    <3> QED BY <1>1, <2>1, <2>4, <3>1 DEF RevokeByAuditJob, WithdrawGrants, GrantsOn, TypeOK
  <2>5. CASE RevokeGrantsByUser(r)
    <3>1. RevokeRows(req[r].scope) /\ WithdrawGrants(GrantsBy(req[r].by))
      BY <2>2, <2>5 DEF RevokeGrantsByUser, rows
    <3>2. a \in req[r].scope
      BY <1>1, <2>1, <3>1 DEF RevokeRows
    <3>3. director[a] = req[r].by
      BY <1>1, <3>2 DEF PublicationInv, ReqInv
    <3>4. CASE grant[s] = "none"
      BY <3>1, <3>4 DEF WithdrawGrants
    <3>5. CASE grant[s] # "none"
      <4>1. req[s].by = director[a]
        BY <1>1, <3>5 DEF PublicationInv, ReqInv
      <4> QED BY <3>1, <3>3, <3>5, <4>1 DEF WithdrawGrants, GrantsBy
    <3> QED BY <3>4, <3>5
  <2>6. CASE UpsertReport(r)
    <3>1. report' = [report EXCEPT ![req[r].audit] = RowAfterPublish(@, r, req[r].version)]
      BY <2>2, <2>6 DEF UpsertReport
    <3>2. report'[a].revoked = report[a].revoked
      BY <2>1, <3>1 DEF RowAfterPublish, RowType
    <3> QED BY <1>1, <3>2
  <2> QED BY <2>2, <2>3, <2>4, <2>5, <2>6
      DEF Proceed, Die, PutObject, MintLink, InsertShareGrant, ForgetProviderUser, ScanReports, rows
<1>2. PublicationInv /\ [Next]_vars
        => [\A a \in Audits : ~report[a].revoked /\ report'[a].revoked =>
              \A r \in Requests : req[r].audit = a => grant'[r] # "live"]_vars
  BY <1>1
<1> QED BY <1>2, InvariantHolds, PTL DEF Spec, WithdrawalIsTotal

-----------------------------------------------------------------------------
(* Publication implements Disclosure *)

Badges == [a \in Audits |-> Badge(a)]

LEMMA InitBadges == Init => Consent!DisclosureInit
BY DEF Init, Consent!DisclosureInit, Badge, NoReport

LEMMA StepBadges ==
  ASSUME PublicationInv, [Next]_vars
  PROVE  [Consent!DisclosureNext]_(Badges)
<1>1. TypeOK /\ report \in [Audits -> RowType]
  BY DEF PublicationInv, TypeOK, RowType
<1>2. CASE report' = report
  BY <1>2 DEF Badges, Badge
<1>3. CASE \E a \in Audits : Expire(a)
  <2>1. PICK a \in Audits : Expire(a)
    BY <1>3
  <2>2. /\ report[a].slug # None /\ ~report[a].expired /\ report[a] \in RowType
        /\ report' = [report EXCEPT ![a] = [report[a] EXCEPT !.expired = TRUE]]
    BY <1>1, <2>1 DEF Expire
  <2>3. \A b \in Audits \ {a} : Badge(b)' = Badge(b)
    BY <1>1, <2>2 DEF Badge
  <2>4. /\ report'[a].slug = report[a].slug
        /\ report'[a].revoked = report[a].revoked
        /\ report'[a].expired
    BY <1>1, <2>2 DEF RowType
  <2>5. CASE report[a].revoked
    BY <2>2, <2>3, <2>4, <2>5 DEF Badges, Badge
  <2>6. CASE ~report[a].revoked
    <3>1. Badge(a) = "public" /\ Badge(a)' = "lapsed"
      BY <2>2, <2>4, <2>6 DEF Badge
    <3>2. Consent!Lapse(a)
      BY <2>3, <3>1 DEF Consent!Lapse, Consent!Become
    <3> QED BY <3>2 DEF Consent!DisclosureNext, Badges
  <2> QED BY <2>5, <2>6
<1>4. ASSUME NEW r \in Requests, At(r, "publish", "upsert"),
             report' = [report EXCEPT ![req[r].audit] =
                          RowAfterPublish(@, r, req[r].version)]
      PROVE  [Consent!DisclosureNext]_(Badges)
  <2> DEFINE a == req[r].audit
             row == RowAfterPublish(report[a], r, req[r].version)
  <2>1. a \in Audits /\ req[r].version \in 0..MaxVersion
    BY <1>1, <1>4 DEF PublicationInv, ReqInv, At, TypeOK
  <2>2. row.slug # None /\ row.revoked = report[a].revoked /\ row.expired = FALSE
    BY <1>1, <2>1, UpsertRow
  <2>3. report' = [report EXCEPT ![a] = row]
    BY <1>4
  <2> HIDE DEF row
  <2>4. report'[a] = row /\ \A b \in Audits \ {a} : report'[b] = report[b]
    BY <1>1, <2>1, <2>3
  <2>5. PICK c \in Audits : c = a
    BY <2>1
  <2>6. /\ report'[c].slug # None /\ report'[c].revoked = report[c].revoked
        /\ report'[c].expired = FALSE
        /\ \A b \in Audits \ {c} : report'[b] = report[b]
    BY <2>2, <2>4, <2>5
  <2> HIDE DEF a
  <2>7. \A b \in Audits \ {c} : Badge(b)' = Badge(b)
    BY <2>6 DEF Badge
  <2>8. CASE Badge(c)' = Badge(c)
    BY <2>7, <2>8 DEF Badges
  <2>9. CASE Badge(c)' # Badge(c)
    <3>1. Badge(c) \in {"private", "lapsed"} /\ Badge(c)' = "public"
      <4>1. CASE report[c].revoked
        <5>1. report[c].slug # None
          BY <1>1, <4>1 DEF TypeOK, NoReport
        <5> QED BY <2>6, <2>9, <4>1, <5>1 DEF Badge
      <4>2. CASE ~report[c].revoked
        BY <2>6, <2>9, <4>2 DEF Badge
      <4> QED BY <4>1, <4>2
    <3>2. Consent!Publish(c)
      BY <2>7, <3>1 DEF Consent!Publish, Consent!Become
    <3> QED BY <3>2 DEF Consent!DisclosureNext, Badges
  <2> QED BY <2>8, <2>9
<1>5. ASSUME NEW S \in SUBSET Audits, RevokeRows(S)
      PROVE  [Consent!DisclosureNext]_(Badges)
  <2>1. \A a \in Audits : IF a \in RevokedSet(S)
                            THEN report'[a] = [report[a] EXCEPT !.revoked = TRUE]
                            ELSE report'[a] = report[a]
    BY <1>1, <1>5, RevokeRowsType
  <2>2. \A a \in Audits : IF a \in RevokedSet(S)
                            THEN Badge(a) # "private" /\ Badge(a)' = "withdrawn"
                            ELSE Badge(a)' = Badge(a)
    BY <1>1, <2>1 DEF RevokedSet, Badge, RowType
  <2>3. RevokedSet(S) \in SUBSET Audits
    BY DEF RevokedSet
  <2>4. Consent!Withdraw(RevokedSet(S))
    BY <2>2, <2>3 DEF Consent!Withdraw
  <2> QED BY <2>3, <2>4 DEF Consent!DisclosureNext, Badges
<1> QED BY <1>2, <1>3, <1>4, <1>5, StepRows DEF RowStep

\* Every step on the rows is a publication, a lapse or a withdrawal of badges
\* that were not private, so no withdrawn badge is ever served again.
THEOREM PublicationImplementsDisclosure == Spec => ImplementsDisclosure
<1>1. PublicationInv /\ [Next]_vars => [Consent!DisclosureNext]_(Badges)
  BY StepBadges
<1> QED BY <1>1, InitBadges, InvariantHolds, PTL
    DEF Spec, ImplementsDisclosure, Consent!DisclosureSpec, Badges

-----------------------------------------------------------------------------
(* What an erasure reaches *)

\* A share past its checks is of a published audit, and what a request found
\* shared when it began still is.
SharedFound ==
  /\ \A r \in Requests : At(r, "share", "grant") \/ grant[r] # "none" => req[r].audit \in Published
  /\ \A r \in Requests : before[r].shared \subseteq Shared

\* Of what was shared of its creator before it began, an erasure has collected
\* everything that was not withdrawn meanwhile, and leaves nothing of it.
Scanned(r) ==
  \A a \in before[r].shared : director[a] = req[r].by =>
    /\ At(r, "erase", "commit") => a \in req[r].scope \/ report[a].revoked
    /\ At(r, "erase", "ok") /\ budget["revokeError"] = FaultBudget["revokeError"]
         => report[a].revoked

EraseInv ==
  /\ SharedFound
  /\ budget["revokeError"] <= FaultBudget["revokeError"]
  /\ \A r \in Requests : Scanned(r)

LEMMA StartFrame ==
  ASSUME PublicationInv, NEW r \in Requests, Start(r)
  PROVE  /\ req[r] = NoRequest
         /\ \A s \in Requests \ {r} : req'[s] = req[s] /\ before'[s] = before[s]
         /\ before'[r].shared = Shared
         /\ req'[r].pc \notin {"commit", "ok"}
         /\ req'[r].op = "share" /\ req'[r].pc = "grant" => req'[r].audit \in Published
         /\ budget' = budget
<1>1. req \in [Requests -> ReqType]
      /\ before \in [Requests -> [published : SUBSET Audits, shared : SUBSET Audits]]
  BY DEF PublicationInv, TypeOK, ReqType
<1>2. ASSUME NEW op, NEW a, NEW u, NEW ok, NEW pc, Begin(r, op, a, u, ok, pc),
             pc \notin {"commit", "ok"}, op = "share" /\ ok => a \in Published
      PROVE  /\ req[r] = NoRequest
             /\ \A s \in Requests \ {r} : req'[s] = req[s] /\ before'[s] = before[s]
             /\ before'[r].shared = Shared
             /\ req'[r].pc \notin {"commit", "ok"}
             /\ req'[r].op = "share" /\ req'[r].pc = "grant" => req'[r].audit \in Published
             /\ budget' = budget
  <2> DEFINE next == [NoRequest EXCEPT
         !.op = op, !.audit = a, !.by = u,
         !.pc = IF (a = None \/ director[a] = u) /\ ok THEN pc ELSE "refused",
         !.version = IF op = "publish" THEN score[u] ELSE 0]
  <2>1. /\ next.op = op /\ next.audit = a
        /\ next.pc = IF (a = None \/ director[a] = u) /\ ok THEN pc ELSE "refused"
    BY DEF NoRequest
  <2>2. req' = [req EXCEPT ![r] = next]
    BY <1>2 DEF Begin
  <2> HIDE DEF next
  <2>3. /\ req'[r] = next /\ \A s \in Requests \ {r} : req'[s] = req[s]
    BY <1>1, <2>2
  <2>4. before' = [before EXCEPT ![r] = [published |-> Published, shared |-> Shared]]
        /\ req[r] = NoRequest /\ budget' = budget
    BY <1>2 DEF Begin
  <2>5. /\ before'[r].shared = Shared
        /\ \A s \in Requests \ {r} : before'[s] = before[s]
    <3>1. before'[r] = [published |-> Published, shared |-> Shared]
      BY <1>1, <2>4
    <3> QED BY <1>1, <2>4, <3>1
  <2>6. next.pc \notin {"commit", "ok"}
    BY <1>2, <2>1
  <2>7. next.op = "share" /\ next.pc = "grant" => next.audit \in Published
    BY <1>2, <2>1
  <2> QED BY <2>3, <2>4, <2>5, <2>6, <2>7
<1>3. PICK u \in Creators :
        \/ BeginErase(r, u)
        \/ \E a \in Audits : BeginPublish(r, a, u) \/ BeginShare(r, a, u) \/ BeginRevoke(r, a, u)
  BY DEF Start
<1>4. PICK op \in {"publish", "share", "revoke", "erase"}, a \in Audits \cup {None},
           ok \in BOOLEAN, pc \in {"put", "grant", "revoke", "forget"} :
        Begin(r, op, a, u, ok, pc) /\ (op = "share" /\ ok => a \in Published)
  <2>1. CASE BeginErase(r, u)
    <3>1. Begin(r, "erase", None, u, TRUE, "forget")
      BY <2>1 DEF BeginErase
    <3> QED BY <3>1
  <2>2. CASE \E a \in Audits : BeginPublish(r, a, u)
    <3>1. PICK a \in Audits : Begin(r, "publish", a, u, score[u] > 0, "put")
      BY <2>2 DEF BeginPublish
    <3>2. (score[u] > 0) \in BOOLEAN
      OBVIOUS
    <3> QED BY <3>1, <3>2
  <2>3. CASE \E a \in Audits : BeginShare(r, a, u)
    <3>1. PICK a \in Audits : Begin(r, "share", a, u, a \in Published, "grant")
      BY <2>3 DEF BeginShare
    <3>2. (a \in Published) \in BOOLEAN
      OBVIOUS
    <3>3. Begin(r, "share", a, u, (a \in Published), "grant") /\ ((a \in Published) => a \in Published)
      BY <3>1
    <3> QED BY <3>2, <3>3, Zenon
  <2>4. CASE \E a \in Audits : BeginRevoke(r, a, u)
    <3>1. PICK a \in Audits : Begin(r, "revoke", a, u, TRUE, "revoke")
      BY <2>4 DEF BeginRevoke
    <3> QED BY <3>1
  <2> QED BY <1>3, <2>1, <2>2, <2>3, <2>4
<1> QED BY <1>2, <1>4

\* No step takes a row or a revocation back.
LEMMA RowsKept ==
  ASSUME PublicationInv, [Next]_vars, NEW a \in Audits
  PROVE  /\ report[a].slug # None => report'[a].slug # None
         /\ report[a].revoked => report'[a].revoked
<1>1. TypeOK /\ report \in [Audits -> RowType] /\ report[a] \in RowType
  BY DEF PublicationInv, TypeOK, RowType
<1>2. CASE \E b \in Audits : Expire(b)
  BY <1>1, <1>2 DEF Expire, RowType
<1>3. ASSUME NEW r \in Requests, At(r, "publish", "upsert"),
             report' = [report EXCEPT ![req[r].audit] = RowAfterPublish(@, r, req[r].version)]
      PROVE  /\ report[a].slug # None => report'[a].slug # None
             /\ report[a].revoked => report'[a].revoked
  BY <1>1, <1>3 DEF RowAfterPublish, RowType
<1>4. ASSUME NEW S \in SUBSET Audits, RevokeRows(S)
      PROVE  /\ report[a].slug # None => report'[a].slug # None
             /\ report[a].revoked => report'[a].revoked
  <2>1. report'[a] = [report[a] EXCEPT !.revoked = TRUE] \/ report'[a] = report[a]
    BY <1>1, <1>4, RevokeRowsType
  <2> QED BY <1>1, <2>1 DEF RowType
<1> QED BY <1>2, <1>3, <1>4, StepRows DEF RowStep

\* A step of a request keeps what it is about, and records a grant only at the
\* end of a share.
LEMMA GrantStep ==
  ASSUME PublicationInv, NEW r \in Requests, Proceed(r) \/ Die(r)
  PROVE  /\ req'[r].op = req[r].op /\ req'[r].audit = req[r].audit /\ req'[r].by = req[r].by
         /\ \A s \in Requests \ {r} : req'[s] = req[s]
         /\ \A s \in Requests : grant[s] # "none" => grant'[s] # "none"
         /\ \A s \in Requests : grant'[s] # "none" =>
              grant[s] # "none" \/ (s = r /\ At(r, "share", "grant"))
<1>1. TypeOK /\ req \in [Requests -> ReqType] /\ req[r] \in ReqType
  BY DEF PublicationInv, TypeOK, ReqType
<1>2. ASSUME NEW pc \in PCs, Goto(r, pc)
      PROVE  /\ \A s \in Requests \ {r} : req'[s] = req[s]
             /\ req'[r].op = req[r].op /\ req'[r].audit = req[r].audit /\ req'[r].by = req[r].by
  BY <1>1, <1>2, GotoType DEF ReqType
<1>3. ASSUME ScanReports(r)
      PROVE  /\ \A s \in Requests \ {r} : req'[s] = req[s]
             /\ req'[r].op = req[r].op /\ req'[r].audit = req[r].audit /\ req'[r].by = req[r].by
  <2> DEFINE S == {a \in Audits : ~report[a].revoked /\ GrantsOn(a) \cap GrantsBy(req[r].by) # {}}
  <2>1. req' = [req EXCEPT ![r] = [req[r] EXCEPT !.pc = "commit", !.scope = S]]
    BY <1>3 DEF ScanReports
  <2> HIDE DEF S
  <2> QED BY <1>1, <2>1 DEF ReqType
<1>4. \A R : WithdrawGrants(R) /\ R \subseteq {s \in Requests : grant[s] # "none"} =>
        \A s \in Requests : grant[s] # "none" <=> grant'[s] # "none"
  BY DEF WithdrawGrants
<1>5. /\ \A u : GrantsBy(u) \subseteq {s \in Requests : grant[s] # "none"}
      /\ \A a : GrantsOn(a) \subseteq {s \in Requests : grant[s] # "none"}
  BY DEF GrantsBy, GrantsOn
<1>6. /\ \A s \in Requests : grant[s] # "none" => grant'[s] # "none"
      /\ \A s \in Requests : grant'[s] # "none" =>
              grant[s] # "none" \/ (s = r /\ At(r, "share", "grant"))
  <2>1. CASE InsertShareGrant(r)
    BY <1>1, <2>1 DEF InsertShareGrant, TypeOK
  <2>2. CASE ~InsertShareGrant(r)
    <3>1. grant' = grant \/ \E R \in {GrantsBy(req[r].by), GrantsOn(req[r].audit)} : WithdrawGrants(R)
      BY <2>2 DEF Proceed, Die, PutObject, UpsertReport, MintLink, RevokeByAuditJob,
           ForgetProviderUser, ScanReports, RevokeGrantsByUser, rows
    <3> QED BY <1>4, <1>5, <3>1
  <2> QED BY <2>1, <2>2
<1> QED BY <1>2, <1>3, <1>6, ProceedFrame
LEMMA BudgetFalls ==
  ASSUME PublicationInv, EraseInv, [Next]_vars
  PROVE  /\ budget'["revokeError"] <= FaultBudget["revokeError"]
         /\ budget'["revokeError"] = FaultBudget["revokeError"] =>
              /\ budget["revokeError"] = FaultBudget["revokeError"]
              /\ ~Spend("revokeError")
<1>1. budget \in [Faults -> Nat] /\ FaultBudget["revokeError"] \in Nat
      /\ budget["revokeError"] <= FaultBudget["revokeError"]
  BY PublicationAssumption DEF PublicationAssumption, PublicationInv, TypeOK, EraseInv, Faults
<1>2. budget' = budget \/ \E f \in Faults : Spend(f)
  BY StartFrame DEF Next, Proceed, Die, PutObject, UpsertReport, MintLink, InsertShareGrant,
       RevokeByAuditJob, ForgetProviderUser, ScanReports, RevokeGrantsByUser, NoFault, Faults,
       Rescore, Connect, Disconnect, Expire, vars
<1>3. CASE budget' = budget
  <2>1. ~Spend("revokeError")
    BY <1>1, <1>3 DEF Spend, Faults
  <2> QED BY <1>1, <1>3, <2>1
<1>4. ASSUME NEW f \in Faults, Spend(f)
      PROVE  /\ budget'["revokeError"] \in Nat
             /\ budget'["revokeError"] <= budget["revokeError"]
             /\ Spend("revokeError") => budget'["revokeError"] < budget["revokeError"]
  BY <1>1, <1>4 DEF Spend, Faults
<1> QED BY <1>1, <1>2, <1>3, <1>4 DEF Faults

LEMMA StartErase ==
  ASSUME PublicationInv, EraseInv, NEW r \in Requests, Start(r)
  PROVE  EraseInv'
<1>1. UNCHANGED <<report, grant, director, budget>>
  BY StartInv, StartFrame
<1>2. grant[r] = "none" /\ req[r] = NoRequest
      /\ \A s \in Requests \ {r} : req'[s] = req[s] /\ before'[s] = before[s]
  <2>1. req[r] = NoRequest /\ req[r].op = "none"
    <3>1. req[r] = NoRequest
      BY StartFrame
    <3> QED BY <3>1 DEF NoRequest
  <2>2. grant[r] = "none"
    BY <2>1 DEF PublicationInv, ReqInv
  <2> QED BY <2>1, <2>2, StartFrame
<1>3. Published' = Published
  BY <1>1 DEF Published
<1>4. Shared' = Shared
  <2>1. \A a \in Audits : GrantsOn(a)' = GrantsOn(a)
    BY <1>1, <1>2 DEF GrantsOn
  <2> QED BY <2>1 DEF Shared
<1>5. SharedFound'
  BY <1>1, <1>2, <1>3, <1>4, StartFrame DEF SharedFound, EraseInv, At
<1>6. \A s \in Requests : Scanned(s)'
  <2>1. ASSUME NEW s \in Requests \ {r} PROVE Scanned(s)'
    BY <1>1, <1>2, <2>1 DEF EraseInv, Scanned, At
  <2>2. Scanned(r)'
    BY StartFrame DEF Scanned, At
  <2> QED BY <2>1, <2>2
<1> QED BY <1>1, <1>5, <1>6 DEF EraseInv

LEMMA ProceedErase ==
  ASSUME PublicationInv, EraseInv, [Next]_vars, NEW r \in Requests, Proceed(r) \/ Die(r)
  PROVE  EraseInv'
<1>1. TypeOK /\ director' = director /\ before' = before
      /\ req \in [Requests -> ReqType] /\ req[r] \in ReqType
      /\ before[r].shared \subseteq Audits
  BY ProceedFrame DEF PublicationInv, TypeOK, ReqType
<1>2. \A s \in Requests :
        /\ s # r => req'[s] = req[s]
        /\ req'[s].op = req[s].op /\ req'[s].audit = req[s].audit /\ req'[s].by = req[s].by
        /\ grant[s] # "none" => grant'[s] # "none"
        /\ grant'[s] # "none" => grant[s] # "none" \/ (s = r /\ At(r, "share", "grant"))
  BY GrantStep
<1>3. Published \subseteq Published'
  BY RowsKept DEF Published
<1>4. Shared \subseteq Shared'
  BY <1>2 DEF Shared, GrantsOn
<1>5. /\ ~At(r, "share", "grant")'
      /\ At(r, "erase", "commit")' => ScanReports(r)
      /\ At(r, "erase", "ok")' => RevokeGrantsByUser(r)
  <2>1. ASSUME NEW pc \in PCs, Goto(r, pc) PROVE req'[r].pc = pc
    BY <1>1, <2>1, GotoType DEF ReqType
  <2>2. ScanReports(r) => req'[r].pc = "commit" /\ req[r].op = "erase"
    BY <1>1 DEF ScanReports, ReqType, At
  <2> QED BY <1>2, <2>1, <2>2
      DEF Proceed, Die, PutObject, UpsertReport, MintLink, InsertShareGrant,
          RevokeByAuditJob, ForgetProviderUser, RevokeGrantsByUser, At, PCs
<1>6. SharedFound'
  <2>1. ASSUME NEW s \in Requests, At(s, "share", "grant")' \/ grant'[s] # "none"
        PROVE  req'[s].audit \in Published'
    <3>1. At(s, "share", "grant") \/ grant[s] # "none"
      BY <1>2, <1>5, <2>1 DEF At
    <3> QED BY <1>2, <1>3, <3>1 DEF EraseInv, SharedFound
  <2>2. \A s \in Requests : before'[s].shared \subseteq Shared'
    BY <1>1, <1>4 DEF EraseInv, SharedFound
  <2> QED BY <2>1, <2>2 DEF SharedFound
<1>7. ASSUME NEW s \in Requests \ {r} PROVE Scanned(s)'
  <2> SUFFICES ASSUME NEW a \in before[s].shared, director[a] = req[s].by
               PROVE  /\ At(s, "erase", "commit") => a \in req[s].scope \/ report'[a].revoked
                      /\ At(s, "erase", "ok")
                           /\ budget'["revokeError"] = FaultBudget["revokeError"]
                           => report'[a].revoked
    BY <1>1, <1>2 DEF Scanned, At
  <2>1. a \in Audits
    BY <1>1 DEF TypeOK
  <2> QED BY <2>1, RowsKept, BudgetFalls DEF EraseInv, Scanned
<1>8. Scanned(r)'
  <2> SUFFICES ASSUME NEW a \in before[r].shared, director[a] = req[r].by
               PROVE  /\ At(r, "erase", "commit")' => a \in req'[r].scope \/ report'[a].revoked
                      /\ At(r, "erase", "ok")'
                           /\ budget'["revokeError"] = FaultBudget["revokeError"]
                           => report'[a].revoked
    BY <1>1, <1>2 DEF Scanned
  <2>1. a \in Audits
    BY <1>1
  <2>2. PICK s \in Requests : grant[s] # "none" /\ req[s].audit = a
    BY DEF EraseInv, SharedFound, Shared, GrantsOn
  <2>3. report[a].slug # None /\ req[s].by = req[r].by
    BY <2>2 DEF EraseInv, SharedFound, Published, PublicationInv, ReqInv
  <2>4. CASE ScanReports(r)
    <3> DEFINE S == {b \in Audits : ~report[b].revoked
                                    /\ GrantsOn(b) \cap GrantsBy(req[r].by) # {}}
    <3>1. req' = [req EXCEPT ![r] = [req[r] EXCEPT !.pc = "commit", !.scope = S]]
          /\ report' = report
      BY <2>4 DEF ScanReports, rows
    <3>2. a \in S \/ report[a].revoked
      BY <2>1, <2>2, <2>3 DEF GrantsOn, GrantsBy
    <3> HIDE DEF S
    <3>3. req'[r].scope = S /\ req'[r].pc = "commit"
      BY <1>1, <3>1 DEF ReqType
    <3> QED BY <3>1, <3>2, <3>3 DEF At
  <2>5. CASE RevokeGrantsByUser(r)
    <3>1. At(r, "erase", "commit") /\ req'[r].pc = "ok"
      BY <1>1, <2>5, GotoType DEF RevokeGrantsByUser, PCs, ReqType
    <3>2. a \in req[r].scope \/ report[a].revoked
      BY <3>1 DEF EraseInv, Scanned
    <3>3. CASE RevokeRows(req[r].scope)
      <4>1. report'[a] = IF a \in req[r].scope THEN [report[a] EXCEPT !.revoked = TRUE]
                                               ELSE report[a]
        BY <2>1, <2>3, <3>3 DEF RevokeRows
      <4>2. report[a] \in RowType
        BY <1>1, <2>1 DEF TypeOK, RowType
      <4>3. report'[a].revoked
        BY <3>2, <4>1, <4>2 DEF RowType
      <4> QED BY <3>1, <4>3 DEF At
    <3>4. CASE Spend("revokeError")
      BY <3>1, <3>4, BudgetFalls DEF At
    <3> QED BY <2>5, <3>3, <3>4 DEF RevokeGrantsByUser
  <2> QED BY <1>5, <2>4, <2>5
<1> QED BY <1>6, <1>7, <1>8, BudgetFalls DEF EraseInv

LEMMA EnvironmentErase ==
  ASSUME PublicationInv, EraseInv, [Next]_vars,
         \/ \E u \in Creators : Rescore(u) \/ Connect(u) \/ Disconnect(u)
         \/ \E a \in Audits : Expire(a)
         \/ UNCHANGED vars
  PROVE  EraseInv'
<1>1. UNCHANGED <<director, grant, req, before, budget>>
  BY DEF Rescore, Connect, Disconnect, Expire, vars, accounts, rows
<1>2. Published \subseteq Published' /\ Shared' = Shared
  BY <1>1, RowsKept DEF Published, Shared, GrantsOn
<1>3. \A s \in Requests : before[s].shared \subseteq Audits
  BY DEF PublicationInv, TypeOK
<1>4. SharedFound'
  BY <1>1, <1>2 DEF EraseInv, SharedFound, At
<1>5. \A s \in Requests : Scanned(s)'
  BY <1>1, <1>3, RowsKept DEF EraseInv, Scanned, At
<1> QED BY <1>1, <1>4, <1>5 DEF EraseInv

\* Once an erasure that found its creator answered and no erasure failed, nothing
\* shared before the callback arrived is served again, for any number of requests
\* in flight, deaths and other faults.
THEOREM ErasureReachesShared == Spec => []EraseReachesShared
<1>1. Init => EraseInv
  <2>1. Init => SharedFound /\ \A r \in Requests : Scanned(r)
    BY DEF Init, SharedFound, Scanned, NoRequest, At
  <2>2. Init => budget["revokeError"] <= FaultBudget["revokeError"]
    BY PublicationAssumption DEF PublicationAssumption, Init, Faults
  <2> QED BY <2>1, <2>2 DEF EraseInv
<1>2. PublicationInv /\ EraseInv /\ [Next]_vars => EraseInv'
  BY StartErase, ProceedErase, EnvironmentErase DEF Next
<1>3. PublicationInv /\ EraseInv => EraseReachesShared
  <2> SUFFICES ASSUME PublicationInv, EraseInv,
                      budget["revokeError"] = FaultBudget["revokeError"],
                      NEW r \in Requests, At(r, "erase", "ok"),
                      NEW b \in Served, b.audit \in before[r].shared, director[b.audit] = req[r].by
               PROVE  FALSE
    BY DEF EraseReachesShared
  <2>1. report[b.audit].revoked
    BY DEF EraseInv, Scanned
  <2>2. PICK a \in Audits : Visible(a) /\ b = projectBadge(a)
    BY DEF Served, PublicBadge, PublicBadgeByHandle
  <2> QED BY <2>1, <2>2 DEF projectBadge, Visible
<1> QED BY <1>1, <1>2, <1>3, InvariantHolds, PTL DEF Spec
=============================================================================
