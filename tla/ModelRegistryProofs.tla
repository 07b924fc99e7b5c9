------------------------- MODULE ModelRegistryProofs -------------------------
(***************************************************************************)
(* Theorems about ModelRegistry, for any numbers of versions and of admins *)
(* at work at once: the types hold, no model gets a first champion without *)
(* a canary, the champion is archived by its successor only, and no        *)
(* version serves that never passed the gates.                             *)
(***************************************************************************)
EXTENDS ModelRegistry, FiniteSetTheorems, TLAPS

ReqType == [op : {"none", "register", "promote"}, pc : PCs, version : Versions \cup {None},
            mv : Row, canaries : Nat, champions : SUBSET Versions,
            challengers : SUBSET Versions]

\* What a promotion has read stays true: versions that were promoted stay so, and
\* canaries are never removed.
ReqInv(r) ==
  /\ req[r].pc \notin Free => req[r].version \in Versions
  /\ req[r].pc = "champion" /\ req[r].canaries > 0 => canaries # {}
  /\ req[r].op = "promote" /\ req[r].pc \in {"begin", "commit"} => canaries # {}

Covered == (\E v \in Versions : row[v].promoted) => canaries # {}

RegistryInv == TypeOK /\ Covered /\ \A r \in Admins : ReqInv(r)

LEMMA NoRequestType == NoRequest \in ReqType /\ NoRow \in Row
BY DEF NoRequest, NoRow, NoReport, ReqType, Row, Roles, Report, PCs

LEMMA EndType ==
  ASSUME TypeOK, NEW r \in Admins, NEW pc \in Free, End(r, pc)
  PROVE  /\ req' \in [Admins -> ReqType]
         /\ req'[r].pc = pc /\ req'[r].op = "none"
         /\ \A s \in Admins \ {r} : req'[s] = req[s]
<1>1. req \in [Admins -> ReqType]
  BY DEF TypeOK, ReqType
<1>2. [NoRequest EXCEPT !.pc = pc] \in ReqType
  BY NoRequestType DEF ReqType, Free, PCs
<1>3. [NoRequest EXCEPT !.pc = pc].pc = pc /\ [NoRequest EXCEPT !.pc = pc].op = "none"
  BY DEF NoRequest
<1> QED BY <1>1, <1>2, <1>3 DEF End

\* A step of admin r that leaves the others alone preserves the invariant when it
\* preserves the types, its own part, and what the others rely on.
LEMMA Frame ==
  ASSUME RegistryInv, TypeOK', Covered', NEW r \in Admins, ReqInv(r)',
         \A s \in Admins \ {r} : req'[s] = req[s], canaries \subseteq canaries'
  PROVE  RegistryInv'
<1>1. \A s \in Admins \ {r} : ReqInv(s)'
  BY DEF RegistryInv, ReqInv
<1> QED BY <1>1 DEF RegistryInv

LEMMA BeginRegisterInv ==
  ASSUME RegistryInv, NEW r \in Admins, NEW v \in Versions, NEW report \in Reports,
         BeginRegister(r, v, report)
  PROVE  RegistryInv'
<1> DEFINE mv == [role |-> "challenger", promoted |-> FALSE, earned |-> "never",
                  report |-> report]
           next == [NoRequest EXCEPT !.op = "register", !.pc = "commit", !.version = v,
                      !.mv = mv, !.challengers = With("challenger") \ {v}]
<1>1. mv \in Row
  BY RegistryAssumption DEF Row, Roles, RegistryAssumption
<1>2. With("challenger") \ {v} \in SUBSET Versions
  BY DEF With
<1> HIDE DEF mv
<1>3. next \in ReqType /\ next.op = "register" /\ next.pc = "commit" /\ next.version = v
  BY <1>1, <1>2, NoRequestType DEF ReqType, NoRequest, PCs
<1>4. req' = [req EXCEPT ![r] = next] /\ UNCHANGED <<row, canaries, basis, intake>>
  BY DEF BeginRegister, mv
<1> HIDE DEF next
<1>5. TypeOK'
  BY <1>3, <1>4 DEF RegistryInv, TypeOK, ReqType, With
<1>6. req'[r] = next /\ \A s \in Admins \ {r} : req'[s] = req[s]
  BY <1>4 DEF RegistryInv, TypeOK
<1>7. ReqInv(r)' /\ Covered'
  BY <1>3, <1>4, <1>6 DEF ReqInv, RegistryInv, Covered
<1> QED BY <1>4, <1>5, <1>6, <1>7, Frame

LEMMA RegisteredType ==
  ASSUME NEW old \in Row, NEW new \in Row
  PROVE  Registered(old, new) \in Row /\ Registered(old, new).promoted = old.promoted
         /\ Registered(old, new).role = new.role
BY DEF Registered, Row

\* The version a registration records is a challenger.
RegisterInv(r) == req[r].op = "register" => req[r].mv.role = "challenger"

LEMMA CommitRegisterInv ==
  ASSUME RegistryInv, NEW r \in Admins, CommitRegister(r), RegisterInv(r)
  PROVE  RegistryInv'
<1> DEFINE v == req[r].version
           demoted == req[r].challengers \cap With("challenger")
<1>1. TypeOK /\ ReqInv(r) /\ req[r] \in ReqType /\ req[r].mv.role = "challenger"
  BY DEF RegistryInv, TypeOK, ReqType, RegisterInv, CommitRegister, At
<1>2. v \in Versions /\ req[r].mv \in Row /\ UNCHANGED <<canaries, basis, intake>>
  BY <1>1 DEF CommitRegister, At, ReqInv, Free, ReqType
<1>3. PICK pc \in {"ok", "conflict"} : End(r, pc)
  BY DEF CommitRegister
<1>4. /\ req' \in [Admins -> ReqType] /\ req'[r].pc = pc /\ req'[r].op = "none"
      /\ \A s \in Admins \ {r} : req'[s] = req[s]
  BY <1>1, <1>3, EndType DEF Free
<1>5. /\ row' \in [Versions -> Row]
      /\ \A w \in Versions : row'[w].promoted = row[w].promoted
      /\ \A w \in Versions : row'[w].role = "champion" => row[w].role = "champion"
  <2>1. CASE row' = row
    BY <1>1, <2>1 DEF TypeOK
  <2>2. CASE row' = [w \in Versions |->
                 IF w = v THEN Registered(row[v], req[r].mv)
                 ELSE IF w \in demoted THEN [row[w] EXCEPT !.role = "rejected"]
                 ELSE row[w]]
    <3>1. \A w \in Versions : row[w] \in Row
      BY <1>1 DEF TypeOK
    <3>2. \A w \in Versions : /\ [row[w] EXCEPT !.role = "rejected"] \in Row
                              /\ [row[w] EXCEPT !.role = "rejected"].promoted = row[w].promoted
                              /\ [row[w] EXCEPT !.role = "rejected"].role = "rejected"
      BY <3>1 DEF Row, Roles
    <3>3. /\ Registered(row[v], req[r].mv) \in Row
          /\ Registered(row[v], req[r].mv).promoted = row[v].promoted
          /\ Registered(row[v], req[r].mv).role = "challenger"
      BY <1>1, <1>2, <3>1, RegisteredType
    <3> HIDE DEF v, demoted
    <3>4. \A w \in Versions : (row'[w] = Registered(row[v], req[r].mv) /\ w = v)
                              \/ row'[w] = [row[w] EXCEPT !.role = "rejected"]
                              \/ row'[w] = row[w]
      BY <2>2
    <3> QED BY <2>2, <3>1, <3>2, <3>3, <3>4
  <2> QED BY <2>1, <2>2 DEF CommitRegister
<1>6. TypeOK'
  BY <1>1, <1>2, <1>4, <1>5 DEF TypeOK, ReqType
<1>7. ReqInv(r)' /\ Covered'
  BY <1>2, <1>3, <1>4, <1>5 DEF ReqInv, Free, RegistryInv, Covered
<1> QED BY <1>2, <1>4, <1>6, <1>7, Frame

LEMMA BeginPromoteInv ==
  ASSUME RegistryInv, NEW r \in Admins, NEW v \in Versions, BeginPromote(r, v)
  PROVE  RegistryInv'
<1>1. TypeOK /\ UNCHANGED <<row, canaries, basis, intake>> /\ Covered
  BY DEF RegistryInv, BeginPromote
<1>2. ASSUME NEW pc \in {"ok", "refused"}, End(r, pc) PROVE RegistryInv'
  <2>1. /\ req' \in [Admins -> ReqType] /\ req'[r].pc = pc /\ req'[r].op = "none"
        /\ \A s \in Admins \ {r} : req'[s] = req[s]
    BY <1>1, <1>2, EndType DEF Free
  <2>2. TypeOK' /\ Covered'
    BY <1>1, <2>1 DEF TypeOK, ReqType, Covered
  <2>3. ReqInv(r)'
    BY <2>1, <1>2 DEF ReqInv, Free
  <2> QED BY <1>1, <2>1, <2>2, <2>3, Frame
<1>3. ASSUME req' = [req EXCEPT ![r] = [NoRequest EXCEPT
               !.op = "promote", !.version = v, !.mv = GetModelVersion(v),
               !.pc = IF IsRollback(row[v]) THEN "begin" ELSE "canaries"]]
      PROVE RegistryInv'
  <2> DEFINE pc == IF IsRollback(row[v]) THEN "begin" ELSE "canaries"
             next == [NoRequest EXCEPT !.op = "promote", !.version = v, !.mv = GetModelVersion(v),
                        !.pc = pc]
  <2>1. GetModelVersion(v) \in Row /\ pc \in PCs
    BY <1>1 DEF TypeOK, PCs, GetModelVersion, Row
  <2>2. pc = "begin" => canaries # {}
    BY <1>1 DEF IsRollback, Covered
  <2>3. pc \in {"begin", "canaries"}
    OBVIOUS
  <2> HIDE DEF pc
  <2>4. next \in ReqType /\ next.op = "promote" /\ next.pc = pc /\ next.version = v
    BY <2>1, NoRequestType DEF ReqType, NoRequest
  <2>5. req' = [req EXCEPT ![r] = next]
    BY <1>3 DEF pc
  <2> HIDE DEF next
  <2>6. req'[r] = next /\ \A s \in Admins \ {r} : req'[s] = req[s]
    BY <1>1, <2>5 DEF TypeOK
  <2>7. TypeOK' /\ Covered'
    BY <1>1, <2>4, <2>5 DEF TypeOK, ReqType, Covered
  <2>8. ReqInv(r)'
    BY <1>1, <2>2, <2>3, <2>4, <2>6 DEF ReqInv
  <2> QED BY <1>1, <2>6, <2>7, <2>8, Frame
<1> QED BY <1>2, <1>3 DEF BeginPromote

LEMMA CanaryCount ==
  ASSUME TypeOK
  PROVE  Cardinality(canaries) \in Nat /\ (Cardinality(canaries) > 0 => canaries # {})
<1>1. IsFiniteSet(canaries)
  BY RegistryAssumption, FS_Subset DEF RegistryAssumption, TypeOK
<1> QED BY <1>1, FS_CardinalityType, FS_EmptySet

\* A step of a promotion that only moves the request on.
LEMMA ReadInv ==
  ASSUME RegistryInv, NEW r \in Admins, ListCanaries(r) \/ BeginPromoteTx(r)
  PROVE  RegistryInv'
<1>1. TypeOK /\ ReqInv(r) /\ req[r] \in ReqType /\ UNCHANGED <<row, canaries, basis, intake>>
  BY DEF RegistryInv, TypeOK, ReqType, ListCanaries, BeginPromoteTx
<1>2. req[r].version \in Versions
  BY <1>1 DEF ReqInv, ListCanaries, BeginPromoteTx, At, Free
<1>3. PICK next \in ReqType :
        /\ req' = [req EXCEPT ![r] = next]
        /\ next.version = req[r].version /\ next.op = "promote"
        /\ \/ next.pc = "champion" /\ next.canaries = Cardinality(canaries)
           \/ next.pc = "commit" /\ req[r].pc = "begin"
  <2>1. CASE ListCanaries(r)
    <3> DEFINE next == [req[r] EXCEPT !.canaries = Cardinality(canaries), !.pc = "champion"]
    <3>1. next \in ReqType /\ next.op = "promote" /\ next.pc = "champion"
          /\ next.canaries = Cardinality(canaries) /\ next.version = req[r].version
      BY <1>1, <2>1, CanaryCount DEF ReqType, PCs, ListCanaries, At
    <3>2. req' = [req EXCEPT ![r] = next]
      BY <2>1 DEF ListCanaries
    <3> HIDE DEF next
    <3> QED BY <3>1, <3>2
  <2>2. CASE BeginPromoteTx(r)
    <3> DEFINE next == [req[r] EXCEPT !.pc = "commit",
                          !.champions = With("champion") \ {req[r].version},
                          !.challengers = With("challenger") \ {req[r].version}]
    <3>1. /\ With("champion") \ {req[r].version} \in SUBSET Versions
          /\ With("challenger") \ {req[r].version} \in SUBSET Versions
      BY DEF With
    <3>2. next \in ReqType /\ next.op = "promote" /\ next.pc = "commit"
          /\ next.version = req[r].version
      BY <1>1, <2>2, <3>1 DEF ReqType, PCs, BeginPromoteTx, At
    <3>3. req' = [req EXCEPT ![r] = next]
      BY <2>2 DEF BeginPromoteTx
    <3> HIDE DEF next
    <3> QED BY <2>2, <3>2, <3>3 DEF BeginPromoteTx, At
  <2> QED BY <2>1, <2>2
<1>4. req'[r] = next /\ \A s \in Admins \ {r} : req'[s] = req[s]
  BY <1>1, <1>3 DEF TypeOK
<1>5. TypeOK' /\ Covered'
  BY <1>1, <1>3 DEF TypeOK, ReqType, RegistryInv, Covered
<1>6. ReqInv(r)'
  <2>1. req[r].op = "promote"
    BY DEF ListCanaries, BeginPromoteTx, At
  <2> QED BY <1>1, <1>2, <1>3, <1>4, <2>1, CanaryCount DEF ReqInv
<1> QED BY <1>1, <1>4, <1>5, <1>6, Frame

LEMMA CheckGatesInv ==
  ASSUME RegistryInv, NEW r \in Admins, CheckGates(r)
  PROVE  RegistryInv'
<1>1. TypeOK /\ ReqInv(r) /\ req[r] \in ReqType /\ UNCHANGED <<canaries, basis, intake>>
      /\ At(r, "promote", "champion") /\ Covered
  BY DEF RegistryInv, TypeOK, ReqType, CheckGates
<1>2. req[r].version \in Versions
  BY <1>1 DEF ReqInv, At, Free
<1>3. ASSUME FirstChampionAllowed(req[r].canaries, With("champion") # {}),
             Goto(r, "begin"), row' = Earned(req[r].version, req[r].mv.report)
      PROVE RegistryInv'
  <2>1. canaries # {}
    <3>1. CASE req[r].canaries > 0
      BY <1>1, <3>1 DEF ReqInv, At
    <3>2. CASE With("champion") # {}
      BY <1>1, <3>2 DEF With, TypeOK, Covered
    <3> QED BY <1>3, <3>1, <3>2 DEF FirstChampionAllowed
  <2> DEFINE v == req[r].version
             next == [req[r] EXCEPT !.pc = "begin"]
             seal == IF row[v].earned = "now" \/ row[v].report = req[r].mv.report
                       THEN "now" ELSE "before"
             mark == [row[v] EXCEPT !.earned = seal]
  <2>2. /\ next \in ReqType /\ next.pc = "begin" /\ next.version = v
    BY <1>1 DEF ReqType, PCs
  <2>3. req' = [req EXCEPT ![r] = next]
    BY <1>3 DEF Goto
  <2>4. mark \in Row /\ mark.promoted = row[v].promoted /\ mark.role = row[v].role
    <3>1. row[v] \in Row
      BY <1>1, <1>2 DEF TypeOK
    <3>2. seal \in {"never", "before", "now"}
      OBVIOUS
    <3> QED BY <3>1, <3>2 DEF Row
  <2>5. row' = [row EXCEPT ![v] = mark]
    BY <1>3 DEF Earned
  <2> HIDE DEF next, mark
  <2>6. req'[r] = next /\ \A s \in Admins \ {r} : req'[s] = req[s]
    BY <1>1, <2>3 DEF TypeOK
  <2>7. TypeOK'
    BY <1>1, <1>2, <2>2, <2>3, <2>4, <2>5 DEF TypeOK, ReqType
  <2>8. ReqInv(r)' /\ Covered'
    BY <1>1, <1>2, <2>1, <2>2, <2>6 DEF ReqInv, Covered
  <2> QED BY <1>1, <2>6, <2>7, <2>8, Frame
<1>4. ASSUME End(r, "refused"), UNCHANGED row PROVE RegistryInv'
  <2>1. /\ req' \in [Admins -> ReqType] /\ req'[r].pc = "refused" /\ req'[r].op = "none"
        /\ \A s \in Admins \ {r} : req'[s] = req[s]
    BY <1>1, <1>4, EndType DEF Free
  <2>2. TypeOK' /\ Covered'
    BY <1>1, <1>4, <2>1 DEF TypeOK, ReqType, Covered
  <2>3. ReqInv(r)'
    BY <2>1 DEF ReqInv, Free
  <2> QED BY <1>1, <2>1, <2>2, <2>3, Frame
<1> QED BY <1>3, <1>4 DEF CheckGates

LEMMA CommitPromoteInv ==
  ASSUME RegistryInv, NEW r \in Admins, CommitPromote(r)
  PROVE  RegistryInv'
<1> DEFINE v == req[r].version
           A == ArchivedBy(r)
<1>1. TypeOK /\ ReqInv(r) /\ UNCHANGED <<canaries, basis, intake>> /\ canaries # {}
  BY DEF RegistryInv, CommitPromote, At, ReqInv
<1>2. v \in Versions
  BY <1>1 DEF CommitPromote, At, ReqInv, Free
<1>3. PICK pc \in {"ok", "conflict"} : End(r, pc)
  BY DEF CommitPromote
<1>4. /\ req' \in [Admins -> ReqType] /\ req'[r].pc = pc /\ req'[r].op = "none"
      /\ \A s \in Admins \ {r} : req'[s] = req[s]
  BY <1>1, <1>3, EndType DEF Free
<1>5. /\ row' \in [Versions -> Row]
      /\ \A w \in Versions : row'[w].role = "champion" => row'[w].promoted
  <2>1. CASE row' = row
    BY <1>1, <2>1 DEF TypeOK
  <2>2. CASE row' = PromotedRoles(v, A)
    <3>1. \A w \in Versions : row[w] \in Row /\ (row[w].role = "champion" => row[w].promoted)
      BY <1>1 DEF TypeOK
    <3> HIDE DEF v, A
    <3>2. row' = [w \in Versions |->
             IF w = v THEN [row[v] EXCEPT !.role = "champion", !.promoted = TRUE]
             ELSE IF w \in A THEN [row[w] EXCEPT !.role = "archived"]
             ELSE row[w]]
      BY <2>2 DEF PromotedRoles
    <3>3. \A w \in Versions :
            /\ [row[w] EXCEPT !.role = "champion", !.promoted = TRUE] \in Row
            /\ [row[w] EXCEPT !.role = "champion", !.promoted = TRUE].promoted
            /\ [row[w] EXCEPT !.role = "archived"] \in Row
            /\ [row[w] EXCEPT !.role = "archived"].role = "archived"
      BY <3>1 DEF Row, Roles
    <3>4. \A w \in Versions :
            \/ row'[w] = [row[w] EXCEPT !.role = "champion", !.promoted = TRUE]
            \/ row'[w] = [row[w] EXCEPT !.role = "archived"]
            \/ row'[w] = row[w]
      BY <3>2
    <3>5. \A w \in Versions : row'[w] \in Row /\ (row'[w].role = "champion" => row'[w].promoted)
      <4>1. TAKE w \in Versions
      <4>2. CASE row'[w] = [row[w] EXCEPT !.role = "champion", !.promoted = TRUE]
        BY <3>3, <4>2
      <4>3. CASE row'[w] = [row[w] EXCEPT !.role = "archived"]
        BY <3>3, <4>3
      <4>4. CASE row'[w] = row[w]
        BY <3>1, <4>4
      <4> QED BY <3>4, <4>2, <4>3, <4>4
    <3> QED BY <3>2, <3>5
  <2> QED BY <2>1, <2>2 DEF CommitPromote
<1>6. TypeOK'
  BY <1>1, <1>4, <1>5 DEF TypeOK, ReqType
<1>7. ReqInv(r)' /\ Covered'
  BY <1>1, <1>3, <1>4 DEF ReqInv, Free, Covered
<1> QED BY <1>1, <1>4, <1>6, <1>7, Frame

LEMMA CanaryStepInv ==
  ASSUME RegistryInv, NEW c \in Curators,
         CreateCanary(c) \/ \E a \in Audits, request \in CanaryRequests : GetFeatureRow(c, a, request)
  PROVE  RegistryInv'
<1>1. UNCHANGED <<row, req>> /\ canaries \subseteq canaries'
  BY DEF CreateCanary, GetFeatureRow
<1>2. TypeOK'
  <2>1. CASE CreateCanary(c)
    <3>1. intake[c] \in [audit : Audits, canary : Canary]
      BY <2>1 DEF CreateCanary, RegistryInv, TypeOK
    <3>2. /\ basis' \in [Audits -> Canary \cup {None}] /\ canaries' \subseteq Audits
      BY <2>1, <3>1 DEF CreateCanary, RegistryInv, TypeOK
    <3>3. \A d \in Curators : intake'[d] = None \/ intake'[d] = intake[d]
      BY <2>1 DEF CreateCanary, RegistryInv, TypeOK
    <3> QED BY <1>1, <3>2, <3>3 DEF RegistryInv, TypeOK
  <2>2. CASE \E a \in Audits, request \in CanaryRequests : GetFeatureRow(c, a, request)
    <3>1. PICK a \in Audits, request \in CanaryRequests, sample \in FeatureRows :
            intake' = [intake EXCEPT ![c] =
              [audit |-> a, canary |-> [request |-> request, sample |-> sample]]]
      BY <2>2 DEF GetFeatureRow
    <3>2. [audit |-> a, canary |-> [request |-> request, sample |-> sample]]
            \in [audit : Audits, canary : Canary]
      BY DEF Canary
    <3>3. \A d \in Curators :
            intake'[d] \in [audit : Audits, canary : Canary] \/ intake'[d] = intake[d]
      BY <3>1, <3>2 DEF RegistryInv, TypeOK
    <3>4. UNCHANGED <<canaries, basis>>
      BY <2>2 DEF GetFeatureRow
    <3> QED BY <1>1, <3>3, <3>4 DEF RegistryInv, TypeOK
  <2> QED BY <2>1, <2>2
<1>3. Covered' /\ \A r \in Admins : ReqInv(r)'
  BY <1>1 DEF RegistryInv, Covered, ReqInv
<1> QED BY <1>2, <1>3 DEF RegistryInv

-----------------------------------------------------------------------------
Inv == RegistryInv /\ \A r \in Admins : RegisterInv(r)

LEMMA RegisterStep ==
  ASSUME Inv, [Next]_vars
  PROVE  \A r \in Admins : RegisterInv(r)'
<1> SUFFICES ASSUME NEW s \in Admins, ~RegisterInv(s)' PROVE FALSE
  OBVIOUS
<1>1. req \in [Admins -> ReqType] /\ RegisterInv(s)
  BY DEF Inv, RegistryInv, TypeOK, ReqType
<1>2. PICK r \in Admins :
    \/ \E v \in Versions :
         BeginPromote(r, v) \/ \E report \in Reports : BeginRegister(r, v, report)
    \/ CommitRegister(r) \/ ListCanaries(r) \/ CheckGates(r) \/ BeginPromoteTx(r)
    \/ CommitPromote(r)
  BY <1>1 DEF Next, vars, RegisterInv, CreateCanary, GetFeatureRow
<1>3. \/ req' = req
      \/ \E next : /\ req' = [req EXCEPT ![r] = next]
                   /\ next.op = "register" => next.mv.role = "challenger"
  <2>0. ASSUME NEW pc, End(r, pc)
        PROVE  \E next : /\ req' = [req EXCEPT ![r] = next]
                         /\ next.op = "register" => next.mv.role = "challenger"
    <3> DEFINE next == [NoRequest EXCEPT !.pc = pc]
    <3>1. next.op = "none" /\ req' = [req EXCEPT ![r] = next]
      BY <2>0 DEF End, NoRequest
    <3> HIDE DEF next
    <3> QED BY <3>1
  <2>1. CASE \E v \in Versions : \E report \in Reports : BeginRegister(r, v, report)
    <3>1. PICK v \in Versions, report \in Reports : BeginRegister(r, v, report)
      BY <2>1
    <3> DEFINE mv == [role |-> "challenger", promoted |-> FALSE, earned |-> "never",
                      report |-> report]
               next == [NoRequest EXCEPT !.op = "register", !.pc = "commit", !.version = v,
                          !.mv = mv, !.challengers = With("challenger") \ {v}]
    <3>2. mv.role = "challenger"
      OBVIOUS
    <3>3. req' = [req EXCEPT ![r] = next]
      BY <3>1 DEF BeginRegister
    <3> HIDE DEF mv
    <3>4. next.mv = mv
      BY DEF NoRequest
    <3> HIDE DEF next
    <3> QED BY <3>2, <3>3, <3>4
  <2>2. CASE \E v \in Versions : BeginPromote(r, v)
    <3>1. PICK v \in Versions : BeginPromote(r, v)
      BY <2>2
    <3>2. CASE \E pc : End(r, pc)
      BY <2>0, <3>2
    <3>3. CASE req' = [req EXCEPT ![r] = [NoRequest EXCEPT
               !.op = "promote", !.version = v, !.mv = GetModelVersion(v),
               !.pc = IF IsRollback(row[v]) THEN "begin" ELSE "canaries"]]
      <4> DEFINE next == [NoRequest EXCEPT
               !.op = "promote", !.version = v, !.mv = GetModelVersion(v),
               !.pc = IF IsRollback(row[v]) THEN "begin" ELSE "canaries"]
      <4>1. next.op = "promote" /\ req' = [req EXCEPT ![r] = next]
        BY <3>3 DEF NoRequest
      <4> HIDE DEF next
      <4> QED BY <4>1
    <3> QED BY <3>1, <3>2, <3>3 DEF BeginPromote
  <2>3. CASE CommitRegister(r) \/ CommitPromote(r)
    <3>1. \E pc : End(r, pc)
      BY <2>3 DEF CommitRegister, CommitPromote
    <3> QED BY <2>0, <3>1
  <2>4. CASE ListCanaries(r) \/ BeginPromoteTx(r)
    BY <1>1, <2>4 DEF ListCanaries, BeginPromoteTx, At, ReqType
  <2>5. CASE CheckGates(r)
    <3>1. CASE \E pc : End(r, pc)
      BY <2>0, <3>1
    <3>2. CASE Goto(r, "begin")
      <4> DEFINE next == [req[r] EXCEPT !.pc = "begin"]
      <4>1. next.op = "promote" /\ req' = [req EXCEPT ![r] = next]
        BY <1>1, <2>5, <3>2 DEF CheckGates, Goto, At, ReqType
      <4> HIDE DEF next
      <4> QED BY <4>1
    <3> QED BY <2>5, <3>1, <3>2 DEF CheckGates
  <2> QED BY <1>2, <2>1, <2>2, <2>3, <2>4, <2>5
<1> QED BY <1>1, <1>3 DEF RegisterInv

LEMMA InvariantHolds == Spec => []Inv
<1>1. Init => Inv
  <2> SUFFICES ASSUME Init PROVE Inv
    OBVIOUS
  <2>1. TypeOK
    BY NoRequestType DEF Init, TypeOK, ReqType, NoRow
  <2> QED BY <2>1 DEF Init, Inv, RegistryInv, RegisterInv, ReqInv, Covered,
            NoRow, NoRequest, Free
<1>2. Inv /\ [Next]_vars => Inv'
  <2> SUFFICES ASSUME Inv, [Next]_vars PROVE Inv'
    OBVIOUS
  <2>1. CASE UNCHANGED vars
    BY <2>1 DEF vars, Inv, RegistryInv, RegisterInv, ReqInv, TypeOK, Covered
  <2>2. CASE Next
    <3>1. RegistryInv'
      BY <2>2, BeginPromoteInv, BeginRegisterInv, CommitRegisterInv, ReadInv, CheckGatesInv,
         CommitPromoteInv, CanaryStepInv DEF Inv, Next
    <3> QED BY <3>1, RegisterStep DEF Inv
  <2> QED BY <2>1, <2>2
<1> QED BY <1>1, <1>2, PTL DEF Spec

\* Every variable keeps its type, and a champion always carries the time of its
\* promotion, which a later rollback relies on.
THEOREM RegistryTypes == Spec => []TypeOK
<1>1. Inv => TypeOK
  BY DEF Inv, RegistryInv
<1> QED BY <1>1, InvariantHolds, PTL

\* What curators have read, and every canary made of it, has passed the checks.
CanariesInv ==
  /\ \A c \in Curators : intake[c] # None => Anchored(intake[c].canary)
  /\ \A a \in canaries : Anchored(basis[a])

LEMMA CanariesStep ==
  ASSUME Inv, CanariesInv, [Next]_vars
  PROVE  CanariesInv'
<1>0. TypeOK
  BY DEF Inv, RegistryInv
<1>1. CASE UNCHANGED <<canaries, basis, intake>>
  BY <1>1 DEF CanariesInv
<1>2. ASSUME NEW c \in Curators, CreateCanary(c) PROVE CanariesInv'
  <2>1. \A d \in Curators : intake'[d] # None => intake'[d] = intake[d]
    BY <1>2 DEF CreateCanary
  <2>2. \A a \in canaries' : Anchored(basis'[a])
    <3>1. CASE UNCHANGED <<canaries, basis>>
      BY <3>1 DEF CanariesInv
    <3>2. CASE /\ canaries' = canaries \cup {intake[c].audit}
               /\ basis' = [basis EXCEPT ![intake[c].audit] = intake[c].canary]
      <4>1. intake[c] # None /\ intake[c] \in [audit : Audits, canary : Canary]
        BY <1>0, <1>2 DEF CreateCanary, TypeOK
      <4>2. intake[c].audit \in Audits /\ Anchored(intake[c].canary)
        BY <4>1 DEF CanariesInv
      <4>3. basis'[intake[c].audit] = intake[c].canary
        BY <1>0, <3>2, <4>2 DEF TypeOK
      <4>4. \A a \in canaries : basis'[a] = basis[a] \/ a = intake[c].audit
        BY <1>0, <3>2 DEF TypeOK
      <4> QED BY <3>2, <4>2, <4>3, <4>4 DEF CanariesInv
    <3> QED BY <1>2, <3>1, <3>2 DEF CreateCanary
  <2> QED BY <2>1, <2>2 DEF CanariesInv
<1>3. ASSUME NEW c \in Curators, NEW b \in Audits, NEW request \in CanaryRequests,
             GetFeatureRow(c, b, request)
      PROVE  CanariesInv'
  <2>1. PICK sample \in FeatureRows :
          /\ ValidateCanaryProvenance(request, sample)
          /\ intake' = [intake EXCEPT ![c] =
               [audit |-> b, canary |-> [request |-> request, sample |-> sample]]]
    BY <1>3 DEF GetFeatureRow
  <2>2. Anchored([request |-> request, sample |-> sample])
    BY <1>3, <2>1 DEF GetFeatureRow, Anchored, ValidateCanaryGroundTruth,
                      ValidateCanaryProvenance
  <2>3. \A d \in Curators : \/ intake'[d] = intake[d]
                            \/ intake'[d].canary = [request |-> request, sample |-> sample]
    BY <2>1
  <2>4. UNCHANGED <<canaries, basis>>
    BY <1>3 DEF GetFeatureRow
  <2> QED BY <2>2, <2>3, <2>4 DEF CanariesInv
<1>4. UNCHANGED <<canaries, basis, intake>>
      \/ \E c \in Curators :
           \/ CreateCanary(c)
           \/ \E a \in Audits, request \in CanaryRequests : GetFeatureRow(c, a, request)
  BY DEF Next, vars, BeginPromote, BeginRegister, CommitRegister, ListCanaries, CheckGates,
         BeginPromoteTx, CommitPromote
<1> QED BY <1>1, <1>2, <1>3, <1>4

\* No version is ever promoted while a model has no canary that was built from a
\* live pull: the canaries and the champion are read in two statements and used in
\* a third, and this survives any number of promotions, rollbacks and registrations
\* in between.
THEOREM FirstChampionIsCovered == Spec => []FirstChampionHasCanary
<1>1. Init => CanariesInv
  BY DEF Init, CanariesInv
<1>2. Inv /\ CanariesInv /\ [Next]_vars => CanariesInv'
  BY CanariesStep
<1>3. Inv /\ CanariesInv => FirstChampionHasCanary
  BY DEF Inv, RegistryInv, Covered, CanariesInv, FirstChampionHasCanary
<1> QED BY <1>1, <1>2, <1>3, InvariantHolds, PTL DEF Spec

\* The champion is archived only in the step that installs its successor.
THEOREM ChampionHasSuccessor == Spec => ArchivedIsReplaced
<1>1. ASSUME Inv, [Next]_vars, NEW v \in Versions,
             row[v].role = "champion", row'[v].role = "archived"
      PROVE  \E w \in Versions : row'[w].role = "champion"
  <2>1. TypeOK /\ row \in [Versions -> Row] /\ \A r \in Admins : RegisterInv(r) /\ ReqInv(r)
    BY <1>1 DEF Inv, RegistryInv, TypeOK
  <2>2. row' # row
    BY <1>1
  <2>3. PICK r \in Admins : CommitRegister(r) \/ CheckGates(r) \/ CommitPromote(r)
    BY <1>1, <2>2 DEF Next, vars, BeginPromote, BeginRegister, ListCanaries, BeginPromoteTx,
                      CreateCanary, GetFeatureRow
  <2>4. CASE CommitRegister(r)
    <3>1. req[r].mv.role = "challenger"
      BY <2>1, <2>4 DEF CommitRegister, At, RegisterInv
    <3>2. \/ row'[v] = Registered(row[v], req[r].mv)
          \/ row'[v] = [row[v] EXCEPT !.role = "rejected"]
          \/ row'[v] = row[v]
      BY <2>4 DEF CommitRegister
    <3>3. req[r].mv \in Row /\ row[v] \in Row
      BY <2>1 DEF TypeOK
    <3>4. Registered(row[v], req[r].mv).role = "challenger"
      BY <3>1, <3>3, RegisteredType
    <3> QED BY <1>1, <3>2, <3>3, <3>4 DEF Row
  <2>5. CASE CheckGates(r)
    <3>1. row' = Earned(req[r].version, req[r].mv.report)
      BY <2>2, <2>5 DEF CheckGates
    <3>2. row'[v].role = row[v].role
      BY <2>1, <3>1 DEF Earned, Row
    <3> QED BY <1>1, <3>2
  <2>6. CASE CommitPromote(r)
    <3>1. row' = PromotedRoles(req[r].version, ArchivedBy(r)) /\ req[r].version \in Versions
      BY <2>1, <2>2, <2>6 DEF CommitPromote, At, ReqInv, Free
    <3>2. row'[req[r].version].role = "champion"
      BY <2>1, <3>1 DEF PromotedRoles, Row
    <3> QED BY <3>1, <3>2
  <2> QED BY <2>3, <2>4, <2>5, <2>6
<1>2. Inv /\ [Next]_vars
        => [(\E v \in Versions : row[v].role = "champion" /\ row'[v].role = "archived")
              => \E w \in Versions : row'[w].role = "champion"]_vars
  BY <1>1
<1> QED BY <1>2, InvariantHolds, PTL DEF Spec, ArchivedIsReplaced

\* A version whose promotion is past its checks, or that was promoted before, has
\* passed them once: nothing takes that back, not even a new registration.
Passed(v) == row[v].earned # "never"

PassedInv ==
  /\ PromotedHavePassed
  /\ \A r \in Admins :
       req[r].op = "promote" /\ req[r].pc \in {"begin", "commit"} => Passed(req[r].version)

\* What a step makes of the rows: those that passed stay so, and a version that is
\* promoted now was promoted before or its promotion was past the checks.
LEMMA PassedStays ==
  ASSUME Inv, [Next]_vars, NEW v \in Versions
  PROVE  /\ Passed(v) => Passed(v)'
         /\ row'[v].promoted =>
              \/ row[v].promoted
              \/ \E r \in Admins : req[r].version = v /\ At(r, "promote", "commit")
<1>0. row \in [Versions -> Row] /\ \A r \in Admins : req[r] \in ReqType /\ ReqInv(r)
  BY DEF Inv, RegistryInv, TypeOK, ReqType
<1>1. CASE row' = row
  BY <1>1 DEF Passed
<1>2. ASSUME NEW r \in Admins, CommitRegister(r)
      PROVE  row'[v].promoted = row[v].promoted /\ (Passed(v) => Passed(v)')
  <2>1. \/ row' = row
        \/ row'[v] \in {Registered(row[v], req[r].mv), [row[v] EXCEPT !.role = "rejected"], row[v]}
    BY <1>2 DEF CommitRegister
  <2>2. Registered(row[v], req[r].mv).promoted = row[v].promoted
        /\ (Passed(v) => Registered(row[v], req[r].mv).earned # "never")
    BY <1>0 DEF Registered, ReqType, Row, Passed
  <2>3. [row[v] EXCEPT !.role = "rejected"].promoted = row[v].promoted
        /\ [row[v] EXCEPT !.role = "rejected"].earned = row[v].earned
    BY <1>0 DEF Row
  <2> QED BY <2>1, <2>2, <2>3 DEF Passed
<1>3. ASSUME NEW r \in Admins, CheckGates(r)
      PROVE  row'[v].promoted = row[v].promoted /\ (Passed(v) => Passed(v)')
  BY <1>0, <1>3 DEF CheckGates, Earned, Passed, Row
<1>4. ASSUME NEW r \in Admins, CommitPromote(r), row' # row
      PROVE  /\ Passed(v) => Passed(v)'
             /\ row'[v].promoted => row[v].promoted \/ req[r].version = v
  <2>1. row' = PromotedRoles(req[r].version, ArchivedBy(r))
    BY <1>4 DEF CommitPromote
  <2> QED BY <1>0, <2>1 DEF PromotedRoles, Passed, Row
<1>5. row' # row => \E r \in Admins : CommitRegister(r) \/ CheckGates(r) \/ CommitPromote(r)
  BY DEF Next, vars, BeginPromote, BeginRegister, ListCanaries, BeginPromoteTx,
         CreateCanary, GetFeatureRow
<1>6. \A r \in Admins : CommitPromote(r) => At(r, "promote", "commit")
  BY DEF CommitPromote
<1> QED BY <1>1, <1>2, <1>3, <1>4, <1>5, <1>6

\* A promotion gets past its checks through the gates, or as a rollback to a
\* version that was promoted before.
LEMMA ChecksPassed ==
  ASSUME Inv, PassedInv, [Next]_vars, NEW r \in Admins,
         req'[r].op = "promote", req'[r].pc \in {"begin", "commit"}
  PROVE  row'[req'[r].version].earned # "never"
<1>0. /\ row \in [Versions -> Row] /\ req \in [Admins -> ReqType]
      /\ req[r] \in ReqType /\ ReqInv(r)
  BY DEF Inv, RegistryInv, TypeOK, ReqType
<1>1. CASE /\ req'[r].version = req[r].version
           /\ req[r].op = "promote" /\ req[r].pc \in {"begin", "commit"}
  <2>1. req[r].version \in Versions /\ Passed(req[r].version)
    BY <1>0, <1>1 DEF PassedInv, ReqInv, Free
  <2> QED BY <1>1, <2>1, PassedStays DEF Passed
<1>2. CASE req'[r] = req[r]
  BY <1>1, <1>2
<1>3. ASSUME NEW v \in Versions, BeginPromote(r, v) PROVE row'[req'[r].version].earned # "never"
  <2>1. \A pc : ~End(r, pc)
    BY <1>0 DEF End, NoRequest
  <2> DEFINE pc == IF IsRollback(row[v]) THEN "begin" ELSE "canaries"
             next == [NoRequest EXCEPT !.op = "promote", !.version = v, !.mv = GetModelVersion(v),
                        !.pc = pc]
  <2>2. next.pc = pc /\ next.version = v
    BY DEF NoRequest
  <2>3. req' = [req EXCEPT ![r] = next]
    BY <1>3, <2>1 DEF BeginPromote
  <2> HIDE DEF next
  <2>4. req'[r] = next
    BY <1>0, <2>3
  <2>5. row[v].promoted
    BY <2>2, <2>4 DEF IsRollback
  <2> HIDE DEF pc
  <2>6. Passed(v)
    BY <2>5 DEF PassedInv, PromotedHavePassed, Passed
  <2> QED BY <2>2, <2>4, <2>6, PassedStays DEF Passed
<1>4. ASSUME CheckGates(r) PROVE row'[req'[r].version].earned # "never"
  <2>1. \A pc : ~End(r, pc)
    BY <1>0 DEF End, NoRequest
  <2>2. Goto(r, "begin") /\ row' = Earned(req[r].version, req[r].mv.report)
    BY <1>4, <2>1 DEF CheckGates
  <2>3. req[r].version \in Versions /\ req'[r].version = req[r].version
    BY <1>0, <1>4, <2>2 DEF CheckGates, At, Goto, ReqInv, Free, ReqType
  <2> QED BY <1>0, <2>2, <2>3 DEF Earned, Passed, Row
<1>5. ASSUME BeginPromoteTx(r) PROVE row'[req'[r].version].earned # "never"
  BY <1>0, <1>1, <1>5 DEF BeginPromoteTx, At, ReqType
<1>6. ASSUME NEW v \in Versions, NEW report \in Reports, BeginRegister(r, v, report) PROVE FALSE
  <2> DEFINE next == [NoRequest EXCEPT
       !.op = "register", !.pc = "commit", !.version = v,
       !.mv = [role |-> "challenger", promoted |-> FALSE, earned |-> "never", report |-> report],
       !.challengers = With("challenger") \ {v}]
  <2>1. next.op = "register" /\ req' = [req EXCEPT ![r] = next]
    BY <1>6 DEF BeginRegister, NoRequest
  <2> HIDE DEF next
  <2> QED BY <1>0, <2>1
<1>7. ~ListCanaries(r) /\ ~CommitRegister(r) /\ ~CommitPromote(r)
  <2>1. \A pc : ~End(r, pc)
    BY <1>0 DEF End, NoRequest
  <2>2. ~ListCanaries(r)
    BY <1>0 DEF ListCanaries, ReqType
  <2> QED BY <2>1, <2>2 DEF CommitRegister, CommitPromote
<1>8. \/ req'[r] = req[r]
      \/ \E v \in Versions :
           BeginPromote(r, v) \/ \E report \in Reports : BeginRegister(r, v, report)
      \/ CommitRegister(r) \/ ListCanaries(r) \/ CheckGates(r) \/ BeginPromoteTx(r)
      \/ CommitPromote(r)
  <2>1. ASSUME NEW q \in Admins \ {r}, NEW next, req' = [req EXCEPT ![q] = next]
        PROVE  req'[r] = req[r]
    BY <1>0, <2>1
  <2>2. ASSUME NEW q \in Admins \ {r},
               \/ \E v \in Versions :
                    BeginPromote(q, v) \/ \E report \in Reports : BeginRegister(q, v, report)
               \/ CommitRegister(q) \/ ListCanaries(q) \/ CheckGates(q) \/ BeginPromoteTx(q)
               \/ CommitPromote(q)
        PROVE  req'[r] = req[r]
    <3>1. \A pc : End(q, pc) => req'[r] = req[r]
      BY <2>1 DEF End
    <3>2. CASE \E v \in Versions :
                 BeginPromote(q, v) \/ \E report \in Reports : BeginRegister(q, v, report)
      BY <2>1, <3>1, <3>2 DEF BeginPromote, BeginRegister
    <3>3. CASE ListCanaries(q) \/ BeginPromoteTx(q)
      BY <1>0, <3>3 DEF ListCanaries, BeginPromoteTx
    <3>4. CASE CheckGates(q)
      BY <1>0, <3>1, <3>4 DEF CheckGates, Goto
    <3>5. CASE CommitRegister(q) \/ CommitPromote(q)
      BY <3>1, <3>5 DEF CommitRegister, CommitPromote
    <3> QED BY <2>2, <3>2, <3>3, <3>4, <3>5
  <2>3. ASSUME NEW c \in Curators, CreateCanary(c) \/ \E a \in Audits, request \in CanaryRequests :
                                    GetFeatureRow(c, a, request)
        PROVE  req'[r] = req[r]
    BY <2>3 DEF CreateCanary, GetFeatureRow
  <2>4. CASE UNCHANGED vars
    BY <2>4 DEF vars
  <2> QED BY <2>2, <2>3, <2>4 DEF Next
<1> QED BY <1>2, <1>3, <1>4, <1>5, <1>6, <1>7, <1>8

\* No version serves that never passed the gates, for any overlap of promotions,
\* rollbacks and registrations.
THEOREM GatesWerePassed == Spec => []PromotedHavePassed
<1>1. Init => PassedInv
  BY DEF Init, PassedInv, PromotedHavePassed, NoRow, NoRequest
<1>2. Inv /\ PassedInv /\ [Next]_vars => PassedInv'
  <2> SUFFICES ASSUME Inv, PassedInv, [Next]_vars PROVE PassedInv'
    OBVIOUS
  <2>1. ASSUME NEW v \in Versions, row'[v].promoted PROVE row'[v].earned # "never"
    BY <2>1, PassedStays DEF PassedInv, PromotedHavePassed, Passed, At
  <2>2. PromotedHavePassed'
    BY <2>1 DEF PromotedHavePassed
  <2> QED BY <2>2, ChecksPassed DEF PassedInv, Passed
<1>3. PassedInv => PromotedHavePassed
  BY DEF PassedInv
<1> QED BY <1>1, <1>2, <1>3, InvariantHolds, PTL DEF Spec
=============================================================================
