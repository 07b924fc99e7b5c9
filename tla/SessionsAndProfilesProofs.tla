--------------------- MODULE SessionsAndProfilesProofs ---------------------
(***************************************************************************)
(* Theorems about two components that do not meet: the sessions of users   *)
(* (AuthSessions) and the profiles of influencers (Influencers), for any   *)
(* number of requests, accounts, profiles, writers and readers.            *)
(*                                                                         *)
(* Sessions: a rotation holds the lock of the token it presents, and what  *)
(* was known when reuse was noticed is revoked or about to be.             *)
(*                                                                         *)
(* Profiles: transactions under way hold different names, and two on one   *)
(* profile both know they overlap, so what an undisturbed one computed is  *)
(* still the band when it commits.  A reader has seen the list down to its *)
(* cursor, as far as its filter let it through all along; positions in the *)
(* list never change, so nothing moves across the cursor.                  *)
(***************************************************************************)
EXTENDS AuthSessions, Influencers, FiniteSetTheorems, SequenceTheorems, WellFoundedInduction,
        TLAPS

-----------------------------------------------------------------------------
(* SESSIONS *)

ReqType == [pc : {"idle"} \cup Steps \cup Answers,
            email : Emails \cup {None}, of : Requests \cup {None},
            picked : SUBSET Requests, late : BOOLEAN, known : SUBSET Requests]

\* What a record q of request r has to satisfy, whoever wrote it.
Presents(q) ==
  q.pc \in {"status", "rotate", "insert", "revoke"} => q.of \in Issued

IsLate(q) ==
  q.late => q.pc \in {"status", "revoke"} /\ account[q.email].status = "suspended"

Knows(q) ==
  /\ q.pc = "family" => \A s \in q.known : s \in Issued /\ req[s].email = q.email
  /\ q.pc = "revoking" => /\ q.picked \subseteq Issued
                          /\ \A s \in q.known : session[s] = "revoked" \/ s \in q.picked
  /\ q.pc = "reused" => \A s \in q.known : session[s] = "revoked"

\* A row is locked by one rotation at a time.
LockIsExclusive ==
  \A r, q \in Requests : req[r].pc = "insert" /\ req[q].pc = "insert" /\ req[r].of = req[q].of => r = q

\* The sign-in that a session goes back to has issued a session itself.
Rooted == \A s \in Issued : family[s] \in Issued

SessionInv ==
  /\ TypeOK
  /\ \A r \in Requests : Presents(req[r]) /\ IsLate(req[r]) /\ Knows(req[r])
  /\ LockIsExclusive
  /\ Rooted
  /\ OneLivePerFamily

\* A step of one request that leaves the sessions alone.
LEMMA RequestStep ==
  ASSUME SessionInv, NEW r \in Requests, NEW q \in ReqType,
         req' = [req EXCEPT ![r] = q],
         UNCHANGED <<session, expired, family>>,
         account' \in [Emails -> [status : Status, password : BOOLEAN]],
         \A e \in Emails : account[e].status = "suspended" => account'[e].status = "suspended",
         session[r] = "none", q.pc # "idle" => q.email \in Emails,
         Presents(q), Knows(q),
         q.late => q.pc \in {"status", "revoke"} /\ account'[q.email].status = "suspended",
         q.pc = "insert" => session[q.of] = "live" /\ ~Locked(q.of)
  PROVE  SessionInv'
<1>1. session' = session /\ expired' = expired /\ family' = family
  OBVIOUS
<1>2. Issued' = Issued /\ Live' = Live
  BY <1>1 DEF Issued, Live
<1>3. req \in [Requests -> ReqType] /\ req' \in [Requests -> ReqType]
  BY DEF SessionInv, TypeOK, ReqType
<1>4. \A p \in Requests : req'[p] = IF p = r THEN q ELSE req[p]
  BY <1>3
<1>5. TypeOK'
  <2>1. \A p \in Requests : req'[p].pc # "idle" => req'[p].email \in Emails
    BY <1>4 DEF SessionInv, TypeOK
  <2>2. \A p \in Requests :
          req'[p].pc = "insert" => req'[p].of # None /\ session[req'[p].of] = "live"
    <3>1. q.pc = "insert" => q.of # None
      BY AuthAssumption DEF Presents, Issued, AuthAssumption
    <3> QED BY <1>4, <3>1 DEF SessionInv, TypeOK
  <2>3. \A p \in Requests : session[p] # "none" => req'[p].pc = "ok" /\ family[p] \in Requests
    BY <1>4 DEF SessionInv, TypeOK
  <2> QED BY <1>1, <1>3, <2>1, <2>2, <2>3 DEF SessionInv, TypeOK, ReqType
<1>6. ASSUME NEW p \in Requests
      PROVE  Presents(req[p])' /\ IsLate(req[p])' /\ Knows(req[p])'
  <2>1. Presents(req[p])'
    BY <1>2, <1>4 DEF SessionInv, Presents
  <2>2. IsLate(req[p])'
    <3>1. req[p].pc # "idle" => req[p].email \in Emails
      BY DEF SessionInv, TypeOK
    <3> QED BY <1>4, <3>1 DEF SessionInv, IsLate
  <2>3. \A s \in Issued : req'[s].email = req[s].email
    BY <1>4 DEF Issued
  <2>4. Knows(req[p])'
    <3>1. Knows(req'[p])
      BY <1>4 DEF SessionInv
    <3> QED BY <1>1, <1>2, <2>3, <3>1 DEF Knows
  <2> QED BY <2>1, <2>2, <2>4
<1>7. LockIsExclusive'
  BY <1>4 DEF SessionInv, LockIsExclusive, Locked
<1>8. Rooted' /\ OneLivePerFamily'
  BY <1>1, <1>2 DEF SessionInv, Rooted, OneLivePerFamily
<1> QED BY <1>5, <1>6, <1>7, <1>8 DEF SessionInv

\* A request that has not been answered with a session has none.
LEMMA Sessionless ==
  ASSUME SessionInv, NEW r \in Requests, req[r].pc # "ok"
  PROVE  session[r] = "none"
BY DEF SessionInv, TypeOK

LEMMA DoneInv ==
  ASSUME SessionInv, NEW r \in Requests, NEW e \in Emails, Done(r, e), req[r].pc # "ok",
         UNCHANGED <<account, session, expired, family>>
  PROVE  SessionInv'
<1> DEFINE q == [NoRequest EXCEPT !.pc = "done", !.email = e]
<1>1. q \in ReqType /\ q.pc = "done" /\ q.email = e /\ ~q.late
  BY DEF NoRequest, ReqType, Answers
<1>2. req' = [req EXCEPT ![r] = q]
  BY DEF Done
<1> HIDE DEF q
<1>3. Presents(q) /\ Knows(q) /\ session[r] = "none"
  BY <1>1, Sessionless DEF Presents, Knows
<1>4. account' \in [Emails -> [status : Status, password : BOOLEAN]] /\ account' = account
  BY DEF SessionInv, TypeOK
<1> QED BY <1>1, <1>2, <1>3, <1>4, RequestStep

\* A request that changes to another step.
LEMMA GotoInv ==
  ASSUME SessionInv, NEW r \in Requests, NEW pc \in Steps, Goto(r, pc),
         req[r].pc \notin {"ok", "idle"},
         pc \notin {"family", "revoking"},
         UNCHANGED <<session, expired, family>>,
         account' \in [Emails -> [status : Status, password : BOOLEAN]],
         \A e \in Emails : account[e].status = "suspended" => account'[e].status = "suspended",
         pc \in {"status", "rotate", "insert", "revoke"} => req[r].of \in Issued,
         pc = "insert" => session[req[r].of] = "live" /\ ~Locked(req[r].of),
         req[r].late => pc = "revoke"
  PROVE  SessionInv'
<1> DEFINE q == [req[r] EXCEPT !.pc = pc]
<1>1. req[r] \in ReqType
  BY DEF SessionInv, TypeOK, ReqType
<1>2. /\ q \in ReqType /\ q.pc = pc /\ q.email = req[r].email /\ q.of = req[r].of
      /\ q.late = req[r].late
  BY <1>1 DEF ReqType
<1>3. req' = [req EXCEPT ![r] = q]
  BY DEF Goto
<1> HIDE DEF q
<1>4. q.email \in Emails /\ session[r] = "none"
  BY <1>2, Sessionless DEF SessionInv, TypeOK
<1>5. Presents(q) /\ Knows(q)
  BY <1>2 DEF Presents, Knows, Steps
<1>6. q.late => account'[q.email].status = "suspended"
  BY <1>2, <1>4 DEF SessionInv, IsLate
<1> QED BY <1>2, <1>3, <1>4, <1>5, <1>6, RequestStep
LEMMA ArriveInv ==
  ASSUME SessionInv, NEW r \in Requests, NEW e \in Emails, NEW of \in Requests \cup {None},
         NEW pc \in {"start", "issue", "create", "status", "revoke"},
         Arrive(r, e, of, pc),
         UNCHANGED <<session, expired, family>>,
         account' \in [Emails -> [status : Status, password : BOOLEAN]],
         \A f \in Emails : account[f].status = "suspended" => account'[f].status = "suspended",
         pc \in {"status", "revoke"} => of \in Issued,
         account[e].status = "suspended" => pc \in {"status", "revoke"}
  PROVE  SessionInv'
<1> DEFINE q == [NoRequest EXCEPT !.email = e, !.of = of, !.pc = pc,
                                  !.late = account[e].status = "suspended"]
<1>1. /\ q \in ReqType /\ q.pc = pc /\ q.email = e /\ q.of = of
      /\ q.late = (account[e].status = "suspended")
  BY DEF NoRequest, ReqType, Steps
<1>2. req' = [req EXCEPT ![r] = q] /\ req[r].pc = "idle"
  BY DEF Arrive
<1> HIDE DEF q
<1>3. Presents(q) /\ Knows(q) /\ session[r] = "none"
  BY <1>1, <1>2, Sessionless DEF Presents, Knows
<1> QED BY <1>1, <1>2, <1>3, RequestStep

LEMMA ReuseInv ==
  ASSUME SessionInv, NEW r \in Requests, NEW e \in Emails, Reuse(r, e), req[r].pc # "ok",
         UNCHANGED <<account, session, expired, family>>
  PROVE  SessionInv'
<1> DEFINE q == [NoRequest EXCEPT !.pc = "family", !.email = e, !.known = SessionsOf(e)]
<1>1. /\ q \in ReqType /\ q.pc = "family" /\ q.email = e /\ ~q.late
      /\ q.known = SessionsOf(e)
  BY DEF NoRequest, ReqType, Steps, SessionsOf, Issued
<1>2. req' = [req EXCEPT ![r] = q]
  BY DEF Reuse
<1> HIDE DEF q
<1>3. Presents(q) /\ Knows(q) /\ session[r] = "none"
  BY <1>1, Sessionless DEF Presents, Knows, SessionsOf
<1>4. account' \in [Emails -> [status : Status, password : BOOLEAN]] /\ account' = account
  BY DEF SessionInv, TypeOK
<1> QED BY <1>1, <1>2, <1>3, <1>4, RequestStep

LEMMA CreateUserType ==
  ASSUME SessionInv, NEW e \in Emails, NEW p \in BOOLEAN, CreateUser(e, p)
  PROVE  /\ account' \in [Emails -> [status : Status, password : BOOLEAN]]
         /\ \A f \in Emails : account[f].status = "suspended" => account'[f].status = "suspended"
         /\ account[e].status = "none"
BY DEF SessionInv, TypeOK, CreateUser, Status

\* Registering, signing up and logging in.
LEMMA SignInInv ==
  ASSUME SessionInv, NEW r \in Requests, NEW e \in Emails,
         Register(r, e) \/ Login(r, e) \/ ProvisionSocialUser(r, e)
  PROVE  SessionInv'
<1>1. account \in [Emails -> [status : Status, password : BOOLEAN]]
  BY DEF SessionInv, TypeOK
<1>2. CASE Register(r, e)
  <2>1. CASE CreateUser(e, TRUE) /\ Arrive(r, e, None, "start")
    BY <1>2, <2>1, CreateUserType, ArriveInv DEF Register
  <2>2. CASE req[r].pc = "idle" /\ Done(r, e) /\ UNCHANGED account
    BY <1>2, <2>2, DoneInv DEF Register
  <2> QED BY <1>2, <2>1, <2>2 DEF Register
<1>3. CASE Login(r, e)
  <2>1. CASE account[e].status = "active" /\ Arrive(r, e, None, "start")
    BY <1>1, <1>3, <2>1, ArriveInv DEF Login
  <2>2. CASE req[r].pc = "idle" /\ Done(r, e)
    BY <1>3, <2>2, DoneInv DEF Login
  <2> QED BY <1>3, <2>1, <2>2 DEF Login
<1>4. CASE ProvisionSocialUser(r, e)
  <2>1. CASE account[e].status = "active" /\ Arrive(r, e, None, "issue")
    BY <1>1, <1>4, <2>1, ArriveInv DEF ProvisionSocialUser
  <2>2. CASE account[e].status = "none" /\ Arrive(r, e, None, "create")
    BY <1>1, <1>4, <2>2, ArriveInv DEF ProvisionSocialUser
  <2>3. CASE req[r].pc = "idle" /\ Done(r, e)
    BY <1>4, <2>3, DoneInv DEF ProvisionSocialUser
  <2> QED BY <1>4, <2>1, <2>2, <2>3 DEF ProvisionSocialUser
<1> QED BY <1>2, <1>3, <1>4

\* A late request is waiting for its status or for the revocation of its session.
LEMMA LateSteps ==
  ASSUME SessionInv, NEW r \in Requests
  PROVE  /\ req[r].late => req[r].pc \in {"status", "revoke"}
         /\ req[r].pc # "idle" => req[r].email \in Emails
         /\ req[r].late => account[req[r].email].status = "suspended"
         /\ req[r].pc \in {"status", "rotate", "insert", "revoke"} => req[r].of \in Issued
         /\ account \in [Emails -> [status : Status, password : BOOLEAN]]
BY DEF SessionInv, TypeOK, IsLate, Presents

LEMMA SocialInv ==
  ASSUME SessionInv, NEW r \in Requests, CreateSocialUser(r) \/ IssueSession(r)
  PROVE  SessionInv'
<1>1. CASE CreateSocialUser(r)
  <2>1. req[r].pc = "create" /\ Goto(r, "issue") /\ UNCHANGED <<session, expired, family>>
    BY <1>1 DEF CreateSocialUser
  <2>2. req[r].email \in Emails /\ ~req[r].late
    BY <2>1, LateSteps
  <2>3. /\ account' \in [Emails -> [status : Status, password : BOOLEAN]]
        /\ \A f \in Emails : account[f].status = "suspended" => account'[f].status = "suspended"
    BY <1>1, <2>2, CreateUserType, LateSteps DEF CreateSocialUser
  <2> QED BY <2>1, <2>2, <2>3, GotoInv DEF Steps
<1>2. CASE IssueSession(r)
  <2>1. req[r].pc = "issue" /\ UNCHANGED <<account, session, expired, family>>
    BY <1>2 DEF IssueSession
  <2>2. req[r].email \in Emails /\ ~req[r].late
    BY <2>1, LateSteps
  <2>3. CASE Goto(r, "start")
    BY <2>1, <2>2, <2>3, LateSteps, GotoInv DEF Steps
  <2>4. CASE Done(r, req[r].email)
    BY <2>1, <2>2, <2>4, DoneInv
  <2> QED BY <1>2, <2>3, <2>4 DEF IssueSession
<1> QED BY <1>1, <1>2

LEMMA RefreshInv ==
  ASSUME SessionInv, NEW r \in Requests, NEW s \in Requests, Refresh(r, s) \/ Logout(r, s)
  PROVE  SessionInv'
<1>1. /\ s \in Issued /\ req[r].pc = "idle"
      /\ UNCHANGED <<account, session, expired, family>>
  BY DEF Refresh, Logout, Issued, Arrive
<1>2. req[s].email \in Emails
  BY <1>1 DEF SessionInv, TypeOK, Issued
<1>3. account \in [Emails -> [status : Status, password : BOOLEAN]]
  BY DEF SessionInv, TypeOK
<1>4. CASE Arrive(r, req[s].email, s, "status")
  BY <1>1, <1>2, <1>3, <1>4, ArriveInv
<1>5. CASE Done(r, req[s].email)
  BY <1>1, <1>2, <1>5, DoneInv
<1>6. CASE Reuse(r, req[s].email)
  BY <1>1, <1>2, <1>6, ReuseInv
<1>7. CASE Arrive(r, req[s].email, s, "revoke")
  BY <1>1, <1>2, <1>3, <1>7, ArriveInv
<1> QED BY <1>4, <1>5, <1>6, <1>7 DEF Refresh, Logout

LEMMA CheckInv ==
  ASSUME SessionInv, NEW r \in Requests, CheckStatus(r) \/ RotateRevoke(r) \/ Abort(r)
  PROVE  SessionInv'
<1>1. UNCHANGED <<account, session, expired, family>> /\ req[r].pc \in Steps
  BY DEF CheckStatus, RotateRevoke, Abort, Steps
<1>2. req[r].email \in Emails /\ req[r].pc # "ok" /\ req[r].pc # "idle"
  BY <1>1, LateSteps DEF Steps
<1>3. CASE CheckStatus(r)
  <2>1. req[r].pc = "status" /\ req[r].of \in Issued
    BY <1>3, LateSteps DEF CheckStatus
  <2>2. CASE account[req[r].email].status = "active" /\ Goto(r, "rotate")
    BY <1>1, <1>2, <2>1, <2>2, LateSteps, GotoInv DEF Steps
  <2>3. CASE Goto(r, "revoke")
    BY <1>1, <1>2, <2>1, <2>3, LateSteps, GotoInv DEF Steps
  <2> QED BY <1>3, <2>2, <2>3 DEF CheckStatus
<1>4. CASE RotateRevoke(r)
  <2>1. req[r].pc = "rotate" /\ req[r].of \in Issued /\ ~Locked(req[r].of)
    BY <1>4, LateSteps DEF RotateRevoke
  <2>2. CASE session[req[r].of] = "live" /\ Goto(r, "insert")
    BY <1>1, <1>2, <2>1, <2>2, LateSteps, GotoInv DEF Steps
  <2>3. CASE Reuse(r, req[r].email)
    BY <1>1, <1>2, <2>3, ReuseInv
  <2> QED BY <1>4, <2>2, <2>3 DEF RotateRevoke
<1>5. CASE Abort(r)
  BY <1>1, <1>2, <1>5, DoneInv DEF Abort
<1> QED BY <1>3, <1>4, <1>5
LEMMA BeginRevokeInv ==
  ASSUME SessionInv, NEW r \in Requests, BeginRevokeUserSessions(r)
  PROVE  SessionInv'
<1> DEFINE q == [req[r] EXCEPT !.pc = "revoking", !.picked = RevokePicks(r)]
<1>1. /\ req[r] \in ReqType /\ req[r].pc = "family" /\ req[r].email \in Emails
      /\ RevokePicks(r) \subseteq Requests
      /\ UNCHANGED <<account, session, expired, family>>
  BY DEF SessionInv, TypeOK, ReqType, BeginRevokeUserSessions, RevokePicks, SessionsOf, Issued
<1>2. /\ q \in ReqType /\ q.pc = "revoking" /\ q.email = req[r].email
      /\ q.late = req[r].late /\ q.known = req[r].known /\ q.picked = RevokePicks(r)
      /\ req' = [req EXCEPT ![r] = q]
  BY <1>1 DEF ReqType, Steps, BeginRevokeUserSessions
<1> HIDE DEF q
<1>3. Knows(q)
  <2>1. \A s \in req[r].known : s \in Issued /\ req[s].email = req[r].email
    BY <1>1 DEF SessionInv, Knows
  <2>2. \A s \in req[r].known : session[s] = "revoked" \/ s \in RevokePicks(r)
    BY <2>1 DEF SessionInv, TypeOK, RevokePicks, SessionsOf, Issued, Live
  <2>3. RevokePicks(r) \subseteq Issued
    BY DEF RevokePicks, SessionsOf
  <2> QED BY <1>2, <2>2, <2>3 DEF Knows
<1>4. Presents(q) /\ ~q.late /\ session[r] = "none"
  BY <1>1, <1>2, LateSteps, Sessionless DEF Presents
<1>5. account' \in [Emails -> [status : Status, password : BOOLEAN]] /\ account' = account
  BY <1>1 DEF SessionInv, TypeOK
<1> QED BY <1>1, <1>2, <1>3, <1>4, <1>5, RequestStep

\* The steps that revoke sessions: none of them is locked, and the request ends.
LEMMA RevokeStep ==
  ASSUME SessionInv, NEW r \in Requests, NEW q \in ReqType, NEW S \in SUBSET Issued,
         req' = [req EXCEPT ![r] = q],
         session' = [s \in Requests |-> IF s \in S THEN "revoked" ELSE session[s]],
         \A s \in S : ~Locked(s),
         UNCHANGED <<account, expired, family>>,
         req[r].pc \in Steps, q.pc \in {"done", "reused"}, q.email \in Emails, ~q.late,
         q.pc = "reused" => \A s \in q.known : session'[s] = "revoked"
  PROVE  SessionInv'
<1>1. /\ req \in [Requests -> ReqType] /\ req' \in [Requests -> ReqType]
      /\ \A p \in Requests : req'[p] = IF p = r THEN q ELSE req[p]
      /\ session \in [Requests -> {"none", "live", "revoked"}]
  BY DEF SessionInv, TypeOK, ReqType
<1>2. /\ session' \in [Requests -> {"none", "live", "revoked"}]
      /\ Issued' = Issued /\ Live' \subseteq Live
      /\ \A s \in Requests : session[s] = "revoked" => session'[s] = "revoked"
      /\ \A s \in Requests : session'[s] = "live" <=> session[s] = "live" /\ s \notin S
  BY <1>1 DEF Issued, Live
<1>3. r \notin Issued
  BY Sessionless DEF Steps, Issued
<1>4. TypeOK'
  <2>1. \A p \in Requests : req'[p].pc # "idle" => req'[p].email \in Emails
    BY <1>1 DEF SessionInv, TypeOK
  <2>2. \A p \in Requests :
          req'[p].pc = "insert" => req'[p].of # None /\ session'[req'[p].of] = "live"
    <3> SUFFICES ASSUME NEW p \in Requests, req[p].pc = "insert", p # r
                 PROVE  req[p].of # None /\ session'[req[p].of] = "live"
      BY <1>1
    <3>1. req[p].of # None /\ req[p].of \in Requests /\ session[req[p].of] = "live"
      BY LateSteps DEF SessionInv, TypeOK, Issued
    <3>2. req[p].of \notin S
      BY DEF Locked
    <3> QED BY <1>2, <3>1, <3>2
  <2>3. \A p \in Requests : session'[p] # "none" => req'[p].pc = "ok" /\ family[p] \in Requests
    BY <1>1, <1>2, <1>3 DEF SessionInv, TypeOK, Issued
  <2> QED BY <1>1, <1>2, <2>1, <2>2, <2>3 DEF SessionInv, TypeOK, ReqType
<1>5. ASSUME NEW p \in Requests
      PROVE  Presents(req[p])' /\ IsLate(req[p])' /\ Knows(req[p])'
  <2>1. Presents(req[p])'
    BY <1>1, <1>2 DEF SessionInv, Presents
  <2>2. IsLate(req[p])'
    BY <1>1 DEF SessionInv, IsLate
  <2>3. \A s \in Issued : req'[s].email = req[s].email
    BY <1>1, <1>3 DEF Issued
  <2>4. ASSUME p = r PROVE Knows(req[p])'
    BY <1>1, <2>4 DEF Knows
  <2>5. ASSUME p # r PROVE Knows(req[p])'
    <3>1. req'[p] = req[p] /\ Knows(req[p]) /\ req[p].known \subseteq Requests
      BY <1>1, <2>5 DEF SessionInv, ReqType
    <3> QED BY <1>2, <2>3, <3>1 DEF Knows
  <2> QED BY <2>1, <2>2, <2>4, <2>5
<1>6. LockIsExclusive'
  BY <1>1 DEF SessionInv, LockIsExclusive
<1>7. Rooted' /\ OneLivePerFamily'
  BY <1>2 DEF SessionInv, Rooted, OneLivePerFamily
<1> QED BY <1>4, <1>5, <1>6, <1>7 DEF SessionInv

LEMMA RevokeInv ==
  ASSUME SessionInv, NEW r \in Requests, RevokeUserSessions(r) \/ RevokeSession(r)
  PROVE  SessionInv'
<1>1. CASE RevokeUserSessions(r)
  <2> DEFINE q == [req[r] EXCEPT !.pc = "reused", !.picked = {}]
  <2>1. /\ req[r].pc = "revoking" /\ req[r] \in ReqType /\ req[r].email \in Emails
        /\ UNCHANGED <<account, expired, family>>
        /\ \A s \in req[r].picked : ~Locked(s)
        /\ session' = [s \in Requests |-> IF s \in req[r].picked THEN "revoked" ELSE session[s]]
    <3>1. req[r].pc = "revoking" /\ req[r] \in ReqType /\ req[r].email \in Emails
      BY <1>1 DEF SessionInv, TypeOK, ReqType, RevokeUserSessions
    <3> QED BY <1>1, <3>1 DEF RevokeUserSessions
  <2>2. /\ q \in ReqType /\ q.pc = "reused" /\ q.email = req[r].email
        /\ q.late = req[r].late /\ q.known = req[r].known
        /\ req' = [req EXCEPT ![r] = q]
    BY <1>1, <2>1 DEF ReqType, Answers, RevokeUserSessions
  <2> HIDE DEF q
  <2>3. ~q.late
    BY <2>1, <2>2, LateSteps
  <2>4. /\ req[r].picked \in SUBSET Issued
        /\ \A s \in req[r].known : session[s] = "revoked" \/ s \in req[r].picked
    BY <2>1 DEF SessionInv, Knows
  <2>5. \A s \in q.known : session'[s] = "revoked"
    BY <2>1, <2>2, <2>4 DEF ReqType
  <2>6. req[r].pc \in Steps
    BY <2>1 DEF Steps
  <2> QED BY <2>1, <2>2, <2>3, <2>4, <2>5, <2>6, RevokeStep
<1>2. CASE RevokeSession(r)
  <2> DEFINE q == [NoRequest EXCEPT !.pc = "done", !.email = req[r].email]
             s == req[r].of
  <2>1. /\ req[r].pc = "revoke" /\ s \in Issued /\ req[r].email \in Emails
        /\ UNCHANGED <<account, expired, family>> /\ ~Locked(s)
        /\ session' = [session EXCEPT ![s] = "revoked"]
    BY <1>2, LateSteps DEF RevokeSession
  <2>2. /\ q \in ReqType /\ q.pc = "done" /\ q.email = req[r].email /\ ~q.late
        /\ req' = [req EXCEPT ![r] = q]
    BY <1>2, <2>1 DEF NoRequest, ReqType, Answers, RevokeSession, Done
  <2> HIDE DEF q
  <2>3. session' = [t \in Requests |-> IF t \in {s} THEN "revoked" ELSE session[t]]
    BY <2>1 DEF SessionInv, TypeOK
  <2> QED BY <2>1, <2>2, <2>3, RevokeStep DEF Steps
<1> QED BY <1>1, <1>2
\* The steps that issue session r in family c, taking the place of the sessions in S.
LEMMA IssueStep ==
  ASSUME SessionInv, NEW r \in Requests, NEW c \in Requests, NEW S \in SUBSET Issued,
         Goto(r, "ok"), req[r].pc \in Steps, ~req[r].late,
         session' = [s \in Requests |-> IF s = r THEN "live"
                                       ELSE IF s \in S THEN "revoked" ELSE session[s]],
         family' = [family EXCEPT ![r] = c],
         UNCHANGED <<account, expired>>,
         \A s \in S : \A p \in Requests : req[p].pc = "insert" /\ req[p].of = s => p = r,
         c = r \/ c \in Issued,
         \A s \in Live : family[s] = c => s \in S
  PROVE  SessionInv'
<1> DEFINE q == [req[r] EXCEPT !.pc = "ok"]
<1>1. /\ req \in [Requests -> ReqType] /\ req[r] \in ReqType
      /\ session \in [Requests -> {"none", "live", "revoked"}]
      /\ family \in [Requests -> Requests \cup {None}]
      /\ req[r].pc \notin {"ok", "idle"} /\ req[r].email \in Emails
  <2>1. req[r].pc \notin {"ok", "idle"}
    BY DEF Steps
  <2> QED BY <2>1 DEF SessionInv, TypeOK, ReqType
<1>2. /\ q \in ReqType /\ q.pc = "ok" /\ q.email = req[r].email /\ q.late = req[r].late
      /\ req' = [req EXCEPT ![r] = q]
  BY <1>1 DEF ReqType, Answers, Goto
<1> HIDE DEF q
<1>3. r \notin Issued /\ r \notin S
  BY <1>1, Sessionless DEF Issued
<1>4. /\ req' \in [Requests -> ReqType]
      /\ \A p \in Requests : req'[p] = IF p = r THEN q ELSE req[p]
  BY <1>1, <1>2
<1>5. /\ session' \in [Requests -> {"none", "live", "revoked"}]
      /\ Issued' = Issued \cup {r}
      /\ Live' = (Live \ S) \cup {r}
      /\ \A s \in Requests : session[s] = "revoked" => session'[s] = "revoked"
  BY <1>1, <1>3 DEF Issued, Live
<1>6. /\ family' \in [Requests -> Requests \cup {None}]
      /\ family'[r] = c /\ \A s \in Requests \ {r} : family'[s] = family[s]
  BY <1>1
<1>7. TypeOK'
  <2>1. \A p \in Requests : req'[p].pc # "idle" => req'[p].email \in Emails
    BY <1>1, <1>2, <1>4 DEF SessionInv, TypeOK
  <2>2. \A p \in Requests :
          req'[p].pc = "insert" => req'[p].of # None /\ session'[req'[p].of] = "live"
    <3> SUFFICES ASSUME NEW p \in Requests, req[p].pc = "insert", p # r
                 PROVE  req[p].of # None /\ session'[req[p].of] = "live"
      BY <1>2, <1>4
    <3>1. req[p].of # None /\ req[p].of \in Issued /\ session[req[p].of] = "live"
      BY LateSteps DEF SessionInv, TypeOK
    <3>2. req[p].of \notin S
      OBVIOUS
    <3> QED BY <1>3, <3>1, <3>2 DEF Issued
  <2>3. \A p \in Requests : session'[p] # "none" => req'[p].pc = "ok" /\ family'[p] \in Requests
    <3> SUFFICES ASSUME NEW p \in Requests, session'[p] # "none"
                 PROVE  req'[p].pc = "ok" /\ family'[p] \in Requests
      OBVIOUS
    <3>1. CASE p = r
      BY <1>2, <1>4, <1>6, <3>1
    <3>2. CASE p # r
      <4>1. session[p] # "none"
        BY <3>2 DEF Issued
      <4> QED BY <1>4, <1>6, <3>2, <4>1 DEF SessionInv, TypeOK
    <3> QED BY <3>1, <3>2
  <2>4. account' \in [Emails -> [status : Status, password : BOOLEAN]] /\ expired' \subseteq Requests
    BY DEF SessionInv, TypeOK
  <2> QED BY <1>4, <1>5, <1>6, <2>1, <2>2, <2>3, <2>4 DEF TypeOK, ReqType
<1>8. ASSUME NEW p \in Requests
      PROVE  Presents(req[p])' /\ IsLate(req[p])' /\ Knows(req[p])'
  <2>1. Presents(req[p])'
    BY <1>2, <1>4, <1>5 DEF SessionInv, Presents
  <2>2. IsLate(req[p])'
    BY <1>2, <1>4 DEF SessionInv, IsLate
  <2>3. \A s \in Issued : req'[s].email = req[s].email
    BY <1>3, <1>4 DEF Issued
  <2>4. ASSUME p = r PROVE Knows(req[p])'
    BY <1>2, <1>4, <2>4 DEF Knows
  <2>5. ASSUME p # r PROVE Knows(req[p])'
    <3>1. req'[p] = req[p] /\ Knows(req[p]) /\ req[p].known \subseteq Requests
      BY <1>1, <1>4, <2>5 DEF SessionInv, ReqType
    <3> QED BY <1>5, <2>3, <3>1 DEF Knows
  <2> QED BY <2>1, <2>2, <2>4, <2>5
<1>9. LockIsExclusive'
  BY <1>2, <1>4 DEF SessionInv, LockIsExclusive
<1>10. Rooted'
  <2>1. ASSUME NEW s \in Issued' PROVE family'[s] \in Issued'
    <3>1. CASE s = r
      BY <1>5, <1>6, <3>1
    <3>2. CASE s # r
      BY <1>5, <1>6, <3>2 DEF SessionInv, Rooted, Issued
    <3> QED BY <3>1, <3>2
  <2> QED BY <2>1 DEF Rooted
<1>11. OneLivePerFamily'
  <2>1. ASSUME NEW s \in Live \ S PROVE s # r /\ family'[s] = family[s] /\ family[s] # c
    BY <1>3, <1>6 DEF Live, Issued
  <2> QED BY <1>5, <1>6, <2>1 DEF SessionInv, OneLivePerFamily
<1> QED BY <1>7, <1>8, <1>9, <1>10, <1>11 DEF SessionInv

LEMMA IssueInv ==
  ASSUME SessionInv, NEW r \in Requests, StartSession(r) \/ RotateCommit(r)
  PROVE  SessionInv'
<1>1. session \in [Requests -> {"none", "live", "revoked"}]
  BY DEF SessionInv, TypeOK
<1>2. CASE StartSession(r)
  <2>1. /\ req[r].pc = "start" /\ Goto(r, "ok") /\ UNCHANGED <<account, expired>>
        /\ family' = [family EXCEPT ![r] = r] /\ session' = [session EXCEPT ![r] = "live"]
    BY <1>2 DEF StartSession
  <2>2. session' = [s \in Requests |-> IF s = r THEN "live"
                                      ELSE IF s \in {} THEN "revoked" ELSE session[s]]
    BY <1>1, <2>1
  <2>3. \A s \in Live : family[s] # r
    <3>1. r \notin Issued
      BY <2>1, Sessionless DEF Issued
    <3>2. Live \subseteq Issued
      BY DEF Live, Issued
    <3> QED BY <3>1, <3>2 DEF SessionInv, Rooted
  <2>4. ~req[r].late /\ req[r].pc \in Steps
    BY <2>1, LateSteps DEF Steps
  <2>5. PICK S \in SUBSET Issued : S = {}
    OBVIOUS
  <2>6. /\ session' = [s \in Requests |-> IF s = r THEN "live"
                                         ELSE IF s \in S THEN "revoked" ELSE session[s]]
        /\ \A s \in S : \A p \in Requests : req[p].pc = "insert" /\ req[p].of = s => p = r
        /\ \A s \in Live : family[s] = r => s \in S
    BY <2>2, <2>3, <2>5
  <2> QED BY <2>1, <2>4, <2>6, IssueStep
<1>3. CASE RotateCommit(r)
  <2> DEFINE t == req[r].of
  <2>1. /\ req[r].pc = "insert" /\ Goto(r, "ok") /\ UNCHANGED <<account, expired>>
        /\ family' = [family EXCEPT ![r] = family[t]]
        /\ session' = [session EXCEPT ![t] = "revoked", ![r] = "live"]
    BY <1>3 DEF RotateCommit
  <2>2. t \in Issued /\ t \in Live /\ r \notin Issued /\ r # t
    BY <2>1, LateSteps, Sessionless DEF SessionInv, TypeOK, Issued, Live
  <2>3. session' = [s \in Requests |-> IF s = r THEN "live"
                                      ELSE IF s \in {t} THEN "revoked" ELSE session[s]]
    BY <1>1, <2>1, <2>2
  <2>4. family[t] \in Issued /\ family[t] \in Requests
    BY <2>2 DEF SessionInv, Rooted, Issued
  <2>5. \A s \in Live : family[s] = family[t] => s \in {t}
    BY <2>2 DEF SessionInv, OneLivePerFamily
  <2>6. \A p \in Requests : req[p].pc = "insert" /\ req[p].of = t => p = r
    BY <2>1 DEF SessionInv, LockIsExclusive
  <2>7. ~req[r].late /\ req[r].pc \in Steps
    BY <2>1, LateSteps DEF Steps
  <2> HIDE DEF t
  <2>8. {t} \in SUBSET Issued /\ \A s \in {t} : \A p \in Requests :
          req[p].pc = "insert" /\ req[p].of = s => p = r
    BY <2>2, <2>6
  <2> QED BY <2>1, <2>3, <2>4, <2>5, <2>7, <2>8, IssueStep
<1> QED BY <1>2, <1>3
LEMMA OutsideInv ==
  ASSUME SessionInv,
         \/ \E e \in Emails : Suspend(e)
         \/ \E s \in Requests : Expire(s)
         \/ UNCHANGED vars
  PROVE  SessionInv'
<1>1. req' = req /\ session' = session /\ family' = family
  BY DEF Suspend, Expire, vars
<1>2. /\ account \in [Emails -> [status : Status, password : BOOLEAN]]
      /\ account' \in [Emails -> [status : Status, password : BOOLEAN]]
      /\ \A e \in Emails : account[e].status = "suspended" => account'[e].status = "suspended"
  <2>1. account \in [Emails -> [status : Status, password : BOOLEAN]]
    BY DEF SessionInv, TypeOK
  <2>2. CASE \E e \in Emails : Suspend(e)
    BY <2>1, <2>2 DEF Suspend, Status
  <2>3. CASE account' = account
    BY <2>1, <2>3
  <2> QED BY <2>1, <2>2, <2>3 DEF Expire, vars
<1>3. expired' \subseteq Requests
  BY DEF SessionInv, TypeOK, Suspend, Expire, vars
<1>4. TypeOK'
  BY <1>1, <1>2, <1>3 DEF SessionInv, TypeOK
<1>5. ASSUME NEW p \in Requests
      PROVE  Presents(req[p])' /\ IsLate(req[p])' /\ Knows(req[p])'
  <2>1. Presents(req[p]) /\ IsLate(req[p]) /\ Knows(req[p])
    BY DEF SessionInv
  <2>2. Presents(req[p])' /\ Knows(req[p])'
    BY <1>1, <2>1 DEF Presents, Knows, Issued
  <2>3. IsLate(req[p])'
    BY <1>1, <1>2, <2>1, LateSteps DEF IsLate
  <2> QED BY <2>2, <2>3
<1>6. LockIsExclusive' /\ Rooted' /\ OneLivePerFamily'
  BY <1>1 DEF SessionInv, LockIsExclusive, Rooted, OneLivePerFamily, Issued, Live
<1> QED BY <1>4, <1>5, <1>6 DEF SessionInv

LEMMA NextInv == SessionInv /\ [Next]_vars => SessionInv'
<1> SUFFICES ASSUME SessionInv, [Next]_vars PROVE SessionInv'
  OBVIOUS
<1>1. ASSUME NEW r \in Requests, NEW e \in Emails,
             Register(r, e) \/ Login(r, e) \/ ProvisionSocialUser(r, e)
      PROVE  SessionInv'
  BY <1>1, SignInInv
<1>2. ASSUME NEW r \in Requests, CreateSocialUser(r) \/ IssueSession(r) PROVE SessionInv'
  BY <1>2, SocialInv
<1>3. ASSUME NEW r \in Requests, StartSession(r) \/ RotateCommit(r) PROVE SessionInv'
  BY <1>3, IssueInv
<1>4. ASSUME NEW r \in Requests, NEW s \in Requests, Refresh(r, s) \/ Logout(r, s)
      PROVE  SessionInv'
  BY <1>4, RefreshInv
<1>5. ASSUME NEW r \in Requests, CheckStatus(r) \/ RotateRevoke(r) \/ Abort(r)
      PROVE  SessionInv'
  BY <1>5, CheckInv
<1>6. ASSUME NEW r \in Requests, BeginRevokeUserSessions(r) PROVE SessionInv'
  BY <1>6, BeginRevokeInv
<1>7. ASSUME NEW r \in Requests, RevokeUserSessions(r) \/ RevokeSession(r) PROVE SessionInv'
  BY <1>7, RevokeInv
<1> QED BY <1>1, <1>2, <1>3, <1>4, <1>5, <1>6, <1>7, OutsideInv DEF Next

\* The inductive invariant: on top of the properties, the presented sessions exist, a
\* row is locked once, a sign-in has a session of its own, a late request is not on
\* its way to a session, and a revocation covers what was known.
THEOREM SessionInvariant == Spec => []SessionInv
<1>1. Init => SessionInv
  <2> SUFFICES ASSUME Init PROVE SessionInv
    OBVIOUS
  <2>1. NoRequest \in ReqType /\ NoRequest.pc = "idle" /\ ~NoRequest.late
    BY DEF NoRequest, ReqType
  <2>2. /\ \A r \in Requests : req[r].pc = "idle" /\ ~req[r].late /\ session[r] = "none"
        /\ req \in [Requests -> ReqType]
    BY <2>1 DEF Init
  <2>3. TypeOK
    BY <2>2 DEF Init, TypeOK, Status, ReqType
  <2>4. \A r \in Requests : Presents(req[r]) /\ IsLate(req[r]) /\ Knows(req[r])
    BY <2>2 DEF Presents, IsLate, Knows
  <2>5. LockIsExclusive /\ Rooted /\ OneLivePerFamily
    BY <2>2 DEF LockIsExclusive, Rooted, OneLivePerFamily, Issued, Live
  <2> QED BY <2>3, <2>4, <2>5 DEF SessionInv
<1> QED BY <1>1, NextInv, PTL DEF Spec

\* The type invariant holds of every behaviour.
THEOREM SessionTypeCorrect == Spec => []TypeOK
<1>1. SessionInv => TypeOK
  BY DEF SessionInv
<1> QED BY <1>1, SessionInvariant, PTL

\* A sign-in has at most one session that is good.
THEOREM OneSessionPerFamily == Spec => []OneLivePerFamily
<1>1. SessionInv => OneLivePerFamily
  BY DEF SessionInv
<1> QED BY <1>1, SessionInvariant, PTL

\* A reuse that has been answered has ended every session that was known.
THEOREM ReuseEndsTheKnown == Spec => []KnownAreRevoked
<1>1. SessionInv => KnownAreRevoked
  BY DEF SessionInv, Knows, KnownAreRevoked
<1> QED BY <1>1, SessionInvariant, PTL

\* A request that comes after the suspension of its account gets no session.
THEOREM SuspendedGetNothing == Spec => []LateGetsNothing
<1>1. SessionInv => LateGetsNothing
  BY DEF SessionInv, TypeOK, IsLate, LateGetsNothing
<1> QED BY <1>1, SessionInvariant, PTL
-----------------------------------------------------------------------------
(* The sessions implement a chain of tokens *)

IssuedIn(c) == {s \in Issued : family[s] = c}
CurrentIn(c) == {s \in Live : family[s] = c}

\* A step that issues no session and revives none ends chains or leaves them be.
LEMMA EndsChains ==
  ASSUME SessionInv, UNCHANGED family, Issued' = Issued, Live' \subseteq Live
  PROVE  Chain!End
<1>1. \A c \in Requests : IssuedIn(c)' = IssuedIn(c) /\ CurrentIn(c)' \subseteq CurrentIn(c)
  BY DEF IssuedIn, CurrentIn
<1>2. ASSUME NEW c \in Requests PROVE CurrentIn(c)' \in {CurrentIn(c), {}}
  <2>1. \A s, t \in CurrentIn(c) : s = t
    BY DEF SessionInv, OneLivePerFamily, CurrentIn
  <2> QED BY <1>1, <2>1
<1>3. \A c \in Requests : CurrentIn(c)' \subseteq Requests
  BY DEF CurrentIn, Live
<1> QED BY <1>1, <1>2, <1>3 DEF Chain!End, IssuedIn, CurrentIn

\* A step that issues the session r in family c, in the place of the current one.
LEMMA IssuesToken ==
  ASSUME SessionInv, NEW r \in Requests, NEW c \in Requests, r \notin Issued,
         Issued' = Issued \cup {r},
         \A s \in Live' : s # r => s \in Live /\ family[s] # c,
         \A s \in Live : family[s] # c => s \in Live',
         r \in Live', family' = [family EXCEPT ![r] = c],
         IssuedIn(c) = {} \/ CurrentIn(c) # {}
  PROVE  Chain!Issue(c, r)
<1>1. /\ family \in [Requests -> Requests \cup {None}] /\ family'[r] = c
      /\ \A s \in Requests \ {r} : family'[s] = family[s]
  BY DEF SessionInv, TypeOK
<1>2. Live \subseteq Issued /\ Issued \subseteq Requests
  BY DEF Live, Issued
<1>3. \A d \in Requests : IssuedIn(d)' = IF d = c THEN IssuedIn(c) \cup {r} ELSE IssuedIn(d)
  BY <1>1, <1>2 DEF IssuedIn
<1>4. \A d \in Requests : CurrentIn(d)' = IF d = c THEN {r} ELSE CurrentIn(d)
  <2> SUFFICES ASSUME NEW d \in Requests
               PROVE  CurrentIn(d)' = IF d = c THEN {r} ELSE CurrentIn(d)
    OBVIOUS
  <2>1. CASE d = c
    <3>1. \A s \in Live' : family'[s] = c <=> s = r
      BY <1>1, <1>2
    <3> QED BY <2>1, <3>1 DEF CurrentIn
  <2>2. CASE d # c
    <3>1. ASSUME NEW s \in Requests
          PROVE  s \in Live' /\ family'[s] = d <=> s \in Live /\ family[s] = d
      BY <1>1, <1>2, <2>2
    <3>2. Live' \subseteq Requests /\ Live \subseteq Requests
      BY <1>2
    <3>3. CurrentIn(d)' \subseteq CurrentIn(d)
      BY <3>1, <3>2 DEF CurrentIn
    <3>4. CurrentIn(d) \subseteq CurrentIn(d)'
      BY <3>1, <3>2 DEF CurrentIn
    <3> QED BY <2>2, <3>3, <3>4
  <2> QED BY <2>1, <2>2
<1>5. \A d \in Requests : r \notin IssuedIn(d)
  BY DEF IssuedIn
<1> DEFINE issued == [d \in Requests |-> IssuedIn(d)]
           current == [d \in Requests |-> CurrentIn(d)]
<1>6. issued' = [issued EXCEPT ![c] = issued[c] \cup {r}]
  BY <1>3
<1>7. current' = [current EXCEPT ![c] = {r}]
  BY <1>4
<1>8. issued[c] = {} \/ current[c] # {}
  OBVIOUS
<1>9. \A d \in Requests : r \notin issued[d]
  BY <1>5
<1> QED BY <1>6, <1>7, <1>8, <1>9 DEF Chain!Issue, Chain!Fresh, IssuedIn, CurrentIn

LEMMA ChainStep ==
  ASSUME SessionInv, [Next]_vars
  PROVE  Chain!Next \/ UNCHANGED <<family, Issued, Live>>
<1>0. session \in [Requests -> {"none", "live", "revoked"}]
  BY DEF SessionInv, TypeOK
<1>1. ASSUME NEW r \in Requests, StartSession(r) PROVE Chain!Next
  <2>1. /\ session' = [session EXCEPT ![r] = "live"] /\ family' = [family EXCEPT ![r] = r]
        /\ r \notin Issued
    BY <1>1, Sessionless DEF StartSession, Issued
  <2>2. Issued' = Issued \cup {r} /\ Live' = Live \cup {r} /\ Live \subseteq Issued
    BY <1>0, <2>1 DEF Issued, Live
  <2>3. \A s \in Issued : family[s] # r
    BY <2>1 DEF SessionInv, Rooted
  <2>4. IssuedIn(r) = {}
    BY <2>3 DEF IssuedIn
  <2>5. Chain!Issue(r, r)
    BY <2>1, <2>2, <2>3, <2>4, IssuesToken
  <2> QED BY <2>5 DEF Chain!Next
<1>2. ASSUME NEW r \in Requests, RotateCommit(r) PROVE Chain!Next
  <2>1. PICK t : t = req[r].of
    OBVIOUS
  <2>2. /\ session' = [session EXCEPT ![t] = "revoked", ![r] = "live"]
        /\ family' = [family EXCEPT ![r] = family[t]] /\ req[r].pc = "insert"
    BY <1>2, <2>1 DEF RotateCommit
  <2>3. t \in Issued /\ t \in Live /\ r \notin Issued /\ r # t
    BY <2>1, <2>2, LateSteps, Sessionless DEF SessionInv, TypeOK, Issued, Live
  <2>4. Issued' = Issued \cup {r} /\ Live' = (Live \ {t}) \cup {r}
    BY <1>0, <2>2, <2>3 DEF Issued, Live
  <2>5. family[t] \in Requests /\ t \in CurrentIn(family[t])
    BY <2>3 DEF SessionInv, Rooted, CurrentIn, Issued
  <2>6. PICK c \in Requests : c = family[t]
    BY <2>5
  <2>7. \A s \in Live : family[s] = c => s = t
    BY <2>3, <2>6 DEF SessionInv, OneLivePerFamily
  <2>8. Chain!Issue(c, r)
    <3>1. family' = [family EXCEPT ![r] = c] /\ CurrentIn(c) # {} /\ family[t] = c
      BY <2>2, <2>5, <2>6
    <3> QED BY <2>3, <2>4, <2>7, <3>1, IssuesToken
  <2> QED BY <2>8 DEF Chain!Next
<1>3. ASSUME NEW r \in Requests, RevokeUserSessions(r) PROVE Chain!Next
  <2>1. req[r].picked \subseteq Issued
    BY <1>3 DEF SessionInv, Knows, RevokeUserSessions
  <2>2. Issued' = Issued /\ Live' \subseteq Live /\ UNCHANGED family
    BY <1>3, <2>1 DEF RevokeUserSessions, Issued, Live
  <2> QED BY <2>2, EndsChains DEF Chain!Next
<1>4. ASSUME NEW r \in Requests, RevokeSession(r) PROVE Chain!Next
  <2>1. req[r].of \in Issued
    BY <1>4, LateSteps DEF RevokeSession
  <2>2. Issued' = Issued /\ Live' \subseteq Live /\ UNCHANGED family
    BY <1>0, <1>4, <2>1 DEF RevokeSession, Issued, Live
  <2> QED BY <2>2, EndsChains DEF Chain!Next
<1>5. CASE UNCHANGED <<session, family>>
  BY <1>5 DEF Issued, Live
<1> QED BY <1>1, <1>2, <1>3, <1>4, <1>5
        DEF Next, vars, Register, Login, ProvisionSocialUser, CreateSocialUser, IssueSession,
            Refresh, Logout, CheckStatus, RotateRevoke, BeginRevokeUserSessions, Abort, Suspend, Expire

\* The sessions of every sign-in are a chain of tokens: whatever is retried, raced,
\* revoked or rolled back, a chain that has ended never continues, and no token is
\* exchanged twice.
THEOREM SessionsAreChains == Spec => ImplementsTokenChain
<1>1. Init => Chain!Init
  BY DEF Init, Chain!Init, Issued, Live
<1>2. SessionInv /\ [Next]_vars
        => [Chain!Next]_<<[c \in Requests |-> {s \in Issued : family[s] = c}],
                          [c \in Requests |-> {s \in Live : family[s] = c}]>>
  <2> SUFFICES ASSUME SessionInv, [Next]_vars, UNCHANGED <<family, Issued, Live>>
               PROVE  UNCHANGED <<[c \in Requests |-> {s \in Issued : family[s] = c}],
                                  [c \in Requests |-> {s \in Live : family[s] = c}]>>
    BY ChainStep
  <2> QED OBVIOUS
<1> QED BY <1>1, <1>2, SessionInvariant, PTL DEF Spec, ImplementsTokenChain, Chain!Spec

-----------------------------------------------------------------------------
(* INFLUENCERS *)

ProfileType ==
  [created : 0..MaxClock, niche : Niches \cup {Null}, tier : Tiers \cup {Null}]
HandleType == [of : Profiles \cup {Null}, count : Counts \cup {Null}]
TxType ==
  [pc : {"idle", "recompute", "commit"}, op : {"create", "add", "delete", Null},
   of : Profiles \cup {Null}, name : Names \cup {Null}, count : Counts \cup {Null},
   niche : Niches \cup {Null}, tier : Tiers \cup {Null}, created : 0..MaxClock,
   overlapped : BOOLEAN]
WalkType ==
  [pc : {"idle", "paging", "done"}, niche : Niches \cup {Null}, tier : Tiers \cup {Null},
   after : Profiles \cup {Null}, seen : Seq(Profiles)]

\* The tables: a handle is of a profile that exists, and so is a tier.
Tables ==
  /\ profile \in [Profiles -> ProfileType]
  /\ handle \in [Names -> HandleType]
  /\ tx \in [Writers -> TxType]
  /\ clock \in 0..MaxClock
  /\ \A n \in Names : handle[n].of # Null => Exists(handle[n].of)
  /\ \A i \in Profiles : profile[i].tier # Null => Exists(i)
  /\ raced \subseteq Listed

\* The rows transaction t leaves of the rows it finds.
Wrote(t) == IF t.op = "delete" THEN NoHandle ELSE [of |-> t.of, count |-> t.count]
RowsOf(t, rows) == [n \in Names |-> IF n = t.name THEN Wrote(t) ELSE rows[n]]

\* What transaction t has found and holds, with those rows and profiles committed: a
\* profile it creates is not there, a name is as it was found, and the tier is
\* still true unless another write of the profile overlapped.
TxOK(t, rows, there) ==
  /\ t.of \in Profiles
  /\ t.op = "create" => t.of \notin there /\ t.created > 0 /\ ~t.overlapped
  /\ t.op # "create" => t.op \in {"add", "delete"} /\ t.of \in there
  /\ t.name # Null => rows[t.name].of = (IF t.op = "delete" THEN t.of ELSE Null)
  /\ t.pc = "commit" /\ ~t.overlapped => t.tier = TierFrom(RowsOf(t, rows), t.of)

\* Two transactions under way hold different names, and know of each other.
Apart(t, u) ==
  /\ t.name # Null => t.name # u.name
  /\ t.of = u.of => t.overlapped /\ u.overlapped

UnderWay(t) == t.pc # "idle"

Transactions ==
  /\ \A w \in Writers : UnderWay(tx[w]) => TxOK(tx[w], handle, Listed)
  /\ \A w, v \in Writers :
       w # v /\ UnderWay(tx[w]) /\ UnderWay(tx[v]) => Apart(tx[w], tx[v])

WriteInv == Tables /\ Transactions /\ LoneWritesSetTier

Ordered(s) == \A j, k \in DOMAIN s : j < k => Newer(s[j], s[k])

\* Where a reader is: what it has seen is the list down to its cursor, as far as its
\* filter let it through all along.
WalkOK(g, kept) ==
  /\ \A k \in DOMAIN g.seen : Exists(g.seen[k])
  /\ Ordered(g.seen)
  /\ g.pc = "idle" => g.seen = <<>>
  /\ g.pc # "paging" => g.after = Null
  /\ g.pc = "paging" =>
       /\ g.after = Null => g.seen = <<>>
       /\ g.after # Null => g.seen # <<>> /\ g.after = Last(g.seen)
       /\ \A i \in kept : /\ ListInfluencers(i, g)
                          /\ i \in ToSet(g.seen) \/ AfterCursor(i, g.after)
  /\ g.pc = "done" => kept \subseteq ToSet(g.seen)

WalkInv ==
  /\ walk \in [Readers -> WalkType]
  /\ steady \in [Readers -> SUBSET Profiles]
  /\ \A r \in Readers : WalkOK(walk[r], steady[r])

-----------------------------------------------------------------------------
(* Bands of rows *)

LEMMA BandTyped ==
  ASSUME NEW rows, NEW i
  PROVE  TierFrom(rows, i) \in Tiers \cup {Null}
  BY DEF TierFrom, TierForFollowers, Tiers

\* The band of a profile depends on its own rows.
LEMMA SameBand ==
  ASSUME NEW rows, NEW others, NEW i,
         \A n \in Names : rows[n].of = i \/ others[n].of = i => rows[n] = others[n]
  PROVE  TierFrom(rows, i) = TierFrom(others, i)
  <1> DEFINE counts(r) == {r[n].count : n \in {m \in Names : r[m].of = i}}
  <1>1. counts(rows) = counts(others)
    OBVIOUS
  <1> QED BY <1>1 DEF TierFrom

\* A write leaves the rows of every other profile alone.
LEMMA OthersKept ==
  ASSUME InfluencersAssumption, NEW rows, NEW there, NEW t, TxOK(t, rows, there),
         NEW n \in Names, NEW i \in Profiles, i # t.of,
         rows[n].of = i \/ RowsOf(t, rows)[n].of = i
  PROVE  RowsOf(t, rows)[n] = rows[n]
  <1>1. n # Null /\ i # Null
    BY DEF InfluencersAssumption
  <1>2. CASE n = t.name
    <2>1. RowsOf(t, rows)[n] = Wrote(t)
      BY <1>2 DEF RowsOf
    <2>2. Wrote(t).of \in {Null, t.of} /\ rows[n].of \in {Null, t.of}
      BY <1>1, <1>2 DEF Wrote, NoHandle, TxOK
    <2> QED BY <1>1, <2>1, <2>2
  <1>3. CASE n # t.name
    BY <1>3 DEF RowsOf
  <1> QED BY <1>2, <1>3

LEMMA RowsTyped ==
  ASSUME NEW rows \in [Names -> HandleType], NEW t \in TxType, NEW there, TxOK(t, rows, there)
  PROVE  RowsOf(t, rows) \in [Names -> HandleType]
  <1>1. Wrote(t) \in HandleType
    BY DEF Wrote, NoHandle, HandleType, TxType, TxOK
  <1> QED BY <1>1 DEF RowsOf

LEMMA SeenIsRows ==
  ASSUME NEW w
  PROVE  RowsSeenBy(w) = RowsOf(tx[w], handle)
  BY DEF RowsSeenBy, RowsOf, Written, Wrote

-----------------------------------------------------------------------------
(* Transactions *)

LEMMA Overtaken ==
  ASSUME NEW t \in TxType, NEW rows, NEW there, TxOK(t, rows, there), t.op # "create"
  PROVE  /\ [t EXCEPT !.overlapped = TRUE] \in TxType
         /\ TxOK([t EXCEPT !.overlapped = TRUE], rows, there)
  <1> DEFINE u == [t EXCEPT !.overlapped = TRUE]
  <1>1. /\ u \in TxType /\ u.op = t.op /\ u.of = t.of /\ u.name = t.name
        /\ u.overlapped = TRUE
    BY DEF TxType
  <1> HIDE DEF u
  <1>2. TxOK(u, rows, there)
    BY <1>1 DEF TxOK
  <1> QED BY <1>1, <1>2 DEF u

\* A transaction begins: it is told of the others on its profile, and they of it.
LEMMA BeginKeeps ==
  ASSUME WriteInv, NEW w \in Writers \ Open, NEW t \in TxType, UnderWay(t),
         Begin(w, t), UNCHANGED <<profile, handle, raced>>, clock' \in 0..MaxClock,
         TxOK([t EXCEPT !.overlapped = OpenOn(t.of) # {}], handle, Listed),
         t.name # Null => ~Held(t.name),
         t.op = "create" => OpenOn(t.of) = {}
  PROVE  WriteInv'
  <1> DEFINE n == [t EXCEPT !.overlapped = OpenOn(t.of) # {}]
  <1>1. /\ n \in TxType /\ n.of = t.of /\ n.name = t.name /\ n.pc = t.pc /\ n.op = t.op
        /\ n.overlapped = (OpenOn(t.of) # {})
    BY DEF TxType
  <1>2. TxOK(n, handle, Listed)
    OBVIOUS
  <1> HIDE DEF n
  <1>3. \A v \in Writers :
          /\ v = w => tx'[v] = n
          /\ v # w /\ v \in OpenOn(t.of) => tx'[v] = [tx[v] EXCEPT !.overlapped = TRUE]
          /\ v # w /\ v \notin OpenOn(t.of) => tx'[v] = tx[v]
    BY DEF Begin, n
  <1>4. tx' = [v \in Writers |-> tx'[v]]
    BY DEF Begin
  <1>5. \A v \in Writers : /\ tx[v] \in TxType
                           /\ UnderWay(tx[v]) => TxOK(tx[v], handle, Listed)
    BY DEF WriteInv, Tables, Transactions
  <1>6. ASSUME NEW v \in OpenOn(t.of)
        PROVE  v \in Writers /\ tx[v].op # "create" /\ UnderWay(tx[v]) /\ tx[v].of = t.of
    <2>1. v \in Writers /\ UnderWay(tx[v]) /\ tx[v].of = t.of
      BY DEF OpenOn, Open, UnderWay
    <2>2. t.op # "create"
      OBVIOUS
    <2>3. t.of \in Listed
      BY <1>1, <1>2, <2>2 DEF TxOK
    <2> QED BY <1>5, <2>1, <2>3 DEF TxOK
  <1>7. ASSUME NEW v \in Writers, v # w
        PROVE  /\ tx'[v] \in TxType
               /\ UnderWay(tx'[v]) <=> UnderWay(tx[v])
               /\ tx'[v].of = tx[v].of /\ tx'[v].name = tx[v].name
               /\ tx[v].overlapped => tx'[v].overlapped
               /\ v \in OpenOn(t.of) => tx'[v].overlapped
               /\ UnderWay(tx[v]) => TxOK(tx'[v], handle, Listed)
    <2>2. CASE v \in OpenOn(t.of)
      <3> DEFINE u == tx[v]
                 x == [u EXCEPT !.overlapped = TRUE]
      <3>1. u \in TxType /\ TxOK(u, handle, Listed) /\ u.op # "create" /\ UnderWay(u)
        BY <1>5, <1>6, <2>2
      <3>2. x \in TxType /\ TxOK(x, handle, Listed)
        BY <3>1, Overtaken
      <3>3. x.of = u.of /\ x.name = u.name /\ x.overlapped = TRUE /\ x.pc = u.pc
        BY <3>1 DEF TxType
      <3>4. tx'[v] = x
        BY <1>3, <1>7, <2>2
      <3> HIDE DEF x
      <3> QED BY <3>1, <3>2, <3>3, <3>4 DEF UnderWay
    <2>3. CASE v \notin OpenOn(t.of)
      <3>1. tx'[v] = tx[v]
        BY <1>3, <1>7, <2>3
      <3> QED BY <1>5, <2>3, <3>1
    <2> QED BY <2>2, <2>3
  <1>8. \A v \in Writers : /\ tx'[v] \in TxType
                           /\ UnderWay(tx'[v]) => TxOK(tx'[v], handle, Listed)
    BY <1>1, <1>2, <1>3, <1>7
  <1>9. Listed' = Listed
    BY DEF Listed, Exists
  <1>10. Tables'
    BY <1>4, <1>8, <1>9 DEF WriteInv, Tables, Exists
  <1>11. ASSUME NEW v \in Writers, v # w, UnderWay(tx'[v])
         PROVE  Apart(n, tx'[v]) /\ Apart(tx'[v], n)
    <2>1. v \in Open
      BY <1>7, <1>11 DEF Open, UnderWay
    <2>2. t.name # Null => t.name # tx[v].name
      BY <2>1 DEF Held
    <2>3. tx[v].of = t.of => v \in OpenOn(t.of)
      BY <2>1 DEF OpenOn
    <2>4. tx[v].of = t.of => tx'[v].overlapped /\ n.overlapped
      BY <1>1, <1>7, <1>11, <2>3
    <2> QED BY <1>1, <1>7, <1>11, <2>2, <2>4 DEF Apart
  <1>12. ASSUME NEW u \in Writers, NEW v \in Writers, u # v,
                UnderWay(tx'[u]), UnderWay(tx'[v])
         PROVE  Apart(tx'[u], tx'[v])
    <2>1. CASE u = w
      BY <1>3, <1>11, <1>12, <2>1
    <2>2. CASE v = w
      BY <1>3, <1>11, <1>12, <2>2
    <2>3. CASE u # w /\ v # w
      <3>1. Apart(tx[u], tx[v])
        BY <1>7, <1>12, <2>3 DEF WriteInv, Transactions
      <3> QED BY <1>7, <2>3, <3>1 DEF Apart
    <2> QED BY <2>1, <2>2, <2>3
  <1>13. Transactions'
    BY <1>8, <1>9, <1>12 DEF Transactions
  <1>14. LoneWritesSetTier'
    BY <1>9 DEF WriteInv, LoneWritesSetTier
  <1> QED BY <1>10, <1>13, <1>14 DEF WriteInv

LEMMA Blank ==
  ASSUME InfluencersAssumption
  PROVE  NoTx \in TxType /\ ~UnderWay(NoTx)
  BY DEF InfluencersAssumption, NoTx, TxType, UnderWay

LEMMA CreateKeeps ==
  ASSUME InfluencersAssumption, WriteInv, NEW w \in Writers, NEW i \in Profiles,
         NEW niche \in Niches \cup {Null}, CreateInfluencer(w, i, niche)
  PROVE  WriteInv'
  <1> PICK c \in {clock, clock + 1} :
        /\ Began(c)
        /\ Begin(w, [NoTx EXCEPT !.pc = "commit", !.op = "create", !.of = i,
                                 !.niche = niche, !.created = c])
    BY DEF CreateInfluencer
  <1> DEFINE t == [NoTx EXCEPT !.pc = "commit", !.op = "create", !.of = i,
                               !.niche = niche, !.created = c]
             n == [t EXCEPT !.overlapped = OpenOn(i) # {}]
  <1>1. /\ w \in Writers \ Open /\ ~Exists(i) /\ OpenOn(i) = {}
        /\ UNCHANGED <<profile, handle, raced>>
        /\ c \in 1..MaxClock /\ clock' = c
    BY DEF CreateInfluencer, Began
  <1>2. /\ t \in TxType /\ UnderWay(t) /\ t.of = i /\ t.name = Null /\ t.op = "create"
        /\ n.of = i /\ n.op = "create" /\ n.created = c /\ n.name = Null /\ n.tier = Null
        /\ ~n.overlapped
    <2>1. c \in 0..MaxClock
      BY <1>1 DEF InfluencersAssumption
    <2> QED BY <1>1, <2>1, Blank DEF NoTx, TxType, UnderWay
  <1>3. Begin(w, t)
    OBVIOUS
  <1> HIDE DEF t
  <1>4. TierFrom(RowsOf(n, handle), i) = Null
    <2>1. \A m \in Names : RowsOf(n, handle)[m] = handle[m] /\ handle[m].of # i
      BY <1>1, <1>2 DEF RowsOf, InfluencersAssumption, WriteInv, Tables
    <2>2. {m \in Names : RowsOf(n, handle)[m].of = i} = {}
      BY <2>1
    <2> QED BY <2>2 DEF TierFrom
  <1>5. TxOK(n, handle, Listed)
    BY <1>1, <1>2, <1>4 DEF TxOK, Listed
  <1>6. n = [t EXCEPT !.overlapped = OpenOn(t.of) # {}]
    BY <1>2
  <1> HIDE DEF n
  <1>7. clock' \in 0..MaxClock
    BY <1>1 DEF InfluencersAssumption
  <1> QED BY <1>1, <1>2, <1>3, <1>5, <1>6, <1>7, BeginKeeps

LEMMA UpsertKeeps ==
  ASSUME InfluencersAssumption, WriteInv, NEW w \in Writers, NEW i \in Profiles,
         NEW m \in Names, UpsertInstagramInfluencer(w, i, m)
  PROVE  WriteInv'
  <1> PICK c \in {clock, clock + 1} :
        /\ Began(c)
        /\ Begin(w, [NoTx EXCEPT !.pc = "recompute", !.op = "create", !.of = i,
                                 !.name = m, !.created = c])
    BY DEF UpsertInstagramInfluencer
  <1> DEFINE t == [NoTx EXCEPT !.pc = "recompute", !.op = "create", !.of = i,
                               !.name = m, !.created = c]
             n == [t EXCEPT !.overlapped = OpenOn(i) # {}]
  <1>1. /\ w \in Writers \ Open /\ ~Exists(i) /\ OpenOn(i) = {}
        /\ ~Held(m) /\ handle[m].of = Null
        /\ UNCHANGED <<profile, handle, raced>>
        /\ c \in 1..MaxClock /\ clock' = c
    BY DEF UpsertInstagramInfluencer, Began
  <1>2. /\ t \in TxType /\ UnderWay(t) /\ t.of = i /\ t.name = m /\ t.op = "create"
        /\ n.of = i /\ n.op = "create" /\ n.created = c /\ n.name = m /\ n.pc = "recompute"
        /\ ~n.overlapped
    <2>1. c \in 0..MaxClock
      BY <1>1 DEF InfluencersAssumption
    <2> QED BY <1>1, <2>1, Blank DEF NoTx, TxType, UnderWay
  <1>3. Begin(w, t)
    OBVIOUS
  <1> HIDE DEF t
  <1>4. TxOK(n, handle, Listed)
    BY <1>1, <1>2 DEF TxOK, Listed
  <1>5. n = [t EXCEPT !.overlapped = OpenOn(t.of) # {}]
    BY <1>2
  <1> HIDE DEF n
  <1>6. clock' \in 0..MaxClock
    BY <1>1 DEF InfluencersAssumption
  <1> QED BY <1>1, <1>2, <1>3, <1>4, <1>5, <1>6, BeginKeeps

LEMMA AddKeeps ==
  ASSUME InfluencersAssumption, WriteInv, NEW w \in Writers, NEW i \in Profiles,
         NEW m \in Names, NEW count \in Counts \cup {Null}, AddHandle(w, i, m, count)
  PROVE  WriteInv'
  <1> DEFINE t == [NoTx EXCEPT !.pc = "recompute", !.op = "add", !.of = i, !.name = m,
                               !.count = count]
             n == [t EXCEPT !.overlapped = OpenOn(i) # {}]
  <1>1. /\ w \in Writers \ Open /\ Exists(i) /\ ~Held(m) /\ handle[m].of = Null
        /\ UNCHANGED <<profile, handle, raced, clock>> /\ Begin(w, t)
    BY DEF AddHandle
  <1>2. /\ t \in TxType /\ UnderWay(t) /\ t.of = i /\ t.name = m /\ t.op = "add"
        /\ n.of = i /\ n.op = "add" /\ n.name = m /\ n.pc = "recompute"
    BY Blank DEF NoTx, TxType, UnderWay
  <1> HIDE DEF t
  <1>3. TxOK(n, handle, Listed)
    BY <1>1, <1>2 DEF TxOK, Listed
  <1>4. n = [t EXCEPT !.overlapped = OpenOn(t.of) # {}]
    BY <1>2
  <1> HIDE DEF n
  <1>5. clock' \in 0..MaxClock
    BY <1>1 DEF WriteInv, Tables
  <1> QED BY <1>1, <1>2, <1>3, <1>4, <1>5, BeginKeeps

LEMMA DeleteKeeps ==
  ASSUME InfluencersAssumption, WriteInv, NEW w \in Writers, NEW m \in Names,
         DeleteHandle(w, m)
  PROVE  WriteInv'
  <1> DEFINE i == handle[m].of
             t == [NoTx EXCEPT !.pc = "recompute", !.op = "delete", !.of = i, !.name = m]
             n == [t EXCEPT !.overlapped = OpenOn(i) # {}]
  <1>1. /\ w \in Writers \ Open /\ ~Held(m) /\ i # Null
        /\ UNCHANGED <<profile, handle, raced, clock>> /\ Begin(w, t)
    BY DEF DeleteHandle
  <1>2. i \in Profiles /\ Exists(i)
    BY <1>1 DEF WriteInv, Tables, HandleType
  <1>3. /\ t \in TxType /\ UnderWay(t) /\ t.of = i /\ t.name = m /\ t.op = "delete"
        /\ n.of = i /\ n.op = "delete" /\ n.name = m /\ n.pc = "recompute"
    BY <1>2, Blank DEF NoTx, TxType, UnderWay
  <1> HIDE DEF t
  <1>4. TxOK(n, handle, Listed)
    BY <1>2, <1>3 DEF TxOK, Listed
  <1>5. n = [t EXCEPT !.overlapped = OpenOn(t.of) # {}]
    BY <1>3
  <1> HIDE DEF n
  <1>6. clock' \in 0..MaxClock
    BY <1>1 DEF WriteInv, Tables
  <1> QED BY <1>1, <1>3, <1>4, <1>5, <1>6, BeginKeeps

\* One transaction goes on under what it holds, or ends without a trace.
LEMMA OneTx ==
  ASSUME WriteInv, NEW w \in Writers, NEW t \in TxType, tx' = [tx EXCEPT ![w] = t],
         UNCHANGED <<profile, handle, clock, raced>>,
         UnderWay(t) => /\ UnderWay(tx[w]) /\ t.name = tx[w].name /\ t.of = tx[w].of
                        /\ t.overlapped = tx[w].overlapped
                        /\ TxOK(t, handle, Listed)
  PROVE  WriteInv'
  <1>1. /\ \A v \in Writers : tx'[v] = IF v = w THEN t ELSE tx[v]
        /\ tx' \in [Writers -> TxType]
    BY DEF WriteInv, Tables
  <1>2. Listed' = Listed
    BY DEF Listed, Exists
  <1>3. Tables'
    BY <1>1, <1>2 DEF WriteInv, Tables, Exists
  <1>4. \A v \in Writers : UnderWay(tx'[v]) => TxOK(tx'[v], handle, Listed)
    BY <1>1 DEF WriteInv, Transactions
  <1>5. ASSUME NEW u \in Writers, NEW v \in Writers, u # v, UnderWay(tx'[u]), UnderWay(tx'[v])
        PROVE  Apart(tx'[u], tx'[v])
    <2>1. /\ UnderWay(tx[u]) /\ UnderWay(tx[v])
          /\ tx'[u].name = tx[u].name /\ tx'[v].name = tx[v].name
          /\ tx'[u].of = tx[u].of /\ tx'[v].of = tx[v].of
          /\ tx'[u].overlapped = tx[u].overlapped /\ tx'[v].overlapped = tx[v].overlapped
      BY <1>1, <1>5
    <2>2. Apart(tx[u], tx[v])
      BY <1>5, <2>1 DEF WriteInv, Transactions
    <2> QED BY <2>1, <2>2 DEF Apart
  <1>6. Transactions'
    BY <1>2, <1>4, <1>5 DEF Transactions
  <1>7. LoneWritesSetTier'
    BY <1>2 DEF WriteInv, LoneWritesSetTier
  <1> QED BY <1>3, <1>6, <1>7 DEF WriteInv

LEMMA RecomputeKeeps ==
  ASSUME WriteInv, NEW w \in Writers, RecomputeTier(w)
  PROVE  WriteInv'
  <1> DEFINE old == tx[w]
             band == TierFrom(RowsOf(old, handle), old.of)
             t == [old EXCEPT !.tier = band, !.pc = "commit"]
  <1>1. /\ old \in TxType /\ old.pc = "recompute" /\ UnderWay(old)
        /\ UNCHANGED <<profile, handle, clock, raced>>
    BY DEF WriteInv, Tables, RecomputeTier, UnderWay
  <1>2. tx' = [tx EXCEPT ![w] = t]
    BY SeenIsRows DEF RecomputeTier
  <1>3. band \in Tiers \cup {Null}
    BY BandTyped
  <1>4. TxOK(old, handle, Listed)
    BY <1>1 DEF WriteInv, Transactions
  <1> HIDE DEF old, band
  <1>5. /\ t \in TxType /\ t.name = old.name /\ t.of = old.of /\ t.overlapped = old.overlapped
        /\ t.op = old.op /\ t.created = old.created /\ t.count = old.count /\ t.tier = band
    BY <1>1, <1>3 DEF TxType
  <1> HIDE DEF t
  <1>6. RowsOf(t, handle) = RowsOf(old, handle)
    BY <1>5 DEF RowsOf, Wrote
  <1>7. TxOK(t, handle, Listed)
    BY <1>4, <1>5, <1>6 DEF TxOK, band
  <1> QED BY <1>1, <1>2, <1>5, <1>7, OneTx DEF old

LEMMA RollbackKeeps ==
  ASSUME InfluencersAssumption, WriteInv, NEW w \in Writers, Rollback(w)
  PROVE  WriteInv'
  BY Blank, OneTx DEF Rollback, End

\* What a commit leaves of the rows other transactions and profiles go by.
LEMMA OthersBand ==
  ASSUME InfluencersAssumption, NEW rows, NEW there, NEW t, TxOK(t, rows, there),
         NEW j \in Profiles, j # t.of
  PROVE  TierFrom(RowsOf(t, rows), j) = TierFrom(rows, j)
  BY OthersKept, SameBand

LEMMA TxOutlives ==
  ASSUME InfluencersAssumption, NEW rows, NEW there, NEW t \in TxType, TxOK(t, rows, there),
         NEW u \in TxType, TxOK(u, rows, there), Apart(u, t)
  PROVE  TxOK(u, RowsOf(t, rows), there \cup {t.of})
  <1> DEFINE new == RowsOf(t, rows)
  <1>1. u.op = "create" => u.of # t.of
    BY DEF Apart, TxOK
  <1>2. u.name # Null => new[u.name] = rows[u.name]
    BY DEF Apart, RowsOf, TxType
  <1>3. ASSUME ~u.overlapped PROVE TierFrom(RowsOf(u, new), u.of) = TierFrom(RowsOf(u, rows), u.of)
    <2>1. u.of \in Profiles /\ u.of # t.of
      BY <1>3 DEF Apart, TxOK
    <2>2. ASSUME NEW n \in Names,
                 RowsOf(u, new)[n].of = u.of \/ RowsOf(u, rows)[n].of = u.of
          PROVE  RowsOf(u, new)[n] = RowsOf(u, rows)[n]
      <3>1. CASE n = u.name
        BY <3>1 DEF RowsOf
      <3>2. CASE n # u.name
        <4>1. RowsOf(u, new)[n] = new[n] /\ RowsOf(u, rows)[n] = rows[n]
          BY <3>2 DEF RowsOf
        <4>2. new[n].of = u.of \/ rows[n].of = u.of
          BY <2>2, <4>1
        <4>3. \A j \in Profiles : j # t.of /\ (new[n].of = j \/ rows[n].of = j) => new[n] = rows[n]
          BY OthersKept
        <4> HIDE DEF new
        <4> QED BY <2>1, <4>1, <4>2, <4>3
      <3> QED BY <3>1, <3>2
    <2> QED BY <2>2, SameBand
  <1> HIDE DEF new
  <1>4. TxOK(u, new, there \cup {t.of})
    BY <1>1, <1>2, <1>3 DEF TxOK
  <1> QED BY <1>4 DEF new

LEMMA CommitKeeps ==
  ASSUME InfluencersAssumption, WriteInv, NEW w \in Writers, Commit(w)
  PROVE  WriteInv'
  <1> DEFINE t == tx[w]
             i == t.of
             p == IF t.op = "create"
                    THEN [created |-> t.created, niche |-> t.niche, tier |-> t.tier]
                    ELSE [profile[i] EXCEPT !.tier = t.tier]
  <1>1. /\ t \in TxType /\ t.pc = "commit" /\ UnderWay(t)
        /\ profile' = [profile EXCEPT ![i] = p]
        /\ handle' = RowsOf(t, handle)
        /\ raced' = IF t.overlapped THEN raced \cup {i} ELSE raced \ {i}
        /\ tx' = [tx EXCEPT ![w] = NoTx]
        /\ clock' = clock
    BY SeenIsRows DEF WriteInv, Tables, Commit, End, UnderWay
  <1>2. TxOK(t, handle, Listed)
    BY <1>1 DEF WriteInv, Transactions
  <1>3. i \in Profiles /\ i # Null
    BY <1>2 DEF TxOK, InfluencersAssumption
  <1>4. /\ p \in ProfileType /\ p.tier = t.tier /\ p.created > 0
        /\ i \in Listed => p.created = profile[i].created
    <2>1. profile[i] \in ProfileType
      BY <1>3 DEF WriteInv, Tables
    <2>2. CASE t.op = "create"
      BY <1>1, <1>2, <2>2 DEF TxOK, TxType, ProfileType
    <2>3. CASE t.op # "create"
      <3>1. i \in Listed
        BY <1>2, <2>3 DEF TxOK
      <3>2. profile[i].created > 0
        BY <3>1 DEF Listed, Exists
      <3> QED BY <1>1, <2>1, <2>3, <3>2 DEF TxType, ProfileType
    <2> QED BY <2>2, <2>3
  <1> HIDE DEF p, t
  <1>5. /\ profile' \in [Profiles -> ProfileType]
        /\ \A j \in Profiles : profile'[j] = IF j = i THEN p ELSE profile[j]
    BY <1>1, <1>3, <1>4 DEF WriteInv, Tables
  <1>6. Listed' = Listed \cup {i}
    BY <1>3, <1>4, <1>5 DEF Listed, Exists
  <1>7. handle' \in [Names -> HandleType]
    BY <1>1, <1>2, RowsTyped DEF WriteInv, Tables
  <1>8. tx' \in [Writers -> TxType]
    BY <1>1, Blank DEF WriteInv, Tables
  <1>9. \A n \in Names : handle'[n].of # Null => handle'[n].of \in Listed'
    <2>1. ASSUME NEW n \in Names PROVE handle[n].of # Null => handle[n].of \in Listed
      BY DEF WriteInv, Tables, HandleType, Listed
    <2>2. Wrote(t).of \in {Null, i}
      BY DEF Wrote, NoHandle
    <2> QED BY <1>1, <1>6, <2>1, <2>2 DEF RowsOf
  <1>10. \A j \in Profiles : profile'[j].tier # Null => j \in Listed'
    BY <1>5, <1>6 DEF WriteInv, Tables, Listed
  <1>11. Tables'
    <2>1. raced' \subseteq Listed'
      BY <1>1, <1>6 DEF WriteInv, Tables
    <2> QED BY <1>1, <1>5, <1>7, <1>8, <1>9, <1>10, <2>1 DEF WriteInv, Tables, Listed
  <1>12. ASSUME NEW v \in Writers, UnderWay(tx'[v])
         PROVE  v # w /\ tx'[v] = tx[v] /\ UnderWay(tx[v])
    BY <1>1, <1>12, Blank DEF WriteInv, Tables
  <1>13. ASSUME NEW v \in Writers, UnderWay(tx'[v])
         PROVE  TxOK(tx'[v], handle', Listed')
    <2> DEFINE u == tx[v]
    <2>1. /\ u \in TxType /\ TxOK(u, handle, Listed) /\ Apart(u, t) /\ tx'[v] = u
      BY <1>1, <1>12, <1>13 DEF WriteInv, Tables, Transactions, t
    <2> HIDE DEF u
    <2>2. TxOK(u, RowsOf(t, handle), Listed \cup {t.of})
      BY <1>1, <1>2, <2>1, TxOutlives
    <2> QED BY <1>1, <1>6, <2>1, <2>2
  <1>14. Transactions'
    BY <1>12, <1>13 DEF WriteInv, Transactions
  <1>15. ASSUME NEW j \in Listed', j \notin raced' PROVE profile'[j].tier = TierFrom(handle', j)
    <2>0. j \in Profiles
      BY DEF Listed
    <2>1. CASE j = i
      <3>1. ~t.overlapped
        BY <1>1, <1>15, <2>1
      <3> QED BY <1>1, <1>2, <1>4, <1>5, <2>0, <2>1, <3>1 DEF TxOK
    <2>2. CASE j # i
      <3>1. j \in Listed /\ j \notin raced
        BY <1>1, <1>6, <1>15, <2>2
      <3>2. profile[j].tier = TierFrom(handle, j)
        BY <3>1 DEF WriteInv, LoneWritesSetTier
      <3> QED BY <1>1, <1>2, <1>5, <2>0, <2>2, <3>2, OthersBand
    <2> QED BY <2>1, <2>2
  <1>16. LoneWritesSetTier'
    BY <1>15 DEF LoneWritesSetTier
  <1> QED BY <1>11, <1>14, <1>16 DEF WriteInv

LEMMA UpdateKeeps ==
  ASSUME WriteInv, NEW i \in Profiles, NEW niche \in Niches, UpdateInfluencer(i, niche)
  PROVE  WriteInv'
  <1> DEFINE p == [profile[i] EXCEPT !.niche = niche]
  <1>1. profile' = [profile EXCEPT ![i] = p] /\ UNCHANGED <<handle, tx, clock, raced>>
    BY DEF UpdateInfluencer
  <1>2. /\ p \in ProfileType /\ p.tier = profile[i].tier /\ p.created = profile[i].created
    BY DEF WriteInv, Tables, ProfileType
  <1> HIDE DEF p
  <1>3. /\ profile' \in [Profiles -> ProfileType]
        /\ \A j \in Profiles : /\ profile'[j].tier = profile[j].tier
                               /\ profile'[j].created = profile[j].created
    BY <1>1, <1>2 DEF WriteInv, Tables
  <1>4. Listed' = Listed
    BY <1>3 DEF Listed, Exists
  <1>5. Tables'
    BY <1>1, <1>3, <1>4 DEF WriteInv, Tables, Listed, HandleType
  <1>6. Transactions'
    BY <1>1, <1>4 DEF WriteInv, Transactions
  <1>7. LoneWritesSetTier'
    BY <1>1, <1>3, <1>4 DEF WriteInv, LoneWritesSetTier, Listed
  <1> QED BY <1>5, <1>6, <1>7 DEF WriteInv

\* A step that only reads.
LEMMA ReadKeeps ==
  ASSUME WriteInv, UNCHANGED <<profile, handle, tx, clock, raced>>
  PROVE  WriteInv'
  <1>1. Listed' = Listed
    BY DEF Listed, Exists
  <1>2. Tables'
    BY <1>1 DEF WriteInv, Tables, Exists
  <1>3. Transactions' /\ LoneWritesSetTier'
    BY <1>1 DEF WriteInv, Transactions, LoneWritesSetTier
  <1> QED BY <1>2, <1>3 DEF WriteInv

LEMMA WriteStep ==
  ASSUME InfluencersAssumption, WriteInv, [InfluencersNext]_influencersVars
  PROVE  WriteInv'
  <1>1. CASE UNCHANGED influencersVars
    BY <1>1, ReadKeeps DEF influencersVars
  <1>2. CASE \E w \in Writers : Write(w)
    BY <1>2, CreateKeeps, UpsertKeeps, AddKeeps, DeleteKeeps, RecomputeKeeps, CommitKeeps,
       RollbackKeeps DEF Write
  <1>3. CASE \E i \in Profiles, niche \in Niches : UpdateInfluencer(i, niche)
    BY <1>3, UpdateKeeps
  <1>4. CASE \E r \in Readers : Read(r)
    BY <1>4, ReadKeeps DEF Read, BeginWalk, NextPage
  <1> QED BY <1>1, <1>2, <1>3, <1>4 DEF InfluencersNext

-----------------------------------------------------------------------------
(* The order of the list *)

\* A set of naturals has a least element.
LEMMA Least ==
  ASSUME NEW T \in SUBSET Nat, T # {}
  PROVE  \E m \in T : \A k \in T : m <= k
  <1> DEFINE R == {p \in Nat \X Nat : p[1] < p[2]}
  <1>1. IsWellFoundedOn(R, Nat)
    BY NatLessThanWellFounded DEF OpToRel
  <1>2. \A x, y \in Nat : y < x => <<y, x>> \in R
    OBVIOUS
  <1> HIDE DEF R
  <1>3. PICK m \in T : \A y \in T : ~(<<y, m>> \in R)
    BY <1>1, WFMin
  <1>4. ASSUME NEW k \in T PROVE m <= k
    <2>1. ~(k < m)
      BY <1>2, <1>3
    <2> QED BY <2>1
  <1> QED BY <1>4

LEMMA Positions ==
  ASSUME InfluencersAssumption, Tables, NEW i \in Profiles
  PROVE  i \in Nat /\ profile[i].created \in Nat
  BY DEF InfluencersAssumption, Tables, ProfileType

LEMMA NewerTotal ==
  ASSUME InfluencersAssumption, Tables, NEW i \in Profiles, NEW j \in Profiles, i # j
  PROVE  Newer(i, j) \/ Newer(j, i)
  <1>1. /\ i \in Nat /\ profile[i].created \in Nat
        /\ j \in Nat /\ profile[j].created \in Nat
    BY Positions
  <1> QED BY <1>1 DEF Newer

LEMMA NewerTransitive ==
  ASSUME InfluencersAssumption, Tables, NEW i \in Profiles, NEW j \in Profiles,
         NEW k \in Profiles, Newer(i, j), Newer(j, k)
  PROVE  Newer(i, k)
  <1>1. /\ i \in Nat /\ profile[i].created \in Nat
        /\ j \in Nat /\ profile[j].created \in Nat
        /\ k \in Nat /\ profile[k].created \in Nat
    BY Positions
  <1> QED BY <1>1 DEF Newer

\* Of any profiles one is the last of the list: of the earliest, the smallest.
LEMMA LastListed ==
  ASSUME InfluencersAssumption, Tables, NEW S \in SUBSET Profiles, S # {}
  PROVE  \E m \in S : \A i \in S \ {m} : Newer(i, m)
  <1> DEFINE times == {profile[i].created : i \in S}
  <1>1. times \in SUBSET Nat /\ times # {}
    BY Positions
  <1>2. PICK c \in times : \A t \in times : c <= t
    BY <1>1, Least
  <1> DEFINE first == {i \in S : profile[i].created = c}
  <1>3. first \in SUBSET Nat /\ first # {}
    BY Positions
  <1>4. PICK m \in first : \A i \in first : m <= i
    BY <1>3, Least
  <1>5. ASSUME NEW i \in S \ {m} PROVE Newer(i, m)
    <2>1. c <= profile[i].created /\ profile[m].created = c
      BY <1>2, <1>4
    <2>2. profile[i].created = c => m <= i
      BY <1>4
    <2>3. i \in Nat /\ m \in Nat /\ profile[i].created \in Nat /\ c \in Nat
      BY <1>1, <1>4, Positions
    <2> QED BY <2>1, <2>2, <2>3 DEF Newer
  <1> QED BY <1>4, <1>5

\* So any profiles can be listed: a smallest set that could not would, without its
\* last, be listed.
LEMMA CanBeListed ==
  ASSUME InfluencersAssumption, Tables, NEW S \in SUBSET Profiles
  PROVE  \E s \in SetToSeqs(S) : Ordered(s)
  <1> DEFINE Listable(T) == \E s \in SetToSeqs(T) : Ordered(s)
             Bad == {n \in Nat : \E T \in SUBSET S : Cardinality(T) = n /\ ~Listable(T)}
  <1>1. ASSUME NEW T \in SUBSET S PROVE IsFiniteSet(T) /\ Cardinality(T) \in Nat
    BY FS_Subset, FS_CardinalityType DEF InfluencersAssumption
  <1> SUFFICES ASSUME ~Listable(S) PROVE FALSE
    OBVIOUS
  <1>2. Bad \in SUBSET Nat /\ Bad # {}
    BY <1>1
  <1>3. PICK n \in Bad : \A k \in Bad : n <= k
    BY <1>2, Least
  <1>4. PICK T \in SUBSET S : Cardinality(T) = n /\ ~Listable(T)
    BY <1>3
  <1>5. CASE T = {}
    <2>1. Cardinality(T) = 0
      BY <1>5, FS_EmptySet
    <2>2. <<>> \in SetToSeqs(T) /\ Ordered(<<>>)
      BY <1>5, <2>1 DEF SetToSeqs, Ordered
    <2> QED BY <1>4, <2>2
  <1>6. CASE T # {}
    <2>1. PICK m \in T : \A i \in T \ {m} : Newer(i, m)
      BY <1>6, LastListed
    <2> DEFINE U == T \ {m}
    <2>2. U \in SUBSET S /\ IsFiniteSet(U) /\ n \in Nat /\ n > 0 /\ Cardinality(U) = n - 1
      BY <1>1, <1>4, FS_RemoveElement, FS_EmptySet, <1>6
    <2>3. Listable(U)
      BY <1>3, <2>2
    <2>4. PICK s \in SetToSeqs(U) : Ordered(s)
      BY <2>3
    <2>5. /\ s \in [1..(n - 1) -> U]
          /\ \A i, j \in 1..(n - 1) : i # j => s[i] # s[j]
      BY <2>2, <2>4 DEF SetToSeqs
    <2> DEFINE t == [i \in 1..n |-> IF i = n THEN m ELSE s[i]]
    <2>6. \A i \in 1..n : i # n => i \in 1..(n - 1)
      BY <2>2
    <2>7. t \in [1..n -> T] /\ \A i, j \in 1..n : i # j => t[i] # t[j]
      BY <2>5, <2>6
    <2>8. ASSUME NEW j \in 1..n, NEW k \in 1..n, j < k PROVE Newer(t[j], t[k])
      <3>1. j # n /\ j \in 1..(n - 1)
        BY <2>2, <2>8
      <3>2. CASE k = n
        BY <2>1, <2>5, <3>1, <3>2
      <3>3. CASE k # n
        BY <2>4, <2>5, <2>6, <2>8, <3>1, <3>3 DEF Ordered
      <3> QED BY <3>2, <3>3
    <2>9. t \in SetToSeqs(T) /\ Ordered(t)
      BY <1>4, <2>7, <2>8 DEF SetToSeqs, Ordered
    <2> QED BY <1>4, <2>9
  <1> QED BY <1>5, <1>6

LEMMA ListHolds ==
  ASSUME InfluencersAssumption, Tables, NEW S \in SUBSET Profiles
  PROVE  /\ NewestFirst(S) \in Seq(S)
         /\ ToSet(NewestFirst(S)) = S
         /\ Ordered(NewestFirst(S))
  <1> DEFINE s == NewestFirst(S)
  <1>1. s \in SetToSeqs(S) /\ Ordered(s)
    BY CanBeListed DEF NewestFirst, Ordered
  <1>2. IsFiniteSet(S) /\ Cardinality(S) \in Nat
    BY FS_Subset, FS_CardinalityType DEF InfluencersAssumption
  <1>3. /\ s \in [1..Cardinality(S) -> S]
        /\ \A i, j \in 1..Cardinality(S) : i # j => s[i] # s[j]
    BY <1>1 DEF SetToSeqs
  <1> HIDE DEF s
  <1>4. s \in Seq(S)
    BY <1>2, <1>3
  <1>5. s \in Injection(1..Cardinality(S), S)
    BY <1>3 DEF Injection, IsInjective
  <1>6. s \in Surjection(1..Cardinality(S), S)
    <2>1. /\ IsFiniteSet(1..Cardinality(S))
          /\ Cardinality(1..Cardinality(S)) = Cardinality(S)
      BY <1>2, FS_Interval
    <2> QED BY <1>2, <1>5, <2>1, FS_Injection
  <1>7. ToSet(s) = S
    <2>1. DOMAIN s = 1..Cardinality(S) /\ \A i \in 1..Cardinality(S) : s[i] \in S
      BY <1>3
    <2>2. \A i \in S : \E k \in 1..Cardinality(S) : s[k] = i
      BY <1>6 DEF Surjection
    <2> HIDE <1>3, <1>6
    <2> QED BY <2>1, <2>2 DEF ToSet
  <1> QED BY <1>1, <1>4, <1>7 DEF s

-----------------------------------------------------------------------------
(* Walking the list *)

LEMMA LesserOf ==
  ASSUME NEW a \in Nat, NEW b \in Nat
  PROVE  Min({a, b}) = IF a <= b THEN a ELSE b
  BY DEF Min

LEMMA LimitTyped ==
  ASSUME InfluencersAssumption, NEW asked \in Asked
  PROVE  ClampLimit(asked) \in Nat /\ ClampLimit(asked) > 0
  <1>1. asked \in Nat /\ MaxLimit \in Nat /\ DefaultLimit \in Nat
        /\ DefaultLimit > 0 /\ MaxLimit > 0
    BY DEF InfluencersAssumption
  <1> QED BY <1>1, LesserOf DEF ClampLimit

LEMMA PrefixIs ==
  ASSUME NEW S, NEW s \in Seq(S), NEW m \in 0..Len(s)
  PROVE  /\ SubSeq(s, 1, m) \in Seq(S) /\ Len(SubSeq(s, 1, m)) = m
         /\ \A k \in 1..m : SubSeq(s, 1, m)[k] = s[k]
  <1>1. \A k \in 1..m : s[k] \in S
    OBVIOUS
  <1> QED BY <1>1, SubSeqProperties

\* What one row more than the page tells: whether the page is all there is.
Fetched(sorted, limit) == SubSeq(sorted, 1, Min({limit + 1, Len(sorted)}))

LEMMA PageIs ==
  ASSUME NEW S, NEW sorted \in Seq(S), NEW limit \in Nat, limit > 0, NEW fetched, NEW page,
         fetched = Fetched(sorted, limit), page = Page(fetched, limit)
  PROVE  /\ page \in Seq(S)
         /\ \A k \in 1..Len(page) : page[k] = sorted[k]
         /\ Len(page) <= Len(sorted)
         /\ Len(fetched) > limit => Len(page) = limit
         /\ ~(Len(fetched) > limit) => Len(page) = Len(sorted)
  <1>1. Len(sorted) \in Nat
    OBVIOUS
  <1>2. PICK m \in Nat : m = Min({limit + 1, Len(sorted)})
    BY <1>1, LesserOf
  <1>3. m <= Len(sorted) /\ m = (IF limit + 1 <= Len(sorted) THEN limit + 1 ELSE Len(sorted))
    BY <1>1, <1>2, LesserOf
  <1>4. fetched = SubSeq(sorted, 1, m) /\ m \in 0..Len(sorted)
    BY <1>1, <1>2, <1>3 DEF Fetched
  <1>5. /\ fetched \in Seq(S) /\ Len(fetched) = m
        /\ \A k \in 1..m : fetched[k] = sorted[k]
    BY <1>4, PrefixIs
  <1>6. PICK p \in Nat : p = Min({limit, Len(fetched)})
    BY <1>5, LesserOf
  <1>7. p <= m /\ p = (IF limit <= m THEN limit ELSE m)
    BY <1>5, <1>6, LesserOf
  <1>8. page = SubSeq(fetched, 1, p) /\ p \in 0..Len(fetched)
    <2>1. page = SubSeq(fetched, 1, p)
      BY <1>6 DEF Page
    <2>2. p \in 0..m
      BY <1>7
    <2> QED BY <1>5, <2>1, <2>2
  <1>9. /\ page \in Seq(S) /\ Len(page) = p
        /\ \A k \in 1..p : page[k] = fetched[k]
    BY <1>5, <1>8, PrefixIs
  <1>10. \A k \in 1..p : page[k] = sorted[k]
    <2>1. \A k \in 1..p : k \in 1..m
      BY <1>7
    <2> QED BY <1>5, <1>9, <2>1
  <1>11. p <= Len(sorted) /\ (m > limit => p = limit) /\ (~(m > limit) => p = Len(sorted))
    BY <1>1, <1>3, <1>7
  <1> QED BY <1>5, <1>9, <1>10, <1>11

\* A profile that exists stays, where it is in the list.
Steadfast ==
  \A i \in Profiles : Exists(i) => Exists(i)' /\ profile'[i].created = profile[i].created

LEMMA StaysListed ==
  ASSUME InfluencersAssumption, WriteInv, [InfluencersNext]_influencersVars
  PROVE  Steadfast
  <1>1. CASE UNCHANGED profile
    BY <1>1 DEF Steadfast, Exists
  <1>2. CASE \E w \in Writers : Commit(w)
    <2>1. PICK w \in Writers : Commit(w)
      BY <1>2
    <2> DEFINE t == tx[w]
               p == IF t.op = "create"
                      THEN [created |-> t.created, niche |-> t.niche, tier |-> t.tier]
                      ELSE [profile[t.of] EXCEPT !.tier = t.tier]
    <2>2. profile' = [profile EXCEPT ![t.of] = p]
      BY <2>1 DEF Commit
    <2>3. TxOK(t, handle, Listed)
      BY <2>1 DEF WriteInv, Transactions, Commit, UnderWay
    <2>4. Exists(t.of) => p.created = profile[t.of].created
      <3>1. SUFFICES ASSUME Exists(t.of) PROVE t.op # "create" /\ profile[t.of] \in ProfileType
        BY DEF ProfileType
      <3> QED BY <2>3, <3>1 DEF TxOK, Listed, WriteInv, Tables
    <2> HIDE DEF p, t
    <2> QED BY <2>2, <2>4 DEF Steadfast, Exists, WriteInv, Tables
  <1>3. CASE \E i \in Profiles, niche \in Niches : UpdateInfluencer(i, niche)
    <2>1. PICK i \in Profiles, niche \in Niches :
                 profile' = [profile EXCEPT ![i].niche = niche]
      BY <1>3 DEF UpdateInfluencer
    <2>2. \A j \in Profiles : profile'[j].created = profile[j].created
      BY <2>1 DEF WriteInv, Tables, ProfileType
    <2> QED BY <2>2 DEF Steadfast, Exists
  <1> QED BY <1>1, <1>2, <1>3
       DEF InfluencersNext, influencersVars, Write, CreateInfluencer, UpsertInstagramInfluencer,
           AddHandle, DeleteHandle,           RecomputeTier, Rollback, Read, BeginWalk, NextPage

\* What a step makes of the profiles let through all along.
Following(r) == steady'[r] = IF walk'[r].pc = "idle" THEN {} ELSE Steady(r)

\* The walk of a reader who does not move: the list changes around it, the places
\* in it do not.
LEMMA WalkStays ==
  ASSUME InfluencersAssumption, WalkInv, Steadfast, NEW r \in Readers,
         UNCHANGED walk[r], Following(r)
  PROVE  WalkOK(walk[r], steady[r])' /\ steady'[r] \subseteq Profiles
  <1>1. PICK g : g = walk[r]
    OBVIOUS
  <1>2. PICK kept : kept = steady'[r]
    OBVIOUS
  <1>3. walk'[r] = g /\ WalkOK(g, steady[r]) /\ g \in WalkType /\ steady[r] \subseteq Profiles
    BY <1>1 DEF WalkInv
  <1>4. kept \subseteq steady[r]
    BY <1>1, <1>2, <1>3 DEF Following, Steady
  <1>5. \A i \in Profiles, j \in Profiles :
          Exists(i) /\ Exists(j) => (Newer(i, j)' <=> Newer(i, j))
    BY DEF Steadfast, Newer
  <1>6. /\ \A k \in DOMAIN g.seen : g.seen[k] \in Profiles /\ Exists(g.seen[k]) /\ Exists(g.seen[k])'
        /\ Ordered(g.seen)'
    <2>1. g.seen \in Seq(Profiles)
      BY <1>3 DEF WalkType
    <2>2. \A k \in DOMAIN g.seen : g.seen[k] \in Profiles /\ Exists(g.seen[k])
      BY <1>3, <2>1 DEF WalkOK
    <2>3. Ordered(g.seen)
      BY <1>3 DEF WalkOK
    <2> QED BY <1>5, <2>2, <2>3 DEF Ordered, Steadfast
  <1>7. ASSUME g.pc = "paging", NEW i \in kept
        PROVE  ListInfluencers(i, g)' /\ (i \in ToSet(g.seen) \/ AfterCursor(i, g.after)')
    <2>1. i \in steady[r] /\ ListInfluencers(i, g)'
      BY <1>1, <1>2, <1>3, <1>7 DEF Following, Steady
    <2>2. ListInfluencers(i, g) /\ (i \in ToSet(g.seen) \/ AfterCursor(i, g.after))
      BY <1>3, <1>7, <2>1 DEF WalkOK
    <2>3. i \in Profiles /\ Exists(i)
      BY <1>3, <2>1, <2>2 DEF ListInfluencers
    <2>4. ASSUME g.after # Null PROVE g.after \in Profiles /\ Exists(g.after)
      <3>1. g.seen # <<>> /\ g.after = Last(g.seen) /\ g.seen \in Seq(Profiles)
        BY <1>3, <1>7, <2>4 DEF WalkOK, WalkType
      <3>2. Len(g.seen) \in DOMAIN g.seen
        BY <3>1
      <3> QED BY <1>6, <3>1, <3>2 DEF Last
    <2> QED BY <1>5, <2>1, <2>2, <2>3, <2>4 DEF AfterCursor
  <1>8. g.pc = "done" => kept = steady[r]
    BY <1>1, <1>2, <1>3 DEF Following, Steady
  <1>9. WalkOK(g, kept)'
    BY <1>3, <1>6, <1>7, <1>8 DEF WalkOK
  <1>10. WalkOK(walk[r], steady[r])'
    BY <1>2, <1>3, <1>9 DEF WalkOK, Ordered, Newer, Exists, ListInfluencers, AfterCursor, Last, ToSet
  <1> QED BY <1>2, <1>3, <1>4, <1>10

\* The walk of the reader who reads: the profiles are as they were.
LEMMA WalkMoves ==
  ASSUME NEW r \in Readers, UNCHANGED profile, NEW g, NEW kept,
         walk'[r] = g, steady'[r] = kept, WalkOK(g, kept)
  PROVE  WalkOK(walk[r], steady[r])'
  BY DEF WalkOK, Ordered, Newer, Exists, ListInfluencers, AfterCursor, Last, ToSet

LEMMA IdleTyped == Idle \in WalkType
  <1>1. <<>> \in Seq(Profiles)
    OBVIOUS
  <1> QED BY <1>1 DEF Idle, WalkType

LEMMA BeginWalkKeeps ==
  ASSUME InfluencersAssumption, WalkInv, NEW r \in Readers, NEW filter \in Filters,
         BeginWalk(r, filter), Following(r)
  PROVE  WalkOK(walk[r], steady[r])' /\ steady'[r] \subseteq Profiles /\ walk'[r] \in WalkType
  <1> DEFINE g == [Idle EXCEPT !.pc = "paging", !.niche = filter.niche, !.tier = filter.tier]
             kept == {i \in Profiles : ListInfluencers(i, g)}
  <1>1. walk'[r] = g /\ walk[r].pc = "idle" /\ UNCHANGED profile
    BY DEF BeginWalk, WalkInv
  <1>2. g \in WalkType /\ g.pc = "paging" /\ g.after = Null /\ g.seen = <<>>
    <2>1. filter.niche \in Niches \cup {Null} /\ filter.tier \in Tiers \cup {Null}
      BY DEF InfluencersAssumption, Filter
    <2> QED BY <2>1, IdleTyped DEF WalkType, Idle
  <1>3. steady'[r] = {i \in Profiles : ListInfluencers(i, walk[r])'}
    <2>1. walk'[r].pc = "paging"
      BY <1>1, <1>2
    <2> QED BY <1>1, <2>1 DEF Following, Steady
  <1>4. steady'[r] = kept
    BY <1>1, <1>3 DEF ListInfluencers, Exists
  <1>5. WalkOK(g, kept)
    <2> HIDE DEF g
    <2> QED BY <1>2 DEF WalkOK, Ordered, AfterCursor
  <1>7. kept \subseteq Profiles
    OBVIOUS
  <1> HIDE DEF g, kept
  <1>6. WalkOK(walk[r], steady[r])'
    BY <1>1, <1>4, <1>5, WalkMoves
  <1> QED BY <1>1, <1>2, <1>4, <1>6, <1>7

\* A page joined to what was seen is in order, and what is after the cursor is on the
\* page or after its last row.
LEMMA Joined ==
  ASSUME InfluencersAssumption, Tables, NEW before \in Seq(Profiles), NEW after,
         NEW rest \in SUBSET Profiles, NEW page \in Seq(rest),
         Ordered(before), Ordered(page),
         after = Null => before = <<>>,
         after # Null => before # <<>> /\ after = Last(before),
         \A i \in rest : AfterCursor(i, after)
  PROVE  /\ before \o page \in Seq(Profiles)
         /\ Ordered(before \o page)
         /\ ToSet(before \o page) = ToSet(before) \cup ToSet(page)
         /\ Len(before \o page) = Len(before) + Len(page)
         /\ page # <<>> => Last(before \o page) = Last(page)
  <1> DEFINE seen == before \o page
             a == Len(before)
             b == Len(page)
  <1>1. a \in Nat /\ b \in Nat /\ page \in Seq(Profiles)
    <2>1. page = [k \in 1..b |-> page[k]] /\ \A k \in 1..b : page[k] \in Profiles
      OBVIOUS
    <2>2. page \in [1..b -> Profiles]
      BY <2>1
    <2> QED BY <2>2
  <1>2. /\ seen \in Seq(Profiles) /\ Len(seen) = a + b
        /\ \A k \in 1..(a + b) : seen[k] = IF k <= a THEN before[k] ELSE page[k - a]
    BY <1>1, ConcatProperties
  <1> HIDE DEF seen
  <1>3. \A k \in 1..b : page[k] \in rest
    OBVIOUS
  <1>4. \A k \in 1..a : before[k] \in Profiles
    OBVIOUS
  <1>5. ASSUME NEW j \in 1..a, NEW i \in rest PROVE Newer(before[j], i)
    <2>1. before # <<>> /\ a > 0
      BY <1>1
    <2>2. after # Null /\ after = before[a]
      BY <2>1 DEF Last
    <2>3. Newer(after, i)
      BY <2>2 DEF AfterCursor
    <2>4. j = a \/ Newer(before[j], before[a])
      <3>1. j = a \/ j < a
        BY <1>1
      <3>2. a \in DOMAIN before /\ j \in DOMAIN before
        BY <1>1, <2>1
      <3> HIDE DEF a
      <3> QED BY <3>1, <3>2 DEF Ordered
    <2>5. a \in 1..a
      BY <1>1, <2>1
    <2>6. before[j] \in Profiles /\ before[a] \in Profiles /\ i \in Profiles
      BY <1>4, <2>5
    <2> HIDE DEF a
    <2> QED BY <2>2, <2>3, <2>4, <2>6, NewerTransitive
  <1>6. ASSUME NEW j \in 1..(a + b), NEW k \in 1..(a + b), j < k
        PROVE  Newer(seen[j], seen[k])
    <2>1. CASE k <= a
      <3>1. seen[j] = before[j] /\ seen[k] = before[k] /\ j \in DOMAIN before /\ k \in DOMAIN before
        BY <1>1, <1>2, <1>6, <2>1
      <3> QED BY <1>6, <3>1 DEF Ordered
    <2>2. CASE ~(k <= a) /\ j <= a
      <3>1. j \in 1..a /\ k - a \in 1..b
        BY <1>1, <2>2
      <3>2. seen[j] = before[j] /\ seen[k] = page[k - a] /\ page[k - a] \in rest
        BY <1>2, <1>3, <2>2, <3>1
      <3> QED BY <1>5, <3>1, <3>2
    <2>3. CASE ~(k <= a) /\ ~(j <= a)
      <3>1. j - a \in 1..b /\ k - a \in 1..b /\ j - a < k - a
        BY <1>1, <1>6, <2>3
      <3>2. seen[j] = page[j - a] /\ seen[k] = page[k - a]
        BY <1>2, <2>3
      <3>3. j - a \in DOMAIN page /\ k - a \in DOMAIN page
        BY <3>1
      <3> QED BY <3>1, <3>2, <3>3 DEF Ordered
    <2> QED BY <2>1, <2>2, <2>3
  <1>7. Ordered(seen)
    <2>1. DOMAIN seen = 1..(a + b)
      BY <1>2
    <2> QED BY <1>6, <2>1 DEF Ordered
  <1>8. ToSet(seen) = ToSet(before) \cup ToSet(page)
    <2>1. DOMAIN seen = 1..(a + b) /\ DOMAIN before = 1..a /\ DOMAIN page = 1..b
      BY <1>2
    <2>2. \A k \in 1..a : k \in 1..(a + b) /\ seen[k] = before[k]
      BY <1>1, <1>2
    <2>3. \A k \in 1..b : k + a \in 1..(a + b) /\ seen[k + a] = page[k]
      <3>1. \A k \in 1..b : k + a \in 1..(a + b) /\ ~(k + a <= a) /\ (k + a) - a = k
        BY <1>1
      <3> QED BY <1>2, <3>1
    <2>4. \A k \in 1..(a + b) : \/ k \in 1..a /\ seen[k] = before[k]
                                \/ k - a \in 1..b /\ seen[k] = page[k - a]
      <3>1. \A k \in 1..(a + b) : (k <= a /\ k \in 1..a) \/ (~(k <= a) /\ k - a \in 1..b)
        BY <1>1
      <3> QED BY <1>2, <3>1
    <2> HIDE DEF a, b
    <2>5. ToSet(seen) \subseteq ToSet(before) \cup ToSet(page)
      BY <2>1, <2>4 DEF ToSet
    <2>6. ToSet(before) \subseteq ToSet(seen) /\ ToSet(page) \subseteq ToSet(seen)
      <3>1. \A k \in 1..a : before[k] \in ToSet(seen)
        BY <2>1, <2>2 DEF ToSet
      <3>2. \A k \in 1..b : page[k] \in ToSet(seen)
        BY <2>1, <2>3 DEF ToSet
      <3> QED BY <2>1, <3>1, <3>2 DEF ToSet
    <2> QED BY <2>5, <2>6
  <1>9. ASSUME page # <<>> PROVE Last(seen) = Last(page)
    <2>1. b > 0 /\ a + b \in 1..(a + b) /\ ~(a + b <= a) /\ (a + b) - a = b
      BY <1>1, <1>9
    <2> QED BY <1>2, <2>1 DEF Last
  <1> QED BY <1>2, <1>7, <1>8, <1>9 DEF seen

LEMMA NextPageKeeps ==
  ASSUME InfluencersAssumption, WriteInv, WalkInv, NEW r \in Readers, NEW asked \in Asked,
         NextPage(r, asked), Following(r)
  PROVE  WalkOK(walk[r], steady[r])' /\ steady'[r] \subseteq Profiles /\ walk'[r] \in WalkType
  <1>1. PICK g, kept : g = walk[r] /\ kept = steady[r]
    OBVIOUS
  <1>2. /\ WalkOK(g, kept) /\ g \in WalkType /\ kept \subseteq Profiles
        /\ g.seen \in Seq(Profiles) /\ g.pc = "paging" /\ UNCHANGED profile
    BY <1>1 DEF WalkInv, WalkType, NextPage
  <1>3. PICK rest : rest = {i \in Profiles : ListInfluencers(i, g) /\ AfterCursor(i, g.after)}
    OBVIOUS
  <1>4. PICK limit : limit = ClampLimit(asked)
    OBVIOUS
  <1>5. PICK sorted : sorted = NewestFirst(rest)
    OBVIOUS
  <1>6. PICK fetched : fetched = Fetched(sorted, limit)
    OBVIOUS
  <1>7. PICK page : page = Page(fetched, limit)
    OBVIOUS
  <1> DEFINE more == Len(fetched) > limit
             seen == g.seen \o page
             on == [g EXCEPT !.seen = seen, !.after = Last(page)]
             end == [Idle EXCEPT !.seen = seen, !.pc = "done"]
  <1>8. walk'[r] = IF more THEN on ELSE end
    <2> DEFINE G == walk[r]
               L == ClampLimit(asked)
               R == {i \in Profiles : ListInfluencers(i, G) /\ AfterCursor(i, G.after)}
               F == Fetched(NewestFirst(R), L)
               P == Page(F, L)
               W == IF Len(F) > L THEN [G EXCEPT !.seen = G.seen \o P, !.after = Last(P)]
                    ELSE [Idle EXCEPT !.seen = G.seen \o P, !.pc = "done"]
    <2>1. walk' = [walk EXCEPT ![r] = W]
      BY DEF NextPage, Fetched
    <2>2. walk'[r] = W
      <3> HIDE DEF W
      <3> QED BY <2>1 DEF WalkInv
    <2>3. R = rest /\ L = limit
      BY <1>1, <1>3, <1>4
    <2> HIDE DEF R, L
    <2>4. F = fetched
      BY <1>5, <1>6, <2>3
    <2> HIDE DEF F
    <2>5. P = page
      BY <1>7, <2>3, <2>4
    <2> HIDE DEF P
    <2> QED BY <1>1, <2>2, <2>3, <2>4, <2>5
  <1>9. limit \in Nat /\ limit > 0
    BY <1>4, LimitTyped
  <1>10. rest \in SUBSET Profiles
    BY <1>3
  <1>11. sorted \in Seq(rest) /\ ToSet(sorted) = rest /\ Ordered(sorted)
    BY <1>5, <1>10, ListHolds DEF WriteInv
  <1>12. \A i \in rest : Exists(i) /\ AfterCursor(i, g.after)
    BY <1>3 DEF ListInfluencers
  <1>13. /\ page \in Seq(rest)
         /\ \A k \in 1..Len(page) : page[k] = sorted[k]
         /\ Len(page) <= Len(sorted)
         /\ more => Len(page) = limit
         /\ ~more => Len(page) = Len(sorted)
    BY <1>6, <1>7, <1>9, <1>11, PageIs
  <1> HIDE DEF more
  <1>14. /\ Len(page) \in Nat /\ Len(sorted) \in Nat /\ Len(page) <= Len(sorted)
         /\ DOMAIN page = 1..Len(page) /\ DOMAIN sorted = 1..Len(sorted)
    BY <1>11, <1>13, LenProperties
  <1>15. \A k \in 1..Len(page) : k \in 1..Len(sorted)
    BY <1>14
  <1>16. Ordered(page)
    <2>1. ASSUME NEW j \in 1..Len(page), NEW k \in 1..Len(page), j < k
          PROVE  Newer(page[j], page[k])
      <3>1. Newer(sorted[j], sorted[k])
        BY <1>11, <1>14, <1>15, <2>1 DEF Ordered
      <3> QED BY <1>13, <3>1
    <2> QED BY <1>14, <2>1 DEF Ordered
  <1>17. ASSUME NEW i \in rest PROVE i \in ToSet(page) \/ (more /\ Newer(page[Len(page)], i))
    <2>1. PICK k \in 1..Len(sorted) : sorted[k] = i
      BY <1>11, <1>14 DEF ToSet
    <2>2. CASE k \in 1..Len(page)
      <3>1. page[k] = i
        BY <1>13, <2>1, <2>2
      <3> QED BY <1>14, <2>2, <3>1 DEF ToSet
    <2>3. CASE k \notin 1..Len(page)
      <3>1. Len(page) < k
        BY <1>14, <2>3
      <3>2. more /\ Len(page) = limit
        <4>1. Len(page) \in Nat /\ Len(sorted) \in Nat
          BY <1>14
        <4>2. Len(page) # Len(sorted)
          BY <3>1, <4>1
        <4> QED BY <1>13, <4>2
      <3>3. Len(page) \in 1..Len(page) /\ Len(page) \in 1..Len(sorted)
        BY <1>9, <1>14, <1>15, <3>2
      <3>4. Newer(sorted[Len(page)], sorted[k])
        BY <1>11, <1>14, <3>1, <3>3 DEF Ordered
      <3> QED BY <1>13, <2>1, <3>2, <3>3, <3>4
    <2> QED BY <2>2, <2>3
  <1>18. /\ seen \in Seq(Profiles) /\ Ordered(seen)
         /\ ToSet(seen) = ToSet(g.seen) \cup ToSet(page)
         /\ Len(seen) = Len(g.seen) + Len(page)
         /\ page # <<>> => Last(seen) = Last(page)
    <2>1. /\ Ordered(g.seen)
          /\ g.after = Null => g.seen = <<>>
          /\ g.after # Null => g.seen # <<>> /\ g.after = Last(g.seen)
      BY <1>2 DEF WalkOK
    <2>2. Tables /\ g.seen \in Seq(Profiles) /\ page \in Seq(rest)
      BY <1>2, <1>13 DEF WriteInv
    <2>3. \A i \in rest : AfterCursor(i, g.after)
      BY <1>12
    <2>4. PICK before, after : before = g.seen /\ after = g.after
      OBVIOUS
    <2>5. /\ before \in Seq(Profiles) /\ Ordered(before)
          /\ after = Null => before = <<>>
          /\ after # Null => before # <<>> /\ after = Last(before)
          /\ \A i \in rest : AfterCursor(i, after)
      BY <2>1, <2>2, <2>3, <2>4
    <2>6. /\ before \o page \in Seq(Profiles)
          /\ Ordered(before \o page)
          /\ ToSet(before \o page) = ToSet(before) \cup ToSet(page)
          /\ Len(before \o page) = Len(before) + Len(page)
          /\ page # <<>> => Last(before \o page) = Last(page)
      BY <1>10, <1>16, <2>2, <2>5, Joined
    <2> QED BY <2>4, <2>6
  <1> HIDE DEF seen
  <1>19. \A k \in DOMAIN seen : Exists(seen[k])
    <2>1. \A i \in ToSet(g.seen) : Exists(i)
      BY <1>2 DEF WalkOK, ToSet
    <2>2. \A i \in ToSet(page) : Exists(i)
      <3>1. \A k \in DOMAIN page : page[k] \in rest
        BY <1>13
      <3> QED BY <1>12, <3>1 DEF ToSet
    <2>3. \A k \in DOMAIN seen : seen[k] \in ToSet(seen)
      BY DEF ToSet
    <2> QED BY <1>18, <2>1, <2>2, <2>3
  <1>20. ASSUME NEW i \in kept
         PROVE  /\ ListInfluencers(i, g)
                /\ i \in ToSet(seen) \/ (more /\ Newer(page[Len(page)], i))
    <2>1. i \in Profiles /\ ListInfluencers(i, g) /\ (i \in ToSet(g.seen) \/ AfterCursor(i, g.after))
      BY <1>2 DEF WalkOK
    <2>2. CASE i \in ToSet(g.seen)
      BY <1>18, <2>1, <2>2
    <2>3. CASE AfterCursor(i, g.after)
      BY <1>3, <1>17, <1>18, <2>1, <2>3
    <2> QED BY <2>1, <2>2, <2>3
  <1>21. CASE more
    <2>1. Len(page) \in 1..Len(page) /\ page # <<>> /\ seen # <<>>
      BY <1>2, <1>9, <1>13, <1>14, <1>18, <1>21
    <2>2. Last(page) = page[Len(page)] /\ Last(page) = Last(seen) /\ Last(page) \in Profiles
      BY <1>10, <1>13, <1>18, <2>1 DEF Last
    <2>4. on \in WalkType
      BY <1>2, <1>18, <2>2 DEF WalkType
    <2>5. /\ on.pc = "paging" /\ on.seen = seen /\ on.after = Last(page)
          /\ on.niche = g.niche /\ on.tier = g.tier
      BY <1>2 DEF WalkType
    <2>6. walk'[r] = on
      BY <1>8, <1>21
    <2> HIDE DEF on
    <2>7. Last(page) # Null
      BY <2>2 DEF InfluencersAssumption
    <2>8. \A i \in kept : ListInfluencers(i, walk[r])' <=> ListInfluencers(i, g)
      BY <1>2, <2>5, <2>6 DEF ListInfluencers, Exists
    <2>9. steady'[r] = {i \in kept : ListInfluencers(i, walk[r])'}
      BY <1>1, <1>2, <2>5, <2>6 DEF Following, Steady
    <2>10. steady'[r] = kept
      BY <1>20, <2>8, <2>9
    <2>11. \A i \in kept : /\ ListInfluencers(i, on)
                           /\ i \in ToSet(on.seen) \/ AfterCursor(i, on.after)
      BY <1>20, <2>2, <2>5 DEF ListInfluencers, AfterCursor
    <2>12. WalkOK(on, kept)
      BY <1>18, <1>19, <2>1, <2>2, <2>5, <2>7, <2>11 DEF WalkOK
    <2> QED BY <1>2, <2>4, <2>6, <2>10, <2>12, WalkMoves
  <1>22. CASE ~more
    <2>2. end \in WalkType /\ end.pc = "done" /\ end.seen = seen /\ end.after = Null
      BY <1>18, IdleTyped DEF WalkType, Idle
    <2>3. walk'[r] = end
      BY <1>8, <1>22
    <2> HIDE DEF end
    <2>4. steady'[r] = kept
      BY <1>1, <2>2, <2>3 DEF Following, Steady
    <2>5. kept \subseteq ToSet(seen)
      BY <1>20, <1>22
    <2>6. WalkOK(end, kept)
      BY <1>18, <1>19, <2>2, <2>5 DEF WalkOK
    <2> QED BY <1>2, <2>2, <2>3, <2>4, <2>6, WalkMoves
  <1> QED BY <1>21, <1>22

-----------------------------------------------------------------------------
(* The theorems *)

InfluencersInv == WriteInv /\ WalkInv

LEMMA InfluencersStart ==
  ASSUME InfluencersAssumption, InfluencersInit
  PROVE  InfluencersInv
  <1>1. NoProfile \in ProfileType /\ NoHandle \in HandleType /\ NoTx \in TxType /\ Idle \in WalkType
    BY DEF InfluencersAssumption, NoProfile, ProfileType, NoHandle, HandleType, NoTx, TxType,
           Idle, WalkType
  <1>2. \A i \in Profiles : ~Exists(i) /\ profile[i].tier = Null
    BY DEF InfluencersInit, Exists, NoProfile
  <1>3. \A n \in Names : handle[n].of = Null
    BY DEF InfluencersInit, NoHandle
  <1>4. Tables
    BY <1>1, <1>2, <1>3 DEF InfluencersInit, Tables, InfluencersAssumption
  <1>5. \A w \in Writers : ~UnderWay(tx[w])
    BY DEF InfluencersInit, NoTx, UnderWay
  <1>6. Transactions /\ LoneWritesSetTier
    BY <1>2, <1>5 DEF Transactions, LoneWritesSetTier, Listed
  <1>7. \A r \in Readers : walk[r] = Idle /\ steady[r] = {}
    BY DEF InfluencersInit
  <1>8. Idle.pc = "idle" /\ Idle.seen = <<>> /\ Idle.after = Null
    BY DEF Idle
  <1>9. WalkOK(Idle, {})
    BY <1>8 DEF WalkOK, Ordered
  <1>10. WalkInv
    BY <1>1, <1>7, <1>9 DEF InfluencersInit, WalkInv
  <1> QED BY <1>4, <1>6, <1>10 DEF InfluencersInv, WriteInv

LEMMA WalkStep ==
  ASSUME InfluencersAssumption, InfluencersInv, [InfluencersNext]_influencersVars
  PROVE  WalkInv'
  <1>1. CASE UNCHANGED influencersVars
    BY <1>1 DEF influencersVars, InfluencersInv, WalkInv, WalkOK, Ordered, Newer, Exists,
                ListInfluencers, AfterCursor
  <1>2. CASE InfluencersNext
    <2>1. Steadfast
      BY StaysListed DEF InfluencersInv
    <2>2. \A r \in Readers : Following(r)
      BY <1>2 DEF InfluencersNext, Following
    <2>3. ASSUME NEW r \in Readers
          PROVE  WalkOK(walk[r], steady[r])' /\ steady'[r] \subseteq Profiles /\ walk'[r] \in WalkType
      <3>1. CASE walk'[r] = walk[r]
        BY <2>1, <2>2, <3>1, WalkStays DEF InfluencersInv, WalkInv
      <3>2. CASE Read(r)
        BY <2>2, <3>2, BeginWalkKeeps, NextPageKeeps DEF InfluencersInv, Read
      <3>3. walk'[r] = walk[r] \/ Read(r)
        <4>1. CASE \E q \in Readers : Read(q)
          <5>1. PICK q \in Readers : Read(q)
            BY <4>1
          <5>2. q # r => walk'[r] = walk[r]
            BY <5>1 DEF Read, BeginWalk, NextPage, InfluencersInv, WalkInv
          <5> QED BY <5>1, <5>2
        <4>2. CASE \E w \in Writers : Write(w)
          BY <4>2 DEF Write, CreateInfluencer, UpsertInstagramInfluencer, AddHandle, DeleteHandle,
                      RecomputeTier, Commit, Rollback
        <4>3. CASE \E i \in Profiles, niche \in Niches : UpdateInfluencer(i, niche)
          BY <4>3 DEF UpdateInfluencer
        <4> QED BY <1>2, <4>1, <4>2, <4>3 DEF InfluencersNext
      <3> QED BY <3>1, <3>2, <3>3
    <2>4. walk' = [r \in Readers |-> walk'[r]]
      BY <1>2 DEF InfluencersNext, Write, CreateInfluencer, UpsertInstagramInfluencer, AddHandle, DeleteHandle,
                  RecomputeTier, Commit, Rollback, UpdateInfluencer, Read, BeginWalk, NextPage,
                  InfluencersInv, WalkInv
    <2>5. steady' = [r \in Readers |-> steady'[r]]
      BY <1>2 DEF InfluencersNext
    <2> QED BY <2>3, <2>4, <2>5 DEF WalkInv
  <1> QED BY <1>1, <1>2

LEMMA InfluencersInvHolds == InfluencersSpec => []InfluencersInv
  <1>1. InfluencersInit => InfluencersInv
    BY InfluencersStart, InfluencersAssumption
  <1>2. InfluencersInv /\ [InfluencersNext]_influencersVars => InfluencersInv'
    BY WriteStep, WalkStep, InfluencersAssumption DEF InfluencersInv
  <1> QED BY <1>1, <1>2, PTL DEF InfluencersSpec

LEMMA InvTypes ==
  ASSUME InfluencersAssumption, InfluencersInv
  PROVE  InfluencersTypeOK
  <1>1. ASSUME NEW r \in Readers
        PROVE  /\ walk[r].pc \in {"idle", "paging", "done"}
               /\ walk[r].after \in Listed \cup {Null}
               /\ ToSet(walk[r].seen) \subseteq Listed
    <2>1. PICK g : g = walk[r]
      OBVIOUS
    <2>2. g \in WalkType /\ WalkOK(g, steady[r]) /\ g.seen \in Seq(Profiles)
      BY <2>1 DEF InfluencersInv, WalkInv, WalkType
    <2>3. \A k \in DOMAIN g.seen : g.seen[k] \in Listed
      BY <2>2 DEF WalkOK, Listed
    <2>4. ASSUME g.after # Null PROVE g.after \in Listed
      <3>1. g.seen # <<>> /\ g.after = Last(g.seen)
        BY <2>2, <2>4 DEF WalkOK, WalkType
      <3>2. Len(g.seen) \in DOMAIN g.seen
        BY <2>2, <3>1
      <3> QED BY <2>3, <3>1, <3>2 DEF Last
    <2>5. ToSet(g.seen) \subseteq Listed
      BY <2>3 DEF ToSet
    <2> QED BY <2>1, <2>2, <2>4, <2>5 DEF WalkType
  <1> QED BY <1>1 DEF InfluencersTypeOK, InfluencersInv, WriteInv, Tables, ProfileType, HandleType

\* Tables, transactions and walks hold what their columns and fields may hold, and
\* handles, tiers and cursors only name influencers that exist.
THEOREM InfluencerTypes == InfluencersSpec => []InfluencersTypeOK
  <1>1. InfluencersInv => InfluencersTypeOK
    BY InvTypes, InfluencersAssumption
  <1> QED BY <1>1, InfluencersInvHolds, PTL

\* A client that follows the cursors of ListInfluencers is shown rows in order and once,
\* and by the end every one its filter let through all along, whatever is written.
THEOREM PagesAreWhole == InfluencersSpec => []WalkIsWhole
  <1>1. InfluencersInv => WalkIsWhole
    BY DEF InfluencersInv, WalkInv, WalkOK, WalkIsWhole, Ordered
  <1> QED BY <1>1, InfluencersInvHolds, PTL

\* recomputeTier leaves the band of the largest count on record, of any number of
\* handles, whenever the last write of the influencer's handles overlapped no other.
THEOREM LoneWritesRepair == InfluencersSpec => []LoneWritesSetTier
  <1>1. InfluencersInv => LoneWritesSetTier
    BY DEF InfluencersInv, WriteInv
  <1> QED BY <1>1, InfluencersInvHolds, PTL
=============================================================================
