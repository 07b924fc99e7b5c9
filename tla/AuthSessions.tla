----------------------------- MODULE AuthSessions -----------------------------
(***************************************************************************)
(* Accounts and refresh-token sessions: register, sign up through a        *)
(* provider, login, refresh (which rotates the token) and logout, each a   *)
(* sequence of database statements that other requests interleave with.    *)
(*                                                                         *)
(* A request issues at most one session, so the session and its token are  *)
(* named after the request.  A token may be presented any number of times: *)
(* by a client that retries, or by a second holder.                        *)
(***************************************************************************)
EXTENDS FiniteSets

CONSTANTS
  Requests,  \* requests to the auth endpoints
  Emails,    \* addresses
  None       \* no address, no request

ASSUME AuthAssumption == None \notin Requests /\ None \notin Emails

VARIABLES
  account,  \* account[e]: status and kind of the account of e, or "none"
  req,      \* req[r]: the request r
  session,  \* session[r]: the session that r has issued, or "none"
  expired,  \* sessions whose refresh window has closed
  family    \* family[r]: the sign-in that the session of r goes back to (bookkeeping)

vars == <<account, req, session, expired, family>>

Status == {"none", "active", "suspended"}
Answers == {"ok", "reused", "done"}
Steps == {"create", "issue", "start", "status", "rotate", "insert", "revoke", "family", "revoking"}

\* of: the session the request presents; picked: the rows of its family revocation.
\* late and known are bookkeeping: the account was suspended when the request came;
\* the sessions the account had when the reuse of a token was noticed.
NoRequest == [pc |-> "idle", email |-> None, of |-> None,
              picked |-> {}, late |-> FALSE, known |-> {}]

TypeOK ==
  /\ account \in [Emails -> [status : Status, password : BOOLEAN]]
  /\ req \in [Requests -> [pc : {"idle"} \cup Steps \cup Answers,
                           email : Emails \cup {None}, of : Requests \cup {None},
                           picked : SUBSET Requests, late : BOOLEAN, known : SUBSET Requests]]
  /\ session \in [Requests -> {"none", "live", "revoked"}]
  /\ expired \subseteq Requests
  /\ family \in [Requests -> Requests \cup {None}]
  /\ \A r \in Requests :
       /\ req[r].pc # "idle" => req[r].email \in Emails
       /\ req[r].pc = "insert" => req[r].of # None /\ session[req[r].of] = "live"
       /\ session[r] # "none" => req[r].pc = "ok" /\ family[r] \in Requests

Init ==
  /\ account = [e \in Emails |-> [status |-> "none", password |-> FALSE]]
  /\ req = [r \in Requests |-> NoRequest]
  /\ session = [r \in Requests |-> "none"]
  /\ expired = {}
  /\ family = [r \in Requests |-> None]

Issued == {s \in Requests : session[s] # "none"}
Live == {s \in Requests : session[s] = "live"}
SessionsOf(e) == {s \in Issued : req[s].email = e}

\* The row of a session is locked by a rotation that has not committed.
Locked(s) == \E r \in Requests : req[r].pc = "insert" /\ req[r].of = s

Goto(r, pc) == req' = [req EXCEPT ![r].pc = pc]

\* The request ends without a session, turned down or not.
Done(r, e) == req' = [req EXCEPT ![r] = [NoRequest EXCEPT !.pc = "done", !.email = e]]

Arrive(r, e, of, pc) ==
  /\ req[r].pc = "idle"
  /\ req' = [req EXCEPT ![r] = [NoRequest EXCEPT
       !.email = e, !.of = of, !.pc = pc,
       !.late = account[e].status = "suspended"]]

-----------------------------------------------------------------------------
(* Signing in *)

\* The unique index on the address admits one account.
CreateUser(e, password) ==
  /\ account[e].status = "none"
  /\ account' = [account EXCEPT ![e] = [status |-> "active", password |-> password]]

Register(r, e) ==
  /\ \/ /\ CreateUser(e, TRUE)
        /\ Arrive(r, e, None, "start")
     \/ /\ account[e].status # "none"
        /\ req[r].pc = "idle" /\ Done(r, e)
        /\ UNCHANGED account
  /\ UNCHANGED <<session, expired, family>>

\* The password is right or not; a social account has none.
Login(r, e) ==
  /\ \/ /\ account[e].status = "active" /\ account[e].password
        /\ Arrive(r, e, None, "start")
     \/ req[r].pc = "idle" /\ Done(r, e)
  /\ UNCHANGED <<account, session, expired, family>>

\* ProvisionSocialUser: find the account, or create it in a later statement.
ProvisionSocialUser(r, e) ==
  /\ \/ account[e].status = "active" /\ Arrive(r, e, None, "issue")
     \/ account[e].status = "none" /\ Arrive(r, e, None, "create")
     \/ account[e].status = "suspended" /\ req[r].pc = "idle" /\ Done(r, e)
  /\ UNCHANGED <<account, session, expired, family>>

\* The loser of the race for the address takes the winner's account as it is.
CreateSocialUser(r) ==
  /\ req[r].pc = "create"
  /\ \/ CreateUser(req[r].email, FALSE)
     \/ account[req[r].email].status # "none" /\ UNCHANGED account
  /\ Goto(r, "issue")
  /\ UNCHANGED <<session, expired, family>>

\* IssueSession reads the account again before it starts the session.
IssueSession(r) ==
  /\ req[r].pc = "issue"
  /\ IF account[req[r].email].status = "active" THEN Goto(r, "start") ELSE Done(r, req[r].email)
  /\ UNCHANGED <<account, session, expired, family>>

StartSession(r) ==
  /\ req[r].pc = "start"
  /\ session' = [session EXCEPT ![r] = "live"]
  /\ family' = [family EXCEPT ![r] = r]
  /\ Goto(r, "ok")
  /\ UNCHANGED <<account, expired>>

-----------------------------------------------------------------------------
(* Refresh and logout *)

\* The request goes on to revoke the sessions of the account.
Reuse(r, e) ==
  req' = [req EXCEPT ![r] = [NoRequest EXCEPT
    !.pc = "family", !.email = e, !.known = SessionsOf(e)]]

\* A revoked session is the signal of reuse, an expired one is only turned down.
Refresh(r, s) ==
  LET e == req[s].email IN
  /\ req[r].pc = "idle" /\ session[s] # "none"
  /\ \/ session[s] = "live" /\ s \notin expired /\ Arrive(r, e, s, "status")
     \/ session[s] = "live" /\ s \in expired /\ Done(r, e)
     \/ session[s] = "revoked" /\ Reuse(r, e)
  /\ UNCHANGED <<account, session, expired, family>>

\* Mutant of CheckStatus: the account is not read again.
CheckStatusSkipped(r) ==
  /\ req[r].pc = "status"
  /\ Goto(r, "rotate")
  /\ UNCHANGED <<account, session, expired, family>>

CheckStatus(r) ==
  /\ req[r].pc = "status"
  /\ Goto(r, IF account[req[r].email].status = "active" THEN "rotate" ELSE "revoke")
  /\ UNCHANGED <<account, session, expired, family>>

\* Mutant of RotateRevoke: the revocation is not conditional on the row being live.
RotateRevokeAnyway(r) ==
  /\ req[r].pc = "rotate" /\ ~Locked(req[r].of)
  /\ Goto(r, "insert")
  /\ UNCHANGED <<account, session, expired, family>>

\* First statement of RotateSession: it takes the lock of the row, and finds the row
\* live or has lost the race.
RotateRevoke(r) ==
  LET s == req[r].of IN
  /\ req[r].pc = "rotate" /\ ~Locked(s)
  /\ \/ /\ session[s] = "live"
        /\ Goto(r, "insert")
     \/ session[s] # "live" /\ Reuse(r, req[r].email)
  /\ UNCHANGED <<account, session, expired, family>>

\* The replacement is inserted and both changes are committed.
RotateCommit(r) ==
  LET s == req[r].of IN
  /\ req[r].pc = "insert"
  /\ session' = [session EXCEPT ![s] = "revoked", ![r] = "live"]
  /\ family' = [family EXCEPT ![r] = family[s]]
  /\ Goto(r, "ok")
  /\ UNCHANGED <<account, expired>>

\* Mutant of RevokePicks: only the presented session and its replacement.
RevokePicksPair(r) == {s \in Live : s = req[r].of \/ req[s].of = req[r].of}

\* RevokeUserSessions updates the live rows that its statement sees when it begins.
RevokePicks(r) == SessionsOf(req[r].email) \cap Live

BeginRevokeUserSessions(r) ==
  /\ req[r].pc = "family"
  /\ req' = [req EXCEPT ![r].pc = "revoking", ![r].picked = RevokePicks(r)]
  /\ UNCHANGED <<account, session, expired, family>>

\* It waits for the rotations that hold a row it picked.
RevokeUserSessions(r) ==
  /\ req[r].pc = "revoking"
  /\ \A s \in req[r].picked : ~Locked(s)
  /\ session' = [s \in Requests |-> IF s \in req[r].picked THEN "revoked" ELSE session[s]]
  /\ req' = [req EXCEPT ![r].pc = "reused", ![r].picked = {}]
  /\ UNCHANGED <<account, expired, family>>

Logout(r, s) ==
  /\ session[s] # "none"
  /\ Arrive(r, req[s].email, s, "revoke")
  /\ UNCHANGED <<account, session, expired, family>>

\* The answer to a logout, and to a refresh of an account that is not active.
RevokeSession(r) ==
  LET s == req[r].of IN
  /\ req[r].pc = "revoke" /\ ~Locked(s)
  /\ session' = [session EXCEPT ![s] = "revoked"]
  /\ Done(r, req[r].email)
  /\ UNCHANGED <<account, expired, family>>

\* A statement fails, or the process goes down: an open transaction is rolled back.
Abort(r) ==
  /\ req[r].pc \in Steps
  /\ Done(r, req[r].email)
  /\ UNCHANGED <<account, session, expired, family>>

-----------------------------------------------------------------------------
(* Outside the handlers *)

Suspend(e) ==
  /\ account[e].status = "active"
  /\ account' = [account EXCEPT ![e].status = "suspended"]
  /\ UNCHANGED <<req, session, expired, family>>

Expire(s) ==
  /\ session[s] = "live" /\ s \notin expired
  /\ expired' = expired \cup {s}
  /\ UNCHANGED <<account, req, session, family>>

Next ==
  \/ \E r \in Requests :
       \/ \E e \in Emails : Register(r, e) \/ Login(r, e) \/ ProvisionSocialUser(r, e)
       \/ CreateSocialUser(r) \/ IssueSession(r) \/ StartSession(r)
       \/ \E s \in Requests : Refresh(r, s) \/ Logout(r, s)
       \/ CheckStatus(r) \/ RotateRevoke(r) \/ RotateCommit(r)
       \/ BeginRevokeUserSessions(r) \/ RevokeUserSessions(r) \/ RevokeSession(r)
       \/ Abort(r)
  \/ \E e \in Emails : Suspend(e)
  \/ \E s \in Requests : Expire(s)

Spec == Init /\ [][Next]_vars

-----------------------------------------------------------------------------
(* Properties *)

\* However often a token is presented and whoever wins, a sign-in has at most one
\* session that is good ("two concurrent refreshes of the same token cannot both
\* succeed").
OneLivePerFamily ==
  \A s, t \in Live : family[s] = family[t] => s = t

\* When the reuse of a token has been answered, every session the account had when
\* the reuse was noticed is revoked, whatever was rotated or logged out meanwhile.
KnownAreRevoked ==
  \A r \in Requests : req[r].pc = "reused" => \A s \in req[r].known : session[s] = "revoked"

\* A request that comes when the account is suspended never gets a session, through
\* whichever endpoint and whatever it read before.
LateGetsNothing ==
  \A r \in Requests : req[r].late => session[r] = "none"

Chain == INSTANCE TokenChain WITH
  Chains <- Requests, Tokens <- Requests,
  issued <- [c \in Requests |-> {s \in Issued : family[s] = c}],
  current <- [c \in Requests |-> {s \in Live : family[s] = c}]

\* The sessions of a sign-in are a chain of tokens: a token is good until it is
\* exchanged or revoked, and a chain that has ended never continues.
ImplementsTokenChain == Chain!Spec

-----------------------------------------------------------------------------
(* What a comment of the code says and the model refutes: see the README *)

\* "Presenting an already-revoked token is treated as theft - the entire session
\* family is revoked": no session goes back to one that was known then.
FamilyIsRevoked ==
  \A r \in Requests : req[r].pc = "reused" =>
    \A s \in Live : \A t \in req[r].known : family[s] # family[t]
=============================================================================
