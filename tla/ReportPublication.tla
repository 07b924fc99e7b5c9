-------------------------- MODULE ReportPublication --------------------------
(***************************************************************************)
(* Publishing, sharing and withdrawing a report, and the erasure that a    *)
(* Meta deauthorize or data-deletion callback starts.                      *)
(*                                                                         *)
(* Each request runs one operation as the sequence of its calls to the     *)
(* database, the object store and the token store; the requests            *)
(* interleave at those calls.  An audit has one PDF object and one report  *)
(* row, whatever the number of publishes.                                  *)
(***************************************************************************)
EXTENDS Naturals, FiniteSets

CONSTANTS
  Requests,    \* API requests and callbacks; each runs one operation
  Audits,      \* audit jobs
  Creators,    \* users with a connected account
  None,        \* no creator, no slug, no audit
  MaxVersion,  \* scorings of one influencer
  FaultBudget  \* faults of each kind the environment may inject

Faults == {
  "upsertError",  \* UpsertReport not applied
  "linkError",    \* ShareURL fails after the row was written
  "revokeError",  \* the transaction of RevokeGrantsByUser rolled back
  "die" }         \* the process serving a request dies

ASSUME PublicationAssumption ==
  /\ None \notin Requests
  /\ None \notin Creators
  /\ None \notin Audits
  /\ MaxVersion \in Nat
  /\ FaultBudget \in [Faults -> Nat]

VARIABLES
  director,  \* director[a]: who requested audit a and owns the audited account
  score,     \* score[u]: version of the latest score of u's influencer, or 0
  connected, \* connected[u]: u's provider token is stored
  object,    \* object[a]: version in the PDF stored under reports/<a>.pdf, or 0
  report,    \* report[a]: the row of a, with slug None when there is none
  grant,     \* grant[r]: the share grant that request r recorded
  req,       \* req[r]: the operation of r, how far it is, and what it has read
  before,    \* before[r]: published and shared audits when r began (bookkeeping)
  budget     \* faults the environment may still inject

accounts == <<director, connected>>
rows == <<report, grant>>
vars == <<accounts, score, object, rows, req, before, budget>>

PCs == {"idle", "put", "upsert", "link", "grant", "revoke", "forget", "scan",
        "commit", "ok", "unknown", "refused", "failed", "dead"}
Ended == {"ok", "unknown", "refused", "failed", "dead"}
Ops == {"none", "publish", "share", "revoke", "erase"}

NoReport == [slug |-> None, badge |-> 0, revoked |-> FALSE, expired |-> FALSE]
NoRequest == [op |-> "none", pc |-> "idle", audit |-> None, by |-> None,
              version |-> 0, scope |-> {}]

TypeOK ==
  /\ director \in [Audits -> Creators \cup {None}]
  /\ score \in [Creators -> 0..MaxVersion]
  /\ connected \in [Creators -> BOOLEAN]
  /\ object \in [Audits -> 0..MaxVersion]
  /\ report \in [Audits -> [slug : Requests \cup {None}, badge : 0..MaxVersion,
                            revoked : BOOLEAN, expired : BOOLEAN]]
  /\ \A a \in Audits : report[a].slug = None => report[a] = NoReport
  /\ grant \in [Requests -> {"none", "live", "withdrawn"}]
  /\ req \in [Requests -> [op : Ops, pc : PCs, audit : Audits \cup {None},
                           by : Creators \cup {None}, version : 0..MaxVersion,
                           scope : SUBSET Audits]]
  /\ before \in [Requests -> [published : SUBSET Audits, shared : SUBSET Audits]]
  /\ budget \in [Faults -> Nat]

Init ==
  /\ director \in [Audits -> Creators \cup {None}]
  /\ score = [u \in Creators |-> 0]
  /\ connected = [u \in Creators |-> TRUE]
  /\ object = [a \in Audits |-> 0]
  /\ report = [a \in Audits |-> NoReport]
  /\ grant = [r \in Requests |-> "none"]
  /\ req = [r \in Requests |-> NoRequest]
  /\ before = [r \in Requests |-> [published |-> {}, shared |-> {}]]
  /\ budget = FaultBudget

Spend(fault) ==
  /\ budget[fault] > 0
  /\ budget' = [budget EXCEPT ![fault] = @ - 1]

NoFault == UNCHANGED budget

\* The rows a public read returns: GetByPublicSlug and GetByHandle filter alike.
Visible(a) == report[a].slug # None /\ ~report[a].revoked /\ ~report[a].expired

Published == {a \in Audits : report[a].slug # None}
GrantsOn(a) == {r \in Requests : grant[r] # "none" /\ req[r].audit = a}
GrantsBy(u) == {r \in Requests : grant[r] # "none" /\ req[r].by = u}
Shared == {a \in Audits : GrantsOn(a) # {}}

At(r, op, pc) == req[r].op = op /\ req[r].pc = pc
Goto(r, pc) == req' = [req EXCEPT ![r].pc = pc]

\* A request for operation op on audit a by u passes or fails its checks:
\* AuditView shows an audit to its requester only, and requireConnectedOwner
\* admits only the owner of the audited account.
Begin(r, op, a, u, ok, pc) ==
  /\ req[r] = NoRequest
  /\ req' = [req EXCEPT ![r] = [NoRequest EXCEPT
       !.op = op, !.audit = a, !.by = u,
       !.pc = IF (a = None \/ director[a] = u) /\ ok THEN pc ELSE "refused",
       !.version = IF op = "publish" THEN score[u] ELSE 0]]
  /\ before' = [before EXCEPT ![r] = [published |-> Published, shared |-> Shared]]
  /\ UNCHANGED <<accounts, score, object, rows, budget>>

-----------------------------------------------------------------------------
(* Publish: assemble and check, store the PDF, write the row, mint the link *)
\* Assemble reads the influencer's latest score; without one it is refused.
BeginPublish(r, a, u) == Begin(r, "publish", a, u, score[u] > 0, "put")

\* The object key is the audit's, so a second publish overwrites the first PDF.
PutObject(r) ==
  /\ At(r, "publish", "put")
  /\ object' = [object EXCEPT ![req[r].audit] = req[r].version]
  /\ Goto(r, "upsert")
  /\ UNCHANGED <<accounts, score, rows, before, budget>>
\* Mutant of RowAfterPublish: publishing again lifts the revocation.
RowAfterPublishRevives(row, slug, version) ==
  [row EXCEPT !.slug = IF @ = None THEN slug ELSE @, !.badge = version,
              !.expired = FALSE, !.revoked = FALSE]

\* The upsert keeps the first slug, restates the badge and the expiry, and does
\* not touch revoked_at.
RowAfterPublish(row, slug, version) ==
  [row EXCEPT !.slug = IF @ = None THEN slug ELSE @, !.badge = version, !.expired = FALSE]

UpsertReport(r) ==
  LET a == req[r].audit IN
  /\ At(r, "publish", "upsert")
  /\ \/ /\ report' = [report EXCEPT ![a] = RowAfterPublish(@, r, req[r].version)]
        /\ Goto(r, "link")
        /\ NoFault
     \/ Goto(r, "failed") /\ Spend("upsertError") /\ UNCHANGED report
  /\ UNCHANGED <<accounts, score, object, grant, before>>

\* The link is minted from the stored object; telling the creator by mail that follows
\* cannot fail the publish.
MintLink(r) ==
  /\ At(r, "publish", "link")
  /\ (Goto(r, "ok") /\ NoFault) \/ (Goto(r, "failed") /\ Spend("linkError"))
  /\ UNCHANGED <<accounts, score, object, rows, before>>

-----------------------------------------------------------------------------
(* Share: find the report row, then record the grant *)

\* ReportIDOf finds the row of a published report, revoked or not.
BeginShare(r, a, u) == Begin(r, "share", a, u, a \in Published, "grant")

InsertShareGrant(r) ==
  /\ At(r, "share", "grant")
  /\ grant' = [grant EXCEPT ![r] = "live"]
  /\ Goto(r, "ok")
  /\ UNCHANGED <<accounts, score, object, report, before, budget>>

-----------------------------------------------------------------------------
(* Withdrawal: Revoke for one audit, the erasure for everything of a creator *)

RevokeRows(S) ==
  report' = [a \in Audits |->
               IF a \in S /\ report[a].slug # None
                 THEN [report[a] EXCEPT !.revoked = TRUE] ELSE report[a]]

WithdrawGrants(R) == grant' = [r \in Requests |-> IF r \in R THEN "withdrawn" ELSE grant[r]]

BeginRevoke(r, a, u) == Begin(r, "revoke", a, u, TRUE, "revoke")
\* Row and grants in one transaction.
RevokeByAuditJob(r) ==
  /\ At(r, "revoke", "revoke")
  /\ RevokeRows({req[r].audit})
  /\ WithdrawGrants(GrantsOn(req[r].audit))
  /\ Goto(r, "ok")
  /\ UNCHANGED <<accounts, score, object, before, budget>>

\* The callback names a provider account, not an audit.
BeginErase(r, u) == Begin(r, "erase", None, u, TRUE, "forget")

\* The tokens go first; when none is found the callback is answered at once.
ForgetProviderUser(r) ==
  LET u == req[r].by IN
  /\ At(r, "erase", "forget")
  /\ connected' = [connected EXCEPT ![u] = FALSE]
  /\ Goto(r, IF connected[u] THEN "scan" ELSE "unknown")
  /\ UNCHANGED <<director, score, object, rows, before, budget>>

\* First statement of RevokeGrantsByUser: the reports a grant of the user is on.
ScanReports(r) ==
  /\ At(r, "erase", "scan")
  /\ req' = [req EXCEPT ![r].pc = "commit", ![r].scope =
       {a \in Audits : ~report[a].revoked /\ GrantsOn(a) \cap GrantsBy(req[r].by) # {}}]
  /\ UNCHANGED <<accounts, score, object, rows, before, budget>>

\* Second statement and commit.  An error is logged and the callback answers OK.
RevokeGrantsByUser(r) ==
  /\ At(r, "erase", "commit")
  /\ Goto(r, "ok")
  /\ \/ RevokeRows(req[r].scope) /\ WithdrawGrants(GrantsBy(req[r].by)) /\ NoFault
     \/ Spend("revokeError") /\ UNCHANGED rows
  /\ UNCHANGED <<accounts, score, object, before>>

-----------------------------------------------------------------------------
(* The environment *)

\* The OAuth flow stores a token, and Disconnect deletes it; neither touches a
\* report.
Connect(u) ==
  /\ ~connected[u]
  /\ connected' = [connected EXCEPT ![u] = TRUE]
  /\ UNCHANGED <<director, score, object, rows, req, before, budget>>

Disconnect(u) ==
  /\ connected[u]
  /\ connected' = [connected EXCEPT ![u] = FALSE]
  /\ UNCHANGED <<director, score, object, rows, req, before, budget>>

Rescore(u) ==
  /\ score[u] < MaxVersion
  /\ score' = [score EXCEPT ![u] = @ + 1]
  /\ UNCHANGED <<accounts, object, rows, req, before, budget>>

\* badgeTTL passes after the last publish.
Expire(a) ==
  /\ report[a].slug # None /\ ~report[a].expired
  /\ report' = [report EXCEPT ![a].expired = TRUE]
  /\ UNCHANGED <<accounts, score, object, grant, req, before, budget>>

Die(r) ==
  /\ req[r].pc \notin Ended \cup {"idle"}
  /\ Goto(r, "dead")
  /\ Spend("die")
  /\ UNCHANGED <<accounts, score, object, rows, before>>

Start(r) ==
  \E u \in Creators :
    \/ BeginErase(r, u)
    \/ \E a \in Audits : BeginPublish(r, a, u) \/ BeginShare(r, a, u) \/ BeginRevoke(r, a, u)

Proceed(r) ==
  \/ PutObject(r) \/ UpsertReport(r) \/ MintLink(r)
  \/ InsertShareGrant(r)
  \/ RevokeByAuditJob(r)
  \/ ForgetProviderUser(r) \/ ScanReports(r) \/ RevokeGrantsByUser(r)

Next ==
  \/ \E r \in Requests : Start(r) \/ Proceed(r) \/ Die(r)
  \/ \E u \in Creators : Rescore(u) \/ Connect(u) \/ Disconnect(u)
  \/ \E a \in Audits : Expire(a)

Spec == Init /\ [][Next]_vars

-----------------------------------------------------------------------------
(* What anyone may read *)

\* The frozen snapshot of a row, with a link to the PDF that is stored at the time.
projectBadge(a) == [audit |-> a, badge |-> report[a].badge, pdf |-> object[a]]

\* GET /reports/:slug.  Counting the read as an open is best effort.
PublicBadge(slug) == {projectBadge(a) : a \in {b \in Audits : Visible(b) /\ report[b].slug = slug}}

\* GET /handle/:handle serves the newest of the live reports whose
\* snapshot names the handle; any of the creator's may be the newest.
PublicBadgeByHandle(u) ==
  {projectBadge(a) : a \in {b \in Audits : Visible(b) /\ director[b] = u}}

\* Everything a reader without an account can be shown.
Served ==
  (UNION {PublicBadge(slug) : slug \in Requests})
    \cup (UNION {PublicBadgeByHandle(u) : u \in Creators})

-----------------------------------------------------------------------------
(* Properties *)

\* A public link never changes: "a badge link shared after the first publish
\* keeps working across every subsequent re-render", also when the first two
\* publishes of an audit overlap.
SlugIsStable ==
  [][\A a \in Audits : report[a].slug # None => report'[a].slug = report[a].slug]_vars

\* The step that withdraws a report leaves no live grant on it.
WithdrawalIsTotal ==
  [][\A a \in Audits : ~report[a].revoked /\ report'[a].revoked =>
       \A r \in Requests : req[r].audit = a => grant'[r] # "live"]_vars

\* Once an erasure that found its creator answered and no erasure failed, no
\* report shared before the callback arrived is ever served again, at its link or
\* under the creator's handle, whatever publishes, shares and withdrawals were in
\* flight or follow.
EraseReachesShared ==
  budget["revokeError"] = FaultBudget["revokeError"] =>
    \A r \in Requests : At(r, "erase", "ok") =>
      \A b \in Served : b.audit \in before[r].shared => director[b.audit] # req[r].by

Badge(a) ==
  IF report[a].slug = None THEN "private"
  ELSE IF report[a].revoked THEN "withdrawn"
  ELSE IF report[a].expired THEN "lapsed"
  ELSE "public"

Consent == INSTANCE Disclosure WITH badge <- [a \in Audits |-> Badge(a)]

\* Publication implements Disclosure: nothing brings a withdrawn badge back.
ImplementsDisclosure == Consent!DisclosureSpec
-----------------------------------------------------------------------------
(* What comments of the code say and the model refutes: see the README *)

\* An answered erasure reaches every report published before the callback
\* arrived: "tokens erased, published reports revoked, every share grant
\* withdrawn".
EraseReachesPublished ==
  \A r \in Requests : At(r, "erase", "ok") =>
    \A a \in before[r].published : director[a] = req[r].by => ~Visible(a)

\* So does a callback whose creator has no token left: "once a creator
\* disconnects or asks for deletion, nothing they shared stays reachable".
ForgottenIsWithdrawn ==
  \A r \in Requests :
    At(r, "erase", "unknown")
    /\ (\A s \in Requests : req[s].op = "erase" => req[s].pc \in Ended)
    => \A a \in before[r].shared : director[a] = req[r].by => ~Visible(a)

\* A withdrawn report has no live grant: "no recipient keeps access".
WithdrawnHasNoLiveGrant ==
  \A a \in Audits : report[a].revoked => \A r \in GrantsOn(a) : grant[r] # "live"

\* What a public read serves is one report: the badge of the row and the PDF
\* behind its link carry the same score, once no publish of it is under way.
BadgeMatchesPDF ==
  \A b \in Served :
    (\A r \in Requests : req[r].audit = b.audit => req[r].pc \in Ended) => b.pdf = b.badge

\* A publish that answers leaves a badge that resolves, unless it is withdrawn
\* after the row was written.
PublishIsServed ==
  [][\A r \in Requests : At(r, "publish", "upsert") /\ req'[r].pc = "link"
       => Visible(req[r].audit)']_vars
=============================================================================
