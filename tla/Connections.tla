------------------------------ MODULE Connections ------------------------------
(***************************************************************************)
(* Connecting accounts: an authorization is begun by a signed-in user at a *)
(* provider (connect) or by a visitor with an address (sign-up, at Meta),  *)
(* and finished by a callback that redeems the state once, exchanges the   *)
(* code, and stores what follows from it, sealed, in steps that other      *)
(* requests interleave with.  Disconnects, deletion callbacks and the      *)
(* dashboard's handles work on the same rows, and an audit opens them.     *)
(*                                                                         *)
(* An address and the user it belongs to are one value, and so are an      *)
(* account and its public handle.                                          *)
(***************************************************************************)
EXTENDS Naturals, FiniteSets

CONSTANTS
  Users,     \* users, and the addresses they sign up with
  Accounts,  \* Instagram business accounts and YouTube channels
  PlatformOf,\* PlatformOf[a]: the platform of the account a
  Enabled,   \* providers whose connector is enabled and has its credentials
  MaxListed, \* accounts in one answer of a provider
  Persons,   \* people at the provider, who grant access to accounts
  Profiles,  \* influencer rows
  Flows,     \* authorizations, each with a state of its own
  Calls,     \* callbacks, replays included
  None

ASSUME ConnectionsAssumption ==
  /\ None \notin Users \cup Accounts \cup Persons \cup Profiles \cup Flows
  /\ PlatformOf \in [Accounts -> {"youtube", "instagram"}]
  /\ Enabled \subseteq {"google", "meta"}
  /\ MaxListed \in Nat

VARIABLES
  users,     \* users that exist
  flow,      \* flow[f]: the authorization f and its state in Redis
  call,      \* call[c]: the callback c
  owner,     \* owner[i]: the owner of the profile i
  row,       \* row[a]: the handle of the account a
  tokens,    \* rows of oauth_token
  clock,     \* the time that dates the next row
  gone,      \* connections that have been deleted, <<user, account>> (bookkeeping)
  unlisted   \* accounts whose handle has been deleted (bookkeeping)

vars == <<users, flow, call, owner, row, tokens, clock, gone, unlisted>>

\* The closed set of providers, each with the platform it authorizes.
providers == [google |-> "youtube", meta |-> "instagram"]
Providers == DOMAIN providers
signupProvider == "meta"

NoFlow == [state |-> "none", signup |-> FALSE, user |-> None, provider |-> None]
NoCall == [pc |-> "idle", flow |-> None, signup |-> FALSE, user |-> None,
           provider |-> None, account |-> None, person |-> None, profile |-> None, redeemed |-> FALSE]
NoHandle == [profile |-> None, id |-> FALSE]

Steps == {"exchange", "user", "lookup", "claim", "create", "token", "session"}

\* A secret sealed under a key of its own, which is wrapped for the same owner; the
\* exchange the secret comes from stands for the key.
Sealed == [key : Flows, aad : Users]

Token == [user : Users, account : Accounts, person : Persons \cup {None},
          flow : Flows, at : Nat,
          sealed : [enc : Sealed, dek : Sealed]]

TypeOK ==
  /\ users \subseteq Users
  /\ flow \in [Flows -> [state : {"none", "saved", "gone"}, signup : BOOLEAN,
                         user : Users \cup {None}, provider : Providers \cup {None}]]
  /\ call \in [Calls -> [pc : {"idle", "ok", "failed"} \cup Steps,
                         flow : Flows \cup {None}, signup : BOOLEAN,
                         user : Users \cup {None}, provider : Providers \cup {None},
                         account : Accounts \cup {None}, person : Persons \cup {None},
                         profile : Profiles \cup {None}, redeemed : BOOLEAN]]
  /\ owner \in [Profiles -> Users \cup {None}]
  /\ row \in [Accounts -> [profile : Profiles \cup {None}, id : BOOLEAN]]
  /\ tokens \subseteq Token /\ clock \in Nat
  /\ gone \subseteq Users \X Accounts
  /\ unlisted \subseteq Accounts
  /\ \A s, t \in tokens : s.user = t.user /\ s.account = t.account => s = t

Init ==
  /\ users \in SUBSET Users
  /\ flow = [f \in Flows |-> NoFlow]
  /\ call = [c \in Calls |-> NoCall]
  /\ owner = [i \in Profiles |-> None]
  /\ row = [a \in Accounts |-> NoHandle]
  /\ tokens = {} /\ clock = 0
  /\ gone = {} /\ unlisted = {}

-----------------------------------------------------------------------------
(* Beginning an authorization *)

\* resolveEnabled and credentials: nothing is minted or consumed for a provider that
\* this deployment does not offer.
Available(pr) == pr \in Enabled

SaveState(f, u, signup, pr) ==
  /\ flow[f].state = "none" /\ Available(pr)
  /\ flow' = [flow EXCEPT ![f] = [state |-> "saved", signup |-> signup, user |-> u,
                                  provider |-> pr]]
  /\ UNCHANGED <<users, call, owner, row, tokens, clock, gone, unlisted>>

Authorize(f, u, pr) == u \in users /\ SaveState(f, u, FALSE, pr)

AuthorizeSignup(f, u) == SaveState(f, u, TRUE, signupProvider)

\* The TTL of the state runs out.
ExpireState(f) ==
  /\ flow[f].state = "saved"
  /\ flow' = [flow EXCEPT ![f].state = "gone"]
  /\ UNCHANGED <<users, call, owner, row, tokens, clock, gone, unlisted>>

-----------------------------------------------------------------------------
(* Redeeming the state *)

\* Mutant of Consume: the state is read and not deleted with the read.
ConsumeByGet(f) == flow' = flow

\* GETDEL reads and deletes in one operation.
Consume(f) == flow' = [flow EXCEPT ![f].state = "gone"]

\* Mutant of Admits: whose state it is is not compared.
AdmitsAnyCaller(f, signup, u, pr) ==
  flow[f].state = "saved" /\ flow[f].signup = signup /\ flow[f].provider = pr

\* An endpoint takes only states of its kind and provider, and connect only those of
\* its caller.
Admits(f, signup, u, pr) ==
  /\ flow[f].state = "saved"
  /\ flow[f].signup = signup
  /\ flow[f].provider = pr
  /\ ~signup => flow[f].user = u

\* A callback presents the state f; a state that is turned down is spent as well, while
\* a callback without consent or without a state answers before it touches one.  The
\* user of a sign-up is the address kept with the state, never one of the call.
Redeem(c, f, signup, u, pr) ==
  /\ call[c].pc = "idle" /\ flow[f].state # "none"
  /\ Available(pr)
  /\ signup => pr = signupProvider
  /\ ~signup => u \in users
  /\ signup => u = flow[f].user
  /\ Consume(f)
  /\ call' = [call EXCEPT ![c] = [NoCall EXCEPT
       !.flow = f, !.signup = signup, !.user = u, !.provider = pr,
       !.redeemed = Admits(f, signup, u, pr),
       !.pc = IF Admits(f, signup, u, pr) THEN "exchange" ELSE "failed"]]
  /\ UNCHANGED <<users, owner, row, tokens, clock, gone, unlisted>>

\* What a provider may answer for a login: its channels, or a managed page after the
\* other with the account linked to it, if any.
Listings(pr) ==
  UNION {[1..n -> {a \in Accounts : PlatformOf[a] = providers[pr]} \cup {None}]
         : n \in 0..MaxListed}

\* parseAccount: the first channel, or the account of the first page that has one.
ParseAccount(pr, listing, a) ==
  \E n \in DOMAIN listing :
    /\ listing[n] = a /\ a # None
    /\ \A m \in 1..(n - 1) : pr = "meta" /\ listing[m] = None

\* The code is exchanged and the account resolved.  Meta names the person as well, unless
\* it withholds it; a login without an account fails the callback (see Fail).
Exchange(c, a, p) ==
  /\ call[c].pc = "exchange"
  /\ \E listing \in Listings(call[c].provider) : ParseAccount(call[c].provider, listing, a)
  /\ call[c].provider # "meta" => p = None
  /\ call' = [call EXCEPT ![c].account = a, ![c].person = p,
                          ![c].pc = IF call[c].signup THEN "user" ELSE "token"]
  /\ UNCHANGED <<users, flow, owner, row, tokens, clock, gone, unlisted>>

-----------------------------------------------------------------------------
(* The steps of a sign-up *)

FindOrCreateUserByEmail(c) ==
  /\ call[c].pc = "user"
  /\ users' = users \cup {call[c].user}
  /\ call' = [call EXCEPT ![c].pc = "lookup"]
  /\ UNCHANGED <<flow, owner, row, tokens, clock, gone, unlisted>>

\* UpsertInstagramInfluencer is a transaction of two statements: the handle is looked
\* up by the id of the account, and its profile claimed, or a profile created.
LookUpHandle(c) ==
  LET h == row[call[c].account] IN
  /\ call[c].pc = "lookup"
  /\ call' = IF h.id THEN [call EXCEPT ![c].pc = "claim", ![c].profile = h.profile]
                     ELSE [call EXCEPT ![c].pc = "create"]
  /\ UNCHANGED <<users, flow, owner, row, tokens, clock, gone, unlisted>>

\* Only an unclaimed profile is claimed.
Claims(c) == owner[call[c].profile] = None

ClaimProfile(c) ==
  /\ call[c].pc = "claim"
  /\ owner' = IF Claims(c) THEN [owner EXCEPT ![call[c].profile] = call[c].user] ELSE owner
  /\ call' = [call EXCEPT ![c].pc = "token"]
  /\ UNCHANGED <<users, flow, row, tokens, clock, gone, unlisted>>

Unused(i) ==
  /\ owner[i] = None
  /\ \A a \in Accounts : row[a].profile # i
  /\ \A c \in Calls : call[c].profile # i

\* Mutant of HandleIsFree: the unique indexes do not exist.
HandleIsAlwaysFree(a) == TRUE

\* The unique indexes on the handle and on the id of the account.
HandleIsFree(a) == row[a].profile = None

\* A violated index rolls the new profile back and fails the sign-up.
CreateProfile(c, i) ==
  LET a == call[c].account IN
  /\ call[c].pc = "create"
  /\ HandleIsFree(a) /\ Unused(i)
  /\ owner' = [owner EXCEPT ![i] = call[c].user]
  /\ row' = [row EXCEPT ![a] = [profile |-> i, id |-> TRUE]]
  /\ call' = [call EXCEPT ![c].pc = "token", ![c].profile = i]
  /\ UNCHANGED <<users, flow, tokens, clock, gone, unlisted>>

-----------------------------------------------------------------------------
(* The token and the answer *)

RowsOf(u) == {t \in tokens : t.user = u}

Seal(f, u) == [key |-> f, aad |-> u]

\* The sealed columns of a row: the secret and the wrapped key, both bound to the owner.
sealToken(f, u) == [enc |-> Seal(f, u), dek |-> Seal(f, u)]

\* Opening presents the owner again, to the wrapped key and to the secret under it.
Opens(t, u) ==
  /\ t.sealed.dek.aad = u /\ t.sealed.enc.aad = u
  /\ t.sealed.enc.key = t.sealed.dek.key

\* created_at of a row inserted now; a conflicting row keeps its own.
CreatedAt(u, a) ==
  IF \E t \in RowsOf(u) : t.account = a
  THEN (CHOOSE t \in RowsOf(u) : t.account = a).at
  ELSE clock

\* The person is kept when the new grant does not name one.
GrantedBy(u, a, p) ==
  IF p = None /\ \E t \in RowsOf(u) : t.account = a
  THEN (CHOOSE t \in RowsOf(u) : t.account = a).person
  ELSE p

\* Mutant of UpsertToken: an error of the insert is logged and swallowed.
UpsertTokenBestEffort(c) ==
  /\ call[c].pc = "token"
  /\ call' = [call EXCEPT ![c].pc = IF call[c].signup THEN "session" ELSE "ok"]
  /\ UNCHANGED <<users, flow, owner, row, tokens, clock, gone, unlisted>>

\* The row is inserted, or the grant and the sealed columns of the existing one replaced.
UpsertToken(c) ==
  LET u == call[c].user
      a == call[c].account
  IN
  /\ call[c].pc = "token"
  /\ tokens' = {t \in tokens : t.user # u \/ t.account # a} \cup
       {[user |-> u, account |-> a, person |-> GrantedBy(u, a, call[c].person),
         flow |-> call[c].flow, at |-> CreatedAt(u, a),
         sealed |-> sealToken(call[c].flow, u)]}
  /\ clock' = clock + 1
  /\ call' = [call EXCEPT ![c].pc = IF call[c].signup THEN "session" ELSE "ok"]
  /\ UNCHANGED <<users, flow, owner, row, gone, unlisted>>

\* The session is issued last.  The audit that is submitted then cannot fail the
\* sign-up.
IssueSession(c) ==
  /\ call[c].pc = "session"
  /\ call' = [call EXCEPT ![c].pc = "ok"]
  /\ UNCHANGED <<users, flow, owner, row, tokens, clock, gone, unlisted>>

\* A step answers with an error, or the process goes down: what was done stays.
Fail(c) ==
  /\ call[c].pc \in Steps
  /\ call' = [call EXCEPT ![c].pc = "failed"]
  /\ UNCHANGED <<users, flow, owner, row, tokens, clock, gone, unlisted>>

-----------------------------------------------------------------------------
(* What else works on the rows *)

Drop(ts) ==
  /\ ts # {}
  /\ tokens' = tokens \ ts
  /\ gone' = gone \cup {<<t.user, t.account>> : t \in ts}
  /\ UNCHANGED <<users, flow, call, owner, row, clock, unlisted>>

\* Every connection with the provider goes, whether it is still offered or not.
Disconnect(u, pr) == Drop({t \in RowsOf(u) : PlatformOf[t.account] = providers[pr]})

\* The deletion callbacks of Meta name a person.
ForgetProviderUser(p) ==
  Drop({t \in tokens : PlatformOf[t.account] = providers["meta"] /\ t.person = p})

\* The dashboard lists an account under a profile, with the id of the account or not.
AddHandle(i, a, id) ==
  /\ row[a].profile = None
  /\ row' = [row EXCEPT ![a] = [profile |-> i, id |-> id]]
  /\ UNCHANGED <<users, flow, call, owner, tokens, clock, gone, unlisted>>

DeleteHandle(a) ==
  /\ row[a].profile # None
  /\ row' = [row EXCEPT ![a] = NoHandle]
  /\ unlisted' = unlisted \cup {a}
  /\ UNCHANGED <<users, flow, call, owner, tokens, clock, gone>>

\* Connections: what GET /oauth/connections lists, labelled with the provider.
ProviderByPlatform(pl) == CHOOSE pr \in Providers : providers[pr] = pl

ListByUser(u) ==
  {[provider |-> ProviderByPlatform(PlatformOf[t.account]), account |-> t.account] : t \in RowsOf(u)}

\* LiveConnections: the rows of the user that open, under the label they are listed with;
\* one that does not is passed over.
LiveConnections(u) ==
  {[provider |-> ProviderByPlatform(PlatformOf[t.account]), account |-> t.account]
   : t \in {s \in RowsOf(u) : Opens(s, u)}}

\* ListConnections indexes the live connections of the owner by platform, oldest first:
\* the newest is the one that is left, and an audit of the handle of a fetches its account.
Fetched(u, a) ==
  LET live == {t \in RowsOf(u) : Opens(t, u) /\ PlatformOf[t.account] = PlatformOf[a]} IN
  IF u = None \/ live = {} THEN a
  ELSE (CHOOSE t \in live : \A s \in live : s.at <= t.at).account

Next ==
  \/ \E f \in Flows, u \in Users :
       \/ \E pr \in Providers : Authorize(f, u, pr)
       \/ AuthorizeSignup(f, u)
  \/ \E f \in Flows : ExpireState(f)
  \/ \E c \in Calls :
       \/ \E f \in Flows, signup \in BOOLEAN, u \in Users, pr \in Providers :
            Redeem(c, f, signup, u, pr)
       \/ \E a \in Accounts, p \in Persons \cup {None} : Exchange(c, a, p)
       \/ FindOrCreateUserByEmail(c) \/ LookUpHandle(c) \/ ClaimProfile(c)
       \/ \E i \in Profiles : CreateProfile(c, i)
       \/ UpsertToken(c) \/ IssueSession(c) \/ Fail(c)
  \/ \E u \in Users, pr \in Providers : Disconnect(u, pr)
  \/ \E p \in Persons : ForgetProviderUser(p)
  \/ \E a \in Accounts :
       \/ \E i \in Profiles, id \in BOOLEAN : AddHandle(i, a, id)
       \/ DeleteHandle(a)

Spec == Init /\ [][Next]_vars

-----------------------------------------------------------------------------
(* Properties *)

\* However often a state is presented, at most one callback gets past it ("precisely
\* one racing caller receives the value").
StateRedeemedOnce ==
  \A c, d \in Calls :
    call[c].redeemed /\ call[d].redeemed /\ call[c].flow = call[d].flow => c = d

\* A stored connection comes from an authorization that its user began, at the provider
\* of its platform, whichever endpoint was called and by whom; and what a user sees
\* listed is what an audit can open.
TokenIsOwnFlow ==
  /\ \A t \in tokens :
       /\ flow[t.flow].user = t.user
       /\ PlatformOf[t.account] = providers[flow[t.flow].provider]
  /\ \A u \in Users : LiveConnections(u) = ListByUser(u)

\* A sign-up that reports success left all of it: the user, an owned profile, and the
\* connection unless that has been deleted since ("nothing partial is reported as
\* success").
SignupIsWhole ==
  \A c \in Calls :
    call[c].pc = "ok" /\ call[c].signup =>
      /\ call[c].user \in users
      /\ call[c].profile \in Profiles /\ owner[call[c].profile] # None
      /\ \/ <<call[c].user, call[c].account>> \in gone
         \/ \E t \in tokens : t.user = call[c].user /\ t.account = call[c].account

\* Sign-ups with one account end in one profile, unless its handle has been deleted.
OneProfilePerAccount ==
  \A c, d \in Calls :
    /\ call[c].profile # None /\ call[d].profile # None
    /\ call[c].account = call[d].account /\ call[c].account \notin unlisted
    => call[c].profile = call[d].profile

\* A profile that belongs to someone is never given to someone else.
OwnerIsKept == [][\A i \in Profiles : owner[i] # None => owner'[i] = owner[i]]_owner

-----------------------------------------------------------------------------
(* What comments of the code say and the model refutes: see the README *)

\* A user may hold several accounts on one platform: what an audit fetches for a handle
\* whose account the owner has connected is that account.
AuditsOwnAccount ==
  \A a \in Accounts, t \in tokens :
    row[a].profile # None /\ t.user = owner[row[a].profile] /\ t.account = a =>
      Fetched(t.user, a) = a

\* A listed profile that nobody owns can be claimed by the sign-up of its account.
ListedCanBeClaimed ==
  \A c \in Calls : call[c].pc = "create" =>
    LET h == row[call[c].account] IN h.profile = None \/ owner[h.profile] # None
=============================================================================
