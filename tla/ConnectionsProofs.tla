--------------------------- MODULE ConnectionsProofs ---------------------------
(***************************************************************************)
(* The properties of Connections for any users, accounts, profiles,        *)
(* authorizations and callbacks.  The invariant says of every callback     *)
(* what the steps behind it have established and later requests cannot     *)
(* take back.                                                              *)
(***************************************************************************)
EXTENDS Connections, TLAPS

Call == [pc : {"idle", "ok", "failed"} \cup Steps,
         flow : Flows \cup {None}, signup : BOOLEAN,
         user : Users \cup {None}, provider : Providers \cup {None},
         account : Accounts \cup {None}, person : Persons \cup {None},
         profile : Profiles \cup {None}, redeemed : BOOLEAN]

After == {"user", "lookup", "claim", "create", "token", "session"}
HasUser == {"lookup", "claim", "create", "token", "session", "ok"}

\* A handle with the id of its account belongs to a profile.
RowKnown == \A a \in Accounts : row[a].id => row[a].profile \in Profiles

\* A callback that works was let past its state, which is spent and was its user's.
CallEntered ==
  \A c \in Calls :
    /\ call[c].pc \in Steps => call[c].redeemed /\ call[c].user \in Users
    /\ call[c].pc \in After =>
         /\ call[c].account \in Accounts
         /\ PlatformOf[call[c].account] = providers[call[c].provider]
    /\ call[c].redeemed =>
         /\ call[c].flow \in Flows
         /\ flow[call[c].flow].state = "gone"
         /\ flow[call[c].flow].user = call[c].user
         /\ flow[call[c].flow].provider = call[c].provider

\* The profile a callback has found is the one its account is listed under.
CallProfile ==
  \A c \in Calls :
    /\ call[c].pc \in {"idle", "exchange"} => call[c].profile = None
    /\ call[c].pc = "claim" => call[c].profile \in Profiles
    /\ call[c].profile # None => call[c].account \in Accounts
    /\ call[c].profile # None /\ call[c].account \notin unlisted =>
         row[call[c].account].profile = call[c].profile

\* What a sign-up has established at each of its steps.
SignupSoFar ==
  \A c \in Calls : call[c].signup =>
    /\ call[c].pc \in HasUser => call[c].user \in users
    /\ call[c].pc \in {"token", "session", "ok"} =>
         call[c].profile \in Profiles /\ owner[call[c].profile] # None
    /\ call[c].pc \in {"session", "ok"} =>
         \/ <<call[c].user, call[c].account>> \in gone
         \/ \E t \in tokens : t.user = call[c].user /\ t.account = call[c].account

\* The authorization behind a connection is spent, and was its user's, at the provider of
\* the account; and the connection opens.
TokensOwn ==
  \A t \in tokens :
    /\ flow[t.flow].state = "gone" /\ flow[t.flow].user = t.user
    /\ PlatformOf[t.account] = providers[flow[t.flow].provider]
    /\ Opens(t, t.user)

Inv ==
  /\ TypeOK /\ RowKnown /\ CallEntered /\ CallProfile
  /\ SignupSoFar /\ TokensOwn /\ StateRedeemedOnce

-----------------------------------------------------------------------------

\* Fields of a callback that are set to values of their types.
LEMMA SetPC == ASSUME NEW r \in Call, NEW v \in {"ok", "failed"} \cup Steps
               PROVE  [r EXCEPT !.pc = v] \in Call
BY SMT DEF Call

LEMMA SetFields ==
  ASSUME NEW r \in Call
  PROVE  /\ \A v \in Flows : [r EXCEPT !.flow = v] \in Call
         /\ \A v \in BOOLEAN : [r EXCEPT !.signup = v] \in Call
         /\ \A v \in Users : [r EXCEPT !.user = v] \in Call
         /\ \A v \in Providers : [r EXCEPT !.provider = v] \in Call
         /\ \A v \in BOOLEAN : [r EXCEPT !.redeemed = v] \in Call
         /\ \A v \in Profiles : [r EXCEPT !.profile = v] \in Call
         /\ \A v \in Accounts : [r EXCEPT !.account = v] \in Call
         /\ \A v \in Persons \cup {None} : [r EXCEPT !.person = v] \in Call
BY SMT DEF Call

\* A step of a callback that only moves it on.
LEMMA GotoType ==
  ASSUME call \in [Calls -> Call], NEW c \in Calls, NEW v \in {"ok", "failed"} \cup Steps,
         call' = [call EXCEPT ![c].pc = v]
  PROVE  call' \in [Calls -> Call]
<1> DEFINE r == [call[c] EXCEPT !.pc = v]
<1>1. call' = [call EXCEPT ![c] = r]
  OBVIOUS
<1>2. r \in Call
  BY SetPC
<1> HIDE DEF r
<1> QED
  BY <1>1, <1>2

LEMMA InitInv == Init => Inv
BY SMT, ConnectionsAssumption DEF Init, Inv, TypeOK, NoFlow, NoCall, NoHandle, Steps, After, HasUser, Token,
   RowKnown, CallEntered, CallProfile, SignupSoFar, TokensOwn, StateRedeemedOnce

\* Beginning an authorization, or letting its state expire, touches only an
\* authorization that no callback has got past.
LEMMA FlowSteps ==
  ASSUME Inv, NEW f \in Flows,
         \/ \E u \in Users, signup \in BOOLEAN, pr \in Providers : SaveState(f, u, signup, pr)
         \/ ExpireState(f)
  PROVE  Inv'
<1>1. /\ UNCHANGED <<users, call, owner, row, tokens, clock, gone, unlisted>>
      /\ flow' \in [Flows -> [state : {"none", "saved", "gone"}, signup : BOOLEAN,
                              user : Users \cup {None}, provider : Providers \cup {None}]]
      /\ \A g \in Flows : flow[g].state = "gone" => flow'[g] = flow[g]
  BY SMT, ConnectionsAssumption DEF Inv, TypeOK, SaveState, ExpireState
<1>2. TypeOK'
  BY <1>1 DEF Inv, TypeOK
<1>3. \A t \in tokens : t.flow \in Flows
  BY DEF Inv, TypeOK, Token
<1> QED
  BY SMT, <1>1, <1>2, <1>3 DEF Inv, RowKnown, CallEntered, CallProfile, SignupSoFar,
     TokensOwn, StateRedeemedOnce, Steps, After, HasUser

LEMMA RedeemStep ==
  ASSUME Inv, NEW c \in Calls, NEW f \in Flows, NEW signup \in BOOLEAN, NEW u \in Users,
         NEW pr \in Providers, Redeem(c, f, signup, u, pr)
  PROVE  Inv'
<1> DEFINE new == [NoCall EXCEPT !.flow = f, !.signup = signup, !.user = u, !.provider = pr,
                     !.redeemed = Admits(f, signup, u, pr),
                     !.pc = IF Admits(f, signup, u, pr) THEN "exchange" ELSE "failed"]
<1>1. /\ new.flow = f /\ new.signup = signup /\ new.user = u
      /\ new.provider = pr /\ new.account = None /\ new.person = None /\ new.profile = None
      /\ new.redeemed \in BOOLEAN /\ new.pc \in {"exchange", "failed"}
      /\ new.pc = "exchange" => new.redeemed
      /\ new.redeemed => flow[f].state = "saved" /\ flow[f].user = u /\ flow[f].provider = pr
  BY SMT DEF NoCall, Admits, Redeem
<1>2. new \in Call
  <2> DEFINE r1 == [NoCall EXCEPT !.flow = f]
             r2 == [r1 EXCEPT !.signup = signup]
             r3 == [r2 EXCEPT !.user = u]
             r3p == [r3 EXCEPT !.provider = pr]
             r4 == [r3p EXCEPT !.redeemed = Admits(f, signup, u, pr)]
  <2>1. NoCall \in Call
    BY SMT DEF NoCall, Call
  <2>2. (Admits(f, signup, u, pr)) \in BOOLEAN
    BY DEF Admits
  <2>3. (IF Admits(f, signup, u, pr) THEN "exchange" ELSE "failed") \in {"failed"} \cup Steps
    BY DEF Steps
  <2>4. r1 \in Call
    BY <2>1, SetFields
  <2>5. r2 \in Call
    <3> HIDE DEF r1
    <3> QED BY <2>4, SetFields
  <2>6. r3 \in Call
    <3> HIDE DEF r2
    <3> QED BY <2>5, SetFields
  <2>6p. r3p \in Call
    <3> HIDE DEF r3
    <3> QED BY <2>6, SetFields
  <2>7. r4 \in Call
    <3> HIDE DEF r3p
    <3> QED BY <2>2, <2>6p, SetFields
  <2>8. new = [r4 EXCEPT !.pc = IF Admits(f, signup, u, pr) THEN "exchange" ELSE "failed"]
    OBVIOUS
  <2> HIDE DEF r4, new
  <2> QED
    BY <2>3, <2>7, <2>8, SetPC
<1>3. /\ call' = [call EXCEPT ![c] = new]
      /\ flow' = [flow EXCEPT ![f].state = "gone"]
      /\ UNCHANGED <<users, owner, row, tokens, clock, gone, unlisted>>
  BY DEF Redeem, Consume
<1> HIDE DEF new
<1>4. /\ flow' \in [Flows -> [state : {"none", "saved", "gone"}, signup : BOOLEAN,
                              user : Users \cup {None}, provider : Providers \cup {None}]]
      /\ flow'[f].state = "gone"
      /\ \A g \in Flows : flow'[g].user = flow[g].user /\ flow'[g].provider = flow[g].provider
      /\ \A g \in Flows : flow[g].state = "gone" => flow'[g].state = "gone"
  BY SMT, <1>3 DEF Inv, TypeOK
<1>5. TypeOK'
  <2>1. call \in [Calls -> Call]
    BY DEF Inv, TypeOK, Call
  <2>2. call' \in [Calls -> Call]
    BY <1>2, <1>3, <2>1
  <2> QED
    BY <1>3, <1>4, <2>2 DEF Inv, TypeOK, Call
<1>6. call'[c] = new /\ \A d \in Calls : d # c => call'[d] = call[d]
  BY <1>3 DEF Inv, TypeOK
<1>7. CallEntered' /\ StateRedeemedOnce'
  BY SMT, <1>1, <1>4, <1>6 DEF Inv, CallEntered, StateRedeemedOnce, Steps, After
<1>8. CallProfile' /\ SignupSoFar'
  BY SMT, <1>1, <1>3, <1>6 DEF Inv, CallProfile, SignupSoFar, HasUser
<1>9. RowKnown' /\ TokensOwn'
  BY SMT, <1>3, <1>4 DEF Inv, TypeOK, Token, RowKnown, TokensOwn
<1> QED
  BY <1>5, <1>7, <1>8, <1>9 DEF Inv

LEMMA ExchangeStep ==
  ASSUME Inv, NEW c \in Calls, NEW a \in Accounts, NEW p \in Persons \cup {None},
         Exchange(c, a, p)
  PROVE  Inv'
<1>1. UNCHANGED <<users, flow, owner, row, tokens, clock, gone, unlisted>>
  BY DEF Exchange
<1>0. PlatformOf[a] = providers[call[c].provider]
  <2>1. PICK listing \in Listings(call[c].provider) : ParseAccount(call[c].provider, listing, a)
    BY DEF Exchange
  <2>2. PICK n \in DOMAIN listing : listing[n] = a /\ a # None
    BY <2>1 DEF ParseAccount
  <2>3. PICK k \in 0..MaxListed :
          listing \in [1..k -> {b \in Accounts : PlatformOf[b] = providers[call[c].provider]} \cup {None}]
    BY DEF Listings
  <2> QED
    BY <2>2, <2>3
<1>2. /\ call[c].pc = "exchange"
      /\ call'[c].pc = IF call[c].signup THEN "user" ELSE "token"
      /\ call'[c].account = a
      /\ call'[c].flow = call[c].flow /\ call'[c].signup = call[c].signup
      /\ call'[c].user = call[c].user /\ call'[c].redeemed = call[c].redeemed
      /\ call'[c].provider = call[c].provider
      /\ call'[c].profile = call[c].profile
      /\ \A d \in Calls : d # c => call'[d] = call[d]
  BY SMT DEF Exchange, Inv, TypeOK
<1>3. TypeOK'
  <2> DEFINE v == IF call[c].signup THEN "user" ELSE "token"
             r1 == [call[c] EXCEPT !.account = a]
             r2 == [r1 EXCEPT !.person = p]
             r3 == [r2 EXCEPT !.pc = v]
  <2>1. call \in [Calls -> Call] /\ v \in {"ok", "failed"} \cup Steps
    BY DEF Inv, TypeOK, Call, Steps
  <2>2. r1 \in Call
    BY <2>1, SetFields
  <2>3. r2 \in Call
    <3> HIDE DEF r1
    <3> QED BY <2>2, SetFields
  <2>4. r3 \in Call
    <3> HIDE DEF r2, v
    <3> QED BY <2>1, <2>3, SetPC
  <2>5. call' = [call EXCEPT ![c] = r3]
    BY <2>1 DEF Exchange
  <2> HIDE DEF r3
  <2>6. call' \in [Calls -> Call]
    BY <2>1, <2>4, <2>5
  <2> QED
    BY <1>1, <2>6 DEF Inv, TypeOK, Call
<1>4. CallEntered' /\ StateRedeemedOnce'
  BY SMT, <1>0, <1>1, <1>2 DEF Inv, CallEntered, StateRedeemedOnce, Steps, After
<1>5. CallProfile' /\ SignupSoFar'
  BY SMT, <1>1, <1>2 DEF Inv, CallProfile, SignupSoFar, HasUser
<1> QED
  BY <1>1, <1>3, <1>4, <1>5 DEF Inv, RowKnown, TokensOwn

\* The steps of a callback that change nothing but its own state, or add its user.
LEMMA QuietSteps ==
  ASSUME Inv, NEW c \in Calls,
         FindOrCreateUserByEmail(c) \/ IssueSession(c) \/ Fail(c)
  PROVE  Inv'
<1>1. /\ UNCHANGED <<flow, owner, row, tokens, clock, gone, unlisted>>
      /\ users \subseteq users'
      /\ call[c].pc \in Steps /\ call'[c] = [call[c] EXCEPT !.pc = call'[c].pc]
      /\ \/ call'[c].pc = "failed" /\ call[c].pc \in Steps
         \/ call'[c].pc = "lookup" /\ call[c].pc = "user" /\ call[c].user \in users'
         \/ call'[c].pc = "ok" /\ call[c].pc = "session"
      /\ \A d \in Calls : d # c => call'[d] = call[d]
  BY SMT DEF FindOrCreateUserByEmail, IssueSession, Fail, Inv, TypeOK, Steps
<1>2. TypeOK'
  <2>1. call \in [Calls -> Call]
    BY DEF Inv, TypeOK, Call
  <2>2. PICK v \in {"ok", "failed"} \cup Steps : call' = [call EXCEPT ![c].pc = v]
    BY DEF FindOrCreateUserByEmail, IssueSession, Fail, Steps
  <2>3. call' \in [Calls -> Call]
    BY <2>1, <2>2, GotoType
  <2>4. users' \subseteq Users
    <3>1. FindOrCreateUserByEmail(c) => call[c].user \in Users
      BY DEF FindOrCreateUserByEmail, Inv, CallEntered, Steps
    <3> QED
      BY <3>1 DEF FindOrCreateUserByEmail, IssueSession, Fail, Inv, TypeOK
  <2> QED
    BY <1>1, <2>3, <2>4 DEF Inv, TypeOK, Call
<1>3. /\ call'[c].flow = call[c].flow /\ call'[c].signup = call[c].signup
      /\ call'[c].user = call[c].user /\ call'[c].redeemed = call[c].redeemed
      /\ call'[c].provider = call[c].provider
      /\ call'[c].profile = call[c].profile /\ call'[c].account = call[c].account
  BY SMT, <1>1 DEF Inv, TypeOK
<1>4. CallEntered' /\ StateRedeemedOnce'
  BY SMT, <1>1, <1>3 DEF Inv, CallEntered, StateRedeemedOnce, Steps, After
<1>5. CallProfile' /\ SignupSoFar'
  BY SMT, <1>1, <1>3 DEF Inv, CallProfile, SignupSoFar, HasUser, Steps
<1> QED
  BY <1>1, <1>2, <1>4, <1>5 DEF Inv, RowKnown, TokensOwn

LEMMA LookUpStep ==
  ASSUME Inv, NEW c \in Calls, LookUpHandle(c)
  PROVE  Inv'
<1> DEFINE h == row[call[c].account]
<1>1. /\ UNCHANGED <<users, flow, owner, row, tokens, clock, gone, unlisted>>
      /\ call[c].pc = "lookup" /\ call[c].account \in Accounts
  BY SMT DEF LookUpHandle, Inv, CallEntered, After
<1>2. /\ call'[c].pc = IF h.id THEN "claim" ELSE "create"
      /\ call'[c].profile = IF h.id THEN h.profile ELSE call[c].profile
      /\ call'[c].flow = call[c].flow /\ call'[c].signup = call[c].signup
      /\ call'[c].user = call[c].user /\ call'[c].redeemed = call[c].redeemed
      /\ call'[c].provider = call[c].provider
      /\ call'[c].account = call[c].account
      /\ \A d \in Calls : d # c => call'[d] = call[d]
  BY SMT DEF LookUpHandle, Inv, TypeOK
<1>3. h.id => h.profile \in Profiles
  BY <1>1 DEF Inv, RowKnown
<1>4. TypeOK'
  <2>1. call \in [Calls -> Call] /\ {"claim", "create"} \subseteq Steps
    BY DEF Inv, TypeOK, Call, Steps
  <2>2. call' \in [Calls -> Call]
    <3> DEFINE r == IF h.id THEN [call[c] EXCEPT !.pc = "claim", !.profile = h.profile]
                    ELSE [call[c] EXCEPT !.pc = "create"]
    <3>1. call' = [call EXCEPT ![c] = r]
      BY <2>1 DEF LookUpHandle
    <3>2. r \in Call
      <4>1. CASE h.id
        <5> DEFINE r1 == [call[c] EXCEPT !.pc = "claim"]
        <5>1. r1 \in Call
          BY <2>1, SetPC
        <5>2. r = [r1 EXCEPT !.profile = h.profile]
          BY <4>1
        <5> HIDE DEF r1, r
        <5> QED
          BY <5>1, <5>2, <1>3, <4>1, SetFields
      <4>2. CASE ~h.id
        BY <2>1, <4>2, SetPC
      <4> QED
        BY <4>1, <4>2
    <3> HIDE DEF r
    <3> QED
      BY <2>1, <3>1, <3>2
  <2> QED
    BY <1>1, <2>2 DEF Inv, TypeOK, Call
<1>5. CallEntered' /\ StateRedeemedOnce'
  BY SMT, <1>1, <1>2 DEF Inv, CallEntered, StateRedeemedOnce, Steps, After
<1>6. CallProfile' /\ SignupSoFar'
  BY SMT, <1>1, <1>2, <1>3 DEF Inv, CallProfile, SignupSoFar, HasUser
<1> QED
  BY <1>1, <1>4, <1>5, <1>6 DEF Inv, RowKnown, TokensOwn

LEMMA ClaimStep ==
  ASSUME Inv, NEW c \in Calls, ClaimProfile(c)
  PROVE  Inv'
<1>1. /\ UNCHANGED <<users, flow, row, tokens, clock, gone, unlisted>>
      /\ call[c].pc = "claim" /\ call[c].profile \in Profiles /\ call[c].user \in Users
  BY SMT DEF ClaimProfile, Inv, CallEntered, CallProfile, Steps
<1>2. /\ owner' \in [Profiles -> Users \cup {None}]
      /\ owner'[call[c].profile] # None
      /\ \A i \in Profiles : owner[i] # None => owner'[i] = owner[i]
  BY SMT, <1>1, ConnectionsAssumption DEF ClaimProfile, Claims, Inv, TypeOK
<1>3. /\ call'[c].pc = "token"
      /\ call'[c].flow = call[c].flow /\ call'[c].signup = call[c].signup
      /\ call'[c].user = call[c].user /\ call'[c].redeemed = call[c].redeemed
      /\ call'[c].provider = call[c].provider
      /\ call'[c].profile = call[c].profile /\ call'[c].account = call[c].account
      /\ \A d \in Calls : d # c => call'[d] = call[d]
  BY SMT DEF ClaimProfile, Inv, TypeOK
<1>4. TypeOK'
  <2>1. call \in [Calls -> Call] /\ "token" \in Steps
    BY DEF Inv, TypeOK, Call, Steps
  <2>2. call' \in [Calls -> Call]
    BY <2>1, GotoType DEF ClaimProfile
  <2> QED
    BY <1>1, <1>2, <2>2 DEF Inv, TypeOK, Call
<1>5. CallEntered' /\ StateRedeemedOnce'
  BY SMT, <1>1, <1>3 DEF Inv, CallEntered, StateRedeemedOnce, Steps, After
<1>6. CallProfile' /\ SignupSoFar'
  BY SMT, <1>1, <1>2, <1>3 DEF Inv, CallProfile, SignupSoFar, HasUser
<1> QED
  BY <1>1, <1>4, <1>5, <1>6 DEF Inv, RowKnown, TokensOwn

LEMMA CreateStep ==
  ASSUME Inv, NEW c \in Calls, NEW i \in Profiles, CreateProfile(c, i)
  PROVE  Inv'
<1> DEFINE a == call[c].account
<1>1. /\ UNCHANGED <<users, flow, tokens, clock, gone, unlisted>>
      /\ call[c].pc = "create" /\ a \in Accounts /\ call[c].user \in Users
      /\ row[a].profile = None /\ owner[i] = None
  BY SMT DEF CreateProfile, HandleIsFree, Unused, Inv, CallEntered, Steps, After
<1>2. /\ owner' \in [Profiles -> Users \cup {None}]
      /\ owner'[i] # None
      /\ \A j \in Profiles : owner[j] # None => owner'[j] = owner[j]
  BY SMT, <1>1, ConnectionsAssumption DEF CreateProfile, Inv, TypeOK
<1>3. /\ row' \in [Accounts -> [profile : Profiles \cup {None}, id : BOOLEAN]]
      /\ row'[a].profile = i
      /\ \A b \in Accounts : b # a => row'[b] = row[b]
  BY SMT, <1>1 DEF CreateProfile, Inv, TypeOK
<1>4. /\ call'[c].pc = "token" /\ call'[c].profile = i
      /\ call'[c].flow = call[c].flow /\ call'[c].signup = call[c].signup
      /\ call'[c].user = call[c].user /\ call'[c].redeemed = call[c].redeemed
      /\ call'[c].provider = call[c].provider
      /\ call'[c].account = call[c].account
      /\ \A d \in Calls : d # c => call'[d] = call[d]
  BY SMT DEF CreateProfile, Inv, TypeOK
<1>5. TypeOK'
  <2>1. call \in [Calls -> Call] /\ "token" \in Steps
    BY DEF Inv, TypeOK, Call, Steps
  <2>2. call' \in [Calls -> Call]
    <3> DEFINE r == [call[c] EXCEPT !.pc = "token", !.profile = i]
    <3>1. call' = [call EXCEPT ![c] = r]
      BY <2>1 DEF CreateProfile
    <3>2. r \in Call
      <4> DEFINE r1 == [call[c] EXCEPT !.pc = "token"]
      <4>1. r1 \in Call
        BY <2>1, SetPC
      <4>2. r = [r1 EXCEPT !.profile = i]
        OBVIOUS
      <4> HIDE DEF r1, r
      <4> QED
        BY <4>1, <4>2, SetFields
    <3> HIDE DEF r
    <3> QED
      BY <2>1, <3>1, <3>2
  <2> QED
    BY <1>1, <1>2, <1>3, <2>2 DEF Inv, TypeOK, Call
<1>6. CallEntered' /\ StateRedeemedOnce'
  BY SMT, <1>1, <1>4 DEF Inv, CallEntered, StateRedeemedOnce, Steps, After
<1>7. CallProfile'
  BY SMT, <1>1, <1>3, <1>4 DEF Inv, CallProfile
<1>8. SignupSoFar'
  BY SMT, <1>1, <1>2, <1>4 DEF Inv, SignupSoFar, HasUser
<1>9. RowKnown'
  BY SMT, <1>1, <1>3 DEF Inv, RowKnown
<1> QED
  BY <1>1, <1>5, <1>6, <1>7, <1>8, <1>9 DEF Inv, TokensOwn

LEMMA TokenStep ==
  ASSUME Inv, NEW c \in Calls, UpsertToken(c)
  PROVE  Inv'
<1> DEFINE u == call[c].user
           a == call[c].account
           f == call[c].flow
           p == GrantedBy(u, a, call[c].person)
           n == CreatedAt(u, a)
           new == [user |-> u, account |-> a, person |-> p, flow |-> f, at |-> n,
                   sealed |-> sealToken(f, u)]
<1>1. /\ UNCHANGED <<users, flow, owner, row, gone, unlisted>>
      /\ call[c].pc = "token" /\ u \in Users /\ a \in Accounts /\ f \in Flows
      /\ flow[f].state = "gone" /\ flow[f].user = u
      /\ PlatformOf[a] = providers[flow[f].provider]
      /\ tokens' = {t \in tokens : t.user # u \/ t.account # a} \cup {new}
      /\ clock' = clock + 1
  BY SMT DEF UpsertToken, Inv, CallEntered, Steps, After
<1>2. \A t \in tokens : t.person \in Persons \cup {None} /\ t.at \in Nat
  BY DEF Inv, TypeOK, Token
<1>3. p \in Persons \cup {None}
  <2>1. CASE call[c].person = None /\ \E t \in RowsOf(u) : t.account = a
    <3>1. (CHOOSE t \in RowsOf(u) : t.account = a) \in RowsOf(u)
      BY <2>1
    <3> QED
      BY <2>1, <3>1, <1>2 DEF GrantedBy, RowsOf
  <2>2. CASE ~(call[c].person = None /\ \E t \in RowsOf(u) : t.account = a)
    BY <2>2 DEF GrantedBy, Inv, TypeOK
  <2> QED
    BY <2>1, <2>2
<1>4. n \in Nat
  <2>1. CASE \E t \in RowsOf(u) : t.account = a
    <3>1. (CHOOSE t \in RowsOf(u) : t.account = a) \in RowsOf(u)
      BY <2>1
    <3> QED
      BY <2>1, <3>1, <1>2 DEF CreatedAt, RowsOf
  <2>2. CASE ~\E t \in RowsOf(u) : t.account = a
    BY <2>2 DEF CreatedAt, Inv, TypeOK
  <2> QED
    BY <2>1, <2>2
<1> HIDE DEF p, n
<1>5. /\ new \in Token /\ new.user = u /\ new.account = a /\ new.flow = f
      /\ Opens(new, u)
  BY <1>1, <1>3, <1>4 DEF Token, Sealed, Seal, sealToken, Opens
<1>6. /\ call'[c].pc \in {"session", "ok"}
      /\ call'[c].flow = call[c].flow /\ call'[c].signup = call[c].signup
      /\ call'[c].user = call[c].user /\ call'[c].redeemed = call[c].redeemed
      /\ call'[c].provider = call[c].provider
      /\ call'[c].profile = call[c].profile /\ call'[c].account = call[c].account
      /\ \A d \in Calls : d # c => call'[d] = call[d]
  BY SMT DEF UpsertToken, Inv, TypeOK
<1> HIDE DEF new
<1>7. TypeOK'
  <2> DEFINE v == IF call[c].signup THEN "session" ELSE "ok"
  <2>1. call \in [Calls -> Call] /\ v \in {"ok", "failed"} \cup Steps
    BY DEF Inv, TypeOK, Call, Steps
  <2>2. call' = [call EXCEPT ![c].pc = v]
    BY DEF UpsertToken
  <2> HIDE DEF v
  <2>3. call' \in [Calls -> Call]
    BY <2>1, <2>2, GotoType
  <2>4. tokens' \subseteq Token /\ clock' \in Nat
    BY <1>1, <1>5 DEF Inv, TypeOK
  <2>5. \A s, t \in tokens' : s.user = t.user /\ s.account = t.account => s = t
    BY <1>1, <1>5 DEF Inv, TypeOK
  <2> QED
    BY <1>1, <2>3, <2>4, <2>5 DEF Inv, TypeOK, Call
<1>8. CallEntered' /\ StateRedeemedOnce'
  BY SMT, <1>1, <1>6 DEF Inv, CallEntered, StateRedeemedOnce, Steps, After
<1>9. CallProfile'
  BY SMT, <1>1, <1>6 DEF Inv, CallProfile
<1>10. \A t \in tokens : \E s \in tokens' : s.user = t.user /\ s.account = t.account
  BY SMT, <1>1, <1>5
<1>11. \E s \in tokens' : s.user = u /\ s.account = a
  BY <1>1, <1>5
<1>12. SignupSoFar'
  <2> SUFFICES ASSUME NEW d \in Calls, call'[d].signup
               PROVE  /\ call'[d].pc \in HasUser => call'[d].user \in users'
                      /\ call'[d].pc \in {"token", "session", "ok"} =>
                           call'[d].profile \in Profiles /\ owner'[call'[d].profile] # None
                      /\ call'[d].pc \in {"session", "ok"} =>
                           \/ <<call'[d].user, call'[d].account>> \in gone'
                           \/ \E t \in tokens' : t.user = call'[d].user /\ t.account = call'[d].account
    BY DEF SignupSoFar
  <2>1. CASE d = c
    BY <2>1, <1>1, <1>6, <1>11 DEF Inv, SignupSoFar, HasUser
  <2>2. CASE d # c
    <3>1. call'[d] = call[d]
      BY <2>2, <1>6
    <3> HIDE DEF u, a, f
    <3> QED
      BY <3>1, <1>1, <1>10 DEF Inv, SignupSoFar, HasUser
  <2> QED
    BY <2>1, <2>2
<1>13. TokensOwn'
  BY SMT, <1>1, <1>5 DEF Inv, TokensOwn
<1> QED
  BY <1>1, <1>7, <1>8, <1>9, <1>12, <1>13 DEF Inv, RowKnown

LEMMA DropStep ==
  ASSUME Inv, NEW ts \in SUBSET tokens, Drop(ts)
  PROVE  Inv'
<1>1. /\ UNCHANGED <<users, flow, call, owner, row, clock, unlisted>>
      /\ tokens' = tokens \ ts
      /\ gone' = gone \cup {<<t.user, t.account>> : t \in ts}
  BY DEF Drop
<1>2. gone' \subseteq Users \X Accounts
  BY <1>1 DEF Inv, TypeOK, Token
<1>3. TypeOK'
  BY SMT, <1>1, <1>2 DEF Inv, TypeOK
<1>4. \A t \in tokens : t \in tokens' \/ <<t.user, t.account>> \in gone'
  BY <1>1
<1>5. SignupSoFar'
  BY SMT, <1>1, <1>4 DEF Inv, SignupSoFar
<1> QED
  BY <1>1, <1>3, <1>5 DEF Inv, RowKnown, CallEntered, CallProfile, TokensOwn, StateRedeemedOnce

LEMMA HandleSteps ==
  ASSUME Inv, NEW a \in Accounts,
         (\E i \in Profiles, id \in BOOLEAN : AddHandle(i, a, id)) \/ DeleteHandle(a)
  PROVE  Inv'
<1>1. UNCHANGED <<users, flow, call, owner, tokens, clock, gone>>
  BY DEF AddHandle, DeleteHandle
<1>2. CASE \E i \in Profiles, id \in BOOLEAN : AddHandle(i, a, id)
  <2>1. PICK i \in Profiles, id \in BOOLEAN : AddHandle(i, a, id)
    BY <1>2
  <2>2. TypeOK' /\ RowKnown'
    BY SMT, <2>1, <1>1 DEF AddHandle, Inv, TypeOK, RowKnown
  <2>3. CallProfile'
    BY SMT, <2>1, <1>1 DEF AddHandle, Inv, TypeOK, CallProfile
  <2> QED
    BY <1>1, <2>2, <2>3 DEF Inv, CallEntered, SignupSoFar, TokensOwn, StateRedeemedOnce
<1>3. CASE DeleteHandle(a)
  <2>2. TypeOK' /\ RowKnown'
    BY SMT, <1>3, <1>1 DEF DeleteHandle, NoHandle, Inv, TypeOK, RowKnown
  <2>3. CallProfile'
    BY SMT, <1>3, <1>1 DEF DeleteHandle, NoHandle, Inv, TypeOK, CallProfile
  <2> QED
    BY <1>1, <2>2, <2>3 DEF Inv, CallEntered, SignupSoFar, TokensOwn, StateRedeemedOnce
<1> QED
  BY <1>2, <1>3

LEMMA NextInv == Inv /\ [Next]_vars => Inv'
<1> SUFFICES ASSUME Inv, [Next]_vars PROVE Inv'
  OBVIOUS
<1>1. CASE \E f \in Flows, u \in Users :
              (\E pr \in Providers : Authorize(f, u, pr)) \/ AuthorizeSignup(f, u)
  <2>1. signupProvider \in Providers
    BY DEF signupProvider, Providers, providers
  <2> QED
    BY <1>1, <2>1, FlowSteps DEF Authorize, AuthorizeSignup
<1>2. CASE \E f \in Flows : ExpireState(f)
  BY <1>2, FlowSteps
<1>3. ASSUME NEW c \in Calls,
               \E f \in Flows, signup \in BOOLEAN, u \in Users, pr \in Providers :
                 Redeem(c, f, signup, u, pr)
      PROVE  Inv'
  BY <1>3, RedeemStep
<1>4. ASSUME NEW c \in Calls, \E a \in Accounts, p \in Persons \cup {None} : Exchange(c, a, p)
      PROVE  Inv'
  BY <1>4, ExchangeStep
<1>5. ASSUME NEW c \in Calls, FindOrCreateUserByEmail(c) \/ IssueSession(c) \/ Fail(c)
      PROVE  Inv'
  BY <1>5, QuietSteps
<1>6. ASSUME NEW c \in Calls, LookUpHandle(c) PROVE Inv'
  BY <1>6, LookUpStep
<1>7. ASSUME NEW c \in Calls, ClaimProfile(c) PROVE Inv'
  BY <1>7, ClaimStep
<1>8. ASSUME NEW c \in Calls, \E i \in Profiles : CreateProfile(c, i) PROVE Inv'
  BY <1>8, CreateStep
<1>9. ASSUME NEW c \in Calls, UpsertToken(c) PROVE Inv'
  BY <1>9, TokenStep
<1>10. CASE \E u \in Users, pr \in Providers : Disconnect(u, pr)
  <2>1. PICK u \in Users, pr \in Providers : Disconnect(u, pr)
    BY <1>10
  <2> DEFINE ts == {t \in RowsOf(u) : PlatformOf[t.account] = providers[pr]}
  <2>2. ts \in SUBSET tokens /\ Drop(ts)
    BY <2>1 DEF Disconnect, RowsOf
  <2> HIDE DEF ts
  <2> QED
    BY <2>2, DropStep
<1>11. CASE \E p \in Persons : ForgetProviderUser(p)
  <2>1. PICK p \in Persons : ForgetProviderUser(p)
    BY <1>11
  <2> DEFINE ts == {t \in tokens : PlatformOf[t.account] = providers["meta"] /\ t.person = p}
  <2>2. ts \in SUBSET tokens /\ Drop(ts)
    BY <2>1 DEF ForgetProviderUser
  <2> HIDE DEF ts
  <2> QED
    BY <2>2, DropStep
<1>12. CASE \E a \in Accounts :
              (\E i \in Profiles, id \in BOOLEAN : AddHandle(i, a, id)) \/ DeleteHandle(a)
  BY <1>12, HandleSteps
<1>13. CASE UNCHANGED vars
  BY <1>13 DEF vars, Inv, TypeOK, RowKnown, CallEntered, CallProfile, SignupSoFar, TokensOwn,
     StateRedeemedOnce
<1> QED
  BY <1>1, <1>2, <1>3, <1>4, <1>5, <1>6, <1>7, <1>8, <1>9, <1>10, <1>11, <1>12, <1>13 DEF Next

THEOREM ConnectionsInvariant == Spec => []Inv
BY InitInv, NextInv, PTL DEF Spec

\* Every variable has its type, and a user has at most one row for an account.
THEOREM ConnectionsTypeCorrect == Spec => []TypeOK
<1>1. Inv => TypeOK
  BY DEF Inv
<1> QED
  BY <1>1, ConnectionsInvariant, PTL

\* However many callbacks present a state, one gets past it.
THEOREM StatesAreSpentOnce == Spec => []StateRedeemedOnce
<1>1. Inv => StateRedeemedOnce
  BY DEF Inv
<1> QED
  BY <1>1, ConnectionsInvariant, PTL

\* A stored connection comes from an authorization that its user began at its provider,
\* and every connection a user sees listed can be opened by an audit.
THEOREM ConnectionsAreOwn == Spec => []TokenIsOwnFlow
<1>1. Inv => TokenIsOwnFlow
  <2> SUFFICES ASSUME Inv PROVE TokenIsOwnFlow
    OBVIOUS
  <2>1. \A u \in Users : {s \in RowsOf(u) : Opens(s, u)} = RowsOf(u)
    BY DEF Inv, TokensOwn, RowsOf
  <2> QED
    BY <2>1 DEF Inv, TokensOwn, TokenIsOwnFlow, LiveConnections, ListByUser
<1> QED
  BY <1>1, ConnectionsInvariant, PTL

\* A sign-up that reports success left the user, an owned profile and the connection.
THEOREM SignupsAreWhole == Spec => []SignupIsWhole
<1>1. Inv => SignupIsWhole
  BY SMT DEF Inv, SignupSoFar, SignupIsWhole, HasUser
<1> QED
  BY <1>1, ConnectionsInvariant, PTL

\* Sign-ups with one account end in one profile.
THEOREM ProfilesAreOne == Spec => []OneProfilePerAccount
<1>1. Inv => OneProfilePerAccount
  BY SMT DEF Inv, CallProfile, OneProfilePerAccount
<1> QED
  BY <1>1, ConnectionsInvariant, PTL

\* A profile that belongs to someone is never given to someone else.
THEOREM OwnersAreKept == Spec => OwnerIsKept
<1>1. Inv /\ [Next]_vars => [\A i \in Profiles : owner[i] # None => owner'[i] = owner[i]]_owner
  <2> SUFFICES ASSUME Inv, Next, NEW i \in Profiles, owner[i] # None, owner' # owner
               PROVE  owner'[i] = owner[i]
    BY DEF vars
  <2>1. ASSUME NEW c \in Calls, ClaimProfile(c) PROVE owner'[i] = owner[i]
    BY SMT, <2>1 DEF ClaimProfile, Claims, Inv, TypeOK
  <2>2. ASSUME NEW c \in Calls, NEW j \in Profiles, CreateProfile(c, j)
        PROVE  owner'[i] = owner[i]
    BY SMT, <2>2 DEF CreateProfile, Unused, Inv, TypeOK
  <2>3. ASSUME NEW c \in Calls,
               \/ \E f \in Flows, signup \in BOOLEAN, u \in Users, pr \in Providers :
                    Redeem(c, f, signup, u, pr)
               \/ \E a \in Accounts, p \in Persons \cup {None} : Exchange(c, a, p)
               \/ FindOrCreateUserByEmail(c) \/ LookUpHandle(c)
               \/ UpsertToken(c) \/ IssueSession(c) \/ Fail(c)
        PROVE  FALSE
    BY <2>3 DEF Redeem, Exchange, FindOrCreateUserByEmail, LookUpHandle, UpsertToken,
       IssueSession, Fail
  <2>4. CASE \E f \in Flows :
               \/ \E u \in Users :
                    (\E pr \in Providers : Authorize(f, u, pr)) \/ AuthorizeSignup(f, u)
               \/ ExpireState(f)
    BY <2>4 DEF Authorize, AuthorizeSignup, SaveState, ExpireState
  <2>5. CASE (\E u \in Users, pr \in Providers : Disconnect(u, pr)) \/ (\E p \in Persons : ForgetProviderUser(p))
    BY <2>5 DEF Disconnect, ForgetProviderUser, Drop
  <2>6. CASE \E a \in Accounts :
               (\E j \in Profiles, id \in BOOLEAN : AddHandle(j, a, id)) \/ DeleteHandle(a)
    BY <2>6 DEF AddHandle, DeleteHandle
  <2> QED
    BY <2>1, <2>2, <2>3, <2>4, <2>5, <2>6 DEF Next
<1> QED
  BY <1>1, ConnectionsInvariant, PTL DEF Spec, OwnerIsKept
=============================================================================
