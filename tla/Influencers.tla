------------------------------ MODULE Influencers ------------------------------
(***************************************************************************)
(* Influencer profiles, their handles, the derived size band (tier) and    *)
(* the list that is read page by page.                                     *)
(*                                                                         *)
(* A write of a handle is one transaction under READ COMMITTED: the row is *)
(* written, the largest count is read by a statement that sees what is     *)
(* committed by then and the transaction's own write, and the tier is      *)
(* updated and committed.  A write of a handle another transaction has     *)
(* written waits for it.  created_at is the time the transaction began,    *)
(* not the time its row could be seen first.                               *)
(*                                                                         *)
(* Owners and accounts, which sign-ups go by, are in Connections.  An      *)
(* identifier is a number: profiles are listed by time, then by it.        *)
(***************************************************************************)
EXTENDS Naturals, SequencesExt

CONSTANTS
  Profiles,      \* identifiers of influencer rows, in no order of creation
  Names,         \* (platform, handle) pairs
  Niches,        \* content categories
  Counts,        \* follower counts a client may report
  Writers,       \* requests that write, one under way at a time each
  Readers,       \* clients that walk the list
  Filters,       \* filters the readers may choose
  Asked,         \* page sizes the readers ask for
  DefaultLimit, MaxLimit,
  MaxClock,      \* bound on the times at which profiles are created
  Null

Tiers == {"nano", "micro", "mid", "macro", "mega"}
Filter == [niche : Niches \cup {Null}, tier : Tiers \cup {Null}]

ASSUME InfluencersAssumption ==
  /\ Filters \subseteq Filter
  /\ IsFiniteSet(Profiles)
  /\ Profiles \subseteq Nat /\ Counts \subseteq Nat /\ Asked \subseteq Nat
  /\ Null \notin Profiles \cup Names \cup Niches \cup Counts
  /\ MaxLimit \in Nat /\ DefaultLimit \in 1..MaxLimit /\ MaxClock \in Nat

VARIABLES
  profile,  \* profile[i]: the influencer row, if there is one
  handle,   \* handle[n]: the handle row of the name, if there is one
  tx,       \* tx[w]: the transaction of writer w
  clock,    \* the time, in microseconds
  walk,     \* walk[r]: how far reader r is in the list
  raced,    \* profiles whose last handle write overlapped another (bookkeeping)
  steady    \* steady[r]: profiles listed ever since r began (bookkeeping)

influencersVars == <<profile, handle, tx, clock, walk, raced, steady>>

NoProfile == [created |-> 0, niche |-> Null, tier |-> Null]
NoHandle == [of |-> Null, count |-> Null]
NoTx == [pc |-> "idle", op |-> Null, of |-> Null, name |-> Null, count |-> Null,
         niche |-> Null, tier |-> Null, created |-> 0, overlapped |-> FALSE]
Idle == [pc |-> "idle", niche |-> Null, tier |-> Null, after |-> Null, seen |-> <<>>]

Exists(i) == profile[i].created > 0
Listed == {i \in Profiles : Exists(i)}

InfluencersTypeOK ==
  /\ profile \in [Profiles -> [created : 0..MaxClock, niche : Niches \cup {Null},
                               tier : Tiers \cup {Null}]]
  /\ handle \in [Names -> [of : Profiles \cup {Null}, count : Counts \cup {Null}]]
  /\ \A n \in Names : handle[n].of # Null => Exists(handle[n].of)
  /\ \A i \in Profiles : profile[i].tier # Null => Exists(i)
  /\ clock \in 0..MaxClock
  /\ \A r \in Readers : /\ walk[r].pc \in {"idle", "paging", "done"}
                        /\ walk[r].after \in Listed \cup {Null}
                        /\ ToSet(walk[r].seen) \subseteq Listed
  /\ raced \subseteq Listed

InfluencersInit ==
  /\ profile = [i \in Profiles |-> NoProfile]
  /\ handle = [n \in Names |-> NoHandle]
  /\ tx = [w \in Writers |-> NoTx]
  /\ clock = 0
  /\ walk = [r \in Readers |-> Idle]
  /\ raced = {}
  /\ steady = [r \in Readers |-> {}]

-----------------------------------------------------------------------------
(* Writing profiles and handles *)

Open == {w \in Writers : tx[w].pc # "idle"}
OpenOn(i) == {w \in Open : tx[w].of = i}
Held(n) == \E w \in Open : tx[w].name = n

\* now() is the time the transaction began, and two may begin at once.
Began(t) == t \in {clock, clock + 1} /\ t \in 1..MaxClock /\ clock' = t

Begin(w, t) ==
  tx' = [v \in Writers |->
           IF v = w THEN [t EXCEPT !.overlapped = OpenOn(t.of) # {}]
           ELSE IF v \in OpenOn(t.of) THEN [tx[v] EXCEPT !.overlapped = TRUE]
           ELSE tx[v]]

End(w) == tx' = [tx EXCEPT ![w] = NoTx]

\* The create endpoint: the row has no tier, as it has no handle.
CreateInfluencer(w, i, niche) ==
  /\ w \notin Open /\ ~Exists(i) /\ OpenOn(i) = {}
  /\ \E t \in {clock, clock + 1} :
       /\ Began(t)
       /\ Begin(w, [NoTx EXCEPT !.pc = "commit", !.op = "create", !.of = i,
                                !.niche = niche, !.created = t])
  /\ UNCHANGED <<profile, handle, walk, raced>>

\* Mutant of UpsertInstagramInfluencer: the handle is inserted outside the transaction.
UpsertOutsideTx(w, i, n) ==
  /\ w \notin Open /\ ~Exists(i) /\ OpenOn(i) = {}
  /\ ~Held(n) /\ handle[n].of = Null
  /\ handle' = [handle EXCEPT ![n] = [of |-> i, count |-> Null]]
  /\ \E t \in {clock, clock + 1} :
       /\ Began(t)
       /\ Begin(w, [NoTx EXCEPT !.pc = "recompute", !.op = "create", !.of = i,
                                !.name = n, !.created = t])
  /\ UNCHANGED <<profile, walk, raced>>

\* A sign-up whose account is not known: a profile, and a handle without a count.
UpsertInstagramInfluencer(w, i, n) ==
  /\ w \notin Open /\ ~Exists(i) /\ OpenOn(i) = {}
  /\ ~Held(n) /\ handle[n].of = Null
  /\ \E t \in {clock, clock + 1} :
       /\ Began(t)
       /\ Begin(w, [NoTx EXCEPT !.pc = "recompute", !.op = "create", !.of = i,
                                !.name = n, !.created = t])
  /\ UNCHANGED <<profile, handle, walk, raced>>

\* A name that is taken is a conflict, and nothing is written.
AddHandle(w, i, n, count) ==
  /\ w \notin Open /\ Exists(i)
  /\ ~Held(n) /\ handle[n].of = Null
  /\ Begin(w, [NoTx EXCEPT !.pc = "recompute", !.op = "add", !.of = i, !.name = n,
                           !.count = count])
  /\ UNCHANGED <<profile, handle, clock, walk, raced>>

DeleteHandle(w, n) ==
  /\ w \notin Open
  /\ ~Held(n) /\ handle[n].of # Null
  /\ Begin(w, [NoTx EXCEPT !.pc = "recompute", !.op = "delete", !.of = handle[n].of,
                           !.name = n])
  /\ UNCHANGED <<profile, handle, clock, walk, raced>>

TierForFollowers(n) ==
  IF n >= 1000000 THEN "mega"
  ELSE IF n >= 500000 THEN "macro"
  ELSE IF n >= 100000 THEN "mid"
  ELSE IF n >= 10000 THEN "micro"
  ELSE "nano"

\* The band of the largest count among the rows of i, if one has a count.
TierFrom(rows, i) ==
  LET counts == {rows[n].count : n \in {m \in Names : rows[m].of = i}} \ {Null}
  IN IF counts = {} THEN Null ELSE TierForFollowers(Max(counts))

Written(w) ==
  IF tx[w].op = "delete" THEN NoHandle ELSE [of |-> tx[w].of, count |-> tx[w].count]

\* What is committed, and the transaction's own write.
RowsSeenBy(w) == [n \in Names |-> IF n = tx[w].name THEN Written(w) ELSE handle[n]]

\* Mutant of RecomputeTier: the tier is the band of the count in the request.
RecomputeTierFromRequest(w) ==
  /\ tx[w].pc = "recompute"
  /\ tx' = [tx EXCEPT ![w].pc = "commit", ![w].tier =
       IF tx[w].count = Null THEN Null ELSE TierForFollowers(tx[w].count)]
  /\ UNCHANGED <<profile, handle, clock, walk, raced>>

RecomputeTier(w) ==
  /\ tx[w].pc = "recompute"
  /\ tx' = [tx EXCEPT ![w].tier = TierFrom(RowsSeenBy(w), tx[w].of), ![w].pc = "commit"]
  /\ UNCHANGED <<profile, handle, clock, walk, raced>>

Commit(w) ==
  LET i == tx[w].of IN
  /\ tx[w].pc = "commit"
  /\ profile' = [profile EXCEPT ![i] =
       IF tx[w].op = "create"
         THEN [created |-> tx[w].created, niche |-> tx[w].niche, tier |-> tx[w].tier]
         ELSE [@ EXCEPT !.tier = tx[w].tier]]
  /\ handle' = RowsSeenBy(w)
  /\ raced' = IF tx[w].overlapped THEN raced \cup {i} ELSE raced \ {i}
  /\ End(w)
  /\ UNCHANGED <<clock, walk>>

\* A statement or the commit fails: the transaction is rolled back.
Rollback(w) ==
  /\ w \in Open
  /\ End(w)
  /\ UNCHANGED <<profile, handle, clock, walk, raced>>

\* A field the request leaves out stays; the tier is not among the fields.
UpdateInfluencer(i, niche) ==
  /\ Exists(i) /\ niche # profile[i].niche
  /\ profile' = [profile EXCEPT ![i].niche = niche]
  /\ UNCHANGED <<handle, tx, clock, walk, raced>>

-----------------------------------------------------------------------------
(* Reading the list *)

ListInfluencers(i, filter) ==
  /\ Exists(i)
  /\ filter.niche \in {Null, profile[i].niche}
  /\ filter.tier \in {Null, profile[i].tier}

Newer(i, j) ==
  \/ profile[i].created > profile[j].created
  \/ profile[i].created = profile[j].created /\ i > j

\* Mutant of AfterCursor: the position is a time.
AfterTime(i, cursor) == cursor = Null \/ profile[cursor].created > profile[i].created

\* The cursor is the position of the last row seen, and positions do not change.
AfterCursor(i, cursor) == cursor = Null \/ Newer(cursor, i)

\* The rows of a set in the order of the list.
NewestFirst(S) ==
  CHOOSE s \in SetToSeqs(S) : \A j, k \in DOMAIN s : j < k => Newer(s[j], s[k])

ClampLimit(asked) == IF asked = 0 THEN DefaultLimit ELSE Min({asked, MaxLimit})

\* The rows of the page are the first of those fetched.
Page(fetched, limit) == SubSeq(fetched, 1, Min({limit, Len(fetched)}))

BeginWalk(r, filter) ==
  /\ walk[r].pc = "idle"
  /\ walk' = [walk EXCEPT ![r] = [Idle EXCEPT
       !.pc = "paging", !.niche = filter.niche, !.tier = filter.tier]]
  /\ UNCHANGED <<profile, handle, tx, clock, raced>>

\* One more row than the page is fetched, to know whether another page follows.
NextPage(r, asked) ==
  LET limit == ClampLimit(asked)
      rest == {i \in Profiles : ListInfluencers(i, walk[r]) /\ AfterCursor(i, walk[r].after)}
      sorted == NewestFirst(rest)
      fetched == SubSeq(sorted, 1, Min({limit + 1, Len(sorted)}))
      page == Page(fetched, limit)
      more == Len(fetched) > limit
  IN
  /\ walk[r].pc = "paging"
  /\ walk' = [walk EXCEPT ![r] =
       IF more THEN [@ EXCEPT !.seen = walk[r].seen \o page, !.after = Last(page)]
       ELSE [Idle EXCEPT !.seen = walk[r].seen \o page, !.pc = "done"]]
  /\ UNCHANGED <<profile, handle, tx, clock, raced>>

-----------------------------------------------------------------------------
Write(w) ==
  \/ \E i \in Profiles :
       \/ \E niche \in Niches \cup {Null} : CreateInfluencer(w, i, niche)
       \/ \E n \in Names :
            \/ UpsertInstagramInfluencer(w, i, n)
            \/ \E count \in Counts \cup {Null} : AddHandle(w, i, n, count)
  \/ \E n \in Names : DeleteHandle(w, n)
  \/ RecomputeTier(w) \/ Commit(w) \/ Rollback(w)

Read(r) ==
  \/ \E filter \in Filters : BeginWalk(r, filter)
  \/ \E asked \in Asked : NextPage(r, asked)

\* The profiles the reader's filter has let through at every moment of the walk.
Steady(r) ==
  LET since == IF walk[r].pc = "idle" THEN Profiles ELSE steady[r]
  IN IF walk'[r].pc = "done" THEN steady[r]
     ELSE {i \in since : ListInfluencers(i, walk[r])'}

InfluencersNext ==
  /\ \/ \E w \in Writers : Write(w)
     \/ \E i \in Profiles, niche \in Niches : UpdateInfluencer(i, niche)
     \/ \E r \in Readers : Read(r)
  /\ steady' = [r \in Readers |-> IF walk'[r].pc = "idle" THEN {} ELSE Steady(r)]

InfluencersSpec == InfluencersInit /\ [][InfluencersNext]_influencersVars
-----------------------------------------------------------------------------
(* Properties *)

\* A walk over the pages shows rows newest first and each once, and when it ends it
\* has shown every profile that its filter let through from beginning to end,
\* whatever was created, edited or re-tiered meanwhile, in whatever order the
\* transactions of the same microsecond committed ("stable pages", cursor.go).
WalkIsWhole ==
  \A r \in Readers :
    LET seen == walk[r].seen IN
    /\ \A j, k \in DOMAIN seen : j < k => Newer(seen[j], seen[k])
    /\ walk[r].pc = "done" => steady[r] \subseteq ToSet(seen)

\* The tier is the band of the largest count on record, unless handle writes of the
\* profile overlapped and no lone one has come since: a lone write repairs it.
LoneWritesSetTier ==
  \A i \in Listed \ raced : profile[i].tier = TierFrom(handle, i)

-----------------------------------------------------------------------------
(* What comments of the code say and the model refutes: see the README *)

\* "tier ... tracks handles": once no write of a handle is under way, the tier is
\* the band of the handles there are.
TierTracksHandles ==
  \A i \in Listed : OpenOn(i) = {} => profile[i].tier = TierFrom(handle, i)
=============================================================================
