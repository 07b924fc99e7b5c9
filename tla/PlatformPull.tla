---------------------------- MODULE PlatformPull ----------------------------
(***************************************************************************)
(* What a connector brings back.  A fetch is a plan of calls to the        *)
(* platform, made one after the other and cut short by the first that      *)
(* fails; which call it is decides whether the fetch is an error, or a     *)
(* partial snapshot of what the calls before it brought.                   *)
(*                                                                         *)
(* An account is what the platform would answer: its media edge in pages,  *)
(* and for each post the pages of its comments.  The requests are those of *)
(* the orchestrator: every capability, MaxPosts posts.                     *)
(***************************************************************************)
EXTENDS Naturals, FiniteSets, SequencesExt

CONSTANTS
  MaxPosts,     \* posts a fetch may bring (50 in the worker)
  PageSize,     \* posts a media page or a statistics batch holds (25 or 50)
  CommentPages, \* comment pages read of one post (2)
  MaxComments   \* comments read in one fetch (500)

ASSUME PullAssumption ==
  /\ MaxPosts \in Nat /\ PageSize \in Nat \ {0}
  /\ CommentPages \in Nat /\ MaxComments \in Nat

\* What the live platforms may answer: posts with the pages of their comments.
MediaItem ==
  [id : STRING, at : Nat, label : STRING, mute : BOOLEAN, threads : Seq(Seq(STRING))]
LiveAccount ==
  [kind : {"instagram", "youtube"}, token : BOOLEAN, followers : Nat, audience : BOOLEAN,
   pages : Seq(Seq(MediaItem))]

CeilDiv(a, b) == (a + b - 1) \div b

Phases == {"profile", "media", "stats", "core", "watch", "comments", "audience"}
\* An exhausted quota and a rate limit differ only in the message they leave.
Degradable == {"limit"}
Failures == Degradable \cup {"refused"}

Min2(m, n) == IF m < n THEN m ELSE n
Take(s, n) == SubSeq(s, 1, Min2(Len(s), n))

\* The media edge is paged up to the bound, and cut at MaxPosts.
MediaPages(account) == Take(account.pages, CeilDiv(MaxPosts, PageSize))
Listed(account) == Take(FlattenSeq(MediaPages(account)), MaxPosts)

Profile == [phase |-> "profile", of |-> 0, authors |-> <<>>]
Media(n) == [Profile EXCEPT !.phase = "media", !.of = n]
Stats(n) == [Profile EXCEPT !.phase = "stats", !.of = n]
Core(i) == [Profile EXCEPT !.phase = "core", !.of = i]
Watch(i) == [Profile EXCEPT !.phase = "watch", !.of = i]
Thread(i, authors) == [phase |-> "comments", of |-> i, authors |-> authors]
Audience == [Profile EXCEPT !.phase = "audience"]

\* One statistics call a batch, or one insights call a post and a second for the
\* watch time of a video, unless the first found no insights.
PostCalls(account) ==
  LET posts == Listed(account)
      insights(i) == IF posts[i].label = "VIDEO" /\ ~posts[i].mute
                       THEN <<Core(i), Watch(i)>> ELSE <<Core(i)>>
  IN IF account.kind = "youtube"
       THEN [n \in 1..CeilDiv(Len(posts), PageSize) |-> Stats(n)]
       ELSE FlattenSeq([i \in 1..Len(posts) |-> insights(i)])

Authors(threads) == FlattenSeq([n \in DOMAIN threads |-> threads[n].authors])

\* Post by post and page by page, as long as the sample is not full.
CommentCalls(account) ==
  LET posts == Listed(account)
      of(i) == [n \in 1..Min2(CommentPages, Len(posts[i].threads)) |->
                  Thread(i, posts[i].threads[n])]
      all == FlattenSeq([i \in 1..Len(posts) |-> of(i)])
  IN Take(all, Cardinality({n \in 1..Len(all) : Len(Authors(Take(all, n - 1))) < MaxComments}))

audienceFollowerThreshold == 100
Crowd(account) == account.followers >= audienceFollowerThreshold

\* Demographics exist from a follower threshold on; one call a breakdown.
AudienceCalls(account) ==
  IF account.kind = "instagram" /\ Crowd(account) THEN <<Audience, Audience, Audience>> ELSE <<>>

\* An upload is one row of a table, a stub makes no call.
Plan(account) ==
  CASE account.kind \in {"instagram", "youtube"} ->
         <<Profile>> \o [n \in 1..Len(MediaPages(account)) |-> Media(n)] \o PostCalls(account)
                     \o CommentCalls(account) \o AudienceCalls(account)
    [] account.kind = "csv" -> <<Profile>>
    [] OTHER -> <<>>

\* Mutant of InstagramCost: the second call of a video is forgotten.
InstagramCostWithoutWatch ==
  1 + CeilDiv(MaxPosts, PageSize) + MaxPosts + MaxPosts * CommentPages + 3

\* The announcements, before anything is known of the account: every page, two
\* insights calls a post, every comment page, the three breakdowns.
InstagramCost == 1 + CeilDiv(MaxPosts, PageSize) + 2 * MaxPosts + MaxPosts * CommentPages + 3

YouTubeCost == 1 + 2 * CeilDiv(MaxPosts, PageSize) + MaxPosts * CommentPages

CostOf(kind) == IF kind = "instagram" THEN InstagramCost ELSE YouTubeCost
-----------------------------------------------------------------------------
\* The counters of a post: Instagram has likes with the media edge, YouTube only
\* with the statistics; shares and views come with the insights.
Post(account, i, done) ==
  LET p == Listed(account)[i]
      batch == Stats(CeilDiv(i, PageSize)) \in done
      seen == Core(i) \in done /\ ~p.mute
  IN [id |-> p.id, label |-> p.label,
      counted |-> IF account.kind = "youtube" THEN batch ELSE TRUE,
      seen |-> IF account.kind = "youtube" THEN batch ELSE seen \/ account.kind = "csv"]

Reading(name, at, v) == <<[name |-> name, at |-> at, v |-> v]>>
\* A figure whose value tells nothing here.
Figure(name, at) == Reading(name, at, 0)

\* An upload carries the reading it was stored with, of the time of the upload.
ProfilePoints(account, now) ==
  CASE account.kind = "instagram" ->
         Reading("followers", now, account.followers) \o Figure("media_count", now)
    [] account.kind = "youtube" ->
         Reading("subscribers", now, account.followers) \o Figure("views", now)
    [] OTHER -> Reading("followers", account.at, account.followers)

\* Stamped with the time of the post, not with that of the reading.
InsightPoints(account, done) ==
  LET posts == Listed(account)
      core(i) == IF Core(i) \in done /\ ~posts[i].mute
                   THEN Figure("reach", posts[i].at) \o Figure("reach_ratio", posts[i].at)
                          \o Figure("saved", posts[i].at) ELSE <<>>
      watch(i) == IF Watch(i) \in done THEN Figure("watch", posts[i].at) ELSE <<>>
  IN IF account.kind = "instagram"
       THEN FlattenSeq([i \in 1..Len(posts) |-> core(i) \o watch(i)]) ELSE <<>>

Sample(account, answered) ==
  LET posts == Listed(account)
      threads == SelectSeq(answered, LAMBDA c : c.phase = "comments")
      of(t) == [n \in DOMAIN t.authors |-> [post |-> posts[t.of].id, author |-> t.authors[n]]]
  IN Take(FlattenSeq([n \in DOMAIN threads |-> of(threads[n])]), MaxComments)

NoPull == [error |-> "none", partial |-> FALSE, posts |-> <<>>, points |-> <<>>,
           comments |-> <<>>, audience |-> FALSE]

Refused(failure) == [NoPull EXCEPT !.error = failure]

\* The phase in which call k + 1 of the plan fails, if there is one.
CutIn(account, k) == IF k < Len(Plan(account)) THEN Plan(account)[k + 1].phase ELSE "none"

\* The profile is mandatory and the audience is not; what is between them
\* degrades at a limit and is an error otherwise.
IsError(phase, failure) ==
  \/ phase = "profile"
  \/ phase \notin {"none", "audience"} /\ failure \notin Degradable

\* Mutant of Incomplete: a cut among the comments is not marked.
IncompleteButComments(account, phase) ==
  \/ phase \notin {"none", "comments"}
  \/ account.kind = "csv"
  \/ account.kind = "instagram" /\ ~(Crowd(account) /\ account.audience)

\* Partial: something failed, or the audience is withheld; an upload always is.
Incomplete(account, phase) ==
  \/ phase # "none"
  \/ account.kind = "csv"
  \/ account.kind = "instagram" /\ ~(Crowd(account) /\ account.audience)

Snapshot(account, answered, phase, now) ==
  [error |-> "none",
   partial |-> Incomplete(account, phase),
   posts |-> IF phase = "media" THEN <<>>
             ELSE [i \in 1..Len(Listed(account)) |-> Post(account, i, ToSet(answered))],
   points |-> ProfilePoints(account, now) \o InsightPoints(account, ToSet(answered)),
   comments |-> Sample(account, answered),
   audience |-> account.audience /\ phase = "none" /\ AudienceCalls(account) # <<>>]

\* The first k calls of the plan are answered and the next one, if there is one,
\* fails.  The Graph API answers nobody without a token.
Fetch(account, k, failure, now) ==
  CASE Plan(account) = <<>> -> Refused("refused")
    [] account.kind = "instagram" /\ ~account.token -> Refused("refused")
    [] OTHER -> IF IsError(CutIn(account, k), failure) THEN Refused(failure)
                ELSE Snapshot(account, Take(Plan(account), k), CutIn(account, k), now)
=============================================================================
