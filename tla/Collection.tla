----------------------------- MODULE Collection -----------------------------
(***************************************************************************)
(* Collecting for audits of one influencer: the worker fans out over the   *)
(* connected handles, fetches each (PlatformPull), hashes the commenters   *)
(* under the application's one salt, ingests the pull in one transaction,  *)
(* writes the result row of the platform, and joins.  Workers run on       *)
(* several nodes; each process caches the salt behind a mutex.             *)
(*                                                                         *)
(* One database statement or transaction is one step.  A whole fetch is    *)
(* one step too, because it touches nothing shared.  Scoring and the rest  *)
(* of the run are AuditRun and Scoring.                                    *)
(***************************************************************************)
EXTENDS PlatformPull

CONSTANTS
  Audits,       \* audit jobs of the influencer
  Nodes,        \* worker processes
  Handles,      \* handles of the influencer at first
  PlatformOf,   \* the platform of each handle
  Removable,    \* handles somebody may delete
  Requested,    \* Requested[a]: the platforms asked for, none meaning all
  Start,        \* Start[a]: when audit a reads
  Deployments,  \* what processes may be started with: connectors.yaml and the environment
  Offers,       \* Offers[h]: the accounts the platform may answer with
  Uploads,      \* exports in the order in which they are uploaded: [followers, rows]
  ColumnLabels, \* media types the post table accepts
  RecentEnough, \* posts the media-kit meter asks for (5)
  PostWindow,   \* newest posts the summary reads (30)
  MaxRetry,     \* retries of a task
  MaxFaults,    \* failed calls, errors, lost acknowledgements and crashes
  Nothing

\* A block of connectors.yaml; refs are the credentials it names a variable for, and
\* limits the fields of its rate limit that hold a positive figure.
Capabilities == {"profile", "metrics", "recent_posts", "audience_breakdown", "comments"}
KnownPlatforms == {"youtube", "instagram", "facebook", "tiktok", "x", "linkedin"}
Refs == {"api_key_env", "client_id_env", "client_secret_env"}
PlatformConfig ==
  [platform : STRING, enabled : BOOLEAN, capabilities : SUBSET Capabilities, auth : STRING,
   refs : SUBSET Refs, model : STRING, limits : SUBSET {"units", "calls", "window"}]

\* The followers that came with an export, 0 when none were named; a line of it, or
\* one that cannot be read.
UploadedRow ==
  [id : STRING, at : Nat, label : STRING, mute : BOOLEAN, threads : Seq(Seq(STRING)),
   readable : BOOLEAN]
ImportRequest == [followers : Nat, rows : Seq(UploadedRow)]

ASSUME CollectionAssumption ==
  /\ \A d \in Deployments :
       /\ d.readable \in BOOLEAN /\ d.flowB \in BOOLEAN
       /\ d.connectors \in Seq(PlatformConfig)
       /\ d.env \subseteq KnownPlatforms \X Refs
  /\ PlatformOf \in [Handles -> STRING]
  /\ IsFiniteSet(Handles)
  /\ \A h \in Handles : Offers[h] \subseteq LiveAccount
  /\ Uploads \in Seq(ImportRequest)
  /\ Start \in [Audits -> Nat]
  /\ RecentEnough \in Nat /\ PostWindow \in Nat
  /\ MaxRetry \in Nat /\ MaxFaults \in Nat
  /\ Nothing \notin Nodes

VARIABLES
  deploy,   \* the configuration the processes booted with
  handles,  \* handles the influencer has
  upload,   \* how many exports have been uploaded
  run,      \* run[a]: the task of audit a
  fetch,    \* fetch[a][h]: the goroutine of audit a for handle h
  stored,   \* the row of the salt table: the node that generated it
  cache,    \* cache[n]: the salt node n has cached
  lock,     \* lock[n]: the goroutine holding the mutex of node n
  posts, points, comments, audience, \* the metrics tables
  result,   \* rows of audit_platform_result
  faults

tables == <<posts, points, comments, audience>>
vars == <<deploy, handles, upload, run, fetch, stored, cache, lock, tables, result, faults>>

(* Booting: a configuration that is not sound starts no process *)

ValidateAuth(block) ==
  \/ block.auth = "oauth2" /\ {"client_id_env", "client_secret_env"} \subseteq block.refs
  \/ block.auth = "api_key" /\ "api_key_env" \in block.refs

ValidateRateLimit(block) ==
  \/ block.model = "quota_units" /\ "units" \in block.limits
  \/ block.model = "bucketed_calls" /\ {"calls", "window"} \subseteq block.limits

Validate(block) ==
  /\ block.platform \in KnownPlatforms
  /\ block.capabilities # {}
  /\ ValidateAuth(block) /\ ValidateRateLimit(block)

\* Load: the file is read and matches its schema, no platform has two blocks.
Load(d) ==
  /\ d.readable /\ d.connectors # <<>>
  /\ \A i, j \in DOMAIN d.connectors :
       i # j => d.connectors[i].platform # d.connectors[j].platform
  /\ \A i \in DOMAIN d.connectors : Validate(d.connectors[i])

Enabled(d) == {b \in Range(d.connectors) : b.enabled}

Builders == {"youtube", "instagram"}
\* Of the two only YouTube's asks for a credential by itself, the key.
Builds(block) == block.platform = "youtube" => "api_key_env" \in block.refs
ResolveCredentials(d, block) == {block.platform} \X block.refs \subseteq d.env

\* An enabled platform that cannot be served fails the boot.
Boots(d) ==
  Load(d) /\ \A b \in Enabled(d) : b.platform \in Builders /\ ResolveCredentials(d, b) /\ Builds(b)

\* What the processes of a deployment that boots agree on.
Registered(d) == [enabled |-> {b.platform : b \in Enabled(d)}, flowB |-> d.flowB]
Booted == {Registered(d) : d \in {e \in Deployments : Boots(e)}}
-----------------------------------------------------------------------------
Idle == [pc |-> "idle", account |-> Nothing, pull |-> NoPull, salt |-> Nothing]
Broken == [Idle EXCEPT !.pc = "failed"]
Queued == [pc |-> "queued", node |-> Nothing, attempt |-> 0, conns |-> {}]

Seeding == {"seed", "reread"}
InFlight == {"fetch", "hash", "ingest", "result"} \cup Seeding
FetchPc == InFlight \cup {"idle", "done", "failed"}
Delivered == {"succeeded", "partial"}
RunPc == Delivered \cup {"queued", "fetching", "failed", "dead"}

TypeOK ==
  /\ deploy \in Booted
  /\ handles \subseteq Handles
  /\ upload \in 0..Len(Uploads)
  /\ \A a \in Audits : /\ run[a].pc \in RunPc
                       /\ run[a].node \in Nodes \cup {Nothing}
                       /\ run[a].attempt \in 0..MaxRetry
                       /\ run[a].conns \subseteq Handles
                       /\ \A h \in Handles : fetch[a][h].pc \in FetchPc
  /\ stored \in Nodes \cup {Nothing}
  /\ cache \in [Nodes -> Nodes \cup {Nothing}]
  /\ \A n \in Nodes : lock[n] = Nothing \/ lock[n] \in Audits \X Handles
  /\ \A p \in posts : p.label \in ColumnLabels
  /\ faults \in 0..MaxFaults

Init ==
  /\ deploy \in Booted
  /\ handles = Handles
  /\ upload = 0
  /\ run = [a \in Audits |-> Queued]
  /\ fetch = [a \in Audits |-> [h \in Handles |-> Idle]]
  /\ stored = Nothing
  /\ cache = [n \in Nodes |-> Nothing]
  /\ lock = [n \in Nodes |-> Nothing]
  /\ posts = {} /\ points = {} /\ comments = {} /\ audience = {}
  /\ result = {}
  /\ faults = 0
-----------------------------------------------------------------------------
(* The registry, as every process builds it at boot *)

\* Live connectors first, then the provider, then the uploaded exports.
ConnectorOf(platform) ==
  CASE platform \in deploy.enabled -> platform
    [] platform = "instagram" /\ platform \notin deploy.enabled -> IF deploy.flowB THEN "stub" ELSE "csv"
    [] OTHER -> "none"

\* The rows of a CSV: one that cannot be read refuses the whole upload, a
\* repeated post does not.
ParseInstagramPostsCSV(rows) ==
  IF \A n \in DOMAIN rows : rows[n].readable THEN rows ELSE <<>>

Refusable(rows) == rows # <<>> /\ ParseInstagramPostsCSV(rows) = <<>>

\* What the handle's connector would be answered: the platform's account, or the
\* export uploaded last.
Accounts(h) ==
  CASE ConnectorOf(PlatformOf[h]) = "none" -> {}
    [] ConnectorOf(PlatformOf[h]) = "stub" -> {[kind |-> "stub"]}
    [] ConnectorOf(PlatformOf[h]) = "csv" ->
         IF upload = 0 THEN {[kind |-> "stub"]}
         ELSE {[kind |-> "csv", at |-> upload, followers |-> Uploads[upload].followers,
                pages |-> <<ParseInstagramPostsCSV(Uploads[upload].rows)>>,
                token |-> FALSE, audience |-> FALSE]}
    [] OTHER -> Offers[h]

\* A refused upload stores nothing, and the time of the others is their number.
\* Bound: only the upload connector can tell.
ImportInstagramCSV ==
  /\ ConnectorOf("instagram") = "csv"
  /\ \E n \in (upload + 1)..Len(Uploads) : ~Refusable(Uploads[n].rows) /\ upload' = n
  /\ UNCHANGED <<deploy, handles, run, fetch, stored, cache, lock, tables, result, faults>>

\* Bound: only a run that is still to list the connections can tell.
DeleteHandle(h) ==
  /\ h \in handles \cap Removable
  /\ \E a \in Audits : run[a].pc = "queued"
  /\ handles' = handles \ {h}
  /\ UNCHANGED <<deploy, upload, run, fetch, stored, cache, lock, tables, result, faults>>
-----------------------------------------------------------------------------
(* Fanning out *)

FilterConnections(conns, requested) ==
  IF requested = {} THEN conns ELSE {h \in conns : PlatformOf[h] \in requested}

\* A node takes the task and lists the connections as they are now.
StartRun(a, n) ==
  LET conns == FilterConnections(handles, Requested[a]) IN
  /\ run[a].pc = "queued"
  /\ run' = [run EXCEPT ![a] = [pc |-> IF conns = {} THEN "failed" ELSE "fetching",
                                node |-> n, attempt |-> run[a].attempt, conns |-> conns]]
  /\ fetch' = [fetch EXCEPT ![a] =
       [h \in Handles |-> [Idle EXCEPT !.pc = IF h \in conns THEN "fetch" ELSE "idle"]]]
  /\ UNCHANGED <<deploy, handles, upload, stored, cache, lock, tables, result, faults>>

At(a, h, pc) == run[a].pc = "fetching" /\ fetch[a][h].pc = pc

Costs(fault) == /\ fault => faults < MaxFaults
                /\ faults' = IF fault THEN faults + 1 ELSE faults

Now(a) == Start[a] + run[a].attempt

\* A refusal goes to the result row, a pull with comments to be hashed first.
Answered(account, pull) ==
  [pc |-> IF pull.error # "none" THEN "result"
          ELSE IF pull.comments # <<>> THEN "hash" ELSE "ingest",
   account |-> account, pull |-> pull, salt |-> Nothing]

\* No connector skips the platform.
FetchPlatform(a, h) ==
  /\ At(a, h, "fetch")
  /\ \/ /\ Accounts(h) = {}
        /\ fetch' = [fetch EXCEPT ![a][h] = [fetch[a][h] EXCEPT !.pc = "result"]]
        /\ UNCHANGED faults
     \/ \E account \in Accounts(h), failure \in Failures :
          \E k \in 0..Len(Plan(account)) :
            /\ Costs(k < Len(Plan(account)))
            /\ fetch' = [fetch EXCEPT ![a][h] = Answered(account, Fetch(account, k, failure, Now(a)))]
  /\ UNCHANGED <<deploy, handles, upload, run, stored, cache, lock, tables, result>>

\* The outcome of a goroutine that lost its acknowledgement is an error, whatever
\* the database did.
Acknowledged(a, h, acked, next) ==
  /\ fetch' = [fetch EXCEPT ![a][h] = IF acked THEN [fetch[a][h] EXCEPT !.pc = next] ELSE Broken]
  /\ Costs(~acked)
-----------------------------------------------------------------------------
(* Hashing the commenters: the salt is loaded, or seeded, once a process *)

Hashed(g, salt) == [pc |-> "ingest", account |-> g.account, pull |-> g.pull, salt |-> salt]
HasSalt(a, h, salt) == fetch' = [fetch EXCEPT ![a][h] = Hashed(fetch[a][h], salt)]

\* Under the mutex: the cached salt, or the stored one, or the lock is kept to
\* seed one.
AuthorHash(a, h) ==
  LET n == run[a].node IN
  /\ At(a, h, "hash")
  /\ lock[n] = Nothing
  /\ \/ /\ cache[n] # Nothing
        /\ HasSalt(a, h, cache[n])
        /\ UNCHANGED <<cache, lock>>
     \/ /\ cache[n] = Nothing /\ stored # Nothing
        /\ HasSalt(a, h, stored)
        /\ cache' = [cache EXCEPT ![n] = stored]
        /\ UNCHANGED lock
     \/ /\ cache[n] = Nothing /\ stored = Nothing
        /\ fetch' = [fetch EXCEPT ![a][h] = [fetch[a][h] EXCEPT !.pc = "seed"]]
        /\ lock' = [lock EXCEPT ![n] = <<a, h>>]
        /\ UNCHANGED cache
  /\ UNCHANGED <<deploy, handles, upload, run, stored, tables, result, faults>>

Unlock(a) == lock' = [lock EXCEPT ![run[a].node] = Nothing]

\* ON CONFLICT DO NOTHING: the first to insert wins.
SeedSalt(a, h) ==
  /\ At(a, h, "seed")
  /\ stored' = IF stored = Nothing THEN run[a].node ELSE stored
  /\ \E acked \in BOOLEAN : /\ Acknowledged(a, h, acked, "reread")
                            /\ IF acked THEN UNCHANGED lock ELSE Unlock(a)
  /\ UNCHANGED <<deploy, handles, upload, run, cache, tables, result>>

\* Mutant of RereadSalt: the node keeps the salt it generated.
KeepOwnSalt(a, h) ==
  /\ At(a, h, "reread")
  /\ cache' = [cache EXCEPT ![run[a].node] = run[a].node]
  /\ HasSalt(a, h, run[a].node)
  /\ Unlock(a)
  /\ UNCHANGED <<deploy, handles, upload, run, stored, tables, result, faults>>

\* The row is read back, so that every node converges on the winner's.
RereadSalt(a, h) ==
  /\ At(a, h, "reread")
  /\ cache' = [cache EXCEPT ![run[a].node] = stored]
  /\ HasSalt(a, h, stored)
  /\ Unlock(a)
  /\ UNCHANGED <<deploy, handles, upload, run, stored, tables, result, faults>>
-----------------------------------------------------------------------------
(* Ingesting a pull *)

PostRows(a, h) ==
  {[platform |-> PlatformOf[h], id |-> p.id, label |-> p.label] : p \in ToSet(fetch[a][h].pull.posts)}

PointRows(a, h) ==
  {[platform |-> PlatformOf[h], name |-> m.name, at |-> m.at, v |-> m.v] :
     m \in ToSet(fetch[a][h].pull.points)}

CommentRows(a, h) ==
  {[platform |-> PlatformOf[h], post |-> c.post, author |-> c.author, salt |-> fetch[a][h].salt,
    audit |-> a] : c \in ToSet(fetch[a][h].pull.comments)}

AudienceRows(a, h) ==
  IF fetch[a][h].pull.audience
    THEN {[platform |-> PlatformOf[h], audit |-> a, at |-> Now(a)]} ELSE {}

\* What the first attempt of an audit captured keeps its time.
InsertAudience(rows) ==
  audience \cup
    {r \in rows : \A o \in audience : <<o.platform, o.audit>> # <<r.platform, r.audit>>}

\* Mutant of UpsertPosts: the posts of the pull before are deleted.
ReplacePosts(rows) == rows

UpsertPosts(rows) ==
  {p \in posts : \A r \in rows : <<p.platform, p.id>> # <<r.platform, r.id>>} \cup rows

\* A reading of the same time is overwritten.
UpsertPoints(rows) ==
  {p \in points : \A r \in rows : <<p.platform, p.name, p.at>> # <<r.platform, r.name, r.at>>}
    \cup rows

StampsOf(pull) == [n \in DOMAIN pull.points |-> <<pull.points[n].name, pull.points[n].at>>]

\* Mutant of Storable: the table takes any media type.
StorableAnyLabel(pull) ==
  /\ IsInjective([n \in DOMAIN pull.posts |-> pull.posts[n].id])
  /\ IsInjective(StampsOf(pull))

\* An upsert of several rows may touch none of them twice, and the table checks
\* the media type.
Storable(pull) ==
  /\ IsInjective([n \in DOMAIN pull.posts |-> pull.posts[n].id])
  /\ IsInjective(StampsOf(pull))
  /\ \A n \in DOMAIN pull.posts : pull.posts[n].label \in ColumnLabels

\* One transaction, which commits wholly or not at all.
Ingest(a, h) ==
  /\ At(a, h, "ingest")
  /\ IF Storable(fetch[a][h].pull)
       THEN /\ posts' = UpsertPosts(PostRows(a, h))
            /\ points' = UpsertPoints(PointRows(a, h))
            /\ comments' = comments \cup CommentRows(a, h)
            /\ audience' = InsertAudience(AudienceRows(a, h))
            /\ \E acked \in BOOLEAN : Acknowledged(a, h, acked, "result")
       ELSE /\ fetch' = [fetch EXCEPT ![a][h] = Broken]
            /\ UNCHANGED <<tables, faults>>
  /\ UNCHANGED <<deploy, handles, upload, run, stored, cache, lock, result>>

StatusOf(a, h) ==
  LET pull == fetch[a][h].pull IN
  CASE ConnectorOf(PlatformOf[h]) = "none" -> "skipped"
    [] ConnectorOf(PlatformOf[h]) # "none" /\ pull.error = "refused" -> "error"
    [] ConnectorOf(PlatformOf[h]) # "none" /\ pull.error \in Degradable -> "partial"
    [] OTHER -> IF pull.partial THEN "partial" ELSE "ok"

HasSnapshot(a, h) == fetch[a][h].account # Nothing /\ fetch[a][h].pull.error = "none"

\* The row is keyed by the audit and the platform.
UpsertResult(a, h) ==
  /\ At(a, h, "result")
  /\ result' = {r \in result : <<r.audit, r.platform>> # <<a, PlatformOf[h]>>}
                 \cup {[audit |-> a, platform |-> PlatformOf[h], status |-> StatusOf(a, h)]}
  /\ \E acked \in BOOLEAN : Acknowledged(a, h, acked, "done")
  /\ UNCHANGED <<deploy, handles, upload, run, stored, cache, lock, tables>>
-----------------------------------------------------------------------------
(* Failing and joining *)

Holds(a, h) == lock[run[a].node] = <<a, h>>

Fails(a, h) ==
  /\ fetch' = [fetch EXCEPT ![a][h] = Broken]
  /\ IF Holds(a, h) THEN Unlock(a) ELSE UNCHANGED lock
  /\ UNCHANGED <<deploy, handles, upload, run, stored, cache, tables, result>>

\* A statement fails, or the platform's timeout ends.
FailPlatform(a, h) ==
  /\ run[a].pc = "fetching"
  /\ fetch[a][h].pc \in InFlight \ {"fetch"}
  /\ Costs(TRUE)
  /\ Fails(a, h)

\* The first fatal error cancels the others, which may be anywhere.
Cancelled(a, h) ==
  /\ run[a].pc = "fetching"
  /\ fetch[a][h].pc \in InFlight
  /\ \E g \in run[a].conns : fetch[a][g].pc = "failed"
  /\ Fails(a, h)
  /\ UNCHANGED faults

Fatal(a) == \E h \in run[a].conns : fetch[a][h].pc = "failed"
Snapshots(a) == {h \in run[a].conns : HasSnapshot(a, h)}
OkCount(a) == Cardinality({h \in Snapshots(a) : StatusOf(a, h) = "ok"})

\* Nothing of a goroutine outlives its run but what it wrote.
Gone == [h \in Handles |-> Idle]

Again(a) ==
  IF run[a].attempt < MaxRetry
    THEN [Queued EXCEPT !.attempt = run[a].attempt + 1]
    ELSE [run[a] EXCEPT !.pc = "dead"]

\* Nothing at all is a failed audit, a fatal error is a retry, and all of it is
\* a success.
Join(a) ==
  /\ run[a].pc = "fetching"
  /\ \A h \in run[a].conns : fetch[a][h].pc \in {"done", "failed"}
  /\ run' = [run EXCEPT ![a] =
       IF Fatal(a) THEN Again(a)
       ELSE [run[a] EXCEPT !.pc = IF Snapshots(a) = {} THEN "failed"
                                  ELSE IF OkCount(a) = Cardinality(run[a].conns)
                                         THEN "succeeded" ELSE "partial"]]
  /\ fetch' = IF run'[a].pc = "succeeded" THEN fetch ELSE [fetch EXCEPT ![a] = Gone]
  /\ UNCHANGED <<deploy, handles, upload, stored, cache, lock, tables, result, faults>>

On(a, n) == run[a].pc = "fetching" /\ run[a].node = n

\* A process dies with its cache and its goroutines; the queue hands its tasks
\* out again.
Crash(n) ==
  /\ \E a \in Audits : On(a, n)
  /\ Costs(TRUE)
  /\ run' = [a \in Audits |->
       IF On(a, n) THEN Again(a) ELSE run[a]]
  /\ fetch' = [a \in Audits |->
       IF On(a, n) THEN Gone ELSE fetch[a]]
  /\ cache' = [cache EXCEPT ![n] = Nothing]
  /\ lock' = [lock EXCEPT ![n] = Nothing]
  /\ UNCHANGED <<deploy, handles, upload, stored, tables, result>>

Over == {"succeeded", "partial", "failed", "dead"}

\* The only way to stop: no goroutine waits for a mutex nobody releases.
Rest ==
  /\ \A a \in Audits : run[a].pc \in Over
  /\ UNCHANGED vars

Goroutine(a, h) ==
  \/ FetchPlatform(a, h)
  \/ AuthorHash(a, h)
  \/ SeedSalt(a, h)
  \/ RereadSalt(a, h)
  \/ Ingest(a, h)
  \/ UpsertResult(a, h)
  \/ FailPlatform(a, h)
  \/ Cancelled(a, h)

Next ==
  \/ ImportInstagramCSV
  \/ \E h \in Handles : DeleteHandle(h)
  \/ \E a \in Audits, n \in Nodes : StartRun(a, n)
  \/ \E a \in Audits, h \in Handles : Goroutine(a, h)
  \/ \E a \in Audits : Join(a)
  \/ \E n \in Nodes : Crash(n)
  \/ Rest

Spec == Init /\ [][Next]_vars
-----------------------------------------------------------------------------
(* What the result page says of the influencer *)

Recorded(name) == {m \in points : m.name = name}

\* What growth is scored from: the Instagram readings, or those of any platform
\* when there are none.
FollowerSeries ==
  LET instagram == {m \in Recorded("followers") : m.platform = "instagram"}
  IN IF instagram # {} THEN instagram ELSE Recorded("followers")

\* The strip takes any platform's newest reading, and YouTube has none of this name.
LatestFollowers ==
  {m \in Recorded("followers") : \A o \in Recorded("followers") : o.at <= m.at}

\* The buckets of the audit captured last.
LatestAudience ==
  {r \in audience : \E latest \in audience :
     latest.audit = r.audit /\ \A o \in audience : o.at <= latest.at}

\* How many posts the window holds; the reach and the saves of a post, and
\* whether it was sponsored, are columns the ingest leaves empty.
RecentPosts == Min2(Cardinality(posts), PostWindow)

\* Posts are dated, so two of them have a gap.
PostingGaps == Max({0, RecentPosts - 1})

\* A sample is counted through its post, so a post that went would take it away.
CommentSamples ==
  {c \in comments : \E p \in posts : <<p.platform, p.id>> = <<c.platform, c.post>>}

\* The headline figures that are shown; a rate wants somebody to divide by.
MetricsStrip ==
  {field \in {"followers", "engagement_rate", "reach_ratio", "posting_cadence_days"} :
     CASE field = "followers" -> LatestFollowers # {}
       [] field = "engagement_rate" -> RecentPosts > 0 /\ \E m \in LatestFollowers : m.v > 0
       [] field = "reach_ratio" -> Recorded("reach_ratio") # {}
       [] OTHER -> PostingGaps > 0}

\* The media-kit checklist.
Readiness ==
  {field \in {"profile", "recent_posts", "audience_demographics", "verified_insights", "comment_samples"} :
     CASE field = "profile" -> LatestFollowers # {} \/ RecentPosts > 0
       [] field = "recent_posts" -> RecentPosts >= RecentEnough
       [] field = "audience_demographics" -> LatestAudience # {}
       [] field = "verified_insights" -> Recorded("reach_ratio") # {}
       [] OTHER -> CommentSamples # {}}

GetInfluencerProfileSummary == [strip |-> MetricsStrip, readiness |-> Readiness]
-----------------------------------------------------------------------------
(* Properties *)

\* Every comment ever stored is hashed under the one stored salt, and a process
\* that has cached a salt has cached that one: whatever boots first, fails and
\* retries, equal authors have equal hashes (SaltProvider.loadOrSeed).
OneSalt ==
  /\ \A c \in comments : c.salt # Nothing /\ c.salt = stored
  /\ \A n \in Nodes : cache[n] \in {Nothing, stored}

Whole(a, h) ==
  LET account == fetch[a][h].account
      full == Fetch(account, Len(Plan(account)), "refused", Now(a))
  IN /\ HasSnapshot(a, h)
     /\ fetch[a][h].pull = full
     /\ Len(full.posts) = Len(Listed(account))
     /\ \A i \in DOMAIN full.posts : full.posts[i].counted
     /\ CommentRows(a, h) \subseteq comments

\* A job is "succeeded" only when every connection its last attempt listed was
\* read to the end, with every statistics call answered and every sampled comment
\* stored, and the result rows of those platforms say so (fanOut, allOK).
SucceededIsWhole ==
  \A a \in Audits : run[a].pc = "succeeded" =>
    \A h \in run[a].conns :
      /\ Whole(a, h)
      /\ [audit |-> a, platform |-> PlatformOf[h], status |-> "ok"] \in result

\* No fetch spends more calls than its connector's CostOf said it could, however
\* the pages, the videos and the comments are spread.
CostBoundsCalls ==
  \A a \in Audits, h \in Handles :
    HasSnapshot(a, h) /\ fetch[a][h].account.kind \in {"instagram", "youtube"} =>
      Len(Plan(fetch[a][h].account)) <= CostOf(fetch[a][h].account.kind)

\* No pull, however poor, and no retry takes away a headline figure or a tick of
\* the media-kit meter (buildProfileSummary), nor the series growth is scored
\* from: an audit only adds to what is known of the creator.  One figure may go, the
\* engagement rate, and only with a new reading of no followers: an upload that names
\* none, or an account that lost them all (buildMetricsStrip).
SummaryNeverDrops ==
  [][LET before == GetInfluencerProfileSummary
         after == GetInfluencerProfileSummary'
         rate == {"engagement_rate"}
         lost == \E m \in points' \ points : m.name = "followers" /\ m.v = 0
     IN /\ before.strip \subseteq after.strip \cup (IF lost THEN rate ELSE {})
        /\ before.readiness \subseteq after.readiness
        /\ FollowerSeries # {} => FollowerSeries' # {}]_vars

(* What a test, a migration and comments say and the model refutes: see the README. *)

\* The strip keeps its figures (profile_summary.go:27: no absent input makes a zero).
\* An upload that names no followers leaves a reading of 0, which is the newest.
FiguresStay == [][GetInfluencerProfileSummary.strip \subseteq GetInfluencerProfileSummary'.strip]_vars

\* Every pull a connector can answer can be stored: no goroutine fails unless
\* something of the outside failed (migrations/000035:4, service_test.go:290).
PullsAreStorable ==
  faults = 0 => \A a \in Audits, h \in Handles : fetch[a][h].pc # "failed"
=============================================================================
