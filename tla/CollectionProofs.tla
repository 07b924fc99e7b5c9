-------------------------- MODULE CollectionProofs --------------------------
(***************************************************************************)
(* For any number of audits, nodes, handles and faults, and whatever the   *)
(* platforms list:                                                         *)
(*                                                                         *)
(*   - one salt: the row is written once, a process caches what it read    *)
(*     from the row, and a goroutine hashes with what its process cached   *)
(*     (SaltInv);                                                          *)
(*   - a job that succeeded is whole: what a goroutine holds is what some  *)
(*     first calls of its account's plan bring, and a pull that is not     *)
(*     partial is what all of them bring (WholeInv);                       *)
(*   - no plan is longer than was announced (PlanType);                    *)
(*   - the summary only grows, but for the engagement rate, which a        *)
(*     reading of no followers takes away: posts and readings are keyed    *)
(*     and never lose a key, and of the captured audiences there is a      *)
(*     newest one (SummaryInv).                                            *)
(*                                                                         *)
(* The plan is data of any length, so its lemmas need induction: it is     *)
(* had from the least counterexample (Least), the naturals being well      *)
(* ordered.                                                                *)
(***************************************************************************)
EXTENDS Collection, FiniteSetTheorems, SequenceTheorems, TLAPS

\* What is known of a goroutine's record, its account and pull being whatever the
\* platform answered.
Shaped(g) ==
  /\ g = [pc |-> g.pc, account |-> g.account, pull |-> g.pull, salt |-> g.salt]
  /\ g.pc \in FetchPc

Placed(r) ==
  /\ r = [pc |-> r.pc, node |-> r.node, attempt |-> r.attempt, conns |-> r.conns]
  /\ r.pc = "fetching" => r.node \in Nodes

Shapes ==
  /\ run = [a \in Audits |-> run[a]]
  /\ \A a \in Audits : Placed(run[a])
  /\ fetch = [a \in Audits |-> fetch[a]]
  /\ \A a \in Audits : fetch[a] = [h \in Handles |-> fetch[a][h]]
  /\ \A a \in Audits, h \in Handles : Shaped(fetch[a][h])
  /\ cache = [n \in Nodes |-> cache[n]]

\* What goroutine g may do with the salt s of the table.
Salted(g, s) ==
  /\ g.salt \in {Nothing, s}
  /\ g.pc = "reread" => s # Nothing
  /\ g.pc = "ingest" /\ g.pull.comments # <<>> => g.salt # Nothing

SaltInv ==
  /\ Shapes
  /\ OneSalt
  /\ \A a \in Audits, h \in Handles : Salted(fetch[a][h], stored)

-----------------------------------------------------------------------------
(* Goroutines *)

LEMMA IdleShaped ==
  ASSUME NEW s, NEW pc \in FetchPc \ {"reread", "ingest"}
  PROVE  /\ Shaped([Idle EXCEPT !.pc = pc])
         /\ Salted([Idle EXCEPT !.pc = pc], s)
  BY DEF Shaped, Salted, Idle, FetchPc, InFlight, Seeding

LEMMA BrokenShaped ==
  ASSUME NEW s
  PROVE  Shaped(Broken) /\ Salted(Broken, s)
  BY DEF Shaped, Salted, Broken, Idle, FetchPc, InFlight, Seeding

LEMMA MovedShaped ==
  ASSUME NEW g, NEW s, Shaped(g), Salted(g, s), NEW pc \in FetchPc \ {"reread", "ingest"}
  PROVE  /\ Shaped([g EXCEPT !.pc = pc])
         /\ Salted([g EXCEPT !.pc = pc], s)
  BY DEF Shaped, Salted

\* One goroutine of one audit changes.
LEMMA OneChangesBut ==
  ASSUME SaltInv, UNCHANGED <<run, stored, cache>>, OneSalt',
         NEW a \in Audits, NEW h \in Handles, NEW g, Shaped(g), Salted(g, stored),
         fetch' = [fetch EXCEPT ![a][h] = g]
  PROVE  SaltInv'
  <1>1. /\ \A b \in Audits : fetch'[b] = IF b = a THEN [fetch[a] EXCEPT ![h] = g] ELSE fetch[b]
        /\ fetch' = [b \in Audits |-> fetch'[b]]
    BY DEF SaltInv, Shapes
  <1>2. \A b \in Audits, i \in Handles :
          fetch'[b][i] = IF b = a /\ i = h THEN g ELSE fetch[b][i]
    BY <1>1 DEF SaltInv, Shapes
  <1>3. \A b \in Audits : fetch'[b] = [i \in Handles |-> fetch'[b][i]]
    BY <1>1 DEF SaltInv, Shapes
  <1>4. Shapes'
    BY <1>1, <1>2, <1>3 DEF SaltInv, Shapes
  <1>5. \A b \in Audits, i \in Handles : Salted(fetch'[b][i], stored')
    BY <1>2 DEF SaltInv
  <1> QED BY <1>4, <1>5 DEF SaltInv

LEMMA OneChanges ==
  ASSUME SaltInv, UNCHANGED <<run, stored, cache, comments>>,
         NEW a \in Audits, NEW h \in Handles, NEW g, Shaped(g), Salted(g, stored),
         fetch' = [fetch EXCEPT ![a][h] = g]
  PROVE  SaltInv'
  <1>1. OneSalt'
    BY DEF SaltInv, OneSalt
  <1> QED BY <1>1, OneChangesBut

\* The same, and its process caches the stored salt.
LEMMA CacheChanges ==
  ASSUME SaltInv, UNCHANGED <<run, stored, comments>>,
         NEW a \in Audits, NEW h \in Handles, NEW g, Shaped(g), Salted(g, stored),
         fetch' = [fetch EXCEPT ![a][h] = g],
         NEW n \in Nodes, cache' = [cache EXCEPT ![n] = stored]
  PROVE  SaltInv'
  <1>1. /\ \A b \in Audits : fetch'[b] = IF b = a THEN [fetch[a] EXCEPT ![h] = g] ELSE fetch[b]
        /\ fetch' = [b \in Audits |-> fetch'[b]]
    BY DEF SaltInv, Shapes
  <1>2. \A b \in Audits, i \in Handles :
          fetch'[b][i] = IF b = a /\ i = h THEN g ELSE fetch[b][i]
    BY <1>1 DEF SaltInv, Shapes
  <1>3. \A b \in Audits : fetch'[b] = [i \in Handles |-> fetch'[b][i]]
    BY <1>1 DEF SaltInv, Shapes
  <1>4. cache' = [m \in Nodes |-> cache'[m]] /\ \A m \in Nodes : cache'[m] \in {cache[m], stored}
    BY DEF SaltInv, Shapes
  <1>5. Shapes'
    BY <1>1, <1>2, <1>3, <1>4 DEF SaltInv, Shapes
  <1>6. \A b \in Audits, i \in Handles : Salted(fetch'[b][i], stored')
    BY <1>2 DEF SaltInv
  <1>7. OneSalt'
    BY <1>4 DEF SaltInv, OneSalt
  <1> QED BY <1>5, <1>6, <1>7 DEF SaltInv

LEMMA FieldsOf ==
  ASSUME SaltInv, NEW a \in Audits, NEW h \in Handles
  PROVE  Shaped(fetch[a][h]) /\ Salted(fetch[a][h], stored)
  BY DEF SaltInv, Shapes

LEMMA GoneShaped ==
  ASSUME NEW s, NEW h \in Handles
  PROVE  Shaped(Gone[h]) /\ Salted(Gone[h], s) /\ Gone = [i \in Handles |-> Gone[i]]
  BY DEF Shaped, Salted, Gone, Idle, FetchPc, InFlight, Seeding

\* A whole run changes, with its goroutines.
LEMMA RunChanges ==
  ASSUME SaltInv, UNCHANGED <<stored, comments>>,
         cache' = [n \in Nodes |-> cache'[n]], \A n \in Nodes : cache'[n] \in {Nothing, cache[n]},
         run' = [a \in Audits |-> run'[a]], \A a \in Audits : Placed(run'[a]),
         fetch' = [a \in Audits |-> fetch'[a]],
         \A a \in Audits : \/ fetch'[a] = fetch[a]
                            \/ /\ fetch'[a] = [h \in Handles |-> fetch'[a][h]]
                               /\ \A h \in Handles : Shaped(fetch'[a][h]) /\ Salted(fetch'[a][h], stored)
  PROVE  SaltInv'
  <1>1. \A a \in Audits, h \in Handles : Shaped(fetch'[a][h]) /\ Salted(fetch'[a][h], stored)
    BY DEF SaltInv, Shapes
  <1>2. \A a \in Audits : fetch'[a] = [h \in Handles |-> fetch'[a][h]]
    BY DEF SaltInv, Shapes
  <1>3. Shapes'
    BY <1>1, <1>2 DEF SaltInv, Shapes
  <1>4. OneSalt'
    BY DEF SaltInv, OneSalt
  <1> QED BY <1>1, <1>3, <1>4 DEF SaltInv
-----------------------------------------------------------------------------
(* Initially, and one step after the other *)

LEMMA SaltInit ==
  ASSUME CollectionAssumption, Init
  PROVE  SaltInv
  <1>1. \A a \in Audits : run[a] = Queued
    BY DEF Init
  <1>2. Placed(Queued)
    BY DEF Queued, Placed
  <1>3. \A a \in Audits, h \in Handles : fetch[a][h] = Idle
    BY DEF Init
  <1>4. Shaped(Idle) /\ Salted(Idle, stored)
    BY DEF Shaped, Salted, Idle, FetchPc, InFlight, Seeding
  <1>5. Shapes
    BY <1>1, <1>2, <1>3, <1>4 DEF Shapes, Init
  <1>6. OneSalt
    BY DEF OneSalt, Init
  <1> QED BY <1>3, <1>4, <1>5, <1>6 DEF SaltInv

LEMMA StartKeeps ==
  ASSUME SaltInv, NEW a \in Audits, NEW n \in Nodes, StartRun(a, n)
  PROVE  SaltInv'
  <1> DEFINE conns == FilterConnections(handles, Requested[a])
             r == [pc |-> IF conns = {} THEN "failed" ELSE "fetching",
                   node |-> n, attempt |-> run[a].attempt, conns |-> conns]
             begun(h) == [Idle EXCEPT !.pc = IF h \in conns THEN "fetch" ELSE "idle"]
  <1>1. run' = [run EXCEPT ![a] = r]
    BY DEF StartRun
  <1>2. Placed(r)
    BY DEF Placed
  <1>3. fetch' = [fetch EXCEPT ![a] = [h \in Handles |-> begun(h)]]
    BY DEF StartRun
  <1>4. \A h \in Handles : Shaped(begun(h)) /\ Salted(begun(h), stored)
    BY IdleShaped DEF FetchPc, InFlight
  <1>5. UNCHANGED <<stored, comments, cache>>
    BY DEF StartRun, tables
  <1> HIDE DEF r, begun
  <1>6. run' = [b \in Audits |-> run'[b]] /\ \A b \in Audits : Placed(run'[b])
    BY <1>1, <1>2 DEF SaltInv, Shapes
  <1>7. fetch' = [b \in Audits |-> fetch'[b]]
    BY <1>3 DEF SaltInv, Shapes
  <1>8. \A b \in Audits :
          \/ fetch'[b] = fetch[b]
          \/ /\ fetch'[b] = [h \in Handles |-> fetch'[b][h]]
             /\ \A h \in Handles : Shaped(fetch'[b][h]) /\ Salted(fetch'[b][h], stored)
    BY <1>3, <1>4 DEF SaltInv, Shapes
  <1>9. cache' = [m \in Nodes |-> cache'[m]] /\ \A m \in Nodes : cache'[m] \in {Nothing, cache[m]}
    BY <1>5 DEF SaltInv, Shapes
  <1> QED BY <1>5, <1>6, <1>7, <1>8, <1>9, RunChanges

LEMMA AnsweredShaped ==
  ASSUME NEW account, NEW pull, NEW s
  PROVE  Shaped(Answered(account, pull)) /\ Salted(Answered(account, pull), s)
  <1> DEFINE pc == IF pull.error # "none" THEN "result"
                   ELSE IF pull.comments # <<>> THEN "hash" ELSE "ingest"
  <1>1. Answered(account, pull) = [pc |-> pc, account |-> account, pull |-> pull, salt |-> Nothing]
    BY DEF Answered
  <1>2. pc \in FetchPc /\ pc # "reread" /\ (pc = "ingest" => pull.comments = <<>>)
    BY DEF FetchPc, InFlight
  <1> QED BY <1>1, <1>2 DEF Shaped, Salted

LEMMA FetchKeeps ==
  ASSUME SaltInv, NEW a \in Audits, NEW h \in Handles, FetchPlatform(a, h)
  PROVE  SaltInv'
  <1>1. UNCHANGED <<run, stored, cache, comments>>
    BY DEF FetchPlatform, tables
  <1>2. CASE fetch' = [fetch EXCEPT ![a][h] = [fetch[a][h] EXCEPT !.pc = "result"]]
    <2> DEFINE g == [fetch[a][h] EXCEPT !.pc = "result"]
    <2>1. Shaped(g) /\ Salted(g, stored)
      BY FieldsOf, MovedShaped DEF FetchPc, InFlight
    <2> QED BY <1>1, <1>2, <2>1, OneChanges
  <1>3. ASSUME NEW account, NEW failure, NEW k,
               fetch' = [fetch EXCEPT ![a][h] = Answered(account, Fetch(account, k, failure, Now(a)))]
        PROVE  SaltInv'
    <2> DEFINE g == Answered(account, Fetch(account, k, failure, Now(a)))
    <2>1. Shaped(g) /\ Salted(g, stored)
      BY AnsweredShaped
    <2> QED BY <1>1, <1>3, <2>1, OneChanges
  <1> QED BY <1>2, <1>3 DEF FetchPlatform

LEMMA HasSaltKeeps ==
  ASSUME NEW g, NEW s, Shaped(g), s # Nothing
  PROVE  Shaped(Hashed(g, s)) /\ Salted(Hashed(g, s), s)
  BY DEF Hashed, Shaped, Salted, FetchPc, InFlight

LEMMA HashKeeps ==
  ASSUME SaltInv, NEW a \in Audits, NEW h \in Handles, AuthorHash(a, h)
  PROVE  SaltInv'
  <1> DEFINE n == run[a].node
  <1>0. n \in Nodes
    BY DEF AuthorHash, At, SaltInv, Shapes, Placed
  <1>1. UNCHANGED <<run, stored, comments>>
    BY DEF AuthorHash, tables
  <1>2. CASE cache[n] # Nothing /\ HasSalt(a, h, cache[n]) /\ UNCHANGED cache
    <2>1. cache[n] = stored
      BY <1>0, <1>2 DEF SaltInv, OneSalt
    <2> DEFINE g == Hashed(fetch[a][h], stored)
    <2>2. Shaped(g) /\ Salted(g, stored)
      BY <1>2, <2>1, FieldsOf, HasSaltKeeps
    <2>3. fetch' = [fetch EXCEPT ![a][h] = g]
      BY <1>2, <2>1 DEF HasSalt
    <2> QED BY <1>1, <1>2, <2>2, <2>3, OneChanges
  <1>3. CASE stored # Nothing /\ HasSalt(a, h, stored) /\ cache' = [cache EXCEPT ![n] = stored]
    <2> DEFINE g == Hashed(fetch[a][h], stored)
    <2>1. Shaped(g) /\ Salted(g, stored)
      BY <1>3, FieldsOf, HasSaltKeeps
    <2>2. fetch' = [fetch EXCEPT ![a][h] = g]
      BY <1>3 DEF HasSalt
    <2> QED BY <1>0, <1>1, <1>3, <2>1, <2>2, CacheChanges
  <1>4. CASE fetch' = [fetch EXCEPT ![a][h] = [fetch[a][h] EXCEPT !.pc = "seed"]] /\ UNCHANGED cache
    <2> DEFINE g == [fetch[a][h] EXCEPT !.pc = "seed"]
    <2>1. Shaped(g) /\ Salted(g, stored)
      BY FieldsOf, MovedShaped DEF FetchPc, InFlight, Seeding
    <2> QED BY <1>1, <1>4, <2>1, OneChanges
  <1> QED BY <1>2, <1>3, <1>4 DEF AuthorHash

LEMMA AcknowledgedShaped ==
  ASSUME SaltInv, NEW a \in Audits, NEW h \in Handles, NEW acked, NEW s,
         NEW next \in FetchPc \ {"reread", "ingest"}, Acknowledged(a, h, acked, next)
  PROVE  \E g : /\ fetch' = [fetch EXCEPT ![a][h] = g]
               /\ Shaped(g) /\ Salted(g, stored)
  <1> DEFINE g == IF acked THEN [fetch[a][h] EXCEPT !.pc = next] ELSE Broken
  <1>1. Shaped(g) /\ Salted(g, stored)
    BY FieldsOf, MovedShaped, BrokenShaped
  <1>2. fetch' = [fetch EXCEPT ![a][h] = g]
    BY DEF Acknowledged
  <1> QED BY <1>1, <1>2

LEMMA RereadShaped ==
  ASSUME NEW g, NEW s, Shaped(g), g.salt \in {Nothing, s}, s # Nothing
  PROVE  /\ Shaped([g EXCEPT !.pc = "reread"])
         /\ Salted([g EXCEPT !.pc = "reread"], s)
  BY DEF Shaped, Salted, FetchPc, InFlight, Seeding

LEMMA SeedKeeps ==
  ASSUME CollectionAssumption, SaltInv, NEW a \in Audits, NEW h \in Handles, SeedSalt(a, h)
  PROVE  SaltInv'
  <1>1. run[a].node \in Nodes /\ run[a].node # Nothing
    BY DEF SeedSalt, At, SaltInv, Shapes, Placed, CollectionAssumption
  <1>2. stored' # Nothing /\ (stored # Nothing => stored' = stored)
    BY <1>1 DEF SeedSalt
  <1>3. UNCHANGED <<run, cache, comments>>
    BY DEF SeedSalt, tables
  <1>4. PICK acked \in BOOLEAN :
          fetch' = [fetch EXCEPT ![a][h] = IF acked THEN [fetch[a][h] EXCEPT !.pc = "reread"] ELSE Broken]
    BY DEF SeedSalt, Acknowledged
  <1> DEFINE g == IF acked THEN [fetch[a][h] EXCEPT !.pc = "reread"] ELSE Broken
  <1>5. Shaped(g) /\ Salted(g, stored')
    <2>1. CASE acked
      <3>1. fetch[a][h].salt \in {Nothing, stored'}
        BY <1>2, FieldsOf DEF Salted
      <3> QED BY <1>2, <2>1, <3>1, FieldsOf, RereadShaped
    <2>2. CASE ~acked
      BY <2>2, BrokenShaped
    <2> QED BY <2>1, <2>2
  <1>6. fetch' = [fetch EXCEPT ![a][h] = g]
    BY <1>4
  <1> HIDE DEF g
  <1>7. \A b \in Audits, i \in Handles :
          fetch'[b][i] = IF b = a /\ i = h THEN g ELSE fetch[b][i]
    BY <1>6 DEF SaltInv, Shapes
  <1>8. /\ fetch' = [b \in Audits |-> fetch'[b]]
        /\ \A b \in Audits : fetch'[b] = [i \in Handles |-> fetch'[b][i]]
    BY <1>6 DEF SaltInv, Shapes
  <1>9. \A b \in Audits, i \in Handles : Shaped(fetch'[b][i]) /\ Salted(fetch'[b][i], stored')
    <2> TAKE b \in Audits, i \in Handles
    <2>1. Shaped(fetch[b][i]) /\ Salted(fetch[b][i], stored')
      BY <1>2, FieldsOf DEF Salted
    <2> QED BY <1>5, <1>7, <2>1
  <1>10. Shapes'
    BY <1>3, <1>8, <1>9 DEF SaltInv, Shapes
  <1>11. OneSalt'
    BY <1>2, <1>3 DEF SaltInv, OneSalt
  <1> QED BY <1>9, <1>10, <1>11 DEF SaltInv

LEMMA RereadKeeps ==
  ASSUME SaltInv, NEW a \in Audits, NEW h \in Handles, RereadSalt(a, h)
  PROVE  SaltInv'
  <1>1. run[a].node \in Nodes /\ stored # Nothing
    BY FieldsOf DEF RereadSalt, At, SaltInv, Shapes, Placed, Salted
  <1>2. UNCHANGED <<run, stored, comments>> /\ cache' = [cache EXCEPT ![run[a].node] = stored]
    BY DEF RereadSalt, tables
  <1>3. fetch' = [fetch EXCEPT ![a][h] = Hashed(fetch[a][h], stored)]
    BY DEF RereadSalt, HasSalt
  <1>4. Shaped(Hashed(fetch[a][h], stored)) /\ Salted(Hashed(fetch[a][h], stored), stored)
    BY <1>1, FieldsOf, HasSaltKeeps
  <1> QED BY <1>1, <1>2, <1>3, <1>4, CacheChanges

\* A transaction stores comments under the salt of their goroutine.
LEMMA IngestKeeps ==
  ASSUME SaltInv, NEW a \in Audits, NEW h \in Handles, Ingest(a, h)
  PROVE  SaltInv'
  <1>1. UNCHANGED <<run, stored, cache>>
    BY DEF Ingest
  <1>2. \A c \in CommentRows(a, h) : c.salt # Nothing /\ c.salt = stored
    <2>1. fetch[a][h].pull.comments = <<>> \/ fetch[a][h].salt # Nothing
      BY FieldsOf DEF Ingest, At, Salted
    <2>2. fetch[a][h].salt \in {Nothing, stored}
      BY FieldsOf DEF Salted
    <2>3. CASE fetch[a][h].pull.comments = <<>>
      <3>1. ToSet(fetch[a][h].pull.comments) = {}
        BY <2>3 DEF ToSet
      <3> QED BY <3>1 DEF CommentRows
    <2>4. CASE fetch[a][h].salt # Nothing
      BY <2>2, <2>4 DEF CommentRows
    <2> QED BY <2>1, <2>3, <2>4
  <1>3. comments' = comments \/ comments' = comments \cup CommentRows(a, h)
    BY DEF Ingest, tables
  <1>4. \E g : fetch' = [fetch EXCEPT ![a][h] = g] /\ Shaped(g) /\ Salted(g, stored)
    <2>1. CASE Storable(fetch[a][h].pull)
      BY <2>1, AcknowledgedShaped DEF Ingest, FetchPc, InFlight
    <2>2. CASE ~Storable(fetch[a][h].pull)
      BY <2>2, BrokenShaped DEF Ingest
    <2> QED BY <2>1, <2>2
  <1>5. OneSalt'
    BY <1>1, <1>2, <1>3 DEF SaltInv, OneSalt
  <1> QED BY <1>1, <1>4, <1>5, OneChangesBut

LEMMA ResultKeeps ==
  ASSUME SaltInv, NEW a \in Audits, NEW h \in Handles, UpsertResult(a, h)
  PROVE  SaltInv'
  <1>1. UNCHANGED <<run, stored, cache, comments>>
    BY DEF UpsertResult, tables
  <1>2. \E g : fetch' = [fetch EXCEPT ![a][h] = g] /\ Shaped(g) /\ Salted(g, stored)
    BY AcknowledgedShaped DEF UpsertResult, FetchPc
  <1> QED BY <1>1, <1>2, OneChanges

LEMMA FailKeeps ==
  ASSUME SaltInv, NEW a \in Audits, NEW h \in Handles, Fails(a, h)
  PROVE  SaltInv'
  <1>1. UNCHANGED <<run, stored, cache, comments>> /\ fetch' = [fetch EXCEPT ![a][h] = Broken]
    BY DEF Fails, tables
  <1> QED BY <1>1, BrokenShaped, OneChanges

LEMMA AgainPlaced ==
  ASSUME SaltInv, NEW a \in Audits
  PROVE  Placed(Again(a))
  <1>1. Placed([Queued EXCEPT !.attempt = run[a].attempt + 1])
    BY DEF Placed, Queued
  <1>2. Placed([run[a] EXCEPT !.pc = "dead"])
    BY DEF SaltInv, Shapes, Placed
  <1> QED BY <1>1, <1>2 DEF Again

LEMMA JoinKeeps ==
  ASSUME SaltInv, NEW a \in Audits, Join(a)
  PROVE  SaltInv'
  <1> DEFINE pc == IF Snapshots(a) = {} THEN "failed"
                   ELSE IF OkCount(a) = Cardinality(run[a].conns) THEN "succeeded" ELSE "partial"
             r == IF Fatal(a) THEN Again(a) ELSE [run[a] EXCEPT !.pc = pc]
  <1>1. run' = [run EXCEPT ![a] = r]
    BY DEF Join
  <1>2. Placed(r)
    <2>1. pc # "fetching"
      OBVIOUS
    <2> HIDE DEF pc
    <2>2. Placed([run[a] EXCEPT !.pc = pc])
      BY <2>1 DEF SaltInv, Shapes, Placed
    <2> QED BY <2>2, AgainPlaced
  <1>3. fetch' = fetch \/ fetch' = [fetch EXCEPT ![a] = Gone]
    BY DEF Join
  <1>4. UNCHANGED <<stored, comments, cache>>
    BY DEF Join, tables
  <1> HIDE DEF r
  <1>5. run' = [b \in Audits |-> run'[b]] /\ \A b \in Audits : Placed(run'[b])
    BY <1>1, <1>2 DEF SaltInv, Shapes
  <1>6. fetch' = [b \in Audits |-> fetch'[b]]
    BY <1>3 DEF SaltInv, Shapes
  <1>7. \A b \in Audits :
          \/ fetch'[b] = fetch[b]
          \/ /\ fetch'[b] = [h \in Handles |-> fetch'[b][h]]
             /\ \A h \in Handles : Shaped(fetch'[b][h]) /\ Salted(fetch'[b][h], stored)
    BY <1>3, GoneShaped DEF SaltInv, Shapes, Gone
  <1>8. cache' = [m \in Nodes |-> cache'[m]] /\ \A m \in Nodes : cache'[m] \in {Nothing, cache[m]}
    BY <1>4 DEF SaltInv, Shapes
  <1> QED BY <1>4, <1>5, <1>6, <1>7, <1>8, RunChanges

LEMMA CrashKeeps ==
  ASSUME SaltInv, NEW n \in Nodes, Crash(n)
  PROVE  SaltInv'
  <1>1. run' = [a \in Audits |-> IF On(a, n) THEN Again(a) ELSE run[a]]
    BY DEF Crash
  <1>2. run' = [a \in Audits |-> run'[a]] /\ \A a \in Audits : Placed(run'[a])
    BY <1>1, AgainPlaced DEF SaltInv, Shapes
  <1>3. fetch' = [a \in Audits |-> IF On(a, n) THEN Gone ELSE fetch[a]]
    BY DEF Crash
  <1>4. fetch' = [a \in Audits |-> fetch'[a]]
    BY <1>3
  <1>5. \A a \in Audits :
          \/ fetch'[a] = fetch[a]
          \/ /\ fetch'[a] = [h \in Handles |-> fetch'[a][h]]
             /\ \A h \in Handles : Shaped(fetch'[a][h]) /\ Salted(fetch'[a][h], stored)
    BY <1>3, GoneShaped DEF Gone
  <1>6. UNCHANGED <<stored, comments>> /\ cache' = [cache EXCEPT ![n] = Nothing]
    BY DEF Crash, tables
  <1>7. cache' = [m \in Nodes |-> cache'[m]] /\ \A m \in Nodes : cache'[m] \in {Nothing, cache[m]}
    BY <1>6 DEF SaltInv, Shapes
  <1> QED BY <1>2, <1>4, <1>5, <1>6, <1>7, RunChanges

LEMMA SaltStep ==
  ASSUME CollectionAssumption, SaltInv, [Next]_vars
  PROVE  SaltInv'
  <1>1. CASE UNCHANGED <<run, fetch, stored, cache, comments>>
    BY <1>1 DEF SaltInv, Shapes, OneSalt, Shaped, Salted, Placed
  <1>2. CASE \E a \in Audits, n \in Nodes : StartRun(a, n)
    BY <1>2, StartKeeps
  <1>3. ASSUME NEW a \in Audits, NEW h \in Handles, Goroutine(a, h)
        PROVE  SaltInv'
    <2>1. CASE FetchPlatform(a, h) BY <2>1, FetchKeeps
    <2>2. CASE AuthorHash(a, h) BY <2>2, HashKeeps
    <2>3. CASE SeedSalt(a, h) BY <2>3, SeedKeeps
    <2>4. CASE RereadSalt(a, h) BY <2>4, RereadKeeps
    <2>5. CASE Ingest(a, h) BY <2>5, IngestKeeps
    <2>6. CASE UpsertResult(a, h) BY <2>6, ResultKeeps
    <2>7. CASE FailPlatform(a, h) BY <2>7, FailKeeps DEF FailPlatform
    <2>8. CASE Cancelled(a, h) BY <2>8, FailKeeps DEF Cancelled
    <2> QED BY <1>3, <2>1, <2>2, <2>3, <2>4, <2>5, <2>6, <2>7, <2>8 DEF Goroutine
  <1>4. CASE \E a \in Audits : Join(a)
    BY <1>4, JoinKeeps
  <1>5. CASE \E n \in Nodes : Crash(n)
    BY <1>5, CrashKeeps
  <1>6. CASE ImportInstagramCSV \/ (\E h \in Handles : DeleteHandle(h)) \/ Rest \/ UNCHANGED vars
    BY <1>1, <1>6 DEF ImportInstagramCSV, DeleteHandle, Rest, vars, tables
  <1> QED BY <1>2, <1>3, <1>4, <1>5, <1>6 DEF Next

\* Whatever boots first, fails, dies and is retried, all the comments ever stored
\* are hashed under the one salt of the table.
THEOREM OneSaltAlways == ASSUME CollectionAssumption PROVE Spec => []OneSalt
  <1>1. Init => SaltInv
    BY SaltInit
  <1>2. SaltInv /\ [Next]_vars => SaltInv'
    BY SaltStep
  <1>3. SaltInv => OneSalt
    BY DEF SaltInv
  <1> QED BY <1>1, <1>2, <1>3, PTL DEF Spec
-----------------------------------------------------------------------------
(* Induction over the naturals and over sequences *)

\* A set of naturals has a least element.
LEMMA Least ==
  ASSUME NEW T \in SUBSET Nat, T # {}
  PROVE  \E m \in T : \A k \in T : m <= k
  <1> DEFINE R == {p \in Nat \X Nat : p[1] < p[2]}
  <1>1. IsWellFoundedOn(R, Nat)
    BY NatLessThanWellFounded DEF OpToRel
  <1>2. \A x, y \in Nat : y < x => <<y, x>> \in R
    OBVIOUS
  <1> HIDE DEF R
  <1>3. PICK m \in T : \A y \in T : ~(<<y, m>> \in R)
    BY <1>1, WFMin
  <1>4. ASSUME NEW k \in T PROVE m <= k
    <2>1. ~(k < m)
      BY <1>2, <1>3
    <2> QED BY <2>1
  <1> QED BY <1>4

\* What holds of 1 and of the next of each that it holds of, holds up to n.
LEMMA UpTo ==
  ASSUME NEW n \in Nat, NEW T, \A m \in 1..n : m = 1 \/ m - 1 \in T => m \in T
  PROVE  \A m \in 1..n : m \in T
  <1> DEFINE Bad == {m \in 1..n : m \notin T}
  <1> SUFFICES ASSUME Bad # {} PROVE FALSE
    OBVIOUS
  <1>1. Bad \in SUBSET Nat
    OBVIOUS
  <1>2. PICK m \in Bad : \A k \in Bad : m <= k
    BY <1>1, Least
  <1>3. m \in 1..n /\ m \notin T
    OBVIOUS
  <1>4. m # 1 /\ m - 1 \notin T
    BY <1>3
  <1>5. m - 1 \in 1..n /\ ~(m <= m - 1)
    BY <1>3, <1>4
  <1> QED BY <1>2, <1>4, <1>5

\* The function FlattenSeq folds with exists.
LEMMA FlattenFcn ==
  ASSUME NEW seqs, NEW n \in Nat
  PROVE  \E g : g = [i \in 1..n |-> IF i = 1 THEN seqs[i] ELSE g[i-1] \o seqs[i]]
  <1> DEFINE Rec(g, m) == g = [i \in 1..m |-> IF i = 1 THEN seqs[i] ELSE g[i-1] \o seqs[i]]
             Has == {m \in Nat : \E g : Rec(g, m)}
  <1>1. ASSUME NEW m \in 1..n, m = 1 \/ m - 1 \in Has PROVE m \in Has
    <2>1. PICK g : m = 1 \/ Rec(g, m - 1)
      BY <1>1
    <2> DEFINE last == IF m = 1 THEN seqs[m] ELSE g[m-1] \o seqs[m]
               h == [i \in 1..m |-> IF i = m THEN last ELSE g[i]]
    <2>2. \A i \in 1..m : h[i] = IF i = 1 THEN seqs[i] ELSE h[i-1] \o seqs[i]
      <3> TAKE i \in 1..m
      <3>1. CASE i = m
        <4>1. i # 1 => i - 1 \in 1..m /\ i - 1 # m
          BY <3>1
        <4> QED BY <3>1, <4>1
      <3>2. CASE i # m
        <4>1. i \in 1..(m-1) /\ (i # 1 => i - 1 \in 1..m /\ i-1 # m)
          BY <3>2
        <4>2. h[i] = g[i] /\ (i # 1 => h[i-1] = g[i-1])
          BY <3>2, <4>1
        <4>3. Rec(g, m - 1)
          <5>1. m # 1
            BY <4>1
          <5> HIDE DEF Rec
          <5> QED BY <2>1, <5>1
        <4>4. g[i] = IF i = 1 THEN seqs[i] ELSE g[i-1] \o seqs[i]
          BY <4>1, <4>3
        <4> QED BY <4>2, <4>4
      <3> QED BY <3>1, <3>2
    <2>3. Rec(h, m)
      <3> HIDE DEF last
      <3>1. h = [i \in 1..m |-> h[i]]
        OBVIOUS
      <3> QED BY <2>2, <3>1
    <2>4. \E f : Rec(f, m)
      <3> HIDE DEF h
      <3> QED BY <2>3
    <2>5. m \in Nat
      OBVIOUS
    <2> HIDE DEF Rec
    <2> QED BY <2>4, <2>5
  <1>2. CASE n = 0
    <2>1. Rec([i \in 1..0 |-> 0], 0)
      OBVIOUS
    <2> QED BY <1>2, <2>1
  <1>3. CASE n # 0
    <2>1. n \in 1..n
      BY <1>3
    <2> HIDE DEF Has
    <2>2. n \in Has
      BY <1>1, <2>1, UpTo
    <2> QED BY <2>2 DEF Has
  <1> QED BY <1>2, <1>3

\* What it is, step by step.
LEMMA FlattenDef ==
  ASSUME NEW seqs, Len(seqs) \in Nat, Len(seqs) # 0
  PROVE  \E g : /\ FlattenSeq(seqs) = g[Len(seqs)]
                /\ \A i \in 1..Len(seqs) : g[i] = IF i = 1 THEN seqs[i] ELSE g[i-1] \o seqs[i]
  <1> DEFINE g == CHOOSE f : f = [i \in 1..Len(seqs) |-> IF i = 1 THEN seqs[i] ELSE f[i-1] \o seqs[i]]
  <1>1. g = [i \in 1..Len(seqs) |-> IF i = 1 THEN seqs[i] ELSE g[i-1] \o seqs[i]]
    BY FlattenFcn
  <1>2. FlattenSeq(seqs) = g[Len(seqs)]
    BY DEF FlattenSeq
  <1> HIDE DEF g
  <1> QED BY <1>1, <1>2

\* A sequence of sequences flattens to a sequence, at most as long as they together
\* may be.
LEMMA FlattenBound ==
  ASSUME NEW S, NEW seqs \in Seq(Seq(S)), NEW c \in Nat
  PROVE  /\ FlattenSeq(seqs) \in Seq(S)
         /\ (\A i \in 1..Len(seqs) : Len(seqs[i]) <= c) => Len(FlattenSeq(seqs)) <= c * Len(seqs)
  <1>1. CASE Len(seqs) = 0
    <2>1. FlattenSeq(seqs) = <<>>
      BY <1>1 DEF FlattenSeq
    <2> QED BY <1>1, <2>1
  <1>2. CASE Len(seqs) # 0
    <2>1. PICK g : /\ FlattenSeq(seqs) = g[Len(seqs)]
                   /\ \A i \in 1..Len(seqs) : g[i] = IF i = 1 THEN seqs[i] ELSE g[i-1] \o seqs[i]
      BY <1>2, FlattenDef
    <2> DEFINE Short == \A i \in 1..Len(seqs) : Len(seqs[i]) <= c
               Good == {m \in 1..Len(seqs) : g[m] \in Seq(S) /\ (Short => Len(g[m]) <= c * m)}
    <2>2. ASSUME NEW m \in 1..Len(seqs), m = 1 \/ m - 1 \in Good PROVE m \in Good
      <3>1. /\ seqs[m] \in Seq(S) /\ Len(seqs[m]) \in Nat
            /\ Short => Len(seqs[m]) <= c
        OBVIOUS
      <3>2. CASE m = 1
        <4>1. g[m] = seqs[m] /\ c * m = c
          BY <2>1, <3>2
        <4> QED BY <3>1, <4>1
      <3>3. CASE m # 1
        <4>1. /\ m - 1 \in 1..Len(seqs) /\ g[m-1] \in Seq(S)
              /\ Short => Len(g[m-1]) <= c * (m - 1)
          BY <2>2, <3>3
        <4> HIDE DEF Short
        <4>2. g[m] = g[m-1] \o seqs[m]
          BY <2>1, <3>3
        <4>3. g[m] \in Seq(S) /\ Len(g[m]) = Len(g[m-1]) + Len(seqs[m]) /\ Len(g[m-1]) \in Nat
          BY <3>1, <4>1, <4>2, ConcatProperties
        <4>4. c * m = c * (m - 1) + c /\ c * (m - 1) \in Nat /\ c * m \in Nat
          OBVIOUS
        <4>5. ASSUME Short PROVE Len(g[m]) <= c * m
          <5>1. Len(seqs[m]) <= c /\ Len(g[m-1]) <= c * (m - 1)
            BY <3>1, <4>1, <4>5
          <5> DEFINE p == c * (m - 1)
                     q == c * m
          <5>2. p \in Nat /\ q \in Nat /\ q = p + c /\ Len(g[m-1]) <= p
            BY <4>4, <5>1
          <5> HIDE DEF p, q
          <5>3. PICK k \in Nat, l \in Nat : k = Len(g[m-1]) /\ l = Len(seqs[m])
            BY <3>1, <4>3
          <5>4. Len(g[m]) = k + l /\ k <= p /\ l <= c
            BY <4>3, <5>1, <5>2, <5>3
          <5>5. Len(g[m]) <= q
            BY ONLY <5>2, <5>4, k \in Nat, l \in Nat, c \in Nat
          <5> QED BY <5>5 DEF q
        <4> QED BY <4>3, <4>5
      <3> QED BY <3>2, <3>3
    <2>3. Len(seqs) \in 1..Len(seqs)
      BY <1>2
    <2>4. \A m \in 1..Len(seqs) : m \in Good
      <3>1. Len(seqs) \in Nat
        OBVIOUS
      <3> HIDE DEF Good
      <3> QED BY <2>2, <3>1, UpTo
    <2>5. Len(seqs) \in Good
      BY <2>3, <2>4
    <2> QED BY <2>1, <2>5
  <1> QED BY <1>1, <1>2
-----------------------------------------------------------------------------
(* The plan of a fetch *)

LEMMA DivBounds ==
  ASSUME NEW a \in Nat, NEW b \in Nat \ {0}
  PROVE  /\ CeilDiv(a, b) \in Nat
         /\ b * CeilDiv(a, b) >= a /\ b * CeilDiv(a, b) < a + b
  <1> DEFINE q == (a + b - 1) \div b
             r == (a + b - 1) % b
  <1>1. a + b - 1 \in Nat
    OBVIOUS
  <1>2. q \in Nat /\ r \in 0..(b-1) /\ a + b - 1 = b * q + r
    BY <1>1, Z3
  <1> QED BY <1>2 DEF CeilDiv

LEMMA DivMonotone ==
  ASSUME NEW a \in Nat, NEW c \in Nat, a <= c, NEW b \in Nat \ {0}
  PROVE  CeilDiv(a, b) <= CeilDiv(c, b) /\ (a > 0 => CeilDiv(a, b) >= 1)
  <1>1. PICK q \in Nat : q = CeilDiv(a, b) /\ b * q >= a /\ b * q < a + b
    BY DivBounds
  <1>2. PICK p \in Nat : p = CeilDiv(c, b) /\ b * p >= c /\ b * p < c + b
    BY DivBounds
  <1>3. q <= p
    <2> SUFFICES ASSUME q >= p + 1 PROVE FALSE
      OBVIOUS
    <2>1. b * q >= b * (p + 1)
      BY Z3
    <2>2. b * (p + 1) = b * p + b
      OBVIOUS
    <2> QED BY <1>1, <1>2, <2>1, <2>2
  <1>4. a > 0 => q >= 1
    BY <1>1
  <1> QED BY <1>1, <1>2, <1>3, <1>4

LEMMA TakeType ==
  ASSUME NEW S, NEW s \in Seq(S), NEW n \in Nat
  PROVE  /\ Take(s, n) \in Seq(S)
         /\ Len(Take(s, n)) = Min2(Len(s), n)
         /\ \A i \in 1..Len(Take(s, n)) : Take(s, n)[i] = s[i]
  BY SubSeqProperties DEF Take, Min2

LEMMA ListedType ==
  ASSUME PullAssumption, NEW S, NEW account, account.pages \in Seq(Seq(S))
  PROVE  /\ MediaPages(account) \in Seq(Seq(S))
         /\ Len(MediaPages(account)) <= CeilDiv(MaxPosts, PageSize)
         /\ Listed(account) \in Seq(S) /\ Len(Listed(account)) <= MaxPosts
  <1>1. CeilDiv(MaxPosts, PageSize) \in Nat /\ MaxPosts \in Nat
    BY DivBounds DEF PullAssumption
  <1>2. /\ MediaPages(account) \in Seq(Seq(S))
        /\ Len(MediaPages(account)) <= CeilDiv(MaxPosts, PageSize)
    BY <1>1, TakeType DEF MediaPages, Min2
  <1>3. FlattenSeq(MediaPages(account)) \in Seq(S)
    BY <1>2, FlattenBound
  <1> QED BY <1>1, <1>2, <1>3, TakeType DEF Listed, Min2

Calls == [phase : Phases, of : Nat, authors : Seq(STRING)]

LEMMA CallTypes ==
  /\ Profile \in Calls /\ Audience \in Calls
  /\ \A n \in Nat : Media(n) \in Calls /\ Stats(n) \in Calls /\ Core(n) \in Calls /\ Watch(n) \in Calls
  /\ \A n \in Nat, authors \in Seq(STRING) : Thread(n, authors) \in Calls
  <1>1. <<>> \in Seq(STRING)
    OBVIOUS
  <1>2. Profile \in Calls /\ Audience \in Calls
    BY <1>1 DEF Calls, Profile, Audience, Phases
  <1>3. ASSUME NEW n \in Nat
        PROVE  Media(n) \in Calls /\ Stats(n) \in Calls /\ Core(n) \in Calls /\ Watch(n) \in Calls
    <2> DEFINE C(p, i) == [phase |-> p, of |-> i, authors |-> <<>>]
    <2>1. ASSUME NEW p PROVE [Profile EXCEPT !.phase = p, !.of = n] = C(p, n)
      <3>1. [C("profile", 0) EXCEPT !.phase = p] = C(p, 0)
        OBVIOUS
      <3>2. [C(p, 0) EXCEPT !.of = n] = C(p, n)
        OBVIOUS
      <3>3. [Profile EXCEPT !.phase = p, !.of = n] = [[C("profile", 0) EXCEPT !.phase = p] EXCEPT !.of = n]
        BY DEF Profile
      <3> HIDE DEF C
      <3> QED BY <3>1, <3>2, <3>3
    <2>2. /\ Media(n) = C("media", n) /\ Stats(n) = C("stats", n)
          /\ Core(n) = C("core", n) /\ Watch(n) = C("watch", n)
      BY <2>1 DEF Media, Stats, Core, Watch
    <2>3. Media(n) \in Calls /\ Stats(n) \in Calls /\ Core(n) \in Calls /\ Watch(n) \in Calls
      BY <1>1, <2>2 DEF Calls, Phases
    <2> QED BY <2>3
  <1>4. \A n \in Nat, authors \in Seq(STRING) : Thread(n, authors) \in Calls
    BY DEF Calls, Thread, Phases
  <1> QED BY <1>2, <1>3, <1>4

LEMMA PostCallsType ==
  ASSUME PullAssumption, NEW account, account.pages \in Seq(Seq(MediaItem))
  PROVE  /\ PostCalls(account) \in Seq(Calls)
         /\ account.kind = "instagram" => Len(PostCalls(account)) <= 2 * MaxPosts
         /\ account.kind = "youtube" =>
              /\ Len(PostCalls(account)) = CeilDiv(Len(Listed(account)), PageSize)
              /\ Len(PostCalls(account)) <= CeilDiv(MaxPosts, PageSize)
              /\ \A n \in 1..Len(PostCalls(account)) : PostCalls(account)[n] = Stats(n)
  <1> DEFINE listed == Listed(account)
             insights(i) == IF listed[i].label = "VIDEO" /\ ~listed[i].mute
                              THEN <<Core(i), Watch(i)>> ELSE <<Core(i)>>
             seqs == [i \in 1..Len(listed) |-> insights(i)]
  <1>1. listed \in Seq(MediaItem) /\ Len(listed) \in Nat /\ Len(listed) <= MaxPosts /\ MaxPosts \in Nat
    BY ListedType DEF PullAssumption
  <1> HIDE DEF listed
  <1>2. CASE account.kind = "youtube"
    <2> DEFINE m == CeilDiv(Len(listed), PageSize)
    <2>1. m \in Nat /\ m <= CeilDiv(MaxPosts, PageSize)
      BY <1>1, DivBounds, DivMonotone DEF PullAssumption
    <2>2. PostCalls(account) = [n \in 1..m |-> Stats(n)]
      BY <1>2 DEF PostCalls, listed
    <2> HIDE DEF m
    <2>3. \A n \in 1..m : Stats(n) \in Calls
      BY <2>1, CallTypes
    <2>4. PostCalls(account) \in Seq(Calls) /\ Len(PostCalls(account)) = m
      BY <2>1, <2>2, <2>3
    <2> QED BY <1>2, <2>1, <2>2, <2>4 DEF m, listed
  <1>3. CASE account.kind # "youtube"
    <2>1. \A i \in 1..Len(listed) : insights(i) \in Seq(Calls) /\ Len(insights(i)) <= 2
      BY <1>1, CallTypes
    <2> HIDE DEF insights
    <2>2. /\ seqs \in Seq(Seq(Calls)) /\ Len(seqs) = Len(listed)
          /\ \A i \in 1..Len(seqs) : Len(seqs[i]) <= 2
      BY <1>1, <2>1
    <2>3. PostCalls(account) = FlattenSeq(seqs)
      BY <1>3 DEF PostCalls, listed, insights
    <2> HIDE DEF seqs
    <2>4. PostCalls(account) \in Seq(Calls) /\ Len(PostCalls(account)) <= 2 * Len(listed)
      BY <2>2, <2>3, FlattenBound
    <2> QED BY <1>1, <1>3, <2>4
  <1> QED BY <1>2, <1>3

LEMMA CommentCallsType ==
  ASSUME PullAssumption, NEW account, account.pages \in Seq(Seq(MediaItem))
  PROVE  /\ CommentCalls(account) \in Seq(Calls)
         /\ Len(CommentCalls(account)) <= MaxPosts * CommentPages
  <1> DEFINE listed == Listed(account)
             of(i) == [n \in 1..Min2(CommentPages, Len(listed[i].threads)) |->
                         Thread(i, listed[i].threads[n])]
             seqs == [i \in 1..Len(listed) |-> of(i)]
             all == FlattenSeq(seqs)
             kept == Cardinality({n \in 1..Len(all) : Len(Authors(Take(all, n - 1))) < MaxComments})
  <1>1. /\ listed \in Seq(MediaItem) /\ Len(listed) \in Nat /\ Len(listed) <= MaxPosts
        /\ MaxPosts \in Nat /\ CommentPages \in Nat
    BY ListedType DEF PullAssumption
  <1>2. CommentCalls(account) = Take(all, kept)
    BY DEF CommentCalls
  <1> HIDE DEF listed
  <1>3. ASSUME NEW i \in 1..Len(listed)
        PROVE  of(i) \in Seq(Calls) /\ Len(of(i)) <= CommentPages
    <2>1. listed[i] \in MediaItem
      BY <1>1
    <2>2. listed[i].threads \in Seq(Seq(STRING))
      BY <2>1 DEF MediaItem
    <2> DEFINE m == Min2(CommentPages, Len(listed[i].threads))
    <2>3. m \in Nat /\ m <= CommentPages /\ m <= Len(listed[i].threads)
      BY <1>1, <2>2 DEF Min2
    <2> HIDE DEF m
    <2>4. \A n \in 1..m : Thread(i, listed[i].threads[n]) \in Calls
      BY <1>1, <2>2, <2>3, CallTypes
    <2>5. of(i) = [n \in 1..m |-> Thread(i, listed[i].threads[n])]
      BY DEF m
    <2> HIDE DEF of
    <2> QED BY <2>3, <2>4, <2>5
  <1> HIDE DEF of
  <1>4. /\ seqs \in Seq(Seq(Calls)) /\ Len(seqs) = Len(listed)
        /\ \A i \in 1..Len(seqs) : Len(seqs[i]) <= CommentPages
    BY <1>1, <1>3
  <1> HIDE DEF seqs
  <1>5. all \in Seq(Calls) /\ Len(all) <= CommentPages * Len(listed)
    BY <1>1, <1>4, FlattenBound
  <1> HIDE DEF all
  <1>6. kept \in Nat
    <2>1. IsFiniteSet(1..Len(all))
      BY <1>5, FS_Interval
    <2> QED BY <2>1, FS_Subset, FS_CardinalityType
  <1> HIDE DEF kept
  <1>7. CommentCalls(account) \in Seq(Calls) /\ Len(CommentCalls(account)) <= Len(all)
    BY <1>2, <1>5, <1>6, TakeType DEF Min2
  <1>8. PICK k \in Nat, c \in Nat, m \in Nat :
          k = Len(listed) /\ c = CommentPages /\ m = MaxPosts /\ k <= m
    BY <1>1
  <1>9. c * k <= m * c /\ c * k \in Nat /\ m * c \in Nat
    <2>1. PICK d \in Nat : m = k + d
      <3>1. m - k \in Nat /\ m = k + (m - k)
        BY <1>8
      <3> QED BY <3>1
    <2>2. m * c = c * k + d * c /\ d * c \in Nat /\ c * k \in Nat
      BY ONLY <2>1, k \in Nat, c \in Nat, d \in Nat, Z3
    <2> QED BY <2>2
  <1> DEFINE p == c * k
             q == m * c
  <1>10. p \in Nat /\ q \in Nat /\ p <= q /\ Len(all) <= p
    BY <1>5, <1>8, <1>9
  <1>11. Len(CommentCalls(account)) \in Nat /\ Len(all) \in Nat
    BY <1>5, <1>7
  <1> HIDE DEF p, q
  <1>12. Len(CommentCalls(account)) <= q
    BY <1>7, <1>10, <1>11
  <1> QED BY <1>7, <1>8, <1>12 DEF q

LEMMA InConcat ==
  ASSUME NEW S, NEW s \in Seq(S), NEW t \in Seq(S)
  PROVE  /\ s \o t \in Seq(S) /\ Len(s \o t) = Len(s) + Len(t)
         /\ ToSet(s) \subseteq ToSet(s \o t) /\ ToSet(t) \subseteq ToSet(s \o t)
  <1>1. s \o t \in Seq(S) /\ Len(s \o t) = Len(s) + Len(t)
    BY ConcatProperties
  <1>2. \A i \in 1..Len(s) : i \in DOMAIN (s \o t) /\ (s \o t)[i] = s[i]
    BY <1>1, ConcatProperties
  <1>3. \A i \in 1..Len(t) : Len(s) + i \in DOMAIN (s \o t) /\ (s \o t)[Len(s) + i] = t[i]
    BY <1>1, ConcatProperties
  <1> DEFINE u == s \o t
  <1>4. u \in Seq(S)
    BY <1>1
  <1>5. /\ \A i \in 1..Len(s) : i \in DOMAIN u /\ u[i] = s[i]
        /\ \A i \in 1..Len(t) : Len(s) + i \in DOMAIN u /\ u[Len(s) + i] = t[i]
    BY <1>2, <1>3
  <1>6. DOMAIN s = 1..Len(s) /\ DOMAIN t = 1..Len(t)
    OBVIOUS
  <1> HIDE DEF u
  <1>7. ToSet(s) \subseteq ToSet(u) /\ ToSet(t) \subseteq ToSet(u)
    BY <1>5, <1>6 DEF ToSet
  <1> QED BY <1>1, <1>7 DEF u

\* A live account is asked for something, at most for as many calls as announced,
\* and YouTube's for every batch of its statistics.
LEMMA PlanType ==
  ASSUME PullAssumption, NEW account \in LiveAccount
  PROVE  /\ Plan(account) \in Seq(Calls) /\ Plan(account) # <<>>
         /\ Len(Plan(account)) <= CostOf(account.kind)
         /\ ToSet(PostCalls(account)) \subseteq ToSet(Plan(account))
  <1>1. account.pages \in Seq(Seq(MediaItem)) /\ account.kind \in {"instagram", "youtube"}
    BY DEF LiveAccount
  <1> DEFINE pages == Len(MediaPages(account))
             media == [n \in 1..pages |-> Media(n)]
             fixed == <<Profile>>
             first == fixed \o media
             second == first \o PostCalls(account)
             third == second \o CommentCalls(account)
             c == CeilDiv(MaxPosts, PageSize)
             k == MaxPosts * CommentPages
  <1>2. c \in Nat /\ k \in Nat /\ MaxPosts \in Nat
    BY DivBounds DEF PullAssumption
  <1>3. media \in Seq(Calls) /\ Len(media) <= c
    <2>1. pages \in Nat /\ pages <= c
      BY <1>1, ListedType
    <2> HIDE DEF pages
    <2> QED BY <2>1, CallTypes
  <1>4. fixed \in Seq(Calls) /\ Len(fixed) = 1
    BY CallTypes
  <1>5. PostCalls(account) \in Seq(Calls)
    BY <1>1, PostCallsType
  <1>6. CommentCalls(account) \in Seq(Calls) /\ Len(CommentCalls(account)) <= k
    BY <1>1, CommentCallsType
  <1>7. /\ AudienceCalls(account) \in Seq(Calls)
        /\ Len(AudienceCalls(account)) <= 3
        /\ account.kind = "youtube" => Len(AudienceCalls(account)) = 0
    BY CallTypes DEF AudienceCalls
  <1>8. Plan(account) = third \o AudienceCalls(account)
    BY <1>1 DEF Plan
  <1> HIDE DEF media, fixed, c, k
  <1>9. /\ first \in Seq(Calls) /\ Len(first) = Len(fixed) + Len(media)
    BY <1>3, <1>4, InConcat
  <1> HIDE DEF first
  <1>10. /\ second \in Seq(Calls) /\ Len(second) = Len(first) + Len(PostCalls(account))
         /\ ToSet(PostCalls(account)) \subseteq ToSet(second)
    BY <1>5, <1>9, InConcat
  <1> HIDE DEF second
  <1>11. /\ third \in Seq(Calls) /\ Len(third) = Len(second) + Len(CommentCalls(account))
         /\ ToSet(second) \subseteq ToSet(third)
    BY <1>6, <1>10, InConcat
  <1> HIDE DEF third
  <1>12. /\ Plan(account) \in Seq(Calls)
         /\ Len(Plan(account)) = Len(third) + Len(AudienceCalls(account))
         /\ ToSet(third) \subseteq ToSet(Plan(account))
    BY <1>7, <1>8, <1>11, InConcat
  <1>13. PICK u \in Nat, v \in Nat, w \in Nat, x \in Nat :
           /\ u = Len(media) /\ v = Len(PostCalls(account))
           /\ w = Len(CommentCalls(account)) /\ x = Len(AudienceCalls(account))
           /\ Len(Plan(account)) = 1 + u + v + w + x
    BY <1>3, <1>4, <1>5, <1>6, <1>7, <1>9, <1>10, <1>11, <1>12
  <1>14. Len(Plan(account)) <= CostOf(account.kind)
    <2>1. CASE account.kind = "instagram"
      <3>1. v <= 2 * MaxPosts
        BY <1>1, <1>13, <2>1, PostCallsType
      <3>2. CostOf(account.kind) = 1 + c + 2 * MaxPosts + k + 3
        BY <2>1 DEF CostOf, InstagramCost, c, k
      <3> QED BY <1>2, <1>3, <1>6, <1>7, <1>13, <3>1, <3>2
    <2>2. CASE account.kind = "youtube"
      <3>1. v <= c
        BY <1>1, <1>13, <2>2, PostCallsType DEF c
      <3>2. CostOf(account.kind) = 1 + 2 * c + k
        BY <2>2 DEF CostOf, YouTubeCost, c, k
      <3> QED BY <1>2, <1>3, <1>6, <1>7, <1>13, <2>2, <3>1, <3>2
    <2> QED BY <1>1, <2>1, <2>2
  <1>15. Plan(account) # <<>>
    BY <1>12, <1>13
  <1>16. ToSet(PostCalls(account)) \subseteq ToSet(Plan(account))
    BY <1>10, <1>11, <1>12
  <1> QED BY <1>12, <1>14, <1>15, <1>16

\* Every video is in a batch that is asked for.
LEMMA BatchAsked ==
  ASSUME PullAssumption, NEW account \in LiveAccount, account.kind = "youtube",
         NEW i \in 1..Len(Listed(account))
  PROVE  Stats(CeilDiv(i, PageSize)) \in ToSet(Plan(account))
  <1>1. account.pages \in Seq(Seq(MediaItem))
    BY DEF LiveAccount
  <1>2. Len(Listed(account)) \in Nat /\ i \in Nat /\ i > 0 /\ i <= Len(Listed(account))
    BY <1>1, ListedType
  <1> DEFINE n == CeilDiv(i, PageSize)
             m == CeilDiv(Len(Listed(account)), PageSize)
  <1>3. n \in 1..m
    <2>1. PageSize \in Nat \ {0}
      BY DEF PullAssumption
    <2>2. n \in Nat /\ m \in Nat
      BY <1>2, <2>1, DivBounds
    <2>3. n <= m /\ n >= 1
      BY <1>2, <2>1, DivMonotone
    <2> HIDE DEF n, m
    <2> QED BY <2>2, <2>3
  <1> HIDE DEF n
  <1>4. n \in DOMAIN PostCalls(account) /\ PostCalls(account)[n] = Stats(n)
    BY <1>1, <1>3, PostCallsType
  <1>5. Stats(n) \in ToSet(PostCalls(account))
    BY <1>4 DEF ToSet
  <1> QED BY <1>5, PlanType DEF n

\* What a connector of handle h may be answered with.
Answers(account, h) ==
  \/ account \in Offers[h]
  \/ /\ account.kind = "csv" /\ account.pages \in Seq(Seq(UploadedRow))
     /\ account.at \in Nat /\ account.followers \in Nat
  \/ account.kind = "stub"

LEMMA TakeAll ==
  ASSUME NEW S, NEW s \in Seq(S)
  PROVE  Take(s, Len(s)) = s
  BY SubSeqProperties, SeqEqual DEF Take, Min2

LEMMA RangeFinite ==
  ASSUME NEW s, NEW n \in Nat, DOMAIN s = 1..n
  PROVE  IsFiniteSet(ToSet(s))
  <1> DEFINE f == [i \in 1..n |-> s[i]]
  <1>1. f \in Surjection(1..n, ToSet(s))
    BY DEF Surjection, ToSet
  <1>2. IsFiniteSet(1..n)
    BY FS_Interval
  <1> HIDE DEF f
  <1> QED BY <1>1, <1>2, FS_Surjection

\* A pull brings finitely many posts.
LEMMA FetchFinite ==
  ASSUME PullAssumption, CollectionAssumption, NEW h \in Handles, NEW account, Answers(account, h),
         NEW k, NEW failure, NEW now
  PROVE  IsFiniteSet(ToSet(Fetch(account, k, failure, now).posts))
  <1> DEFINE pull == Fetch(account, k, failure, now)
             listed == [i \in 1..Len(Listed(account)) |->
                          Post(account, i, ToSet(Take(Plan(account), k)))]
  <1>1. \A f : Refused(f).posts = <<>>
    BY DEF Refused, NoPull
  <1>2. pull.posts = <<>> \/ (Plan(account) # <<>> /\ pull.posts = listed)
    BY <1>1 DEF Fetch, Snapshot
  <1>3. CASE pull.posts = <<>>
    BY <1>3, RangeFinite
  <1>4. CASE Plan(account) # <<>> /\ pull.posts = listed
    <2>1. account.kind # "stub"
      BY <1>4 DEF Plan
    <2>2. \E S : account.pages \in Seq(Seq(S))
      BY <2>1 DEF Answers, CollectionAssumption, LiveAccount
    <2>3. Len(Listed(account)) \in Nat
      BY <2>2, ListedType
    <2>4. DOMAIN listed = 1..Len(Listed(account))
      OBVIOUS
    <2> HIDE DEF pull, listed
    <2>5. IsFiniteSet(ToSet(listed))
      BY <2>3, <2>4, RangeFinite
    <2> QED BY <1>4, <2>5 DEF pull
  <1> QED BY <1>2, <1>3, <1>4

Names == {"followers", "media_count", "subscribers", "views", "reach", "reach_ratio", "saved", "watch"}
Point == [name : Names, at : Nat, v : Nat]

LEMMA ReadingType ==
  ASSUME NEW name \in Names, NEW t \in Nat, NEW v \in Nat
  PROVE  Reading(name, t, v) \in Seq(Point)
  <1>1. [name |-> name, at |-> t, v |-> v] \in Point
    BY DEF Point
  <1> QED BY <1>1 DEF Reading

LEMMA FigureType ==
  ASSUME NEW name \in Names, NEW t \in Nat
  PROVE  Figure(name, t) \in Seq(Point)
  BY ReadingType DEF Figure

LEMMA TwoAsOne ==
  ASSUME NEW S, NEW r \in Seq(S), NEW t \in Seq(S)
  PROVE  r \o t \in Seq(S)
  OBVIOUS

LEMMA InsightsType ==
  ASSUME PullAssumption, NEW account \in LiveAccount, account.kind = "instagram", NEW done
  PROVE  InsightPoints(account, done) \in Seq(Point)
  <1> DEFINE listed == Listed(account)
             core(i) == IF Core(i) \in done /\ ~listed[i].mute
                          THEN Figure("reach", listed[i].at) \o Figure("reach_ratio", listed[i].at)
                                 \o Figure("saved", listed[i].at) ELSE <<>>
             watch(i) == IF Watch(i) \in done THEN Figure("watch", listed[i].at) ELSE <<>>
             all == [i \in 1..Len(listed) |-> core(i) \o watch(i)]
  <1>1. listed \in Seq(MediaItem)
    BY ListedType DEF LiveAccount
  <1>2. ASSUME NEW i \in 1..Len(listed) PROVE all[i] \in Seq(Point)
    <2> DEFINE t == listed[i].at
    <2> HIDE DEF listed
    <2>0. listed[i] \in MediaItem
      BY <1>1
    <2>1. t \in Nat
      BY <2>0 DEF MediaItem
    <2>2. /\ Figure("reach", t) \in Seq(Point) /\ Figure("reach_ratio", t) \in Seq(Point)
          /\ Figure("saved", t) \in Seq(Point) /\ Figure("watch", t) \in Seq(Point)
      BY <2>1, FigureType DEF Names
    <2>3. <<>> \in Seq(Point)
      OBVIOUS
    <2> HIDE DEF t
    <2>4. Figure("reach", t) \o Figure("reach_ratio", t) \o Figure("saved", t) \in Seq(Point)
      BY <2>2, TwoAsOne
    <2>5. core(i) \in Seq(Point)
      BY <2>3, <2>4 DEF t
    <2>6. watch(i) \in Seq(Point)
      BY <2>2, <2>3 DEF t
    <2> HIDE DEF core, watch
    <2> QED BY <2>5, <2>6, TwoAsOne
  <1>3. Len(listed) \in Nat
    BY <1>1
  <1>4. InsightPoints(account, done) = FlattenSeq(all)
    BY DEF InsightPoints
  <1>5. all \in Seq(Seq(Point))
    <2>1. all = [i \in 1..Len(listed) |-> all[i]]
      OBVIOUS
    <2> HIDE DEF all
    <2> QED BY <1>2, <1>3, <2>1
  <1> HIDE DEF all
  <1> QED BY <1>4, <1>5, FlattenBound

\* Every reading of a pull has a time and a count.
LEMMA PointsType ==
  ASSUME PullAssumption, CollectionAssumption, NEW h \in Handles, NEW account, Answers(account, h),
         NEW k, NEW failure, NEW now \in Nat
  PROVE  Fetch(account, k, failure, now).points \in Seq(Point)
  <1> DEFINE pull == Fetch(account, k, failure, now)
             done == ToSet(Take(Plan(account), k))
             brought == ProfilePoints(account, now) \o InsightPoints(account, done)
  <1>1. \A f : Refused(f).points = <<>>
    BY DEF Refused, NoPull
  <1>2. pull.points = <<>> \/ (Plan(account) # <<>> /\ pull.points = brought)
    BY <1>1 DEF Fetch, Snapshot
  <1>3. CASE Plan(account) # <<>> /\ pull.points = brought
    <2> HIDE DEF pull, done
    <2>1. account.kind # "stub"
      BY <1>3 DEF Plan
    <2>2. account.followers \in Nat /\ (account.kind \in {"instagram", "youtube"} \/ account.at \in Nat)
      BY <2>1 DEF Answers, CollectionAssumption, LiveAccount
    <2>3. ProfilePoints(account, now) \in Seq(Point)
      <3>1. CASE account.kind = "instagram"
        <4>1. /\ Reading("followers", now, account.followers) \in Seq(Point)
              /\ Figure("media_count", now) \in Seq(Point)
          BY <2>2, ReadingType, FigureType DEF Names
        <4>2. ProfilePoints(account, now)
                = Reading("followers", now, account.followers) \o Figure("media_count", now)
          BY <3>1 DEF ProfilePoints
        <4> QED BY <4>1, <4>2, TwoAsOne
      <3>2. CASE account.kind = "youtube"
        <4>1. /\ Reading("subscribers", now, account.followers) \in Seq(Point)
              /\ Figure("views", now) \in Seq(Point)
          BY <2>2, ReadingType, FigureType DEF Names
        <4>2. ProfilePoints(account, now)
                = Reading("subscribers", now, account.followers) \o Figure("views", now)
          BY <3>2 DEF ProfilePoints
        <4> QED BY <4>1, <4>2, TwoAsOne
      <3>3. CASE account.kind \notin {"instagram", "youtube"}
        <4>1. ProfilePoints(account, now) = Reading("followers", account.at, account.followers)
          BY <3>3 DEF ProfilePoints
        <4> QED BY <2>2, <3>3, <4>1, ReadingType DEF Names
      <3> QED BY <3>1, <3>2, <3>3
    <2>4. InsightPoints(account, done) \in Seq(Point)
      <3>1. CASE account.kind = "instagram"
        <4>1. account \in LiveAccount
          BY <3>1 DEF Answers, CollectionAssumption
        <4> QED BY <3>1, <4>1, InsightsType
      <3>2. CASE account.kind # "instagram"
        BY <3>2 DEF InsightPoints
      <3> QED BY <3>1, <3>2
    <2>5. brought \in Seq(Point)
      BY <2>3, <2>4
    <2> QED BY <1>3, <2>5 DEF pull
  <1>4. CASE pull.points = <<>>
    <2>1. <<>> \in Seq(Point)
      OBVIOUS
    <2> HIDE DEF pull
    <2> QED BY <1>4, <2>1 DEF pull
  <1> HIDE DEF pull, brought
  <1> QED BY <1>2, <1>3, <1>4

\* A pull that is neither an error nor partial is what the whole plan brings.
LEMMA FetchWhole ==
  ASSUME PullAssumption, CollectionAssumption, NEW h \in Handles, NEW account, Answers(account, h),
         NEW k \in 0..Len(Plan(account)), NEW failure \in Failures, NEW now,
         NEW pull, pull = Fetch(account, k, failure, now), pull.error = "none", ~pull.partial
  PROVE  LET full == Fetch(account, Len(Plan(account)), "refused", now)
         IN /\ pull = full
            /\ Len(full.posts) = Len(Listed(account))
            /\ \A i \in DOMAIN full.posts : full.posts[i].counted
  <1> DEFINE plan == Plan(account)
             cut == CutIn(account, k)
             snap == Snapshot(account, Take(plan, k), cut, now)
  <1>1. \A f \in Failures : Refused(f).error = f /\ f # "none"
    BY DEF Refused, NoPull, Failures, Degradable
  <1>2. "refused" \in Failures
    BY DEF Failures
  <1>3. /\ plan # <<>> /\ ~(account.kind = "instagram" /\ ~account.token)
        /\ ~IsError(cut, failure) /\ pull = snap
    BY <1>1, <1>2 DEF Fetch
  <1>4. snap.partial = Incomplete(account, cut)
    BY DEF Snapshot
  <1>5. cut = "none" /\ account.kind # "csv"
    BY <1>3, <1>4 DEF Incomplete
  <1>6. account \in LiveAccount
    <2>1. CASE account.kind = "stub"
      BY <1>3, <2>1 DEF Plan
    <2> QED BY <1>5, <2>1 DEF Answers, CollectionAssumption
  <1>7. plan \in Seq(Calls)
    BY <1>6, PlanType
  <1>8. k = Len(plan)
    <2>1. ASSUME k < Len(plan) PROVE FALSE
      <3>1. k + 1 \in 1..Len(plan) /\ plan[k + 1] \in Calls
        BY <1>7, <2>1
      <3>2. cut = plan[k + 1].phase
        BY <2>1 DEF CutIn
      <3> QED BY <1>5, <3>1, <3>2 DEF Calls, Phases
    <2> QED BY <1>7, <2>1
  <1>9. Fetch(account, Len(plan), "refused", now) = snap
    <2>1. ~IsError("none", "refused")
      BY DEF IsError
    <2>2. Fetch(account, k, "refused", now) = snap
      BY <1>3, <1>5, <2>1 DEF Fetch
    <2> QED BY <1>8, <2>2
  <1>10. Take(plan, k) = plan
    BY <1>7, <1>8, TakeAll
  <1>11. snap.posts = [i \in 1..Len(Listed(account)) |-> Post(account, i, ToSet(plan))]
    BY <1>5, <1>10 DEF Snapshot
  <1>12. Len(Listed(account)) \in Nat
    BY <1>6, ListedType DEF LiveAccount
  <1>13. \A i \in 1..Len(Listed(account)) : Post(account, i, ToSet(plan)).counted
    BY <1>6, BatchAsked DEF Post
  <1> HIDE DEF snap
  <1>14. /\ Len(snap.posts) = Len(Listed(account)) /\ DOMAIN snap.posts = 1..Len(Listed(account))
         /\ \A i \in 1..Len(Listed(account)) : snap.posts[i].counted
    BY <1>11, <1>12, <1>13
  <1> QED BY <1>3, <1>9, <1>14
-----------------------------------------------------------------------------
(* Types *)

\* The part of the type that is not the salt's.
Kinds ==
  /\ deploy \in Booted /\ handles \subseteq Handles /\ upload \in 0..Len(Uploads)
  /\ \A a \in Audits : /\ run[a].pc \in RunPc
                       /\ run[a].node \in Nodes \cup {Nothing}
                       /\ run[a].attempt \in 0..MaxRetry
                       /\ run[a].conns \subseteq Handles
  /\ stored \in Nodes \cup {Nothing}
  /\ lock = [n \in Nodes |-> lock[n]]
  /\ \A n \in Nodes : lock[n] = Nothing \/ lock[n] \in Audits \X Handles
  /\ \A p \in posts : p.label \in ColumnLabels
  /\ faults \in 0..MaxFaults

LEMMA KindsInit ==
  ASSUME CollectionAssumption, Init
  PROVE  Kinds
  <1>1. \A a \in Audits : run[a] = Queued
    BY DEF Init
  <1>2. Queued.pc = "queued" /\ Queued.node = Nothing /\ Queued.attempt = 0 /\ Queued.conns = {}
    BY DEF Queued
  <1>3. 0 \in 0..Len(Uploads) /\ 0 \in 0..MaxRetry /\ 0 \in 0..MaxFaults
    BY DEF CollectionAssumption
  <1> QED BY <1>1, <1>2, <1>3 DEF Init, Kinds, RunPc

LEMMA RunKinds ==
  ASSUME CollectionAssumption, SaltInv, Kinds, NEW a \in Audits
  PROVE  /\ Again(a).pc \in RunPc \ {"fetching", "succeeded"}
         /\ Again(a).node \in Nodes \cup {Nothing}
         /\ Again(a).attempt \in 0..MaxRetry
         /\ Again(a).conns \subseteq Handles
  <1>1. CASE run[a].attempt < MaxRetry
    <2>1. Again(a) = [Queued EXCEPT !.attempt = run[a].attempt + 1]
      BY <1>1 DEF Again
    <2>2. /\ Again(a).pc = "queued" /\ Again(a).node = Nothing /\ Again(a).conns = {}
          /\ Again(a).attempt = run[a].attempt + 1
      BY <2>1 DEF Queued
    <2>3. run[a].attempt + 1 \in 0..MaxRetry
      BY <1>1 DEF Kinds, CollectionAssumption
    <2> QED BY <2>2, <2>3 DEF RunPc, Delivered
  <1>2. CASE ~(run[a].attempt < MaxRetry)
    <2>1. Again(a) = [run[a] EXCEPT !.pc = "dead"]
      BY <1>2 DEF Again
    <2>2. /\ Again(a).pc = "dead" /\ Again(a).node = run[a].node
          /\ Again(a).conns = run[a].conns /\ Again(a).attempt = run[a].attempt
      BY <2>1 DEF SaltInv, Shapes, Placed
    <2> QED BY <2>2 DEF Kinds, RunPc, Delivered
  <1> QED BY <1>1, <1>2

LEMMA CostsKinds ==
  ASSUME CollectionAssumption, Kinds, NEW fault, Costs(fault)
  PROVE  faults' \in 0..MaxFaults
  BY DEF Costs, Kinds, CollectionAssumption

LEMMA UnlockKinds ==
  ASSUME Kinds, NEW n, NEW v, v = Nothing \/ v \in Audits \X Handles,
         lock' = [lock EXCEPT ![n] = v]
  PROVE  /\ lock' = [m \in Nodes |-> lock'[m]]
         /\ \A m \in Nodes : lock'[m] = Nothing \/ lock'[m] \in Audits \X Handles
  BY DEF Kinds

\* A goroutine's step leaves the runs and the handles alone.
LEMMA GoroutineKinds ==
  ASSUME CollectionAssumption, SaltInv, Kinds,
         NEW a \in Audits, NEW h \in Handles, Goroutine(a, h)
  PROVE  Kinds'
  <1>1. CASE FetchPlatform(a, h)
    <2>1. UNCHANGED <<deploy, handles, upload, run, stored, lock, posts>>
      BY <1>1 DEF FetchPlatform, tables
    <2>2. faults' \in 0..MaxFaults
      <3>1. CASE UNCHANGED faults
        BY <3>1 DEF Kinds
      <3>2. CASE \E fault : Costs(fault)
        BY <3>2, CostsKinds
      <3> QED BY <1>1, <3>1, <3>2 DEF FetchPlatform
    <2> QED BY <2>1, <2>2 DEF Kinds
  <1>2. CASE AuthorHash(a, h)
    <2>1. UNCHANGED <<deploy, handles, upload, run, stored, posts, faults>>
      BY <1>2 DEF AuthorHash, tables
    <2>2. /\ lock' = [m \in Nodes |-> lock'[m]]
          /\ \A m \in Nodes : lock'[m] = Nothing \/ lock'[m] \in Audits \X Handles
      <3>1. CASE UNCHANGED lock
        BY <3>1 DEF Kinds
      <3>2. CASE lock' = [lock EXCEPT ![run[a].node] = <<a, h>>]
        <4>1. <<a, h>> \in Audits \X Handles
          OBVIOUS
        <4> QED BY <3>2, <4>1, UnlockKinds
      <3> QED BY <1>2, <3>1, <3>2 DEF AuthorHash
    <2> QED BY <2>1, <2>2 DEF Kinds
  <1>3. CASE SeedSalt(a, h)
    <2>1. UNCHANGED <<deploy, handles, upload, run, posts>>
      BY <1>3 DEF SeedSalt, tables
    <2>2. stored' \in Nodes \cup {Nothing}
      BY <1>3 DEF SeedSalt, Kinds
    <2>3. PICK acked \in BOOLEAN :
            Costs(~acked) /\ IF acked THEN UNCHANGED lock ELSE Unlock(a)
      BY <1>3 DEF SeedSalt, Acknowledged
    <2>4. /\ lock' = [m \in Nodes |-> lock'[m]]
          /\ \A m \in Nodes : lock'[m] = Nothing \/ lock'[m] \in Audits \X Handles
      <3>1. CASE UNCHANGED lock
        BY <3>1 DEF Kinds
      <3>2. CASE Unlock(a)
        BY <3>2, UnlockKinds DEF Unlock
      <3> QED BY <2>3, <3>1, <3>2
    <2>5. faults' \in 0..MaxFaults
      BY <2>3, CostsKinds
    <2> QED BY <2>1, <2>2, <2>4, <2>5 DEF Kinds
  <1>4. CASE RereadSalt(a, h)
    <2>1. UNCHANGED <<deploy, handles, upload, run, stored, posts, faults>>
      BY <1>4 DEF RereadSalt, tables
    <2>2. /\ lock' = [m \in Nodes |-> lock'[m]]
          /\ \A m \in Nodes : lock'[m] = Nothing \/ lock'[m] \in Audits \X Handles
      BY <1>4, UnlockKinds DEF RereadSalt, Unlock
    <2> QED BY <2>1, <2>2 DEF Kinds
  <1>5. CASE Ingest(a, h)
    <2>1. UNCHANGED <<deploy, handles, upload, run, stored, lock>>
      BY <1>5 DEF Ingest
    <2>2. CASE Storable(fetch[a][h].pull)
      <3>1. posts' = UpsertPosts(PostRows(a, h)) /\ \E acked \in BOOLEAN : Costs(~acked)
        BY <1>5, <2>2 DEF Ingest, Acknowledged
      <3>2. \A p \in PostRows(a, h) : p.label \in ColumnLabels
        BY <2>2 DEF PostRows, Storable, ToSet
      <3>3. \A p \in posts' : p.label \in ColumnLabels
        BY <3>1, <3>2 DEF UpsertPosts, Kinds
      <3>4. faults' \in 0..MaxFaults
        BY <3>1, CostsKinds
      <3> QED BY <2>1, <3>3, <3>4 DEF Kinds
    <2>3. CASE ~Storable(fetch[a][h].pull)
      BY <1>5, <2>1, <2>3 DEF Ingest, tables, Kinds
    <2> QED BY <2>2, <2>3
  <1>6. CASE UpsertResult(a, h)
    <2>1. UNCHANGED <<deploy, handles, upload, run, stored, lock, posts>>
      BY <1>6 DEF UpsertResult, tables
    <2>2. faults' \in 0..MaxFaults
      BY <1>6, CostsKinds DEF UpsertResult, Acknowledged
    <2> QED BY <2>1, <2>2 DEF Kinds
  <1>7. ASSUME Fails(a, h), faults' \in 0..MaxFaults PROVE Kinds'
    <2>1. UNCHANGED <<deploy, handles, upload, run, stored, posts>>
      BY <1>7 DEF Fails, tables
    <2>2. /\ lock' = [m \in Nodes |-> lock'[m]]
          /\ \A m \in Nodes : lock'[m] = Nothing \/ lock'[m] \in Audits \X Handles
      <3>1. CASE UNCHANGED lock
        BY <3>1 DEF Kinds
      <3>2. CASE Unlock(a)
        BY <3>2, UnlockKinds DEF Unlock
      <3> QED BY <1>7, <3>1, <3>2 DEF Fails
    <2> QED BY <1>7, <2>1, <2>2 DEF Kinds
  <1>8. CASE FailPlatform(a, h)
    BY <1>7, <1>8, CostsKinds DEF FailPlatform
  <1>9. CASE Cancelled(a, h)
    BY <1>7, <1>9 DEF Cancelled, Kinds
  <1> QED BY <1>1, <1>2, <1>3, <1>4, <1>5, <1>6, <1>8, <1>9 DEF Goroutine

LEMMA KindsStep ==
  ASSUME CollectionAssumption, SaltInv, Kinds, [Next]_vars
  PROVE  Kinds'
  <1>1. CASE ImportInstagramCSV
    <2>1. upload' \in 0..Len(Uploads)
      BY <1>1 DEF ImportInstagramCSV, Kinds, CollectionAssumption
    <2> QED BY <1>1, <2>1 DEF ImportInstagramCSV, tables, Kinds
  <1>2. CASE \E h \in Handles : DeleteHandle(h)
    BY <1>2 DEF DeleteHandle, tables, Kinds
  <1>3. ASSUME NEW a \in Audits, NEW n \in Nodes, StartRun(a, n) PROVE Kinds'
    <2> DEFINE conns == FilterConnections(handles, Requested[a])
               r == [pc |-> IF conns = {} THEN "failed" ELSE "fetching",
                     node |-> n, attempt |-> run[a].attempt, conns |-> conns]
    <2>1. run' = [run EXCEPT ![a] = r]
      BY <1>3 DEF StartRun
    <2>2. conns \subseteq Handles
      BY DEF FilterConnections, Kinds
    <2>3. /\ r.pc \in RunPc /\ r.node \in Nodes /\ r.attempt \in 0..MaxRetry
          /\ r.conns \subseteq Handles
      BY <2>2 DEF RunPc, Kinds
    <2> HIDE DEF r
    <2>4. \A b \in Audits : run'[b] = IF b = a THEN r ELSE run[b]
      BY <2>1 DEF SaltInv, Shapes
    <2>5. UNCHANGED <<deploy, handles, upload, stored, lock, posts, faults>>
      BY <1>3 DEF StartRun, tables
    <2> QED BY <2>3, <2>4, <2>5 DEF Kinds
  <1>4. CASE \E a \in Audits, h \in Handles : Goroutine(a, h)
    BY <1>4, GoroutineKinds
  <1>5. ASSUME NEW a \in Audits, Join(a) PROVE Kinds'
    <2> DEFINE pc == IF Snapshots(a) = {} THEN "failed"
                     ELSE IF OkCount(a) = Cardinality(run[a].conns) THEN "succeeded" ELSE "partial"
               r == IF Fatal(a) THEN Again(a) ELSE [run[a] EXCEPT !.pc = pc]
    <2>1. run' = [run EXCEPT ![a] = r]
      BY <1>5 DEF Join
    <2>2. /\ r.pc \in RunPc /\ r.node \in Nodes \cup {Nothing} /\ r.attempt \in 0..MaxRetry
          /\ r.conns \subseteq Handles
      <3>1. CASE Fatal(a)
        BY <3>1, RunKinds
      <3>2. CASE ~Fatal(a)
        <4>1. pc \in RunPc
          BY DEF RunPc, Delivered
        <4> HIDE DEF pc
        <4>2. /\ r.pc = pc /\ r.node = run[a].node /\ r.attempt = run[a].attempt
              /\ r.conns = run[a].conns
          BY <3>2 DEF SaltInv, Shapes, Placed
        <4> QED BY <4>1, <4>2 DEF Kinds
      <3> QED BY <3>1, <3>2
    <2> HIDE DEF r
    <2>3. \A b \in Audits : run'[b] = IF b = a THEN r ELSE run[b]
      BY <2>1 DEF SaltInv, Shapes
    <2>4. UNCHANGED <<deploy, handles, upload, stored, lock, posts, faults>>
      BY <1>5 DEF Join, tables
    <2> QED BY <2>2, <2>3, <2>4 DEF Kinds
  <1>6. ASSUME NEW n \in Nodes, Crash(n) PROVE Kinds'
    <2>1. \A a \in Audits : run'[a] = Again(a) \/ run'[a] = run[a]
      BY <1>6 DEF Crash
    <2>2. UNCHANGED <<deploy, handles, upload, stored, posts>> /\ Costs(TRUE)
      BY <1>6 DEF Crash, tables
    <2>3. /\ lock' = [m \in Nodes |-> lock'[m]]
          /\ \A m \in Nodes : lock'[m] = Nothing \/ lock'[m] \in Audits \X Handles
      BY <1>6, UnlockKinds DEF Crash
    <2>4. faults' \in 0..MaxFaults
      BY <2>2, CostsKinds
    <2>5. \A a \in Audits : /\ run'[a].pc \in RunPc
                            /\ run'[a].node \in Nodes \cup {Nothing}
                            /\ run'[a].attempt \in 0..MaxRetry
                            /\ run'[a].conns \subseteq Handles
      BY <2>1, RunKinds DEF Kinds
    <2> QED BY <2>2, <2>3, <2>4, <2>5 DEF Kinds
  <1>7. CASE Rest \/ UNCHANGED vars
    BY <1>7 DEF Rest, vars, tables, Kinds
  <1> QED BY <1>1, <1>2, <1>3, <1>4, <1>5, <1>6, <1>7 DEF Next

LEMMA KindsType ==
  ASSUME SaltInv, Kinds
  PROVE  TypeOK
  <1>1. \A a \in Audits, h \in Handles : fetch[a][h].pc \in FetchPc
    BY DEF SaltInv, Shapes, Shaped
  <1>2. cache \in [Nodes -> Nodes \cup {Nothing}]
    BY DEF SaltInv, Shapes, OneSalt, Kinds
  <1> QED BY <1>1, <1>2 DEF Kinds, TypeOK

\* Whatever is deployed, deleted, uploaded and lost, the tables, the locks and the
\* runs stay within their types.
THEOREM CollectionTypes == ASSUME CollectionAssumption PROVE Spec => []TypeOK
  <1>1. Init => SaltInv /\ Kinds
    BY SaltInit, KindsInit
  <1>2. SaltInv /\ Kinds /\ [Next]_vars => SaltInv' /\ Kinds'
    BY SaltStep, KindsStep
  <1>3. SaltInv /\ Kinds => TypeOK
    BY KindsType
  <1> QED BY <1>1, <1>2, <1>3, PTL DEF Spec
-----------------------------------------------------------------------------
(* A job that succeeded *)

\* The pull of goroutine g is what the plan of its account brings up to some call.
Pulled(g, h, now) ==
  /\ Answers(g.account, h)
  /\ \E k \in 0..Len(Plan(g.account)), failure \in Failures :
       g.pull = Fetch(g.account, k, failure, now)

RowsOf(g, a, h) ==
  {[platform |-> PlatformOf[h], post |-> c.post, author |-> c.author, salt |-> g.salt,
    audit |-> a] : c \in ToSet(g.pull.comments)}

\* What goroutine g brought, and what of it is in the tables once it went to its
\* result row.
Kept(g, a, h, now, rows) ==
  /\ g.pc \in {"idle", "fetch"} => g.account = Nothing
  /\ g.account # Nothing => Pulled(g, h, now)
  /\ IsFiniteSet(ToSet(g.pull.posts)) /\ g.pull.points \in Seq(Point)
  /\ g.pc \in {"result", "done"} /\ g.account # Nothing /\ g.pull.error = "none" =>
       RowsOf(g, a, h) \subseteq rows

Row(a, h) == [audit |-> a, platform |-> PlatformOf[h], status |-> StatusOf(a, h)]

\* Two handles of one platform share a row: it is that of one that is done, unless
\* another wrote it and lost its acknowledgement.
Shown(a) ==
  \/ Fatal(a)
  \/ \A h \in run[a].conns : fetch[a][h].pc = "done" =>
       \E i \in run[a].conns : /\ fetch[a][i].pc = "done" /\ PlatformOf[i] = PlatformOf[h]
                               /\ Row(a, i) \in result

Outside(a) == \A h \in Handles \ run[a].conns : fetch[a][h].pc = "idle"

AllOk(a) ==
  run[a].pc = "succeeded" =>
    \A h \in run[a].conns :
      fetch[a][h].pc = "done" /\ HasSnapshot(a, h) /\ StatusOf(a, h) = "ok"

WholeInv ==
  /\ \A a \in Audits, h \in Handles : Kept(fetch[a][h], a, h, Now(a), comments)
  /\ \A a \in Audits : Shown(a) /\ Outside(a) /\ AllOk(a)

Known == SaltInv /\ Kinds /\ WholeInv

LEMMA NothingFinite == IsFiniteSet(ToSet(NoPull.posts)) /\ NoPull.points \in Seq(Point)
  <1>1. NoPull.posts = <<>> /\ NoPull.points = <<>> /\ DOMAIN <<>> = 1..0
    BY DEF NoPull
  <1> QED BY <1>1, RangeFinite

LEMMA WholeInit ==
  ASSUME CollectionAssumption, Init
  PROVE  WholeInv
  <1>1. \A a \in Audits : run[a].pc = "queued" /\ run[a].conns = {}
    BY DEF Init, Queued
  <1>2. \A a \in Audits, h \in Handles :
          fetch[a][h].pc = "idle" /\ fetch[a][h].account = Nothing /\ fetch[a][h].pull = NoPull
    BY DEF Init, Idle
  <1>3. \A a \in Audits, h \in Handles : Kept(fetch[a][h], a, h, Now(a), comments)
    BY <1>2, NothingFinite DEF Kept
  <1> QED BY <1>1, <1>2, <1>3 DEF WholeInv, Shown, Outside, AllOk

LEMMA BlankKept ==
  ASSUME NEW a \in Audits, NEW h \in Handles, NEW pc,
         NEW now, NEW rows
  PROVE  /\ Kept([Idle EXCEPT !.pc = pc], a, h, now, rows)
         /\ Kept(Idle, a, h, now, rows) /\ Kept(Broken, a, h, now, rows)
  <1>1. \A g \in {[Idle EXCEPT !.pc = pc], Idle, Broken} : g.account = Nothing /\ g.pull = NoPull
    BY DEF Idle, Broken
  <1>2. \A g : g.account = Nothing /\ g.pull = NoPull => Kept(g, a, h, now, rows)
    BY NothingFinite DEF Kept, NoPull
  <1> QED BY <1>1, <1>2

LEMMA AccountsAnswer ==
  ASSUME CollectionAssumption, Kinds, NEW h \in Handles, NEW account \in Accounts(h)
  PROVE  Answers(account, h)
  <1> DEFINE rows == ParseInstagramPostsCSV(Uploads[upload].rows)
             followers == Uploads[upload].followers
  <1>1. ASSUME upload # 0 PROVE <<rows>> \in Seq(Seq(UploadedRow)) /\ upload \in Nat /\ followers \in Nat
    <2>1. upload \in 1..Len(Uploads)
      BY <1>1 DEF Kinds, CollectionAssumption
    <2>2. Uploads[upload] \in ImportRequest
      BY <2>1 DEF CollectionAssumption
    <2>3. Uploads[upload].rows \in Seq(UploadedRow) /\ followers \in Nat
      BY <2>2 DEF ImportRequest
    <2>4. rows \in Seq(UploadedRow)
      BY <2>3 DEF ParseInstagramPostsCSV
    <2> HIDE DEF rows, followers
    <2> QED BY <2>1, <2>3, <2>4
  <1>2. CASE account \in Offers[h] \/ account = [kind |-> "stub"]
    BY <1>2 DEF Answers
  <1>3. CASE upload # 0 /\ account = [kind |-> "csv", at |-> upload, followers |-> followers,
                                     pages |-> <<rows>>, token |-> FALSE, audience |-> FALSE]
    <2> HIDE DEF rows, followers
    <2>1. /\ account.kind = "csv" /\ account.pages = <<rows>>
          /\ account.at = upload /\ account.followers = followers
      BY <1>3
    <2> QED BY <1>1, <1>3, <2>1 DEF Answers
  <1> QED BY <1>2, <1>3 DEF Accounts

\* One goroutine in flight moves on to g, and no result row changes.
LEMMA MoveKeeps ==
  ASSUME Known, NEW a \in Audits, NEW h \in Handles, run[a].pc = "fetching",
         fetch[a][h].pc \in InFlight,
         UNCHANGED <<deploy, run>>, comments \subseteq comments',
         NEW g, fetch' = [fetch EXCEPT ![a][h] = g], Kept(g, a, h, Now(a), comments'),
         \/ UNCHANGED result /\ g.pc # "done"
         \/ /\ result' = {r \in result : <<r.audit, r.platform>> # <<a, PlatformOf[h]>>}
                            \cup {[audit |-> a, platform |-> PlatformOf[h], status |-> StatusOf(a, h)]}
            /\ g.pc = "failed" \/ (g.pc = "done" /\ g.pull = fetch[a][h].pull)
  PROVE  WholeInv'
  <1>1. \A b \in Audits, i \in Handles :
          fetch'[b][i] = IF b = a /\ i = h THEN g ELSE fetch[b][i]
    BY DEF Known, SaltInv, Shapes
  <1>2. fetch[a][h].pc \notin {"idle", "done", "failed"}
    BY DEF InFlight, Seeding
  <1>3. \A b \in Audits : Now(b)' = Now(b)
    BY DEF Now
  <1>4. ASSUME NEW b \in Audits, NEW i \in Handles PROVE Kept(fetch'[b][i], b, i, Now(b)', comments')
    <2>1. Kept(fetch[b][i], b, i, Now(b), comments')
      BY DEF Known, WholeInv, Kept
    <2> QED BY <1>1, <1>3, <2>1
  <1>5. h \in run[a].conns
    BY <1>2 DEF Known, WholeInv, Outside
  <1>6. ASSUME NEW b \in Audits PROVE Outside(b)' /\ AllOk(b)'
    <2>1. Outside(b)'
      BY <1>1, <1>5 DEF Known, WholeInv, Outside
    <2>2. AllOk(b)'
      <3>1. CASE b = a
        BY <3>1 DEF AllOk
      <3>2. CASE b # a
        <4>1. run[b].conns \subseteq Handles
          BY DEF Known, Kinds
        <4>2. \A i \in run[b].conns : fetch'[b][i] = fetch[b][i]
          BY <1>1, <3>2, <4>1
        <4> QED BY <4>2 DEF Known, WholeInv, AllOk, HasSnapshot, StatusOf, ConnectorOf
      <3> QED BY <3>1, <3>2
    <2> QED BY <2>1, <2>2
  <1>7. ASSUME NEW b \in Audits PROVE Shown(b)'
    <2>0. run[b].conns \subseteq Handles /\ run[a].conns \subseteq Handles
      BY DEF Known, Kinds
    <2>1. CASE Fatal(b)
      <3>1. PICK i \in run[b].conns : fetch[b][i].pc = "failed"
        BY <2>1 DEF Fatal
      <3>2. fetch'[b][i] = fetch[b][i]
        BY <1>1, <1>2, <2>0, <3>1
      <3> QED BY <3>1, <3>2 DEF Shown, Fatal
    <2>2. CASE b = a /\ g.pc = "failed"
      <3>1. fetch'[a][h].pc = "failed"
        BY <1>1, <2>2
      <3> QED BY <1>5, <2>2, <3>1 DEF Shown, Fatal
    <2>3. ASSUME ~Fatal(b), ~(b = a /\ g.pc = "failed"), NEW i \in run[b].conns, fetch'[b][i].pc = "done"
          PROVE  \E j \in run[b].conns : /\ fetch'[b][j].pc = "done" /\ PlatformOf[j] = PlatformOf[i]
                                         /\ Row(b, j)' \in result'
      <3>1. CASE b = a /\ PlatformOf[i] = PlatformOf[h] /\ result' # result
        <4>1. g.pc = "done" /\ g.pull = fetch[a][h].pull
          BY <2>3, <3>1
        <4>2. fetch'[a][h] = g
          BY <1>1
        <4>3. StatusOf(a, h)' = StatusOf(a, h)
          BY <4>1, <4>2 DEF StatusOf, ConnectorOf
        <4>4. Row(a, h)' \in result'
          BY <3>1, <4>3 DEF Row
        <4> QED BY <1>5, <3>1, <4>1, <4>2, <4>4
      <3>2. CASE ~(b = a /\ i = h) /\ ~(b = a /\ PlatformOf[i] = PlatformOf[h] /\ result' # result)
        <4>1. fetch[b][i].pc = "done"
          BY <1>1, <2>0, <2>3, <3>2
        <4>2. PICK j \in run[b].conns : /\ fetch[b][j].pc = "done" /\ PlatformOf[j] = PlatformOf[i]
                                        /\ Row(b, j) \in result
          BY <2>3, <4>1 DEF Known, WholeInv, Shown
        <4>3. fetch'[b][j] = fetch[b][j]
          BY <1>1, <1>2, <2>0, <4>2
        <4>4. Row(b, j)' = Row(b, j)
          BY <4>3 DEF Row, StatusOf, ConnectorOf
        <4>5. Row(b, j) \in result'
          <5>1. Row(b, j).audit = b /\ Row(b, j).platform = PlatformOf[i]
            BY <4>2 DEF Row
          <5> HIDE DEF Row
          <5> QED BY <3>2, <4>2, <5>1
        <4> QED BY <4>2, <4>3, <4>4, <4>5
      <3>3. CASE b = a /\ i = h /\ result' = result
        <4>1. fetch'[a][h] = g
          BY <1>1
        <4>2. g.pc = "done"
          BY <2>3, <3>3, <4>1
        <4>3. Row(a, h)' \in result'
          <5>1. g.pull = fetch[a][h].pull /\ [audit |-> a, platform |-> PlatformOf[h], status |-> StatusOf(a, h)] \in result'
            BY <4>2
          <5>2. StatusOf(a, h)' = StatusOf(a, h)
            BY <4>1, <5>1 DEF StatusOf, ConnectorOf
          <5> QED BY <5>1, <5>2 DEF Row
        <4> QED BY <1>5, <3>3, <4>1, <4>2, <4>3
      <3>4. CASE b = a /\ i = h /\ result' # result
        BY <3>1, <3>4
      <3> QED BY <3>1, <3>2, <3>3, <3>4
    <2> QED BY <2>1, <2>2, <2>3 DEF Shown
  <1> QED BY <1>4, <1>6, <1>7 DEF WholeInv

LEMMA HashedKept ==
  ASSUME NEW a \in Audits, NEW h \in Handles, NEW g, NEW now, NEW rows, NEW s, NEW after,
         Kept(g, a, h, now, rows), g.pc \notin {"idle", "fetch"}
  PROVE  Kept(Hashed(g, s), a, h, now, after)
  <1>1. /\ Hashed(g, s).pc = "ingest" /\ Hashed(g, s).account = g.account
        /\ Hashed(g, s).pull = g.pull
    BY DEF Hashed
  <1> QED BY <1>1 DEF Kept, Pulled

LEMMA MovedKept ==
  ASSUME NEW a \in Audits, NEW h \in Handles, NEW g, Shaped(g), NEW now, NEW rows, NEW after,
         Kept(g, a, h, now, rows),
         NEW pc, pc \notin {"idle", "fetch"},
         pc \in {"result", "done"} /\ g.account # Nothing /\ g.pull.error = "none" =>
           RowsOf(g, a, h) \subseteq after
  PROVE  Kept([g EXCEPT !.pc = pc], a, h, now, after)
  <1> DEFINE m == [g EXCEPT !.pc = pc]
  <1>1. m.pc = pc /\ m.account = g.account /\ m.pull = g.pull /\ m.salt = g.salt
    BY DEF Shaped
  <1> HIDE DEF m
  <1>2. Kept(m, a, h, now, after)
    BY <1>1 DEF Kept, Pulled, RowsOf
  <1> QED BY <1>2 DEF m

LEMMA AnsweredKept ==
  ASSUME PullAssumption, CollectionAssumption, NEW a \in Audits, NEW h \in Handles, NEW now \in Nat, NEW rows,
         NEW account, Answers(account, h), NEW failure \in Failures,
         NEW k \in 0..Len(Plan(account))
  PROVE  Kept(Answered(account, Fetch(account, k, failure, now)), a, h, now, rows)
  <1> DEFINE pull == Fetch(account, k, failure, now)
             g == Answered(account, pull)
  <1>1. /\ g.account = account /\ g.pull = pull
        /\ g.pc \in {"result", "hash", "ingest"} /\ (g.pc = "result" => g.pull.error # "none")
    BY DEF Answered
  <1>2. \E l \in 0..Len(Plan(account)), f \in Failures : g.pull = Fetch(account, l, f, now)
    BY <1>1
  <1>3. IsFiniteSet(ToSet(g.pull.posts)) /\ g.pull.points \in Seq(Point)
    BY <1>1, FetchFinite, PointsType
  <1> HIDE DEF g, pull
  <1>4. Kept(g, a, h, now, rows)
    BY <1>1, <1>2, <1>3 DEF Kept, Pulled
  <1> QED BY <1>4 DEF g, pull

LEMMA GoroutineWhole ==
  ASSUME PullAssumption, CollectionAssumption, Known, NEW a \in Audits, NEW h \in Handles, Goroutine(a, h)
  PROVE  WholeInv'
  <1>0. Shaped(fetch[a][h]) /\ Kept(fetch[a][h], a, h, Now(a), comments)
    BY FieldsOf DEF Known, WholeInv
  <1>1. CASE FetchPlatform(a, h)
    <2>1. /\ UNCHANGED <<deploy, run, comments, result>> /\ fetch[a][h].pc = "fetch"
          /\ run[a].pc = "fetching" /\ "fetch" \in InFlight
      BY <1>1 DEF FetchPlatform, At, tables, InFlight
    <2>2. CASE fetch' = [fetch EXCEPT ![a][h] = [fetch[a][h] EXCEPT !.pc = "result"]]
      <3> DEFINE g == [fetch[a][h] EXCEPT !.pc = "result"]
      <3>1. fetch[a][h].account = Nothing
        BY <1>0, <2>1 DEF Kept
      <3>2. Kept(g, a, h, Now(a), comments')
        BY <1>0, <2>1, <3>1, MovedKept
      <3>3. g.pc # "done"
        BY <1>0 DEF Shaped
      <3> HIDE DEF g
      <3>4. fetch' = [fetch EXCEPT ![a][h] = g]
        BY <2>2 DEF g
      <3> QED BY <2>1, <3>2, <3>3, <3>4, MoveKeeps
    <2>3. ASSUME NEW account \in Accounts(h), NEW failure \in Failures, NEW k \in 0..Len(Plan(account)),
                 fetch' = [fetch EXCEPT ![a][h] = Answered(account, Fetch(account, k, failure, Now(a)))]
          PROVE  WholeInv'
      <3> DEFINE g == Answered(account, Fetch(account, k, failure, Now(a)))
      <3>1. Kept(g, a, h, Now(a), comments')
        <4>1. Now(a) \in Nat
          BY DEF Now, CollectionAssumption, Known, Kinds
        <4> QED BY <4>1, AccountsAnswer, AnsweredKept DEF Known
      <3>2. g.pc # "done"
        BY DEF Answered
      <3> HIDE DEF g
      <3>3. fetch' = [fetch EXCEPT ![a][h] = g]
        BY <2>3 DEF g
      <3> QED BY <2>1, <3>1, <3>2, <3>3, MoveKeeps
    <2> QED BY <1>1, <2>2, <2>3 DEF FetchPlatform
  <1>2. ASSUME NEW s, HasSalt(a, h, s), run[a].pc = "fetching",
               fetch[a][h].pc \in {"hash", "reread"}, UNCHANGED <<deploy, run, comments, result>>
        PROVE  WholeInv'
    <2> DEFINE g == Hashed(fetch[a][h], s)
    <2>1. Kept(g, a, h, Now(a), comments')
      BY <1>0, <1>2, HashedKept
    <2>2. g.pc # "done" /\ fetch[a][h].pc \in InFlight
      BY <1>2 DEF Hashed, InFlight, Seeding
    <2> HIDE DEF g
    <2>3. fetch' = [fetch EXCEPT ![a][h] = g]
      BY <1>2 DEF g, HasSalt
    <2> QED BY <1>2, <2>1, <2>2, <2>3, MoveKeeps
  <1>3. ASSUME NEW pc \in {"seed", "reread", "result", "done"},
               fetch' = [fetch EXCEPT ![a][h] = [fetch[a][h] EXCEPT !.pc = pc]],
               run[a].pc = "fetching", fetch[a][h].pc \in InFlight,
               UNCHANGED <<deploy, run>>, comments \subseteq comments',
               pc \in {"result", "done"} /\ fetch[a][h].account # Nothing
                 /\ fetch[a][h].pull.error = "none" => RowsOf(fetch[a][h], a, h) \subseteq comments',
               \/ UNCHANGED result /\ pc # "done"
               \/ result' = {r \in result : <<r.audit, r.platform>> # <<a, PlatformOf[h]>>}
                              \cup {[audit |-> a, platform |-> PlatformOf[h], status |-> StatusOf(a, h)]}
                    /\ pc = "done"
        PROVE  WholeInv'
    <2> DEFINE g == [fetch[a][h] EXCEPT !.pc = pc]
    <2>1. Kept(g, a, h, Now(a), comments')
      BY <1>0, <1>3, MovedKept
    <2>2. g.pc = pc /\ g.pull = fetch[a][h].pull
      BY <1>0 DEF Shaped
    <2> HIDE DEF g
    <2>3. fetch' = [fetch EXCEPT ![a][h] = g]
      BY <1>3 DEF g
    <2> QED BY <1>3, <2>1, <2>2, <2>3, MoveKeeps
  <1>4. ASSUME fetch' = [fetch EXCEPT ![a][h] = Broken],
               run[a].pc = "fetching", fetch[a][h].pc \in InFlight,
               UNCHANGED <<deploy, run>>, comments \subseteq comments',
               \/ UNCHANGED result
               \/ result' = {r \in result : <<r.audit, r.platform>> # <<a, PlatformOf[h]>>}
                              \cup {[audit |-> a, platform |-> PlatformOf[h], status |-> StatusOf(a, h)]}
        PROVE  WholeInv'
    <2>1. Kept(Broken, a, h, Now(a), comments') /\ Broken.pc = "failed"
      BY BlankKept DEF Broken, Idle
    <2> QED BY <1>4, <2>1, MoveKeeps
  <1>5. CASE AuthorHash(a, h)
    <2>1. /\ UNCHANGED <<deploy, run, comments, result>> /\ run[a].pc = "fetching"
          /\ fetch[a][h].pc = "hash" /\ "hash" \in InFlight
      BY <1>5 DEF AuthorHash, At, tables, InFlight
    <2>2. \/ \E s : HasSalt(a, h, s)
          \/ fetch' = [fetch EXCEPT ![a][h] = [fetch[a][h] EXCEPT !.pc = "seed"]]
      BY <1>5 DEF AuthorHash
    <2> QED BY <1>2, <1>3, <2>1, <2>2
  <1>6. CASE SeedSalt(a, h)
    <2>1. /\ UNCHANGED <<deploy, run, comments, result>> /\ run[a].pc = "fetching"
          /\ fetch[a][h].pc = "seed" /\ "seed" \in InFlight
      BY <1>6 DEF SeedSalt, At, tables, InFlight, Seeding
    <2>2. \/ fetch' = [fetch EXCEPT ![a][h] = [fetch[a][h] EXCEPT !.pc = "reread"]]
          \/ fetch' = [fetch EXCEPT ![a][h] = Broken]
      BY <1>6 DEF SeedSalt, Acknowledged
    <2> QED BY <1>3, <1>4, <2>1, <2>2
  <1>7. CASE RereadSalt(a, h)
    <2>1. UNCHANGED <<deploy, run, comments, result>> /\ run[a].pc = "fetching" /\ fetch[a][h].pc = "reread"
      BY <1>7 DEF RereadSalt, At, tables
    <2>2. HasSalt(a, h, stored)
      BY <1>7 DEF RereadSalt
    <2> QED BY <1>2, <2>1, <2>2
  <1>8. CASE Ingest(a, h)
    <2>1. /\ UNCHANGED <<deploy, run, result>> /\ run[a].pc = "fetching"
          /\ fetch[a][h].pc = "ingest" /\ "ingest" \in InFlight
      BY <1>8 DEF Ingest, At, InFlight
    <2>2. CASE Storable(fetch[a][h].pull)
      <3>1. comments' = comments \cup CommentRows(a, h)
        BY <1>8, <2>2 DEF Ingest
      <3>2. comments \subseteq comments' /\ RowsOf(fetch[a][h], a, h) \subseteq comments'
        BY <3>1 DEF CommentRows, RowsOf
      <3>3. \/ fetch' = [fetch EXCEPT ![a][h] = [fetch[a][h] EXCEPT !.pc = "result"]]
            \/ fetch' = [fetch EXCEPT ![a][h] = Broken]
        BY <1>8, <2>2 DEF Ingest, Acknowledged
      <3> QED BY <1>3, <1>4, <2>1, <3>2, <3>3
    <2>3. CASE ~Storable(fetch[a][h].pull)
      <3>1. fetch' = [fetch EXCEPT ![a][h] = Broken] /\ UNCHANGED comments
        BY <1>8, <2>3 DEF Ingest, tables
      <3> QED BY <1>4, <2>1, <3>1
    <2> QED BY <2>2, <2>3
  <1>9. CASE UpsertResult(a, h)
    <2>1. /\ UNCHANGED <<deploy, run, comments>> /\ run[a].pc = "fetching"
          /\ fetch[a][h].pc = "result" /\ "result" \in InFlight
      BY <1>9 DEF UpsertResult, At, tables, InFlight
    <2>2. fetch[a][h].account # Nothing /\ fetch[a][h].pull.error = "none" =>
            RowsOf(fetch[a][h], a, h) \subseteq comments
      BY <1>0, <2>1 DEF Kept
    <2>3. \/ fetch' = [fetch EXCEPT ![a][h] = [fetch[a][h] EXCEPT !.pc = "done"]]
          \/ fetch' = [fetch EXCEPT ![a][h] = Broken]
      BY <1>9 DEF UpsertResult, Acknowledged
    <2>4. result' = {r \in result : <<r.audit, r.platform>> # <<a, PlatformOf[h]>>}
                      \cup {[audit |-> a, platform |-> PlatformOf[h], status |-> StatusOf(a, h)]}
      BY <1>9 DEF UpsertResult
    <2> QED BY <1>3, <1>4, <2>1, <2>2, <2>3, <2>4
  <1>10. CASE FailPlatform(a, h) \/ Cancelled(a, h)
    <2>1. /\ UNCHANGED <<deploy, run, comments, result>> /\ run[a].pc = "fetching"
          /\ fetch[a][h].pc \in InFlight /\ fetch' = [fetch EXCEPT ![a][h] = Broken]
      BY <1>10 DEF FailPlatform, Cancelled, Fails, tables
    <2> QED BY <1>4, <2>1
  <1> QED BY <1>1, <1>5, <1>6, <1>7, <1>8, <1>9, <1>10 DEF Goroutine

\* A whole run changes: every other one stands still.
LEMMA RunsWhole ==
  ASSUME Known, UNCHANGED <<deploy, result>>, comments \subseteq comments',
         NEW Changed \in SUBSET Audits,
         \A a \in Audits \ Changed : run'[a] = run[a] /\ fetch'[a] = fetch[a],
         \A a \in Changed, h \in Handles : fetch'[a][h].account = Nothing /\ fetch'[a][h].pull = NoPull,
         \A a \in Changed, h \in Handles : fetch'[a][h].pc \in {"idle", "fetch"},
         \A a \in Changed, h \in Handles : h \notin run'[a].conns => fetch'[a][h].pc = "idle",
         \A a \in Changed : run'[a].pc # "succeeded" /\ run'[a].conns \subseteq Handles
  PROVE  WholeInv'
  <1>1. ASSUME NEW a \in Changed
        PROVE  /\ \A h \in Handles : Kept(fetch'[a][h], a, h, Now(a)', comments')
               /\ Shown(a)' /\ Outside(a)' /\ AllOk(a)'
    <2>1. \A h \in Handles : Kept(fetch'[a][h], a, h, Now(a)', comments')
      BY NothingFinite DEF Kept
    <2>2. \A h \in run'[a].conns : fetch'[a][h].pc # "done"
      OBVIOUS
    <2> QED BY <2>1, <2>2 DEF Shown, Outside, AllOk
  <1>2. ASSUME NEW a \in Audits \ Changed
        PROVE  /\ \A h \in Handles : Kept(fetch'[a][h], a, h, Now(a)', comments')
               /\ Shown(a)' /\ Outside(a)' /\ AllOk(a)'
    <2>1. run'[a] = run[a] /\ fetch'[a] = fetch[a] /\ Now(a)' = Now(a)
      BY DEF Now
    <2>2. \A h \in Handles : Kept(fetch'[a][h], a, h, Now(a)', comments')
      BY <2>1 DEF Known, WholeInv, Kept
    <2>3. \A h : StatusOf(a, h)' = StatusOf(a, h) /\ Row(a, h)' = Row(a, h)
      BY <2>1 DEF StatusOf, ConnectorOf, Row
    <2>4. Shown(a)'
      <3>1. Fatal(a)' = Fatal(a)
        BY <2>1 DEF Fatal
      <3> QED BY <2>1, <2>3, <3>1 DEF Known, WholeInv, Shown
    <2>5. Outside(a)'
      BY <2>1 DEF Known, WholeInv, Outside
    <2>6. AllOk(a)'
      BY <2>1, <2>3 DEF Known, WholeInv, AllOk, HasSnapshot
    <2> QED BY <2>2, <2>4, <2>5, <2>6
  <1> QED BY <1>1, <1>2 DEF WholeInv

LEMMA RunWhole ==
  ASSUME Known, UNCHANGED <<deploy, result>>, comments \subseteq comments',
         NEW a \in Audits,
         \A b \in Audits \ {a} : run'[b] = run[b] /\ fetch'[b] = fetch[b],
         \A h \in Handles : /\ fetch'[a][h].account = Nothing /\ fetch'[a][h].pull = NoPull
                            /\ fetch'[a][h].pc \in {"idle", "fetch"}
                            /\ h \notin run'[a].conns => fetch'[a][h].pc = "idle",
         run'[a].pc # "succeeded" /\ run'[a].conns \subseteq Handles
  PROVE  WholeInv'
  <1> DEFINE Changed == {a}
  <1>1. Changed \in SUBSET Audits /\ \A b \in Changed : b = a
    OBVIOUS
  <1>2. \A b \in Audits \ Changed : run'[b] = run[b] /\ fetch'[b] = fetch[b]
    OBVIOUS
  <1> HIDE DEF Changed
  <1> QED BY <1>1, <1>2, RunsWhole

LEMMA GoneBlank ==
  ASSUME NEW h \in Handles
  PROVE  Gone[h].account = Nothing /\ Gone[h].pull = NoPull /\ Gone[h].pc = "idle"
  BY DEF Gone, Idle

LEMMA StartWhole ==
  ASSUME CollectionAssumption, Known, NEW a \in Audits, NEW n \in Nodes, StartRun(a, n)
  PROVE  WholeInv'
  <1> DEFINE conns == FilterConnections(handles, Requested[a])
             pc == IF conns = {} THEN "failed" ELSE "fetching"
             r == [pc |-> pc, node |-> n, attempt |-> run[a].attempt, conns |-> conns]
             begun(h) == [Idle EXCEPT !.pc = IF h \in conns THEN "fetch" ELSE "idle"]
  <1>1. run' = [run EXCEPT ![a] = r] /\ fetch' = [fetch EXCEPT ![a] = [h \in Handles |-> begun(h)]]
    BY DEF StartRun
  <1>2. r.pc # "succeeded" /\ r.conns = conns
    OBVIOUS
  <1>3. \A h : /\ begun(h).account = Nothing /\ begun(h).pull = NoPull
               /\ begun(h).pc = IF h \in conns THEN "fetch" ELSE "idle"
    BY DEF Idle
  <1>4. conns \subseteq Handles
    BY DEF FilterConnections, Known, Kinds
  <1>5. UNCHANGED <<deploy, result, comments>>
    BY DEF StartRun, tables
  <1> HIDE DEF r, begun, conns
  <1>6. run'[a] = r /\ \A h \in Handles : fetch'[a][h] = begun(h)
    BY <1>1 DEF Known, SaltInv, Shapes
  <1>7. \A b \in Audits \ {a} : run'[b] = run[b] /\ fetch'[b] = fetch[b]
    BY <1>1 DEF Known, SaltInv, Shapes
  <1>8. \A h \in Handles : /\ fetch'[a][h].account = Nothing /\ fetch'[a][h].pull = NoPull
                           /\ fetch'[a][h].pc \in {"idle", "fetch"}
                           /\ h \notin run'[a].conns => fetch'[a][h].pc = "idle"
    BY <1>2, <1>3, <1>6
  <1>9. run'[a].pc # "succeeded" /\ run'[a].conns \subseteq Handles
    BY <1>2, <1>4, <1>6
  <1> QED BY <1>5, <1>7, <1>8, <1>9, RunWhole

LEMMA CrashWhole ==
  ASSUME CollectionAssumption, Known, NEW n \in Nodes, Crash(n)
  PROVE  WholeInv'
  <1> DEFINE Changed == {a \in Audits : On(a, n)}
  <1>1. \A a \in Audits \ Changed : run'[a] = run[a] /\ fetch'[a] = fetch[a]
    BY DEF Crash
  <1>2. \A a \in Changed : run'[a] = Again(a) /\ fetch'[a] = Gone
    BY DEF Crash
  <1>3. \A a \in Changed : run'[a].pc # "succeeded" /\ run'[a].conns \subseteq Handles
    BY <1>2, RunKinds DEF Known
  <1>4. \A a \in Changed, h \in Handles : /\ fetch'[a][h].account = Nothing /\ fetch'[a][h].pull = NoPull
                                       /\ fetch'[a][h].pc = "idle"
    BY <1>2, GoneBlank
  <1>5. UNCHANGED <<deploy, result, comments>>
    BY DEF Crash, tables
  <1>6. Changed \in SUBSET Audits
    OBVIOUS
  <1> HIDE DEF Changed
  <1>7. /\ \A a \in Changed, h \in Handles : fetch'[a][h].account = Nothing /\ fetch'[a][h].pull = NoPull
        /\ \A a \in Changed, h \in Handles : fetch'[a][h].pc \in {"idle", "fetch"}
        /\ \A a \in Changed, h \in Handles : h \notin run'[a].conns => fetch'[a][h].pc = "idle"
    BY <1>4
  <1>8. UNCHANGED <<deploy, result>> /\ comments \subseteq comments' /\ Known
    BY <1>5
  <1> QED BY <1>1, <1>3, <1>6, <1>7, <1>8, RunsWhole

\* As many snapshots are "ok" as there are connections: all of them are.
LEMMA AllCounted ==
  ASSUME CollectionAssumption, Known, NEW a \in Audits, OkCount(a) = Cardinality(run[a].conns)
  PROVE  \A h \in run[a].conns : HasSnapshot(a, h) /\ StatusOf(a, h) = "ok"
  <1> DEFINE ok == {h \in Snapshots(a) : StatusOf(a, h) = "ok"}
  <1>1. IsFiniteSet(run[a].conns)
    BY FS_Subset DEF CollectionAssumption, Known, Kinds
  <1>2. ok \subseteq run[a].conns
    BY DEF Snapshots
  <1>3. ok = run[a].conns
    BY <1>1, <1>2, FS_Subset DEF OkCount
  <1> QED BY <1>3 DEF Snapshots

LEMMA JoinWhole ==
  ASSUME CollectionAssumption, Known, NEW a \in Audits, Join(a)
  PROVE  WholeInv'
  <1> DEFINE pc == IF Snapshots(a) = {} THEN "failed"
                   ELSE IF OkCount(a) = Cardinality(run[a].conns) THEN "succeeded" ELSE "partial"
             r == IF Fatal(a) THEN Again(a) ELSE [run[a] EXCEPT !.pc = pc]
  <1>1. run' = [run EXCEPT ![a] = r]
    BY DEF Join
  <1>2. run'[a] = r /\ \A b \in Audits \ {a} : run'[b] = run[b]
    BY <1>1 DEF Known, SaltInv, Shapes
  <1>3. UNCHANGED <<deploy, result, comments>>
    BY DEF Join, tables
  <1>4. CASE r.pc # "succeeded"
    <2>1. fetch' = [fetch EXCEPT ![a] = Gone]
      BY <1>2, <1>4 DEF Join
    <2>2. fetch'[a] = Gone /\ \A b \in Audits \ {a} : fetch'[b] = fetch[b]
      BY <2>1 DEF Known, SaltInv, Shapes
    <2>3. run'[a].conns \subseteq Handles
      <3>1. [run[a] EXCEPT !.pc = pc].conns = run[a].conns
        BY DEF Known, SaltInv, Shapes, Placed
      <3> QED BY <1>2, <3>1, RunKinds DEF Known, Kinds
    <2>4. \A h \in Handles : /\ fetch'[a][h].account = Nothing /\ fetch'[a][h].pull = NoPull
                                       /\ fetch'[a][h].pc = "idle"
      BY <2>2, GoneBlank
    <2> HIDE DEF r
    <2> QED BY <1>2, <1>3, <1>4, <2>2, <2>3, <2>4, RunWhole
  <1>5. CASE r.pc = "succeeded"
    <2>1. fetch' = fetch
      BY <1>2, <1>5 DEF Join
    <2>2. ~Fatal(a)
      <3>1. ASSUME Fatal(a) PROVE FALSE
        <4>1. r = Again(a)
          BY <3>1
        <4> HIDE DEF r
        <4> QED BY <1>5, <4>1, RunKinds DEF Known
      <3> QED BY <3>1
    <2>3. r = [run[a] EXCEPT !.pc = pc]
      BY <2>2
    <2>4. r.pc = pc /\ r.conns = run[a].conns /\ r.attempt = run[a].attempt
      BY <2>3 DEF Known, SaltInv, Shapes, Placed
    <2>5. OkCount(a) = Cardinality(run[a].conns)
      BY <1>5, <2>4
    <2>6. \A h \in run[a].conns : fetch[a][h].pc = "done"
      BY <2>2 DEF Join, Fatal
    <2>7. \A h \in run[a].conns : HasSnapshot(a, h) /\ StatusOf(a, h) = "ok"
      BY <2>5, AllCounted
    <2> HIDE DEF r
    <2>8. \A b \in Audits : /\ run'[b].conns = run[b].conns /\ run'[b].attempt = run[b].attempt
                            /\ (b # a => run'[b] = run[b])
      BY <1>2, <2>4
    <2>9. /\ \A b \in Audits : Now(b)' = Now(b)
          /\ \A b, h : StatusOf(b, h)' = StatusOf(b, h) /\ Row(b, h)' = Row(b, h)
                       /\ HasSnapshot(b, h)' = HasSnapshot(b, h)
      BY <1>3, <2>1, <2>8 DEF Now, StatusOf, ConnectorOf, Row, HasSnapshot
    <2>10. \A b \in Audits, h \in Handles : Kept(fetch'[b][h], b, h, Now(b)', comments')
      BY <1>3, <2>1, <2>9 DEF Known, WholeInv
    <2>11. ASSUME NEW b \in Audits PROVE Shown(b)' /\ Outside(b)' /\ AllOk(b)'
      <3>1. Shown(b)'
        <4>1. Fatal(b)' = Fatal(b)
          BY <2>1, <2>8 DEF Fatal
        <4> QED BY <1>3, <2>1, <2>8, <2>9, <4>1 DEF Known, WholeInv, Shown
      <3>2. Outside(b)'
        BY <2>1, <2>8 DEF Known, WholeInv, Outside
      <3>3. AllOk(b)'
        <4>1. CASE b = a
          BY <2>1, <2>6, <2>7, <2>8, <2>9, <4>1 DEF AllOk
        <4>2. CASE b # a
          BY <2>1, <2>8, <2>9, <4>2 DEF Known, WholeInv, AllOk
        <4> QED BY <4>1, <4>2
      <3> QED BY <3>1, <3>2, <3>3
    <2> QED BY <2>10, <2>11 DEF WholeInv
  <1> QED BY <1>4, <1>5

LEMMA WholeStep ==
  ASSUME PullAssumption, CollectionAssumption, Known, [Next]_vars
  PROVE  WholeInv'
  <1>1. CASE UNCHANGED <<deploy, run, fetch, comments, result>>
    <2>1. /\ \A a : Now(a)' = Now(a) /\ Fatal(a)' = Fatal(a)
          /\ \A a, h : StatusOf(a, h)' = StatusOf(a, h) /\ Row(a, h)' = Row(a, h)
                       /\ HasSnapshot(a, h)' = HasSnapshot(a, h)
      BY <1>1 DEF Now, Fatal, StatusOf, ConnectorOf, Row, HasSnapshot
    <2> QED BY <1>1, <2>1 DEF Known, WholeInv, Shown, Outside, AllOk
  <1>2. CASE ImportInstagramCSV \/ (\E h \in Handles : DeleteHandle(h)) \/ Rest \/ UNCHANGED vars
    BY <1>1, <1>2 DEF ImportInstagramCSV, DeleteHandle, Rest, vars, tables
  <1>3. CASE \E a \in Audits, n \in Nodes : StartRun(a, n)
    BY <1>3, StartWhole
  <1>4. CASE \E a \in Audits, h \in Handles : Goroutine(a, h)
    BY <1>4, GoroutineWhole
  <1>5. CASE \E a \in Audits : Join(a)
    BY <1>5, JoinWhole
  <1>6. CASE \E n \in Nodes : Crash(n)
    BY <1>6, CrashWhole
  <1> QED BY <1>2, <1>3, <1>4, <1>5, <1>6 DEF Next

LEMMA KnownAlways == ASSUME PullAssumption, CollectionAssumption PROVE Spec => []Known
  <1>1. Init => Known
    BY SaltInit, KindsInit, WholeInit DEF Known
  <1>2. Known /\ [Next]_vars => Known'
    BY SaltStep, KindsStep, WholeStep DEF Known
  <1> QED BY <1>1, <1>2, PTL DEF Spec

LEMMA KnownIsWhole ==
  ASSUME PullAssumption, CollectionAssumption, Known
  PROVE  SucceededIsWhole
  <1> SUFFICES ASSUME NEW a \in Audits, run[a].pc = "succeeded", NEW h \in run[a].conns
               PROVE  /\ Whole(a, h)
                      /\ [audit |-> a, platform |-> PlatformOf[h], status |-> "ok"] \in result
    BY DEF SucceededIsWhole
  <1>1. run[a].conns \subseteq Handles /\ h \in Handles
    BY DEF Known, Kinds
  <1>2. \A i \in run[a].conns : fetch[a][i].pc = "done" /\ HasSnapshot(a, i) /\ StatusOf(a, i) = "ok"
    BY DEF Known, WholeInv, AllOk
  <1>3. Kept(fetch[a][h], a, h, Now(a), comments)
    BY <1>1 DEF Known, WholeInv
  <1> DEFINE account == fetch[a][h].account
             pull == fetch[a][h].pull
  <1>4. Pulled(fetch[a][h], h, Now(a)) /\ RowsOf(fetch[a][h], a, h) \subseteq comments
    BY <1>2, <1>3 DEF Kept, HasSnapshot
  <1>5. PICK k \in 0..Len(Plan(account)), failure \in Failures : pull = Fetch(account, k, failure, Now(a))
    BY <1>4 DEF Pulled
  <1>6. Answers(account, h)
    BY <1>4 DEF Pulled
  <1>7. pull.error = "none" /\ ~pull.partial
    BY <1>2 DEF HasSnapshot, StatusOf
  <1> DEFINE full == Fetch(account, Len(Plan(account)), "refused", Now(a))
  <1>8. /\ pull = full /\ Len(full.posts) = Len(Listed(account))
        /\ \A i \in DOMAIN full.posts : full.posts[i].counted
    <2> HIDE DEF account, pull
    <2> QED BY <1>1, <1>5, <1>6, <1>7, FetchWhole
  <1>9. Whole(a, h)
    BY <1>2, <1>4, <1>8 DEF Whole, CommentRows, RowsOf
  <1>10. Shown(a) /\ ~Fatal(a)
    BY <1>2 DEF Known, WholeInv, Fatal
  <1>11. PICK i \in run[a].conns : PlatformOf[i] = PlatformOf[h] /\ Row(a, i) \in result
    BY <1>2, <1>10 DEF Shown
  <1>12. [audit |-> a, platform |-> PlatformOf[h], status |-> "ok"] \in result
    BY <1>2, <1>11 DEF Row
  <1> QED BY <1>9, <1>12

\* A job that succeeded read every connection it listed to the end of its plan and
\* stored what that brought, whatever was refused, lost, retried or overwritten on
\* the way, and by however many handles of one platform.
THEOREM SuccessIsWhole ==
  ASSUME PullAssumption, CollectionAssumption
  PROVE  Spec => []SucceededIsWhole
  <1>1. Known => SucceededIsWhole
    BY KnownIsWhole
  <1> QED BY <1>1, KnownAlways, PTL

\* Whatever a platform lists, a fetch makes no more calls than were announced for it.
THEOREM CostIsEnough ==
  ASSUME PullAssumption, CollectionAssumption
  PROVE  Spec => []CostBoundsCalls
  <1>1. ASSUME Known PROVE CostBoundsCalls
    <2> SUFFICES ASSUME NEW a \in Audits, NEW h \in Handles, HasSnapshot(a, h),
                        fetch[a][h].account.kind \in {"instagram", "youtube"}
                 PROVE  Len(Plan(fetch[a][h].account)) <= CostOf(fetch[a][h].account.kind)
      BY DEF CostBoundsCalls
    <2>1. Answers(fetch[a][h].account, h)
      BY <1>1 DEF Known, WholeInv, Kept, Pulled, HasSnapshot
    <2>2. fetch[a][h].account \in LiveAccount
      BY <2>1 DEF Answers, CollectionAssumption
    <2> QED BY <2>2, PlanType
  <1> QED BY <1>1, KnownAlways, PTL
-----------------------------------------------------------------------------
(* What is known of the creator only grows *)

Key(p) == <<p.platform, p.id>>
Keyed(rows) == IsFiniteSet(rows) /\ \A p, q \in rows : Key(p) = Key(q) => p = q

Stamp(m) == <<m.platform, m.name, m.at>>
Stamped(rows) ==
  /\ IsFiniteSet(rows)
  /\ \A m \in rows : m.at \in Nat /\ m.v \in Nat
  /\ \A m, n \in rows : Stamp(m) = Stamp(n) => m = n

\* Every post and every reading once, and of the captured audiences a newest one.
SummaryInv ==
  /\ Keyed(posts) /\ Stamped(points)
  /\ \A r \in audience : r.at \in Nat
  /\ audience # {} => \E latest \in audience : \A o \in audience : o.at <= latest.at

\* An ingest may change a post or a reading but not lose its key, and loses nothing else.
Grown ==
  /\ \A m \in points : \E n \in points' : Stamp(n) = Stamp(m)
  /\ comments \subseteq comments' /\ audience \subseteq audience'
  /\ Cardinality(posts) <= Cardinality(posts')
  /\ \A p \in posts : \E q \in posts' : Key(q) = Key(p)

\* A pull that can be stored has every post once.
LEMMA PullKeyed ==
  ASSUME NEW a \in Audits, NEW h \in Handles, IsFiniteSet(ToSet(fetch[a][h].pull.posts)),
         Storable(fetch[a][h].pull)
  PROVE  Keyed(PostRows(a, h))
  <1> DEFINE list == fetch[a][h].pull.posts
             row(p) == [platform |-> PlatformOf[h], id |-> p.id, label |-> p.label]
             f == [p \in ToSet(list) |-> row(p)]
  <1>1. PostRows(a, h) = {row(p) : p \in ToSet(list)}
    BY DEF PostRows
  <1>2. f \in Surjection(ToSet(list), PostRows(a, h))
    BY <1>1 DEF Surjection
  <1>3. IsFiniteSet(PostRows(a, h))
    <2> HIDE DEF f
    <2> QED BY <1>2, FS_Surjection
  <1>4. ASSUME NEW r \in PostRows(a, h), NEW s \in PostRows(a, h), Key(r) = Key(s) PROVE r = s
    <2>1. PICK i \in DOMAIN list, j \in DOMAIN list : r = row(list[i]) /\ s = row(list[j])
      BY <1>1 DEF ToSet
    <2>2. list[i].id = list[j].id
      BY <1>4, <2>1 DEF Key
    <2>3. i = j
      BY <2>2 DEF Storable, IsInjective
    <2> QED BY <2>1, <2>3
  <1> QED BY <1>3, <1>4 DEF Keyed

LEMMA UpsertKeyed ==
  ASSUME Keyed(posts), NEW rows, Keyed(rows)
  PROVE  /\ Keyed(UpsertPosts(rows))
         /\ Cardinality(posts) <= Cardinality(UpsertPosts(rows))
         /\ \A p \in posts : \E q \in UpsertPosts(rows) : Key(q) = Key(p)
  <1> DEFINE left == {p \in posts : \A r \in rows : Key(p) # Key(r)}
             next == left \cup rows
  <1>1. UpsertPosts(rows) = next
    BY DEF UpsertPosts, Key
  <1>2. IsFiniteSet(left) /\ IsFiniteSet(next)
    <2>1. IsFiniteSet(left)
      BY FS_Subset DEF Keyed
    <2> QED BY <2>1, FS_Union DEF Keyed
  <1>3. \A p, q \in next : Key(p) = Key(q) => p = q
    BY DEF Keyed
  <1>4. \A p \in posts : \E q \in next : Key(q) = Key(p)
    OBVIOUS
  <1> HIDE DEF next
  <1> DEFINE f == [p \in posts |-> CHOOSE q \in next : Key(q) = Key(p)]
  <1>5. \A p \in posts : f[p] \in next /\ Key(f[p]) = Key(p)
    BY <1>4
  <1>6. f \in [posts -> next] /\ DOMAIN f = posts
    BY <1>5
  <1> HIDE DEF f
  <1>7. \A p, q \in posts : f[p] = f[q] => p = q
    BY <1>5 DEF Keyed
  <1>8. f \in Injection(posts, next)
    BY <1>6, <1>7 DEF Injection, IsInjective
  <1>9. Cardinality(posts) <= Cardinality(next)
    BY <1>2, <1>8, FS_Injection
  <1> QED BY <1>1, <1>2, <1>3, <1>4, <1>9 DEF Keyed

\* So does it have every reading once.
LEMMA PullStamped ==
  ASSUME NEW a \in Audits, NEW h \in Handles, fetch[a][h].pull.points \in Seq(Point),
         Storable(fetch[a][h].pull)
  PROVE  Stamped(PointRows(a, h))
  <1> DEFINE list == fetch[a][h].pull.points
             row(m) == [platform |-> PlatformOf[h], name |-> m.name, at |-> m.at, v |-> m.v]
             f == [m \in ToSet(list) |-> row(m)]
  <1>1. PointRows(a, h) = {row(m) : m \in ToSet(list)}
    BY DEF PointRows
  <1>2. f \in Surjection(ToSet(list), PointRows(a, h))
    BY <1>1 DEF Surjection
  <1>3. IsFiniteSet(ToSet(list))
    <2>1. DOMAIN list = 1..Len(list) /\ Len(list) \in Nat
      OBVIOUS
    <2> HIDE DEF list
    <2> QED BY <2>1, RangeFinite
  <1>4. IsFiniteSet(PointRows(a, h))
    <2> HIDE DEF f
    <2> QED BY <1>2, <1>3, FS_Surjection
  <1>5. ASSUME NEW r \in PointRows(a, h) PROVE r.at \in Nat /\ r.v \in Nat
    <2>1. PICK i \in DOMAIN list : r = row(list[i])
      BY <1>1 DEF ToSet
    <2>2. list[i] \in Point
      OBVIOUS
    <2> QED BY <2>1, <2>2 DEF Point
  <1>6. ASSUME NEW r \in PointRows(a, h), NEW t \in PointRows(a, h), Stamp(r) = Stamp(t) PROVE r = t
    <2>1. PICK i \in DOMAIN list, j \in DOMAIN list : r = row(list[i]) /\ t = row(list[j])
      BY <1>1 DEF ToSet
    <2>2. list[i].name = list[j].name /\ list[i].at = list[j].at
      BY <1>6, <2>1 DEF Stamp
    <2>3. i = j
      BY <2>2 DEF Storable, IsInjective, StampsOf
    <2> QED BY <2>1, <2>3
  <1> QED BY <1>4, <1>5, <1>6 DEF Stamped

LEMMA UpsertStamped ==
  ASSUME Stamped(points), NEW rows, Stamped(rows)
  PROVE  /\ Stamped(UpsertPoints(rows))
         /\ \A m \in points : \E n \in UpsertPoints(rows) : Stamp(n) = Stamp(m)
  <1> DEFINE left == {m \in points : \A r \in rows : Stamp(m) # Stamp(r)}
  <1>1. UpsertPoints(rows) = left \cup rows
    BY DEF UpsertPoints, Stamp
  <1>2. IsFiniteSet(left \cup rows)
    <2>1. IsFiniteSet(left)
      BY FS_Subset DEF Stamped
    <2> QED BY <2>1, FS_Union DEF Stamped
  <1>3. \A m \in left \cup rows : m.at \in Nat /\ m.v \in Nat
    BY DEF Stamped
  <1>4. \A m, n \in left \cup rows : Stamp(m) = Stamp(n) => m = n
    BY DEF Stamped
  <1>5. \A m \in points : \E n \in left \cup rows : Stamp(n) = Stamp(m)
    OBVIOUS
  <1> HIDE DEF left
  <1> QED BY <1>1, <1>2, <1>3, <1>4, <1>5 DEF Stamped

LEMMA AudienceNewest ==
  ASSUME SummaryInv, CollectionAssumption, Kinds, NEW a \in Audits, NEW h \in Handles,
         audience' = InsertAudience(AudienceRows(a, h))
  PROVE  /\ audience \subseteq audience'
         /\ \A r \in audience' : r.at \in Nat
         /\ audience' # {} => \E latest \in audience' : \A o \in audience' : o.at <= latest.at
  <1> DEFINE new == [platform |-> PlatformOf[h], audit |-> a, at |-> Now(a)]
  <1>1. audience' = audience \/ audience' = audience \cup {new}
    BY DEF InsertAudience, AudienceRows
  <1>2. new.at \in Nat
    BY DEF Now, CollectionAssumption, Kinds
  <1> HIDE DEF new
  <1>3. CASE audience' = audience
    BY <1>3 DEF SummaryInv
  <1>4. CASE audience' = audience \cup {new}
    <2>1. CASE audience = {}
      BY <1>2, <1>4, <2>1
    <2>2. CASE audience # {}
      <3>1. PICK latest \in audience : \A o \in audience : o.at <= latest.at
        BY <2>2 DEF SummaryInv
      <3>2. \A o \in audience : o.at \in Nat
        BY DEF SummaryInv
      <3>3. CASE new.at <= latest.at
        BY <1>2, <1>4, <3>1, <3>2, <3>3
      <3>4. CASE latest.at <= new.at
        <4>1. \A o \in audience' : o.at <= new.at
          BY <1>2, <1>4, <3>1, <3>2, <3>4
        <4> QED BY <1>2, <1>4, <3>2, <4>1
      <3> QED BY <1>2, <3>2, <3>3, <3>4
    <2> QED BY <2>1, <2>2
  <1> QED BY <1>1, <1>3, <1>4

\* Of finitely many readings one is the newest.
LEMMA Newest ==
  ASSUME NEW S, IsFiniteSet(S), S # {}, \A m \in S : m.at \in Nat
  PROVE  \E m \in S : \A o \in S : o.at <= m.at
  <1>0. PICK n \in Nat : ExistsBijection(1..n, S)
    BY FS_NatBijection
  <1>1. PICK f \in Bijection(1..n, S) : TRUE
    BY <1>0 DEF ExistsBijection
  <1>2. (\A i \in 1..n : f[i] \in S) /\ (\A m \in S : \E i \in 1..n : f[i] = m)
    BY <1>1 DEF Bijection, Surjection, Injection
  <1> DEFINE Has == {m \in 1..n : \E k \in 1..n : \A i \in 1..m : f[i].at <= f[k].at}
  <1>3. ASSUME NEW m \in 1..n, m = 1 \/ m - 1 \in Has PROVE m \in Has
    <2>1. f[m].at \in Nat
      BY <1>2
    <2>2. CASE m = 1
      <3>1. \A i \in 1..m : i = m
        BY <2>2
      <3> QED BY <2>1, <3>1
    <2>3. CASE m # 1 /\ m - 1 \in Has
      <3>1. PICK k \in 1..n : \A i \in 1..(m - 1) : f[i].at <= f[k].at
        BY <2>3
      <3>2. \A i \in 1..m : i = m \/ i \in 1..(m - 1)
        OBVIOUS
      <3>3. f[k].at \in Nat /\ \A i \in 1..n : f[i].at \in Nat
        BY <1>2
      <3>4. CASE f[m].at <= f[k].at
        BY <3>1, <3>2, <3>4
      <3>5. CASE f[k].at <= f[m].at
        <4>1. \A i \in 1..m : f[i].at <= f[m].at
          BY <2>1, <3>1, <3>2, <3>3, <3>5
        <4> QED BY <4>1
      <3> QED BY <2>1, <3>3, <3>4, <3>5
    <2> QED BY <1>3, <2>2, <2>3
  <1>4. n \in 1..n
    <2>1. n # 0
      BY <1>2
    <2> QED BY <2>1
  <1> HIDE DEF Has
  <1>5. n \in Has
    BY <1>3, <1>4, UpTo
  <1>6. PICK k \in 1..n : \A i \in 1..n : f[i].at <= f[k].at
    BY <1>5 DEF Has
  <1> QED BY <1>2, <1>6

LEMMA SummaryStep ==
  ASSUME CollectionAssumption, Known, SummaryInv, [Next]_vars
  PROVE  SummaryInv' /\ Grown
  <1>1. CASE UNCHANGED tables
    <2>1. UNCHANGED <<posts, points, comments, audience>>
      BY <1>1 DEF tables
    <2>2. Cardinality(posts) \in Nat
      BY FS_CardinalityType DEF SummaryInv, Keyed
    <2> QED BY <2>1, <2>2 DEF SummaryInv, Keyed, Stamped, Stamp, Grown
  <1>2. ASSUME NEW a \in Audits, NEW h \in Handles, Ingest(a, h), Storable(fetch[a][h].pull)
        PROVE  SummaryInv' /\ Grown
    <2>1. /\ posts' = UpsertPosts(PostRows(a, h))
          /\ points' = UpsertPoints(PointRows(a, h))
          /\ comments' = comments \cup CommentRows(a, h)
          /\ audience' = InsertAudience(AudienceRows(a, h))
      BY <1>2 DEF Ingest
    <2>2. IsFiniteSet(ToSet(fetch[a][h].pull.posts)) /\ fetch[a][h].pull.points \in Seq(Point)
      BY DEF Known, WholeInv, Kept
    <2>3. Keyed(PostRows(a, h))
      BY <1>2, <2>2, PullKeyed
    <2>4. /\ Keyed(posts') /\ Cardinality(posts) <= Cardinality(posts')
          /\ \A p \in posts : \E q \in posts' : Key(q) = Key(p)
      BY <2>1, <2>3, UpsertKeyed DEF SummaryInv
    <2>5. /\ audience \subseteq audience'
          /\ \A r \in audience' : r.at \in Nat
          /\ audience' # {} => \E latest \in audience' : \A o \in audience' : o.at <= latest.at
      BY <2>1, AudienceNewest DEF Known
    <2>6. Keyed(posts)'
      BY <2>4 DEF Keyed, Key
    <2>7. Stamped(PointRows(a, h))
      BY <1>2, <2>2, PullStamped
    <2>8. Stamped(points') /\ \A m \in points : \E n \in points' : Stamp(n) = Stamp(m)
      BY <2>1, <2>7, UpsertStamped DEF SummaryInv
    <2>9. Stamped(points)'
      BY <2>8 DEF Stamped, Stamp
    <2> QED BY <2>1, <2>4, <2>5, <2>6, <2>8, <2>9 DEF SummaryInv, Grown
  <1>3. CASE ImportInstagramCSV \/ (\E h \in Handles : DeleteHandle(h)) \/ Rest \/ UNCHANGED vars
    BY <1>1, <1>3 DEF ImportInstagramCSV, DeleteHandle, Rest, vars
  <1>4. CASE \/ \E a \in Audits, n \in Nodes : StartRun(a, n)
             \/ \E a \in Audits : Join(a)
             \/ \E n \in Nodes : Crash(n)
    BY <1>1, <1>4 DEF StartRun, Join, Crash
  <1>5. ASSUME NEW a \in Audits, NEW h \in Handles, Goroutine(a, h)
        PROVE  SummaryInv' /\ Grown
    <2>1. CASE FetchPlatform(a, h) \/ AuthorHash(a, h) \/ SeedSalt(a, h) \/ RereadSalt(a, h)
      BY <1>1, <2>1 DEF FetchPlatform, AuthorHash, SeedSalt, RereadSalt
    <2>2. CASE UpsertResult(a, h) \/ FailPlatform(a, h) \/ Cancelled(a, h)
      BY <1>1, <2>2 DEF UpsertResult, FailPlatform, Cancelled, Fails
    <2>3. CASE Ingest(a, h)
      BY <1>1, <1>2, <2>3 DEF Ingest
    <2> QED BY <1>5, <2>1, <2>2, <2>3 DEF Goroutine
  <1> QED BY <1>3, <1>4, <1>5 DEF Next

LEMMA GapsPositive ==
  ASSUME NEW n \in Nat
  PROVE  Max({0, n - 1}) > 0 <=> n >= 2
  <1> DEFINE m == Max({0, n - 1})
  <1>1. \E x \in {0, n - 1} : \A y \in {0, n - 1} : x >= y
    OBVIOUS
  <1>2. m \in {0, n - 1} /\ \A y \in {0, n - 1} : m >= y
    BY <1>1 DEF Max
  <1> HIDE DEF m
  <1> QED BY <1>2 DEF m

LEMMA GrownRecent ==
  ASSUME CollectionAssumption, SummaryInv, SummaryInv', Grown
  PROVE  RecentPosts \in Nat /\ RecentPosts' \in Nat /\ RecentPosts <= RecentPosts'
  <1>1. Cardinality(posts) \in Nat /\ Cardinality(posts') \in Nat
    BY FS_CardinalityType DEF SummaryInv, Keyed
  <1> QED BY <1>1 DEF RecentPosts, Min2, Grown, CollectionAssumption

DropsNothing ==
  LET before == GetInfluencerProfileSummary
      after == GetInfluencerProfileSummary'
      rate == {"engagement_rate"}
      lost == \E m \in points' \ points : m.name = "followers" /\ m.v = 0
  IN /\ before.strip \subseteq after.strip \cup (IF lost THEN rate ELSE {})
     /\ before.readiness \subseteq after.readiness
     /\ FollowerSeries # {} => FollowerSeries' # {}

\* The newest count is no more positive only by a reading of none: a later one, or one
\* that overwrote it.
LEMMA PositiveUntilNone ==
  ASSUME SummaryInv, SummaryInv', Grown, NEW m \in LatestFollowers, m.v > 0
  PROVE  \/ \E n \in LatestFollowers' : n.v > 0
         \/ \E n \in points' \ points : n.name = "followers" /\ n.v = 0
  <1> DEFINE after == {n \in points' : n.name = "followers"}
  <1>1. after = Recorded("followers")'
    BY DEF Recorded
  <1>2. LatestFollowers' = {n \in after : \A o \in after : o.at <= n.at}
    BY <1>1 DEF LatestFollowers
  <1>3. \A n \in points : n.at \in Nat /\ n.v \in Nat
    BY DEF SummaryInv, Stamped
  <1>4. IsFiniteSet(points') /\ \A n \in points' : n.at \in Nat /\ n.v \in Nat
    BY DEF SummaryInv, Stamped
  <1>5. /\ m \in points /\ m.name = "followers"
        /\ \A o \in points : o.name = "followers" => o.at <= m.at
    BY DEF LatestFollowers, Recorded
  <1>6. PICK r \in points' : Stamp(r) = Stamp(m)
    BY <1>5 DEF Grown
  <1>7. r \in after /\ r.at = m.at
    BY <1>5, <1>6 DEF Stamp
  <1>8. r \in points => r = m
    BY <1>5, <1>6 DEF SummaryInv, Stamped
  <1>9. PICK n \in after : \A o \in after : o.at <= n.at
    <2>1. IsFiniteSet(after)
      BY <1>4, FS_Subset
    <2> QED BY <1>4, <1>7, <2>1, Newest
  <1>10. n \in points' /\ n.name = "followers" /\ n \in LatestFollowers'
    BY <1>2, <1>9
  <1>11. CASE n \notin points
    BY <1>4, <1>10, <1>11
  <1>12. CASE n \in points
    <2>1. n.at <= m.at /\ r.at <= n.at
      BY <1>5, <1>7, <1>9, <1>10, <1>12
    <2>2. r.at = n.at
      BY <1>3, <1>5, <1>7, <1>12, <2>1
    <2>3. r \in LatestFollowers'
      BY <1>2, <1>7, <1>9, <2>2
    <2> QED BY <1>4, <1>7, <1>8, <2>3
  <1> QED BY <1>11, <1>12

LEMMA GrownKeeps ==
  ASSUME CollectionAssumption, SummaryInv, SummaryInv', Grown
  PROVE  DropsNothing
  <1>1. \A name : Recorded(name) # {} => Recorded(name)' # {}
    BY DEF Recorded, Grown, Stamp
  <1>2. RecentPosts \in Nat /\ RecentPosts' \in Nat /\ RecentPosts <= RecentPosts'
    BY GrownRecent
  <1>3. PostingGaps > 0 => PostingGaps' > 0
    <2>1. PICK m \in Nat, n \in Nat : m = RecentPosts /\ n = RecentPosts' /\ m <= n
      BY <1>2
    <2>2. PostingGaps = Max({0, m - 1}) /\ PostingGaps' = Max({0, n - 1})
      BY <2>1 DEF PostingGaps
    <2>3. Max({0, m - 1}) > 0 <=> m >= 2
      BY GapsPositive
    <2>4. Max({0, n - 1}) > 0 <=> n >= 2
      BY GapsPositive
    <2> DEFINE x == Max({0, m - 1})
               y == Max({0, n - 1})
    <2>5. PostingGaps = x /\ PostingGaps' = y /\ (x > 0 <=> m >= 2) /\ (y > 0 <=> n >= 2)
      BY <2>2, <2>3, <2>4
    <2> HIDE DEF x, y
    <2> QED BY <2>1, <2>5
  <1>4. LatestAudience # {} => LatestAudience' # {}
    <2>1. LatestAudience # {} => audience' # {}
      BY DEF LatestAudience, Grown
    <2>2. audience' # {} => LatestAudience' # {}
      BY DEF LatestAudience, SummaryInv
    <2> QED BY <2>1, <2>2
  <1>5. CommentSamples # {} => CommentSamples' # {}
    BY DEF CommentSamples, Grown, Key
  <1>6. LatestFollowers # {} => LatestFollowers' # {}
    <2>1. LatestFollowers # {} => Recorded("followers")' # {}
      BY <1>1 DEF LatestFollowers
    <2>2. IsFiniteSet(Recorded("followers")') /\ \A m \in Recorded("followers")' : m.at \in Nat
      <3>1. IsFiniteSet(points') /\ \A m \in points' : m.at \in Nat
        BY DEF SummaryInv, Stamped
      <3>2. Recorded("followers")' \in SUBSET points'
        BY DEF Recorded
      <3> QED BY <3>1, <3>2, FS_Subset
    <2> DEFINE after == Recorded("followers")'
    <2>3. LatestFollowers' = {m \in after : \A o \in after : o.at <= m.at}
      BY DEF LatestFollowers
    <2> HIDE DEF after
    <2>4. after # {} => \E m \in after : \A o \in after : o.at <= m.at
      BY <2>2, Newest DEF after
    <2> QED BY <2>1, <2>3, <2>4 DEF after
  <1> DEFINE lost == \E m \in points' \ points : m.name = "followers" /\ m.v = 0
  <1>7. MetricsStrip \subseteq MetricsStrip' \cup (IF lost THEN {"engagement_rate"} ELSE {})
    <2>1. ASSUME NEW field \in MetricsStrip
          PROVE  field \in MetricsStrip' \/ (field = "engagement_rate" /\ lost)
      <3>1. CASE field = "followers"
        BY <1>6, <3>1 DEF MetricsStrip
      <3>2. CASE field = "engagement_rate"
        <4>1. RecentPosts > 0 /\ \E m \in LatestFollowers : m.v > 0
          BY <3>2 DEF MetricsStrip
        <4>2. lost \/ \E m \in LatestFollowers' : m.v > 0
          BY <4>1, PositiveUntilNone
        <4>3. RecentPosts' > 0
          BY <1>2, <4>1
        <4> QED BY <3>2, <4>2, <4>3 DEF MetricsStrip
      <3>3. CASE field = "reach_ratio"
        BY <1>1, <3>3 DEF MetricsStrip
      <3>4. CASE field = "posting_cadence_days"
        BY <1>3, <3>4 DEF MetricsStrip
      <3> QED BY <3>1, <3>2, <3>3, <3>4 DEF MetricsStrip
    <2> QED BY <2>1
  <1>8. Readiness \subseteq Readiness'
    <2>1. ASSUME NEW field \in Readiness PROVE field \in Readiness'
      <3>1. CASE field = "profile"
        BY <1>2, <1>6, <3>1 DEF Readiness
      <3>2. CASE field = "recent_posts"
        BY <1>2, <3>2 DEF Readiness, CollectionAssumption
      <3>3. CASE field = "audience_demographics"
        BY <1>4, <3>3 DEF Readiness
      <3>4. CASE field = "verified_insights"
        BY <1>1, <3>4 DEF Readiness
      <3>5. CASE field = "comment_samples"
        BY <1>5, <3>5 DEF Readiness
      <3> QED BY <3>1, <3>2, <3>3, <3>4, <3>5 DEF Readiness
    <2> QED BY <2>1
  <1>9. FollowerSeries # {} => FollowerSeries' # {}
    <2>1. FollowerSeries # {} <=> Recorded("followers") # {}
      BY DEF FollowerSeries
    <2>2. (FollowerSeries # {} <=> Recorded("followers") # {})'
      BY DEF FollowerSeries
    <2> QED BY <1>1, <2>1, <2>2
  <1> QED BY <1>7, <1>8, <1>9 DEF DropsNothing, GetInfluencerProfileSummary

\* No pull, however poor, and no retry takes away a headline figure, a tick of the
\* media-kit meter or the series growth is scored from, but that a reading of no
\* followers takes away the engagement rate.
THEOREM SummaryOnlyGrows ==
  ASSUME PullAssumption, CollectionAssumption
  PROVE  Spec => SummaryNeverDrops
  <1>1. Init => SummaryInv
    <2>1. IsFiniteSet({})
      BY FS_EmptySet
    <2> QED BY <2>1 DEF Init, SummaryInv, Keyed, Stamped
  <1>2. Known /\ SummaryInv /\ [Next]_vars => SummaryInv' /\ DropsNothing
    BY SummaryStep, GrownKeeps
  <1>3. [Next]_vars /\ Known /\ SummaryInv => SummaryInv' /\ [DropsNothing]_vars
    BY <1>2
  <1> QED BY <1>1, <1>3, KnownAlways, PTL DEF Spec, SummaryNeverDrops, DropsNothing
=============================================================================
