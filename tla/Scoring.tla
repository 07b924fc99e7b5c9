------------------------------- MODULE Scoring -------------------------------
(***************************************************************************)
(* The scoring module at work: seeding the bootstrap bands at boot,        *)
(* scoring the audits (each a series of separate reads and one write),     *)
(* handing a persisted score to the report, and the nightly job that       *)
(* replaces a bootstrap band by one computed from the corpus.              *)
(*                                                                         *)
(* The engine is ScoreEngine.  One transaction is one step, except that    *)
(* publishing a band reads the next version in one and writes in another:  *)
(* two publications of one cell overlap, and the unique index on the       *)
(* version refuses the second.  A created_at is the number of scores       *)
(* inserted before.                                                        *)
(***************************************************************************)
EXTENDS ScoreEngine

CONSTANTS
  Audits,      \* audits, each with at most one run under way
  People,      \* influencers
  PersonOf,    \* the influencer of each audit
  Niches,      \* niches a profile may name, besides none ("")
  Profile,     \* the niche each profile names at first
  Nights,      \* recompute tasks
  Pulls,       \* what collection may hand to Score: [name -> [snaps, fraud]]
  Offered,     \* Offered[a]: the pulls audit a may be handed
  Earlier,     \* Earlier[p]: the follower readings of p that audits before these ingested
  MinDistinct, \* people a cell needs for a band of its own (30 in the code)
  MaxFaults,   \* crashes and database errors
  Extra,       \* followers somebody may buy
  Inherited    \* benchmark rows of an earlier release

Baseline == "default"
BootTiers == <<"nano", "micro", "mid", "macro", "mega">>
BootstrapVersion == 2
Cells == (Niches \cup {Baseline}) \X ToSet(BootTiers)

InCell(b, cell) == b.niche = cell[1] /\ b.tier = cell[2]
SameCell(b, o) == InCell(b, <<o.niche, o.tier>>)

\* A row of the benchmark table: its percentiles ascend, and a band from a corpus
\* counts its people.
BandRow(b) ==
  /\ <<b.niche, b.tier>> \in Cells
  /\ b \in [niche : {b.niche}, tier : {b.tier}, version : Nat, source : {"bootstrap", "corpus"},
            band : {b.band}, sample : Nat, people : SUBSET People, active : BOOLEAN]
  /\ Ascending(b.band)
  /\ b.source = "corpus" => b.sample = Cardinality(b.people) /\ b.sample >= MinDistinct

\* What the indexes of the table and the transactions on it leave: in a cell a version
\* names one row, the active one is the newest, and there is one.
Table(rows) ==
  /\ \A b \in rows : /\ BandRow(b) /\ b.version > 0
                     /\ \E o \in rows : SameCell(b, o) /\ o.active
  /\ \A b, o \in rows : SameCell(b, o) => /\ b.version = o.version => b = o
                                          /\ b.active => o.version <= b.version

ASSUME ScoringAssumption ==
  /\ Baseline \notin Niches /\ "" \notin Niches
  /\ IsFiniteSet(Audits) /\ IsFiniteSet(People) /\ PersonOf \in [Audits -> People]
  /\ Profile \in [People -> Niches \cup {""}]
  /\ MinDistinct \in Nat \ {0} /\ MaxFaults \in Nat /\ Extra \in Nat
  /\ Nothing \notin Audits
  /\ Offered \in [Audits -> SUBSET DOMAIN Pulls]
  /\ Pulls \in [DOMAIN Pulls -> [snaps : Seq(Snapshot), fraud : FraudEstimate]]
  /\ \A pull \in DOMAIN Pulls : \A s \in ToSet(Pulls[pull].snaps) : IsFiniteSet(s.points)
  /\ Earlier \in [People -> SUBSET Reading] /\ \A p \in People : IsFiniteSet(Earlier[p])
  /\ Table(Inherited)

VARIABLES
  niche,     \* niche[p]: the niche on p's profile, "" for none
  bench,     \* rows of the benchmark table
  serving,   \* the process has seeded what was absent and takes tasks
  run,       \* run[a]: the run of audit a and what it has read
  score,     \* score[a]: the row of audit a in the score table, if there is one
  narrative, \* narrative[a]: the audit whose score the report of a was written from
  series,    \* series[p]: the follower readings ingested for p
  night,     \* night[r]: the recompute task r
  faults     \* crashes and errors so far

scoringVars == <<niche, bench, serving, run, score, narrative, series, night, faults>>

Row(cell, version, source, band, sample, people) ==
  [niche |-> cell[1], tier |-> cell[2], version |-> version, source |-> source, band |-> band,
   sample |-> sample, people |-> people, active |-> TRUE]

ActiveIn(cell) == {b \in bench : InCell(b, cell) /\ b.active}

Latest(rows) == {b \in rows : \A o \in rows : o.version <= b.version}

NoRun == [pc |-> "queued", pull |-> Nothing, niche |-> "",
          bench |-> Nothing]
Asleep == [pc |-> "idle", cells |-> {}, next |-> Nothing, version |-> 0]

NoScore == [created |-> 0]
Scored(a) == score[a].created > 0

Share == 0..One

ScoringTypeOK ==
  /\ niche \in [People -> Niches \cup {""}]
  /\ \A b \in bench : /\ <<b.niche, b.tier>> \in Cells
                      /\ b.version \in Nat \ {0} /\ b.active \in BOOLEAN
                      /\ b.source \in {"bootstrap", "corpus"}
                      /\ b.people \subseteq People /\ b.sample \in Nat
  /\ serving \in BOOLEAN
  /\ \A a \in Audits :
       /\ run[a].pc \in {"queued", "niche", "ready", "withheld", "scored", "reported"}
       /\ score[a].created \in 0..Cardinality(Audits)
       /\ Scored(a) => /\ {score[a].overall, score[a].confidence} \subseteq Share
                       /\ \A i \in 1..4 : score[a].factors[i].value \in Share
  /\ narrative \in [Audits -> Audits \cup {Nothing}]
  /\ faults \in 0..MaxFaults

ScoringInit ==
  /\ niche = Profile
  /\ bench = Inherited
  /\ serving = FALSE
  /\ run = [a \in Audits |-> NoRun]
  /\ score = [a \in Audits |-> NoScore]
  /\ narrative = [a \in Audits |-> Nothing]
  /\ series = Earlier
  /\ night = [r \in Nights |-> Asleep]
  /\ faults = 0
-----------------------------------------------------------------------------
(* Booting *)

\* Absent under its version, and its cell without an active row: the indexes on
\* the version and on the active row would both accept it.
Seedable(tier) ==
  \/ \E b \in bench : InCell(b, <<Baseline, tier>>) /\ b.version = BootstrapVersion
  \/ ActiveIn(<<Baseline, tier>>) = {}

InsertBenchmarkIfAbsent(tier) ==
  IF \E b \in bench : InCell(b, <<Baseline, tier>>) /\ b.version = BootstrapVersion
    THEN {}
    ELSE {Row(<<Baseline, tier>>, BootstrapVersion, "bootstrap", BootstrapBand(tier), 0, {})}

\* One insert after the other; a boot that fails has inserted the first n, and a
\* seed that the table refuses makes every boot fail.
EnsureBootstrap(n) ==
  /\ ~serving
  /\ \A i \in 1..n : Seedable(BootTiers[i])
  /\ bench' = bench \cup UNION {InsertBenchmarkIfAbsent(BootTiers[i]) : i \in 1..n}
  /\ serving' = (n = Len(BootTiers))
  /\ UNCHANGED <<niche, run, score, narrative, series, night, faults>>
-----------------------------------------------------------------------------
(* One audit *)

SetNiche(p, n) ==
  /\ niche[p] = ""
  /\ niche' = [niche EXCEPT ![p] = n]
  /\ UNCHANGED <<bench, serving, run, score, narrative, series, night, faults>>

PointsOf(pull) == UNION {s.points : s \in ToSet(Pulls[pull].snaps)}

\* The run has collected and ingested its snapshots and resolves the niche.
ResolveNiche(a, pull) ==
  LET p == PersonOf[a] IN
  /\ serving
  /\ run[a].pc = "queued"
  /\ run' = [run EXCEPT ![a] =
       [pc |-> "niche", pull |-> pull,
        niche |-> IF niche[p] = "" THEN Baseline ELSE niche[p], bench |-> Nothing]]
  /\ series' = [series EXCEPT ![p] = series[p] \cup PointsOf(pull)]
  /\ UNCHANGED <<niche, bench, serving, score, narrative, night, faults>>

TierOf(a) == TierForFollowers(MaxFollowers(Pulls[run[a].pull].snaps))

\* The exact cell, else the baseline niche at the same tier.
ResolveBenchmark(a) ==
  LET exact == ActiveIn(<<run[a].niche, TierOf(a)>>)
      cohort == IF exact # {} THEN exact ELSE ActiveIn(<<Baseline, TierOf(a)>>)
  IN /\ run[a].pc = "niche"
     /\ \E b \in cohort : run' = [run EXCEPT ![a].pc = "ready", ![a].bench = b]
     /\ UNCHANGED <<niche, bench, serving, score, narrative, series, night, faults>>

Input(a, history) ==
  [snaps |-> Pulls[run[a].pull].snaps, fraud |-> Pulls[run[a].pull].fraud,
   weights |-> BootstrapWeights, bench |-> run[a].bench, history |-> history]

Inserted == Cardinality({a \in Audits : Scored(a)})

\* The row of a score; cell is the cell its band came from, which it does not name.
ScoreRow(a, in, c) ==
  [person |-> PersonOf[a], niche |-> run[a].niche, tier |-> TierOf(a),
   overall |-> c.overall, confidence |-> c.confidence, factors |-> FactorsOf(in),
   version |-> in.bench.version, source |-> in.bench.source, cell |-> in.bench.niche,
   platforms |-> ContributingPlatforms(in.snaps),
   verification |-> VerificationTier(in.snaps), rate |-> ObservedEngagementRate(in.snaps),
   created |-> 0]

\* Mutant of UpsertScore: the overwrite renews created_at.
UpsertScoreRenewed(a, row) == score' = [score EXCEPT ![a] = [row EXCEPT !.created = Inserted + 1]]

\* A score that exists is overwritten, all but its created_at.
UpsertScore(a, row) ==
  LET at == IF Scored(a) THEN score[a].created ELSE Inserted + 1
  IN score' = [score EXCEPT ![a] = [row EXCEPT !.created = at]]

\* The follower history is best effort: the growth signal does without it.
Score(a) ==
  /\ run[a].pc = "ready"
  /\ \E history \in {{}, series[PersonOf[a]]} :
       LET in == Input(a, history)
           computed == Compute(in)
       IN
       \/ /\ computed # Withheld
          /\ UpsertScore(a, ScoreRow(a, in, computed))
          /\ run' = [run EXCEPT ![a].pc = "scored"]
       \/ /\ computed = Withheld  \* the score is withheld and the run fails
          /\ run' = [run EXCEPT ![a].pc = "withheld"]
          /\ UNCHANGED score
  /\ UNCHANGED <<niche, bench, serving, narrative, series, night, faults>>

\* The audits of p by their newest score.
LatestScore(p) ==
  {a \in Audits : /\ Scored(a) /\ PersonOf[a] = p
                  /\ \A o \in Audits : Scored(o) /\ PersonOf[o] = p
                                    => score[o].created <= score[a].created}

\* The report is written from the newest score of the influencer.
Report(a) ==
  /\ run[a].pc = "scored"
  /\ \E o \in LatestScore(PersonOf[a]) : narrative' = [narrative EXCEPT ![a] = o]
  /\ run' = [run EXCEPT ![a].pc = "reported"]
  /\ UNCHANGED <<niche, bench, serving, score, series, night, faults>>

\* Something after the score fails, or the process dies: the task runs again.  A
\* run that ends before its score leaves nothing behind and is like a late one.
Rerun(a) ==
  /\ faults < MaxFaults
  /\ run[a].pc \in {"scored", "reported"}
  /\ run' = [run EXCEPT ![a].pc = "queued"]
  /\ faults' = faults + 1
  /\ UNCHANGED <<niche, bench, serving, score, narrative, series, night>>
-----------------------------------------------------------------------------
(* The nightly recompute *)

\* One observation a person, from the newest score with verified data and a rate.
CorpusObservations ==
  LET observed == {a \in Audits : /\ Scored(a)
                                  /\ score[a].verification = "verified"
                                  /\ score[a].rate # Nothing}
  IN {score[a] : a \in {b \in observed : \A o \in observed :
        PersonOf[o] = PersonOf[b] => score[o].created <= score[b].created}}

CorpusBand(obs) ==
  LET rows == SetToSeq(obs)
      rates == Sorted([i \in 1..Len(rows) |-> rows[i].rate])
  IN [i \in 1..5 |-> PercentileCont(rates, <<10, 25, 50, 75, 90>>[i])]

Publication(cell, obs) ==
  Row(cell, 0, "corpus", CorpusBand(obs), Cardinality(obs), {o.person : o \in obs})

\* Mutant of CorpusCells: a cell publishes as soon as it has anybody.
CorpusCellsAnySize(obs) ==
  {Publication(cell, {o \in obs : InCell(o, cell)}) :
     cell \in {<<o.niche, o.tier>> : o \in obs}}

\* A publication for every cell with enough people.
CorpusCells(obs) ==
  {Publication(cell, {o \in obs : InCell(o, cell)}) :
     cell \in {c \in {<<o.niche, o.tier>> : o \in obs} :
                 Cardinality({o.person : o \in {x \in obs : InCell(x, c)}}) >= MinDistinct}}

\* The task is at its next cell, or done.
AtCells(cells) ==
  [pc |-> IF cells = {} THEN "done" ELSE "cells", cells |-> cells, next |-> Nothing, version |-> 0]

RecomputeCorpus(r) ==
  /\ serving
  /\ night[r].pc = "idle"
  /\ night' = [night EXCEPT ![r] = AtCells(CorpusCells(CorpusObservations))]
  /\ UNCHANGED <<niche, bench, serving, run, score, narrative, series, faults>>

\* A transaction of its own for every cell.
BeginPublish(r) ==
  /\ night[r].pc = "cells"
  /\ \E c \in night[r].cells :
       LET versions == {b.version : b \in {x \in bench : InCell(x, <<c.niche, c.tier>>)}} \cup {0}
       IN night' = [night EXCEPT ![r] =
            [pc |-> "tx", cells |-> night[r].cells \ {c}, next |-> c,
             version |-> (CHOOSE v \in versions : \A o \in versions : o <= v) + 1]]
  /\ UNCHANGED <<niche, bench, serving, run, score, narrative, series, faults>>

\* Mutant of Published: the row that was active stays active.
PublishedBeside(c, version) == bench \cup {[c EXCEPT !.version = version]}

\* The active row of the cell is deactivated and the new one is inserted active.
Published(c, version) ==
  {IF InCell(b, <<c.niche, c.tier>>) THEN [b EXCEPT !.active = FALSE] ELSE b : b \in bench}
    \cup {[c EXCEPT !.version = version]}

\* A version that another task took meanwhile is refused, and the task fails.
PublishCorpusBenchmark(r) ==
  LET c == night[r].next
      taken == \E b \in bench : InCell(b, <<c.niche, c.tier>>) /\ b.version = night[r].version
  IN /\ night[r].pc = "tx"
     /\ \/ /\ ~taken
           /\ bench' = Published(c, night[r].version)
           /\ night' = [night EXCEPT ![r] = AtCells(night[r].cells)]
        \/ /\ taken
           /\ night' = [night EXCEPT ![r] = Asleep]
           /\ UNCHANGED bench
     /\ UNCHANGED <<niche, serving, run, score, narrative, series, faults>>

\* The task ends between two cells or inside a transaction, and runs again.
NightFails(r) ==
  /\ faults < MaxFaults
  /\ night[r].pc \in {"cells", "tx"}
  /\ night' = [night EXCEPT ![r] = Asleep]
  /\ faults' = faults + 1
  /\ UNCHANGED <<niche, bench, serving, run, score, narrative, series>>
-----------------------------------------------------------------------------
AuditStep(a) ==
  \/ \E pull \in Offered[a] : ResolveNiche(a, pull)
  \/ ResolveBenchmark(a) \/ Score(a) \/ Report(a) \/ Rerun(a)

NightStep(r) ==
  \/ RecomputeCorpus(r) \/ BeginPublish(r) \/ PublishCorpusBenchmark(r)
  \/ NightFails(r)

ScoringNext ==
  \/ \E n \in 0..Len(BootTiers) : EnsureBootstrap(n)
  \/ \E p \in People, n \in Niches : SetNiche(p, n)
  \/ \E a \in Audits : AuditStep(a)
  \/ \E r \in Nights : NightStep(r)

ScoringSpec == ScoringInit /\ [][ScoringNext]_scoringVars
-----------------------------------------------------------------------------
(* What must hold *)

\* Whatever publications overlap, and wherever one stops, a cell has one active
\* band at most, it is the newest, and once the process serves every tier has a
\* baseline band: no audit finds scoring.benchmark_unavailable.
OneBandPerCell ==
  \A cell \in Cells :
    /\ \A b, o \in ActiveIn(cell) : b = o
    /\ ActiveIn(cell) \subseteq Latest({b \in bench : InCell(b, cell)})

BaselineIsServed ==
  serving => \A t \in ToSet(BootTiers) : ActiveIn(<<Baseline, t>>) # {}

SeededIsScorable == OneBandPerCell /\ BaselineIsServed

\* A corpus band counts distinct people, at least the threshold of them, never the
\* re-audits of one (Service.RecomputeCorpus, CorpusObservations).
CorpusCountsPeople ==
  \A b \in bench : b.source = "corpus" => /\ b.sample = Cardinality(b.people)
                                          /\ b.sample >= MinDistinct

\* The readings that carry the count of s itself: a connector stamps the count it
\* reports with the time of the capture.
Current(s) == {p \in s.points : p.v = s.followers /\ \A q \in s.points : q.at <= p.at}

Raised(points, paid) == (points \ paid) \cup {[p EXCEPT !.v = p.v + Extra] : p \in points \cap paid}

\* The same input with more followers wherever the count stands, in the snapshot, in
\* its reading and in the reading ingested before scoring; noticed by the fraud pass
\* or not.
Bought(in, risk) ==
  LET paid(s) == IF s.followers > 0 THEN Current(s) ELSE {}
      all == UNION {paid(s) : s \in ToSet(in.snaps)}
      more(s) == [s EXCEPT !.followers = IF s.followers > 0 THEN s.followers + Extra ELSE 0,
                           !.points = Raised(s.points, paid(s))]
  IN [in EXCEPT !.snaps = [i \in DOMAIN in.snaps |-> more(in.snaps[i])],
                !.history = Raised(in.history, all), !.fraud.risk = risk]

\* The purchase neither changes the cohort nor crosses the floor from which an
\* audience counts.
SameStanding(few, many) ==
  /\ TierForFollowers(many) = TierForFollowers(few)
  /\ many < AudienceFloor <=> few < AudienceFloor

\* The purchases that change nobody's standing, each with the risk estimated after it:
\* what it was, or certainty.
Purchases(in) ==
  LET risks == {in.fraud.risk} \cup (IF in.fraud.risk = Nothing THEN {} ELSE {One})
  IN {to \in {Bought(in, risk) : risk \in risks} :
        SameStanding(MaxFollowers(in.snaps), MaxFollowers(to.snaps))}

\* A composite that is neither made nor raised.
NoGain(after, before) ==
  after = Withheld \/ (before # Withheld /\ after.overall <= before.overall)

\* Buying followers adds points by Consistency alone, which scores how steadily the
\* count grew: with that factor as it was before the purchase, the score is not higher,
\* nor is there one for an account that could not be scored (engine.go: the follower
\* count is no scored factor; growthSmoothness reads its series).
BoughtHelpsByGrowthAlone ==
  \A a \in Audits : run[a].pc = "ready" =>
    LET in == Input(a, series[PersonOf[a]])
        f == FactorsOf(in) IN
    \A to \in Purchases(in) :
      NoGain(Composite(in.weights, [FactorsOf(to) EXCEPT ![3] = f[3]]), Composite(in.weights, f))

\* A factor nobody measured has no say: the score is what it would be had the
\* weights never named that factor, and its card shows no band.
AbsenceHasNoVote ==
  \A a \in Audits : run[a].pc = "ready" =>
    LET f == FactorsOf(Input(a, series[PersonOf[a]]))
        unnamed(i) == Composite([BootstrapWeights EXCEPT ![i] = 0], f)
    IN \A i \in 1..4 :
         Composite(BootstrapWeights, f) # Withheld /\ ~Measured(f[i])
           => /\ unnamed(i) # Withheld
              /\ unnamed(i).overall = Composite(BootstrapWeights, f).overall
              /\ FactorCard(i, f[i]).band = "not_assessed"
-----------------------------------------------------------------------------
(* What comments of the code say and the model refutes: see the README *)

\* A boot seeds what is absent, whatever release wrote the table
\* (Service.EnsureBootstrap: the composition root can call it on every boot).
EveryBootSeeds == ~serving => \A t \in ToSet(BootTiers) : Seedable(t)

\* Buying followers never raises the score (engine.go: the count survives only as the
\* tier; it never adds points).
NothingBoughtHelps ==
  \A a \in Audits : run[a].pc = "ready" =>
    LET in == Input(a, series[PersonOf[a]]) IN
    \A to \in Purchases(in) : NoGain(Compute(to), Compute(in))

\* The report of an audit is written from the score of that audit
\* (Module.ReportView: it reads back the score the orchestrator just persisted).
ReportIsOwn == \A a \in Audits : narrative[a] \in {Nothing, a}

\* Equal stamps of equal cells name one band (migration 000010: the stamps pin the
\* exact benchmark generation used).
StampsPinTheBand ==
  \A a, o \in Audits :
    Scored(a) /\ Scored(o)
      /\ score[a].niche = score[o].niche /\ score[a].tier = score[o].tier
      /\ score[a].version = score[o].version
    => score[a].cell = score[o].cell
=============================================================================
