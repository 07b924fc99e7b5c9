---------------------------- MODULE ScoreEngine ----------------------------
(***************************************************************************)
(* The scoring engine: from platform snapshots, a fraud estimate, an       *)
(* active weight set and an active benchmark to one composite score.       *)
(*                                                                         *)
(* Floating-point numbers become integers, rounded down: values, supports  *)
(* and shares are thousandths (One is 1.0), engagement rates are           *)
(* ten-thousandths of a follower.  A signal that was not observed is       *)
(* Nothing, never a zero.                                                  *)
(*                                                                         *)
(* A snapshot is [platform, live, followers, posts, watch, points,         *)
(* audience]: live says whether its source is an authenticated API, posts  *)
(* are [likes, deep, at, caption, media] with deep the comments and shares *)
(* and at = 0 for no timestamp, watch the Reels watch times in seconds,    *)
(* points the follower readings [at, v], audience the shares Audience      *)
(* Quality reads, one for each dimension reported.                         *)
(***************************************************************************)
EXTENDS Integers, FiniteSets, Sequences, SequencesExt, TLC

CONSTANT Nothing  \* an absent measurement

ASSUME ScoreEngineAssumption == Nothing \notin Int

One == 1000
Neutral == 500

Post == [likes : Nat, deep : Nat, at : Nat, caption : STRING, media : STRING]
Reading == [at : Nat, v : Nat]
Snapshot ==
  [platform : STRING, live : BOOLEAN, followers : Nat, posts : Seq(Post), watch : Seq(Nat),
   points : SUBSET Reading, audience : Seq(0..One)]
Estimate == Int \cup {Nothing}
FraudEstimate ==
  [present : BOOLEAN, refined : Estimate, risk : Estimate, clique : Estimate, confidence : Int]

Clamp(v, lo, hi) == IF v < lo THEN lo ELSE IF v > hi THEN hi ELSE v
Clamp01(v) == Clamp(v, 0, One)
Portion(n, d) == Clamp01((n * One) \div d)

Total(s) == FoldLeft(+, 0, s)
Mean(s) == IF s = <<>> THEN 0 ELSE Total(s) \div Len(s)

\* The k-th of s in ascending order: less than k are below it, and k are not above.
Sorted(s) ==
  [k \in 1..Len(s) |->
     CHOOSE v \in ToSet(s) : /\ Cardinality({i \in 1..Len(s) : s[i] < v}) < k
                             /\ Cardinality({i \in 1..Len(s) : s[i] <= v}) >= k]

Median(s) ==
  LET t == Sorted(s)
      n == Len(t)
  IN IF n = 0 THEN 0
     ELSE IF n % 2 = 1 THEN t[n \div 2 + 1]
     ELSE (t[n \div 2] + t[n \div 2 + 1]) \div 2

\* The population standard deviation of s, cut at cap.
Deviation(s, cap) ==
  LET n == Len(s)
      squares == Total([i \in 1..n |-> (s[i] - Mean(s)) * (s[i] - Mean(s))])
  IN CHOOSE r \in 0..cap : /\ r * r * n <= squares
                           /\ r = cap \/ (r + 1) * (r + 1) * n > squares

Steps(s) == [i \in 1..(Len(s) - 1) |-> s[i + 1] - s[i]]
Positive(s) == FlattenSeq([i \in 1..Len(s) |-> IF s[i] > 0 THEN <<s[i]>> ELSE <<>>])
-----------------------------------------------------------------------------
(* What a subscore claims *)

Measured(sub) == sub.support > 0

Sub(value, basis, support, kind) ==
  [value |-> value, basis |-> basis, support |-> support, kind |-> kind]

Unmeasured == Sub(Neutral, "closed_form", 0, "none")
Coverage(value, support) == Sub(value, "closed_form", support, "coverage")

PostsOf(snaps) == FlattenSeq([i \in 1..Len(snaps) |-> snaps[i].posts])

ContributingPlatforms(snaps) ==
  {s.platform : s \in {t \in ToSet(snaps) :
     t.followers > 0 \/ t.posts # <<>> \/ t.points # {} \/ t.watch # <<>>}}

\* The largest count over the platforms: it chooses the tier, nothing else.
MaxFollowers(snaps) ==
  LET counts == {snaps[i].followers : i \in 1..Len(snaps)} \cup {0}
  IN CHOOSE n \in counts : \A m \in counts : m <= n

TierForFollowers(n) ==
  CASE n >= 1000000 -> "mega"
    [] n >= 500000 /\ n < 1000000 -> "macro"
    [] n >= 100000 /\ n < 500000 -> "mid"
    [] n >= 10000 /\ n < 100000 -> "micro"
    [] n < 10000 -> "nano"

VerificationTier(snaps) ==
  IF snaps = <<>> THEN "unverified"
  ELSE IF \A s \in ToSet(snaps) : s.live THEN "verified"
  ELSE "estimated"
-----------------------------------------------------------------------------
(* Benchmarks: five percentiles of the engagement rate and their provenance *)

Ladder == <<0, 100, 300, 500, 750, 950>>

Ascending(band) ==
  /\ band \in Seq(Nat) /\ Len(band) = 5
  /\ \A i, j \in 1..5 : i <= j => band[i] <= band[j]

\* The rate's place in the band, linear between the percentiles.
PercentileScore(rate, band) ==
  LET knots == <<0>> \o band
      lifted == (50 * (rate - band[5])) \div band[5]
      above(i) == rate <= knots[i + 1] /\ \A j \in 1..(i - 1) : rate > knots[j + 1]
      i == CHOOSE k \in 1..5 : above(k)
      rise == ((rate - knots[i]) * (Ladder[i + 1] - Ladder[i])) \div (knots[i + 1] - knots[i])
  IN IF rate >= band[5] THEN (IF band[5] = 0 THEN One ELSE Clamp(950 + lifted, 950, One))
     ELSE IF knots[i + 1] = knots[i] THEN Ladder[i + 1]
     ELSE Clamp01(Ladder[i] + rise)

CorpusThreshold == 30
ConfidenceForSamples(n) == IF n <= 0 THEN 0 ELSE (n * One) \div (n + CorpusThreshold)

BootstrapPriorSupport == 250

BenchmarkSupport(b) ==
  IF b.source = "corpus" THEN ConfidenceForSamples(b.sample) ELSE BootstrapPriorSupport
BenchmarkKind(b) == IF b.source = "corpus" THEN "confidence" ELSE "prior"
BenchmarkBasis(b) == IF b.source = "corpus" THEN "corpus" ELSE "closed_form"

BootstrapBand(tier) ==
  CASE tier = "nano"  -> <<200, 350, 550, 850, 1300>>
    [] tier = "micro" -> <<140, 240, 400, 620, 950>>
    [] tier = "mid"   -> <<90, 170, 280, 450, 700>>
    [] tier = "macro" -> <<60, 120, 210, 340, 550>>
    [] tier = "mega"  -> <<40, 90, 160, 270, 450>>

\* percentile_cont over an ascending sequence, q in hundredths.
PercentileCont(s, q) ==
  LET rank == q * (Len(s) - 1)
      lo == rank \div 100
  IN IF lo >= Len(s) - 1 THEN s[Len(s)]
     ELSE s[lo + 1] + ((rank % 100) * (s[lo + 2] - s[lo + 1])) \div 100
-----------------------------------------------------------------------------
(* Engagement Authenticity *)

\* The mean rate per post over the snapshots that report followers.
ObservedEngagementRate(snaps) ==
  LET rates(s) == [k \in 1..Len(s.posts) |->
                     ((s.posts[k].likes + s.posts[k].deep) * 10000) \div s.followers]
      all == FlattenSeq([i \in 1..Len(snaps) |->
                           IF snaps[i].followers > 0 THEN rates(snaps[i]) ELSE <<>>])
  IN IF all = <<>> THEN Nothing ELSE Mean(all)

EngagementSubscore(snaps, b) ==
  LET rate == ObservedEngagementRate(snaps) IN
  IF rate = Nothing THEN [Unmeasured EXCEPT !.basis = BenchmarkBasis(b)]
  ELSE Sub(PercentileScore(rate, b.band), BenchmarkBasis(b), BenchmarkSupport(b), BenchmarkKind(b))

\* Comments and shares over likes, saturating at 0.15.
ContentSubscore(snaps) ==
  LET posts == PostsOf(snaps)
      depths == [i \in 1..Len(posts) |-> (posts[i].deep * One) \div (posts[i].likes + 1)]
  IN IF posts = <<>> THEN Unmeasured
     ELSE Coverage(Portion(Median(depths), 150), Portion(Len(posts), 10))

ReelsRetentionSubscore(snaps) ==
  LET watch == Positive(FlattenSeq([i \in 1..Len(snaps) |-> snaps[i].watch]))
  IN IF watch = <<>> THEN Unmeasured
     ELSE Coverage(Portion(Median(watch), 30), Portion(Len(watch), 5))

\* A promoted champion's score supersedes the blend; the blend takes the
\* signals observed and their share of the weight, also from its support.
AuthenticitySubscore(fraud) ==
  LET weight == (IF fraud.risk = Nothing THEN 0 ELSE 65)
                  + (IF fraud.clique = Nothing THEN 0 ELSE 35)
      blend == ((IF fraud.risk = Nothing THEN 0 ELSE 65 * Clamp01(fraud.risk))
                  + (IF fraud.clique = Nothing THEN 0 ELSE 35 * Clamp01(fraud.clique))) \div weight
  IN IF ~fraud.present THEN Unmeasured
     ELSE IF fraud.refined # Nothing
       THEN Sub(One - Clamp01(fraud.refined), "model", Clamp01(fraud.confidence), "confidence")
     ELSE IF weight = 0 THEN Unmeasured
     ELSE Sub(One - Clamp01(blend), "closed_form",
              Clamp01((Clamp01(fraud.confidence) * weight) \div 100), "confidence")

\* The part of the weights w that rests on measured subscores.
Take(sub, w) == IF Measured(sub) THEN w ELSE 0

\* The measured sub-signals, their weights renormalised over what was observed.
EngagementAuthenticity(engagement, authenticity, depth, retention) ==
  LET present == Take(engagement, 50) + Take(authenticity, 35) + Take(depth, 15) + Take(retention, 15)
      value == Take(engagement, 50 * engagement.value) + Take(authenticity, 35 * authenticity.value)
                 + Take(depth, 15 * depth.value) + Take(retention, 15 * retention.value)
      support == Take(engagement, 50 * engagement.support) + Take(authenticity, 35 * authenticity.support)
                   + Take(depth, 15 * depth.support) + Take(retention, 15 * retention.support)
  IN IF present = 0 THEN Unmeasured
     ELSE Coverage(value \div present, Clamp01(support \div present))
-----------------------------------------------------------------------------
(* Audience Quality, Consistency and Brand Fit *)

\* Meta gives no audience of an account with fewer followers.
AudienceFloor == 100

\* The first snapshot that carries an audience decides, from Meta's floor on.
AudienceQualitySubscore(snaps) ==
  LET first == CHOOSE i \in 1..Len(snaps) : /\ snaps[i].audience # <<>>
                                            /\ \A j \in 1..(i - 1) : snaps[j].audience = <<>>
      shares == snaps[first].audience
  IN IF MaxFollowers(snaps) < AudienceFloor \/ \A i \in 1..Len(snaps) : snaps[i].audience = <<>>
       THEN Unmeasured
       ELSE Coverage(Mean(shares), Portion(Len(shares), 3))

BrandFitSubscore(snaps) ==
  LET posts == PostsOf(snaps)
      captioned == {i \in 1..Len(posts) : posts[i].caption # "none"}
      share(c) == Portion(Cardinality({i \in captioned : posts[i].caption = c}),
                          Cardinality(captioned))
      disclosed == Clamp01((share("sponsored") * One) \div 200)
      safe == One - share("unsafe")
  IN IF captioned = {} THEN Unmeasured
     ELSE Coverage((disclosed + safe) \div 2, Portion(Cardinality(captioned), 10))

\* By time; of two readings of one time, which sort.Slice leaves in either order, the
\* lower one first.
Before(p, q) == p.at < q.at \/ (p.at = q.at /\ p.v < q.v)
InTime(points) ==
  [k \in 1..Cardinality(points) |->
     CHOOSE p \in points : Cardinality({q \in points : Before(q, p)}) = k - 1]

\* Readings of every platform and of the history in one series: a set, because
\* equal (time, value) readings are counted once.
GrowthSmoothness(snaps, history) ==
  LET points == history \cup UNION {s.points : s \in ToSet(snaps)}
      n == Cardinality(points)
      series == InTime(points)
      growth == [i \in 1..(n - 1) |->
                   ((series[i + 1].v - series[i].v) * One) \div (series[i].v + 1)]
  IN IF n < 3 THEN <<>>
     ELSE <<[value |-> One - 2 * Deviation(growth, 500), cover |-> Portion(n - 2, 10)]>>

CadenceRegularity(snaps) ==
  LET posts == PostsOf(snaps)
      times == Sorted(Positive([i \in 1..Len(posts) |-> posts[i].at]))
      gaps == Steps(times)
  IN IF Len(times) < 3 \/ Mean(gaps) <= 0 THEN <<>>
     ELSE <<[value |-> One - (Deviation(gaps, Mean(gaps)) * One) \div Mean(gaps),
             cover |-> Portion(Len(times) - 2, 10)]>>

FormatDiversity(snaps) ==
  LET posts == PostsOf(snaps)
      typed == {i \in 1..Len(posts) : posts[i].media # "none"}
      kinds == {posts[i].media : i \in typed}
  IN IF typed = {} THEN <<>>
     ELSE <<[value |-> Portion(Cardinality(kinds), 3), cover |-> Portion(Cardinality(typed), 8)]>>

\* The mean of the components that had data to look at.
ConsistencySubscore(snaps, history) ==
  LET seen == GrowthSmoothness(snaps, history) \o CadenceRegularity(snaps) \o FormatDiversity(snaps)
      n == Len(seen)
  IN IF n = 0 THEN Unmeasured
     ELSE Coverage(Mean([i \in 1..n |-> seen[i].value]), Mean([i \in 1..n |-> seen[i].cover]))
-----------------------------------------------------------------------------
(* The composite *)

BootstrapWeights == <<30, 30, 20, 20>>
WeightTotal(w) == w[1] + w[2] + w[3] + w[4]

\* What Composite gives when there is too little evidence for a score.
Withheld == [reason |-> "insufficient evidence"]

\* A surviving factor is drawn to the midpoint as far as its support is short.
Effective(sub) == Neutral * One + sub.support * (sub.value - Neutral)

Evidenced(w, f) == Take(f[1], w[1]) + Take(f[2], w[2]) + Take(f[3], w[3]) + Take(f[4], w[4])

\* Mutant of Composite: an unmeasured factor votes neutral at its full weight.
CompositeNeutralVote(w, f) ==
  LET value == w[1] * Effective(f[1]) + w[2] * Effective(f[2])
                 + w[3] * Effective(f[3]) + w[4] * Effective(f[4])
  IN [overall |-> Clamp01(value \div (WeightTotal(w) * One)),
      confidence |-> (w[1] * f[1].support + w[2] * f[2].support
                        + w[3] * f[3].support + w[4] * f[4].support) \div WeightTotal(w)]

\* The weighted mean over the factors that were measured; Withheld when less
\* than half of the weight rests on one.
Composite(w, f) ==
  LET evidenced == Evidenced(w, f)
      value == Take(f[1], w[1] * Effective(f[1])) + Take(f[2], w[2] * Effective(f[2]))
                 + Take(f[3], w[3] * Effective(f[3])) + Take(f[4], w[4] * Effective(f[4]))
      support == Take(f[1], w[1] * f[1].support) + Take(f[2], w[2] * f[2].support)
                   + Take(f[3], w[3] * f[3].support) + Take(f[4], w[4] * f[4].support)
  IN IF WeightTotal(w) <= 0 \/ 2 * evidenced < WeightTotal(w) THEN Withheld
     ELSE [overall |-> Clamp01(value \div (evidenced * One)),
           confidence |-> Clamp01(support \div WeightTotal(w))]

\* Mutant of FactorsOf: reach, retired by migration 000030, still scores points.
FactorsOfWithReach(in) ==
  <<EngagementAuthenticity(EngagementSubscore(in.snaps, in.bench), AuthenticitySubscore(in.fraud),
                           ContentSubscore(in.snaps), ReelsRetentionSubscore(in.snaps)),
    AudienceQualitySubscore(in.snaps),
    ConsistencySubscore(in.snaps, in.history),
    Coverage(Portion(MaxFollowers(in.snaps), 10000), One)>>

\* The four factors of an input [snaps, fraud, weights, bench, history].
FactorsOf(in) ==
  <<EngagementAuthenticity(EngagementSubscore(in.snaps, in.bench), AuthenticitySubscore(in.fraud),
                           ContentSubscore(in.snaps), ReelsRetentionSubscore(in.snaps)),
    AudienceQualitySubscore(in.snaps),
    ConsistencySubscore(in.snaps, in.history),
    BrandFitSubscore(in.snaps)>>

Compute(in) == Composite(in.weights, FactorsOf(in))
-----------------------------------------------------------------------------
(* How a persisted factor is shown *)

BandFor(value) ==
  IF value >= 660 THEN "strong" ELSE IF value >= 400 THEN "solid" ELSE "needs_work"

\* A factor nobody measured has an absence to disclose and no band.
FactorCard(i, sub) ==
  IF Measured(sub)
    THEN [availability |-> IF i = 4 THEN "modeled" ELSE "verified", band |-> BandFor(sub.value)]
    ELSE [availability |-> IF i = 2 THEN "not_available_at_size" ELSE "not_measured",
          band |-> "not_assessed"]
=============================================================================
