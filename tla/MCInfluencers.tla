---------------------------- MODULE MCInfluencers ----------------------------
(* A small instance of Influencers: two profiles, two writers, one reader. *)
EXTENDS Influencers, TLC

\* A category, and a band the writes move profiles into and out of.
SomeFilters == {[niche |-> Null, tier |-> "micro"]}
  \cup {[niche |-> n, tier |-> Null] : n \in Niches}

InfluencersSymmetry == Permutations(Writers) \cup Permutations(Names)
=============================================================================
