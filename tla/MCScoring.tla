----------------------------- MODULE MCScoring -----------------------------
(* Small instances of Scoring: what collection hands to it. *)
EXTENDS Scoring

CONSTANTS a1, a2, a3, p1, p2

\* Two audits of one influencer and one of another.
MCPersonOf == (a1 :> p1) @@ (a2 :> p1) @@ (a3 :> p2)
\* One profile names no niche at first, the other does.
MCProfile == (p1 :> "") @@ (p2 :> "fitness")

NoFraud == [present |-> FALSE, refined |-> Nothing, risk |-> Nothing, clique |-> Nothing,
            confidence |-> 0]

MCPost(likes, deep, at, media) ==
  [likes |-> likes, deep |-> deep, at |-> at, caption |-> "plain", media |-> media]

\* Readings of days before: the count of p2 grew by a tenth.
MCEarlier == (p1 :> {}) @@ (p2 :> {[at |-> 1, v |-> 4000], [at |-> 5, v |-> 4400]})

\* A creator with three posts, the reading of today and a full audience.
Live(followers, likes) ==
  [platform |-> "instagram", live |-> TRUE, followers |-> followers,
   posts |-> <<MCPost(likes, 10, 1, "reel"), MCPost(likes, 20, 3, "image"), MCPost(likes, 5, 6, "reel")>>,
   watch |-> <<12>>, points |-> {[at |-> 9, v |-> followers]}, audience |-> <<700, 600, 400>>]

\* An uploaded export of one post, without watch times, audience and types.
Upload(followers, likes) ==
  [Live(followers, likes) EXCEPT
    !.live = FALSE, !.watch = <<>>, !.audience = <<>>, !.points = {[at |-> 8, v |-> followers]},
    !.posts = <<MCPost(likes, 4, 6, "none")>>]

\* A channel without videos, which has subscribers and no followers: too little for a
\* score unless an attempt before read the other account.
Empty == [Live(0, 0) EXCEPT !.platform = "youtube", !.posts = <<>>, !.watch = <<>>,
                            !.points = {}, !.audience = <<>>]

Suspect == [NoFraud EXCEPT !.present = TRUE, !.risk = 300, !.confidence = 800]

MCPulls == [live |-> [snaps |-> <<Live(4400, 1300)>>, fraud |-> Suspect],
            upload |-> [snaps |-> <<Upload(20000, 300)>>, fraud |-> NoFraud],
            empty |-> [snaps |-> <<Empty>>, fraud |-> NoFraud]]

MCOffered == [a \in Audits |-> IF a = a3 THEN DOMAIN MCPulls ELSE {"live"}]

\* The band of the release before: active under version 1.
V1Rows == {Row(<<"default", t>>, 1, "bootstrap", BootstrapBand(t), 0, {}) : t \in ToSet(BootTiers)}

ScoringSymmetry == Permutations({a1, a2}) \cup Permutations(Nights)
=============================================================================
