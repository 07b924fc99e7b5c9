----------------------------- MODULE MCConnections -----------------------------
EXTENDS Connections, TLC

CONSTANTS ig, yt

\* An Instagram account and a YouTube channel.
OneOfEach == ig :> "instagram" @@ yt :> "youtube"

\* Two Instagram accounts, for what a comment says of several accounts on one platform.
BothInstagram == ig :> "instagram" @@ yt :> "instagram"

\* The elements of each set are interchangeable: no property is temporal over them.
Symmetry ==
  Permutations(Users) \cup Permutations(Profiles)
  \cup Permutations(Flows) \cup Permutations(Calls)
=============================================================================
