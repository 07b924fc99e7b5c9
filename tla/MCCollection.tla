---------------------------- MODULE MCCollection ----------------------------
(* Small instances of Collection: the accounts platforms may answer with. *)
EXTENDS Collection, TLC

CONSTANTS a1, a2, n1, n2, ig, yt

MCPlatformOf == (ig :> "instagram") @@ (yt :> "youtube")
\* connectors.yaml as it ships, but for what is enabled.
Block(platform, on, refs, model, limits) ==
  [platform |-> platform, enabled |-> on, capabilities |-> {"profile"}, auth |-> "oauth2",
   refs |-> refs, model |-> model, limits |-> limits]
Client == {"client_id_env", "client_secret_env"}
YouTube(on) == Block("youtube", on, Refs, "quota_units", {"units"})
Meta(platform, on) == Block(platform, on, Client, "bucketed_calls", {"calls", "window"})
Deployment(connectors) ==
  [readable |-> TRUE, connectors |-> connectors, env |-> KnownPlatforms \X Refs, flowB |-> FALSE]

Live == Deployment(<<YouTube(TRUE), Meta("instagram", TRUE)>>)
\* As connectors.yaml ships: Instagram comes from uploads.
Shipped == Deployment(<<YouTube(TRUE), Meta("instagram", FALSE), Meta("facebook", FALSE)>>)
\* Nothing serves YouTube.
UploadsOnly == Deployment(<<YouTube(FALSE), Meta("instagram", FALSE)>>)
\* None of these boots: no builder, a missing credential, two blocks of a platform.
Unsound ==
  {Deployment(<<YouTube(TRUE), Meta("facebook", TRUE)>>), [Live EXCEPT !.env = {"youtube"} \X Refs],
   Deployment(<<YouTube(TRUE), YouTube(FALSE)>>)}
MCDeployments == {Live, Shipped, UploadsOnly} \cup Unsound
OnlyLive == {Live}

\* One audit takes every platform, the other asks for one.
MCRequested == (a1 :> {}) @@ (a2 :> {"youtube"})
MCStart == (a1 :> 10) @@ (a2 :> 20)

MCItem(id, at, label, threads) ==
  [id |-> id, at |-> at, label |-> label, mute |-> FALSE, threads |-> threads]

\* Two uploads on two pages, with more comments than the sample holds.
Channel ==
  [kind |-> "youtube", token |-> TRUE, followers |-> 500, audience |-> FALSE,
   pages |-> <<<<MCItem("v1", 1, "none", <<<<"x">>, <<"y">>>>)>>, <<MCItem("v2", 2, "none", <<<<"z">>>>)>>>>]

\* An account with an audience and nothing published, and one with two videos,
\* whose comments start on the last page: it takes every call CostOf counts.
Quiet ==
  [kind |-> "instagram", token |-> TRUE, followers |-> 500, audience |-> TRUE, pages |-> <<<<>>>>]
Lively ==
  [Quiet EXCEPT !.pages = <<<<MCItem("p1", 1, "VIDEO", <<<<>>, <<>>>>)>>,
                            <<MCItem("p2", 2, "VIDEO", <<<<>>, <<"y">>>>)>>>>]

MCOffers == (ig :> {Quiet, Lively}) @@ (yt :> {Channel})

\* The CHECK of migration 000009.
Labels == {"none", "image", "video", "carousel", "text", "story", "reel", "short"}

CsvRow(id, readable) == MCItem(id, 0, "none", <<>>) @@ [readable |-> readable]
NoUploads == <<>>
\* One that is refused, one of two posts, and a poorer one that names no followers.
MCUploads ==
  <<[followers |-> 900, rows |-> <<CsvRow("p1", FALSE)>>],
    [followers |-> 900, rows |-> <<CsvRow("p1", TRUE), CsvRow("p2", TRUE)>>],
    [followers |-> 0, rows |-> <<CsvRow("p1", TRUE)>>]>>

CollectionSymmetry == Permutations(Nodes)
=============================================================================
