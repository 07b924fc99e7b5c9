SPECIFICATION Spec
CONSTANTS
  Nothing = Nothing
  Audits = {a1, a2}
  a1 = a1
  a2 = a2
  Nodes = {n1, n2}
  n1 = n1
  n2 = n2
  Handles = {ig, yt}
  ig = ig
  yt = yt
  PlatformOf <- MCPlatformOf
  Removable = {ig}
  Requested <- MCRequested
  Start <- MCStart
  Deployments <- MCDeployments
  Offers <- MCOffers
  Uploads <- MCUploads
  ColumnLabels <- Labels
  RecentEnough = 2
  PostWindow = 3
  MaxRetry = 1
  MaxFaults = 1
  MaxPosts = 2
  PageSize = 1
  CommentPages = 2
  MaxComments = 1
SYMMETRY CollectionSymmetry
INVARIANT TypeOK
INVARIANT OneSalt
INVARIANT SucceededIsWhole
INVARIANT CostBoundsCalls
PROPERTY SummaryNeverDrops
