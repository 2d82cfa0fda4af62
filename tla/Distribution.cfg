CONSTANTS
  a = a
  b = b
  c = c
  d = d
  r1 = r1
  r2 = r2
  r3 = r3
  m1 = m1
  v1 = v1
  v2 = v2
  v3 = v3
  v4 = v4
  g1 = g1
  g2 = g2
  g3 = g3
  g4 = g4
  k1 = k1
  Refdes <- MCRefdes
  Rails <- MCRails
  Nets <- MCNets
  Models <- MCModels
  NoModel = NoModel
  Vias <- MCVias
  Clusters <- MCClusters
  NoCluster = NoCluster
  Boards <- MCBoards
  MaxBatch = 4
  Unused = Unused
  Distance <- MCDistance
  NoRequest = NoRequest
  Requests <- MCRequests
  MaxRevision = 2
  Selections <- MCSelections
SPECIFICATION PlanSpec
INVARIANTS
  AlwaysAPlan
  PlanKeepsTable
  PlanIsBest
