CONSTANTS
  a = a
  b = b
  c = c
  d = d
  r1 = r1
  r2 = r2
  r3 = r3
  n1 = n1
  n2 = n2
  m1 = m1
  v1 = v1
  v2 = v2
  v3 = v3
  g1 = g1
  g2 = g2
  g3 = g3
  k1 = k1
  Refdes <- MCRefdes
  Rails <- MCRails
  Nets <- MCNets
  Models <- MCModels
  NoModel = NoModel
  Vias <- MCVias
  Clusters <- MCClusters
  NoCluster = NoCluster
  Boards <- MCBoards
  MaxBatch = 4
SPECIFICATION Spec
INVARIANTS
  PreflightSuffices
  RailsNeverMeet
  EveryPadIsFed
  SourceIsReachable
