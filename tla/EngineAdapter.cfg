CONSTANTS
  p1 = p1
  p2 = p2
  d1 = d1
  d2 = d2
  a1 = a1
  a2 = a2
  a3 = a3
  b = b
  x1 = x1
  x2 = x2
  x3 = x3
  x4 = x4
  x5 = x5
  m1 = m1
  m2 = m2
  Procs <- MCProcs
  Designs <- MCDesigns
  Ports <- MCPorts
  PlaneLayers <- MCLayers
  Need <- MCNeed
  None = None
  Unusable = Unusable
  Rails <- MCRails
  Refdes <- MCRefdes
  Models <- MCModels
  Home <- MCHome
  SpdModel <- MCSpdModel
  Scenarios <- MCScenarios
  PipeSize = 1
  NoProc = NoProc
  NoRequest = NoRequest
  MaxFaults = 1
SPECIFICATION Spec
INVARIANTS
  AnswerIsOfScenario
  NothingIsLeft
PROPERTIES
  RefusalIsReported
  CancelEnds
  SolveEnds
