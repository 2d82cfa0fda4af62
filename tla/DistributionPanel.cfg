CONSTANTS
  w1 = w1
  d1 = d1
  d2 = d2
  m1 = m1
  m2 = m2
  near = near
  far = far
  f = f
  Workers <- MCWorkers
  NoWorker = NoWorker
  Designs <- MCDesigns
  SourceDesign = d1
  Matrices <- MCMatrices
  Present <- MCPresent
  Options <- MCOptions
  DefaultOption = near
  Files <- MCFiles
  MaxRevision = 1
  NoScenario = NoScenario
  NoFile = NoFile
  NoPlan = NoPlan
  NoMatrix = NoMatrix
  NoDialog = NoDialog
  NoJob = NoJob
SPECIFICATION Spec
INVARIANTS
  PlanAnswersRequest
  PanelFitsDocument
  ResultsDescribeScenario
  CleanIsStored
PROPERTIES
  SavesWhatIsOffered
