CONSTANTS
  w1 = w1
  w2 = w2
  d0 = d0
  d1 = d1
  c0 = c0
  c1 = c1
  f1 = f1
  f2 = f2
  Workers <- MCWorkers
  NoWorker = NoWorker
  Designs <- MCDesigns
  SourceDesign = d0
  Colours <- MCColours
  SourceColour = c0
  Files <- MCOneFile
  MaxRevision = 2
  MaxFrames = 2
  RecolouredFrames = 2
  NoScenario = NoScenario
  NoFile = NoFile
  NoRequest = NoRequest
  NoJob = NoJob
  NoValue = NoValue
SPECIFICATION Spec
INVARIANT CleanMeansColoursStored
CHECK_DEADLOCK FALSE
