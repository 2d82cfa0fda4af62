CONSTANTS
  s1 = s1
  s2 = s2
  s3 = s3
  Scenarios <- MCScenarios
  Torn = Torn
  NoArchive = NoArchive
SPECIFICATION Spec
SYMMETRY Symmetry
PROPERTIES
  OnlySavesChangeHeld
  NeverLosesScenario
  SaveKeepsPrevious
  LoadIsLinearizable
