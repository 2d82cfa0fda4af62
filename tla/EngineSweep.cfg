CONSTANTS
  p1 = p1
  p2 = p2
  d1 = d1
  d2 = d2
  a1 = a1
  l1 = l1
  s1 = s1
  Procs <- MCProcs
  Designs <- MCDesigns
  Ports <- OnePort
  PlaneLayers <- MCLayers
  Need <- MCNeed
  Lists <- MCLists
  Stamps <- MCStamps
  None = None
  Unusable = Unusable
  NoReceipt = NoReceipt
  Torn = Torn
  Jobs = 2
  MaxMishaps = 1
SPECIFICATION Spec
INVARIANTS
  EntriesMatchTheirKey
  ReceiptNamesItsDesign
  OkIsWhole
  EveryEntryOnce
PROPERTIES
  SweepKeepsReceipts
  SweepEnds
