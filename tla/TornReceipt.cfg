CONSTANTS
  p1 = p1
  p2 = p2
  d1 = d1
  d2 = d2
  a1 = a1
  l1 = l1
  s1 = s1
  Procs <- MCProcs
  Designs <- MCDesigns
  Ports <- OnePort
  PlaneLayers <- MCLayers
  Need <- MCNeed
  Lists <- OneList
  Stamps <- MCStamps
  None = None
  Unusable = Unusable
  NoReceipt = NoReceipt
  Torn = Torn
  Jobs = 2
  MaxMishaps = 0
SPECIFICATION Spec
INVARIANT ResumeIsSafe
