CONSTANTS
  w1 = w1
  w2 = w2
  Workers <- MCWorkers
  NoWorker = NoWorker
  LayerCount = 4
  CellCount <- MCCellCount
  PathElements <- MCPathElements
  CacheLimit = 3
  MaxNexts = 2
SPECIFICATION Spec
INVARIANTS
  BoardShowsChecked
  EveryCellOnce
  CacheIsAccounted
PROPERTIES
  EveryOperationEnds
  LoadOfAllEnds
CHECK_DEADLOCK FALSE
