CONSTANTS
  N = 3
  MaxKey = 5
  IncarMod = 4
  MaxPages = 3
  BatchSize = 2
  TableMod = 2
  Loads = {3, 5}
SPECIFICATION Spec
INVARIANTS TypeOK ReadIsRight SortedScanLive ScanLosesOnlyToSplits SplitIsAtomic
CHECK_DEADLOCK FALSE
