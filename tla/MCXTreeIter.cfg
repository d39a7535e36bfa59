\* Nodes of three slots: an odd N splits unevenly.
CONSTANTS
  N = 3
  MaxKey = 5
  IncarMod = 65536
  Threads = {t1}
  MaxLeaves = 20
  MaxPerKey = 1
SPECIFICATION IterSpec
INVARIANTS ScanExactlyOnce SortedScan
CHECK_DEADLOCK FALSE
