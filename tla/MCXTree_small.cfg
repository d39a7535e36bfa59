\* Nodes of two slots, every order of insertion: depth 3 is reached.
CONSTANTS
  N = 2
  MaxKey = 6
  IncarMod = 65536
  Threads = {t1}
  MaxLeaves = 20
  MaxPerKey = 1
  Window = 100
SPECIFICATION Spec
INVARIANTS TypeOK NoAssertFails LeafListSorted
PROPERTIES IncarnationGuardsMoves ImplementsMap
CHECK_DEADLOCK FALSE
