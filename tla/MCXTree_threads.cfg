\* Two threads, nodes of four slots (half full is more than not empty), and a slab
\* that can run out.
CONSTANTS
  N = 4
  MaxKey = 8
  IncarMod = 65536
  Threads = {t1, t2}
  MaxLeaves = 5
  MaxPerKey = 1
  Window = 1
SPECIFICATION Spec
SYMMETRY Symmetry
INVARIANTS LeafOwnership LeavesHalfFull
ACTION_CONSTRAINT NearlyAscending
CHECK_DEADLOCK FALSE
