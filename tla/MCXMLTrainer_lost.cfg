\* A report between the snapshot and the end of a training.
CONSTANT MaxKey = 2
SPECIFICATION Spec
INVARIANT NoLostRetrain
CHECK_DEADLOCK FALSE
