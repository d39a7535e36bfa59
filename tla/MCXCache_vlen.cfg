\* Values of variable length: the clients run core_eval_v.
CONSTANTS
  N = 4
  MaxKey = 7
  Loads <- MCLoads
  Routers <- MCRouters
  Lines <- MCLines
  Curves <- MCCurves
  NumSub = 2
  kMaxBatch = 2
  Setups <- VlenSetups
  MaxSlope = 2
  MaxShift = 0
SPECIFICATION Spec
INVARIANT LookupSucceeds
