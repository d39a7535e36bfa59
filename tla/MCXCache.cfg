\* Eight keys on two to four leaves of four slots, two submodels; a lookup of
\* three leaves goes by RPC.
CONSTANTS
  N = 4
  MaxKey = 7
  Loads <- MCLoads
  Routers <- MCRouters
  Lines <- MCLines
  Curves <- MCCurves
  NumSub = 2
  kMaxBatch = 2
  Setups <- MCSetups
  MaxSlope = 2
  MaxShift = 2
SPECIFICATION FairSpec
INVARIANTS LabelsTranslate KeyInRange LookupSucceeds
PROPERTY TrainingEnds
