CONSTANTS
  c0 = c0
  c1 = c1
  d0 = d0
  w0 = w0
  w1 = w1
  p = p
  q = q
  Client = {c0, c1, d0}
  Worker = {w0, w1}
  Proc = {p, q}
  Boot = {c0, d0}
  ServerOf <- MCServerOf
  SessionId <- MCSessionId
  ProcOf <- MCProcOf
  Word <- MCWord
  Coros = 1
  StationSize = 2
  RecvDepth <- MCRecvDepth
  Casts = {}
  MaxFaults = 1
  HalfBits = 3
  kMaxDPerW = 2
  kMaxOrderPD = 4
  NumberFile <- MCNumberFile
  OrderFile <- MCOrderFile
  RatingFile <- MCRatingFile
  MapFile <- MCMapFile
  Deployments <- Fitting
  LeafKeys = 2
  BufCells = 48
SPECIFICATION Spec
INVARIANTS CopyIsIndex LookupsAreRight ServerFailsOnlyByFault OrdersStayApart
PROPERTIES ClientEnds ServerEnds
CHECK_DEADLOCK FALSE
