\* Two threads, two coroutines each, the smallest station and the fewest receives
\* that suffice.
CONSTANTS
  c0 = c0
  c1 = c1
  w0 = w0
  w1 = w1
  Client = {c0, c1}
  Worker = {w0, w1}
  ServerOf <- MCServerOf
  SessionId <- MCSessionId
  Word = {73, 74}
  Coros = 2
  StationSize = 3
  RecvDepth <- MCRecvDepth
  Casts = {1}
  MaxFaults = 1
  Limit = 2
SPECIFICATION Spec
INVARIANTS OneInFlight SessionIsCurrent NullChannelNeedsFault NoOverflow
PROPERTIES ThreadEnds
CHECK_DEADLOCK FALSE
