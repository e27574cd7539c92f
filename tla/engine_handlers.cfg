SPECIFICATION Spec
CONSTANTS
  Workers = {w1, w2}
  Requests = {h1}
  Ops <- EngineOps
  Channels = {c1}
  FailureThresholds = {1}
  SuccessThresholds = {1}
  Overrun = TRUE
  MaxRetries = 0
  MaxQueue = 1
  MaxClock = 3
SYMMETRY Symmetry
INVARIANT EngineInvariant
PROPERTY ImplementsOutageLog
CHECK_DEADLOCK FALSE
