SPECIFICATION Spec
CONSTANTS
  Workers = {w1, w2}
  Requests = {h1}
  Ops <- AllOps
  Channels = {c1}
  FailureThresholds = {1}
  SuccessThresholds = {1}
  Overrun = FALSE
  MaxRetries = 1
  MaxQueue = 2
  MaxClock = 3
SYMMETRY Symmetry
INVARIANTS OneProbeAtATime ResolvedOnlyAfterOpened
CHECK_DEADLOCK FALSE
