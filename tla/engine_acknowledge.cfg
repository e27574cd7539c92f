SPECIFICATION Spec
CONSTANTS
  Workers = {w1, w2}
  Requests = {h1}
  Ops = {"acknowledge"}
  Channels = {}
  FailureThresholds = {1}
  SuccessThresholds = {1}
  Overrun = TRUE
  MaxRetries = 0
  MaxQueue = 1
  MaxClock = 4
PROPERTY ResolvedIsTerminal
CHECK_DEADLOCK FALSE
