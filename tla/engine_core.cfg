SPECIFICATION Spec
CONSTANTS
  Workers = {w1, w2}
  Requests = {}
  Ops = {}
  Channels = {}
  FailureThresholds = {2}
  SuccessThresholds = {1}
  Overrun = TRUE
  MaxRetries = 0
  MaxQueue = 1
  MaxClock = 5
SYMMETRY Symmetry
INVARIANTS DownIffOpenIncident OutagesDisjoint
PROPERTIES EveryMeasurementRecorded StatusMovesForward StreakIsConsecutiveInOrder
CHECK_DEADLOCK FALSE
