SPECIFICATION Spec
CONSTANTS
  Monitors = {m1, m2}
  Rollups = {r1, r2}
  Hour = 2
  Day = 2
  Retention = 3
  PurgeWindow = 1
  Period = 3
  ResponseTimes = {0, 4}
  SampleSizes = {1, 2, 3, 19, 20, 21, 39, 40, 41, 60}
  MaxLag = 1
  MaxResults = 2
  MaxPurges = 1
  MaxDeletes = 1
  MaxTime = 5
SYMMETRY Symmetry
INVARIANTS TypeOK PercentileIsNearestRank SummariesExact StatisticsAgree
PROPERTY OnlyLateChecksAreLost
CHECK_DEADLOCK FALSE
