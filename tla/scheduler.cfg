SPECIFICATION Spec
CONSTANTS
  Monitors = {m1, m2}
  Passes = {p1, p2}
  Requests = {h1}
  Ops = {"pause", "resume", "change_interval", "patch", "delete"}
  Intervals = {1, 2}
  BatchSizes = {1, 2}
  MaxEdits = 1
  MaxCrashes = 1
  MaxTime = 2
SYMMETRY Symmetry
INVARIANTS SchedulerInvariant OncePerInterval MostOverdueFirst
CHECK_DEADLOCK FALSE
