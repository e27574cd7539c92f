SPECIFICATION Spec
CONSTANTS
  Deliveries = {opened}
  Workers = {w1, w2}
  MaxRetries = 1
  ChannelEdits = FALSE
  MaxCopies = 0
  MaxCrashes = 1
PROPERTY NothingLeftToDo
CHECK_DEADLOCK FALSE
