SPECIFICATION Spec
CONSTANTS
  Tabs = {t1, t2}
  Calls <- MCCalls
  MaxPairs = 3
  t1 = t1
  t2 = t2
  k1 = k1
  k2 = k2
SYMMETRY Symmetry
INVARIANTS TypeOK LoggedOutStaysOut
PROPERTY NoNeedlessLogin
CHECK_DEADLOCK FALSE
