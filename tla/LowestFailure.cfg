SPECIFICATION Spec
CONSTANTS
  Keys = {1, 2, 3, 4}
  Targets = {t1, t2, t3, t4}
  Nothing = Nothing
INVARIANTS
  LowestReported
  NothingLost
CHECK_DEADLOCK FALSE
