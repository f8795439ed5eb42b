SPECIFICATION Spec
CONSTANTS
  MaxInt = 31
  Converted = 31
  FloatBits = 3
  MaxAttempt = 7
  MaxRunes = 5
  Limit = 6
INVARIANTS
  FullIsDoubled
  JitterLeavesDelay
  Explained
  FailuresListed
  CutAtRune
  ListingJudged
  GravestActionWins
CHECK_DEADLOCK FALSE
