SPECIFICATION Spec
CONSTANTS
  MaxInt = 30
  Converted = 30
  FloatBits = 2
  Policies <- OverflowPolicies
  Inherit = Inherit
  Timeouts = {2}
  Caps = {0}
  Replies <- OverflowReplies
  MaxClock = 8
  Preemptible = FALSE
INVARIANTS
  NoSleepPastBudget
CHECK_DEADLOCK FALSE
