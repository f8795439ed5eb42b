SPECIFICATION Spec
CONSTANTS
  MaxInt = 100
  Converted = 100
  FloatBits = 2
  Policies <- HeaderPolicies
  Inherit = Inherit
  Timeouts = {1}
  Caps = {0}
  Replies <- HeaderReplies
  MaxClock = 8
  Preemptible = TRUE
INVARIANTS
  RetryAfterHonored
  ParkedUpToCap
  EarlyStopHasReason
  OneLateStart
CHECK_DEADLOCK FALSE
