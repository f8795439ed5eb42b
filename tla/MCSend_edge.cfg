SPECIFICATION Spec
CONSTANTS
  MaxInt = 30
  Converted <- MinInt
  FloatBits = 2
  Policies <- EdgePolicies
  Inherit = Inherit
  Timeouts = {1}
  Caps = {0}
  Replies <- EdgeReplies
  MaxClock = 8
  Preemptible = FALSE
INVARIANTS
  LongWishReturned
CHECK_DEADLOCK FALSE
