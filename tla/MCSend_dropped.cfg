SPECIFICATION Spec
CONSTANTS
  MaxInt = 100
  Converted = 100
  FloatBits = 2
  Policies <- CallPolicies
  Inherit = Inherit
  Timeouts = {0, 3}
  Caps = {0}
  Replies <- CallReplies
  MaxClock = 16
  Preemptible = FALSE
INVARIANTS
  TransportMeansNoResponse
CHECK_DEADLOCK FALSE
