SPECIFICATION FairSpec
CONSTANTS
  MaxInt = 100
  Converted = 100
  FloatBits = 2
  Policies <- CallPolicies
  Inherit = Inherit
  Timeouts = {0, 3}
  Caps = {0, 1, 100}
  Replies <- CallReplies
  MaxClock = 16
  Preemptible = FALSE
INVARIANTS
  TypeOK
  WholeBody
  WithinBudget
  NoSleepPastBudget
  OrdinalsOnWire
PROPERTIES
  ImplementsCall
  Returns
  SuccessKept
CHECK_DEADLOCK FALSE
