SPECIFICATION Spec
CONSTANTS
  Environments <- AllEnvironments
  Options <- AllOptions
  MaxOptions = 2
  Callers = {c1, c2}
  Own <- AllOwn
  MaxAttempts = 2
INVARIANTS
  SettingsLayered
  OwnHeaders
CHECK_DEADLOCK FALSE
