SPECIFICATION Spec
CONSTANTS
  Labels = {1, 2, 3}
  OtherKinds = {"vision"}
  MaxOptions = 2
  MaxLevels = 2
  Junk <- JunkKeys
  Names = {1, 2}
  Pool <- DecodePool
  Wires <- NulledWires
  TopLevels <- DecodeTops
  Extras = {}
  MaxCalls = 1
INVARIANTS
  AnsweredInFull
CHECK_DEADLOCK FALSE
