SPECIFICATION Spec
CONSTANTS
  Labels = {1, 2, 3}
  OtherKinds = {"vision"}
  MaxOptions = 2
  MaxLevels = 2
  Junk <- JunkKeys
  Names = {1}
  Pool <- DecodePool
  Wires <- DecodeWires
  TopLevels <- DecodeTops
  Extras <- OtherQuestions
  MaxCalls = 2
INVARIANTS
  TypeOK
  AnsweredInFull
  HonestAnswerDelivered
  FreshKeysRead
  FaultNamed
  LevelOffered
CHECK_DEADLOCK FALSE
