SPECIFICATION Spec
CONSTANTS
  Caller = Caller
  Callee = Callee
  None = None
  Settings <- CallSettings
  MaxPackets = 1
INVARIANTS
  TypeOK
  HeardBothWays
  DanglingAfterGivingUp
  KeysHaveOwners
PROPERTY WaitEnds
CHECK_DEADLOCK FALSE
