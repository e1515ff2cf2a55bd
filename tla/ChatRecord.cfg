SPECIFICATION RecordSpec
CONSTANTS
  None = None
  Times <- MessageTimes
  PageRows = 2
  Slots = 3
  Settings <- Readers
  MaxTurns = 2
INVARIANT RecordTypeOK
PROPERTY PagesAdjoin
CHECK_DEADLOCK FALSE
