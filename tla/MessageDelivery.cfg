SPECIFICATION Spec
CONSTANTS
  u1 = u1
  u2 = u2
  Uids <- TwoUids
  Limit = 1
  MaxMessages = 2
  MaxTime = 2
  MaxUnwritten = 1
SYMMETRY UidSymmetry
INVARIANTS
  TypeOK
  NothingMissed
  
  SentIsOnRecord
