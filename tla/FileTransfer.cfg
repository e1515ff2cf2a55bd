SPECIFICATION Spec
CONSTANTS
  u1 = u1
  u2 = u2
  default = default
  file = file
  Absent = Absent
  Users <- TwoUsers
  Keys <- TwoKeys
  Chosen <- OneFile
  DefaultIcon = default
  Roster <- Everybody
  Pages <- OnePage
  MaxSessions = 1
  MaxLogins = 3
  MaxMishaps = 1
  Rough = TRUE
SYMMETRY UserSymmetry
INVARIANTS
  TypeOK
  AnnouncedIsStored
  FilesAreWhole
  TransfersGoOn
CHECK_DEADLOCK FALSE
