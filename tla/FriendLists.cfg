SPECIFICATION ListsSpec
CONSTANTS
  u1 = u1
  u2 = u2
  Default = Default
  Blacklist = Blacklist
  Pending = Pending
  Uids <- TwoUids
  Groups <- ListedGroups
  Modes <- CalmAndRough
  MaxGid = 4
  MaxInFlight = 1
  Habits <- MoversAndDeleters
  Worker = Worker
  Console = Console
  None = None
  c1 = c1
  c2 = c2
  x1 = x1
  x2 = x2
  Copies <- TwoCopies
  Changes <- TwoChanges
INVARIANTS
  TypeOK
  SoundWhenCalm
  GroupTypeOK
  ScreenAgrees
  SharedCopy
  NothingLost
PROPERTIES
  FriendsByConsent
  GroupsLeaveByDelete
  KickCompletes
