SPECIFICATION Spec
CONSTANTS
  u1 = u1
  u2 = u2
  Default = Default
  Blacklist = Blacklist
  Pending = Pending
  Uids <- TwoUids
  Groups <- ListedGroups
  Modes <- HurriedOnly
SYMMETRY UidSymmetry
INVARIANT FriendsMutual
