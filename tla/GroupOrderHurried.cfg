SPECIFICATION GroupSpec
CONSTANTS
  MaxGid = 3
  MaxInFlight = 2
  Habits <- Movers
PROPERTY GroupsLeaveByDelete
