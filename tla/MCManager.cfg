SPECIFICATION FairSpec
CONSTANTS
  u1 = u1
  NONE = NONE
  Users = {u1}
  NumFiles = 2
  MaxCalls = 2
  MaxTimeouts = 1
INVARIANTS
  IndexInRange
  StopHolds
  OnlyReportsDeadlock
PROPERTIES
  ManagerReturns
