SPECIFICATION Spec
CONSTANTS
  s1 = s1
  s2 = s2
  NONE = NONE
  Senders = {s1, s2}
  Events <- ManagerEvents
  Length = 5
  MaxSends = 3
INVARIANTS
  NoSilentLoss
