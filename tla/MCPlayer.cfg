SPECIFICATION Spec
CONSTANTS
  p1 = p1
  p2 = p2
  c1 = c1
  c2 = c2
  NONE = NONE
  Players = {p1, p2}
  Callers = {c1, c2}
  NumSlots = 2
  Ops <- NoWaitFinish
  AutoChoices <- Auto
  MaxCalls = 3
  MaxTimeouts = 1
SYMMETRY Symmetry
INVARIANTS
  TypeOK
  CrossCallerHidden
  StopDoneMeansIdle
  AnswersKept
  Visible
  OnlyEndedStartsStarve
  DeviceKept
