SPECIFICATION FairSpec
CONSTANTS
  p1 = p1
  p2 = p2
  c1 = c1
  c2 = c2
  NONE = NONE
  Players = {p1, p2}
  Callers = {c1, c2}
  NumSlots = 2
  Ops <- StartStopPause
  AutoChoices <- Auto
  MaxCalls = 2
  MaxTimeouts = 0
PROPERTIES
  CallsReturn
  FinishSeen
