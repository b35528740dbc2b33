SPECIFICATION PcmSpec
CONSTANTS
  p1 = p1
  p2 = p2
  d1 = d1
  d2 = d2
  NONE = NONE
  Users = {p1, p2}
  Feeders = {d1, d2}
  CanFail = TRUE
SYMMETRY Symmetry
INVARIANTS
  OneTask
  EndIsQuiet
  StopAnswered
  
