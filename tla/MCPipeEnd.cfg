SPECIFICATION Spec
CONSTANTS
  p1 = p1
  d1 = d1
  NONE = NONE
  Users <- OneUser
  Feeders <- OneFeeder
  Player = p1
  Decoder = d1
  CanFail = FALSE
  Size = 3
  FrameSize = 2
  RequestSize = 2
  ChunkFrames = 2
  Chunks = 1
  MaxErrors = 2
  MaxSessions = 1
  MaxPauses = 0
PROPERTIES
  NoDataIsLeft
