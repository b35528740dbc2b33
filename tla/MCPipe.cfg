SPECIFICATION FairSpec
CONSTANTS
  p1 = p1
  d1 = d1
  NONE = NONE
  Users <- OneUser
  Feeders <- OneFeeder
  Player = p1
  Decoder = d1
  CanFail = TRUE
  Size = 3
  FrameSize = 2
  RequestSize = 2
  ChunkFrames = 2
  Chunks = 1
  MaxErrors = 2
  MaxSessions = 2
  MaxPauses = 1
INVARIANTS
  TypeOK
  NothingLeftOver
  CrashesOnlyInStops
PROPERTIES
  PausedHolds
  SoundIsHeard
  PipelineEnds
  StopReturns
