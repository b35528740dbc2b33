SPECIFICATION CreateSpec
CONSTANTS
  Size = 4
  Modulus = 16
  NumBytes = 5
  MaxChunk = 6
  Sizes <- BoundarySizes
  Positions <- SomePositions
INVARIANTS
  CountsSound
PROPERTIES
  FifoSpec
  SizeSound
