SPECIFICATION Spec
CONSTANTS
  NodeSize = 3
  MaxSize = 5
  NumBytes = 6
  MaxChunk = 4
INVARIANTS
  ListSound
  SizesKept
PROPERTIES
  FifoSpec
