SPECIFICATION Spec
CONSTANTS
  t1 = t1
  t2 = t2
  t3 = t3
  b1 = b1
  b2 = b2
  NONE = NONE
  Threads = {t1, t2, t3}
  Bits = {b1, b2}
SYMMETRY Symmetry
INVARIANTS
  SignalReaches
PROPERTIES
  EventGroupSpec
