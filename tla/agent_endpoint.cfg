SPECIFICATION Spec
CONSTANTS
  c1 = c1
  c2 = c2
  k1 = k1
  k2 = k2
  Fragment = Fragment
  Legacy = Legacy
  None = None
  Clients = {c1, c2}
  Keys = {k1, k2}
  CacheSize = 1
  LineCap = 2
  MaxTokens = 3
  MaxEdits = 2
  MaxStarts = 2
INVARIANTS
  OneExecution
  LinesAreServed
  StaleWriteRefused
SYMMETRY MCSymmetry
CHECK_DEADLOCK FALSE
