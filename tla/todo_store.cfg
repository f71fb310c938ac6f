SPECIFICATION Spec
CONSTANTS
  short = short
  long = long
  blank = blank
  text = text
  a = a
  b = b
  c = c
  NoStore = NoStore
  Broken = Broken
  Unloaded = Unloaded
  Idle = Idle
  None = None
  Tasks = {a, b, c}
  Horizons = {short, long}
  Notes = {blank, text}
  Blank = blank
  MaxDepth = 2
  Limit = 2
  FirstStores <- MCFirstStores
  Faults = {"write", "read", "open", "backup", "migrate", "replace", "rot", "damage", "kill"}
  MaxGen = 2
  MaxStarts = 2
  MaxManual = 1
  MaxRot = 1
INVARIANTS
  ServedIsStored
  RestoreInputKept
PROPERTIES
  NoteKept
  WayBackKept
SYMMETRY MCSymmetry
CHECK_DEADLOCK FALSE
