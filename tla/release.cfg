SPECIFICATION Spec
CONSTANTS
  None = None
  c1 = c1
  c2 = c2
  t1 = t1
  t2 = t2
  Commits <- MCCommits
  Tools <- MCTools
  Locked = {t1}
  MaxEvents = 1
INVARIANTS
  GateInv
  PublishInv
SYMMETRY MCSymmetry
CHECK_DEADLOCK FALSE
