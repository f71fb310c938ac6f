SPECIFICATION Spec
CONSTANTS
  a = a
  b = b
  c = c
  Null = Null
  Unborn = Unborn
  Gone = Gone
  Tasks = {a, b, c}
  Parent <- MCParent
  First = {a, c}
  MaxKept = 1
  MaxEdits = 2
  MaxRestores = 1
  Faults = {"write", "read", "restore", "reopen"}
INVARIANTS
  TextsInv
PROPERTIES
  NothingTypedIsLost
  LeavingSavesAll
  NoTextCrossesRestore
CHECK_DEADLOCK FALSE
