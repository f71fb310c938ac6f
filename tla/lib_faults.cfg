SPECIFICATION Spec
CONSTANTS
  official = official
  mocha1 = mocha1
  mocha2 = mocha2
  old = old
  t1 = t1
  t2 = t2
  None = None
  Revisions <- AllRevisions
  Builtins = {official}
  Legacy = {old}
  VersionOf <- Slots
  Txns = {t1, t2}
  CrashAt <- EveryCrash
  FailAt <- EveryFailure
  MaxCrashes = 1
INVARIANTS
  SelectionReady
  InstallAudited
  NoBytesLost
