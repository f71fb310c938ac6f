SPECIFICATION FairSpec
CONSTANTS
  official = official
  mocha1 = mocha1
  mocha2 = mocha2
  old = old
  t1 = t1
  t2 = t2
  None = None
  Revisions <- AllRevisions
  Builtins = {official}
  Legacy = {old}
  VersionOf <- Slots
  Txns = {t1, t2}
  CrashAt <- SafeCrashes
  FailAt <- PassingFailures
  MaxCrashes = 2
INVARIANTS
  TypeOK
  StoresAgree
PROPERTIES
  KeepsPromise
  RecoveryConverges
