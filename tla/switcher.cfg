SPECIFICATION FairSpec
CONSTANTS
  cat = cat
  mocha = mocha
  Boot = Boot
  None = None
  Characters = {cat, mocha}
  Builtin = cat
  Runtimes = {1, 2, 3, 4, 5}
  Faults = {"kill", "read", "commit", "media", "paint", "writer", "journal", "unreadable", "ledger"}
  MaxGen = 2
  MaxStarts = 2
INVARIANTS
  TypeOK
  ShownIsAuthority
  CachesOwned
  LkgBehindActive
  AuditNeverLost
PROPERTIES
  LatestRequestWins
  HandlerReturns
CHECK_DEADLOCK FALSE
