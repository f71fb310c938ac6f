SPECIFICATION FairSpec
CONSTANTS
  Facts  <- MCFacts
  Kinds  <- MCKinds
  Bodies <- MCBodies
  Gated  <- MCGated
  Offered <- MCOffered
  Asked <- MCAsked
  None = None
INVARIANTS
  Inv
PROPERTIES
  Discipline
  RestEnds
CHECK_DEADLOCK TRUE
