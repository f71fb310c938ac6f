SPECIFICATION PresenceFairSpec
CONSTANTS
  Causes <- MCCauses
INVARIANTS
  PresenceInv
PROPERTIES
  ObservationCompletes
CHECK_DEADLOCK FALSE
