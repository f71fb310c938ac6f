SPECIFICATION BridgeFairSpec
CONSTANTS
  player1 = player1
  Apps = {player1}
  MaxRescans = 2
  Nobody = Nobody
INVARIANTS
  BridgeInv
PROPERTIES
  BridgeSettles
