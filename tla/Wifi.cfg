SPECIFICATION FairSpec
CONSTANTS
  NbConns = 2
  NbPeers = 2
  Setups <- AllSetups
INVARIANTS
  
  OwnPayload
PROPERTIES
  CommandsReturn
CHECK_DEADLOCK FALSE
