SPECIFICATION FairSpec
CONSTANTS
  NbSockets = 3
  NbConns = 2
  NbPeers = 3
  MaxReqs = 2
  Setups <- AllSetups
INVARIANTS
  QueueIsPool
  OwnRequests
  ServerRuns

  
CHECK_DEADLOCK FALSE
