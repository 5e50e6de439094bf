SPECIFICATION FairSpec
CONSTANTS
  NbChannels = 4
  MaxJobs = 3
  Setups <- AllSetups
INVARIANTS
  SafeToAdd
  SyncComplete
PROPERTIES
  JobsEnd
CHECK_DEADLOCK FALSE
