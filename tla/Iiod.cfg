SPECIFICATION FairSpec
CONSTANTS
  PayloadLen = 2
  Setups <- AllSetups
  MaxInp = 2
INVARIANTS
  TypeOK
  ReplyWellFormed
  ReplyComplete
  InSync
  AllStored
  ChunksInPayload
PROPERTIES
  Answered
  StepReturns
  CloseStopsCyclic
CHECK_DEADLOCK FALSE
