SPECIFICATION Spec
CONSTANTS
  NbChannels = 4
  MaxJobs = 4
  Setups <- Single
INVARIANTS
  CallbackAfterAll
CHECK_DEADLOCK FALSE
