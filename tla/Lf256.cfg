SPECIFICATION FairFifoSpec
CONSTANTS
  N = 4
  MaxAccepted = 11
PROPERTIES
  FifoImplementsStream
  RefusedWhenFull
  EventuallyTaken
CHECK_DEADLOCK FALSE
