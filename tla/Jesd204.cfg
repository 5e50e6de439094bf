SPECIFICATION Spec
CONSTANTS
  NbOps = 2
  Arrays <- AllArrays
INVARIANTS
  TransitionComplete
CHECK_DEADLOCK FALSE
