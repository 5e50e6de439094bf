SPECIFICATION FairSpec
CONSTANTS
  Size = 3
  SpinMod = 2
  MaxRequest = 3
  MaxBytes = 5
  Preemptible = {"writer", "reader"}
  Checked = FALSE
  Abandons = {"writer", "reader"}
INVARIANTS
  InBounds
PROPERTIES
  CallsReturn
CHECK_DEADLOCK FALSE
