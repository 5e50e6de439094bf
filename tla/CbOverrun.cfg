SPECIFICATION FairSpec
CONSTANTS
  Size = 3
  SpinMod = 4
  MaxRequest = 3
  MaxBytes = 7
  Preemptible = {}
  Checked = FALSE
  Abandons = {}
INVARIANTS
  NoSpuriousOverrun
  ResyncOldest
CHECK_DEADLOCK FALSE
