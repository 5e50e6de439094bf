SPECIFICATION FairSpec
CONSTANTS
  Size = 3
  SpinMod = 2
  MaxRequest = 3
  MaxBytes = 8
  Preemptible = {}
  Checked = TRUE
  Abandons = {}
INVARIANTS
  TypeOK
  SizeExact
  ReadInOrder
PROPERTIES
  ImplementsStream
CHECK_DEADLOCK FALSE
