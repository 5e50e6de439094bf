SPECIFICATION Spec
CONSTANTS
  Tasks = {t1, t2, t3}
  Buses = {1, 2}
  MaxBuses = 3
  Setups <- AllSetups
SYMMETRY TaskSymmetry
INVARIANTS
  OneOnBus
  BusHeld
CHECK_DEADLOCK FALSE
