SPECIFICATION FairSpec
CONSTANTS
  NbDevs = 2
  NbTrigs = 2
  Setups <- AllSetups
  MaxEvents = 3
INVARIANTS
  TypeOK
  OncePerEvent
  ArmedWhileOpen
  NoStrayInterrupt
  AllocatedIsLive
PROPERTIES
  FlagServed
