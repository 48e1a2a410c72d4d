\* Two bootstraps one after the other or at once, in every world.
SPECIFICATION FairSpec
CONSTANTS
  Runs = {r1, r2}
  NoRun = norun
  Earlier = earlier
  Worlds <- SomeWorlds
  Reserve = 1
  SolFloor = 1
  Wallets <- SomeWallets
INVARIANTS
  TypeOK
  OneWriter
  SingleJob
  OkIsExplained
PROPERTIES
  LeaseGivenBack
CHECK_DEADLOCK FALSE
