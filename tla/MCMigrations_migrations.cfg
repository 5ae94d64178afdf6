SPECIFICATION FairMigrationsSpec
CONSTANTS
  i1 = i1 i2 = i2 i3 = i3
  Procs <- ThreeProcs
  ScriptLength = 3
  MaxDeaths = 2
CHECK_DEADLOCK FALSE
INVARIANTS MigrationsInv VersionIsEarned ReadyIsComplete
PROPERTIES EveryoneGetsReady
