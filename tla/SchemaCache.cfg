SPECIFICATION FairSpec
CONSTANTS
  Owners = {"rest", "peer"}
  MaxVersion = 3
  MaxLosses = 2
  MaxLoadErrors = 1
INVARIANTS
  VersionsInOrder
PROPERTIES
  HeardIsLoaded
  OwnerCatchesUp
  OwnerGetsInitialTables
  CloseEndsGoroutine
  OnlyAReadyReloadPanics
CHECK_DEADLOCK FALSE
