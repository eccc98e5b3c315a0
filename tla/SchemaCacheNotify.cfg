SPECIFICATION FairSpec
CONSTANTS
  Owners = {"peer"}
  MaxVersion = 2
  MaxLosses = 0
  MaxLoadErrors = 0
PROPERTIES
  NotifyReloads
CHECK_DEADLOCK FALSE
