SPECIFICATION Spec
CONSTANTS
  Peers = {"pg", "kafka", "debug"}
  NPipelines = 2
  Sources <- SharedSources
  Sinks <- SharedSinks
  Blocking = {}
  ChanCap = 1
  MaxEvents = 2
INVARIANTS
  ProcessedAccounted
  OnePlacePerEvent
  PassedAccounted
  OffersAreSuffix
CHECK_DEADLOCK FALSE
