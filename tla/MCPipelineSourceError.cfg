SPECIFICATION FairSpec
CONSTANTS
  Peers = {"pg", "grpc"}
  NPipelines = 1
  Sources <- OneSource
  Sinks <- OneSink
  Blocking = {}
  ChanCap = 1
  MaxEvents = 1
PROPERTIES
  SourceErrorEndsWait
CHECK_DEADLOCK FALSE
