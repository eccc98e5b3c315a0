SPECIFICATION LiveSpec
CONSTANTS
  Peers = {"pg", "grpc"}
  NPipelines = 1
  Sources <- OneSource
  Sinks <- OneSink
  Blocking = {"grpc"}
  ChanCap = 1
  MaxEvents = 4
PROPERTIES
  FanoutNeverStuck
  SignalEndsProcess
  FanoutReachesAll
CHECK_DEADLOCK FALSE
