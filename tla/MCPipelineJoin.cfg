SPECIFICATION Spec
CONSTANTS
  Peers = {"pg", "mqtt", "kafka"}
  NPipelines = 1
  Sources <- JoinSources
  Sinks <- JoinSinks
  Blocking = {}
  ChanCap = 2
  MaxEvents = 2
INVARIANTS
  ChannelInSourceOrder
  PanicOnlyInFailedSetup
PROPERTIES
  ImplementsDelivery
CHECK_DEADLOCK FALSE
