SPECIFICATION FairSpec
CONSTANTS
  PeerList <- ExamplePeers
  Registered = {"postgres", "mqtt", "kafka", "debug", "grpc", "nats"}
  Settings <- MCSettings
  Fills <- MCFills
  Nobody = "nobody"
INVARIANTS
  SentUnderOwnConfig
CHECK_DEADLOCK FALSE
