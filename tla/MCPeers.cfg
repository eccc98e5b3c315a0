SPECIFICATION PeersSpec
CONSTANTS
  PeerList <- ExamplePeers
  Registered = {"postgres", "mqtt", "kafka", "debug", "grpc", "nats"}
  Settings <- MCSettings
  Fills <- MCFills
  Nobody = "nobody"
  Cases <- MCCases
  Table <- MCTable
  EventsCap = 2
  SinkCap = 2
  NatsMessages = {"m1", "m2", "bad"}
  Undecodable = {"bad"}
  MaxDeliver = 3
  FetchSize = 2
  NatsCap = 1
  MaxLoss = 1
  MaxCrashes = 1
  GrpcEvents <- Changes
  Workers = {1, 2}
  Clients = {3, 4}
  GrpcCap = 1
  Window = 1
  Procs = {1, 2}
  Configs <- Replication
  AllTables <- MCTables
  Versions = {17, 18}
  Starred = {"*", "*_log"}
  Creatable <- LaterTables
INVARIANTS
  SentUnderLinkedConfig
  EveryLossHasACause
  ClientsShareInOrder
  MessageMeansItsEvents
  EachSinkItsOwnChain
  RowsAreLastImages
  
CHECK_DEADLOCK FALSE
