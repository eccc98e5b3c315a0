SPECIFICATION MCSpec
CONSTANTS
  Requests = {r1, r2}
  Conns = {c1}
  Inputs <- MCInputs
  Configs <- MCConfigs
  Catalog <- MCCatalog
  Calls <- MCCalls
  Snapshots <- MCSnapshots
  MaxReloads = 1
  MaxFilterDepth = 2
INVARIANTS
  RunsAsItself
  ConnsGivenBack
  AnswerTellsEffect
  FilterMeansWhatItSays
  NoFilterTextIgnored
  WritesExactlyTheMatch
  
  CallPassesEveryArgument
  
PROPERTIES
  ReceivedIsAnswered
CHECK_DEADLOCK FALSE
