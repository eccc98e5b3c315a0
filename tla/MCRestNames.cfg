SPECIFICATION MCSpec
CONSTANTS
  Requests = {r1, r2}
  Conns = {c1}
  Inputs <- MCInputs
  Configs <- MCConfigs
  Catalog <- MCCatalog
  Calls <- MCCalls
  Snapshots <- MCSnapshots
  MaxReloads = 1
  MaxFilterDepth = 2
INVARIANTS
  NamedArgumentsAccepted
CHECK_DEADLOCK FALSE
