SPECIFICATION Spec
CONSTANTS
  Tables = {"test_stream", "other"}
  BufferSize = 1
  NetCap = 1
  MaxTxn = 2
  MaxRestarts = 0
INVARIANTS
  TruncateNamesItsTable
CHECK_DEADLOCK FALSE
