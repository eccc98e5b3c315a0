SPECIFICATION FairSpec
CONSTANTS
  Tables = {"a", "b"}
  BufferSize = 1
  NetCap = 1
  MaxTxn = 2
  MaxRestarts = 1
INVARIANTS
  ParseModeInSync
  EventsAreNamed
  NeverRedelivered
  SessionHasNoGap
  AckedWasReceived
PROPERTIES
  StatusIsSent
CHECK_DEADLOCK FALSE
