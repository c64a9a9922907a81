\* One worker, no fault, a clock that stands still.
CONSTANTS
  w1 = w1
  w2 = w2
  zip = zip
  notion = notion
  repo = repo
  Worker = {w1}
  NoLease = NoLease
  AcquireTTL = 1
  HeartbeatTTL = 1
  MaxLease = 2
  MaxTime = 1
  Conn <- Rows
  Kind <- KindOf
  MaxHead = 1
  MaxFaults = 0
\* The clock and the users stop at their bounds, and with them the model.
CHECK_DEADLOCK FALSE
SPECIFICATION NotionSpec
INVARIANT DisconnectedRowsDoNotCount
