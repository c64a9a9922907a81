\* Liveness: a running cycle keeps running.
CONSTANTS
  w1 = w1
  w2 = w2
  zip = zip
  notion = notion
  repo = repo
  Worker <- Workers
  NoLease = NoLease
  AcquireTTL = 1
  HeartbeatTTL = 1
  MaxLease = 4
  MaxTime = 4
  Conn <- Rows
  Kind <- KindOf
  MaxHead = 1
  MaxFaults = 1
\* The clock and the users stop at their bounds, and with them the model.
CHECK_DEADLOCK FALSE
SPECIFICATION LivenessSpec
PROPERTY JobSettles
