\* Three calls and two retry passes, two periods, one fault.
CONSTANTS
  c1 = c1
  c2 = c2
  c3 = c3
  p1 = p1
  p2 = p2
  Call <- Calls
  Rejected = {c3}
  Pass <- Passes
  NoAnchor = NoAnchor
  Included = 1
  Limit = 2
  MonthLength = 2
  MaxTime = 1
  MaxFaults = 1
\* Every call has ended, the clock has stopped and nothing is left to report.
CHECK_DEADLOCK FALSE
SPECIFICATION MeteringSpec
INVARIANT TypeOK
INVARIANT AllowanceKept
PROPERTY ImplementsLedger
PROPERTY ChargesGetReported
