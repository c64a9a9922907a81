\* Safety and liveness of the resumable pull.
CONSTANTS
  p1 = p1
  p2 = p2
  p3 = p3
  Page <- Pages
  MaxPagesPerCycle = 2
  MaxTime = 2
  MaxEdits = 2
  MaxFaults = 1
SPECIFICATION PullSpec
INVARIANT TypeOK
INVARIANT NoEditLost
PROPERTY EditsAreImported
