\* Two events, two deliveries at a time, one visit, one fault, one slow handler.
CONSTANTS
  s1 = s1
  e1 = e1
  e2 = e2
  d1 = d1
  d2 = d2
  u1 = u1
  Sub <- Subs
  Event <- Events
  Delivery <- Deliveries
  Visit <- Visits
  NotSent = NotSent
  NoEvent = NoEvent
  NoVersion = NoVersion
  MaxVersions = 2
  MaxFaults = 1
  MaxSlow = 1
\* When every event is acknowledged there is nothing left to do.
CHECK_DEADLOCK FALSE
SPECIFICATION FairSpec
INVARIANT TypeOK
PROPERTY ImplementsPaymentGate
INVARIANT PaidLeavesGate
INVARIANT ProcessedIsApplied
INVARIANT ClaimsExclude
PROPERTY EventsGetProcessed
