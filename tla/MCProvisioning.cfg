\* Two forms, one retry button, one webhook, one fault.
CONSTANTS
  f1 = f1
  f2 = f2
  s1 = s1
  s2 = s2
  Form <- TwoForms
  Retrier = {r1}
  Payer = {e1}
  Slot <- Slots
  Runtime = {1, 2, 3, 4, 5}
  Nobody = Nobody
  Provider = "local-docker"
  MaxAttempts = 2
  MaxRetries = 1
  MaxFaults = 1
\* A workspace that is ready or failed, and users that do nothing more.
CHECK_DEADLOCK FALSE
SPECIFICATION ProvisioningSpec
INVARIANT TypeOK
INVARIANT ReadyIsServed
INVARIANT FailedOnlyWhenGivenUp
INVARIANT PaidFirst
PROPERTY JobEnds
