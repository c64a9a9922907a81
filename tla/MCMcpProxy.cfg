\* What it takes to end a client.
CONSTANTS
  admin = admin
  member = member
  c1 = c1
  c2 = c2
  t1 = t1
  t2 = t2
  r1 = r1
  r2 = r2
  None = None
  User <- Users
  Admin <- Admins
  Client <- Clients
  Token <- Tokens
  Request <- Requests
SPECIFICATION Spec
SYMMETRY Symmetry
INVARIANT TypeOK
INVARIANT EndedIsCutOff
