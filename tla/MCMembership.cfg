\* Owner and one guest, two invites, three requests at a time, as often as they like.
SPECIFICATION Spec
SYMMETRY Sym
CONSTANTS
  o = o
  g = g
  i1 = i1
  i2 = i2
  r1 = r1
  r2 = r2
  r3 = r3
  User <- Users
  Owner = o
  Invite <- Invites
  Request <- Requests
  NoUser = NoUser
  NoInvite = NoInvite
  NoOne = NoOne
INVARIANTS
  TypeOK
  OneOwner
  RevokedIsRevoked
  HintWasEarned
PROPERTIES
  JoinsSpendInvites
