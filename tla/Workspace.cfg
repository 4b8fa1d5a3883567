CONSTANTS
  ana = ana
  bea = bea
  caro = caro
  a0 = a0
  b0 = b0
  i1 = i1
  i2 = i2
  e1 = e1
  e2 = e2
  t1 = t1
  k1 = k1
  k2 = k2
  w1 = w1
  w2 = w2
  p1 = p1
  Nothing = Nothing
  NoJob = NoJob
  NoCode = NoCode
  Organization = Organization
  User = {ana, bea, caro}
  Founder = {a0, b0}
  UserOf <- MCUserOf
  Invitation = {i1, i2}
  Entry = {e1, e2}
  Code = {t1}
  Key = {k1, k2}
  Worker = {w1, w2}
  Agenda <- MCAgenda
  Tab = {p1}
  UserAt <- MCUserAt
  MaxOpen = 2
  MaxToken = 2
  MaxAttempts = 2
  MaxClaims = 2
SYMMETRY MCSymmetry
SPECIFICATION PagesSpec
INVARIANTS
  OwnerRemains
  NothingLostOrDoubled
  InvitationHonoured
  ShowsWhatItDid
PROPERTY
  NeverMailsDeadToken
  ActsOnWhatItShows
CHECK_DEADLOCK FALSE
