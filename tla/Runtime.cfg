CONSTANTS
  x1 = x1
  s1 = s1
  s2 = s2
  r1 = r1
  r2 = r2
  NoJob = NoJob
  Worker = {w1, w2}
  Export = {x1}
  Account = {u1}
  Session = {s1, s2}
  Reset = {r1, r2}
  Agenda <- MCAgenda
  MaxAttempts = 2
  MaxClaims = 12
  MaxFaults = 1
SPECIFICATION RuntimeSpec
INVARIANTS
  NoSessionOutlivesReset
  ExportsAccounted
PROPERTIES
  OverForGood
  EverythingEnds
CHECK_DEADLOCK FALSE
