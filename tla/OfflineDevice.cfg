SPECIFICATION DeviceSpec
CONSTANTS
  a1 = a1  s1 = s1  s2 = s2  o1 = o1  o2 = o2
  Tab = {t1, t2}
  ThisDevice = d1
  Device = {d1}
  Actor = {a1}
  Session = {s1, s2}
  Draft = {i1, i2}
  Id = {i1, i2, o1, o2}
  Hash = {i1, i2, o1, o2}
  OpeningId <- MCOpeningId
  Command <- MCCommand
  Genesis = Genesis
  None = None
  MaxSequence = 3
  MaxFence = 5
SYMMETRY MCSymmetry
INVARIANTS
  OneChain
  NothingForgotten
  SessionsInOrder
  CashCountsSales
  SilentOnceKnown
  CheckpointStillTrue
