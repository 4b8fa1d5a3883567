SPECIFICATION FairSpec
CONSTANTS
  a1 = a1  s1 = s1  s2 = s2  o1 = o1  o2 = o2
  Tab = {t1}
  ThisDevice = d1
  Device = {d1}
  Actor = {a1}
  Session = {s1}
  Draft = {i1}
  Id = {i1, o1}
  Hash = {i1, o1}
  OpeningId <- MCOpeningId
  Command <- LiveCommand
  Envelope <- MCEnvelope
  Checkpoint <- MCCheckpoint
  Genesis = Genesis
  None = None
  MaxSequence = 3
  MaxFence = 2
  Sender = {f1, f2}
  BatchSize = 1
  Revocable = {a1}
  Returning = {a1}
  Refusable = {i1}
  MaxFaults = 1
PROPERTY EverySealIsAnswered
