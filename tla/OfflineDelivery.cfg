SPECIFICATION Spec
CONSTANTS
  a1 = a1  s1 = s1  s2 = s2  o1 = o1  o2 = o2
  Tab = {t1}
  ThisDevice = d1
  Device = {d1}
  Actor = {a1, a2}
  Session = {s1, s2}
  Draft = {i1}
  Id = {i1, o1, o2}
  Hash = {i1, o1, o2}
  OpeningId <- MCOpeningId
  Command <- MCCommand
  Envelope <- MCEnvelope
  Checkpoint <- MCCheckpoint
  Genesis = Genesis
  None = None
  MaxSequence = 3
  MaxFence = 4
  Sender = {f1}
  BatchSize = 1
  Revocable <- MCRevocable
  Returning = {a1}
  Refusable = {o2}
  MaxFaults = 1
INVARIANTS DeletedOnlyWhenEffective HonestNeverRejected HonestKnowledgeRecordable
PROPERTY EffectsInOrderOnce
CONSTRAINT OneRevoked
