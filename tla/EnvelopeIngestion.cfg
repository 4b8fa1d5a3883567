SPECIFICATION ServerSpec
CONSTANTS
  d1 = d1  d2 = d2  a1 = a1  a2 = a2  s1 = s1  s2 = s2
  i1 = i1  i2 = i2  i3 = i3  i4 = i4  h1 = h1  h2 = h2  h3 = h3  h4 = h4
  Device = {d1, d2}
  Actor = {a1, a2}
  Id = {i1, i2, i3, i4}
  Session = {s1, s2}
  Hash = {h1, h2, h3, h4}
  Genesis = Genesis
  MaxSequence = 4
  Envelope <- MCEnvelope
  Checkpoint <- MCCheckpoint
INVARIANTS ChainUnbroken SaleAfterOpening AnswerMatchesEffect NoEffectBeyondCutoff
PROPERTY CutoffNeverMoves
