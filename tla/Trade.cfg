CONSTANTS
  centre = centre
  north = north
  first = first
  second = second
  soap = soap
  t1 = t1
  t2 = t2
  Branch = {centre, north}
  Item = {soap}
  MaxQuantity = 1
  MaxDocuments = 3
  Session = {first, second}
  BranchOf <- MCBranchOf
  Opening <- MCOpening
  Tx = {t1, t2}
  NoSession = NoSession
SYMMETRY MCSymmetry
SPECIFICATION TradeSpec
INVARIANTS
  LedgerExplainsStock
  ShortageUnderReview
  CancelledNetsToZero
  InactiveBranchQuiet
CHECK_DEADLOCK FALSE
