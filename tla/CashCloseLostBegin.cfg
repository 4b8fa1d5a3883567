CONSTANTS
  shop = shop
  till = till
  pos1 = pos1
  cashier = cashier
  Session = {shop}
  Register = {till}
  Device = {pos1}
  Actor = {cashier}
  Manager = {}
  Opening <- MCOpening
  Amount <- MCAmount
  NoRow = NoRow
  MaxOperation = 3
  MaxAttempt = 3
  MaxCash = 0
  Tab = {tab1}
  Cash = shop
  Cashier = cashier
  Losable = {"begin"}
  MaxKey = 3
SPECIFICATION CloseSpec
INVARIANTS
  NothingLeftBehind
CHECK_DEADLOCK FALSE
