CONSTANTS
  shop = shop
  back = back
  walkIn = walkIn
  till = till
  pos1 = pos1
  boss = boss
  cashier = cashier
  Session = {shop, back, walkIn}
  Register = {till}
  Device = {pos1}
  Actor = {boss, cashier}
  Manager = {boss}
  Opening <- MCOpening
  Amount <- MCAmount
  NoRow = NoRow
  MaxOperation = 3
  MaxAttempt = 2
  MaxCash = 1
SPECIFICATION CashSpec
INVARIANTS
  CashTypeOK
  OneActivePerRegister
  ClosureStillTrue
  ClosedByLastAttempt
  LateDataAccounted
CHECK_DEADLOCK FALSE
