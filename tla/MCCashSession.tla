--------------------------- MODULE MCCashSession ---------------------------
(* Two openings sealed offline by one device and one made online, all of  *)
(* one register: every pair of them may meet there.                       *)
EXTENDS CashSession, TLC

CONSTANTS shop, back, walkIn, till, pos1, boss, cashier

MCOpening ==
  shop :> [register |-> till, device |-> pos1, owner |-> cashier, origin |-> "OFFLINE", cash |-> 1]
  @@ back :> [register |-> till, device |-> pos1, owner |-> boss, origin |-> "OFFLINE", cash |-> 0]
  @@ walkIn :> [register |-> till, device |-> pos1, owner |-> cashier, origin |-> "ONLINE", cash |-> 0]
MCAmount == {1}
=============================================================================
