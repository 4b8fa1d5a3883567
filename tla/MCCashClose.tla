---------------------------- MODULE MCCashClose ----------------------------
(* One session opened offline by the cashier who closes it. *)
EXTENDS CashClose, TLC

CONSTANTS shop, till, pos1, cashier

MCOpening ==
  shop :> [register |-> till, device |-> pos1, owner |-> cashier, origin |-> "OFFLINE", cash |-> 0]
MCAmount == {1}
=============================================================================
