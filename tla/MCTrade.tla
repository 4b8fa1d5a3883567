------------------------------- MODULE MCTrade -------------------------------
(* Two branches to transfer between, and two sessions, one after the other, *)
(* in the first of them: a sale of one is refunded in the other.            *)
EXTENDS Trade, TLC

CONSTANTS centre, north, first, second, soap, t1, t2

MCBranchOf == first :> centre @@ second :> centre
MCOpening == first :> 0 @@ second :> 0
MCSymmetry == Permutations(Tx) \cup Permutations(Session)
=============================================================================
