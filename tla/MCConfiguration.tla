-------------------------- MODULE MCConfiguration --------------------------
(* A device shared by two users; one item. *)
EXTENDS Configuration, TLC

CONSTANTS d1, d2, a1, a2, a3

MCDeviceOf == [a \in Identity |-> IF a = a3 THEN d2 ELSE d1]

Symmetry == Permutations({a1, a2}) \cup Permutations(Currency) \cup Permutations(Kind)
=============================================================================
