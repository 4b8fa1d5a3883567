-------------------------- MODULE MCOfflineDevice --------------------------
(* Two tabs of one device, and the commands of its pages that a run explores. *)
EXTENDS OfflineDevice, TLC

CONSTANTS s1, s2, o1, o2, a1

MCSymmetry == Permutations(Tab) \cup Permutations(Draft)

MCOpeningId == [s \in Session |-> IF s = s1 THEN o1 ELSE o2]

MCCommand ==
  [do: {"learn"}, target: {"DEVICE", a1}] \cup
  [do: {"freeze-session", "release", "complete"}, session: {s1}] \cup
  [do: {"checkpoint"}, actor: {a1}, session: {s1}] \cup
  [do: {"freeze-configuration"}]
=============================================================================
