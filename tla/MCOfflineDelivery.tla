------------------------- MODULE MCOfflineDelivery -------------------------
(* One device with one sealing tab, what it sends, and the server. *)
EXTENDS OfflineDelivery

CONSTANTS s1, s2, o1, o2, a1

MCOpeningId == [s \in Session |-> IF s = s1 THEN o1 ELSE o2]

MCEnvelope == Operation
MCCheckpoint == Knowing
MCRevocable == {"DEVICE", a1}

(* Learning of a1's or the device's revocation; closing a1's session. *)
MCCommand ==
  [do: {"learn"}, target: {"DEVICE", a1}] \cup [do: {"complete"}, session: {s1}]

(* Learning of a1's revocation. *)
LiveCommand == [do: {"learn"}, target: {a1}]

(* Bound: the device and a1 are not revoked at the same time.  (The        *)
(* knowledge of one may still be there when the other is revoked.)         *)
OneRevoked ==
  ~ (TargetRevoked(ThisDevice, "DEVICE") /\ TargetRevoked(ThisDevice, a1))
=============================================================================
