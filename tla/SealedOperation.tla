-------------------------- MODULE SealedOperation --------------------------
(***************************************************************************)
(* The vocabulary shared by the POS devices and the server: the operation  *)
(* a device seals and the revocation knowledge it signs.                   *)
(***************************************************************************)
EXTENDS Integers

CONSTANTS
  Device,       \* devices registered in the organization
  Actor,        \* users whose operations the devices seal
  Id,           \* operation identifiers (UUIDs chosen by devices)
  Session,      \* cash session identifiers (UUIDs chosen by devices)
  Hash,         \* operation hashes
  Genesis,      \* the previous hash of a device's first operation
  MaxSequence   \* the largest sequence counter the schema admits

ASSUME SequenceAssumption == MaxSequence \in Nat

Kind == {"cash-session-open", "sale-confirm"}

(* The revocation a checkpoint is about: the device itself, or one user.   *)
Target == {"DEVICE"} \cup Actor

(* A definitive answer, signed by the server.                              *)
Status == {"ACKED", "SECURITY_REJECTED"}

(* An opened envelope.  genuine says that its time, branch, configuration  *)
(* and payload agree with the grant and the history the server signed: a   *)
(* fact of the envelope, whenever it is examined.                          *)
Operation ==
  [id: Id, device: Device, actor: Actor, session: Session, kind: Kind,
   seq: 1..MaxSequence, sessionSeq: 1..MaxSequence,
   prev: Hash \cup {Genesis}, hash: Hash, genuine: BOOLEAN]

(* "When I learned of the revocation of target, my chain stood at seq."    *)
Knowing ==
  [device: Device, target: Target, seq: 0..MaxSequence, head: Hash \cup {Genesis}]
=============================================================================
