------------------------- MODULE EnvelopeIngestion -------------------------
(***************************************************************************)
(* The server side of offline delivery: what one organization's database   *)
(* keeps of the sealed envelopes its POS devices push, and the transaction *)
(* that ingests one envelope (HistoricalDeliveryIngestion.ingest).         *)
(*                                                                         *)
(* A transaction takes the organization row FOR UPDATE first, so ingestion *)
(* and revocation checkpoints of one organization are serialized and each  *)
(* is one step here.  A transaction that throws, or that answers           *)
(* WAITING_DEPENDENCY or the stored acknowledgement, changes nothing: it   *)
(* is no step, and so is one whose business effect is refused.  Any        *)
(* envelope may arrive at any time, any number of times.                   *)
(***************************************************************************)
EXTENDS SealedOperation

CONSTANTS
  Envelope,     \* envelopes a device signed, citing a grant issued to it and the actor
  Checkpoint    \* revocation knowledge a device signed

ASSUME EnvelopeAssumption ==
  /\ Envelope \subseteq Operation
  /\ Checkpoint \subseteq Knowing

VARIABLES
  operations,      \* sync_operations: envelopes applied, all with status ACKED
  results,         \* offline_delivery_results: definitive answers, by device and id
  checkpoints,     \* offline_revocation_checkpoints: one per device and target
  revokedDevices,  \* devices with status REVOKED
  inactiveMembers  \* users whose membership is not ACTIVE

serverVars == <<operations, results, checkpoints, revokedDevices, inactiveMembers>>

ServerTypeOK ==
  /\ operations \subseteq Envelope
  /\ results \subseteq [envelope: Envelope, status: Status]
  /\ checkpoints \subseteq Checkpoint
  /\ revokedDevices \subseteq Device
  /\ inactiveMembers \subseteq Actor

ServerInit ==
  /\ operations = {}
  /\ results = {}
  /\ checkpoints = {}
  /\ revokedDevices = {}
  /\ inactiveMembers = {}

-----------------------------------------------------------------------------
(* Ordering: validateEnvelopeOrder over the persisted operations.          *)

Chain(d) == {f \in operations : f.device = d}

SessionChain(e) == {f \in Chain(e.device) : f.session = e.session /\ f.id # e.id}

(* Mutated form: two operations may share a sequence number. *)
LinkConflictNoFork(e) ==
  \/ \E f \in operations : f.id = e.id /\ f # e
  \/ e.seq = 1 /\ e.prev # Genesis
  \/ \E f \in Chain(e.device) : f.seq = e.seq - 1 /\ f.hash # e.prev

LinkConflict(e) ==
  \/ \E f \in operations : f.id = e.id /\ f # e
  \/ \E f \in Chain(e.device) : f.seq = e.seq /\ f.id # e.id
  \/ e.seq = 1 /\ e.prev # Genesis
  \/ \E f \in Chain(e.device) : f.seq = e.seq - 1 /\ f.hash # e.prev

MissingLink(e) == e.seq > 1 /\ ~ \E f \in Chain(e.device) : f.seq = e.seq - 1

SessionConflict(e) ==
  IF e.kind = "cash-session-open"
    THEN e.sessionSeq # 1 \/ SessionChain(e) # {}
    ELSE e.sessionSeq = 1 \/ \E f \in SessionChain(e) : f.sessionSeq = e.sessionSeq

(* Mutated form: the session's previous operation is not waited for. *)
MissingOpening(e) ==
  /\ e.kind = "sale-confirm"
  /\ ~ \E f \in SessionChain(e) : f.kind = "cash-session-open" /\ f.sessionSeq = 1

MissingSession(e) ==
  /\ e.kind = "sale-confirm"
  /\ \/ ~ \E f \in SessionChain(e) : f.kind = "cash-session-open" /\ f.sessionSeq = 1
     \/ ~ \E f \in SessionChain(e) : f.sessionSeq = e.sessionSeq - 1

SessionOverrun(e) ==
  /\ e.kind = "sale-confirm"
  /\ \E f \in SessionChain(e) : f.sessionSeq = e.sessionSeq - 1 /\ f.seq >= e.seq

(* Mutated form: nothing an envelope depends on is waited for. *)
ReadyAtOnce(e) ==
  /\ e \notin operations
  /\ ~ LinkConflict(e)
  /\ ~ SessionConflict(e)
  /\ ~ SessionOverrun(e)

Ready(e) ==
  /\ e \notin operations
  /\ ~ LinkConflict(e)
  /\ ~ MissingLink(e)
  /\ ~ SessionConflict(e)
  /\ ~ MissingSession(e)
  /\ ~ SessionOverrun(e)

(* WAITING_DEPENDENCY: what it depends on is not applied yet. *)
Waits(e) ==
  /\ e \notin operations
  /\ ~ LinkConflict(e)
  /\ MissingLink(e) \/ (~ SessionConflict(e) /\ MissingSession(e))

-----------------------------------------------------------------------------
(* Historical validation and revocation knowledge.                         *)

Knowledge(d, a) == {c \in checkpoints : c.device = d /\ c.target \in {"DEVICE", a}}

(* Mutated form: the operation at the cutoff itself is refused. *)
ValidatedBelow(e) ==
  /\ e.genuine
  /\ e.kind = "cash-session-open" <=> e.sessionSeq = 1
  /\ \A c \in Knowledge(e.device, e.actor) : e.seq < c.seq

(* HistoricalEnvelopeValidator.validate: an operation sealed after its     *)
(* device knew of a revocation of the device or of the actor is refused.   *)
Validated(e) ==
  /\ e.genuine
  /\ e.kind = "cash-session-open" <=> e.sessionSeq = 1
  /\ \A c \in Knowledge(e.device, e.actor) : e.seq <= c.seq

HeadAgrees(e) == \A c \in Knowledge(e.device, e.actor) : c.seq = e.seq => c.head = e.hash

(* Mutated form: only an acknowledgement counts as an answer. *)
Acknowledged(e) ==
  \E r \in results :
    r.envelope.device = e.device /\ r.envelope.id = e.id /\ r.status = "ACKED"

Answered(e) == \E r \in results : r.envelope.device = e.device /\ r.envelope.id = e.id

(* offline_sync_sessions binds a session identifier to one device.         *)
SessionIsOurs(e) == \A f \in operations : f.session = e.session => f.device = e.device

SecurityReject(e) ==
  /\ ~ Answered(e)
  /\ ~ Validated(e)
  /\ results' = results \cup {[envelope |-> e, status |-> "SECURITY_REJECTED"]}
  /\ UNCHANGED <<operations, checkpoints, revokedDevices, inactiveMembers>>

Apply(e) ==
  /\ ~ Answered(e)
  /\ Validated(e)
  /\ HeadAgrees(e)
  /\ Ready(e)
  /\ SessionIsOurs(e)
  /\ operations' = operations \cup {e}
  /\ results' = results \cup {[envelope |-> e, status |-> "ACKED"]}
  /\ UNCHANGED <<checkpoints, revokedDevices, inactiveMembers>>

(* recordRevocationCheckpoint.  A checkpoint must be about a target that is *)
(* revoked now; a second one of the target must repeat the first, and the  *)
(* first must cover all that was applied of the device.                    *)
TargetRevoked(d, t) == IF t = "DEVICE" THEN d \in revokedDevices ELSE t \in inactiveMembers

(* Mutated form: the head of the chain is not compared. *)
CoversLength(c) == \A f \in Chain(c.device) : f.seq <= c.seq

CoversChain(c) ==
  /\ c.seq = 0 => c.head = Genesis
  /\ \A f \in Chain(c.device) : f.seq <= c.seq /\ (f.seq = c.seq => f.hash = c.head)

SameTarget(c, k) == c.device = k.device /\ c.target = k.target

(* Mutated form: a later checkpoint may replace the stored one. *)
RecordableAgain(c) == TargetRevoked(c.device, c.target) /\ CoversChain(c)

Recordable(c) ==
  /\ TargetRevoked(c.device, c.target)
  /\ \A k \in checkpoints : SameTarget(c, k) => k = c
  /\ c \in checkpoints \/ CoversChain(c)

(* A push records the checkpoints it carries, or none of them, before its  *)
(* envelopes are ingested.                                                 *)
AllRecordable(pushed) ==
  /\ \A c \in pushed : Recordable(c)
  /\ \A c, k \in pushed : SameTarget(c, k) => c = k

RecordCheckpoints(pushed) ==
  /\ AllRecordable(pushed)
  /\ checkpoints' =
       {k \in checkpoints : ~ \E c \in pushed : SameTarget(c, k)} \cup pushed
  /\ UNCHANGED <<operations, results, revokedDevices, inactiveMembers>>

(* Administration.  Revoking a device is final; an inactive membership may  *)
(* be reactivated, or never be, as one that was revoked never is.           *)
RevokeDevice(d) ==
  /\ d \notin revokedDevices
  /\ revokedDevices' = revokedDevices \cup {d}
  /\ UNCHANGED <<operations, results, checkpoints, inactiveMembers>>

DeactivateMember(a) ==
  /\ a \notin inactiveMembers
  /\ inactiveMembers' = inactiveMembers \cup {a}
  /\ UNCHANGED <<operations, results, checkpoints, revokedDevices>>

ReactivateMember(a) ==
  /\ a \in inactiveMembers
  /\ inactiveMembers' = inactiveMembers \ {a}
  /\ UNCHANGED <<operations, results, checkpoints, revokedDevices>>

ServerNext ==
  \/ \E e \in Envelope : SecurityReject(e) \/ Apply(e)
  \/ \E pushed \in SUBSET Checkpoint : RecordCheckpoints(pushed)
  \/ \E d \in Device : RevokeDevice(d)
  \/ \E a \in Actor : DeactivateMember(a) \/ ReactivateMember(a)

ServerSpec == ServerInit /\ [][ServerNext]_serverVars

-----------------------------------------------------------------------------
(* Properties.                                                             *)

(* What is applied of a device is one unbroken, unforked hash chain from   *)
(* its first operation, in whatever order, however often and with whatever *)
(* conflicting copies envelopes arrive.                                    *)
ChainUnbroken ==
  /\ \A e, f \in operations : e.device = f.device /\ e.seq = f.seq => e = f
  /\ \A e \in operations : e.seq = 1 => e.prev = Genesis
  /\ \A e \in operations : e.seq > 1 =>
       \E f \in Chain(e.device) : f.seq = e.seq - 1 /\ f.hash = e.prev

(* A sale is applied only after the opening of its session and after the   *)
(* session's previous operation, from the same device.                     *)
SaleAfterOpening ==
  \A e \in operations : e.kind = "sale-confirm" =>
    /\ \E f \in Chain(e.device) :
         f.session = e.session /\ f.kind = "cash-session-open" /\ f.seq < e.seq
    /\ \E f \in Chain(e.device) :
         f.session = e.session /\ f.sessionSeq = e.sessionSeq - 1 /\ f.seq < e.seq

(* An operation identifier takes effect at most once in the organization,  *)
(* and the answer a device can still fetch says exactly whether its own    *)
(* envelope did.                                                           *)
AnswerMatchesEffect ==
  /\ \A e, f \in operations : e.id = f.id => e = f
  /\ \A e \in operations : [envelope |-> e, status |-> "ACKED"] \in results
  /\ \A r \in results : r.status = "ACKED" => r.envelope \in operations
  /\ \A r, q \in results :
       r.envelope.device = q.envelope.device /\ r.envelope.id = q.envelope.id => r = q

(* No recorded knowledge of a revocation is ever behind what was applied   *)
(* for the revoked device or user, and at the cutoff itself the applied    *)
(* operation is the one the checkpoint names.                              *)
NoEffectBeyondCutoff ==
  \A e \in operations : \A c \in Knowledge(e.device, e.actor) :
    e.seq <= c.seq /\ (e.seq = c.seq => e.hash = c.head)

(* The first knowledge point recorded for a target is never moved.         *)
CutoffNeverMoves ==
  [][\A c \in checkpoints, k \in checkpoints' :
       SameTarget(c, k) => c = k]_serverVars
=============================================================================
