----------------------- MODULE OfflineDelivery_proofs -----------------------
(***************************************************************************)
(* What the server promises of the envelopes it is sent, by whatever       *)
(* devices, and what device, requests and server promise together, for any *)
(* number of senders, any batch size and any loss or delay of requests.    *)
(*                                                                         *)
(* The server's properties are almost inductive together.  What they lack  *)
(* is that a device's applied sequence numbers have no gap                 *)
(* (PrefixApplied), without which an envelope could be applied behind an   *)
(* opening that its own chain puts after it, and that no two checkpoints   *)
(* share a device and a target.                                            *)
(*                                                                         *)
(* In the composition the server's part is that invariant and the device's *)
(* is OfflineDevice's; each step is a step of one of them.                 *)
(* What joins them: the server has applied a prefix of the log             *)
(* (AppliedPrefix); the answers on their way are about applied operations  *)
(* (AnswersTrue); everything the device signed still describes its chain,  *)
(* wherever a copy of it is (SignedTruth); and an envelope that lies       *)
(* beyond a signed cutoff travels only with that knowledge, or after it    *)
(* (KnowledgeFirst), which is why the knowledge is read after the rows.    *)
(***************************************************************************)
EXTENDS OfflineDelivery, OfflineDevice_proofs

-----------------------------------------------------------------------------
(* The ingestion of envelopes, alone.                                      *)

PrefixApplied ==
  \A f \in operations : \A n \in 1..f.seq : \E g \in Chain(f.device) : g.seq = n

OneCheckpoint ==
  \A c, k \in checkpoints : SameTarget(c, k) => c = k

ServerInv ==
  /\ ServerTypeOK
  /\ ChainUnbroken
  /\ PrefixApplied
  /\ SaleAfterOpening
  /\ AnswerMatchesEffect
  /\ NoEffectBeyondCutoff
  /\ OneCheckpoint

-----------------------------------------------------------------------------
(* An envelope's fields, as far as the proofs need them. *)
LEMMA EnvelopeFields ==
  ASSUME NEW e \in Envelope
  PROVE  /\ e.seq \in 1..MaxSequence
         /\ e.seq \in Nat
         /\ e.sessionSeq \in Nat
         /\ e.device \in Device
BY EnvelopeAssumption, SequenceAssumption DEF Operation

(* The operations a device has applied all precede one that is ready. *)
LEMMA ReadyExtendsChain ==
  ASSUME ServerInv, NEW e \in Envelope, Ready(e)
  PROVE  \A f \in Chain(e.device) : f.seq < e.seq
<1> SUFFICES ASSUME NEW f \in Chain(e.device), ~ (f.seq < e.seq)
             PROVE  FALSE
  OBVIOUS
<1>1. f \in operations /\ f \in Envelope /\ f.device = e.device
  BY DEF Chain, ServerInv, ServerTypeOK
<1>2. e.seq \in 1..f.seq
  BY <1>1, EnvelopeFields
<1>3. PICK g \in Chain(f.device) : g.seq = e.seq
  BY <1>1, <1>2 DEF ServerInv, PrefixApplied
<1>4. g.id = e.id
  BY <1>1, <1>3 DEF Ready, LinkConflict
<1>5. g = e
  BY <1>3, <1>4 DEF Ready, LinkConflict, Chain
<1> QED
  BY <1>3, <1>5 DEF Ready, Chain

-----------------------------------------------------------------------------
LEMMA InitInv == ServerInit => ServerInv
BY DEF ServerInit, ServerInv, ServerTypeOK, ChainUnbroken, PrefixApplied, SaleAfterOpening,
       AnswerMatchesEffect, NoEffectBeyondCutoff, OneCheckpoint, Chain, Knowledge

LEMMA RejectPreservesInv ==
  ASSUME ServerInv, NEW e \in Envelope, SecurityReject(e)
  PROVE  ServerInv'
<1> USE DEF SecurityReject
<1>1. ServerTypeOK'
  BY DEF ServerInv, ServerTypeOK, Status
<1>2. ChainUnbroken' /\ PrefixApplied' /\ SaleAfterOpening' /\ NoEffectBeyondCutoff' /\ OneCheckpoint'
  BY DEF ServerInv, ChainUnbroken, PrefixApplied, SaleAfterOpening, NoEffectBeyondCutoff,
         OneCheckpoint, Chain, Knowledge
<1>3. AnswerMatchesEffect'
  BY DEF ServerInv, AnswerMatchesEffect, Answered
<1> QED
  BY <1>1, <1>2, <1>3 DEF ServerInv

LEMMA ApplyPreservesInv ==
  ASSUME ServerInv, NEW e \in Envelope, Apply(e)
  PROVE  ServerInv'
<1> DEFINE r == [envelope |-> e, status |-> "ACKED"]
<1>1. /\ ~ Answered(e) /\ Validated(e) /\ HeadAgrees(e) /\ Ready(e)
      /\ operations' = operations \cup {e}
      /\ results' = results \cup {r}
      /\ checkpoints' = checkpoints
      /\ revokedDevices' = revokedDevices
      /\ inactiveMembers' = inactiveMembers
  BY DEF Apply
<1>2. ServerTypeOK'
  BY <1>1 DEF ServerInv, ServerTypeOK, Status
<1>3. \A f \in Chain(e.device) : f.seq < e.seq
  BY <1>1, ReadyExtendsChain
<1>4. \A f \in operations : f \in Envelope /\ f.seq \in Nat /\ f.sessionSeq \in Nat
  BY EnvelopeFields DEF ServerInv, ServerTypeOK
<1>5. e.seq \in Nat /\ e.seq >= 1 /\ e.sessionSeq \in Nat
  BY EnvelopeFields
<1>6. \A d : Chain(d) \subseteq Chain(d)' /\ Chain(d)' \subseteq Chain(d) \cup {e}
  BY <1>1 DEF Chain
<1>7. e \in Chain(e.device)'
  BY <1>1 DEF Chain
<1>8. ChainUnbroken'
  <2>1. \A f, g \in operations' : f.device = g.device /\ f.seq = g.seq => f = g
    BY <1>1, <1>3, <1>4, <1>5 DEF ServerInv, ChainUnbroken, Chain
  <2>2. \A f \in operations' : f.seq = 1 => f.prev = Genesis
    BY <1>1 DEF ServerInv, ChainUnbroken, Ready, LinkConflict
  <2>3. \A f \in operations' : f.seq > 1 =>
          \E g \in Chain(f.device)' : g.seq = f.seq - 1 /\ g.hash = f.prev
    <3> SUFFICES ASSUME NEW f \in operations', f.seq > 1
                 PROVE  \E g \in Chain(f.device)' : g.seq = f.seq - 1 /\ g.hash = f.prev
      OBVIOUS
    <3>1. CASE f \in operations
      BY <3>1, <1>6 DEF ServerInv, ChainUnbroken
    <3>2. CASE f = e
      BY <3>2, <1>1, <1>6 DEF Ready, MissingLink, LinkConflict
    <3> QED
      BY <3>1, <3>2, <1>1
  <2> QED
    BY <2>1, <2>2, <2>3 DEF ChainUnbroken, Chain
<1>9. PrefixApplied'
  <2> SUFFICES ASSUME NEW f \in operations', NEW n \in 1..f.seq
               PROVE  \E g \in Chain(f.device)' : g.seq = n
    BY DEF PrefixApplied, Chain
  <2>1. CASE f \in operations
    BY <2>1, <1>6 DEF ServerInv, PrefixApplied
  <2>2. CASE f = e /\ n = e.seq
    BY <2>2, <1>7
  <2>3. CASE f = e /\ n # e.seq
    <3>1. e.seq > 1 /\ n \in 1..(e.seq - 1)
      BY <2>3, <1>5
    <3>2. PICK p \in Chain(e.device) : p.seq = e.seq - 1
      BY <3>1, <1>1 DEF Ready, MissingLink
    <3>3. p \in operations /\ p.device = e.device
      BY <3>2 DEF Chain
    <3>4. \E g \in Chain(e.device) : g.seq = n
      BY <3>1, <3>2, <3>3 DEF ServerInv, PrefixApplied
    <3> QED
      BY <3>4, <2>3, <1>6
  <2> QED
    BY <2>1, <2>2, <2>3, <1>1
<1>10. SaleAfterOpening'
  <2> SUFFICES ASSUME NEW f \in operations', f.kind = "sale-confirm"
               PROVE  /\ \E g \in Chain(f.device)' :
                           g.session = f.session /\ g.kind = "cash-session-open" /\ g.seq < f.seq
                      /\ \E g \in Chain(f.device)' :
                           g.session = f.session /\ g.sessionSeq = f.sessionSeq - 1 /\ g.seq < f.seq
    BY DEF SaleAfterOpening, Chain
  <2>1. CASE f \in operations
    BY <2>1, <1>6 DEF ServerInv, SaleAfterOpening
  <2>2. CASE f = e
    <3>1. PICK o \in SessionChain(e) : o.kind = "cash-session-open"
      BY <2>2, <1>1 DEF Ready, MissingSession
    <3>2. PICK p \in SessionChain(e) : p.sessionSeq = e.sessionSeq - 1
      BY <2>2, <1>1 DEF Ready, MissingSession
    <3>3. /\ o \in Chain(e.device) /\ o.session = e.session /\ o.seq < e.seq
          /\ p \in Chain(e.device) /\ p.session = e.session /\ p.seq < e.seq
      BY <3>1, <3>2, <1>3 DEF SessionChain
    <3> QED
      BY <3>1, <3>2, <3>3, <2>2, <1>6
  <2> QED
    BY <2>1, <2>2, <1>1
<1>11. AnswerMatchesEffect'
  <2>1. \A f, g \in operations' : f.id = g.id => f = g
    BY <1>1 DEF ServerInv, AnswerMatchesEffect, Ready, LinkConflict
  <2>2. /\ \A f \in operations' : [envelope |-> f, status |-> "ACKED"] \in results'
        /\ \A q \in results' : q.status = "ACKED" => q.envelope \in operations'
    BY <1>1 DEF ServerInv, AnswerMatchesEffect
  <2>3. \A q, s \in results' :
          q.envelope.device = s.envelope.device /\ q.envelope.id = s.envelope.id => q = s
    BY <1>1 DEF ServerInv, AnswerMatchesEffect, Answered
  <2> QED
    BY <2>1, <2>2, <2>3 DEF AnswerMatchesEffect
<1>12. NoEffectBeyondCutoff'
  <2>1. \A d, a : Knowledge(d, a)' = Knowledge(d, a)
    BY <1>1 DEF Knowledge
  <2>2. \A c \in Knowledge(e.device, e.actor) :
          e.seq <= c.seq /\ (e.seq = c.seq => e.hash = c.head)
    BY <1>1 DEF Validated, HeadAgrees
  <2> QED
    BY <2>1, <2>2, <1>1 DEF ServerInv, NoEffectBeyondCutoff
<1>13. OneCheckpoint'
  BY <1>1 DEF ServerInv, OneCheckpoint
<1> QED
  BY <1>2, <1>8, <1>9, <1>10, <1>11, <1>12, <1>13 DEF ServerInv

LEMMA CheckpointsPreserveInv ==
  ASSUME ServerInv, NEW pushed \in SUBSET Checkpoint, RecordCheckpoints(pushed)
  PROVE  ServerInv'
<1>1. /\ \A c \in pushed : Recordable(c)
      /\ \A c, k \in pushed : SameTarget(c, k) => c = k
      /\ UNCHANGED <<operations, results, revokedDevices, inactiveMembers>>
  BY DEF RecordCheckpoints, AllRecordable
<1>2. checkpoints' = checkpoints \cup pushed
  BY <1>1 DEF RecordCheckpoints, Recordable, ServerInv, OneCheckpoint
<1>3. ServerTypeOK'
  BY <1>1, <1>2 DEF ServerInv, ServerTypeOK
<1>4. ChainUnbroken' /\ PrefixApplied' /\ SaleAfterOpening' /\ AnswerMatchesEffect'
  BY <1>1 DEF ServerInv, ChainUnbroken, PrefixApplied, SaleAfterOpening, AnswerMatchesEffect, Chain
<1>5. OneCheckpoint'
  BY <1>1, <1>2 DEF ServerInv, OneCheckpoint, Recordable, SameTarget
<1>6. NoEffectBeyondCutoff'
  <2> SUFFICES ASSUME NEW e \in operations, NEW k \in Knowledge(e.device, e.actor)'
               PROVE  e.seq <= k.seq /\ (e.seq = k.seq => e.hash = k.head)
    BY <1>1 DEF NoEffectBeyondCutoff
  <2>1. CASE k \in checkpoints
    BY <2>1 DEF ServerInv, NoEffectBeyondCutoff, Knowledge
  <2>2. CASE k \notin checkpoints
    <3>1. k \in pushed /\ k.device = e.device
      BY <2>2, <1>2 DEF Knowledge
    <3>2. CoversChain(k)
      BY <3>1, <2>2, <1>1 DEF Recordable
    <3> QED
      BY <3>1, <3>2 DEF CoversChain, Chain
  <2> QED
    BY <2>1, <2>2
<1> QED
  BY <1>3, <1>4, <1>5, <1>6 DEF ServerInv

LEMMA NextPreservesInv == ServerInv /\ [ServerNext]_serverVars => ServerInv'
<1> SUFFICES ASSUME ServerInv, [ServerNext]_serverVars
             PROVE  ServerInv'
  OBVIOUS
<1>1. ASSUME NEW e \in Envelope, SecurityReject(e) PROVE ServerInv'
  BY <1>1, RejectPreservesInv
<1>2. ASSUME NEW e \in Envelope, Apply(e) PROVE ServerInv'
  BY <1>2, ApplyPreservesInv
<1>3. ASSUME NEW pushed \in SUBSET Checkpoint, RecordCheckpoints(pushed) PROVE ServerInv'
  BY <1>3, CheckpointsPreserveInv
<1>4. ASSUME \/ \E d \in Device : RevokeDevice(d)
             \/ \E a \in Actor : DeactivateMember(a) \/ ReactivateMember(a)
             \/ UNCHANGED serverVars
      PROVE ServerInv'
  <2>1. /\ UNCHANGED <<operations, results, checkpoints>>
        /\ revokedDevices' \subseteq Device /\ inactiveMembers' \subseteq Actor
    BY <1>4 DEF RevokeDevice, DeactivateMember, ReactivateMember, serverVars, ServerInv,
           ServerTypeOK
  <2> QED
    BY <2>1 DEF ServerInv, ServerTypeOK, ChainUnbroken, PrefixApplied, SaleAfterOpening,
         AnswerMatchesEffect, NoEffectBeyondCutoff, OneCheckpoint, Chain, Knowledge
<1> QED
  BY <1>1, <1>2, <1>3, <1>4 DEF ServerNext

(* The invariant holds in every reachable state. *)
THEOREM Invariance == ServerSpec => []ServerInv
BY InitInv, NextPreservesInv, PTL DEF ServerSpec

-----------------------------------------------------------------------------
(* Every record of the five tables has the shape the schema gives it. *)
THEOREM TypeCorrect == ServerSpec => []ServerTypeOK
<1>1. ServerInv => ServerTypeOK
  BY DEF ServerInv
<1> QED
  BY Invariance, <1>1, PTL

(* Whatever arrives, what is applied of a device is one unforked hash chain. *)
THEOREM AppliedChainUnbroken == ServerSpec => []ChainUnbroken
<1>1. ServerInv => ChainUnbroken
  BY DEF ServerInv
<1> QED
  BY Invariance, <1>1, PTL

(* No sale takes effect before its session's opening and previous operation. *)
THEOREM SalesFollowOpening == ServerSpec => []SaleAfterOpening
<1>1. ServerInv => SaleAfterOpening
  BY DEF ServerInv
<1> QED
  BY Invariance, <1>1, PTL

(* Operations take effect once, and the stored answers tell exactly which did. *)
THEOREM AnswersTruthful == ServerSpec => []AnswerMatchesEffect
<1>1. ServerInv => AnswerMatchesEffect
  BY DEF ServerInv
<1> QED
  BY Invariance, <1>1, PTL

(* Nothing applied for a revoked target lies beyond its recorded cutoff. *)
THEOREM CutoffRespected == ServerSpec => []NoEffectBeyondCutoff
<1>1. ServerInv => NoEffectBeyondCutoff
  BY DEF ServerInv
<1> QED
  BY Invariance, <1>1, PTL

(* A recorded cutoff is never moved, so it cannot be raised to admit more. *)
THEOREM CutoffIrreversible == ServerSpec => CutoffNeverMoves
<1>1. ServerInv /\ [ServerNext]_serverVars =>
        [\A c \in checkpoints, k \in checkpoints' : SameTarget(c, k) => c = k]_serverVars
  <2> SUFFICES ASSUME ServerInv, [ServerNext]_serverVars,
                      NEW c \in checkpoints, NEW k \in checkpoints', SameTarget(c, k)
               PROVE  c = k
    OBVIOUS
  <2>1. CASE k \in checkpoints
    BY <2>1 DEF ServerInv, OneCheckpoint
  <2>2. CASE k \notin checkpoints
    <3>1. PICK pushed \in SUBSET Checkpoint : RecordCheckpoints(pushed)
      BY <2>2 DEF ServerNext, SecurityReject, Apply, RevokeDevice, DeactivateMember,
                  ReactivateMember, serverVars
    <3>2. k \in pushed /\ Recordable(k)
      BY <3>1, <2>2 DEF RecordCheckpoints, AllRecordable
    <3> QED
      BY <3>2 DEF Recordable, SameTarget
  <2> QED
    BY <2>1, <2>2
<1> QED
  BY Invariance, <1>1, PTL DEF ServerSpec, CutoffNeverMoves

-----------------------------------------------------------------------------
(* Device, requests and server together.                                   *)

Request ==
  [by: Sender \cup {None}, at: {"sent", "ingesting", "refused"}, envelopes: SUBSET Operation,
   knowledge: SUBSET Knowing, acks: SUBSET Answers]

SenderState(x) ==
  \/ x = Resting
  \/ x \in [at: {"pushing", "awaiting"}, rows: SUBSET Operation, progressed: BOOLEAN]
  \/ x \in [at: {"accepting"}, rows: SUBSET Operation, progressed: BOOLEAN, acks: SUBSET Answers]

(* The shape of what is on its way, and who waits for it. *)
Pending ==
  /\ sending = [f \in Sender |-> sending[f]]
  /\ \A f \in Sender : SenderState(sending[f])
  /\ requests \subseteq Request
  /\ faults \in 0..MaxFaults
  /\ \A r \in requests : r.by # None => sending[r.by].at = "awaiting"
  /\ \A r, q \in requests : r.by # None /\ r.by = q.by => r = q

(* Everything in the queue and on its way was sealed here. *)
SealedHere ==
  /\ \A o \in Logged : o.device = ThisDevice /\ o.genuine
  /\ queue \subseteq Logged
  /\ \A f \in Sender : sending[f] # Resting => sending[f].rows \subseteq Logged
  /\ \A r \in requests : r.envelopes \subseteq Logged

AppliedPrefix ==
  /\ IsFiniteSet(operations)
  /\ Cardinality(operations) <= Len(log)
  /\ operations = {log[n] : n \in 1..Cardinality(operations)}

AnswersTrue ==
  /\ \A r \in results : r.status = "ACKED"
  /\ \A r \in requests : \A a \in r.acks : a.op \in operations
  /\ \A f \in Sender : sending[f].at = "accepting" => \A a \in sending[f].acks : a.op \in operations
  /\ \A r \in receipts : \E o \in operations : o.id = r.id

Signed == knowledge \cup checkpoints \cup UNION {r.knowledge : r \in requests}

Truthful(k) ==
  /\ k \in Knowing /\ k.device = ThisDevice /\ k.seq <= Len(log)
  /\ k.head = HeadAt(k.seq)
  /\ \A o \in Logged : k.target \in {"DEVICE", o.actor} => o.seq <= k.seq
  /\ k \in knowledge \/ chain.wiped

SignedTruth ==
  /\ \A k \in Signed : Truthful(k)
  /\ \A k, l \in Signed : k.target = l.target => k = l

KnowledgeFirst ==
  /\ \A r \in requests : \A o \in r.envelopes, k \in Signed :
       k.seq < o.seq => k \in checkpoints \/ (r.at = "sent" /\ k \in r.knowledge)
  /\ \A o \in operations, k \in Signed : k.seq < o.seq => k \in checkpoints

DeliveryInv ==
  /\ DeviceInv /\ ServerInv
  /\ Pending
  /\ SealedHere
  /\ AppliedPrefix
  /\ AnswersTrue
  /\ SignedTruth
  /\ KnowledgeFirst

-----------------------------------------------------------------------------
(* The log, seen from the server. *)

(* Positions, sequence numbers and identifiers of the log agree. *)
LEMMA LogFacts ==
  ASSUME DeviceInv
  PROVE  /\ Len(log) \in Nat /\ chain.seq = Len(log) /\ chain.head = HeadAt(Len(log))
         /\ \A n \in 1..Len(log) : log[n] \in Logged /\ log[n].seq = n
         /\ \A o \in Logged : /\ o \in Operation /\ o.seq \in 1..Len(log) /\ log[o.seq] = o
                              /\ HeadAt(o.seq) = o.hash
         /\ \A o, p \in Logged : o.seq = p.seq => o = p
<1>1. /\ log \in Seq(Operation) /\ Len(log) \in Nat
      /\ chain.seq = Len(log) /\ chain.head = HeadAt(Len(log))
      /\ \A n \in 1..Len(log) : log[n].seq = n
  BY DEF DeviceInv, DeviceTypeOK, ChainMatchesLog
<1>2. \A n \in 1..Len(log) : log[n] \in Logged
  BY DEF Logged
<1>3. \A o \in Logged : o \in Operation /\ o.seq \in 1..Len(log) /\ log[o.seq] = o
  <2> TAKE o \in Logged
  <2>1. PICK n \in 1..Len(log) : log[n] = o
    BY <1>1, LoggedFinite
  <2> QED
    BY <1>1, <2>1, LoggedFinite
<1>4. \A o \in Logged : HeadAt(o.seq) = o.hash
  <2> TAKE o \in Logged
  <2>1. o.seq # 0 /\ log[o.seq] = o
    BY <1>1, <1>3
  <2> QED
    BY <2>1 DEF HeadAt
<1>5. \A o, p \in Logged : o.seq = p.seq => o = p
  BY <1>3
<1> QED
  BY <1>1, <1>2, <1>3, <1>4, <1>5

LEMMA IdsDistinct ==
  ASSUME DeviceInv, NEW o \in Logged, NEW p \in Logged, o.id = p.id
  PROVE  o = p
<1>1. /\ Len(log) \in Nat
      /\ \A n \in 1..Len(log) : log[n] \in Logged
      /\ \A q \in Logged : q.seq \in 1..Len(log) /\ log[q.seq] = q
  BY LogFacts
<1>2. IsFiniteSet(1..Len(log)) /\ Cardinality(1..Len(log)) = Len(log)
  <2>1. Len(log) \in Int /\ 1 \in Int /\ (1 <= Len(log) \/ Len(log) = 0)
    BY <1>1
  <2> QED
    BY <2>1, FS_Interval
<1> DEFINE I == {q.id : q \in Logged}
           f == [n \in 1..Len(log) |-> log[n].id]
<1>3. Cardinality(I) = Len(log)
  BY DEF DeviceInv
<1>4. f \in Surjection(1..Len(log), I)
  <2>1. f \in [1..Len(log) -> I]
    BY <1>1
  <2>2. \A i \in I : \E n \in 1..Len(log) : f[n] = i
    BY <1>1
  <2> QED
    BY <2>1, <2>2 DEF Surjection
<1> HIDE DEF I
<1>5. f \in Injection(1..Len(log), I)
  BY <1>2, <1>3, <1>4, FS_Surjection
<1>6. f[o.seq] = f[p.seq] /\ o.seq \in 1..Len(log) /\ p.seq \in 1..Len(log)
  BY <1>1
<1> HIDE DEF f
<1>7. o.seq = p.seq
  BY <1>5, <1>6 DEF Injection, IsInjective
<1> QED
  BY <1>1, <1>7

(* What the server applied is the beginning of the log. *)
LEMMA AppliedFacts ==
  ASSUME DeliveryInv
  PROVE  /\ Cardinality(operations) \in Nat
         /\ operations \subseteq Logged
         /\ \A o \in Logged : o \in operations <=> o.seq <= Cardinality(operations)
<1>1. Cardinality(operations) \in Nat /\ Cardinality(operations) <= Len(log)
  BY FS_CardinalityType DEF DeliveryInv, AppliedPrefix
<1>2. /\ Len(log) \in Nat
      /\ \A n \in 1..Len(log) : log[n] \in Logged /\ log[n].seq = n
      /\ \A o \in Logged : o.seq \in 1..Len(log) /\ log[o.seq] = o
  BY LogFacts DEF DeliveryInv
<1>3. \A o : o \in operations <=> \E n \in 1..Cardinality(operations) : log[n] = o
  BY DEF DeliveryInv, AppliedPrefix
<1>4. operations \subseteq Logged
  <2> SUFFICES ASSUME NEW o \in operations PROVE o \in Logged
    OBVIOUS
  <2>1. PICK n \in 1..Cardinality(operations) : log[n] = o
    BY <1>3
  <2>2. n \in 1..Len(log)
    BY <1>1, <1>2
  <2> QED
    BY <1>2, <2>1, <2>2
<1>5. ASSUME NEW o \in Logged PROVE o \in operations <=> o.seq <= Cardinality(operations)
  <2>1. ASSUME o \in operations PROVE o.seq <= Cardinality(operations)
    <3>1. PICK n \in 1..Cardinality(operations) : log[n] = o
      BY <1>3, <2>1
    <3>2. n \in 1..Len(log)
      BY <1>1, <1>2
    <3> QED
      BY <1>1, <1>2, <3>1, <3>2
  <2>2. ASSUME o.seq <= Cardinality(operations) PROVE o \in operations
    <3>1. o.seq \in 1..Cardinality(operations)
      BY <1>1, <1>2, <2>2
    <3> QED
      BY <1>2, <1>3, <3>1
  <2> QED
    BY <2>1, <2>2
<1> QED
  BY <1>1, <1>4, <1>5

LEMMA OurEnvelopes ==
  ASSUME DeliveryInv, NEW o \in Logged
  PROVE  o \in Envelope
BY LogFacts, DeliveryAssumption DEF DeliveryInv, SealedHere

-----------------------------------------------------------------------------
(* Steps of the device alone. *)

(* A step that seals nothing, whatever it forgets or learns; an answer it  *)
(* stores is about an applied operation.                                   *)
LEMMA DeviceKeepsDelivery ==
  ASSUME DeliveryInv, DeviceInv', ServerInv', KeepsLog, Pending',
         \A f \in Sender : sending'[f] # Resting => sending'[f].rows \subseteq Logged,
         \A f \in Sender : sending'[f].at = "accepting" =>
            \A a \in sending'[f].acks : a.op \in operations,
         \A r \in receipts' : \E o \in operations : o.id = r.id,
         UNCHANGED <<serverVars, requests>>
  PROVE  DeliveryInv'
<1>1. /\ log' = log /\ queue' \subseteq queue /\ operations' = operations /\ results' = results
      /\ checkpoints' = checkpoints
  BY DEF KeepsLog, serverVars
<1>2. Logged' = Logged
  BY <1>1 DEF Logged
<1>3. \A n : HeadAt(n)' = HeadAt(n)
  BY <1>1 DEF HeadAt
<1>4. SealedHere' /\ AppliedPrefix' /\ AnswersTrue'
  BY <1>1, <1>2 DEF DeliveryInv, SealedHere, AppliedPrefix, AnswersTrue
<1>5. /\ Len(log) \in Nat /\ chain.seq = Len(log) /\ chain.head = HeadAt(Len(log))
      /\ \A o \in Logged : o.seq \in 1..Len(log)
  BY LogFacts DEF DeliveryInv
<1>6. \A k \in Signed : Truthful(k)
  BY DEF DeliveryInv, SignedTruth
<1>7. chain.wiped => chain'.wiped
  BY DEF KeepsLog, SameChain
<1>8. ASSUME NEW k, Truthful(k), k \in knowledge' \/ ~ (k \in knowledge) \/ chain'.wiped
      PROVE  Truthful(k)'
  BY <1>1, <1>2, <1>3, <1>7, <1>8 DEF Truthful
<1>9. CASE knowledge' = knowledge \/ (knowledge' = {} /\ chain'.wiped)
  <2>1. Signed' \subseteq Signed
    BY <1>1, <1>9 DEF Signed
  <2>2. SignedTruth'
    BY <1>6, <1>8, <1>9, <2>1 DEF DeliveryInv, SignedTruth
  <2>3. KnowledgeFirst'
    BY <1>1, <2>1 DEF DeliveryInv, KnowledgeFirst
  <2> QED
    BY <1>4, <2>2, <2>3 DEF DeliveryInv
<1>10. ASSUME ~ chain.wiped,
              NEW k \in Knowing, k.device = ThisDevice, k.seq = chain.seq, k.head = chain.head,
              \A l \in knowledge : l.target # k.target, knowledge' = knowledge \cup {k}
       PROVE  DeliveryInv'
  <2>1. Signed' = Signed \cup {k}
    BY <1>1, <1>10 DEF Signed
  <2>2. Truthful(k)'
    BY <1>1, <1>2, <1>3, <1>5, <1>10 DEF Truthful
  <2>3. \A l \in Signed : l.target # k.target
    BY <1>6, <1>10 DEF Truthful
  <2>4. \A l \in Signed : Truthful(l)'
    BY <1>6, <1>8, <1>10
  <2>5. SignedTruth'
    BY <2>1, <2>2, <2>3, <2>4 DEF DeliveryInv, SignedTruth
  <2>6. \A o \in Logged : ~ (k.seq < o.seq)
    BY <1>5, <1>10
  <2>7. operations \subseteq Logged /\ \A r \in requests : r.envelopes \subseteq Logged
    BY AppliedFacts DEF DeliveryInv, SealedHere
  <2>8. KnowledgeFirst'
    BY <1>1, <2>1, <2>6, <2>7 DEF DeliveryInv, KnowledgeFirst
  <2> QED
    BY <1>4, <2>5, <2>8 DEF DeliveryInv
<1> QED
  BY <1>9, <1>10 DEF KeepsLog

(* A commit. *)
LEMMA SealingKeepsDelivery ==
  ASSUME DeliveryInv, DeviceInv', ServerInv', NEW o, Seals(o),
         UNCHANGED <<serverVars, sending, requests, faults>>
  PROVE  DeliveryInv'
<1>1. /\ log' = Append(log, o) /\ o \in Operation /\ queue' = queue \cup {o}
      /\ operations' = operations /\ results' = results /\ checkpoints' = checkpoints
      /\ receipts' = receipts /\ knowledge' = knowledge /\ chain'.wiped = chain.wiped
      /\ requests' = requests /\ sending' = sending
  BY DEF Seals, serverVars
<1>2. /\ Len(log) \in Nat /\ Len(log') = Len(log) + 1
      /\ \A n \in 1..Len(log) : log'[n] = log[n]
      /\ Logged' = Logged \cup {o}
  BY <1>1, AppendToLog DEF DeliveryInv, DeviceInv, DeviceTypeOK
<1>3. \A n \in 0..Len(log) : HeadAt(n)' = HeadAt(n)
  BY <1>2 DEF HeadAt
<1>4. Pending'
  BY <1>1 DEF DeliveryInv, Pending
<1>5. SealedHere'
  BY <1>1, <1>2 DEF DeliveryInv, SealedHere, Seals
<1>6. AppliedPrefix'
  <2>1. Cardinality(operations) \in Nat
    BY AppliedFacts
  <2>2. \A n \in 1..Cardinality(operations) : log'[n] = log[n]
    BY <1>2, <2>1 DEF DeliveryInv, AppliedPrefix
  <2>3. {log'[n] : n \in 1..Cardinality(operations)} = {log[n] : n \in 1..Cardinality(operations)}
    BY <2>2
  <2> QED
    BY <1>1, <1>2, <2>1, <2>3 DEF DeliveryInv, AppliedPrefix
<1>7. AnswersTrue'
  BY <1>1 DEF DeliveryInv, AnswersTrue
<1>8. Signed' = Signed
  BY <1>1 DEF Signed
<1>9. SignedTruth'
  <2> SUFFICES ASSUME NEW k \in Signed PROVE Truthful(k)'
    BY <1>8 DEF DeliveryInv, SignedTruth
  <2>1. Truthful(k)
    BY DEF DeliveryInv, SignedTruth
  <2>2. k.target \notin {"DEVICE", o.actor}
    BY <2>1 DEF Truthful, Seals, Identified, Revoked
  <2>3. k.seq \in 0..Len(log)
    BY <1>2, <2>1, SequenceAssumption DEF Truthful, Knowing
  <2>4. HeadAt(k.seq)' = HeadAt(k.seq)
    BY <1>3, <2>3
  <2> QED
    BY <1>1, <1>2, <2>1, <2>2, <2>3, <2>4 DEF Truthful
<1>10. KnowledgeFirst'
  BY <1>1, <1>8 DEF DeliveryInv, KnowledgeFirst
<1> QED
  BY <1>4, <1>5, <1>6, <1>7, <1>9, <1>10 DEF DeliveryInv

-----------------------------------------------------------------------------
(* Steps of a sender. *)

(* A step that leaves device and server alone: what a sender or request    *)
(* has, it had, or read from the device just now; a refused push has lost  *)
(* its envelopes and answers.                                              *)
LEMMA SenderKeepsDelivery ==
  ASSUME DeliveryInv, UNCHANGED <<deviceVars, serverVars>>, Pending',
         \A f \in Sender : sending'[f] # Resting => sending'[f].rows \subseteq Logged,
         \A f \in Sender : sending'[f].at = "accepting" =>
            \A a \in sending'[f].acks : a.op \in operations,
         \A r \in requests' :
           \/ \E q \in requests : /\ r.at = q.at /\ r.envelopes = q.envelopes
                                 /\ r.knowledge = q.knowledge /\ r.acks = q.acks
           \/ /\ ~ chain.wiped
              /\ r.at = "sent" /\ r.envelopes \subseteq Logged
              /\ r.knowledge = knowledge /\ r.acks = {}
           \/ /\ r.envelopes = {} /\ r.acks = {}
              /\ \E q \in requests : r.knowledge = q.knowledge
  PROVE  DeliveryInv'
<1>1. /\ UNCHANGED <<chain, queue, receipts, knowledge, log>>
      /\ UNCHANGED <<operations, results, checkpoints>>
  BY DEF deviceVars, serverVars
<1>2. DeviceInv' /\ ServerInv'
  BY DeviceStepInv, NextPreservesInv DEF DeliveryInv
<1>3. Logged' = Logged /\ \A n : HeadAt(n)' = HeadAt(n)
  BY <1>1 DEF Logged, HeadAt
<1>4. SealedHere' /\ AppliedPrefix' /\ AnswersTrue'
  <2>1. \A r \in requests' : r.envelopes \subseteq Logged /\ \A a \in r.acks : a.op \in operations
    BY DEF DeliveryInv, SealedHere, AnswersTrue
  <2> QED
    BY <1>1, <1>3, <2>1 DEF DeliveryInv, SealedHere, AppliedPrefix, AnswersTrue
<1>5. Signed' \subseteq Signed
  BY <1>1 DEF Signed
<1>6. \A k \in Signed : Truthful(k) /\ Truthful(k)' /\ (k \in knowledge \/ chain.wiped)
  BY <1>1, <1>3 DEF DeliveryInv, SignedTruth, Truthful
<1>7. SignedTruth'
  BY <1>5, <1>6 DEF DeliveryInv, SignedTruth
<1>8. KnowledgeFirst'
  <2>1. ASSUME NEW r \in requests', NEW o \in r.envelopes, NEW k \in Signed', k.seq < o.seq
        PROVE  k \in checkpoints \/ (r.at = "sent" /\ k \in r.knowledge)
    <3>1. CASE \E q \in requests : /\ r.at = q.at /\ r.envelopes = q.envelopes
                                   /\ r.knowledge = q.knowledge /\ r.acks = q.acks
      BY <1>5, <2>1, <3>1 DEF DeliveryInv, KnowledgeFirst
    <3>2. CASE ~ chain.wiped /\ r.at = "sent" /\ r.knowledge = knowledge
      BY <1>5, <1>6, <3>2
    <3>3. CASE r.envelopes = {}
      BY <2>1, <3>3
    <3> QED
      BY <3>1, <3>2, <3>3
  <2> QED
    BY <1>1, <1>5, <2>1 DEF DeliveryInv, KnowledgeFirst
<1> QED
  BY <1>2, <1>4, <1>7, <1>8 DEF DeliveryInv

LEMMA SendingWritten ==
  ASSUME Pending, NEW f \in Sender, NEW x, sending' = [sending EXCEPT ![f] = x]
  PROVE  /\ sending' = [g \in Sender |-> sending'[g]]
         /\ sending'[f] = x
         /\ \A g \in Sender \ {f} : sending'[g] = sending[g]
BY DEF Pending

(* Senders that are not mentioned keep their rows and answers. *)
LEMMA OthersKeep ==
  ASSUME DeliveryInv, NEW f \in Sender, \A g \in Sender \ {f} : sending'[g] = sending[g],
         sending'[f] # Resting => sending'[f].rows \subseteq Logged,
         sending'[f].at = "accepting" => \A a \in sending'[f].acks : a.op \in operations
  PROVE  /\ \A g \in Sender : sending'[g] # Resting => sending'[g].rows \subseteq Logged
         /\ \A g \in Sender : sending'[g].at = "accepting" =>
              \A a \in sending'[g].acks : a.op \in operations
BY DEF DeliveryInv, SealedHere, AnswersTrue

LEMMA PushingState ==
  ASSUME NEW R \in SUBSET Operation, NEW p \in BOOLEAN,
         NEW x, x = [at |-> "pushing", rows |-> R, progressed |-> p]
  PROVE  SenderState(x) /\ x.at = "pushing" /\ x.rows = R
BY DEF SenderState

LEMMA SenderFields ==
  ASSUME DeliveryInv, NEW f \in Sender
  PROVE  /\ SenderState(sending[f])
         /\ sending[f].at \in {"pushing", "awaiting", "accepting"} =>
              /\ sending[f] # Resting
              /\ sending[f].rows \subseteq Logged /\ sending[f].rows \subseteq Operation
              /\ sending[f].progressed \in BOOLEAN
         /\ sending[f].at = "accepting" => /\ sending[f].acks \subseteq Answers
                                          /\ \A a \in sending[f].acks : a.op \in operations
<1>1. SenderState(sending[f])
  BY DEF DeliveryInv, Pending
<1>2. sending[f] # Resting => sending[f].rows \subseteq Logged
  BY DEF DeliveryInv, SealedHere
<1>3. Resting.at = "resting"
  BY DEF Resting
<1>4. sending[f].at = "accepting" => \A a \in sending[f].acks : a.op \in operations
  BY DEF DeliveryInv, AnswersTrue
<1> QED
  BY <1>1, <1>2, <1>3, <1>4 DEF SenderState

(* A sender with no request on its way goes to another state without one.  *)
LEMMA NoRequestKeepsPending ==
  ASSUME DeliveryInv, NEW f \in Sender, sending[f].at # "awaiting",
         NEW x, SenderState(x), sending' = [sending EXCEPT ![f] = x],
         UNCHANGED <<requests, faults>>
  PROVE  Pending'
<1>1. \A r \in requests : r.by # f
  BY DeliveryAssumption DEF DeliveryInv, Pending
<1>2. /\ sending' = [g \in Sender |-> sending'[g]]
      /\ sending'[f] = x
      /\ \A g \in Sender \ {f} : sending'[g] = sending[g]
  BY SendingWritten DEF DeliveryInv
<1>3. \A r \in requests : r.by # None => r.by \in Sender \ {f}
  BY <1>1 DEF DeliveryInv, Pending, Request
<1> QED
  BY <1>2, <1>3 DEF DeliveryInv, Pending

LEMMA QueueIsSealed ==
  ASSUME DeliveryInv PROVE queue \subseteq Logged /\ queue \subseteq Operation
BY DEF DeliveryInv, SealedHere, DeviceInv, DeviceTypeOK

(* Requests that stay as they are. *)
LEMMA SameRequests ==
  ASSUME requests' = requests
  PROVE  \A r \in requests' : \E q \in requests :
           /\ r.at = q.at /\ r.envelopes = q.envelopes
           /\ r.knowledge = q.knowledge /\ r.acks = q.acks
OBVIOUS

LEMMA ReadRowsKeeps ==
  ASSUME DeliveryInv, NEW f \in Sender, ReadRows(f)
  PROVE  DeliveryInv'
<1> DEFINE x == IF queue = {} THEN Resting
                  ELSE [at |-> "pushing", rows |-> queue, progressed |-> FALSE]
<1>1. SenderState(x) /\ x.at # "accepting" /\ (x # Resting => x.rows = queue)
  <2>1. SenderState(Resting) /\ Resting.at # "accepting"
    BY DEF SenderState, Resting
  <2> QED
    BY <2>1, QueueIsSealed, PushingState
<1>2. /\ sending' = [sending EXCEPT ![f] = x]
      /\ sending[f].at # "awaiting"
      /\ UNCHANGED <<deviceVars, serverVars, requests, faults>>
  BY DEF ReadRows, Resting
<1> HIDE DEF x
<1>3. sending'[f] = x /\ \A g \in Sender \ {f} : sending'[g] = sending[g]
  BY <1>2, SendingWritten DEF DeliveryInv
<1>4. Pending'
  BY <1>1, <1>2, NoRequestKeepsPending
<1> QED
  BY <1>1, <1>2, <1>3, <1>4, OthersKeep, QueueIsSealed, SameRequests, SenderKeepsDelivery

LEMMA ContinueKeeps ==
  ASSUME DeliveryInv, NEW f \in Sender, Continue(f)
  PROVE  DeliveryInv'
<1> DEFINE x == IF sending[f].progressed /\ queue # {}
                  THEN [at |-> "pushing", rows |-> queue, progressed |-> FALSE] ELSE Resting
<1>1. SenderState(x) /\ x.at # "accepting" /\ (x # Resting => x.rows = queue)
  <2>1. SenderState(Resting) /\ Resting.at # "accepting"
    BY DEF SenderState, Resting
  <2> QED
    BY <2>1, QueueIsSealed, PushingState
<1>2. /\ sending' = [sending EXCEPT ![f] = x]
      /\ sending[f].at # "awaiting"
      /\ UNCHANGED <<deviceVars, serverVars, requests, faults>>
  BY DEF Continue
<1> HIDE DEF x
<1>3. sending'[f] = x /\ \A g \in Sender \ {f} : sending'[g] = sending[g]
  BY <1>2, SendingWritten DEF DeliveryInv
<1>4. Pending'
  BY <1>1, <1>2, NoRequestKeepsPending
<1> QED
  BY <1>1, <1>2, <1>3, <1>4, OthersKeep, QueueIsSealed, SameRequests, SenderKeepsDelivery

LEMMA NextBatchKeeps ==
  ASSUME DeliveryInv, NEW f \in Sender, NextBatch(f)
  PROVE  DeliveryInv'
<1> DEFINE x == [at |-> "pushing", rows |-> sending[f].rows, progressed |-> sending[f].progressed]
<1>0. /\ sending[f].at = "accepting"
      /\ sending' = [sending EXCEPT ![f] = x]
      /\ UNCHANGED <<deviceVars, serverVars, requests, faults>>
  BY DEF NextBatch
<1>1. /\ SenderState(x) /\ x.at = "pushing" /\ x.rows = sending[f].rows
      /\ sending[f].rows \subseteq Logged
  BY <1>0, SenderFields, PushingState
<1> HIDE DEF x
<1>3. sending'[f] = x /\ \A g \in Sender \ {f} : sending'[g] = sending[g]
  BY <1>0, SendingWritten DEF DeliveryInv
<1>4. Pending'
  BY <1>0, <1>1, NoRequestKeepsPending
<1> QED
  BY <1>0, <1>1, <1>3, <1>4, OthersKeep, SameRequests, SenderKeepsDelivery

LEMMA PushKeeps ==
  ASSUME DeliveryInv, NEW f \in Sender, Push(f)
  PROVE  DeliveryInv'
<1>1. PICK batch \in SUBSET sending[f].rows :
        /\ sending' = [sending EXCEPT ![f].at = "awaiting", ![f].rows = @ \ batch]
        /\ requests' = requests \cup
             {[by |-> f, at |-> "sent", envelopes |-> batch, knowledge |-> knowledge, acks |-> {}]}
  BY DEF Push
<1>2. /\ sending[f].at = "pushing" /\ ~ chain.wiped
      /\ UNCHANGED <<deviceVars, serverVars, faults>>
  BY DEF Push
<1>3. /\ sending[f] \in [at: {"pushing", "awaiting"}, rows: SUBSET Operation, progressed: BOOLEAN]
      /\ sending[f].rows \subseteq Logged /\ batch \subseteq Logged /\ batch \subseteq Operation
  BY <1>2, SenderFields DEF SenderState, Resting
<1> DEFINE x == [sending[f] EXCEPT !.at = "awaiting", !.rows = sending[f].rows \ batch]
           r == [by |-> f, at |-> "sent", envelopes |-> batch, knowledge |-> knowledge,
                 acks |-> {}]
<1>4. /\ SenderState(x) /\ x.at = "awaiting" /\ x.rows \subseteq Logged
  BY <1>3 DEF SenderState
<1>5. /\ r \in Request /\ r.by = f /\ r.at = "sent" /\ r.envelopes = batch
      /\ r.knowledge = knowledge /\ r.acks = {}
  BY <1>3 DEF Request, DeliveryInv, DeviceInv, DeviceTypeOK
<1>6. sending' = [sending EXCEPT ![f] = x] /\ requests' = requests \cup {r}
  BY <1>1 DEF DeliveryInv, Pending
<1> HIDE DEF x, r
<1>7. /\ sending' = [g \in Sender |-> sending'[g]]
      /\ sending'[f] = x /\ \A g \in Sender \ {f} : sending'[g] = sending[g]
  BY <1>6, SendingWritten DEF DeliveryInv
<1>8. \A q \in requests : q.by # f /\ (q.by # None => q.by \in Sender \ {f})
  BY <1>2, DeliveryAssumption DEF DeliveryInv, Pending, Request
<1>9. Pending'
  <2>1. requests' \subseteq Request /\ faults' \in 0..MaxFaults
    BY <1>2, <1>5, <1>6 DEF DeliveryInv, Pending
  <2>2. \A q \in requests' : q.by # None => sending'[q.by].at = "awaiting"
    BY <1>4, <1>5, <1>6, <1>7, <1>8 DEF DeliveryInv, Pending
  <2>3. \A p, q \in requests' : p.by # None /\ p.by = q.by => p = q
    BY <1>5, <1>6, <1>8 DEF DeliveryInv, Pending
  <2>4. \A g \in Sender : SenderState(sending'[g])
    BY <1>4, <1>7 DEF DeliveryInv, Pending
  <2> QED
    BY <1>7, <2>1, <2>2, <2>3, <2>4 DEF Pending
<1>10. \A q \in requests' : \/ \E p \in requests : p = q
                            \/ /\ ~ chain.wiped /\ q.at = "sent" /\ q.envelopes \subseteq Logged
                               /\ q.knowledge = knowledge /\ q.acks = {}
  BY <1>2, <1>3, <1>5, <1>6
<1>11. \A q \in requests' :
         \/ \E p \in requests : /\ q.at = p.at /\ q.envelopes = p.envelopes
                               /\ q.knowledge = p.knowledge /\ q.acks = p.acks
         \/ /\ ~ chain.wiped /\ q.at = "sent" /\ q.envelopes \subseteq Logged
            /\ q.knowledge = knowledge /\ q.acks = {}
  BY <1>10
<1>12. /\ \A g \in Sender : sending'[g] # Resting => sending'[g].rows \subseteq Logged
       /\ \A g \in Sender : sending'[g].at = "accepting" =>
            \A a \in sending'[g].acks : a.op \in operations
  BY <1>4, <1>7, OthersKeep
<1> QED
  BY <1>2, <1>9, <1>11, <1>12, SenderKeepsDelivery

LEMMA GiveUpKeeps ==
  ASSUME DeliveryInv, NEW f \in Sender, GiveUp(f)
  PROVE  DeliveryInv'
<1>1. /\ sending' = [sending EXCEPT ![f] = Resting]
      /\ faults > 0 /\ faults' = faults - 1
      /\ UNCHANGED <<deviceVars, serverVars>>
      /\ \/ requests' = {r \in requests : r.by # f}
         \/ requests' = {IF r.by = f THEN [r EXCEPT !.by = None] ELSE r : r \in requests}
  BY DEF GiveUp
<1>2. /\ sending' = [g \in Sender |-> sending'[g]]
      /\ sending'[f] = Resting /\ \A g \in Sender \ {f} : sending'[g] = sending[g]
  BY <1>1, SendingWritten DEF DeliveryInv
<1>3. \A r \in requests : r \in Request /\ [r EXCEPT !.by = None] \in Request
  BY DEF DeliveryInv, Pending, Request
<1>4. ASSUME NEW q \in requests'
      PROVE  /\ q \in Request /\ q.by # f
             /\ q.by # None => q \in requests
             /\ \E r \in requests : /\ q.at = r.at /\ q.envelopes = r.envelopes
                                  /\ q.knowledge = r.knowledge /\ q.acks = r.acks
  <2>1. CASE q \in requests /\ q.by # f
    BY <1>3, <2>1
  <2>2. CASE \E r \in requests : q = [r EXCEPT !.by = None]
    <3>1. PICK r \in requests : q = [r EXCEPT !.by = None]
      BY <2>2
    <3>2. /\ q.by = None /\ q.at = r.at /\ q.envelopes = r.envelopes
          /\ q.knowledge = r.knowledge /\ q.acks = r.acks
      BY <1>3, <3>1 DEF Request
    <3> QED
      BY <1>3, <3>1, <3>2, DeliveryAssumption
  <2> QED
    BY <1>1, <2>1, <2>2
<1>5. Pending'
  <2>1. \A g \in Sender : SenderState(sending'[g])
    BY <1>2 DEF DeliveryInv, Pending, SenderState
  <2>2. faults' \in 0..MaxFaults
    BY <1>1, DeliveryAssumption DEF DeliveryInv, Pending
  <2>3. \A q \in requests' : q.by # None => q.by \in Sender \ {f} /\ q \in requests
    BY <1>4 DEF Request
  <2>4. \A q \in requests' : q.by # None => sending'[q.by].at = "awaiting"
    BY <1>2, <2>3 DEF DeliveryInv, Pending
  <2>5. \A p, q \in requests' : p.by # None /\ p.by = q.by => p = q
    BY <2>3 DEF DeliveryInv, Pending
  <2> QED
    BY <1>2, <1>4, <2>1, <2>2, <2>4, <2>5 DEF Pending
<1>6. /\ \A g \in Sender : sending'[g] # Resting => sending'[g].rows \subseteq Logged
      /\ \A g \in Sender : sending'[g].at = "accepting" =>
           \A a \in sending'[g].acks : a.op \in operations
  BY <1>2, OthersKeep DEF Resting
<1> QED
  BY <1>1, <1>4, <1>5, <1>6, SenderKeepsDelivery

LEMMA ReceiveAcksKeeps ==
  ASSUME DeliveryInv, NEW f \in Sender, NEW r \in requests, ReceiveAcks(f, r)
  PROVE  DeliveryInv'
<1> DEFINE x == [at |-> "accepting", rows |-> sending[f].rows, progressed |-> sending[f].progressed,
                 acks |-> r.acks]
<1>1. /\ r.by = f /\ requests' = requests \ {r}
      /\ sending' = [sending EXCEPT ![f] = x]
      /\ UNCHANGED <<deviceVars, serverVars, faults>>
  BY DEF ReceiveAcks
<1>2. sending[f].at = "awaiting"
  BY <1>1, DeliveryAssumption DEF DeliveryInv, Pending
<1>3. /\ r.acks \subseteq Answers /\ \A a \in r.acks : a.op \in operations
  BY DEF DeliveryInv, Pending, Request, AnswersTrue
<1>4. /\ SenderState(x) /\ x.at = "accepting" /\ x.rows = sending[f].rows /\ x.acks = r.acks
      /\ sending[f].rows \subseteq Logged
  BY <1>2, <1>3, SenderFields DEF SenderState
<1> HIDE DEF x
<1>5. /\ sending' = [g \in Sender |-> sending'[g]]
      /\ sending'[f] = x /\ \A g \in Sender \ {f} : sending'[g] = sending[g]
  BY <1>1, SendingWritten DEF DeliveryInv
<1>6. \A q \in requests' : q \in requests /\ q.by # f
  BY <1>1, DeliveryAssumption DEF DeliveryInv, Pending
<1>7. Pending'
  <2>1. \A g \in Sender : SenderState(sending'[g])
    BY <1>4, <1>5 DEF DeliveryInv, Pending
  <2>2. \A q \in requests' : q.by # None => q.by \in Sender \ {f}
    BY <1>6 DEF DeliveryInv, Pending, Request
  <2> QED
    BY <1>1, <1>5, <1>6, <2>1, <2>2 DEF DeliveryInv, Pending
<1>8. /\ \A g \in Sender : sending'[g] # Resting => sending'[g].rows \subseteq Logged
      /\ \A g \in Sender : sending'[g].at = "accepting" =>
           \A a \in sending'[g].acks : a.op \in operations
  BY <1>3, <1>4, <1>5, OthersKeep
<1>9. \A q \in requests' : \E p \in requests :
        /\ q.at = p.at /\ q.envelopes = p.envelopes /\ q.knowledge = p.knowledge /\ q.acks = p.acks
  BY <1>6
<1> QED
  BY <1>1, <1>7, <1>8, <1>9, SenderKeepsDelivery

(* The sender of a refused push rests. *)
LEMMA ReceiveRefusalKeeps ==
  ASSUME DeliveryInv, NEW f \in Sender, NEW r \in requests, ReceiveRefusal(f, r)
  PROVE  DeliveryInv'
<1>1. /\ r.by = f /\ requests' = requests \ {r}
      /\ sending' = [sending EXCEPT ![f] = Resting]
      /\ UNCHANGED <<deviceVars, serverVars, faults>>
  BY DEF ReceiveRefusal
<1>2. SenderState(Resting) /\ Resting.at # "accepting"
  BY DEF SenderState, Resting
<1>3. /\ sending' = [g \in Sender |-> sending'[g]]
      /\ sending'[f] = Resting /\ \A g \in Sender \ {f} : sending'[g] = sending[g]
  BY <1>1, SendingWritten DEF DeliveryInv
<1>4. \A q \in requests' : q \in requests /\ q.by # f
  BY <1>1, DeliveryAssumption DEF DeliveryInv, Pending
<1>5. Pending'
  <2>1. \A g \in Sender : SenderState(sending'[g])
    BY <1>2, <1>3 DEF DeliveryInv, Pending
  <2>2. \A q \in requests' : q.by # None => q.by \in Sender \ {f}
    BY <1>4 DEF DeliveryInv, Pending, Request
  <2> QED
    BY <1>1, <1>3, <1>4, <2>1, <2>2 DEF DeliveryInv, Pending
<1>6. /\ \A g \in Sender : sending'[g] # Resting => sending'[g].rows \subseteq Logged
      /\ \A g \in Sender : sending'[g].at = "accepting" =>
           \A a \in sending'[g].acks : a.op \in operations
  BY <1>2, <1>3, OthersKeep
<1>7. \A q \in requests' : \E p \in requests :
        /\ q.at = p.at /\ q.envelopes = p.envelopes /\ q.knowledge = p.knowledge /\ q.acks = p.acks
  BY <1>4
<1> QED
  BY <1>1, <1>5, <1>6, <1>7, SenderKeepsDelivery

(* What happens around the delivery: events, and effects that come to be   *)
(* refused or are refused no longer.                                       *)
LEMMA SurroundingsKeep ==
  ASSUME DeliveryInv, UNCHANGED <<deviceVars, serverVars, sending, requests, faults>>
  PROVE  DeliveryInv'
<1>1. Pending'
  BY DEF DeliveryInv, Pending
<1>2. /\ \A g \in Sender : sending'[g] # Resting => sending'[g].rows \subseteq Logged
      /\ \A g \in Sender : sending'[g].at = "accepting" =>
           \A a \in sending'[g].acks : a.op \in operations
  BY DEF DeliveryInv, SealedHere, AnswersTrue
<1> QED
  BY <1>1, <1>2, SameRequests, SenderKeepsDelivery

(* An answer is taken: its row leaves the queue, unless it left before.    *)
LEMMA AcceptKeeps ==
  ASSUME DeliveryInv, NEW f \in Sender, NEW a \in sending[f].acks, Accept(f, a)
  PROVE  DeliveryInv' /\ (AcceptAck(a.op, a.status) \/ UNCHANGED deviceVars)
         /\ a.op \in operations /\ a.status \in Status
<1> DEFINE x == [sending[f] EXCEPT !.acks = @ \ {a}, !.progressed = @ \/ a.op \in queue]
<1>1. /\ sending[f].at = "accepting"
      /\ sending' = [sending EXCEPT ![f] = x]
      /\ UNCHANGED <<serverVars, requests, faults>>
  BY DEF Accept, DeliveryInv, Pending
<1>2. /\ sending[f] \in [at: {"accepting"}, rows: SUBSET Operation, progressed: BOOLEAN,
                         acks: SUBSET Answers]
      /\ sending[f].rows \subseteq Logged
      /\ \A b \in sending[f].acks : b.op \in operations
  BY <1>1, SenderFields DEF SenderState, Resting
<1>3. a.op \in operations /\ a.status \in Status
  BY <1>2 DEF Answers
<1>4. /\ SenderState(x) /\ x.at = "accepting" /\ x.rows = sending[f].rows
      /\ x.acks \subseteq sending[f].acks
  BY <1>2 DEF SenderState
<1> HIDE DEF x
<1>5. sending'[f] = x /\ \A g \in Sender \ {f} : sending'[g] = sending[g]
  BY <1>1, SendingWritten DEF DeliveryInv
<1>6. Pending'
  BY <1>1, <1>4, NoRequestKeepsPending
<1>7. /\ \A g \in Sender : sending'[g] # Resting => sending'[g].rows \subseteq Logged
      /\ \A g \in Sender : sending'[g].at = "accepting" =>
           \A b \in sending'[g].acks : b.op \in operations
  BY <1>2, <1>4, <1>5, OthersKeep
<1>8. CASE a.op \in queue
  <2>1. AcceptAck(a.op, a.status)
    BY <1>8 DEF Accept
  <2>2. DeviceNext /\ KeepsLog
    BY <1>3, <1>8, <2>1, AcceptAckKeeps DEF DeviceNext, DeliveryInv
  <2>3. DeviceInv' /\ ServerInv'
    BY <1>1, <2>2, DeviceStepInv, NextPreservesInv DEF DeliveryInv
  <2>4. \A r \in receipts' : \E o \in operations : o.id = r.id
    <3>1. receipts' = receipts \cup {[id |-> a.op.id, status |-> a.status]}
      BY <2>1 DEF AcceptAck
    <3> QED
      BY <1>3, <3>1 DEF DeliveryInv, AnswersTrue
  <2> QED
    BY <1>1, <1>3, <1>6, <1>7, <2>1, <2>2, <2>3, <2>4, DeviceKeepsDelivery
<1>9. CASE a.op \notin queue
  <2>1. UNCHANGED deviceVars
    BY <1>9 DEF Accept
  <2> QED
    BY <1>1, <1>3, <1>6, <1>7, <2>1, SameRequests, SenderKeepsDelivery
<1> QED
  BY <1>8, <1>9

-----------------------------------------------------------------------------
(* Steps of the server. *)

(* The server finds nothing wrong with what was sealed here. *)
LEMMA HonestValid ==
  ASSUME DeliveryInv, NEW o \in Logged
  PROVE  Validated(o) /\ HeadAgrees(o)
<1>1. o.genuine /\ (o.kind = "cash-session-open" <=> o.sessionSeq = 1) /\ o.hash = HeadAt(o.seq)
  BY LogFacts DEF DeliveryInv, SealedHere, DeviceInv, SessionsInOrder
<1>2. \A c \in Knowledge(o.device, o.actor) : o.seq <= c.seq /\ c.head = HeadAt(c.seq)
  BY DEF Knowledge, DeliveryInv, SignedTruth, Signed, Truthful
<1> QED
  BY <1>1, <1>2 DEF Validated, HeadAgrees

(* What it can apply is the operation after those it has applied. *)
LEMMA AppliesNext ==
  ASSUME DeliveryInv, NEW o \in Logged, Ready(o)
  PROVE  o.seq = Cardinality(operations) + 1
<1>1. /\ Cardinality(operations) \in Nat /\ operations \subseteq Logged
      /\ \A p \in Logged : p \in operations <=> p.seq <= Cardinality(operations)
      /\ \A p \in Logged : p.seq \in Nat /\ p.seq >= 1
  BY AppliedFacts, LogFacts DEF DeliveryInv
<1>2. o.seq > Cardinality(operations)
  BY <1>1 DEF Ready
<1>3. CASE o.seq > 1
  <2>1. PICK g \in Chain(o.device) : g.seq = o.seq - 1
    BY <1>3 DEF Ready, MissingLink
  <2>2. g.seq <= Cardinality(operations)
    BY <1>1 DEF Chain
  <2> QED
    BY <1>1, <1>2, <2>1, <2>2
<1>4. CASE ~ (o.seq > 1)
  BY <1>1, <1>2, <1>4
<1> QED
  BY <1>3, <1>4

LEMMA Replaced ==
  ASSUME DeliveryInv, NEW r \in requests, NEW s \in Request, s.by = r.by, Replace(r, s),
         UNCHANGED <<sending, faults>>
  PROVE  Pending' /\ \A q \in requests' : q \in requests \/ q = s
<1>1. requests' = (requests \ {r}) \cup {s}
  BY DEF Replace
<1>2. \A p, q \in requests' : p.by # None /\ p.by = q.by => p = q
  BY <1>1 DEF DeliveryInv, Pending
<1> QED
  BY <1>1, <1>2 DEF DeliveryInv, Pending

(* A push is refused: nothing is left of it but the error. *)
LEMMA RefuseKeeps ==
  ASSUME DeliveryInv, NEW r \in requests, Refuse(r), UNCHANGED <<deviceVars, sending, faults>>
  PROVE  DeliveryInv'
<1> DEFINE s == [r EXCEPT !.at = "refused", !.envelopes = {}, !.acks = {}]
<1>1. Replace(r, s) /\ UNCHANGED serverVars
  BY DEF Refuse
<1>2. /\ s \in Request /\ s.by = r.by /\ s.envelopes = {}
      /\ s.knowledge = r.knowledge /\ s.acks = {}
  BY DEF DeliveryInv, Pending, Request
<1> HIDE DEF s
<1>3. Pending' /\ \A q \in requests' : q \in requests \/ q = s
  BY <1>1, <1>2, Replaced
<1>4. \A q \in requests' :
        \/ \E p \in requests : /\ q.at = p.at /\ q.envelopes = p.envelopes
                              /\ q.knowledge = p.knowledge /\ q.acks = p.acks
        \/ /\ q.envelopes = {} /\ q.acks = {}
           /\ \E p \in requests : q.knowledge = p.knowledge
  BY <1>2, <1>3
<1>5. /\ \A g \in Sender : sending'[g] # Resting => sending'[g].rows \subseteq Logged
      /\ \A g \in Sender : sending'[g].at = "accepting" =>
           \A a \in sending'[g].acks : a.op \in operations
  BY DEF DeliveryInv, SealedHere, AnswersTrue
<1> QED
  BY <1>1, <1>3, <1>4, <1>5, SenderKeepsDelivery

(* A push is consumed: the knowledge it carries is recorded, ... *)
LEMMA RecordKeeps ==
  ASSUME DeliveryInv, NEW r \in requests, r.at = "sent", RecordCheckpoints(r.knowledge),
         Replace(r, [r EXCEPT !.at = "ingesting"]), UNCHANGED <<deviceVars, sending, faults>>
  PROVE  DeliveryInv' /\ ServerNext
<1> DEFINE s == [r EXCEPT !.at = "ingesting"]
<1>1. /\ r.at = "sent" /\ RecordCheckpoints(r.knowledge) /\ Replace(r, s)
      /\ UNCHANGED <<deviceVars, sending, faults>>
  OBVIOUS
<1>2. /\ s \in Request /\ s.by = r.by /\ s.at = "ingesting" /\ s.envelopes = r.envelopes
      /\ s.knowledge = r.knowledge /\ s.acks = r.acks
  BY DEF DeliveryInv, Pending, Request
<1> HIDE DEF s
<1>3. r.knowledge \in SUBSET Checkpoint
  BY DeliveryAssumption DEF DeliveryInv, SignedTruth, Signed, Truthful
<1>4. ServerNext
  BY <1>1, <1>3 DEF ServerNext
<1>5. DeviceInv' /\ ServerInv'
  BY <1>1, <1>4, DeviceStepInv, NextPreservesInv DEF DeliveryInv
<1>6. /\ UNCHANGED <<chain, queue, receipts, knowledge, log>>
      /\ UNCHANGED <<operations, results>>
      /\ checkpoints' = checkpoints \cup r.knowledge
  BY <1>1 DEF deviceVars, RecordCheckpoints, AllRecordable, Recordable, DeliveryInv, ServerInv,
              OneCheckpoint
<1>7. Pending' /\ \A q \in requests' : q \in requests \/ q = s
  BY <1>1, <1>2, Replaced
<1>8. Logged' = Logged /\ \A n : HeadAt(n)' = HeadAt(n)
  BY <1>6 DEF Logged, HeadAt
<1>9. SealedHere' /\ AppliedPrefix' /\ AnswersTrue'
  BY <1>1, <1>2, <1>6, <1>7, <1>8 DEF DeliveryInv, SealedHere, AppliedPrefix, AnswersTrue
<1>10. Signed' \subseteq Signed
  BY <1>2, <1>6, <1>7 DEF Signed
<1>11. SignedTruth'
  BY <1>6, <1>8, <1>10 DEF DeliveryInv, SignedTruth, Truthful
<1>12. KnowledgeFirst'
  BY <1>1, <1>2, <1>6, <1>7, <1>10 DEF DeliveryInv, KnowledgeFirst
<1> QED
  BY <1>4, <1>5, <1>7, <1>9, <1>11, <1>12 DEF DeliveryInv

(* ... or some of it cannot be, and the push is refused. *)
LEMMA ConsumeKeeps ==
  ASSUME DeliveryInv, NEW r \in requests, Consume(r)
  PROVE  /\ DeliveryInv' /\ (ServerNext \/ UNCHANGED serverVars)
         /\ UNCHANGED deviceVars /\ operations' = operations
<1>1. r.at = "sent" /\ UNCHANGED <<deviceVars, sending, faults>>
  BY DEF Consume
<1>2. CASE RecordCheckpoints(r.knowledge) /\ Replace(r, [r EXCEPT !.at = "ingesting"])
  BY <1>1, <1>2, RecordKeeps DEF RecordCheckpoints
<1>3. CASE Refuse(r)
  BY <1>1, <1>3, RefuseKeeps DEF Refuse, serverVars
<1> QED
  BY <1>2, <1>3 DEF Consume

(* What an examined envelope may do: apply, as the next operation of the   *)
(* log, or change nothing on the server.  It is never rejected; its push   *)
(* may be refused.                                                         *)
LEMMA IngestOutcome ==
  ASSUME DeliveryInv, NEW r \in requests, NEW o \in r.envelopes, Ingest(r, o)
  PROVE  /\ o \in Logged /\ o \in Envelope /\ r.at = "ingesting"
         /\ UNCHANGED <<deviceVars, sending, faults>>
         /\ Apply(o) \/ UNCHANGED serverVars
         /\ \/ Refuse(r)
            \/ \E acks \in SUBSET Answers :
                 /\ \A a \in acks : a.op \in operations'
                 /\ Replace(r, [r EXCEPT !.envelopes = @ \ {o}, !.acks = @ \cup acks])
<1>1. o \in Logged /\ o \in Envelope /\ o \in Operation
  BY OurEnvelopes, LogFacts DEF DeliveryInv, SealedHere
<1>2. ~ SecurityReject(o)
  BY <1>1, HonestValid DEF SecurityReject
<1>3. r \in Request
  BY DEF DeliveryInv, Pending
<1>4. r.at = "ingesting" /\ UNCHANGED <<deviceVars, sending, faults>>
  BY DEF Ingest
<1>5. ASSUME NEW status \in Status, Reply(r, o, status), o \in operations'
      PROVE  \E acks \in SUBSET Answers :
               /\ \A a \in acks : a.op \in operations'
               /\ Replace(r, [r EXCEPT !.envelopes = @ \ {o}, !.acks = @ \cup acks])
  <2> DEFINE acks == {[op |-> o, status |-> status]}
  <2>1. acks \in SUBSET Answers /\ \A a \in acks : a.op \in operations'
    BY <1>1, <1>5 DEF Answers
  <2>2. Replace(r, [r EXCEPT !.envelopes = @ \ {o}, !.acks = @ \cup acks])
    BY <1>5 DEF Reply
  <2> QED
    BY <2>1, <2>2
<1>6. CASE Apply(o) /\ Reply(r, o, "ACKED")
  <2>1. "ACKED" \in Status /\ o \in operations'
    BY <1>6 DEF Status, Apply
  <2> QED
    BY <1>1, <1>4, <1>5, <1>6, <2>1
<1>7. CASE \E s \in results : s.envelope = o /\ Reply(r, o, s.status) /\ UNCHANGED serverVars
  <2>1. PICK s \in results : s.envelope = o /\ Reply(r, o, s.status) /\ UNCHANGED serverVars
    BY <1>7
  <2>2. s.status \in Status /\ o \in operations /\ operations' = operations
    BY <2>1 DEF DeliveryInv, AnswersTrue, ServerInv, AnswerMatchesEffect, ServerTypeOK, serverVars
  <2> QED
    BY <1>1, <1>4, <1>5, <2>1, <2>2
<1>8. CASE Replace(r, [r EXCEPT !.envelopes = @ \ {o}]) /\ UNCHANGED serverVars
  <2>1. [r EXCEPT !.envelopes = @ \ {o}] = [r EXCEPT !.envelopes = @ \ {o}, !.acks = @ \cup {}]
    BY <1>3 DEF Request
  <2>2. {} \in SUBSET Answers /\ \A a \in {} : a.op \in operations'
    OBVIOUS
  <2> QED
    BY <1>1, <1>4, <1>8, <2>1, <2>2
<1>9. CASE Refuse(r)
  BY <1>1, <1>4, <1>9 DEF Refuse
<1> QED
  BY <1>2, <1>6, <1>7, <1>8, <1>9 DEF Ingest

LEMMA ReplyKeeps ==
  ASSUME DeliveryInv, NEW r \in requests, NEW o \in r.envelopes, o \in Logged, o \in Envelope,
         r.at = "ingesting", UNCHANGED <<deviceVars, sending, faults>>,
         Apply(o) \/ UNCHANGED serverVars,
         NEW acks \in SUBSET Answers, \A a \in acks : a.op \in operations',
         Replace(r, [r EXCEPT !.envelopes = @ \ {o}, !.acks = @ \cup acks])
  PROVE  DeliveryInv' /\ (ServerNext \/ UNCHANGED serverVars)
<1>1. /\ o \in Logged /\ o \in Envelope /\ r.at = "ingesting"
      /\ UNCHANGED <<deviceVars, sending, faults>>
      /\ Apply(o) \/ UNCHANGED serverVars
  OBVIOUS
<1>2. /\ \A a \in acks : a.op \in operations'
      /\ Replace(r, [r EXCEPT !.envelopes = @ \ {o}, !.acks = @ \cup acks])
  OBVIOUS
<1> DEFINE s == [r EXCEPT !.envelopes = @ \ {o}, !.acks = @ \cup acks]
<1>3. /\ s \in Request /\ s.by = r.by /\ s.at = "ingesting" /\ s.envelopes \subseteq r.envelopes
      /\ s.knowledge = r.knowledge /\ s.acks = r.acks \cup acks
  BY <1>1 DEF DeliveryInv, Pending, Request
<1>4. Replace(r, s)
  BY <1>2
<1> HIDE DEF s
<1>5. ServerNext \/ UNCHANGED serverVars
  BY <1>1 DEF ServerNext
<1>6. DeviceInv' /\ ServerInv'
  BY <1>1, <1>5, DeviceStepInv, NextPreservesInv DEF DeliveryInv
<1>7. UNCHANGED <<chain, queue, receipts, knowledge, log>> /\ checkpoints' = checkpoints
  BY <1>1 DEF deviceVars, serverVars, Apply
<1>8. Pending' /\ \A q \in requests' : q \in requests \/ q = s
  BY <1>1, <1>3, <1>4, Replaced
<1>9. Logged' = Logged /\ \A n : HeadAt(n)' = HeadAt(n)
  BY <1>7 DEF Logged, HeadAt
<1>10. SealedHere'
  BY <1>1, <1>3, <1>7, <1>8, <1>9 DEF DeliveryInv, SealedHere
<1>11. operations \subseteq operations' /\ operations' \subseteq operations \cup {o}
  BY <1>1 DEF Apply, serverVars
<1>12. AppliedPrefix'
  <2>1. CASE Apply(o)
    <3>1. /\ operations' = operations \cup {o} /\ o \notin operations
          /\ o.seq = Cardinality(operations) + 1
      BY <1>1, <2>1, AppliesNext DEF Apply, Ready
    <3>2. /\ IsFiniteSet(operations') /\ Cardinality(operations') = Cardinality(operations) + 1
          /\ Cardinality(operations) \in Nat
      BY <3>1, FS_AddElement, FS_CardinalityType DEF DeliveryInv, AppliedPrefix
    <3>3. o.seq \in 1..Len(log) /\ log[o.seq] = o
      BY <1>1, LogFacts DEF DeliveryInv
    <3>4. {log[n] : n \in 1..(Cardinality(operations) + 1)} =
            {log[n] : n \in 1..Cardinality(operations)} \cup {log[Cardinality(operations) + 1]}
      <4>1. 1..(Cardinality(operations) + 1) =
              (1..Cardinality(operations)) \cup {Cardinality(operations) + 1}
        BY <3>2
      <4> QED
        BY <4>1
    <3>5. operations' = {log[n] : n \in 1..(Cardinality(operations) + 1)}
      BY <3>1, <3>3, <3>4 DEF DeliveryInv, AppliedPrefix
    <3>6. Cardinality(operations') <= Len(log')
      BY <1>7, <3>1, <3>2, <3>3
    <3>7. operations' = {log'[n] : n \in 1..Cardinality(operations')}
      BY <1>7, <3>2, <3>5
    <3> QED
      BY <3>2, <3>6, <3>7 DEF AppliedPrefix
  <2>2. CASE UNCHANGED serverVars
    BY <1>7, <2>2 DEF DeliveryInv, AppliedPrefix, serverVars
  <2> QED
    BY <1>1, <2>1, <2>2
<1>13. AnswersTrue'
  <2>1. \A q \in results' : q.status = "ACKED"
    BY <1>1 DEF DeliveryInv, AnswersTrue, Apply, serverVars
  <2>2. \A q \in requests' : \A a \in q.acks : a.op \in operations'
    BY <1>2, <1>3, <1>8, <1>11 DEF DeliveryInv, AnswersTrue
  <2>3. \A f \in Sender : sending'[f].at = "accepting" =>
          \A a \in sending'[f].acks : a.op \in operations'
    BY <1>1, <1>11 DEF DeliveryInv, AnswersTrue
  <2>4. \A q \in receipts' : \E p \in operations' : p.id = q.id
    BY <1>7, <1>11 DEF DeliveryInv, AnswersTrue
  <2> QED
    BY <2>1, <2>2, <2>3, <2>4 DEF AnswersTrue
<1>14. Signed' \subseteq Signed
  BY <1>3, <1>7, <1>8 DEF Signed
<1>15. SignedTruth'
  BY <1>7, <1>9, <1>14 DEF DeliveryInv, SignedTruth, Truthful
<1>16. KnowledgeFirst'
  <2>1. ASSUME NEW q \in requests', NEW p \in q.envelopes, NEW k \in Signed', k.seq < p.seq
        PROVE  k \in checkpoints \/ (q.at = "sent" /\ k \in q.knowledge)
    BY <1>1, <1>3, <1>8, <1>14, <2>1 DEF DeliveryInv, KnowledgeFirst
  <2>2. ASSUME NEW p \in operations', NEW k \in Signed', k.seq < p.seq
        PROVE  k \in checkpoints
    BY <1>1, <1>11, <1>14, <2>2 DEF DeliveryInv, KnowledgeFirst
  <2> QED
    BY <1>7, <2>1, <2>2 DEF KnowledgeFirst
<1> QED
  BY <1>5, <1>6, <1>8, <1>10, <1>12, <1>13, <1>15, <1>16 DEF DeliveryInv

LEMMA IngestKeeps ==
  ASSUME DeliveryInv, NEW r \in requests, NEW o \in r.envelopes, Ingest(r, o)
  PROVE  DeliveryInv' /\ (ServerNext \/ UNCHANGED serverVars)
<1>1. /\ o \in Logged /\ o \in Envelope /\ r.at = "ingesting"
      /\ UNCHANGED <<deviceVars, sending, faults>>
      /\ Apply(o) \/ UNCHANGED serverVars
      /\ \/ Refuse(r)
         \/ \E acks \in SUBSET Answers :
              /\ \A a \in acks : a.op \in operations'
              /\ Replace(r, [r EXCEPT !.envelopes = @ \ {o}, !.acks = @ \cup acks])
  BY IngestOutcome
<1>2. CASE Refuse(r)
  BY <1>1, <1>2, RefuseKeeps DEF Refuse
<1>3. ASSUME NEW acks \in SUBSET Answers, \A a \in acks : a.op \in operations',
             Replace(r, [r EXCEPT !.envelopes = @ \ {o}, !.acks = @ \cup acks])
      PROVE  DeliveryInv' /\ (ServerNext \/ UNCHANGED serverVars)
  BY <1>1, <1>3, ReplyKeeps
<1> QED
  BY <1>1, <1>2, <1>3

LEMMA UnreadKeeps ==
  ASSUME DeliveryInv, NEW r \in requests, Unread(r)
  PROVE  DeliveryInv'
<1>1. /\ requests' = requests \ {r}
      /\ UNCHANGED <<deviceVars, serverVars, sending, faults>>
  BY DEF Unread
<1>2. Pending'
  BY <1>1 DEF DeliveryInv, Pending
<1>3. /\ \A g \in Sender : sending'[g] # Resting => sending'[g].rows \subseteq Logged
      /\ \A g \in Sender : sending'[g].at = "accepting" =>
           \A a \in sending'[g].acks : a.op \in operations
  BY <1>1 DEF DeliveryInv, SealedHere, AnswersTrue
<1>4. \A q \in requests' : \E p \in requests :
        /\ q.at = p.at /\ q.envelopes = p.envelopes /\ q.knowledge = p.knowledge /\ q.acks = p.acks
  BY <1>1
<1> QED
  BY <1>1, <1>2, <1>3, <1>4, SenderKeepsDelivery

LEMMA AdministerKeeps ==
  ASSUME DeliveryInv, Administer
  PROVE  DeliveryInv' /\ ServerNext
<1>1. ServerNext
  BY DeviceAssumption, DeliveryAssumption DEF Administer, ServerNext
<1>2. /\ UNCHANGED <<deviceVars, sending, requests, faults>>
      /\ UNCHANGED <<operations, results, checkpoints>>
  BY DEF Administer, RevokeDevice, DeactivateMember, ReactivateMember
<1>3. DeviceInv' /\ ServerInv'
  BY <1>1, <1>2, DeviceStepInv, NextPreservesInv DEF DeliveryInv
<1>4. UNCHANGED <<chain, queue, receipts, knowledge, log>>
  BY <1>2 DEF deviceVars
<1>5. Logged' = Logged /\ (\A n : HeadAt(n)' = HeadAt(n)) /\ Signed' = Signed
  BY <1>2, <1>4 DEF Logged, HeadAt, Signed
<1>6. Pending' /\ SealedHere' /\ AppliedPrefix' /\ AnswersTrue'
  BY <1>2, <1>4, <1>5 DEF DeliveryInv, Pending, SealedHere, AppliedPrefix, AnswersTrue
<1>7. SignedTruth' /\ KnowledgeFirst'
  BY <1>2, <1>4, <1>5 DEF DeliveryInv, SignedTruth, Truthful, KnowledgeFirst
<1> QED
  BY <1>1, <1>3, <1>6, <1>7 DEF DeliveryInv

-----------------------------------------------------------------------------
(* The invariant.                                                          *)

LEMMA DeliveryInit == Init => DeliveryInv
<1> SUFFICES ASSUME Init PROVE DeliveryInv
  OBVIOUS
<1>1. DeviceInv /\ ServerInv
  BY DeviceInitInv, InitInv DEF Init
<1>2. /\ log = <<>> /\ queue = {} /\ receipts = {} /\ knowledge = {}
      /\ operations = {} /\ results = {} /\ checkpoints = {} /\ requests = {}
      /\ faults \in 0..MaxFaults
      /\ sending = [f \in Sender |-> Resting]
  BY DEF Init, DeviceInit, ServerInit
<1>3. Logged = {} /\ Len(log) = 0 /\ Signed = {}
  BY <1>2, EmptySeq DEF Logged, Signed
<1>4. Pending
  BY <1>2, DeliveryAssumption DEF Pending, SenderState
<1>5. SealedHere /\ SignedTruth /\ KnowledgeFirst
  BY <1>2, <1>3 DEF SealedHere, SignedTruth, KnowledgeFirst
<1>6. AppliedPrefix
  BY <1>2, <1>3, FS_EmptySet DEF AppliedPrefix
<1>7. AnswersTrue
  BY <1>2 DEF AnswersTrue, Resting
<1> QED
  BY <1>1, <1>4, <1>5, <1>6, <1>7 DEF DeliveryInv

(* A tab's step, or the start of a command, is a step of the device.       *)
LEMMA DeviceStepKeeps ==
  ASSUME DeliveryInv, DeviceStep
  PROVE  /\ DeliveryInv' /\ DeviceNext
         /\ UNCHANGED serverVars /\ receipts' = receipts
         /\ log' = log \/ \E o : Seals(o)
<1>1. /\ DeviceNext
      /\ UNCHANGED <<serverVars, sending, requests, faults>>
  BY DEF DeviceStep, StartKnown, DeviceNext
<1>2. receipts' = receipts
  BY ZenonT(30) DEF DeviceStep, StartKnown, Start, TabStep, PrepareSale, StartConfirm, StartOpen, Acquire, Fail,
         SealOpening, SealSale, Commit, Learn, FreezeSession, KeepCheckpoint, ReleaseSession,
         CompleteSession, FreezeConfiguration
<1>3. KeepsLog \/ \E o : Seals(o)
  BY <1>1, EveryStep DEF DeliveryInv
<1>4. DeviceInv' /\ ServerInv'
  BY <1>1, DeviceStepInv, NextPreservesInv DEF DeliveryInv
<1>5. Pending'
  BY <1>1 DEF DeliveryInv, Pending
<1>6. /\ \A g \in Sender : sending'[g] # Resting => sending'[g].rows \subseteq Logged
      /\ \A g \in Sender : sending'[g].at = "accepting" =>
           \A a \in sending'[g].acks : a.op \in operations
      /\ \A r \in receipts' : \E o \in operations : o.id = r.id
  BY <1>1, <1>2 DEF DeliveryInv, SealedHere, AnswersTrue
<1>7. CASE KeepsLog
  BY <1>1, <1>2, <1>4, <1>5, <1>6, <1>7, DeviceKeepsDelivery DEF KeepsLog
<1>8. CASE \E o : Seals(o)
  BY <1>1, <1>2, <1>4, <1>8, SealingKeepsDelivery
<1> QED
  BY <1>3, <1>7, <1>8

(* Each step of the composition, as the device and the server see it.      *)
LEMMA EveryDeliveryStep ==
  ASSUME DeliveryInv, Next
  PROVE  /\ DeliveryInv'
         /\ \/ DeviceStep
            \/ UNCHANGED <<deviceVars, serverVars>>
            \/ \E o \in operations, status \in Status :
                 AcceptAck(o, status) /\ UNCHANGED serverVars
            \/ /\ UNCHANGED deviceVars /\ ServerNext
               /\ operations' = operations \/ \E o \in Logged : Apply(o)
<1>1. CASE DeviceStep
  BY <1>1, DeviceStepKeeps
<1>2. ASSUME NEW f \in Sender, Wake(f) \/ SenderStep(f) \/ GiveUp(f)
      PROVE  /\ DeliveryInv'
             /\ \/ UNCHANGED <<deviceVars, serverVars>>
                \/ \E o \in operations, status \in Status :
                     AcceptAck(o, status) /\ UNCHANGED serverVars
  <2>1. CASE ReadRows(f)
    BY <2>1, ReadRowsKeeps DEF ReadRows
  <2>2. CASE Push(f)
    BY <2>2, PushKeeps DEF Push
  <2>3. CASE Continue(f)
    BY <2>3, ContinueKeeps DEF Continue
  <2>4. CASE NextBatch(f)
    BY <2>4, NextBatchKeeps DEF NextBatch
  <2>5. ASSUME NEW a \in sending[f].acks, Accept(f, a)
        PROVE  /\ DeliveryInv'
               /\ \/ UNCHANGED <<deviceVars, serverVars>>
                  \/ \E o \in operations, status \in Status :
                       AcceptAck(o, status) /\ UNCHANGED serverVars
    <3>1. UNCHANGED serverVars
      BY <2>5 DEF Accept
    <3> QED
      BY <2>5, <3>1, AcceptKeeps
  <2>6. CASE \E r \in requests : ReceiveAcks(f, r)
    BY <2>6, ReceiveAcksKeeps DEF ReceiveAcks
  <2>7. CASE GiveUp(f)
    BY <2>7, GiveUpKeeps DEF GiveUp
  <2>8. CASE \E r \in requests : ReceiveRefusal(f, r)
    BY <2>8, ReceiveRefusalKeeps DEF ReceiveRefusal
  <2>9. CASE Wake(f)
    BY <2>9, SurroundingsKeep DEF Wake
  <2> QED
    BY <1>2, <2>1, <2>2, <2>3, <2>4, <2>5, <2>6, <2>7, <2>8, <2>9 DEF SenderStep
<1>3. ASSUME NEW r \in requests, Consume(r) \/ Unread(r) \/ \E o \in r.envelopes : Ingest(r, o)
      PROVE  /\ DeliveryInv'
             /\ \/ UNCHANGED <<deviceVars, serverVars>>
                \/ /\ UNCHANGED deviceVars /\ ServerNext
                   /\ operations' = operations \/ \E o \in Logged : Apply(o)
  <2>1. CASE Consume(r)
    BY <2>1, ConsumeKeeps
  <2>2. CASE Unread(r)
    BY <2>2, UnreadKeeps DEF Unread
  <2>3. ASSUME NEW o \in r.envelopes, Ingest(r, o)
        PROVE  /\ DeliveryInv'
               /\ \/ UNCHANGED <<deviceVars, serverVars>>
                  \/ /\ UNCHANGED deviceVars /\ ServerNext
                     /\ operations' = operations \/ \E p \in Logged : Apply(p)
    <3>1. o \in Logged /\ o \in Envelope /\ UNCHANGED deviceVars /\ (Apply(o) \/ UNCHANGED serverVars)
      BY <2>3, IngestOutcome
    <3> QED
      BY <2>3, <3>1, IngestKeeps DEF ServerNext
  <2> QED
    BY <1>3, <2>1, <2>2, <2>3
<1>4. CASE Administer
  <2>1. UNCHANGED deviceVars /\ operations' = operations
    BY <1>4 DEF Administer, RevokeDevice, DeactivateMember, ReactivateMember
  <2> QED
    BY <1>4, <2>1, AdministerKeeps
<1>5. CASE Hinder \/ Relieve
  BY <1>5, SurroundingsKeep DEF Hinder, Relieve
<1> QED
  BY <1>1, <1>2, <1>3, <1>4, <1>5 DEF Next, ServerStep

LEMMA DeliveryStepInv == DeliveryInv /\ [Next]_allVars => DeliveryInv'
<1> SUFFICES ASSUME DeliveryInv, [Next]_allVars PROVE DeliveryInv'
  OBVIOUS
<1>1. CASE Next
  BY <1>1, EveryDeliveryStep
<1>2. CASE UNCHANGED allVars
  <2>1. UNCHANGED <<deviceVars, serverVars, sending, requests, faults>>
    BY <1>2 DEF allVars
  <2> QED
    BY <2>1, SurroundingsKeep
<1> QED
  BY <1>1, <1>2

LEMMA DeliveryInvariant == Spec => []DeliveryInv
BY DeliveryInit, DeliveryStepInv, PTL DEF Spec

-----------------------------------------------------------------------------
(* The delivery is a device and a server, each following its own           *)
(* specification: what is proved of either holds of the composition.       *)
THEOREM DeviceAndServer == Spec => DeviceSpec /\ ServerSpec
<1>1. Init => DeviceInit /\ ServerInit
  BY DEF Init
<1>2. DeliveryInv /\ [Next]_allVars => [DeviceNext]_deviceVars /\ [ServerNext]_serverVars
  <2> SUFFICES ASSUME DeliveryInv, [Next]_allVars
               PROVE  [DeviceNext]_deviceVars /\ [ServerNext]_serverVars
    OBVIOUS
  <2>1. CASE DeviceStep
    BY <2>1, DeviceStepKeeps
  <2>2. ASSUME NEW o \in operations, NEW status \in Status, AcceptAck(o, status)
        PROVE  DeviceNext
    <3>1. o \in queue
      BY <2>2 DEF AcceptAck
    <3> QED
      BY <2>2, <3>1 DEF DeviceNext
  <2>3. CASE Next
    BY <2>1, <2>2, <2>3, EveryDeliveryStep
  <2>4. CASE UNCHANGED allVars
    BY <2>4 DEF allVars
  <2> QED
    BY <2>3, <2>4
<1> QED
  BY <1>1, <1>2, DeliveryInvariant, PTL DEF Spec, DeviceSpec, ServerSpec

(* Whatever requests are lost, cut short or handled late, every sealed     *)
(* operation is on the device or applied on the server.                    *)
THEOREM NoRowDeletedEarly == Spec => []DeletedOnlyWhenEffective
<1>1. ASSUME DeliveryInv PROVE DeletedOnlyWhenEffective
  <2>1. \A o \in Logged : Final(o.id) => o \in operations
    <3> SUFFICES ASSUME NEW o \in Logged, Final(o.id) PROVE o \in operations
      OBVIOUS
    <3>1. PICK p \in operations : p.id = o.id
      BY <1>1 DEF Final, DeliveryInv, AnswersTrue
    <3>2. p \in Logged
      BY <1>1, <3>1, AppliedFacts
    <3> QED
      BY <1>1, <3>1, <3>2, IdsDistinct DEF DeliveryInv
  <2> QED
    BY <1>1, <2>1 DEF DeliveryInv, DeviceInv, NothingForgotten, DeletedOnlyWhenEffective
<1> QED
  BY <1>1, DeliveryInvariant, PTL

(* The operations of a session are numbered in the order of the chain. *)
LEMMA SessionsRank ==
  ASSUME DeviceInv, NEW o \in Logged, NEW p \in Logged, o.session = p.session, p.seq < o.seq
  PROVE  p.sessionSeq < o.sessionSeq
<1> DEFINE Upto(q) == {l \in Logged : l.session = q.session /\ l.seq <= q.seq}
<1>1. \A q \in Logged : q.seq \in Nat
  BY LogFacts
<1>2. IsFiniteSet(Upto(o))
  BY FS_Subset, LoggedFinite DEF DeviceInv, DeviceTypeOK
<1>3. /\ Upto(p) \subseteq Upto(o)
      /\ o \in Upto(o) /\ o \notin Upto(p)
  BY <1>1
<1>4. o.sessionSeq = Cardinality(Upto(o)) /\ p.sessionSeq = Cardinality(Upto(p))
  BY DEF DeviceInv, SessionsInOrder
<1> HIDE DEF Upto
<1>5. Cardinality(Upto(p)) <= Cardinality(Upto(o)) /\ Cardinality(Upto(p)) # Cardinality(Upto(o))
  BY <1>2, <1>3, FS_Subset
<1>6. Cardinality(Upto(p)) \in Nat /\ Cardinality(Upto(o)) \in Nat
  BY <1>2, <1>3, FS_Subset, FS_CardinalityType
<1> QED
  BY <1>4, <1>5, <1>6

(* An envelope of this device is answered, or it waits, or its turn has     *)
(* come: nothing but its effect makes its push throw.                      *)
LEMMA HonestThrows ==
  ASSUME DeliveryInv, NEW o \in Logged, Throws(o)
  PROVE  o.id \in refused
<1>1. /\ operations \subseteq Logged
      /\ \A p \in Logged : p \in operations <=> p.seq <= Cardinality(operations)
      /\ Cardinality(operations) \in Nat
  BY AppliedFacts
<1>2. /\ \A p \in Logged : /\ p \in Operation /\ p.seq \in 1..Len(log) /\ log[p.seq] = p
                          /\ HeadAt(p.seq) = p.hash
      /\ Len(log) \in Nat
  BY LogFacts DEF DeliveryInv
<1>3. o \notin operations
  <2>1. o \in operations => [envelope |-> o, status |-> "ACKED"] \in results
    BY DEF DeliveryInv, ServerInv, AnswerMatchesEffect
  <2> QED
    BY <2>1 DEF Throws
<1>4. \A p \in operations : p.id # o.id /\ p.seq < o.seq
  BY <1>1, <1>2, <1>3, IdsDistinct DEF DeliveryInv
<1>5. ~ Answered(o)
  BY <1>4 DEF Answered, DeliveryInv, AnswersTrue, ServerInv, AnswerMatchesEffect
<1>6. ~ LinkConflict(o)
  <2>1. o.prev = HeadAt(o.seq - 1)
    BY <1>2 DEF DeliveryInv, DeviceInv, ChainMatchesLog
  <2>2. o.seq = 1 => o.prev = Genesis
    BY <2>1 DEF HeadAt
  <2>3. \A p \in operations : p.seq = o.seq - 1 => p.hash = o.prev
    BY <1>1, <1>2, <2>1
  <2> QED
    BY <1>2, <1>4, <2>2, <2>3 DEF LinkConflict, Chain
<1>7. \A p \in SessionChain(o) : p \in Logged /\ p.seq < o.seq /\ p.sessionSeq < o.sessionSeq
  BY <1>1, <1>4, SessionsRank DEF SessionChain, Chain, DeliveryInv
<1>8. \A p \in Logged : p.sessionSeq \in Nat /\ p.sessionSeq >= 1
  BY <1>2, SequenceAssumption DEF Operation
<1>9. ~ SessionConflict(o)
  <2>1. o.kind = "cash-session-open" <=> o.sessionSeq = 1
    BY DEF DeliveryInv, DeviceInv, SessionsInOrder
  <2> QED
    BY <1>7, <1>8, <2>1 DEF SessionConflict
<1>10. ~ SessionOverrun(o)
  BY <1>2, <1>7 DEF SessionOverrun
<1>11. SessionIsOurs(o)
  BY <1>1 DEF SessionIsOurs, DeliveryInv, SealedHere
<1>12. Waits(o) \/ Ready(o)
  BY <1>3, <1>6, <1>9, <1>10 DEF Waits, Ready
<1> QED
  BY <1>5, <1>11, <1>12, HonestValid DEF Throws

(* The server rejects nothing that a device sealed by its protocol, and no  *)
(* envelope of it makes a push throw but one whose effect is refused.      *)
THEOREM HonestOperationsAccepted == Spec => []HonestNeverRejected
<1>1. DeliveryInv => HonestNeverRejected
  BY HonestThrows DEF DeliveryInv, AnswersTrue, SealedHere, HonestNeverRejected
<1> QED
  BY <1>1, DeliveryInvariant, PTL

(* Nor does it refuse the knowledge it signed, while the revocation stands: *)
(* envelopes beyond a cutoff never overtake the knowledge of it.           *)
THEOREM HonestKnowledgeAccepted == Spec => []HonestKnowledgeRecordable
<1>1. ASSUME DeliveryInv, NEW k \in knowledge, TargetRevoked(ThisDevice, k.target)
      PROVE  Recordable(k)
  <2>1. /\ k \in Signed /\ Truthful(k)
        /\ \A c \in checkpoints : c \in Signed
    BY <1>1 DEF Signed, DeliveryInv, SignedTruth
  <2>2. \A c \in checkpoints : SameTarget(c, k) => c = k
    BY <1>1, <2>1 DEF SameTarget, DeliveryInv, SignedTruth
  <2>3. k \in checkpoints \/ CoversChain(k)
    <3> SUFFICES ASSUME k \notin checkpoints PROVE CoversChain(k)
      OBVIOUS
    <3>1. k.seq = 0 => k.head = Genesis
      BY <2>1 DEF Truthful, HeadAt
    <3>2. ASSUME NEW g \in operations PROVE g.seq <= k.seq /\ (g.seq = k.seq => g.hash = k.head)
      <4>1. g \in Logged /\ g.seq \in Nat /\ HeadAt(g.seq) = g.hash /\ k.seq \in Nat
        BY <1>1, <2>1, AppliedFacts, LogFacts, SequenceAssumption
           DEF DeliveryInv, Truthful, Knowing
      <4>2. ~ (k.seq < g.seq)
        BY <1>1, <2>1 DEF DeliveryInv, KnowledgeFirst
      <4> QED
        BY <2>1, <4>1, <4>2 DEF Truthful
    <3> QED
      BY <3>1, <3>2 DEF CoversChain, Chain
  <2> QED
    BY <1>1, <2>1, <2>2, <2>3 DEF Recordable, Truthful, SameTarget
<1>2. DeliveryInv => HonestKnowledgeRecordable
  BY <1>1 DEF HonestKnowledgeRecordable
<1> QED
  BY <1>2, DeliveryInvariant, PTL

-----------------------------------------------------------------------------
(* The refinement, step by step. *)

AnsweredHere == {o \in Logged : Final(o.id)}

(* A commit is the promise's Seal: it answers nothing. *)
LEMMA SealsRefine ==
  ASSUME DeliveryInv, NEW o, Seals(o), operations' = operations
  PROVE  Promise!Seal
<1>1. /\ log \in Seq(Operation) /\ o \in Operation /\ log' = Append(log, o)
      /\ receipts' = receipts /\ ~ Final(o.id)
  BY DEF Seals, DeliveryInv, DeviceInv, DeviceTypeOK
<1>2. /\ log' \in Seq(Operation) /\ Len(log') = Len(log) + 1
      /\ \A n \in 1..Len(log) : log'[n] = log[n]
      /\ Logged' = Logged \cup {o}
  BY <1>1, AppendToLog
<1>3. AnsweredHere' = AnsweredHere
  BY <1>1, <1>2 DEF AnsweredHere, Final
<1> QED
  BY <1>2, <1>3 DEF Promise!Seal, AnsweredHere

(* What neither seals, applies nor answers is a stutter. *)
LEMMA StuttersRefine ==
  ASSUME log' = log, operations' = operations, receipts' = receipts
  PROVE  UNCHANGED Promise!promise
<1>1. Logged' = Logged
  BY DEF Logged
<1>2. AnsweredHere' = AnsweredHere
  BY <1>1 DEF AnsweredHere, Final
<1> QED
  BY <1>2 DEF Promise!promise, AnsweredHere

(* Storing a receipt and deleting its row is the promise's Answer. *)
LEMMA AcceptRefines ==
  ASSUME DeliveryInv, NEW o \in operations, NEW status \in Status, AcceptAck(o, status),
         operations' = operations
  PROVE  Promise!Answer(o)
<1>1. log' = log /\ receipts' = receipts \cup {[id |-> o.id, status |-> status]}
  BY DEF AcceptAck
<1>2. Logged' = Logged
  BY <1>1 DEF Logged
<1>3. o \in Logged /\ \A p \in Logged : p.id = o.id => p = o
  BY AppliedFacts, IdsDistinct DEF DeliveryInv
<1> DEFINE r == [id |-> o.id, status |-> status]
<1>4. r.id = o.id /\ receipts' = receipts \cup {r}
  BY <1>1
<1> HIDE DEF r
<1>5. AnsweredHere' = AnsweredHere \cup {o}
  <2>1. \A p \in AnsweredHere' : p \in AnsweredHere \/ p = o
    BY <1>2, <1>3, <1>4 DEF AnsweredHere, Final
  <2>2. AnsweredHere \subseteq AnsweredHere'
    BY <1>2, <1>4 DEF AnsweredHere, Final
  <2>3. o \in AnsweredHere'
    BY <1>2, <1>3, <1>4 DEF AnsweredHere, Final
  <2> QED
    BY <2>1, <2>2, <2>3
<1> QED
  BY <1>1, <1>5 DEF Promise!Answer, AnsweredHere

(* Applying an envelope is the promise's TakeEffect. *)
LEMMA ApplyRefines ==
  ASSUME DeliveryInv, NEW o \in Logged, Apply(o), UNCHANGED deviceVars
  PROVE  Promise!TakeEffect
<1>1. operations' = operations \cup {o} /\ log' = log /\ receipts' = receipts
  BY DEF Apply, deviceVars
<1>2. o.seq = Cardinality(operations) + 1
  BY AppliesNext DEF Apply
<1>3. o.seq \in 1..Len(log) /\ log[o.seq] = o /\ Cardinality(operations) \in Nat /\ Len(log) \in Nat
  BY LogFacts, AppliedFacts DEF DeliveryInv
<1>4. Cardinality(operations) < Len(log)
  BY <1>2, <1>3
<1>5. Logged' = Logged
  BY <1>1 DEF Logged
<1>6. AnsweredHere' = AnsweredHere
  BY <1>1, <1>5 DEF AnsweredHere, Final
<1>7. operations' = operations \cup {log[Cardinality(operations) + 1]}
  BY <1>1, <1>2, <1>3
<1> QED
  BY <1>1, <1>4, <1>6, <1>7 DEF Promise!TakeEffect, Promise!Cardinality, Cardinality, AnsweredHere

(* Offline delivery keeps its promise: what a device seals takes effect on *)
(* the server in the order it was sealed, once, and is answered only then. *)
THEOREM DeliveryKeepsItsPromise == Spec => EffectsInOrderOnce
<1>1. Init => Promise!Init
  <2> SUFFICES ASSUME Init PROVE Promise!Init
    OBVIOUS
  <2>1. log = <<>> /\ operations = {}
    BY DEF Init, DeviceInit, ServerInit
  <2>2. Logged = {}
    BY <2>1, EmptySeq DEF Logged
  <2> QED
    BY <2>1, <2>2 DEF Promise!Init
<1>2. DeliveryInv /\ [Next]_allVars => [Promise!Next]_(Promise!promise)
  <2> SUFFICES ASSUME DeliveryInv, [Next]_allVars PROVE [Promise!Next]_(Promise!promise)
    OBVIOUS
  <2>1. ASSUME DeviceStep PROVE [Promise!Next]_(Promise!promise)
    <3>1. /\ operations' = operations /\ receipts' = receipts
          /\ log' = log \/ \E o : Seals(o)
      BY <2>1, DeviceStepKeeps DEF serverVars
    <3> QED
      BY <3>1, SealsRefine, StuttersRefine DEF Promise!Next
  <2>2. ASSUME NEW o \in operations, NEW status \in Status, AcceptAck(o, status),
               UNCHANGED serverVars
        PROVE  Promise!Next
    BY <2>2, AcceptRefines DEF Promise!Next, serverVars
  <2>3. ASSUME UNCHANGED deviceVars, operations' = operations
        PROVE  [Promise!Next]_(Promise!promise)
    BY <2>3, StuttersRefine DEF deviceVars
  <2>4. ASSUME UNCHANGED deviceVars, NEW o \in Logged, Apply(o)
        PROVE  Promise!Next
    BY <2>4, ApplyRefines DEF Promise!Next
  <2>5. CASE Next
    <3>1. \/ DeviceStep
          \/ UNCHANGED <<deviceVars, serverVars>>
          \/ \E o \in operations, status \in Status : AcceptAck(o, status) /\ UNCHANGED serverVars
          \/ /\ UNCHANGED deviceVars
             /\ operations' = operations \/ \E o \in Logged : Apply(o)
      BY <2>5, EveryDeliveryStep
    <3>2. UNCHANGED <<deviceVars, serverVars>> => UNCHANGED deviceVars /\ operations' = operations
      BY DEF serverVars
    <3> QED
      BY <2>1, <2>2, <2>3, <2>4, <3>1, <3>2
  <2>6. CASE UNCHANGED allVars
    BY <2>3, <2>6 DEF allVars, serverVars
  <2> QED
    BY <2>5, <2>6
<1> QED
  BY <1>1, <1>2, DeliveryInvariant, PTL DEF Spec, EffectsInOrderOnce, Promise!Spec
=============================================================================
