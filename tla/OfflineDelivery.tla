-------------------------- MODULE OfflineDelivery --------------------------
(***************************************************************************)
(* A device that follows its protocol (OfflineDevice), the server that     *)
(* ingests what it delivers (EnvelopeIngestion), and the requests between  *)
(* them.  OpaqueDelivery.send pushes the queued rows in the order of their *)
(* random keys, not of the chain, in batches; several of them may run,     *)
(* from different tabs or from a flush beside the background delivery.  A   *)
(* request may be lost before or after the server handled all or part of   *)
(* it, and handled after its sender has given up and pushed again.  A push *)
(* that the server refuses, in whole or at one of its envelopes, ends the  *)
(* run, and nothing but another event of the browser starts the next one.  *)
(***************************************************************************)
EXTENDS OfflineDevice, EnvelopeIngestion

CONSTANTS
  Sender,       \* concurrent runs of OpaqueDelivery.send
  BatchSize,    \* envelopes in one push (50 in the code)
  Revocable,    \* bound: the device, or users, whose revocation is explored
  Returning,    \* users whose membership may be reactivated
  Refusable,    \* bound: operations whose effect the server may refuse
  MaxFaults     \* bound: requests that may be given up

(* The server examines whatever it is sent; what may be sent to it includes *)
(* all that this device may seal and sign.                                 *)
ASSUME DeliveryAssumption ==
  /\ {o \in Operation : o.device = ThisDevice /\ o.genuine} \subseteq Envelope
  /\ {k \in Knowing : k.device = ThisDevice} \subseteq Checkpoint
  /\ None \notin Sender
  /\ BatchSize \in Nat \ {0}
  /\ Revocable \subseteq Target
  /\ Returning \subseteq Actor
  /\ Refusable \subseteq Id
  /\ MaxFaults \in Nat

VARIABLES
  requested,    \* senders that an event has asked for another run
  sending,      \* what each sender is doing
  requests,     \* pushes the server may still handle, or has handled
  refused,      \* pending operations whose effect the server would refuse now
  faults        \* requests that may still be given up

allVars == <<deviceVars, serverVars, requested, sending, requests, refused, faults>>

Resting == [at |-> "resting"]

Answers == [op: Operation, status: Status]

DeliveryTypeOK ==
  /\ DeviceTypeOK /\ ServerTypeOK
  /\ \A f \in Sender :
       \/ sending[f] = Resting
       \/ sending[f] \in [at: {"pushing", "awaiting"}, rows: SUBSET Operation, progressed: BOOLEAN]
       \/ sending[f] \in [at: {"accepting"}, rows: SUBSET Operation, progressed: BOOLEAN,
                          acks: SUBSET Answers]
  /\ \A r \in requests :
       /\ r.by \in Sender \cup {None}
       /\ r.at \in {"sent", "ingesting", "refused"}
       /\ r.envelopes \subseteq Operation /\ r.knowledge \subseteq Knowing
       /\ r.acks \subseteq Answers
  /\ requested \subseteq Sender
  /\ refused \subseteq Refusable
  /\ faults \in 0..MaxFaults

Init ==
  /\ DeviceInit /\ ServerInit
  /\ requested = {} /\ refused = {}
  /\ sending = [f \in Sender |-> Resting]
  /\ requests = {}
  /\ faults \in 0..MaxFaults

-----------------------------------------------------------------------------
(* The sender. *)

(* startOpaqueDelivery: an event (load, online, visible, a click) asks for *)
(* a run.  One that comes during a run asks for another run after it.      *)
Wake(f) ==
  /\ requested' = requested \cup {f}
  /\ UNCHANGED <<deviceVars, serverVars, sending, requests, refused, faults>>

(* The rows are read first, and the revocation knowledge when each batch   *)
(* is pushed, after a new challenge: knowledge is never older than rows.   *)
ReadRows(f) ==
  /\ f \in requested
  /\ sending[f] = Resting
  /\ requested' = requested \ {f}
  /\ sending' = [sending EXCEPT ![f] =
       IF queue = {} THEN Resting ELSE [at |-> "pushing", rows |-> queue, progressed |-> FALSE]]
  /\ UNCHANGED <<deviceVars, serverVars, requests, refused, faults>>

(* Mutated form: knowledge is sent only once no row is left to send. *)
PushRowsFirst(f) ==
  /\ sending[f].at = "pushing"
  /\ sending[f].rows # {}
  /\ ~ chain.wiped
  /\ \E batch \in SUBSET sending[f].rows :
       /\ Cardinality(batch) = IF Cardinality(sending[f].rows) < BatchSize
                                 THEN Cardinality(sending[f].rows) ELSE BatchSize
       /\ sending' = [sending EXCEPT ![f].at = "awaiting", ![f].rows = @ \ batch]
       /\ requests' = requests \cup
            {[by |-> f, at |-> "sent", envelopes |-> batch,
              knowledge |-> IF queue = batch THEN knowledge ELSE {}, acks |-> {}]}
  /\ UNCHANGED <<deviceVars, serverVars, requested, refused, faults>>

Push(f) ==
  /\ sending[f].at = "pushing"
  /\ sending[f].rows # {}
  /\ ~ chain.wiped
  /\ \E batch \in SUBSET sending[f].rows :
       /\ Cardinality(batch) = IF Cardinality(sending[f].rows) < BatchSize
                                 THEN Cardinality(sending[f].rows) ELSE BatchSize
       /\ sending' = [sending EXCEPT ![f].at = "awaiting", ![f].rows = @ \ batch]
       /\ requests' = requests \cup
            {[by |-> f, at |-> "sent", envelopes |-> batch, knowledge |-> knowledge, acks |-> {}]}
  /\ UNCHANGED <<deviceVars, serverVars, requested, refused, faults>>

(* Mutated form: the request for another run is reset after a run instead  *)
(* of before it.                                                           *)
ContinueDeaf(f) ==
  /\ sending[f].at = "pushing"
  /\ sending[f].rows = {} \/ chain.wiped
  /\ IF sending[f].progressed /\ queue # {}
       THEN /\ sending' = [sending EXCEPT ![f] =
                 [at |-> "pushing", rows |-> queue, progressed |-> FALSE]]
            /\ UNCHANGED requested
       ELSE sending' = [sending EXCEPT ![f] = Resting] /\ requested' = requested \ {f}
  /\ UNCHANGED <<deviceVars, serverVars, requests, refused, faults>>

(* The loop runs again while some row was answered; on a device wiped in   *)
(* the meantime there is nothing left to send.                             *)
Continue(f) ==
  /\ sending[f].at = "pushing"
  /\ sending[f].rows = {} \/ chain.wiped
  /\ sending' = [sending EXCEPT ![f] =
       IF sending[f].progressed /\ queue # {}
         THEN [at |-> "pushing", rows |-> queue, progressed |-> FALSE] ELSE Resting]
  /\ UNCHANGED <<deviceVars, serverVars, requested, requests, refused, faults>>

(* No answer, or a closed tab, ends the run; a closed tab forgets the event *)
(* too.  The server may still have to handle the request, or be in the     *)
(* middle.                                                                 *)
GiveUp(f) ==
  /\ sending[f] # Resting
  /\ faults > 0
  /\ faults' = faults - 1
  /\ sending' = [sending EXCEPT ![f] = Resting]
  /\ requested' \in {requested, requested \ {f}}
  /\ \/ requests' = {r \in requests : r.by # f}
     \/ requests' = {IF r.by = f THEN [r EXCEPT !.by = None] ELSE r : r \in requests}
  /\ UNCHANGED <<deviceVars, serverVars, refused>>

(* A refused push: the run throws, with all that it had still to send.     *)
ReceiveRefusal(f, r) ==
  /\ r \in requests /\ r.by = f /\ r.at = "refused"
  /\ requests' = requests \ {r}
  /\ sending' = [sending EXCEPT ![f] = Resting]
  /\ UNCHANGED <<deviceVars, serverVars, requested, refused, faults>>

ReceiveAcks(f, r) ==
  /\ r \in requests /\ r.by = f /\ r.at = "ingesting" /\ r.envelopes = {}
  /\ requests' = requests \ {r}
  /\ sending' = [sending EXCEPT ![f] =
       [at |-> "accepting", rows |-> sending[f].rows, progressed |-> sending[f].progressed,
        acks |-> r.acks]]
  /\ UNCHANGED <<deviceVars, serverVars, requested, refused, faults>>

(* A row that another sender's answer already removed is left alone. *)
Accept(f, a) ==
  /\ sending[f].at = "accepting"
  /\ a \in sending[f].acks
  /\ sending' = [sending EXCEPT ![f].acks = @ \ {a}, ![f].progressed = @ \/ a.op \in queue]
  /\ IF a.op \in queue THEN AcceptAck(a.op, a.status) ELSE UNCHANGED deviceVars
  /\ UNCHANGED <<serverVars, requested, requests, refused, faults>>

NextBatch(f) ==
  /\ sending[f].at = "accepting"
  /\ sending[f].acks = {}
  /\ sending' = [sending EXCEPT ![f] =
       [at |-> "pushing", rows |-> sending[f].rows, progressed |-> sending[f].progressed]]
  /\ UNCHANGED <<deviceVars, serverVars, requested, requests, refused, faults>>

-----------------------------------------------------------------------------
(* The server, with one push at several stages.                            *)

Replace(r, s) == requests' = (requests \ {r}) \cup {s}

(* The answer is an error: what is left is not examined, and the answers   *)
(* to the envelopes that were are not sent.                                *)
Refuse(r) ==
  /\ Replace(r, [r EXCEPT !.at = "refused", !.envelopes = {}, !.acks = {}])
  /\ UNCHANGED serverVars

(* OfflineDeliveryService.push: the single-use challenge is consumed and   *)
(* the knowledge recorded in one transaction, before any envelope.  If some *)
(* of it cannot be recorded, the push is refused.                          *)
Consume(r) ==
  /\ r.at = "sent"
  /\ \/ /\ RecordCheckpoints(r.knowledge)
        /\ Replace(r, [r EXCEPT !.at = "ingesting"])
     \/ /\ ~ AllRecordable(r.knowledge)
        /\ Refuse(r)
  /\ UNCHANGED <<deviceVars, requested, sending, refused, faults>>

(* What makes ingest throw: another envelope was answered under the same   *)
(* identifier, the envelope contradicts the recorded head or the chain, or *)
(* its effect is refused (the session does not take the sale, the epoch of *)
(* the receipt is over).                                                   *)
Throws(o) ==
  /\ ~ \E s \in results : s.envelope = o
  /\ \/ Answered(o)
     \/ Validated(o) /\ ~ HeadAgrees(o)
     \/ /\ Validated(o) /\ ~ Waits(o)
        /\ Ready(o) /\ SessionIsOurs(o) => o.id \in refused

(* HistoricalDeliveryIngestion.deliver, one transaction for each envelope: *)
(* it is applied or rejected, its stored answer is repeated, it waits, or  *)
(* it throws and the whole push with it.                                   *)
Reply(r, o, status) ==
  Replace(r, [r EXCEPT !.envelopes = @ \ {o}, !.acks = @ \cup {[op |-> o, status |-> status]}])

(* Mutated form: a waiting envelope is acknowledged. *)
IngestEagerly(r, o) ==
  /\ r.at = "ingesting"
  /\ o \in r.envelopes
  /\ \/ Apply(o) /\ o.id \notin refused /\ Reply(r, o, "ACKED")
     \/ SecurityReject(o) /\ Reply(r, o, "SECURITY_REJECTED")
     \/ \E s \in results : s.envelope = o /\ Reply(r, o, s.status) /\ UNCHANGED serverVars
     \/ /\ ~ Answered(o) /\ Validated(o) /\ HeadAgrees(o)
        /\ Waits(o)
        /\ Reply(r, o, "ACKED")
        /\ UNCHANGED serverVars
     \/ Throws(o) /\ Refuse(r)
  /\ UNCHANGED <<deviceVars, requested, sending, refused, faults>>

Ingest(r, o) ==
  /\ r.at = "ingesting"
  /\ o \in r.envelopes
  /\ \/ Apply(o) /\ o.id \notin refused /\ Reply(r, o, "ACKED")
     \/ SecurityReject(o) /\ Reply(r, o, "SECURITY_REJECTED")
     \/ \E s \in results : s.envelope = o /\ Reply(r, o, s.status) /\ UNCHANGED serverVars
     \/ /\ ~ Answered(o) /\ Validated(o) /\ HeadAgrees(o)
        /\ Waits(o)
        /\ Replace(r, [r EXCEPT !.envelopes = @ \ {o}])
        /\ UNCHANGED serverVars
     \/ Throws(o) /\ Refuse(r)
  /\ UNCHANGED <<deviceVars, requested, sending, refused, faults>>

(* The answer to a sender that is gone. *)
Unread(r) ==
  /\ r.by = None /\ r.at \in {"ingesting", "refused"} /\ r.envelopes = {}
  /\ requests' = requests \ {r}
  /\ UNCHANGED <<deviceVars, serverVars, requested, sending, refused, faults>>

Administer ==
  /\ \/ "DEVICE" \in Revocable /\ RevokeDevice(ThisDevice)
     \/ \E a \in Actor \cap Revocable : DeactivateMember(a)
     \/ \E a \in Returning : ReactivateMember(a)
  /\ UNCHANGED <<deviceVars, requested, sending, requests, refused, faults>>

(* A sale is refused while its session is being closed or is closed, and   *)
(* every operation once the epoch of its grant is over: what happens to a  *)
(* pending operation, for a time or for good.                              *)
Hinder ==
  /\ \E o \in queue \ operations :
       o.id \in Refusable \ refused /\ refused' = refused \cup {o.id}
  /\ UNCHANGED <<deviceVars, serverVars, requested, sending, requests, faults>>

Relieve ==
  /\ \E i \in refused : refused' = refused \ {i}
  /\ UNCHANGED <<deviceVars, serverVars, requested, sending, requests, faults>>

(* The device learns of a revocation only from a server that decided it.   *)
(* (Tabs that lose the lease are explored in OfflineDevice: what they seal  *)
(* does not depend on the server.)                                         *)
StartKnown(t, w) ==
  /\ Start(t, w)
  /\ w.do = "learn" => TargetRevoked(ThisDevice, w.target)

DeviceStep ==
  /\ TabStep \/ \E t \in Tab, w \in Command : StartKnown(t, w)
  /\ UNCHANGED <<serverVars, requested, sending, requests, refused, faults>>

SenderStep(f) ==
  \/ ReadRows(f) \/ Push(f) \/ Continue(f) \/ NextBatch(f)
  \/ sending[f].at = "accepting" /\ \E a \in sending[f].acks : Accept(f, a)
  \/ \E r \in requests : ReceiveAcks(f, r) \/ ReceiveRefusal(f, r)

ServerStep(f) ==
  \E r \in requests :
    r.by = f /\ (Consume(r) \/ Unread(r) \/ \E o \in r.envelopes : Ingest(r, o))

Next ==
  \/ DeviceStep
  \/ \E f \in Sender : Wake(f) \/ SenderStep(f) \/ GiveUp(f)
  \/ \E f \in Sender \cup {None} : ServerStep(f)
  \/ Administer \/ Hinder \/ Relieve

Spec == Init /\ [][Next]_allVars

-----------------------------------------------------------------------------
(* Properties.                                                             *)

(* A row leaves the queue, and its records the device, only when the       *)
(* operation is durably applied: whatever requests are lost, cut short or  *)
(* handled late, each sealed operation is on the device or on the server.  *)
DeletedOnlyWhenEffective ==
  \A o \in Logged :
    /\ o \in queue \/ o \in operations
    /\ Final(o.id) => o \in operations

(* The server never rejects what a device that follows the protocol has    *)
(* sealed, whatever the order of delivery, nor does an envelope of it make *)
(* a push throw unless its effect is refused, ...                          *)
HonestNeverRejected ==
  /\ \A r \in results : r.status = "ACKED"
  /\ \A r \in requests : \A o \in r.envelopes : Throws(o) => o.id \in refused

(* ... and no knowledge it signed, as long as the revocation stands.       *)
HonestKnowledgeRecordable ==
  \A k \in knowledge : TargetRevoked(ThisDevice, k.target) => Recordable(k)

(* What the system promises of a device, with the operations as effects.   *)
Promise == INSTANCE LegitimateDelivery WITH
  Sealable <- Operation, sealed <- log, effects <- operations,
  answered <- {o \in Logged : Final(o.id)}

EffectsInOrderOnce == Promise!Spec

(* Fairness: while a run that was asked for has not started or ended, some *)
(* run or the server's handling of its push goes on.  Nothing is assumed   *)
(* of browser events.                                                      *)
Fairness == WF_allVars(\E f \in Sender : SenderStep(f) \/ ServerStep(f))

FairSpec == Spec /\ Fairness

(* What no delivery gets past: the device keeps the knowledge it signed of *)
(* a user who is active again, or the effect of some queued operation is   *)
(* refused.                                                                *)
Obstructed ==
  \/ \E k \in knowledge : ~ TargetRevoked(ThisDevice, k.target)
  \/ \E o \in queue : o.id \in refused

(* Once requests are no longer lost, one browser event after the seal is   *)
(* enough for an operation to be answered, although batches are cut without *)
(* regard to the chain, unless the delivery is obstructed in the meantime:  *)
(* after that it takes another event, because nothing else tries again.    *)
EverySealIsAnswered ==
  \A i \in Id :
    ((\E o \in Logged : o.id = i) /\ requested # {} /\ faults = 0)
      ~> (Final(i) \/ Obstructed)
=============================================================================
