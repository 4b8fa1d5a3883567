--------------------------- MODULE Configuration ---------------------------
(***************************************************************************)
(* The configuration a device sells with offline, and the barrier that has *)
(* to be passed before what it means may change.                           *)
(*                                                                         *)
(* A grant exposes a snapshot of the catalog and the currency to a device. *)
(* While it is open the server must assume that the device has sold, or    *)
(* will sell, any of it.  A barrier makes sure it does not: every device   *)
(* freezes, delivers what it has and signs where its chain ends.           *)
(*                                                                         *)
(* Every command of the server takes the row of the organization FOR       *)
(* UPDATE and is one step.  Those of a device are one step each too, under *)
(* its lease (OfflineDevice), but refreshing an authorization is four, as  *)
(* its requests and answers may be lost or late, and users of one device   *)
(* share its chain and its freeze but not their authorizations.  An        *)
(* exposure and its grant end together, in complete, and are one record.   *)
(***************************************************************************)
EXTENDS Integers, Sequences, FiniteSets

CONSTANTS
  Device,
  Identity,      \* users of a device, with a PIN of their own
  DeviceOf,      \* the device of each
  Item,          \* catalog items; Category: rows that only advance the epoch
  Kind,          \* type, unit and inventory control: what a sold item means
  Currency,
  Absent,
  MaxEpoch,      \* bound: config_epoch
  MaxGrants,     \* bound: grants
  MaxBarriers,   \* bound: barriers
  MaxSequence    \* bound: operations of a device

ASSUME ConfigurationAssumption ==
  /\ DeviceOf \in [Identity -> Device]
  /\ Absent \notin Kind
  /\ MaxEpoch \in Nat /\ MaxGrants \in Nat /\ MaxBarriers \in Nat /\ MaxSequence \in Nat

VARIABLES
  epoch,         \* organizations.config_epoch
  currency,      \* organizations.base_currency
  permanent,     \* organizations.currency_permanently_locked_at is set
  catalog,       \* catalog_items
  priced,        \* items with a row in catalog_price_versions
  grants,        \* offline_grants, with the snapshot of their version
  barriers,      \* configuration_barriers
  checkpoints,   \* configuration_checkpoints
  applied,       \* how much of a device's chain is in sync_operations, ACKED
  lost,          \* devices that are not ACTIVE any more
  chain,         \* what a device has sealed
  confirmed,     \* how much of it the device knows to be acknowledged
  freeze,        \* the barrier a device is frozen for
  authorization, \* the grant a user holds on the device
  request        \* a user's refresh under way: its grant and what it proved

organizationVars == <<epoch, currency, permanent, catalog, priced>>
grantVars == <<grants, barriers, checkpoints>>
deliveryVars == <<applied, lost>>
deviceVars == <<chain, confirmed, freeze, authorization, request>>
configurationVars == <<organizationVars, grantVars, deliveryVars, deviceVars>>

CatalogItem == [kind: Kind, status: {"ACTIVE", "INACTIVE", "DELETED"}]
Snapshot == [Item -> Kind \cup {Absent}]
Grant == [device: Device, epoch: Nat, sees: Snapshot, currency: Currency,
          authorized: BOOLEAN, closed: BOOLEAN]
Barrier == [epoch: Nat, status: {"ACTIVE", "COMPLETED"}]
Checkpoint == [barrier: Nat, grant: Nat, sequence: Nat]
Operation ==
  [grant: Nat, item: Item, identity: Identity,
   late: BOOLEAN]  \* history: its grant was closed when it was sealed
Unproved == -1
Request == [grant: Nat, proof: Nat \cup {Unproved}]
NoRequest == [grant |-> 0, proof |-> Unproved]

Grants == 1..Len(grants)
Barriers == 1..Len(barriers)

ConfigurationTypeOK ==
  /\ epoch \in Nat /\ currency \in Currency /\ permanent \in BOOLEAN
  /\ catalog \in [Item -> CatalogItem] /\ priced \subseteq Item
  /\ grants \in Seq(Grant) /\ barriers \in Seq(Barrier)
  /\ checkpoints \subseteq Checkpoint
  /\ applied \in [Device -> Nat] /\ lost \subseteq Device
  /\ chain \in [Device -> Seq(Operation)] /\ confirmed \in [Device -> Nat]
  /\ \A d \in Device : confirmed[d] <= applied[d] /\ applied[d] <= Len(chain[d])
  /\ freeze \in [Device -> 0..Len(barriers)]
  /\ authorization \in [Identity -> 0..Len(grants)]
  /\ request \in [Identity -> Request]
  /\ \A a \in Identity : request[a].grant \in 0..Len(grants)

ConfigurationInit ==
  /\ epoch = 1 /\ permanent = FALSE /\ priced = {}
  /\ currency \in Currency
  /\ catalog \in [Item -> [kind: Kind, status: {"ACTIVE"}]]
  /\ grants = <<>> /\ barriers = <<>> /\ checkpoints = {}
  /\ applied = [d \in Device |-> 0] /\ lost = {}
  /\ chain = [d \in Device |-> <<>>] /\ confirmed = [d \in Device |-> 0]
  /\ freeze = [d \in Device |-> 0]
  /\ authorization = [a \in Identity |-> 0]
  /\ request = [a \in Identity |-> NoRequest]

-----------------------------------------------------------------------------
(* ResourceSafetyService.                                                  *)

History(i) == \E d \in Device : \E n \in 1..applied[d] : chain[d][n].item = i
Uncertain(i) == \E g \in Grants : ~grants[g].closed /\ grants[g].sees[i] # Absent

Clear(i) == ~History(i) /\ ~Uncertain(i)

(* Mutated form: a grant nobody has authorized yet does not count. *)
CurrencyClearUnauthorized ==
  /\ ~permanent
  /\ priced = {} /\ \A d \in Device : applied[d] = 0
  /\ \A g \in Grants : grants[g].authorized => grants[g].closed

CurrencyClear ==
  /\ ~permanent
  /\ priced = {} /\ \A d \in Device : applied[d] = 0
  /\ \A g \in Grants : grants[g].closed

NoBarrier == \A b \in Barriers : barriers[b].status = "COMPLETED"

Advance == epoch < MaxEpoch /\ epoch' = epoch + 1

-----------------------------------------------------------------------------
(* Grants: ConfigurationVersionService.issue, ConfigurationBarrierService. *)
(* issueGrant, OfflineBootstrapService.issue and OfflineGrantService.issue. *)

(* A version and a grant of it, with its exposure.                         *)
AddGrant(d) ==
  /\ NoBarrier /\ d \notin lost
  /\ Len(grants) < MaxGrants
  /\ grants' = Append(grants,
       [device |-> d, epoch |-> epoch, currency |-> currency, authorized |-> FALSE, closed |-> FALSE,
        sees |-> [i \in Item |-> IF catalog[i].status = "ACTIVE" THEN catalog[i].kind ELSE Absent]])
  /\ UNCHANGED <<organizationVars, barriers, checkpoints, deliveryVars>>

(* A grant a manager issues, which nobody comes to be authorized with.     *)
IssueGrant(d) == AddGrant(d) /\ UNCHANGED deviceVars

(* The bootstrap: a grant is reserved under the retry key the device keeps, *)
(* so that an answer that is lost is given again.                          *)
Reserve(a) ==
  /\ request[a] = NoRequest
  /\ AddGrant(DeviceOf[a])
  /\ request' = [request EXCEPT ![a].grant = Len(grants) + 1]
  /\ UNCHANGED <<chain, confirmed, freeze, authorization>>

(* What the device proves of its chain.  It stays what it was when first   *)
(* sent: a retry with another proof is refused as a reuse of the key.      *)
Prove(a) ==
  /\ request[a].grant # 0 /\ request[a].proof = Unproved
  /\ request' = [request EXCEPT ![a].proof = Len(chain[DeviceOf[a]])]
  /\ UNCHANGED <<organizationVars, grantVars, deliveryVars, chain, confirmed, freeze, authorization>>

(* OfflineGrantService.issue, when the server has exactly what was proved. *)
Authorize(a) ==
  LET g == request[a].grant IN
  /\ g # 0 /\ request[a].proof = applied[DeviceOf[a]]
  /\ ~grants[g].authorized /\ ~grants[g].closed
  /\ grants[g].epoch = epoch /\ NoBarrier /\ DeviceOf[a] \notin lost
  /\ grants' = [grants EXCEPT ![g].authorized = TRUE]
  /\ UNCHANGED <<organizationVars, barriers, checkpoints, deliveryVars, deviceVars>>

(* The lease is asserted, then OfflineAuthorization.install: whether the   *)
(* device was frozen meanwhile is not looked at.                           *)
Install(a) ==
  LET g == request[a].grant IN
  /\ g # 0 /\ grants[g].authorized
  /\ request[a].proof = Len(chain[DeviceOf[a]])
  /\ authorization' = [authorization EXCEPT ![a] = g]
  /\ request' = [request EXCEPT ![a] = NoRequest]
  /\ UNCHANGED <<organizationVars, grantVars, deliveryVars, chain, confirmed, freeze>>

-----------------------------------------------------------------------------
(* Selling and delivering.                                                 *)

(* An operation of the device: not frozen, and something the user's grant  *)
(* shows.                                                                  *)
Seal(a, i) ==
  LET d == DeviceOf[a]  g == authorization[a] IN
  /\ freeze[d] = 0 /\ g # 0 /\ grants[g].sees[i] # Absent
  /\ Len(chain[d]) < MaxSequence
  /\ chain' = [chain EXCEPT ![d] =
       Append(@, [grant |-> g, item |-> i, identity |-> a, late |-> grants[g].closed])]
  /\ UNCHANGED <<organizationVars, grantVars, deliveryVars, confirmed, freeze, authorization, request>>

(* coordinate_sync_operation_with_configuration_barrier, the trigger of    *)
(* every receipt.                                                          *)
Acceptable(o) == ~grants[o.grant].closed /\ grants[o.grant].epoch = epoch

(* HistoricalDeliveryIngestion.ingest of the next operation of the chain.  *)
Ingest(d) ==
  /\ applied[d] < Len(chain[d])
  /\ Acceptable(chain[d][applied[d] + 1])
  /\ applied' = [applied EXCEPT ![d] = @ + 1]
  /\ UNCHANGED <<organizationVars, grantVars, lost, deviceVars>>

(* The acknowledgements arrive, the first time or when it is sent again.   *)
Confirm(d) ==
  /\ confirmed[d] < applied[d]
  /\ confirmed' = [confirmed EXCEPT ![d] = applied[d]]
  /\ UNCHANGED <<organizationVars, grantVars, deliveryVars, chain, freeze, authorization, request>>

(* A device is revoked, or declared unrecoverable: the currency of what it *)
(* may have sold stays for good.                                           *)
LoseDevice(d, declared) ==
  /\ d \notin lost
  /\ lost' = lost \cup {d}
  /\ permanent' = (permanent \/ (declared /\ \E g \in Grants : grants[g].device = d /\ ~grants[g].closed))
  /\ UNCHANGED <<epoch, currency, catalog, priced, grantVars, applied, deviceVars>>

-----------------------------------------------------------------------------
(* The barrier.                                                            *)

Begin ==
  /\ NoBarrier /\ Len(barriers) < MaxBarriers
  /\ barriers' = Append(barriers, [epoch |-> epoch, status |-> "ACTIVE"])
  /\ UNCHANGED <<organizationVars, grants, checkpoints, deliveryVars, deviceVars>>

(* OfflineConfigurationBarrier.freeze, with a barrier read earlier.        *)
Freeze(d, b) ==
  /\ freeze[d] = 0
  /\ freeze' = [freeze EXCEPT ![d] = b]
  /\ UNCHANGED <<organizationVars, grantVars, deliveryVars, chain, confirmed, authorization, request>>

AckContinuous(d, n) == applied[d] = n

(* checkpoints and submitCheckpoint: a frozen device with nothing left to  *)
(* deliver signs for each grant of its own that may have been used.        *)
SubmitCheckpoint(d, g) ==
  LET b == freeze[d] IN
  /\ b # 0 /\ confirmed[d] = Len(chain[d])
  /\ barriers[b].status = "ACTIVE"
  /\ grants[g].device = d /\ ~grants[g].closed /\ grants[g].epoch <= barriers[b].epoch
  /\ AckContinuous(d, Len(chain[d]))
  /\ checkpoints' = checkpoints \cup {[barrier |-> b, grant |-> g, sequence |-> Len(chain[d])]}
  /\ UNCHANGED <<organizationVars, grants, barriers, deliveryVars, deviceVars>>

Covered(b, g) ==
  \E c \in checkpoints : c.barrier = b /\ c.grant = g /\ AckContinuous(grants[g].device, c.sequence)

(* Mutated form: only the grants of the epoch have to be covered. *)
CompleteOneEpoch(b) ==
  /\ barriers[b].status = "ACTIVE"
  /\ \A g \in Grants : ~grants[g].closed /\ grants[g].epoch = barriers[b].epoch => Covered(b, g)
  /\ grants' = [g \in Grants |->
       IF grants[g].epoch <= barriers[b].epoch THEN [grants[g] EXCEPT !.closed = TRUE] ELSE grants[g]]
  /\ barriers' = [barriers EXCEPT ![b].status = "COMPLETED"]
  /\ Advance
  /\ UNCHANGED <<currency, permanent, catalog, priced, checkpoints, deliveryVars, deviceVars>>

Complete(b) ==
  /\ barriers[b].status = "ACTIVE"
  /\ \A g \in Grants : ~grants[g].closed /\ grants[g].epoch <= barriers[b].epoch => Covered(b, g)
  /\ grants' = [g \in Grants |->
       IF grants[g].epoch <= barriers[b].epoch THEN [grants[g] EXCEPT !.closed = TRUE] ELSE grants[g]]
  /\ barriers' = [barriers EXCEPT ![b].status = "COMPLETED"]
  /\ Advance
  /\ UNCHANGED <<currency, permanent, catalog, priced, checkpoints, deliveryVars, deviceVars>>

(* Mutated form: a grant of the barrier's own epoch is good enough. *)
ResumeSameEpoch(a) ==
  LET d == DeviceOf[a]  g == authorization[a] IN
  /\ freeze[d] # 0 /\ g # 0
  /\ grants[g].epoch >= barriers[freeze[d]].epoch
  /\ confirmed[d] = Len(chain[d])
  /\ freeze' = [freeze EXCEPT ![d] = 0]
  /\ UNCHANGED <<organizationVars, grantVars, deliveryVars, chain, confirmed, authorization, request>>

(* OfflineConfigurationBarrier.resume, by one of the users of the device.  *)
Resume(a) ==
  LET d == DeviceOf[a]  g == authorization[a] IN
  /\ freeze[d] # 0 /\ g # 0
  /\ grants[g].epoch > barriers[freeze[d]].epoch
  /\ confirmed[d] = Len(chain[d])
  /\ freeze' = [freeze EXCEPT ![d] = 0]
  /\ UNCHANGED <<organizationVars, grantVars, deliveryVars, chain, confirmed, authorization, request>>

-----------------------------------------------------------------------------
(* What managers do to the catalog and the currency.                       *)

(* changeStatus of an item: always allowed, and a new epoch.               *)
ChangeStatus(i) ==
  /\ catalog[i].status # "DELETED"
  /\ catalog' = [catalog EXCEPT ![i].status = IF @ = "ACTIVE" THEN "INACTIVE" ELSE "ACTIVE"]
  /\ Advance
  /\ UNCHANGED <<currency, permanent, priced, grantVars, deliveryVars, deviceVars>>

(* CatalogCategoryManagementService: creating, renaming or changing the    *)
(* status of a category is a new epoch too.                                *)
EditCategory ==
  /\ Advance
  /\ UNCHANGED <<currency, permanent, catalog, priced, grantVars, deliveryVars, deviceVars>>

ChangeStructural(i, k) ==
  /\ catalog[i].status # "DELETED"
  /\ Clear(i) /\ NoBarrier
  /\ catalog' = [catalog EXCEPT ![i].kind = k]
  /\ Advance
  /\ UNCHANGED <<currency, permanent, priced, grantVars, deliveryVars, deviceVars>>

DeletePhysically(i) ==
  /\ catalog[i].status # "DELETED"
  /\ NoBarrier /\ Clear(i) /\ i \notin priced
  /\ catalog' = [catalog EXCEPT ![i].status = "DELETED"]
  /\ Advance
  /\ UNCHANGED <<currency, permanent, priced, grantVars, deliveryVars, deviceVars>>

(* The price is part of neither, but it is history of the currency.        *)
SetPrice(i) ==
  /\ catalog[i].status # "DELETED"
  /\ priced' = priced \cup {i}
  /\ UNCHANGED <<epoch, currency, permanent, catalog, grantVars, deliveryVars, deviceVars>>

ChangeCurrency(c) ==
  /\ NoBarrier /\ CurrencyClear
  /\ currency' = c
  /\ UNCHANGED <<epoch, permanent, catalog, priced, grantVars, deliveryVars, deviceVars>>

-----------------------------------------------------------------------------
RefreshStep == \E a \in Identity : Reserve(a) \/ Prove(a) \/ Authorize(a) \/ Install(a)

DeliveryStep ==
  \E d \in Device : Ingest(d) \/ Confirm(d) \/ \E x \in BOOLEAN : LoseDevice(d, x)

BarrierStep ==
  \/ Begin
  \/ \E d \in Device : \E b \in Barriers : Freeze(d, b)
  \/ \E d \in Device : \E g \in Grants : SubmitCheckpoint(d, g)
  \/ \E b \in Barriers : Complete(b)
  \/ \E a \in Identity : Resume(a)

CatalogStep ==
  \/ EditCategory
  \/ \E i \in Item : ChangeStatus(i) \/ DeletePhysically(i) \/ SetPrice(i)
  \/ \E i \in Item, k \in Kind : ChangeStructural(i, k)
  \/ \E c \in Currency : ChangeCurrency(c)

ConfigurationNext ==
  \/ RefreshStep \/ DeliveryStep \/ BarrierStep \/ CatalogStep
  \/ \E d \in Device : IssueGrant(d)
  \/ \E a \in Identity, i \in Item : Seal(a, i)

ConfigurationSpec == ConfigurationInit /\ [][ConfigurationNext]_configurationVars

-----------------------------------------------------------------------------
(* Whatever the catalog and the currency have become, an operation means   *)
(* what it meant when it was sealed: its item was not deleted and is what  *)
(* the grant showed, and so is the currency, whether the server has it yet *)
(* or not.                                                                 *)
KeepsMeaning(o) ==
  LET g == grants[o.grant] IN
  /\ catalog[o.item].status # "DELETED" /\ catalog[o.item].kind = g.sees[o.item]
  /\ currency = g.currency

SealedKeepsItsMeaning ==
  \A d \in Device : \A n \in 1..Len(chain[d]) : ~chain[d][n].late => KeepsMeaning(chain[d][n])

(* A grant is closed when everything sealed with it has been applied, and  *)
(* nothing more is sealed with it by a user who has not been left behind:  *)
(* one whose device another of its users brought back with a newer grant.  *)
ClosedGrantsAreSpent ==
  \A d \in Device : \A n \in 1..Len(chain[d]) :
    LET o == chain[d][n] IN
    /\ grants[o.grant].closed /\ ~o.late => n <= applied[d]
    /\ o.late => \E a \in Identity \ {o.identity} :
                   DeviceOf[a] = d /\ authorization[a] # 0
                   /\ grants[authorization[a]].epoch > grants[o.grant].epoch

(* A checkpoint that a barrier in progress relies on goes on being true:   *)
(* the device has sealed nothing since, and stays frozen.                  *)
CheckpointHolds ==
  \A c \in checkpoints :
    barriers[c.barrier].status = "ACTIVE" =>
      LET d == grants[c.grant].device IN
      freeze[d] = c.barrier /\ Len(chain[d]) = c.sequence /\ applied[d] = c.sequence

(* What the specification says of late operations: one that was sealed     *)
(* with a valid grant is accepted, even if the catalog changed meanwhile.  *)
LateOperationsAccepted ==
  \A d \in Device :
    applied[d] < Len(chain[d]) /\ ~chain[d][applied[d] + 1].late =>
      Acceptable(chain[d][applied[d] + 1])
=============================================================================
