------------------------ MODULE Configuration_proofs ------------------------
(***************************************************************************)
(* What holds of the configuration for every set of devices, users, items  *)
(* and currencies.  The argument is about grants.  An open grant agrees    *)
(* with the catalog and the currency (OpenGrantsAgree), for whatever it    *)
(* shows may not change; a barrier covers every grant there is (Epochs),   *)
(* so that a device that signed for it can not be brought back before it   *)
(* is completed; and a grant it closes leaves its device frozen, or with a *)
(* user who holds a newer one (LeftBehind).                                *)
(***************************************************************************)
EXTENDS Configuration, TLAPS, SequenceTheorems

Linked ==
  /\ \A d \in Device : \A n \in 1..Len(chain[d]) :
       /\ chain[d][n].grant \in Grants
       /\ grants[chain[d][n].grant].device = d
       /\ grants[chain[d][n].grant].sees[chain[d][n].item] # Absent
  /\ \A a \in Identity : authorization[a] # 0 => grants[authorization[a]].device = DeviceOf[a]
  /\ \A a \in Identity : request[a].grant # 0 => grants[request[a].grant].device = DeviceOf[a]
  /\ \A c \in checkpoints : c.barrier \in Barriers /\ c.grant \in Grants

Epochs ==
  /\ \A g \in Grants : grants[g].epoch <= epoch
  /\ \A b \in Barriers, g \in Grants :
       barriers[b].status = "ACTIVE" => grants[g].epoch <= barriers[b].epoch
  /\ \A a \in Identity :
       authorization[a] # 0 /\ request[a].grant # 0 =>
         grants[authorization[a]].epoch <= grants[request[a].grant].epoch

OpenGrantsAgree ==
  \A g \in Grants :
    ~grants[g].closed =>
      /\ grants[g].currency = currency
      /\ \A i \in Item :
           grants[g].sees[i] # Absent =>
             catalog[i].status # "DELETED" /\ catalog[i].kind = grants[g].sees[i]

(* Somebody holds a newer grant than g on its device. *)
Renewed(g) ==
  \E a \in Identity :
    /\ DeviceOf[a] = grants[g].device /\ authorization[a] # 0
    /\ grants[authorization[a]].epoch > grants[g].epoch

LeftBehind ==
  \A g \in Grants :
    grants[g].closed =>
      \/ Renewed(g)
      \/ /\ freeze[grants[g].device] # 0
         /\ grants[g].epoch <= barriers[freeze[grants[g].device]].epoch

ConfigurationInv ==
  /\ ConfigurationTypeOK
  /\ Linked /\ Epochs /\ OpenGrantsAgree /\ LeftBehind
  /\ CheckpointHolds /\ ClosedGrantsAreSpent /\ SealedKeepsItsMeaning

-----------------------------------------------------------------------------
(* What the operations do to the sequences.                                *)

LEMMA ElementTypes ==
  ASSUME ConfigurationTypeOK
  PROVE  /\ \A g \in Grants : grants[g] \in Grant
         /\ \A b \in Barriers : barriers[b] \in Barrier
         /\ \A d \in Device : \A n \in 1..Len(chain[d]) : chain[d][n] \in Operation
         /\ Len(grants) \in Nat /\ Len(barriers) \in Nat
         /\ \A d \in Device : Len(chain[d]) \in Nat
BY ElementOfSeq, LenProperties DEF ConfigurationTypeOK, Grants, Barriers

LEMMA GrantAdded ==
  ASSUME ConfigurationTypeOK, NEW d \in Device, AddGrant(d)
  PROVE  /\ grants' \in Seq(Grant) /\ Len(grants') = Len(grants) + 1
         /\ \A g \in Grants : grants'[g] = grants[g]
         /\ grants'[Len(grants) + 1] =
              [device |-> d, epoch |-> epoch, currency |-> currency, authorized |-> FALSE, closed |-> FALSE,
               sees |-> [i \in Item |-> IF catalog[i].status = "ACTIVE" THEN catalog[i].kind ELSE Absent]]
<1> DEFINE new == [device |-> d, epoch |-> epoch, currency |-> currency, authorized |-> FALSE, closed |-> FALSE,
                   sees |-> [i \in Item |-> IF catalog[i].status = "ACTIVE" THEN catalog[i].kind ELSE Absent]]
<1>1. [i \in Item |-> IF catalog[i].status = "ACTIVE" THEN catalog[i].kind ELSE Absent] \in Snapshot
  BY DEF ConfigurationTypeOK, Snapshot, CatalogItem
<1>2. new \in Grant
  BY <1>1 DEF ConfigurationTypeOK, Grant
<1>3. grants' = Append(grants, new) /\ grants \in Seq(Grant)
  BY DEF AddGrant, ConfigurationTypeOK
<1> HIDE DEF new
<1> QED
  BY <1>2, <1>3, AppendProperties DEF Grants, new

LEMMA GrantAddedFields ==
  ASSUME ConfigurationTypeOK, NEW d \in Device, AddGrant(d)
  PROVE  grants'[Len(grants) + 1].device = d /\ grants'[Len(grants) + 1].epoch = epoch
<1>1. grants'[Len(grants) + 1] =
        [device |-> d, epoch |-> epoch, currency |-> currency, authorized |-> FALSE, closed |-> FALSE,
         sees |-> [i \in Item |-> IF catalog[i].status = "ACTIVE" THEN catalog[i].kind ELSE Absent]]
  BY GrantAdded
<1> QED
  BY <1>1

LEMMA GrantsClosed ==
  ASSUME ConfigurationTypeOK, NEW b \in Barriers, Complete(b)
  PROVE  /\ grants' \in Seq(Grant) /\ Len(grants') = Len(grants)
         /\ \A g \in Grants :
              grants'[g] = IF grants[g].epoch <= barriers[b].epoch
                           THEN [grants[g] EXCEPT !.closed = TRUE] ELSE grants[g]
         /\ \A g \in Grants :
              /\ grants'[g].device = grants[g].device /\ grants'[g].epoch = grants[g].epoch
              /\ grants'[g].sees = grants[g].sees /\ grants'[g].currency = grants[g].currency
              /\ grants'[g].authorized = grants[g].authorized
              /\ grants[g].closed => grants'[g].closed
<1> DEFINE close(g) == IF grants[g].epoch <= barriers[b].epoch
                       THEN [grants[g] EXCEPT !.closed = TRUE] ELSE grants[g]
<1>1. \A g \in Grants : close(g) \in Grant
  BY ElementTypes DEF Grant
<1>2. grants' = [g \in Grants |-> close(g)]
  BY DEF Complete
<1>3. \A g \in Grants :
        /\ close(g).device = grants[g].device /\ close(g).epoch = grants[g].epoch
        /\ close(g).sees = grants[g].sees /\ close(g).currency = grants[g].currency
        /\ close(g).authorized = grants[g].authorized
        /\ grants[g].closed => close(g).closed
  BY ElementTypes DEF Grant
<1> HIDE DEF close
<1>4. grants' \in [1..Len(grants) -> Grant] /\ Len(grants) \in Nat
  BY <1>1, <1>2, ElementTypes DEF Grants
<1>5. grants' \in Seq(Grant)
  BY <1>4, SeqDef
<1>6. Len(grants') = Len(grants)
  BY <1>4, <1>5, LenProperties
<1> QED
  BY <1>2, <1>3, <1>5, <1>6 DEF close

LEMMA GrantAuthorized ==
  ASSUME ConfigurationTypeOK, NEW a \in Identity, Authorize(a)
  PROVE  /\ grants' \in Seq(Grant) /\ Len(grants') = Len(grants)
         /\ \A g \in Grants :
              /\ grants'[g].device = grants[g].device /\ grants'[g].epoch = grants[g].epoch
              /\ grants'[g].sees = grants[g].sees /\ grants'[g].currency = grants[g].currency
              /\ grants'[g].closed = grants[g].closed
<1> DEFINE k == request[a].grant
<1>1. k \in Grants
  BY ElementTypes DEF Authorize, ConfigurationTypeOK, Grants, Request
<1>2. grants' = [grants EXCEPT ![k] = [grants[k] EXCEPT !.authorized = TRUE]]
  BY DEF Authorize
<1>3. [grants[k] EXCEPT !.authorized = TRUE] \in Grant
  BY <1>1, ElementTypes DEF Grant
<1>4. grants \in Seq(Grant)
  BY DEF ConfigurationTypeOK
<1> HIDE DEF k
<1>5. grants' \in Seq(Grant) /\ Len(grants') = Len(grants)
  BY <1>1, <1>2, <1>3, <1>4, ExceptSeq DEF Grants
<1>6. \A g \in Grants : grants[g] \in Grant /\ grants'[g] = IF g = k THEN [grants[k] EXCEPT !.authorized = TRUE] ELSE grants[g]
  BY <1>1, <1>2, <1>4, LenProperties, ElementTypes DEF Grants
<1> QED
  BY <1>5, <1>6 DEF Grant

LEMMA OperationSealed ==
  ASSUME ConfigurationTypeOK, NEW a \in Identity, NEW i \in Item, Seal(a, i)
  PROVE  LET d == DeviceOf[a] IN
         /\ d \in Device /\ authorization[a] \in Grants
         /\ chain' \in [Device -> Seq(Operation)]
         /\ \A e \in Device \ {d} : chain'[e] = chain[e]
         /\ Len(chain'[d]) = Len(chain[d]) + 1
         /\ \A n \in 1..Len(chain[d]) : chain'[d][n] = chain[d][n]
         /\ chain'[d][Len(chain[d]) + 1] =
              [grant |-> authorization[a], item |-> i, identity |-> a, late |-> grants[authorization[a]].closed]
<1> DEFINE d == DeviceOf[a]
           new == [grant |-> authorization[a], item |-> i, identity |-> a, late |-> grants[authorization[a]].closed]
<1>1. d \in Device
  BY ConfigurationAssumption
<1>2. authorization[a] \in Grants
  BY ElementTypes DEF Seal, ConfigurationTypeOK, Grants
<1>3. new \in Operation
  BY <1>2, ElementTypes DEF Operation, Grant, Grants
<1>4. chain' = [chain EXCEPT ![d] = Append(chain[d], new)] /\ chain \in [Device -> Seq(Operation)]
  BY DEF Seal, ConfigurationTypeOK
<1> HIDE DEF new
<1>5. Append(chain[d], new) \in Seq(Operation) /\ Len(Append(chain[d], new)) = Len(chain[d]) + 1
      /\ (\A n \in 1..Len(chain[d]) : Append(chain[d], new)[n] = chain[d][n])
      /\ Append(chain[d], new)[Len(chain[d]) + 1] = new
  BY <1>1, <1>3, <1>4, AppendProperties
<1> QED
  BY <1>1, <1>2, <1>4, <1>5 DEF new

-----------------------------------------------------------------------------
(* Types, and how far a device is confirmed.                               *)

LEMMA InitTypeOK == ConfigurationInit => ConfigurationTypeOK
<1> SUFFICES ASSUME ConfigurationInit PROVE ConfigurationTypeOK
  OBVIOUS
<1>1. catalog \in [Item -> CatalogItem]
  BY DEF ConfigurationInit, CatalogItem
<1>2. request \in [Identity -> Request] /\ \A a \in Identity : request[a].grant = 0
  BY DEF ConfigurationInit, NoRequest, Request, Unproved
<1>3. grants \in Seq(Grant) /\ Len(grants) = 0
  BY EmptySeq DEF ConfigurationInit
<1>4. barriers \in Seq(Barrier) /\ Len(barriers) = 0
  BY EmptySeq DEF ConfigurationInit
<1>5. chain \in [Device -> Seq(Operation)] /\ \A d \in Device : Len(chain[d]) = 0
  BY EmptySeq DEF ConfigurationInit
<1>6. applied \in [Device -> Nat] /\ confirmed \in [Device -> Nat]
      /\ \A d \in Device : confirmed[d] <= applied[d] /\ applied[d] <= Len(chain[d])
  BY <1>5 DEF ConfigurationInit
<1>7. /\ freeze \in [Device -> 0..Len(barriers)] /\ authorization \in [Identity -> 0..Len(grants)]
      /\ \A a \in Identity : request[a].grant \in 0..Len(grants)
  BY <1>2, <1>3, <1>4 DEF ConfigurationInit
<1> QED
  BY <1>1, <1>2, <1>3, <1>4, <1>5, <1>6, <1>7 DEF ConfigurationInit, ConfigurationTypeOK

LEMMA RefreshTypeOK ==
  ASSUME ConfigurationTypeOK, NEW a \in Identity,
         Reserve(a) \/ Prove(a) \/ Authorize(a) \/ Install(a)
  PROVE  ConfigurationTypeOK'
<1> USE DEF organizationVars, grantVars, deliveryVars, deviceVars
<1>0. DeviceOf[a] \in Device /\ Len(grants) \in Nat /\ Len(chain[DeviceOf[a]]) \in Nat
  BY ConfigurationAssumption, ElementTypes
<1>1. CASE Reserve(a)
  <2>1. grants' \in Seq(Grant) /\ Len(grants') = Len(grants) + 1
    BY <1>0, <1>1, GrantAdded DEF Reserve
  <2>2. request' = [request EXCEPT ![a] = [request[a] EXCEPT !.grant = Len(grants) + 1]]
    BY <1>1 DEF Reserve
  <2>3. request \in [Identity -> Request] /\ \A c \in Identity : request[c].grant \in 0..Len(grants)
    BY DEF ConfigurationTypeOK
  <2>4. [request[a] EXCEPT !.grant = Len(grants) + 1] \in Request
    BY <1>0, <2>3 DEF Request
  <2>5. request' \in [Identity -> Request] /\ \A c \in Identity : request'[c].grant \in 0..Len(grants')
    BY <1>0, <2>1, <2>2, <2>3, <2>4 DEF Request
  <2> QED
    BY SMTT(20), <1>0, <1>1, <2>1, <2>5 DEF Reserve, AddGrant, ConfigurationTypeOK
<1>2. CASE Prove(a)
  <2>1. request' \in [Identity -> Request] /\ \A c \in Identity : request'[c].grant = request[c].grant
    BY <1>0, <1>2 DEF Prove, ConfigurationTypeOK, Request
  <2> QED
    BY <1>2, <2>1 DEF Prove, ConfigurationTypeOK
<1>3. CASE Authorize(a)
  BY <1>3, GrantAuthorized DEF Authorize, ConfigurationTypeOK
<1>4. CASE Install(a)
  <2>1. request' \in [Identity -> Request] /\ \A c \in Identity : request'[c].grant \in 0..Len(grants)
    BY <1>0, <1>4 DEF Install, ConfigurationTypeOK, Request, NoRequest, Unproved
  <2>2. authorization' \in [Identity -> 0..Len(grants)]
    BY <1>4 DEF Install, ConfigurationTypeOK
  <2> QED
    BY <1>4, <2>1, <2>2 DEF Install, ConfigurationTypeOK
<1> QED
  BY <1>1, <1>2, <1>3, <1>4

LEMMA DeliveryTypeOK ==
  ASSUME ConfigurationTypeOK, NEW d \in Device,
         Ingest(d) \/ Confirm(d) \/ \E x \in BOOLEAN : LoseDevice(d, x)
  PROVE  ConfigurationTypeOK'
<1> USE DEF organizationVars, grantVars, deliveryVars, deviceVars
<1>0. Len(chain[d]) \in Nat
  BY ElementTypes
<1>1. CASE Ingest(d)
  BY <1>0, <1>1 DEF Ingest, ConfigurationTypeOK
<1>2. CASE Confirm(d)
  BY <1>0, <1>2 DEF Confirm, ConfigurationTypeOK
<1>3. CASE \E x \in BOOLEAN : LoseDevice(d, x)
  <2> PICK x \in BOOLEAN : LoseDevice(d, x)
    BY <1>3
  <2>1. permanent' \in BOOLEAN
    BY DEF LoseDevice
  <2> QED
    BY <2>1 DEF LoseDevice, ConfigurationTypeOK
<1> QED
  BY <1>1, <1>2, <1>3

LEMMA SealTypeOK ==
  ASSUME ConfigurationTypeOK, NEW a \in Identity, NEW i \in Item, Seal(a, i)
  PROVE  ConfigurationTypeOK'
<1> DEFINE d == DeviceOf[a]
<1>0. /\ \A e \in Device \ {d} : chain'[e] = chain[e]
      /\ Len(chain'[d]) = Len(chain[d]) + 1
  BY OperationSealed
<1>1. \A e \in Device : Len(chain[e]) \in Nat /\ Len(chain[e]) <= Len(chain'[e])
  <2> SUFFICES ASSUME NEW e \in Device PROVE Len(chain[e]) \in Nat /\ Len(chain[e]) <= Len(chain'[e])
    OBVIOUS
  <2>1. Len(chain[e]) \in Nat
    BY ElementTypes
  <2>2. CASE e = d
    BY <1>0, <2>1, <2>2
  <2>3. CASE e # d
    BY <1>0, <2>1, <2>3
  <2> QED
    BY <2>2, <2>3
<1>2. chain' \in [Device -> Seq(Operation)]
  BY OperationSealed
<1>3. \A e \in Device : confirmed[e] <= applied[e] /\ applied[e] <= Len(chain'[e])
  <2> SUFFICES ASSUME NEW e \in Device PROVE confirmed[e] <= applied[e] /\ applied[e] <= Len(chain'[e])
    OBVIOUS
  <2>1. confirmed[e] <= applied[e] /\ applied[e] <= Len(chain[e]) /\ applied[e] \in Nat
    BY DEF ConfigurationTypeOK
  <2>2. Len(chain'[e]) \in Nat
    BY <1>2, LenProperties
  <2> QED
    BY <1>1, <2>1, <2>2
<1> QED
  BY <1>2, <1>3 DEF Seal, ConfigurationTypeOK, organizationVars, grantVars, deliveryVars

LEMMA BarrierTypeOK ==
  ASSUME ConfigurationTypeOK, BarrierStep
  PROVE  ConfigurationTypeOK'
<1> USE DEF organizationVars, grantVars, deliveryVars, deviceVars
<1>1. CASE Begin
  <2> DEFINE new == [epoch |-> epoch, status |-> "ACTIVE"]
  <2>1. new \in Barrier /\ barriers \in Seq(Barrier) /\ barriers' = Append(barriers, new)
    BY <1>1 DEF Begin, ConfigurationTypeOK, Barrier
  <2> HIDE DEF new
  <2>2. barriers' \in Seq(Barrier) /\ Len(barriers') = Len(barriers) + 1 /\ Len(barriers) \in Nat
    BY <2>1, AppendProperties, LenProperties
  <2> QED
    BY <1>1, <2>2 DEF Begin, ConfigurationTypeOK
<1>2. ASSUME NEW d \in Device, NEW b \in Barriers, Freeze(d, b) PROVE ConfigurationTypeOK'
  BY SMTT(20), <1>2, ElementTypes DEF Freeze, ConfigurationTypeOK, Barriers
<1>3. ASSUME NEW d \in Device, NEW g \in Grants, SubmitCheckpoint(d, g) PROVE ConfigurationTypeOK'
  <2>1. [barrier |-> freeze[d], grant |-> g, sequence |-> Len(chain[d])] \in Checkpoint
    BY <1>3, ElementTypes DEF ConfigurationTypeOK, Checkpoint, Grants
  <2> QED
    BY <1>3, <2>1 DEF SubmitCheckpoint, ConfigurationTypeOK
<1>4. ASSUME NEW b \in Barriers, Complete(b) PROVE ConfigurationTypeOK'
  <2>1. [barriers[b] EXCEPT !.status = "COMPLETED"] \in Barrier
    BY ElementTypes DEF Barrier
  <2>2. barriers' \in Seq(Barrier) /\ Len(barriers') = Len(barriers)
    BY <1>4, <2>1, ExceptSeq DEF Complete, ConfigurationTypeOK, Barriers
  <2>3. epoch' \in Nat
    BY <1>4 DEF Complete, Advance, ConfigurationTypeOK
  <2> QED
    BY <1>4, <2>2, <2>3, GrantsClosed DEF Complete, ConfigurationTypeOK
<1>5. ASSUME NEW a \in Identity, Resume(a) PROVE ConfigurationTypeOK'
  <2>1. freeze' = [freeze EXCEPT ![DeviceOf[a]] = 0] /\ freeze \in [Device -> 0..Len(barriers)]
        /\ Len(barriers) \in Nat
    BY <1>5, ElementTypes DEF Resume, ConfigurationTypeOK
  <2>2. 0 \in 0..Len(barriers)
    BY <2>1
  <2>3. freeze' \in [Device -> 0..Len(barriers)]
    BY <2>1, <2>2, Zenon
  <2> QED
    BY <1>5, <2>3 DEF Resume, ConfigurationTypeOK
<1> QED
  BY <1>1, <1>2, <1>3, <1>4, <1>5 DEF BarrierStep

LEMMA CatalogTypeOK ==
  ASSUME ConfigurationTypeOK, CatalogStep
  PROVE  ConfigurationTypeOK'
<1> USE DEF grantVars, deliveryVars, deviceVars
<1>1. ASSUME EditCategory PROVE ConfigurationTypeOK'
  BY <1>1 DEF EditCategory, Advance, ConfigurationTypeOK
<1>2. ASSUME NEW i \in Item, ChangeStatus(i) PROVE ConfigurationTypeOK'
  <2>1. catalog' \in [Item -> CatalogItem]
    BY <1>2 DEF ChangeStatus, ConfigurationTypeOK, CatalogItem
  <2> QED
    BY <1>2, <2>1 DEF ChangeStatus, Advance, ConfigurationTypeOK
<1>3. ASSUME NEW i \in Item, DeletePhysically(i) PROVE ConfigurationTypeOK'
  <2>1. catalog' \in [Item -> CatalogItem]
    BY <1>3 DEF DeletePhysically, ConfigurationTypeOK, CatalogItem
  <2> QED
    BY <1>3, <2>1 DEF DeletePhysically, Advance, ConfigurationTypeOK
<1>4. ASSUME NEW i \in Item, SetPrice(i) PROVE ConfigurationTypeOK'
  BY <1>4 DEF SetPrice, ConfigurationTypeOK
<1>5. ASSUME NEW i \in Item, NEW k \in Kind, ChangeStructural(i, k) PROVE ConfigurationTypeOK'
  <2>1. catalog' \in [Item -> CatalogItem]
    BY <1>5 DEF ChangeStructural, ConfigurationTypeOK, CatalogItem
  <2> QED
    BY <1>5, <2>1 DEF ChangeStructural, Advance, ConfigurationTypeOK
<1>6. ASSUME NEW c \in Currency, ChangeCurrency(c) PROVE ConfigurationTypeOK'
  BY <1>6 DEF ChangeCurrency, ConfigurationTypeOK
<1> QED
  BY <1>1, <1>2, <1>3, <1>4, <1>5, <1>6 DEF CatalogStep

LEMMA StepTypeOK == ConfigurationTypeOK /\ [ConfigurationNext]_configurationVars => ConfigurationTypeOK'
<1> SUFFICES ASSUME ConfigurationTypeOK, [ConfigurationNext]_configurationVars
             PROVE  ConfigurationTypeOK'
  OBVIOUS
<1>1. ASSUME NEW d \in Device, IssueGrant(d) PROVE ConfigurationTypeOK'
  <2>1. grants' \in Seq(Grant) /\ Len(grants') = Len(grants) + 1 /\ Len(grants) \in Nat
    BY <1>1, GrantAdded, ElementTypes DEF IssueGrant
  <2>2. authorization \in [Identity -> 0..Len(grants')] /\ \A a \in Identity : request[a].grant \in 0..Len(grants')
    BY <2>1 DEF ConfigurationTypeOK
  <2> QED
    BY <1>1, <2>1, <2>2 DEF IssueGrant, AddGrant, ConfigurationTypeOK, organizationVars, deliveryVars, deviceVars
<1>2. CASE UNCHANGED configurationVars
  BY <1>2 DEF configurationVars, organizationVars, grantVars, deliveryVars, deviceVars, ConfigurationTypeOK
<1> QED
  BY <1>1, <1>2, RefreshTypeOK, DeliveryTypeOK, BarrierTypeOK, CatalogTypeOK, SealTypeOK
  DEF ConfigurationNext, RefreshStep, DeliveryStep

(* Everything stays well formed, and a device never takes for confirmed    *)
(* more than the server has applied, nor the server more than was sealed.  *)
THEOREM TypeCorrect == ConfigurationSpec => []ConfigurationTypeOK
BY InitTypeOK, StepTypeOK, PTL DEF ConfigurationSpec

-----------------------------------------------------------------------------
(* Which operations change a variable, so that a proof about some of the   *)
(* variables need only look at those.                                      *)

GrantsChange ==
  \/ \E d \in Device : AddGrant(d)
  \/ \E a \in Identity : Authorize(a)
  \/ \E b \in Barriers : Complete(b)

RequestChange ==
  \E a \in Identity :
    \/ Reserve(a) \/ Install(a)
    \/ Prove(a)

FreezeChange ==
  \/ \E d \in Device, b \in Barriers : Freeze(d, b)
  \/ \E a \in Identity : Resume(a)

CatalogChange ==
  \E i \in Item : ChangeStatus(i) \/ DeletePhysically(i) \/ \E k \in Kind : ChangeStructural(i, k)

LEMMA WhoChangesWhat ==
  ASSUME [ConfigurationNext]_configurationVars
  PROVE  /\ UNCHANGED grants \/ GrantsChange
         /\ UNCHANGED barriers \/ Begin \/ \E b \in Barriers : Complete(b)
         /\ UNCHANGED checkpoints \/ \E d \in Device, g \in Grants : SubmitCheckpoint(d, g)
         /\ UNCHANGED chain \/ \E a \in Identity, i \in Item : Seal(a, i)
         /\ UNCHANGED applied \/ \E d \in Device : Ingest(d)
         /\ UNCHANGED freeze \/ FreezeChange
         /\ UNCHANGED authorization \/ \E a \in Identity : Install(a)
         /\ UNCHANGED request \/ RequestChange
         /\ UNCHANGED catalog \/ CatalogChange
         /\ UNCHANGED currency \/ \E c \in Currency : ChangeCurrency(c)
         /\ epoch' = epoch \/ epoch' = epoch + 1
<1> USE DEF organizationVars, grantVars, deliveryVars, deviceVars
<1>1. ASSUME NEW a \in Identity, Reserve(a) \/ Prove(a) \/ Authorize(a) \/ Install(a)
      PROVE  /\ UNCHANGED <<barriers, checkpoints, chain, applied, freeze, catalog, currency, epoch>>
             /\ UNCHANGED grants \/ AddGrant(DeviceOf[a]) \/ Authorize(a)
             /\ UNCHANGED authorization \/ Install(a)
             /\ UNCHANGED request \/ Reserve(a) \/ Install(a) \/ Prove(a)
  BY <1>1 DEF Reserve, AddGrant, Prove, Authorize, Install
<1>2. ASSUME NEW d \in Device, Ingest(d) \/ Confirm(d) \/ \E x \in BOOLEAN : LoseDevice(d, x)
      PROVE  /\ UNCHANGED <<grants, barriers, checkpoints, chain, freeze, authorization, request, catalog, currency, epoch>>
             /\ UNCHANGED applied \/ Ingest(d)
  BY <1>2 DEF Ingest, Confirm, LoseDevice
<1>3. CASE Begin
  BY <1>3 DEF Begin
<1>4. ASSUME NEW d \in Device, NEW b \in Barriers, Freeze(d, b)
      PROVE  UNCHANGED <<grants, barriers, checkpoints, chain, applied, authorization, request, catalog, currency, epoch>>
  BY <1>4 DEF Freeze
<1>5. ASSUME NEW d \in Device, NEW g \in Grants, SubmitCheckpoint(d, g)
      PROVE  UNCHANGED <<grants, barriers, chain, applied, freeze, authorization, request, catalog, currency, epoch>>
  BY <1>5 DEF SubmitCheckpoint
<1>6. ASSUME NEW b \in Barriers, Complete(b)
      PROVE  /\ UNCHANGED <<checkpoints, chain, applied, freeze, authorization, request, catalog, currency>>
             /\ epoch' = epoch + 1
  BY <1>6 DEF Complete, Advance
<1>7. ASSUME NEW a \in Identity, Resume(a)
      PROVE  UNCHANGED <<grants, barriers, checkpoints, chain, applied, authorization, request, catalog, currency, epoch>>
  BY <1>7 DEF Resume
<1>8. ASSUME CatalogStep
      PROVE  /\ UNCHANGED <<grants, barriers, checkpoints, chain, applied, freeze, authorization, request>>
             /\ UNCHANGED catalog \/ CatalogChange
             /\ UNCHANGED currency \/ \E c \in Currency : ChangeCurrency(c)
             /\ epoch' = epoch \/ epoch' = epoch + 1
  BY <1>8 DEF CatalogStep, CatalogChange, EditCategory, ChangeStatus, DeletePhysically, SetPrice,
              ChangeStructural, ChangeCurrency, Advance
<1>9. ASSUME NEW d \in Device, IssueGrant(d)
      PROVE  /\ UNCHANGED <<barriers, checkpoints, chain, applied, freeze, authorization, request, catalog, currency, epoch>>
             /\ AddGrant(d)
  BY <1>9 DEF IssueGrant, AddGrant
<1>10. ASSUME NEW a \in Identity, NEW i \in Item, Seal(a, i)
       PROVE  UNCHANGED <<grants, barriers, checkpoints, applied, freeze, authorization, request, catalog, currency, epoch>>
  BY <1>10 DEF Seal
<1>11. CASE UNCHANGED configurationVars
  BY <1>11 DEF configurationVars
<1>12. CASE RefreshStep
  BY <1>1, <1>12, ConfigurationAssumption DEF RefreshStep, GrantsChange, RequestChange
<1>13. CASE DeliveryStep
  BY <1>2, <1>13 DEF DeliveryStep
<1>14. CASE BarrierStep
  BY <1>3, <1>4, <1>5, <1>6, <1>7, <1>14 DEF BarrierStep, Begin, GrantsChange, FreezeChange
<1>15. CASE CatalogStep
  BY <1>8, <1>15
<1>16. CASE \E d \in Device : IssueGrant(d)
  BY <1>9, <1>16 DEF GrantsChange
<1>17. CASE \E a \in Identity, i \in Item : Seal(a, i)
  BY <1>10, <1>17
<1> QED
  BY <1>11, <1>12, <1>13, <1>14, <1>15, <1>16, <1>17 DEF ConfigurationNext

(* Grants, barriers and operations are never taken back or rewritten.      *)
GrantsGrow ==
  \A g \in Grants :
    /\ g \in Grants'
    /\ grants'[g].device = grants[g].device /\ grants'[g].epoch = grants[g].epoch
    /\ grants'[g].sees = grants[g].sees /\ grants'[g].currency = grants[g].currency
    /\ grants[g].closed => grants'[g].closed

BarriersGrow ==
  \A b \in Barriers :
    /\ b \in Barriers'
    /\ barriers'[b].epoch = barriers[b].epoch
    /\ barriers'[b].status = "ACTIVE" => barriers[b].status = "ACTIVE"

ChainsGrow ==
  \A d \in Device : \A n \in 1..Len(chain[d]) : n \in 1..Len(chain'[d]) /\ chain'[d][n] = chain[d][n]

LEMMA StepGrows ==
  ASSUME ConfigurationTypeOK, [ConfigurationNext]_configurationVars
  PROVE  /\ GrantsGrow /\ BarriersGrow /\ ChainsGrow
         /\ \A d \in Device : applied[d] \in Nat /\ applied'[d] \in Nat /\ applied[d] <= applied'[d]
         /\ epoch \in Nat /\ epoch' \in Nat /\ epoch <= epoch'
<1>1. GrantsGrow
  <2>1. CASE UNCHANGED grants
    BY <2>1 DEF Grants, GrantsGrow
  <2>2. ASSUME NEW d \in Device, AddGrant(d) PROVE GrantsGrow
    <3>1. Len(grants') = Len(grants) + 1 /\ Len(grants) \in Nat /\ \A g \in Grants : grants'[g] = grants[g]
      BY <2>2, GrantAdded, ElementTypes
    <3> QED
      BY <3>1 DEF Grants, GrantsGrow
  <2>3. ASSUME NEW a \in Identity, Authorize(a) PROVE GrantsGrow
    BY <2>3, GrantAuthorized DEF Grants, GrantsGrow
  <2>4. ASSUME NEW b \in Barriers, Complete(b) PROVE GrantsGrow
    BY <2>4, GrantsClosed DEF Grants, GrantsGrow
  <2> QED
    BY <2>1, <2>2, <2>3, <2>4, WhoChangesWhat DEF GrantsChange
<1>2. BarriersGrow
  <2>0. barriers \in Seq(Barrier)
    BY DEF ConfigurationTypeOK
  <2>1. CASE UNCHANGED barriers
    BY <2>1 DEF Barriers, BarriersGrow
  <2>2. CASE Begin
    <3>1. [epoch |-> epoch, status |-> "ACTIVE"] \in Barrier
      BY DEF ConfigurationTypeOK, Barrier
    <3>2. barriers' = Append(barriers, [epoch |-> epoch, status |-> "ACTIVE"])
      BY <2>2 DEF Begin
    <3>3. Len(barriers') = Len(barriers) + 1 /\ \A b \in Barriers : barriers'[b] = barriers[b]
      BY <2>0, <3>1, <3>2, AppendProperties DEF Barriers
    <3> QED
      BY <3>3, ElementTypes DEF Barriers, BarriersGrow
  <2>3. ASSUME NEW b \in Barriers, Complete(b) PROVE BarriersGrow
    <3>1. [barriers[b] EXCEPT !.status = "COMPLETED"] \in Barrier
      BY ElementTypes DEF Barrier
    <3>2. barriers' = [barriers EXCEPT ![b] = [barriers[b] EXCEPT !.status = "COMPLETED"]]
      BY <2>3 DEF Complete
    <3>3. Len(barriers') = Len(barriers)
      BY <2>0, <3>1, <3>2, ExceptSeq DEF Barriers
    <3>4. \A c \in Barriers : c \in DOMAIN barriers /\ barriers[c] \in Barrier
      BY <2>0, LenProperties, ElementTypes DEF Barriers
    <3>5. \A c \in Barriers : barriers'[c] = IF c = b THEN [barriers[b] EXCEPT !.status = "COMPLETED"] ELSE barriers[c]
      BY <3>2, <3>4
    <3> QED
      BY <3>3, <3>4, <3>5 DEF Barriers, Barrier, BarriersGrow
  <2> QED
    BY <2>1, <2>2, <2>3, WhoChangesWhat
<1>3. ChainsGrow
  <2>1. CASE UNCHANGED chain
    BY <2>1 DEF ChainsGrow
  <2>2. ASSUME NEW a \in Identity, NEW i \in Item, Seal(a, i) PROVE ChainsGrow
    <3>1. /\ \A e \in Device \ {DeviceOf[a]} : chain'[e] = chain[e]
          /\ Len(chain'[DeviceOf[a]]) = Len(chain[DeviceOf[a]]) + 1
          /\ \A n \in 1..Len(chain[DeviceOf[a]]) : chain'[DeviceOf[a]][n] = chain[DeviceOf[a]][n]
      BY <2>2, OperationSealed
    <3> QED
      BY <3>1, ElementTypes DEF ChainsGrow
  <2> QED
    BY <2>1, <2>2, WhoChangesWhat
<1>4. \A d \in Device : applied[d] \in Nat /\ applied'[d] \in Nat /\ applied[d] <= applied'[d]
  BY SMTT(20), WhoChangesWhat DEF Ingest, ConfigurationTypeOK
<1>5. epoch \in Nat /\ epoch' \in Nat /\ epoch <= epoch'
  BY WhoChangesWhat DEF ConfigurationTypeOK
<1> QED
  BY <1>1, <1>2, <1>3, <1>4, <1>5

-----------------------------------------------------------------------------
LEMMA GrantFields ==
  ASSUME ConfigurationTypeOK
  PROVE  /\ \A g \in Grants :
              /\ grants[g].device \in Device /\ grants[g].epoch \in Nat
              /\ grants[g].sees \in Snapshot /\ grants[g].currency \in Currency
         /\ \A b \in Barriers : barriers[b].epoch \in Nat
         /\ \A a \in Identity :
              /\ DeviceOf[a] \in Device
              /\ authorization[a] # 0 => authorization[a] \in Grants
              /\ request[a].grant # 0 => request[a].grant \in Grants
         /\ \A d \in Device : freeze[d] # 0 => freeze[d] \in Barriers
         /\ 0 \notin Barriers /\ 0 \notin Grants
<1>1. \A g \in Grants :
        /\ grants[g].device \in Device /\ grants[g].epoch \in Nat
        /\ grants[g].sees \in Snapshot /\ grants[g].currency \in Currency
  BY ElementTypes DEF Grant
<1>2. \A b \in Barriers : barriers[b].epoch \in Nat
  BY ElementTypes DEF Barrier
<1>3. ASSUME NEW a \in Identity
      PROVE  /\ DeviceOf[a] \in Device
             /\ authorization[a] # 0 => authorization[a] \in Grants
             /\ request[a].grant # 0 => request[a].grant \in Grants
  <2>1. authorization[a] \in 0..Len(grants) /\ request[a].grant \in 0..Len(grants) /\ Len(grants) \in Nat
    BY ElementTypes DEF ConfigurationTypeOK
  <2> QED
    BY <2>1, ConfigurationAssumption DEF Grants
<1>4. ASSUME NEW d \in Device PROVE freeze[d] # 0 => freeze[d] \in Barriers
  <2>1. freeze[d] \in 0..Len(barriers) /\ Len(barriers) \in Nat
    BY ElementTypes DEF ConfigurationTypeOK
  <2> QED
    BY <2>1 DEF Barriers
<1>5. 0 \notin Barriers /\ 0 \notin Grants
  BY ElementTypes DEF Barriers, Grants
<1> QED
  BY <1>1, <1>2, <1>3, <1>4, <1>5

LEMMA Reserved ==
  ASSUME ConfigurationTypeOK, NEW a \in Identity, Reserve(a)
  PROVE  /\ request'[a].grant = Len(grants) + 1
         /\ \A c \in Identity \ {a} : request'[c] = request[c]
<1>1. request \in [Identity -> Request] /\ request[a] \in Request
  BY DEF ConfigurationTypeOK
<1>2. request' = [request EXCEPT ![a] = [request[a] EXCEPT !.grant = Len(grants) + 1]]
  BY DEF Reserve
<1>3. [request[a] EXCEPT !.grant = Len(grants) + 1].grant = Len(grants) + 1
  BY <1>1 DEF Request
<1> QED
  BY <1>1, <1>2, <1>3

LEMMA RequestKept ==
  ASSUME ConfigurationTypeOK, [ConfigurationNext]_configurationVars, NEW a \in Identity
  PROVE  \/ request'[a].grant = request[a].grant
         \/ Reserve(a)
         \/ request'[a].grant = 0
<1>0. request \in [Identity -> Request] /\ \A c \in Identity : request[c] \in Request
  BY DEF ConfigurationTypeOK
<1>1. CASE UNCHANGED request
  BY <1>1
<1>2. ASSUME NEW c \in Identity, Reserve(c) PROVE request'[a].grant = request[a].grant \/ Reserve(a)
  BY <1>2, Reserved
<1>3. ASSUME NEW c \in Identity, Install(c) PROVE request'[a].grant = request[a].grant \/ request'[a].grant = 0
  BY <1>0, <1>3 DEF Install, NoRequest
<1>4. ASSUME NEW c \in Identity, Prove(c) PROVE request'[a].grant = request[a].grant
  <2>1. request' = [request EXCEPT ![c] = [request[c] EXCEPT !.proof = Len(chain[DeviceOf[c]])]]
    BY <1>4 DEF Prove
  <2>2. [request[c] EXCEPT !.proof = Len(chain[DeviceOf[c]])].grant = request[c].grant
    BY <1>0 DEF Request
  <2> QED
    BY <1>0, <2>1, <2>2
<1> QED
  BY <1>1, <1>2, <1>3, <1>4, WhoChangesWhat DEF RequestChange

LEMMA AuthorizationKept ==
  ASSUME ConfigurationTypeOK, [ConfigurationNext]_configurationVars, NEW a \in Identity
  PROVE  \/ authorization'[a] = authorization[a]
         \/ /\ authorization'[a] = request[a].grant /\ request[a].grant \in Grants
            /\ request'[a].grant = 0 /\ UNCHANGED grants
<1>0. /\ request \in [Identity -> Request]
      /\ authorization \in [Identity -> 0..Len(grants)]
  BY DEF ConfigurationTypeOK
<1>1. ASSUME NEW c \in Identity, Install(c), c # a PROVE authorization'[a] = authorization[a]
  BY <1>0, <1>1 DEF Install
<1>2. CASE Install(a)
  <2>1. authorization'[a] = request[a].grant /\ request[a].grant # 0
    BY <1>0, <1>2 DEF Install
  <2>2. request'[a].grant = 0
    BY <1>0, <1>2 DEF Install, NoRequest
  <2>3. UNCHANGED grants
    BY <1>2 DEF Install, grantVars
  <2> QED
    BY <2>1, <2>2, <2>3, GrantFields
<1> QED
  BY <1>1, <1>2, WhoChangesWhat

(* A grant that was not there is one of the organization as it is now.     *)
LEMMA NewGrant ==
  ASSUME ConfigurationTypeOK, [ConfigurationNext]_configurationVars, NEW g \in Grants', g \notin Grants
  PROVE  \E d \in Device :
           /\ AddGrant(d) /\ g = Len(grants) + 1
           /\ grants'[g].epoch = epoch /\ grants'[g].currency = currency /\ ~grants'[g].closed
           /\ grants'[g].sees = [i \in Item |-> IF catalog[i].status = "ACTIVE" THEN catalog[i].kind ELSE Absent]
<1>0. Len(grants) \in Nat
  BY ElementTypes
<1>1. Len(grants') # Len(grants)
  BY DEF Grants
<1>2. PICK d \in Device : AddGrant(d)
  BY <1>1, WhoChangesWhat, GrantAuthorized, GrantsClosed DEF GrantsChange
<1>3. /\ Len(grants') = Len(grants) + 1
      /\ grants'[Len(grants) + 1] =
           [device |-> d, epoch |-> epoch, currency |-> currency, authorized |-> FALSE, closed |-> FALSE,
            sees |-> [i \in Item |-> IF catalog[i].status = "ACTIVE" THEN catalog[i].kind ELSE Absent]]
  BY <1>2, GrantAdded
<1>4. g = Len(grants) + 1
  BY <1>0, <1>3 DEF Grants
<1> QED
  BY <1>2, <1>3, <1>4

LEMMA LinkedPreserved ==
  ASSUME ConfigurationInv, [ConfigurationNext]_configurationVars
  PROVE  Linked'
<1> USE DEF ConfigurationInv
<1>0. /\ GrantsGrow /\ BarriersGrow /\ ChainsGrow
      /\ ConfigurationTypeOK /\ ConfigurationTypeOK' /\ Linked
  BY StepGrows, StepTypeOK
<1>1. ASSUME NEW d \in Device, NEW n \in 1..Len(chain'[d])
      PROVE  /\ chain'[d][n].grant \in Grants'
             /\ grants'[chain'[d][n].grant].device = d
             /\ grants'[chain'[d][n].grant].sees[chain'[d][n].item] # Absent
  <2>1. CASE n \in 1..Len(chain[d])
    BY SMTT(20), <1>0, <2>1 DEF Linked, GrantsGrow, ChainsGrow
  <2>2. CASE n \notin 1..Len(chain[d])
    <3>1. PICK a \in Identity, i \in Item : Seal(a, i)
      BY <2>2, WhoChangesWhat
    <3>2. d = DeviceOf[a] /\ n = Len(chain[d]) + 1
      <4>1. /\ \A e \in Device \ {DeviceOf[a]} : chain'[e] = chain[e]
            /\ Len(chain'[DeviceOf[a]]) = Len(chain[DeviceOf[a]]) + 1
        BY <3>1, OperationSealed
      <4>2. d = DeviceOf[a]
        BY <2>2, <4>1
      <4>3. Len(chain[d]) \in Nat
        BY ElementTypes
      <4> QED
        BY <2>2, <4>1, <4>2, <4>3
    <3>3. /\ authorization[a] \in Grants
          /\ chain'[d][n].grant = authorization[a] /\ chain'[d][n].item = i
      <4>1. /\ authorization[a] \in Grants
            /\ chain'[DeviceOf[a]][Len(chain[DeviceOf[a]]) + 1] =
                 [grant |-> authorization[a], item |-> i, identity |-> a, late |-> grants[authorization[a]].closed]
        BY <3>1, OperationSealed
      <4> QED
        BY <3>2, <4>1
    <3>4. grants[authorization[a]].device = d /\ grants[authorization[a]].sees[i] # Absent
      BY <1>0, <3>1, <3>2, <3>3, GrantFields DEF Linked, Seal
    <3> QED
      BY <1>0, <3>3, <3>4 DEF GrantsGrow
  <2> QED
    BY <2>1, <2>2
<1>2. ASSUME NEW a \in Identity, authorization'[a] # 0
      PROVE  grants'[authorization'[a]].device = DeviceOf[a]
  BY <1>0, <1>2, AuthorizationKept, GrantFields DEF Linked, GrantsGrow
<1>3. ASSUME NEW a \in Identity, request'[a].grant # 0
      PROVE  grants'[request'[a].grant].device = DeviceOf[a]
  <2>1. CASE request'[a].grant = request[a].grant
    BY <1>0, <1>3, <2>1, GrantFields DEF Linked, GrantsGrow
  <2>2. CASE Reserve(a)
    <3>1. DeviceOf[a] \in Device /\ AddGrant(DeviceOf[a])
      BY <2>2, GrantFields DEF Reserve
    <3>2. grants'[Len(grants) + 1].device = DeviceOf[a]
      BY <1>0, <3>1, GrantAddedFields
    <3> QED
      BY <2>2, <3>2, Reserved
  <2> QED
    BY <1>3, <2>1, <2>2, RequestKept
<1>4. ASSUME NEW c \in checkpoints'
      PROVE  c.barrier \in Barriers' /\ c.grant \in Grants'
  <2>1. c.barrier \in Barriers /\ c.grant \in Grants
    BY <1>0, WhoChangesWhat, GrantFields DEF Linked, SubmitCheckpoint
  <2> QED
    BY <1>0, <2>1 DEF GrantsGrow, BarriersGrow
<1> QED
  BY <1>1, <1>2, <1>3, <1>4 DEF Linked

LEMMA EpochsPreserved ==
  ASSUME ConfigurationInv, [ConfigurationNext]_configurationVars
  PROVE  Epochs'
<1>0. /\ GrantsGrow /\ BarriersGrow /\ epoch \in Nat /\ epoch' \in Nat /\ epoch <= epoch'
      /\ ConfigurationTypeOK /\ ConfigurationTypeOK' /\ Epochs
  BY StepGrows, StepTypeOK DEF ConfigurationInv
<1>a. ASSUME NEW g \in Grants', g \notin Grants
      PROVE  /\ NoBarrier /\ UNCHANGED <<barriers, epoch>>
             /\ grants'[g].epoch = epoch
  BY <1>0, <1>a, NewGrant DEF AddGrant, organizationVars
<1>1. ASSUME NEW g \in Grants' PROVE grants'[g].epoch <= epoch'
  <2>1. CASE g \in Grants
    BY <1>0, <2>1, GrantFields DEF Epochs, GrantsGrow
  <2> QED
    BY <1>0, <1>a, <2>1
<1>2. ASSUME NEW b \in Barriers', NEW g \in Grants', barriers'[b].status = "ACTIVE"
      PROVE  grants'[g].epoch <= barriers'[b].epoch
  <2>1. CASE b \in Barriers /\ g \in Grants
    BY <1>0, <1>2, <2>1 DEF Epochs, GrantsGrow, BarriersGrow
  <2>2. CASE b \in Barriers /\ g \notin Grants
    BY <1>0, <1>2, <1>a, <2>2 DEF NoBarrier, BarriersGrow
  <2>3. CASE b \notin Barriers
    <3>1. Begin
      BY <1>0, <2>3, WhoChangesWhat, ElementTypes, ExceptSeq DEF Complete, Barriers, Barrier, ConfigurationTypeOK
    <3>2. barriers'[b].epoch = epoch
      <4>1. [epoch |-> epoch, status |-> "ACTIVE"] \in Barrier /\ barriers \in Seq(Barrier)
        BY <1>0 DEF ConfigurationTypeOK, Barrier
      <4>2. /\ Len(barriers') = Len(barriers) + 1
            /\ barriers'[Len(barriers) + 1] = [epoch |-> epoch, status |-> "ACTIVE"]
        BY <3>1, <4>1, AppendProperties DEF Begin
      <4> QED
        BY <1>0, <2>3, <4>2, ElementTypes DEF Barriers
    <3>3. UNCHANGED <<grants, epoch>>
      BY <3>1 DEF Begin, organizationVars
    <3> QED
      BY <1>1, <3>2, <3>3 DEF Grants
  <2> QED
    BY <2>1, <2>2, <2>3
<1>3. ASSUME NEW a \in Identity, authorization'[a] # 0, request'[a].grant # 0
      PROVE  grants'[authorization'[a]].epoch <= grants'[request'[a].grant].epoch
  <2>1. authorization'[a] = authorization[a] /\ authorization[a] \in Grants
    BY <1>0, <1>3, AuthorizationKept, GrantFields
  <2>2. CASE request'[a].grant = request[a].grant
    BY <1>0, <1>3, <2>1, <2>2, GrantFields DEF Epochs, GrantsGrow
  <2>3. CASE Reserve(a)
    <3>1. DeviceOf[a] \in Device /\ AddGrant(DeviceOf[a])
      BY <1>0, <2>3, GrantFields DEF Reserve
    <3>2. grants'[Len(grants) + 1].epoch = epoch
      BY <1>0, <3>1, GrantAddedFields
    <3> QED
      BY <1>0, <2>1, <2>3, <3>2, Reserved DEF Epochs, GrantsGrow
  <2> QED
    BY <1>3, <2>2, <2>3, <1>0, RequestKept
<1> QED
  BY <1>1, <1>2, <1>3 DEF Epochs

LEMMA OpenGrantsAgreePreserved ==
  ASSUME ConfigurationInv, [ConfigurationNext]_configurationVars
  PROVE  OpenGrantsAgree'
<1>0. /\ GrantsGrow /\ ConfigurationTypeOK /\ OpenGrantsAgree
      /\ catalog \in [Item -> CatalogItem]
  BY StepGrows DEF ConfigurationInv, ConfigurationTypeOK
<1>1. ASSUME NEW g \in Grants', ~grants'[g].closed, g \in Grants
      PROVE  grants'[g].currency = currency'
  <2>1. ~grants[g].closed /\ grants'[g].currency = grants[g].currency
    BY <1>0, <1>1 DEF GrantsGrow
  <2>2. currency' = currency
    BY <1>1, <2>1, WhoChangesWhat DEF ChangeCurrency, CurrencyClear
  <2> QED
    BY <1>0, <1>1, <2>1, <2>2 DEF OpenGrantsAgree
<1>2. ASSUME NEW g \in Grants', ~grants'[g].closed, g \in Grants,
             NEW i \in Item, grants'[g].sees[i] # Absent
      PROVE  catalog'[i].status # "DELETED" /\ catalog'[i].kind = grants'[g].sees[i]
  <2>1. ~grants[g].closed /\ grants'[g].sees = grants[g].sees
    BY <1>0, <1>2 DEF GrantsGrow
  <2>2. ~Clear(i)
    BY <1>2, <2>1 DEF Clear, Uncertain
  <2>3. catalog'[i].kind = catalog[i].kind /\ (catalog[i].status # "DELETED" => catalog'[i].status # "DELETED")
    <3>1. CASE UNCHANGED catalog
      BY <3>1
    <3>2. ASSUME NEW j \in Item, ChangeStatus(j)
          PROVE  catalog'[i].kind = catalog[i].kind /\ (catalog[i].status # "DELETED" => catalog'[i].status # "DELETED")
      BY <1>0, <3>2 DEF ChangeStatus, CatalogItem
    <3>3. ASSUME NEW j \in Item, DeletePhysically(j) \/ \E k \in Kind : ChangeStructural(j, k)
          PROVE  catalog'[i] = catalog[i]
      BY <1>0, <2>2, <3>3 DEF DeletePhysically, ChangeStructural
    <3> QED
      BY <3>1, <3>2, <3>3, WhoChangesWhat DEF CatalogChange
  <2> QED
    BY <1>0, <1>2, <2>1, <2>3 DEF OpenGrantsAgree
<1>3. ASSUME NEW g \in Grants', g \notin Grants
      PROVE  /\ grants'[g].currency = currency'
             /\ \A i \in Item : grants'[g].sees[i] # Absent =>
                  catalog'[i].status # "DELETED" /\ catalog'[i].kind = grants'[g].sees[i]
  <2>1. PICK d \in Device : AddGrant(d)
    BY <1>0, <1>3, NewGrant
  <2>2. currency' = currency /\ catalog' = catalog
    BY <2>1 DEF AddGrant, organizationVars
  <2>3. /\ grants'[g].currency = currency
        /\ grants'[g].sees = [i \in Item |->
                                IF catalog[i].status = "ACTIVE" THEN catalog[i].kind ELSE Absent]
    BY <1>0, <1>3, NewGrant
  <2> QED
    BY <2>2, <2>3
<1> QED
  BY <1>1, <1>2, <1>3 DEF OpenGrantsAgree

(* Who holds a newer grant goes on holding one.                            *)
LEMMA RenewedForGood ==
  ASSUME ConfigurationInv, [ConfigurationNext]_configurationVars, NEW g \in Grants,
         NEW a \in Identity, authorization[a] # 0,
         grants[authorization[a]].epoch > grants[g].epoch
  PROVE  /\ authorization'[a] # 0
         /\ grants'[authorization'[a]].epoch > grants'[g].epoch
<1>0. GrantsGrow /\ ConfigurationTypeOK /\ Epochs
  BY StepGrows DEF ConfigurationInv
<1>1. CASE authorization'[a] = authorization[a]
  BY <1>0, <1>1, GrantFields DEF GrantsGrow
<1>2. CASE authorization'[a] = request[a].grant /\ request[a].grant \in Grants /\ UNCHANGED grants
  BY <1>0, <1>2, GrantFields DEF Epochs
<1> QED
  BY <1>0, <1>1, <1>2, AuthorizationKept

LEMMA CheckpointHoldsPreserved ==
  ASSUME ConfigurationInv, [ConfigurationNext]_configurationVars
  PROVE  CheckpointHolds'
<1>0. /\ GrantsGrow /\ BarriersGrow /\ ConfigurationTypeOK /\ CheckpointHolds /\ Linked /\ Epochs
  BY StepGrows DEF ConfigurationInv
<1> SUFFICES ASSUME NEW c \in checkpoints', barriers'[c.barrier].status = "ACTIVE"
             PROVE  LET d == grants'[c.grant].device IN
                    freeze'[d] = c.barrier /\ Len(chain'[d]) = c.sequence /\ applied'[d] = c.sequence
  BY DEF CheckpointHolds
<1> DEFINE d == grants[c.grant].device
<1>1. CASE c \in checkpoints
  <2>1. /\ c.barrier \in Barriers /\ c.grant \in Grants /\ d \in Device
        /\ grants'[c.grant].device = d /\ barriers[c.barrier].status = "ACTIVE"
    BY <1>0, <1>1, GrantFields DEF Linked, GrantsGrow, BarriersGrow
  <2>2. freeze[d] = c.barrier /\ Len(chain[d]) = c.sequence /\ applied[d] = c.sequence
        /\ freeze[d] # 0 /\ applied[d] \in Nat
    BY <1>0, <1>1, <2>1, GrantFields DEF CheckpointHolds, ConfigurationTypeOK
  <2> HIDE DEF d
  <2>3. freeze'[d] = freeze[d]
    <3>1. ASSUME NEW e \in Device, NEW b \in Barriers, Freeze(e, b) PROVE freeze'[d] = freeze[d]
      BY <1>0, <2>1, <2>2, <3>1 DEF Freeze, ConfigurationTypeOK
    <3>2. ASSUME NEW a \in Identity, Resume(a) PROVE freeze'[d] = freeze[d]
      <4>1. authorization[a] \in Grants /\ grants[authorization[a]].epoch > barriers[freeze[DeviceOf[a]]].epoch
        BY <1>0, <3>2, GrantFields DEF Resume
      <4>2. DeviceOf[a] # d
        BY <1>0, <2>1, <2>2, <4>1, GrantFields DEF Epochs
      <4> QED
        BY <1>0, <3>2, <4>2 DEF Resume, ConfigurationTypeOK
    <3> QED
      BY <3>1, <3>2, WhoChangesWhat DEF FreezeChange
  <2>4. chain'[d] = chain[d]
    BY <2>1, <2>2, WhoChangesWhat, OperationSealed, GrantFields, <1>0 DEF Seal
  <2>5. applied'[d] = applied[d]
    BY <1>0, <2>1, <2>2, WhoChangesWhat DEF Ingest, ConfigurationTypeOK
  <2> QED
    BY <2>1, <2>2, <2>3, <2>4, <2>5
<1>2. CASE c \notin checkpoints
  <2>1. PICK e \in Device, g \in Grants : SubmitCheckpoint(e, g)
    BY <1>2, WhoChangesWhat
  <2>2. c = [barrier |-> freeze[e], grant |-> g, sequence |-> Len(chain[e])]
    BY <1>2, <2>1 DEF SubmitCheckpoint
  <2>3. grants[g].device = e /\ applied[e] = Len(chain[e])
        /\ UNCHANGED <<grants, freeze, chain, applied>>
    BY <2>1 DEF SubmitCheckpoint, AckContinuous, deliveryVars, deviceVars
  <2> QED
    BY <2>2, <2>3
<1> QED
  BY <1>1, <1>2

(* A grant that was open and is not any more was signed for, by a device   *)
(* that has delivered everything and is frozen.                            *)
LEMMA ClosingStep ==
  ASSUME ConfigurationInv, [ConfigurationNext]_configurationVars,
         NEW g \in Grants, ~grants[g].closed, grants'[g].closed
  PROVE  LET d == grants[g].device IN
         /\ applied[d] = Len(chain[d])
         /\ freeze[d] # 0 /\ grants[g].epoch <= barriers[freeze[d]].epoch
         /\ UNCHANGED <<freeze, chain, applied, authorization>>
<1>0. ConfigurationTypeOK /\ Linked /\ CheckpointHolds
  BY DEF ConfigurationInv
<1>1. PICK b \in Barriers : Complete(b)
  <2>1. ~UNCHANGED grants
    OBVIOUS
  <2>2. ASSUME NEW d \in Device, AddGrant(d) PROVE FALSE
    BY <1>0, <2>2, GrantAdded
  <2>3. ASSUME NEW a \in Identity, Authorize(a) PROVE FALSE
    BY <1>0, <2>3, GrantAuthorized
  <2> QED
    BY <2>1, <2>2, <2>3, WhoChangesWhat DEF GrantsChange
<1>2. grants[g].epoch <= barriers[b].epoch /\ barriers[b].status = "ACTIVE"
  BY <1>0, <1>1, GrantsClosed DEF Complete
<1>3. PICK c \in checkpoints : c.barrier = b /\ c.grant = g /\ AckContinuous(grants[g].device, c.sequence)
  BY <1>1, <1>2 DEF Complete, Covered
<1>4. freeze[grants[g].device] = b /\ Len(chain[grants[g].device]) = c.sequence /\ applied[grants[g].device] = c.sequence
  BY <1>0, <1>2, <1>3 DEF CheckpointHolds
<1>5. UNCHANGED <<freeze, chain, applied, authorization>>
  BY <1>1 DEF Complete, deliveryVars, deviceVars
<1> QED
  BY <1>0, <1>2, <1>4, <1>5, GrantFields

LEMMA LeftBehindPreserved ==
  ASSUME ConfigurationInv, [ConfigurationNext]_configurationVars
  PROVE  LeftBehind'
<1>0. /\ GrantsGrow /\ BarriersGrow /\ ConfigurationTypeOK /\ LeftBehind /\ Linked
  BY StepGrows DEF ConfigurationInv
<1> SUFFICES ASSUME NEW g \in Grants', grants'[g].closed
             PROVE  \/ Renewed(g)'
                    \/ /\ freeze'[grants'[g].device] # 0
                       /\ grants'[g].epoch <= barriers'[freeze'[grants'[g].device]].epoch
  BY DEF LeftBehind
<1> DEFINE d == grants[g].device
<1>1. g \in Grants
  BY <1>0, NewGrant
<1>2. d \in Device /\ grants'[g].device = d /\ grants'[g].epoch = grants[g].epoch /\ grants[g].epoch \in Nat
  BY <1>0, <1>1, GrantFields DEF GrantsGrow
<1>3. CASE ~grants[g].closed
  <2>1. /\ freeze[d] # 0 /\ grants[g].epoch <= barriers[freeze[d]].epoch
        /\ UNCHANGED freeze
    BY <1>1, <1>3, ClosingStep
  <2> QED
    BY <1>0, <1>2, <2>1, GrantFields DEF BarriersGrow
<1>4. CASE Renewed(g)
  BY <1>0, <1>1, <1>2, <1>4, RenewedForGood DEF Renewed
<1>5. CASE freeze[d] # 0 /\ grants[g].epoch <= barriers[freeze[d]].epoch
  <2>1. freeze[d] \in Barriers /\ barriers'[freeze[d]].epoch = barriers[freeze[d]].epoch
    BY <1>0, <1>2, <1>5, GrantFields DEF BarriersGrow
  <2> HIDE DEF d
  <2>2. CASE freeze'[d] = freeze[d]
    BY <1>2, <1>5, <2>1, <2>2
  <2>3. CASE freeze'[d] # freeze[d]
    <3>1. ASSUME NEW e \in Device, NEW b \in Barriers, Freeze(e, b) PROVE freeze'[d] = freeze[d]
      BY <1>0, <1>2, <1>5, <3>1 DEF Freeze, ConfigurationTypeOK
    <3>2. PICK a \in Identity : Resume(a)
      BY <2>3, <3>1, WhoChangesWhat DEF FreezeChange
    <3>3. DeviceOf[a] = d
      BY <1>0, <2>3, <3>2 DEF Resume, ConfigurationTypeOK
    <3>4. authorization[a] # 0 /\ grants[authorization[a]].epoch > barriers[freeze[d]].epoch
      BY <3>2, <3>3 DEF Resume
    <3>5. grants[authorization[a]].epoch > grants[g].epoch
      BY <1>0, <1>2, <1>5, <2>1, <3>4, GrantFields
    <3>6. authorization'[a] # 0 /\ grants'[authorization'[a]].epoch > grants'[g].epoch
      BY <1>1, <3>4, <3>5, RenewedForGood
    <3> QED
      BY <1>2, <3>3, <3>6 DEF Renewed
  <2> QED
    BY <2>2, <2>3
<1> QED
  BY <1>0, <1>1, <1>3, <1>4, <1>5 DEF LeftBehind

-----------------------------------------------------------------------------
(* The operations of a chain: those that were there, and the new one.      *)
LEMMA OperationOldOrNew ==
  ASSUME ConfigurationInv, [ConfigurationNext]_configurationVars,
         NEW d \in Device, NEW n \in 1..Len(chain'[d])
  PROVE  \/ n \in 1..Len(chain[d]) /\ chain'[d][n] = chain[d][n]
         \/ \E a \in Identity, i \in Item :
              /\ Seal(a, i) /\ DeviceOf[a] = d /\ authorization[a] \in Grants
              /\ chain'[d][n].grant = authorization[a] /\ chain'[d][n].item = i
              /\ chain'[d][n].identity = a
              /\ chain'[d][n].late = grants[authorization[a]].closed
<1>0. ConfigurationTypeOK /\ ChainsGrow
  BY StepGrows DEF ConfigurationInv
<1>1. CASE n \in 1..Len(chain[d])
  BY <1>0, <1>1 DEF ChainsGrow
<1>2. CASE n \notin 1..Len(chain[d])
  <2>1. PICK a \in Identity, i \in Item : Seal(a, i)
    BY <1>2, WhoChangesWhat
  <2>2. /\ authorization[a] \in Grants
        /\ \A e \in Device \ {DeviceOf[a]} : chain'[e] = chain[e]
        /\ Len(chain'[DeviceOf[a]]) = Len(chain[DeviceOf[a]]) + 1
        /\ chain'[DeviceOf[a]][Len(chain[DeviceOf[a]]) + 1] =
             [grant |-> authorization[a], item |-> i, identity |-> a, late |-> grants[authorization[a]].closed]
    BY <1>0, <2>1, OperationSealed
  <2>3. d = DeviceOf[a] /\ Len(chain[d]) \in Nat
    BY <1>0, <1>2, <2>2, ElementTypes
  <2>4. n = Len(chain[d]) + 1
    BY <1>2, <2>2, <2>3
  <2> QED
    BY SMTT(20), <2>1, <2>2, <2>3, <2>4
<1> QED
  BY <1>1, <1>2

LEMMA ClosedGrantsAreSpentPreserved ==
  ASSUME ConfigurationInv, [ConfigurationNext]_configurationVars
  PROVE  ClosedGrantsAreSpent'
<1>0. /\ GrantsGrow /\ ConfigurationTypeOK /\ Linked /\ LeftBehind /\ ClosedGrantsAreSpent
      /\ \A d \in Device : applied[d] \in Nat /\ applied'[d] \in Nat /\ applied[d] <= applied'[d]
  BY StepGrows DEF ConfigurationInv
<1> SUFFICES ASSUME NEW d \in Device, NEW n \in 1..Len(chain'[d])
             PROVE  LET o == chain'[d][n] IN
                    /\ grants'[o.grant].closed /\ ~o.late => n <= applied'[d]
                    /\ o.late => \E a \in Identity \ {o.identity} :
                                   DeviceOf[a] = d /\ authorization'[a] # 0
                                   /\ grants'[authorization'[a]].epoch > grants'[o.grant].epoch
  BY DEF ClosedGrantsAreSpent
<1> DEFINE o == chain'[d][n]
<1>1. CASE n \in 1..Len(chain[d]) /\ o = chain[d][n]
  <2>1. o.grant \in Grants /\ grants[o.grant].device = d
    BY <1>0, <1>1 DEF Linked
  <2>2. /\ grants[o.grant].closed /\ ~o.late => n <= applied[d]
        /\ o.late => \E a \in Identity \ {o.identity} :
                       DeviceOf[a] = d /\ authorization[a] # 0
                       /\ grants[authorization[a]].epoch > grants[o.grant].epoch
    BY <1>0, <1>1 DEF ClosedGrantsAreSpent
  <2> HIDE DEF o
  <2>3. ASSUME grants'[o.grant].closed, ~o.late PROVE n <= applied'[d]
    <3>1. CASE grants[o.grant].closed
      BY <1>0, <1>1, <2>2, <2>3, <3>1
    <3>2. CASE ~grants[o.grant].closed
      <4>1. applied[d] = Len(chain[d]) /\ applied'[d] = applied[d]
        BY <2>1, <2>3, <3>2, ClosingStep
      <4> QED
        BY <1>0, <1>1, <4>1
    <3> QED
      BY <3>1, <3>2
  <2>4. ASSUME o.late
        PROVE  \E a \in Identity \ {o.identity} :
                 DeviceOf[a] = d /\ authorization'[a] # 0
                 /\ grants'[authorization'[a]].epoch > grants'[o.grant].epoch
    <3>1. PICK a \in Identity \ {o.identity} :
                 DeviceOf[a] = d /\ authorization[a] # 0
                 /\ grants[authorization[a]].epoch > grants[o.grant].epoch
      BY <2>2, <2>4
    <3> QED
      BY <2>1, <3>1, RenewedForGood
  <2> QED
    BY <2>3, <2>4 DEF o
<1>2. ASSUME NEW a \in Identity, NEW i \in Item, Seal(a, i), DeviceOf[a] = d, authorization[a] \in Grants,
             o.grant = authorization[a], o.identity = a, o.late = grants[authorization[a]].closed
      PROVE  /\ grants'[o.grant].closed /\ ~o.late => n <= applied'[d]
             /\ o.late => \E c \in Identity \ {o.identity} :
                            DeviceOf[c] = d /\ authorization'[c] # 0
                            /\ grants'[authorization'[c]].epoch > grants'[o.grant].epoch
  <2>1. UNCHANGED <<grants, authorization>> /\ freeze[d] = 0
    BY <1>2 DEF Seal, grantVars
  <2>2. grants[o.grant].device = d
    BY <1>0, <1>2, GrantFields DEF Linked
  <2>3. ASSUME o.late PROVE Renewed(authorization[a])
    BY <1>0, <1>2, <2>1, <2>2, <2>3 DEF LeftBehind
  <2>4. ASSUME o.late
        PROVE  \E c \in Identity \ {a} :
                 DeviceOf[c] = d /\ authorization[c] # 0
                 /\ grants[authorization[c]].epoch > grants[authorization[a]].epoch
    <3>1. PICK c \in Identity : /\ DeviceOf[c] = grants[authorization[a]].device /\ authorization[c] # 0
                                /\ grants[authorization[c]].epoch > grants[authorization[a]].epoch
      BY <2>3, <2>4 DEF Renewed
    <3>2. c # a
      BY <1>0, <1>2, <3>1, GrantFields
    <3> QED
      BY <1>2, <2>2, <3>1, <3>2
  <2> QED
    BY <1>2, <2>1, <2>4
<1> QED
  BY <1>1, <1>2, OperationOldOrNew

LEMMA SealedKeepsItsMeaningPreserved ==
  ASSUME ConfigurationInv, [ConfigurationNext]_configurationVars
  PROVE  SealedKeepsItsMeaning'
<1>0. /\ GrantsGrow /\ ConfigurationTypeOK /\ Linked /\ OpenGrantsAgree /\ ClosedGrantsAreSpent
      /\ SealedKeepsItsMeaning /\ catalog \in [Item -> CatalogItem]
  BY StepGrows DEF ConfigurationInv, ConfigurationTypeOK
<1> SUFFICES ASSUME NEW d \in Device, NEW n \in 1..Len(chain'[d]), ~chain'[d][n].late
             PROVE  /\ catalog'[chain'[d][n].item].status # "DELETED"
                    /\ catalog'[chain'[d][n].item].kind = grants'[chain'[d][n].grant].sees[chain'[d][n].item]
                    /\ currency' = grants'[chain'[d][n].grant].currency
  BY DEF SealedKeepsItsMeaning, KeepsMeaning
<1> DEFINE o == chain'[d][n]
<1>1. CASE n \in 1..Len(chain[d]) /\ o = chain[d][n]
  <2>1. /\ o.grant \in Grants /\ grants[o.grant].sees[o.item] # Absent /\ o.item \in Item
        /\ grants'[o.grant].sees = grants[o.grant].sees /\ grants'[o.grant].currency = grants[o.grant].currency
    BY <1>0, <1>1, ElementTypes DEF Linked, GrantsGrow, Operation
  <2>2. /\ catalog[o.item].status # "DELETED" /\ catalog[o.item].kind = grants[o.grant].sees[o.item]
        /\ currency = grants[o.grant].currency
    BY <1>0, <1>1 DEF SealedKeepsItsMeaning, KeepsMeaning
  <2>3. ~grants[o.grant].closed \/ (n <= applied[d] /\ applied[d] \in Nat)
    BY <1>0, <1>1 DEF ClosedGrantsAreSpent, ConfigurationTypeOK
  <2>4. ~Clear(o.item)
    <3>1. CASE ~grants[o.grant].closed
      BY <2>1, <3>1 DEF Clear, Uncertain
    <3>2. CASE n <= applied[d] /\ applied[d] \in Nat
      <4>1. n \in 1..applied[d]
        BY <3>2
      <4> QED
        BY <1>1, <4>1 DEF Clear, History
    <3> QED
      BY <2>3, <3>1, <3>2
  <2>5. ~CurrencyClear
    <3>1. CASE ~grants[o.grant].closed
      BY <2>1, <3>1 DEF CurrencyClear
    <3>2. CASE n <= applied[d] /\ applied[d] \in Nat
      BY <3>2 DEF CurrencyClear
    <3> QED
      BY <2>3, <3>1, <3>2
  <2> HIDE DEF o
  <2>6. currency' = currency
    BY <2>5, WhoChangesWhat DEF ChangeCurrency
  <2>7. catalog'[o.item].kind = catalog[o.item].kind /\ catalog'[o.item].status # "DELETED"
    <3>1. CASE UNCHANGED catalog
      BY <2>2, <3>1
    <3>2. ASSUME NEW j \in Item, ChangeStatus(j)
          PROVE  catalog'[o.item].kind = catalog[o.item].kind /\ catalog'[o.item].status # "DELETED"
      BY <1>0, <2>1, <2>2, <3>2 DEF ChangeStatus, CatalogItem
    <3>3. ASSUME NEW j \in Item, DeletePhysically(j) \/ \E k \in Kind : ChangeStructural(j, k)
          PROVE  catalog'[o.item] = catalog[o.item]
      BY <1>0, <2>1, <2>4, <3>3 DEF DeletePhysically, ChangeStructural
    <3> QED
      BY <2>2, <3>1, <3>2, <3>3, WhoChangesWhat DEF CatalogChange
  <2> QED
    BY <2>1, <2>2, <2>6, <2>7 DEF o
<1>2. ASSUME NEW a \in Identity, NEW i \in Item, Seal(a, i), authorization[a] \in Grants,
             o.grant = authorization[a], o.item = i, o.late = grants[authorization[a]].closed
      PROVE  /\ catalog'[o.item].status # "DELETED" /\ catalog'[o.item].kind = grants'[o.grant].sees[o.item]
             /\ currency' = grants'[o.grant].currency
  <2>1. UNCHANGED <<grants, catalog, currency>> /\ grants[authorization[a]].sees[i] # Absent
    BY <1>2 DEF Seal, grantVars, organizationVars
  <2>2. ~grants[authorization[a]].closed
    BY <1>2
  <2> QED
    BY <1>0, <1>2, <2>1, <2>2 DEF OpenGrantsAgree
<1> QED
  BY <1>1, <1>2, OperationOldOrNew

-----------------------------------------------------------------------------
LEMMA InitConfigurationInv == ConfigurationInit => ConfigurationInv
<1> SUFFICES ASSUME ConfigurationInit PROVE ConfigurationInv
  OBVIOUS
<1>1. /\ Grants = {} /\ Barriers = {} /\ checkpoints = {}
      /\ \A d \in Device : 1..Len(chain[d]) = {}
  BY EmptySeq DEF ConfigurationInit, Grants, Barriers
<1>2. \A a \in Identity : authorization[a] = 0 /\ request[a].grant = 0
  BY DEF ConfigurationInit, NoRequest
<1> QED
  BY <1>1, <1>2, InitTypeOK DEF ConfigurationInv, Linked, Epochs, OpenGrantsAgree, LeftBehind,
     CheckpointHolds, ClosedGrantsAreSpent, SealedKeepsItsMeaning

LEMMA ConfigurationInvariant == ConfigurationSpec => []ConfigurationInv
<1>1. ConfigurationInv /\ [ConfigurationNext]_configurationVars => ConfigurationInv'
  <2> SUFFICES ASSUME ConfigurationInv, [ConfigurationNext]_configurationVars PROVE ConfigurationInv'
    OBVIOUS
  <2>1. ConfigurationTypeOK'
    BY StepTypeOK DEF ConfigurationInv
  <2> QED
    BY <2>1, LinkedPreserved, EpochsPreserved, OpenGrantsAgreePreserved, LeftBehindPreserved,
       CheckpointHoldsPreserved, ClosedGrantsAreSpentPreserved, SealedKeepsItsMeaningPreserved
    DEF ConfigurationInv
<1> QED
  BY InitConfigurationInv, <1>1, PTL DEF ConfigurationSpec

(* No change of the catalog or of the currency, however it interleaves     *)
(* with sales, deliveries and barriers, changes what a sealed operation    *)
(* means, whether it has reached the server or not.                        *)
THEOREM MeaningKept == ConfigurationSpec => []SealedKeepsItsMeaning
BY ConfigurationInvariant, PTL DEF ConfigurationInv

(* A completed barrier leaves nothing behind: what was sealed with a grant *)
(* it closed is applied, but for the users of a device that another one    *)
(* brought back.                                                           *)
THEOREM ClosedAreSpent == ConfigurationSpec => []ClosedGrantsAreSpent
BY ConfigurationInvariant, PTL DEF ConfigurationInv

(* What a device signed for a barrier stays true until it is completed.    *)
THEOREM CheckpointsHold == ConfigurationSpec => []CheckpointHolds
BY ConfigurationInvariant, PTL DEF ConfigurationInv

=============================================================================
