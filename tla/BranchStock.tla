----------------------------- MODULE BranchStock -----------------------------
(***************************************************************************)
(* The stock of an organization's branches: the projection branch_stocks,  *)
(* the append-only ledger inventory_movements it is computed from, and the *)
(* incidents an offline sale opens when it takes more than there was.      *)
(*                                                                         *)
(* The inventory_api functions lock the stock rows they touch, in branch   *)
(* and item order, and hold them to the end of the transaction, so each    *)
(* command is one step.  Adjustments and transfers are the commands of     *)
(* this module; Trade adds the documents that move stock.  Who may act is  *)
(* left out, and every item is a tracked, active product.                  *)
(***************************************************************************)
EXTENDS Integers, Sequences, FiniteSetsExt

CONSTANTS
  Branch, Item,
  MaxQuantity,   \* bound: units of an item in one document
  MaxDocuments   \* bound: documents that may be written

ASSUME StockAssumption ==
  /\ IsFiniteSet(Branch) /\ IsFiniteSet(Item)
  /\ MaxQuantity \in Nat \ {0} /\ MaxDocuments \in Nat

VARIABLES
  quantity,      \* branch_stocks.quantity
  movements,     \* inventory_movements
  incident,      \* inventory_incidents: the latest one of each stock
  adjustments,   \* inventory_adjustments; an adjustment's id is its position
  transfers,     \* stock_transfers, with their lines
  activeBranches \* branches with status ACTIVE

stockVars == <<quantity, movements, incident>>
inventoryVars == <<stockVars, adjustments, transfers>>

Place == Branch \X Item

(* branch_stocks and inventory_movements: the stock moved, by how much,    *)
(* and the document (type and id) that moved it.                           *)
SourceType == {"ADJUSTMENT", "TRANSFER", "SALE", "SALE_CANCELLATION", "PURCHASE",
               "PURCHASE_CANCELLATION", "EXPENSE", "EXPENSE_CANCELLATION"}
Source == SourceType \X (Nat \ {0})
Movement == [source: Source, place: Place, delta: Int]
Stock == [Place -> Int]

UnderReview == {"OPEN", "PENDING_REVIEW"}
IncidentStatus == {"NONE", "RESOLVED"} \cup UnderReview
Incident == [status: IncidentStatus, shortfall: Nat, corrections: SUBSET Source]
NoIncident == [status |-> "NONE", shortfall |-> 0, corrections |-> {}]

(* What a document may carry: at least one unit of some item.              *)
Lines == {l \in [Item -> 0..MaxQuantity] : \E i \in Item : l[i] > 0}

Adjustment ==
  [place: Place, delta: Int \ {0}, compensates: Nat]   \* 0: compensates none
Transfer ==
  [origin: Branch, destination: Branch, lines: Lines, compensates: Nat]

StockTypeOK ==
  /\ quantity \in Stock
  /\ movements \subseteq Movement
  /\ incident \in [Place -> Incident]
  /\ adjustments \in Seq(Adjustment)
  /\ transfers \in Seq(Transfer)
  /\ activeBranches \subseteq Branch

(* initialize_item_stocks and initialize_branch_stocks: every branch has a *)
(* row for every tracked item, from the day either is created.             *)
StockInit ==
  /\ quantity = [p \in Place |-> 0]
  /\ movements = {}
  /\ incident = [p \in Place |-> NoIncident]
  /\ adjustments = <<>>
  /\ transfers = <<>>
  /\ activeBranches = Branch

-----------------------------------------------------------------------------
(* Posting to the ledger and the projection.                               *)

(* What lines take from (sign -1) or give to (sign 1) a branch.            *)
At(b, lines, sign) ==
  [p \in Place |-> IF p[1] = b THEN sign * lines[p[2]] ELSE 0]

Plus(d, e) == [p \in Place |-> d[p] + e[p]]

Enough(delta) == \A p \in Place : delta[p] < 0 => quantity[p] + delta[p] >= 0

Entries(source, delta) ==
  {[source |-> source, place |-> p, delta |-> delta[p]] : p \in {q \in Place : delta[q] # 0}}

(* link_incident_corrections, the trigger of an update of branch_stocks    *)
(* that raises the quantity to after.                                      *)
LinkCorrection(p, source, after) ==
  IF incident[p].status \notin UnderReview THEN incident[p]
  ELSE [incident[p] EXCEPT !.corrections = @ \cup {source},
                           !.status = IF after >= 0 THEN "PENDING_REVIEW" ELSE @]

(* The INSERT into inventory_movements and the UPDATE of branch_stocks all *)
(* inventory_api functions end with.                                       *)
Post(source, delta) ==
  /\ movements' = movements \cup Entries(source, delta)
  /\ quantity' = Plus(quantity, delta)
  /\ incident' = [p \in Place |->
       IF delta[p] > 0 THEN LinkCorrection(p, source, quantity[p] + delta[p]) ELSE incident[p]]

-----------------------------------------------------------------------------
(* Adjustments.                                                            *)

(* apply_adjustment, which replaced apply_increase and apply_decrease; and *)
(* link_compensation when it compensates an earlier one.                   *)
ApplyAdjustment(p, delta, compensated) ==
  LET d == [q \in Place |-> IF q = p THEN delta ELSE 0] IN
  /\ p[1] \in activeBranches
  /\ Enough(d)
  /\ adjustments' = Append(adjustments, [place |-> p, delta |-> delta, compensates |-> compensated])
  /\ Post(<<"ADJUSTMENT", Len(adjustments) + 1>>, d)
  /\ UNCHANGED <<transfers, activeBranches>>

ConfirmAdjustment(p, delta) == ApplyAdjustment(p, delta, 0)

(* The original is read before the transaction; it is immutable, and the   *)
(* key of inventory_adjustment_compensations allows one per original.      *)
CompensateAdjustment(n) ==
  /\ \A m \in 1..Len(adjustments) : adjustments[m].compensates # n
  /\ ApplyAdjustment(adjustments[n].place, -adjustments[n].delta, n)

-----------------------------------------------------------------------------
(* Transfers between branches.                                             *)

(* validateInTransaction and lock_transfer_stock: two active branches, and *)
(* enough at the origin once its rows are locked.                          *)
ApplyTransfer(from, to, lines, compensated) ==
  LET d == Plus(At(from, lines, -1), At(to, lines, 1)) IN
  /\ from # to /\ {from, to} \subseteq activeBranches
  /\ Enough(d)
  /\ transfers' = Append(transfers, [origin |-> from, destination |-> to,
                                     lines |-> lines, compensates |-> compensated])
  /\ Post(<<"TRANSFER", Len(transfers) + 1>>, d)
  /\ UNCHANGED <<adjustments, activeBranches>>

ConfirmTransfer(from, to, lines) == ApplyTransfer(from, to, lines, 0)

(* A compensation goes back the same way with the same lines; it cannot be *)
(* compensated itself (link_transfer_compensation).                        *)
CompensateTransfer(n) ==
  /\ transfers[n].compensates = 0
  /\ \A m \in 1..Len(transfers) : transfers[m].compensates # n
  /\ ApplyTransfer(transfers[n].destination, transfers[n].origin, transfers[n].lines, n)

-----------------------------------------------------------------------------
(* What the documents of other modules do to the stock.                    *)

(* lock_sale_stock and apply_sale_stock *)
ApplySaleStock(n, b, lines) ==
  /\ Enough(At(b, lines, -1))
  /\ Post(<<"SALE", n>>, At(b, lines, -1))

(* Mutated form: a shortage opened again forgets what was linked to it. *)
ShortageForgetsCorrections(p, after) ==
  [status |-> "OPEN", corrections |-> {},
   shortfall |-> IF incident[p].status \in UnderReview /\ incident[p].shortfall > -after
                 THEN incident[p].shortfall ELSE -after]

(* Mutated form: an incident already reviewed is not opened again. *)
ShortageNotReopened(p, after) ==
  IF incident[p].status \in UnderReview
  THEN [incident[p] EXCEPT !.shortfall = IF @ < -after THEN -after ELSE @]
  ELSE [status |-> "OPEN", shortfall |-> -after, corrections |-> {}]

(* The INSERT ... ON CONFLICT into inventory_incidents: the active incident *)
(* of the stock is opened again, or a new one is.                           *)
Shortage(p, after) ==
  IF incident[p].status \in UnderReview
  THEN [incident[p] EXCEPT !.status = "OPEN", !.shortfall = IF @ < -after THEN -after ELSE @]
  ELSE [status |-> "OPEN", shortfall |-> -after, corrections |-> {}]

(* apply_offline_sale_stock: the goods are gone, whatever the balance says. *)
ApplyOfflineSaleStock(n, b, lines) ==
  LET d == At(b, lines, -1) IN
  /\ movements' = movements \cup Entries(<<"SALE", n>>, d)
  /\ quantity' = Plus(quantity, d)
  /\ incident' = [p \in Place |->
       IF d[p] < 0 /\ quantity[p] + d[p] < 0 THEN Shortage(p, quantity[p] + d[p]) ELSE incident[p]]

(* What the ledger says a document did to each stock, taken back; its      *)
(* source key allows a document one entry per stock.                       *)
Posted(source, p) == {m \in movements : m.source = source /\ m.place = p}
Undone(source) ==
  [p \in Place |-> IF Posted(source, p) = {} THEN 0
                   ELSE -(CHOOSE m \in Posted(source, p) : TRUE).delta]

(* reverse_sale_stock *)
ReverseSaleStock(n) == Post(<<"SALE_CANCELLATION", n>>, Undone(<<"SALE", n>>))

(* apply_purchase_stock *)
ApplyPurchaseStock(n, b, lines) == Post(<<"PURCHASE", n>>, At(b, lines, 1))

(* reverse_purchase_stock: every balance is checked before any is changed. *)
ReversePurchaseStock(n) ==
  /\ Enough(Undone(<<"PURCHASE", n>>))
  /\ Post(<<"PURCHASE_CANCELLATION", n>>, Undone(<<"PURCHASE", n>>))

-----------------------------------------------------------------------------
(* InventoryIncidentService.resolve, under the lock of the stock row.      *)
ResolveIncident(p) ==
  /\ incident[p].status = "PENDING_REVIEW"
  /\ quantity[p] >= 0
  /\ incident' = [incident EXCEPT ![p].status = "RESOLVED"]
  /\ UNCHANGED <<quantity, movements, adjustments, transfers, activeBranches>>

InventoryDocuments == Len(adjustments) + Len(transfers)

AdjustOrTransfer ==
  \/ \E p \in Place, u \in (-MaxQuantity..MaxQuantity) \ {0} : ConfirmAdjustment(p, u)
  \/ \E n \in 1..Len(adjustments) : CompensateAdjustment(n)
  \/ \E b, c \in Branch, l \in Lines : ConfirmTransfer(b, c, l)
  \/ \E n \in 1..Len(transfers) : CompensateTransfer(n)
=============================================================================
