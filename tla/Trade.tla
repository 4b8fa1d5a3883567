-------------------------------- MODULE Trade --------------------------------
(***************************************************************************)
(* Sales, purchases and expenses: the documents that move stock and cash,  *)
(* and the cancellations that take both back.                              *)
(*                                                                         *)
(* PostgreSQL runs the transactions at READ COMMITTED, and a cancellation  *)
(* or a payment reads the document, and locks the cash session it will     *)
(* use, before it locks the document: those are two steps here, Begin and  *)
(* Commit, with other commands in between.  A confirmation is one step: it *)
(* reads nothing before the locks it holds to its end.                     *)
(*                                                                         *)
(* Each unit costs 1, so a document's total is the units it carries, and   *)
(* the price a sale is confirmed at is left out.  The session's own life   *)
(* is in CashSession: here one is opened, in conflict when an offline       *)
(* opening finds its register taken, and closed with its device present or *)
(* lost.  A transaction the database aborts (a deadlock, a lost *)
(* connection) leaves nothing behind; its retry begins again.              *)
(***************************************************************************)
EXTENDS BranchStock

CONSTANTS
  Session,      \* cash sessions that may be opened
  BranchOf,     \* the branch of each
  Opening,      \* the cash each is opened with
  Tx,           \* transactions that may be open at once
  NoSession

ASSUME TradeAssumption ==
  /\ BranchOf \in [Session -> Branch]
  /\ Opening \in [Session -> Nat]
  /\ NoSession \notin Session

VARIABLES
  session,      \* cash_sessions: status and expected_cash
  cashMovements,\* cash_movements
  sales, purchases, expenses,  \* a document's id is its position
  tx            \* open transactions between their two steps

documentVars == <<sales, purchases, expenses>>
cashVars == <<session, cashMovements>>
tradeVars == <<inventoryVars, activeBranches, cashVars, documentVars, tx>>

SessionStatus == {"NONE", "OPEN", "CONFLICTED", "CLOSED", "CLOSED_WITH_UNRECOVERED_DEVICE"}
Active == {"OPEN", "CONFLICTED"}
Lost == "CLOSED_WITH_UNRECOVERED_DEVICE"

CashSession == [status: SessionStatus, expected: Nat]
CashMovement == [source: Source, session: Session, delta: Int]
Sale ==        \* cash and card: what sale_payments cover in CASH and otherwise
  [branch: Branch, lines: Lines, cash: Nat, card: Nat, session: Session,
   late: BOOLEAN, cancelled: BOOLEAN, refunded: Nat]  \* of late: recovered from a lost device
Purchase ==
  [branch: Branch, lines: Lines, payment: {"NONE", "CASH", "CARD"},
   cancelled: BOOLEAN, reversal: {"NONE", "CASH", "CARD"},
   paidLate: BOOLEAN]  \* history: paid when it was cancelled already
Expense ==
  [branch: Branch, amount: Nat, method: {"CASH", "CARD"}, cancelled: BOOLEAN]

(* What a transaction has read and locked at its first step.               *)
Idle == [op |-> "IDLE", document |-> 0, session |-> NoSession]
Transaction ==
  [op: {"IDLE", "CANCEL_SALE", "PAY_PURCHASE", "CANCEL_PURCHASE", "CANCEL_EXPENSE"},
   document: Nat, session: Session \cup {NoSession}]

TradeTypeOK ==
  /\ StockTypeOK
  /\ session \in [Session -> CashSession]
  /\ cashMovements \subseteq CashMovement
  /\ sales \in Seq(Sale)
  /\ purchases \in Seq(Purchase)
  /\ expenses \in Seq(Expense)
  /\ tx \in [Tx -> Transaction]

TradeInit ==
  /\ StockInit
  /\ session = [s \in Session |-> [status |-> "NONE", expected |-> 0]]
  /\ cashMovements = {}
  /\ sales = <<>> /\ purchases = <<>> /\ expenses = <<>>
  /\ tx = [t \in Tx |-> Idle]

Documents == InventoryDocuments + Len(sales) + Len(purchases) + Len(expenses)
RoomForOne == Documents < MaxDocuments

Units(lines) == SumFunction(lines)

-----------------------------------------------------------------------------
(* Cash.                                                                   *)

Unlocked(s) == \A t \in Tx : tx[t].session # s

(* requireOperational: the session is open, of that branch, and no other   *)
(* transaction holds its row.                                              *)
Operational(s, b) == session[s].status = "OPEN" /\ BranchOf[s] = b /\ Unlocked(s)

(* An INSERT into cash_movements, checked and added up by its trigger,     *)
(* apply_cash_movement.                                                    *)
MoveCash(source, s, delta) ==
  IF delta = 0 THEN UNCHANGED cashVars
  ELSE /\ session[s].expected + delta >= 0
       /\ session' = [session EXCEPT ![s].expected = @ + delta]
       /\ cashMovements' = cashMovements \cup {[source |-> source, session |-> s, delta |-> delta]}

(* CashOpeningPreparation.prepare: in an active branch whose row it locks, *)
(* one at a time on a register; a branch has one register here.            *)
OpeningPrepared(s) ==
  /\ BranchOf[s] \in activeBranches
  /\ \A r \in Session : BranchOf[r] = BranchOf[s] => session[r].status \notin Active

OpenSession(s) ==
  /\ session[s].status = "NONE" /\ OpeningPrepared(s)
  /\ session' = [session EXCEPT ![s] = [status |-> "OPEN", expected |-> Opening[s]]]
  /\ UNCHANGED <<inventoryVars, activeBranches, cashMovements, documentVars, tx>>

(* OfflineCashOpeningImporter.apply, when another session of the register  *)
(* is active.  (An opening that finds none is OpenSession; none arrives at *)
(* an inactive branch, whose devices have nothing pending.)                *)
OpenConflicted(s) ==
  /\ session[s].status = "NONE"
  /\ \E r \in Session : BranchOf[r] = BranchOf[s] /\ session[r].status \in Active
  /\ session' = [session EXCEPT ![s] = [status |-> "CONFLICTED", expected |-> Opening[s]]]
  /\ UNCHANGED <<inventoryVars, activeBranches, cashMovements, documentVars, tx>>

(* A session is closed, or its conflict reconciled, with everything its    *)
(* device sealed, or, when the device is lost, without it.                 *)
CloseSession(s, how) ==
  /\ session[s].status \in Active /\ Unlocked(s)
  /\ session' = [session EXCEPT ![s].status = how]
  /\ UNCHANGED <<inventoryVars, activeBranches, cashMovements, documentVars, tx>>

-----------------------------------------------------------------------------
(* Confirmations.                                                          *)

(* SalesPersistence.persist: payments cover the total, the stock of every  *)
(* item is locked and suffices, and one cash movement has the cash part.   *)
PersistSale(n, b, s, lines, cash) ==
  /\ Operational(s, b)
  /\ sales' = Append(sales, [branch |-> b, lines |-> lines, cash |-> cash,
                             card |-> Units(lines) - cash, session |-> s, late |-> FALSE,
                             cancelled |-> FALSE, refunded |-> 0])
  /\ ApplySaleStock(n, b, lines)
  /\ MoveCash(<<"SALE", n>>, s, cash)

ConfirmSale(s, lines, cash) ==
  /\ RoomForOne
  /\ BranchOf[s] \in activeBranches
  /\ PersistSale(Len(sales) + 1, BranchOf[s], s, lines, cash)
  /\ UNCHANGED <<adjustments, transfers, activeBranches, purchases, expenses, tx>>

(* OfflineSaleImporter.apply: the sale was made; stock may become negative, *)
(* and a session in conflict, or closed without its device, still takes it. *)
ImportOfflineSale(s, lines, cash) ==
  LET b == BranchOf[s]  n == Len(sales) + 1 IN
  /\ RoomForOne
  /\ session[s].status \in Active \cup {Lost} /\ Unlocked(s)
  /\ sales' = Append(sales, [branch |-> b, lines |-> lines, cash |-> cash,
                             card |-> Units(lines) - cash, session |-> s,
                             late |-> session[s].status = Lost,
                             cancelled |-> FALSE, refunded |-> 0])
  /\ ApplyOfflineSaleStock(n, b, lines)
  /\ MoveCash(<<"SALE", n>>, s, cash)
  /\ UNCHANGED <<adjustments, transfers, activeBranches, purchases, expenses, tx>>

Method(s) == IF s = NoSession THEN "CARD" ELSE "CASH"

PersistPurchase(b, lines, payment) ==
  /\ b \in activeBranches
  /\ purchases' = Append(purchases, [branch |-> b, lines |-> lines, payment |-> payment,
                                     cancelled |-> FALSE, reversal |-> "NONE", paidLate |-> FALSE])

(* persistPending or persistPaid, and applyStock *)
ReceivePurchase(b, lines, payment) ==
  /\ RoomForOne
  /\ PersistPurchase(b, lines, payment)
  /\ ApplyPurchaseStock(Len(purchases) + 1, b, lines)
  /\ UNCHANGED <<adjustments, transfers, activeBranches, sales, expenses, tx>>

(* PurchaseOperationsService.recordCashOut *)
PurchaseCashOut(n, s, amount) ==
  IF s = NoSession THEN UNCHANGED cashVars ELSE MoveCash(<<"PURCHASE", n>>, s, -amount)

ConfirmPending(b, lines) == ReceivePurchase(b, lines, "NONE") /\ UNCHANGED cashVars

(* preparePaid, in cash out of a session of the branch or otherwise *)
PreparePaid(b, lines, s) ==
  /\ s # NoSession => Operational(s, b)
  /\ ReceivePurchase(b, lines, Method(s))
  /\ PurchaseCashOut(Len(purchases) + 1, s, Units(lines))

PersistExpense(b, amount, method) ==
  /\ b \in activeBranches
  /\ expenses' = Append(expenses, [branch |-> b, amount |-> amount, cancelled |-> FALSE,
                                   method |-> method])

(* ExpenseOperationsService.recordCashOut *)
ExpenseCashOut(n, s, amount) ==
  IF s = NoSession THEN UNCHANGED cashVars ELSE MoveCash(<<"EXPENSE", n>>, s, -amount)

CreateExpense(b, amount, s) ==
  /\ RoomForOne
  /\ s # NoSession => Operational(s, b)
  /\ PersistExpense(b, amount, Method(s))
  /\ ExpenseCashOut(Len(expenses) + 1, s, amount)
  /\ UNCHANGED <<inventoryVars, activeBranches, sales, purchases, tx>>

-----------------------------------------------------------------------------
(* Payments and cancellations: the first step reads, and locks the session. *)
(* One about a document that is already cancelled (or paid) must fail, and  *)
(* is left out.                                                             *)

Begin(t, op, n, s) ==
  /\ tx[t] = Idle
  /\ tx' = [tx EXCEPT ![t] = [op |-> op, document |-> n, session |-> s]]
  /\ UNCHANGED <<inventoryVars, activeBranches, cashVars, documentVars>>

(* requireCashRefundSession *)
BeginCancelSale(t, n, s) ==
  /\ ~sales[n].cancelled
  /\ IF sales[n].cash = 0 THEN s = NoSession
     ELSE s # NoSession /\ Operational(s, sales[n].branch) /\ session[s].expected >= sales[n].cash
  /\ Begin(t, "CANCEL_SALE", n, s)

(* preparePendingPayment, up to the lock of the purchase *)
BeginPayPurchase(t, n, s) ==
  /\ ~purchases[n].cancelled /\ purchases[n].payment = "NONE"
  /\ purchases[n].branch \in activeBranches
  /\ s # NoSession => Operational(s, purchases[n].branch)
  /\ Begin(t, "PAY_PURCHASE", n, s)

(* requireCashReturnSession: a session is needed, and locked, only if a    *)
(* cash payment is already there.                                          *)
BeginCancelPurchase(t, n, s) ==
  /\ ~purchases[n].cancelled
  /\ purchases[n].branch \in activeBranches
  /\ IF purchases[n].payment # "CASH" THEN s = NoSession
     ELSE s # NoSession /\ Operational(s, purchases[n].branch)
  /\ Begin(t, "CANCEL_PURCHASE", n, s)

BeginCancelExpense(t, n, s) ==
  /\ ~expenses[n].cancelled
  /\ expenses[n].branch \in activeBranches
  /\ IF expenses[n].method # "CASH" THEN s = NoSession
     ELSE s # NoSession /\ Operational(s, expenses[n].branch)
  /\ Begin(t, "CANCEL_EXPENSE", n, s)

-----------------------------------------------------------------------------
(* The second step, under the lock of the document, checks again and acts. *)

Commit(t, op) == tx[t].op = op /\ tx' = [tx EXCEPT ![t] = Idle]

(* SaleCancellationPreparation: prepare; record and refund; recordCashRefund. *)
SalePrepared(n) == ~sales[n].cancelled

RecordSaleRefunds(n) ==
  sales' = [sales EXCEPT ![n].cancelled = TRUE, ![n].refunded = @ + sales[n].cash + sales[n].card]

RecordCashRefund(n, s) ==
  IF s = NoSession THEN UNCHANGED cashVars
  ELSE MoveCash(<<"SALE_CANCELLATION", n>>, s, -sales[n].cash)

CommitCancelSale(t) ==
  LET n == tx[t].document IN
  /\ Commit(t, "CANCEL_SALE")
  /\ SalePrepared(n)
  /\ RecordSaleRefunds(n)
  /\ ReverseSaleStock(n)
  /\ RecordCashRefund(n, tx[t].session)
  /\ UNCHANGED <<adjustments, transfers, activeBranches, purchases, expenses>>

(* The rest of preparePendingPayment.  One statement locks the purchase    *)
(* and looks for a payment and a cancellation; it looks as of the moment it *)
(* began.  When it had to wait for a cancellation that held the lock, it    *)
(* does not see it: the row it waited for is not changed by a cancellation, *)
(* so PostgreSQL does not look again.  (When it did not wait it sees it,    *)
(* and is rolled back.)  A second payment violates a key.                   *)
CommitPayPurchase(t) ==
  LET n == tx[t].document  s == tx[t].session IN
  /\ Commit(t, "PAY_PURCHASE")
  /\ purchases[n].payment = "NONE"
  /\ purchases' = [purchases EXCEPT ![n].payment = Method(s),
                                    ![n].paidLate = purchases[n].cancelled]
  /\ PurchaseCashOut(n, s, Units(purchases[n].lines))
  /\ UNCHANGED <<inventoryVars, activeBranches, sales, expenses>>

(* Mutated form: the session found at the first step is taken as the answer. *)
ReversePaymentAsRead(n, s) ==
  /\ purchases' = [purchases EXCEPT ![n].cancelled = TRUE, ![n].reversal = purchases[n].payment]
  /\ IF s = NoSession THEN UNCHANGED cashVars
     ELSE MoveCash(<<"PURCHASE_CANCELLATION", n>>, s, Units(purchases[n].lines))

(* record, reversePayment and recordCashReturn: the payment is read again; *)
(* one in cash that came in between has no session to go back to.          *)
ReversePayment(n, s) ==
  /\ purchases[n].payment = "CASH" => s # NoSession
  /\ purchases' = [purchases EXCEPT ![n].cancelled = TRUE, ![n].reversal = purchases[n].payment]
  /\ IF s = NoSession THEN UNCHANGED cashVars
     ELSE MoveCash(<<"PURCHASE_CANCELLATION", n>>, s, Units(purchases[n].lines))

(* PurchaseCancellationPreparation.prepare, which authorizes again *)
PurchasePrepared(n) == purchases[n].branch \in activeBranches /\ ~purchases[n].cancelled

CommitCancelPurchase(t) ==
  LET n == tx[t].document IN
  /\ Commit(t, "CANCEL_PURCHASE")
  /\ PurchasePrepared(n)
  /\ ReversePurchaseStock(n)
  /\ ReversePayment(n, tx[t].session)
  /\ UNCHANGED <<adjustments, transfers, activeBranches, sales, expenses>>

(* ExpenseCancellationPreparation: prepare, under the advisory lock of the *)
(* expense, and recordCashReturn.                                          *)
ExpensePrepared(n) == expenses[n].branch \in activeBranches /\ ~expenses[n].cancelled

RecordCashReturn(n, s) ==
  IF s = NoSession THEN UNCHANGED cashVars
  ELSE MoveCash(<<"EXPENSE_CANCELLATION", n>>, s, expenses[n].amount)

CommitCancelExpense(t) ==
  LET n == tx[t].document IN
  /\ Commit(t, "CANCEL_EXPENSE")
  /\ ExpensePrepared(n)
  /\ expenses' = [expenses EXCEPT ![n].cancelled = TRUE]
  /\ RecordCashReturn(n, tx[t].session)
  /\ UNCHANGED <<inventoryVars, activeBranches, sales, purchases>>

(* A check fails, or the database aborts the transaction.                  *)
Rollback(t) ==
  /\ tx[t] # Idle
  /\ tx' = [tx EXCEPT ![t] = Idle]
  /\ UNCHANGED <<inventoryVars, activeBranches, cashVars, documentVars>>

-----------------------------------------------------------------------------
(* Mutated form: only the sessions are looked at. *)
DeactivateBranchWithIncidents(b) ==
  /\ b \in activeBranches
  /\ \A s \in Session : BranchOf[s] = b => session[s].status \notin Active
  /\ activeBranches' = activeBranches \ {b}
  /\ UNCHANGED <<inventoryVars, cashVars, documentVars, tx>>

(* BranchDeactivationService.deactivate and guard_branch_deactivation: no  *)
(* session is active and no incident under review.  (Offline exposures and *)
(* pending operations of its devices end with the session here.)           *)
DeactivateBranch(b) ==
  /\ b \in activeBranches
  /\ \A s \in Session : BranchOf[s] = b => session[s].status \notin Active
  /\ \A i \in Item : incident[<<b, i>>].status \notin UnderReview
  /\ activeBranches' = activeBranches \ {b}
  /\ UNCHANGED <<inventoryVars, cashVars, documentVars, tx>>

InventoryStep ==
  /\ RoomForOne /\ AdjustOrTransfer
  /\ UNCHANGED <<cashVars, documentVars, tx>>

IncidentStep ==
  /\ \E p \in Place : ResolveIncident(p)
  /\ UNCHANGED <<cashVars, documentVars, tx>>

SessionStep ==
  \E s \in Session :
    \/ OpenSession(s) \/ OpenConflicted(s)
    \/ \E how \in {"CLOSED", Lost} : CloseSession(s, how)

ConfirmStep ==
  \E l \in Lines :
    \/ \E s \in Session, c \in 0..Units(l) : ConfirmSale(s, l, c) \/ ImportOfflineSale(s, l, c)
    \/ \E b \in Branch : ConfirmPending(b, l) \/ \E s \in Session \cup {NoSession} : PreparePaid(b, l, s)

ExpenseStep ==
  \E b \in Branch, u \in 1..MaxQuantity, s \in Session \cup {NoSession} : CreateExpense(b, u, s)

BeginStep ==
  \E t \in Tx, s \in Session \cup {NoSession} :
    \/ \E n \in 1..Len(sales) : BeginCancelSale(t, n, s)
    \/ \E n \in 1..Len(purchases) : BeginPayPurchase(t, n, s) \/ BeginCancelPurchase(t, n, s)
    \/ \E n \in 1..Len(expenses) : BeginCancelExpense(t, n, s)

CommitStep ==
  \E t \in Tx :
    \/ CommitCancelSale(t) \/ CommitPayPurchase(t)
    \/ CommitCancelPurchase(t) \/ CommitCancelExpense(t)
    \/ Rollback(t)

TradeNext ==
  \/ InventoryStep \/ IncidentStep \/ SessionStep
  \/ ConfirmStep \/ ExpenseStep \/ BeginStep \/ CommitStep
  \/ \E b \in Branch : DeactivateBranch(b)

TradeSpec == TradeInit /\ [][TradeNext]_tradeVars

-----------------------------------------------------------------------------
Sum(S) == SumFunction([m \in S |-> m.delta])

(* The projection is the ledger: every stock is the sum of its movements,  *)
(* as InventoryLedgerVerifier recomputes it, whatever was cancelled,       *)
(* compensated or sold offline; and an incident is presented for review    *)
(* only when what was linked to it since it was opened makes up for the    *)
(* most that was ever missing.                                             *)
LedgerExplainsStock ==
  \A p \in Place :
    /\ quantity[p] = Sum({m \in movements : m.place = p})
    /\ incident[p].status = "PENDING_REVIEW" =>
         incident[p].shortfall <=
           Sum({m \in movements : m.place = p /\ m.source \in incident[p].corrections /\ m.delta > 0})

(* A stock is negative exactly while its incident is open, and the         *)
(* incident says at least how much is missing: no sequence of commands     *)
(* leaves a shortage nobody is asked to review, or asks for a review of    *)
(* one that is still there.                                                *)
ShortageUnderReview ==
  \A p \in Place :
    /\ quantity[p] < 0 <=> incident[p].status = "OPEN"
    /\ quantity[p] < 0 => incident[p].shortfall >= -quantity[p]

Cancellation == [SALE |-> "SALE_CANCELLATION", PURCHASE |-> "PURCHASE_CANCELLATION",
                 EXPENSE |-> "EXPENSE_CANCELLATION"]
Movements(kind, n) == {m \in movements : m.source \in {<<kind, n>>, <<Cancellation[kind], n>>}}
CashOf(kind, n) == {m \in cashMovements : m.source \in {<<kind, n>>, <<Cancellation[kind], n>>}}

NetsToZero(kind, n) ==
  /\ \A p \in Place : Sum({m \in Movements(kind, n) : m.place = p}) = 0
  /\ Sum(CashOf(kind, n)) = 0

(* A cancelled document left nothing behind: no stock in any branch, no    *)
(* cash in any session, no payment that was not given back, even when it   *)
(* was paid while its cancellation was under way.  (A payment that came    *)
(* after the cancellation is the subject of CancelledStaysUnpaid.)  One    *)
(* that stands has had exactly the effect it says.                         *)
CancelledNetsToZero ==
  /\ \A n \in 1..Len(sales) :
       /\ sales[n].cancelled => NetsToZero("SALE", n)
       /\ sales[n].refunded = IF sales[n].cancelled THEN Units(sales[n].lines) ELSE 0
       /\ ~sales[n].cancelled => Sum(CashOf("SALE", n)) = sales[n].cash
  /\ \A n \in 1..Len(purchases) :
       IF purchases[n].cancelled
       THEN /\ \A p \in Place : Sum({m \in Movements("PURCHASE", n) : m.place = p}) = 0
            /\ ~purchases[n].paidLate => /\ Sum(CashOf("PURCHASE", n)) = 0
                                         /\ purchases[n].reversal = purchases[n].payment
       ELSE Sum(CashOf("PURCHASE", n)) =
              IF purchases[n].payment = "CASH" THEN -Units(purchases[n].lines) ELSE 0
  /\ \A n \in 1..Len(expenses) : expenses[n].cancelled => NetsToZero("EXPENSE", n)

(* What the documentation says of a payment: it finds out, once the        *)
(* purchase is locked, whether it was cancelled, so that a cancelled       *)
(* purchase is never paid.  It does not hold (README, F5), and no run      *)
(* checks it.                                                              *)
CancelledStaysUnpaid == \A n \in 1..Len(purchases) : ~purchases[n].paidLate

(* A branch is not closed over work in progress: once inactive it has no   *)
(* session open or in conflict, and a shortage found there afterwards was  *)
(* sold by a device that was given up for lost.                            *)
InactiveBranchQuiet ==
  \A b \in Branch \ activeBranches :
    /\ \A s \in Session : BranchOf[s] = b => session[s].status \notin Active
    /\ \A i \in Item : incident[<<b, i>>].status \in UnderReview =>
         \E n \in 1..Len(sales) : sales[n].branch = b /\ sales[n].late /\ sales[n].lines[i] > 0
=============================================================================
