---------------------------- MODULE Trade_proofs ----------------------------
(***************************************************************************)
(* What holds of stock, sales, purchases and expenses for every number of  *)
(* branches, items, sessions and open transactions.                        *)
(*                                                                         *)
(* The properties are about sums over the two ledgers, and those are not   *)
(* inductive alone.  TradeInv says besides: a source has one entry per     *)
(* stock (LedgerSound), and none before its document is written or         *)
(* cancelled (SourcesKnown), so that what a document posts is all that it  *)
(* ever moved; what each document moved, in both ledgers (SaleTrue,        *)
(* PurchaseTrue, ExpenseTrue); what an open transaction read and still     *)
(* holds (TxTrue), without which a refund would not match its sale; and,   *)
(* of an incident, that the stock and the shortfall together are made up   *)
(* for by the corrections linked to it (Explained).  A step posts for one  *)
(* source, and every other document stays as it was (OthersStay).          *)
(***************************************************************************)
EXTENDS Trade, Sums_proofs

(***************************************************************************)
(* What the invariants rest on.                                            *)
(***************************************************************************)

(* The entries of a source at a stock, of a stock, and those of a stock    *)
(* that were linked to its incident.                                       *)
FromAt(M, source, p) == {m \in M : m.source = source /\ m.place = p}
OnPlace(M, p) == {m \in M : m.place = p}
LinkedIn(M, corrections, p) ==
  {m \in M : m.place = p /\ m.source \in corrections /\ m.delta > 0}

(* N is the ledger M with what a source it does not have yet posts to it.  *)
Posting(M, N, source, d) ==
  /\ M \in SUBSET Movement /\ IsFiniteSet(M)
  /\ source \in Source /\ d \in [Place -> Int]
  /\ \A m \in M : m.source # source
  /\ N = M \cup Entries(source, d)

Entry(source, p, d) == [source |-> source, place |-> p, delta |-> d]

(* A ledger is finite, and a source has one entry per stock, which is not  *)
(* zero: the source key of inventory_movements.                            *)
LedgerSound(M) ==
  /\ IsFiniteSet(M)
  /\ \A m \in M : m.delta # 0
  /\ \A m, o \in M : m.source = o.source /\ m.place = o.place => m = o

(* What a document did to a stock, and to the cash of any session.         *)
Moved(source, p) == Sum(Posted(source, p))
CashPosted(source) == {m \in cashMovements : m.source = source}
Paid(source) == Sum(CashPosted(source))

(* The documents there are: nothing is in a ledger for one to come.        *)
Cancelled(documents) == {n \in 1..Len(documents) : documents[n].cancelled}
Sources ==
  ({"ADJUSTMENT"} \X (1..Len(adjustments))) \cup ({"TRANSFER"} \X (1..Len(transfers)))
  \cup ({"SALE"} \X (1..Len(sales))) \cup ({"SALE_CANCELLATION"} \X Cancelled(sales))
  \cup ({"PURCHASE"} \X (1..Len(purchases))) \cup ({"PURCHASE_CANCELLATION"} \X Cancelled(purchases))
  \cup ({"EXPENSE"} \X (1..Len(expenses))) \cup ({"EXPENSE_CANCELLATION"} \X Cancelled(expenses))
SourcesKnown ==
  /\ \A m \in movements : m.source \in Sources /\ m.source[1] \notin {"EXPENSE", "EXPENSE_CANCELLATION"}
  /\ \A m \in cashMovements : m.source \in Sources

(* What is on hand and what is said to be missing are made up for by what  *)
(* is linked to the incident; the projection is the ledger.                *)
Explained ==
  \A p \in Place :
    /\ quantity[p] = Sum(OnPlace(movements, p))
    /\ incident[p].status \in UnderReview =>
         quantity[p] + incident[p].shortfall
           <= Sum(LinkedIn(movements, incident[p].corrections, p))

(* Each document, in both ledgers.                                         *)
SaleTrue(n) ==
  LET r == sales[n] IN
  /\ r.cash + r.card = Units(r.lines)
  /\ r.refunded = IF r.cancelled THEN r.cash + r.card ELSE 0
  /\ \A m \in movements : m.source = <<"SALE", n>> => m.delta < 0
  /\ r.cancelled => \A p \in Place : Moved(<<"SALE_CANCELLATION", n>>, p) = -Moved(<<"SALE", n>>, p)
  /\ Paid(<<"SALE", n>>) = r.cash
  /\ Paid(<<"SALE_CANCELLATION", n>>) = IF r.cancelled THEN -r.cash ELSE 0

PurchaseTrue(n) ==
  LET r == purchases[n] IN
  /\ r.cancelled =>
       \A p \in Place : Moved(<<"PURCHASE_CANCELLATION", n>>, p) = -Moved(<<"PURCHASE", n>>, p)
  /\ r.payment = "NONE" => CashPosted(<<"PURCHASE", n>>) = {}
  /\ Paid(<<"PURCHASE", n>>) = IF r.payment = "CASH" THEN -Units(r.lines) ELSE 0
  /\ Paid(<<"PURCHASE_CANCELLATION", n>>) =
       IF r.cancelled /\ r.reversal = "CASH" THEN Units(r.lines) ELSE 0
  /\ r.cancelled /\ ~r.paidLate => r.reversal = r.payment

ExpenseTrue(n) ==
  LET r == expenses[n] IN
  /\ Paid(<<"EXPENSE", n>>) = IF r.method = "CASH" THEN -r.amount ELSE 0
  /\ Paid(<<"EXPENSE_CANCELLATION", n>>) = IF r.cancelled /\ r.method = "CASH" THEN r.amount ELSE 0

DocumentsTrue ==
  /\ \A n \in 1..Len(sales) : SaleTrue(n)
  /\ \A n \in 1..Len(purchases) : PurchaseTrue(n)
  /\ \A n \in 1..Len(expenses) : ExpenseTrue(n)

(* What a transaction read at its first step, and the lock it holds, still *)
(* say of the document.                                                    *)
TxTrue ==
  \A t \in Tx :
    /\ tx[t].op = "CANCEL_SALE" =>
         /\ tx[t].document \in 1..Len(sales)
         /\ tx[t].session = NoSession => sales[tx[t].document].cash = 0
    /\ tx[t].op = "PAY_PURCHASE" => tx[t].document \in 1..Len(purchases)
    /\ tx[t].op = "CANCEL_PURCHASE" =>
         /\ tx[t].document \in 1..Len(purchases)
         /\ tx[t].session # NoSession => purchases[tx[t].document].payment = "CASH"
    /\ tx[t].op = "CANCEL_EXPENSE" =>
         /\ tx[t].document \in 1..Len(expenses)
         /\ tx[t].session = NoSession <=> expenses[tx[t].document].method # "CASH"

StockTrue ==
  /\ quantity \in Stock /\ movements \in SUBSET Movement /\ incident \in [Place -> Incident]
  /\ LedgerSound(movements) /\ Explained /\ ShortageUnderReview

CashTrue ==
  /\ session \in [Session -> CashSession]
  /\ cashMovements \in SUBSET CashMovement /\ IsFiniteSet(cashMovements)

DocumentsOK ==
  /\ adjustments \in Seq(Adjustment) /\ transfers \in Seq(Transfer)
  /\ sales \in Seq(Sale) /\ purchases \in Seq(Purchase) /\ expenses \in Seq(Expense)

TradeInv ==
  /\ StockTrue /\ CashTrue /\ DocumentsOK
  /\ activeBranches \subseteq Branch /\ tx \in [Tx -> Transaction]
  /\ SourcesKnown /\ DocumentsTrue /\ TxTrue /\ InactiveBranchQuiet
-----------------------------------------------------------------------------
(* Sums of ledger entries.                                                 *)

(* The sum of some entries is a fold over any finite set that has them.    *)
LEMMA SumWithin ==
  ASSUME NEW U, IsFiniteSet(U), NEW S \in SUBSET U
  PROVE  Sum(S) = SumFunctionOnSet([m \in U |-> m.delta], S)
<1> DEFINE f == [m \in U |-> m.delta]
           e == [m \in S |-> m.delta]
<1>1. IsFiniteSet(S)
  BY FS_Subset
<1>2. \A m \in S : e[m] = f[m]
  OBVIOUS
<1>3. DOMAIN e = S /\ Sum(S) = SumFunction(e)
  BY DEF Sum
<1> HIDE DEF f, e
<1>4. SumFunctionOnSet(e, S) = SumFunctionOnSet(f, S)
  BY <1>1, <1>2, SumOnSame
<1> QED
  BY <1>3, <1>4 DEF SumFunction, f

(* A sum stays in a set that is closed under addition and has the summands.*)
LEMMA SumIn ==
  ASSUME NEW S, IsFiniteSet(S), NEW K, 0 \in K, \A a, b \in K : a + b \in K,
         \A m \in S : m.delta \in K
  PROVE  Sum(S) \in K
<1> DEFINE f == [m \in S |-> m.delta]
<1>1. \A m \in S : f[m] \in K
  OBVIOUS
<1>2. Sum(S) = SumFunctionOnSet(f, S)
  BY SumWithin
<1> HIDE DEF f
<1> QED
  BY <1>1, <1>2, SumOnIn

(* In particular among the integers,                                       *)
LEMMA SumIsInt ==
  ASSUME NEW S, IsFiniteSet(S), \A m \in S : m.delta \in Int
  PROVE  Sum(S) \in Int
<1>1. 0 \in Int /\ \A a, b \in Int : a + b \in Int
  OBVIOUS
<1> QED
  BY <1>1, SumIn

(* and among the natural numbers.                                          *)
LEMMA SumIsNat ==
  ASSUME NEW S, IsFiniteSet(S), \A m \in S : m.delta \in Nat
  PROVE  Sum(S) \in Nat
<1>1. 0 \in Nat /\ \A a, b \in Nat : a + b \in Nat
  OBVIOUS
<1> QED
  BY <1>1, SumIn

(* No entries, one entry, and the entries of two sets apart.               *)
LEMMA SumOfNone == Sum({}) = 0
<1>1. Sum({}) = SumFunctionOnSet([m \in {} |-> m.delta], {})
  BY SumWithin, FS_EmptySet
<1> QED
  BY <1>1, SumOnEmpty

LEMMA SumOfOne ==
  ASSUME NEW m, m.delta \in Int
  PROVE  Sum({m}) = m.delta
<1> DEFINE f == [o \in {m} |-> o.delta]
<1>1. IsFiniteSet({m})
  BY FS_Singleton
<1>2. Sum({m}) = SumFunctionOnSet(f, {m})
  BY <1>1, SumWithin
<1>3. (\A o \in {m} : f[o] \in Int) /\ m \in {m}
  OBVIOUS
<1>4. f[m] = m.delta /\ {m} \ {m} = {}
  OBVIOUS
<1> HIDE DEF f
<1>5. SumFunctionOnSet(f, {m}) = f[m] + SumFunctionOnSet(f, {m} \ {m})
  BY <1>1, <1>3, SumOnTake
<1>6. SumFunctionOnSet(f, {m} \ {m}) = 0
  BY <1>4, SumOnEmpty
<1>7. SumFunctionOnSet(f, {m}) = m.delta + 0
  BY <1>4, <1>5, <1>6
<1> QED
  BY <1>2, <1>7

LEMMA SumOfBoth ==
  ASSUME NEW A, NEW B, IsFiniteSet(A), IsFiniteSet(B), A \cap B = {},
         \A m \in A \cup B : m.delta \in Int
  PROVE  Sum(A \cup B) = Sum(A) + Sum(B)
<1> DEFINE U == A \cup B
           f == [m \in U |-> m.delta]
<1>1. IsFiniteSet(U) /\ A \in SUBSET U /\ B \in SUBSET U /\ U \in SUBSET U
  BY FS_Union
<1>2. \A m \in A \cup B : f[m] \in Int
  OBVIOUS
<1> HIDE DEF U
<1>3. Sum(A) = SumFunctionOnSet(f, A) /\ Sum(B) = SumFunctionOnSet(f, B)
      /\ Sum(U) = SumFunctionOnSet(f, U)
  BY <1>1, SumWithin
<1> HIDE DEF f
<1>4. SumFunctionOnSet(f, A \cup B) = SumFunctionOnSet(f, A) + SumFunctionOnSet(f, B)
  BY <1>2, SumOnDisjoint
<1> QED
  BY <1>3, <1>4 DEF U

(* A document carries a number of units.                                   *)
LEMMA UnitsAreNat ==
  ASSUME NEW lines \in Lines
  PROVE  Units(lines) \in Nat
<1>1. lines \in [Item -> Int] /\ DOMAIN lines = Item /\ \A i \in Item : lines[i] \in Nat
  BY StockAssumption DEF Lines
<1>2. 0 \in Nat /\ \A a, b \in Nat : a + b \in Nat
  OBVIOUS
<1>3. SumFunctionOnSet(lines, Item) \in Nat
  BY <1>1, <1>2, StockAssumption, SumOnIn
<1> QED
  BY <1>1, <1>3 DEF Units, SumFunction

-----------------------------------------------------------------------------
(* What posting adds to the stock ledger.                                  *)

(* The entries a document posts: one per stock it moves, and finitely many.*)
LEMMA EntriesOf ==
  ASSUME NEW src \in Source, NEW d \in [Place -> Int]
  PROVE  /\ Entries(src, d) \subseteq Movement
         /\ IsFiniteSet(Entries(src, d))
         /\ \A m \in Entries(src, d) : m.source = src /\ m.delta = d[m.place] /\ m.delta # 0
         /\ \A p \in Place : d[p] # 0 => Entry(src, p, d[p]) \in Entries(src, d)
<1> DEFINE Q == {q \in Place : d[q] # 0}
           f == [q \in Q |-> [source |-> src, place |-> q, delta |-> d[q]]]
<1>1. Entries(src, d) = {[source |-> src, place |-> q, delta |-> d[q]] : q \in Q}
  BY DEF Entries
<1>2. IsFiniteSet(Place)
  BY StockAssumption, FS_Product DEF Place
<1>3. IsFiniteSet(Q)
  BY <1>2, FS_Subset
<1>4. f \in Surjection(Q, Entries(src, d))
  BY <1>1 DEF Surjection
<1>5. IsFiniteSet(Entries(src, d))
  <2> HIDE DEF f, Q
  <2> QED
    BY <1>3, <1>4, FS_Surjection
<1>6. Entries(src, d) \subseteq Movement
  BY <1>1 DEF Movement
<1>7. \A m \in Entries(src, d) : m.source = src /\ m.delta = d[m.place] /\ m.delta # 0
  BY <1>1
<1>8. \A p \in Place : d[p] # 0 => Entry(src, p, d[p]) \in Entries(src, d)
  BY <1>1 DEF Entry
<1> QED
  BY <1>5, <1>6, <1>7, <1>8

(* An entry has its three columns, and nothing else.                       *)
LEMMA EntryIs ==
  ASSUME NEW m \in Movement
  PROVE  m = Entry(m.source, m.place, m.delta) /\ m.delta \in Int /\ m.place \in Place
BY DEF Movement, Entry

(* A stock gains the entry of the new source, and no other.                *)
LEMMA PostingAdds ==
  ASSUME NEW M, NEW N, NEW src, NEW d, Posting(M, N, src, d), NEW p \in Place
  PROVE  /\ FromAt(N, src, p) = IF d[p] = 0 THEN {} ELSE {Entry(src, p, d[p])}
         /\ OnPlace(N, p) = OnPlace(M, p) \cup FromAt(N, src, p)
         /\ OnPlace(M, p) \cap FromAt(N, src, p) = {}
<1> USE DEF Posting
<1>1. \A m \in Entries(src, d) : m.source = src /\ m.delta = d[m.place] /\ m.delta # 0 /\ m \in Movement
  BY EntriesOf
<1>2. d[p] # 0 => Entry(src, p, d[p]) \in Entries(src, d)
  BY EntriesOf
<1>3. \A m \in FromAt(N, src, p) : m \in Entries(src, d) /\ m = Entry(src, p, d[p]) /\ d[p] # 0
  BY <1>1, EntryIs DEF FromAt
<1>4. Entry(src, p, d[p]).source = src /\ Entry(src, p, d[p]).place = p
  BY DEF Entry
<1>5. d[p] # 0 => Entry(src, p, d[p]) \in FromAt(N, src, p)
  BY <1>2, <1>4 DEF FromAt
<1>6. FromAt(N, src, p) = IF d[p] = 0 THEN {} ELSE {Entry(src, p, d[p])}
  BY <1>3, <1>5
<1>7. OnPlace(N, p) = OnPlace(M, p) \cup FromAt(N, src, p)
  BY <1>1 DEF OnPlace, FromAt
<1>8. OnPlace(M, p) \cap FromAt(N, src, p) = {}
  BY DEF OnPlace, FromAt
<1> QED
  BY <1>6, <1>7, <1>8

(* So its sum changes by what was posted there.                            *)
LEMMA PostingSums ==
  ASSUME NEW M, NEW N, NEW src, NEW d, Posting(M, N, src, d), NEW p \in Place
  PROVE  /\ Sum(FromAt(N, src, p)) = d[p]
         /\ Sum(OnPlace(N, p)) = Sum(OnPlace(M, p)) + d[p]
<1>1. /\ FromAt(N, src, p) = IF d[p] = 0 THEN {} ELSE {Entry(src, p, d[p])}
      /\ OnPlace(N, p) = OnPlace(M, p) \cup FromAt(N, src, p)
      /\ OnPlace(M, p) \cap FromAt(N, src, p) = {}
  BY PostingAdds
<1>2. d[p] \in Int /\ Entry(src, p, d[p]).delta = d[p]
  BY DEF Entry, Posting
<1>3. Sum(FromAt(N, src, p)) = d[p]
  BY <1>1, <1>2, SumOfNone, SumOfOne
<1>4. IsFiniteSet(FromAt(N, src, p)) /\ \A m \in FromAt(N, src, p) : m.delta \in Int
  <2>1. CASE d[p] = 0
    BY <1>1, <2>1, FS_EmptySet
  <2>2. CASE d[p] # 0
    <3>1. FromAt(N, src, p) = {Entry(src, p, d[p])}
      BY <1>1, <2>2
    <3> QED
      BY <1>2, <3>1, FS_Singleton
  <2> QED
    BY <2>1, <2>2
<1>5. IsFiniteSet(OnPlace(M, p)) /\ \A m \in OnPlace(M, p) : m.delta \in Int
  <2>1. OnPlace(M, p) \in SUBSET M /\ M \in SUBSET Movement /\ IsFiniteSet(M)
    BY DEF OnPlace, Posting
  <2> QED
    BY <2>1, FS_Subset, EntryIs
<1>6. Sum(OnPlace(M, p) \cup FromAt(N, src, p)) = Sum(OnPlace(M, p)) + Sum(FromAt(N, src, p))
  BY <1>1, <1>4, <1>5, SumOfBoth
<1> QED
  BY <1>1, <1>3, <1>6

(* A rise is linked to the incident; a fall is not.                        *)
LEMMA RiseIsLinked ==
  ASSUME NEW M, NEW N, NEW src, NEW d, Posting(M, N, src, d), NEW p \in Place, NEW c, d[p] > 0
  PROVE  Sum(LinkedIn(N, c \cup {src}, p)) = Sum(LinkedIn(M, c, p)) + d[p]
<1> DEFINE e == Entry(src, p, d[p])
<1>1. /\ FromAt(N, src, p) = {e}
      /\ OnPlace(N, p) = OnPlace(M, p) \cup FromAt(N, src, p)
      /\ OnPlace(M, p) \cap FromAt(N, src, p) = {}
  <2>1. d[p] # 0
    BY DEF Posting
  <2> QED
    BY <2>1, PostingAdds
<1>2. d[p] \in Int /\ e.delta = d[p] /\ e.source = src /\ e.place = p
  BY DEF Entry, Posting
<1> USE DEF Posting
<1> HIDE DEF e
<1>3. LinkedIn(N, c \cup {src}, p) = LinkedIn(M, c, p) \cup {e}
  <2>1. ASSUME NEW m \in LinkedIn(N, c \cup {src}, p) PROVE m \in LinkedIn(M, c, p) \cup {e}
    BY <1>1 DEF LinkedIn, OnPlace, FromAt
  <2>2. LinkedIn(M, c, p) \subseteq LinkedIn(N, c \cup {src}, p)
    BY DEF LinkedIn
  <2>3. e \in LinkedIn(N, c \cup {src}, p)
    BY <1>1, <1>2 DEF LinkedIn, FromAt
  <2> QED
    BY <2>1, <2>2, <2>3
<1>4. LinkedIn(M, c, p) \cap {e} = {}
  BY <1>2 DEF LinkedIn
<1>5. IsFiniteSet(LinkedIn(M, c, p)) /\ \A m \in LinkedIn(M, c, p) : m.delta \in Int
  <2>1. LinkedIn(M, c, p) \in SUBSET M
    BY DEF LinkedIn
  <2> QED
    BY <2>1, FS_Subset, EntryIs
<1>6. IsFiniteSet({e}) /\ Sum({e}) = d[p]
  BY <1>2, FS_Singleton, SumOfOne
<1>7. Sum(LinkedIn(M, c, p) \cup {e}) = Sum(LinkedIn(M, c, p)) + Sum({e})
  BY <1>2, <1>4, <1>5, <1>6, SumOfBoth
<1> QED
  BY <1>3, <1>6, <1>7

(* What only takes from a stock leaves its incident's corrections alone.   *)
LEMMA FallIsNotLinked ==
  ASSUME NEW M, NEW N, NEW src, NEW d, Posting(M, N, src, d), NEW p \in Place, NEW c, ~(d[p] > 0)
  PROVE  LinkedIn(N, c, p) = LinkedIn(M, c, p)
<1>1. \A m \in Entries(src, d) : m.delta = d[m.place]
  BY EntriesOf DEF Posting
<1> QED
  BY <1>1 DEF LinkedIn, Posting

(* Corrections are rises: their sum is no less than zero.                  *)
LEMMA LinkedIsNat ==
  ASSUME NEW M \in SUBSET Movement, IsFiniteSet(M), NEW c, NEW p
  PROVE  Sum(LinkedIn(M, c, p)) \in Nat
<1>1. LinkedIn(M, c, p) \in SUBSET M /\ \A m \in LinkedIn(M, c, p) : m.delta \in Nat
  BY EntryIs DEF LinkedIn
<1>2. IsFiniteSet(LinkedIn(M, c, p))
  BY <1>1, FS_Subset
<1> QED
  BY <1>1, <1>2, SumIsNat

-----------------------------------------------------------------------------
(* What the operations do to the stock.                                    *)

(* Posting keeps one entry per source and stock.                           *)
LEMMA PostingSound ==
  ASSUME NEW M, NEW N, NEW src, NEW d, Posting(M, N, src, d), LedgerSound(M)
  PROVE  N \in SUBSET Movement /\ LedgerSound(N)
<1>1. /\ Entries(src, d) \subseteq Movement
      /\ IsFiniteSet(Entries(src, d))
      /\ \A m \in Entries(src, d) : m.source = src /\ m.delta = d[m.place] /\ m.delta # 0
  BY EntriesOf DEF Posting
<1>2. M \in SUBSET Movement /\ N = M \cup Entries(src, d) /\ \A m \in M : m.source # src
  BY DEF Posting
<1>3. IsFiniteSet(N)
  BY <1>1, <1>2, FS_Union DEF LedgerSound
<1>4. ASSUME NEW m \in N, NEW o \in N, m.source = o.source, m.place = o.place
      PROVE  m = o
  <2>1. CASE m \in M /\ o \in M
    BY <1>4, <2>1 DEF LedgerSound
  <2>2. CASE m \in Entries(src, d) /\ o \in Entries(src, d)
    BY <1>1, <1>4, <2>2, EntryIs
  <2> QED
    BY <1>1, <1>2, <1>4, <2>1, <2>2
<1> QED
  BY <1>1, <1>2, <1>3, <1>4 DEF LedgerSound

(* One stock, before and after: what is posted is enough for it, or rises. *)
LEMMA PostAtPlace ==
  ASSUME StockTrue, NEW src \in Source, NEW d \in [Place -> Int], Post(src, d), Enough(d),
         \A m \in movements : m.source # src, NEW p \in Place
  PROVE  /\ quantity'[p] \in Int /\ incident'[p] \in Incident
         /\ quantity'[p] = Sum(OnPlace(movements', p))
         /\ incident'[p].status \in UnderReview =>
              /\ incident[p].status \in UnderReview
              /\ quantity'[p] + incident'[p].shortfall
                   <= Sum(LinkedIn(movements', incident'[p].corrections, p))
         /\ quantity'[p] < 0 <=> incident'[p].status = "OPEN"
         /\ quantity'[p] < 0 => incident'[p].shortfall >= -quantity'[p]
<1> DEFINE i == incident[p]
           q == quantity[p]
<1>1. Posting(movements, movements', src, d)
  BY DEF Post, Posting, StockTrue, LedgerSound
<1>2. quantity'[p] = q + d[p] /\ q \in Int /\ d[p] \in Int
  BY DEF Post, Plus, StockTrue, Stock
<1>3. /\ i \in Incident
      /\ i.shortfall \in Nat
      /\ i.status \in UnderReview => q + i.shortfall <= Sum(LinkedIn(movements, i.corrections, p))
      /\ q < 0 <=> i.status = "OPEN"
      /\ q < 0 => i.shortfall >= -q
  BY DEF StockTrue, Explained, ShortageUnderReview, Incident
<1>4. incident'[p] = IF d[p] > 0 THEN LinkCorrection(p, src, q + d[p]) ELSE i
  BY DEF Post
<1>5. Sum(OnPlace(movements', p)) = q + d[p]
  BY <1>1, PostingSums DEF StockTrue, Explained
<1>6. Sum(LinkedIn(movements, i.corrections, p)) \in Nat
  BY LinkedIsNat DEF StockTrue, LedgerSound
<1>7. CASE d[p] > 0 /\ i.status \in UnderReview
  <2>1. PICK n : n = [i EXCEPT !.corrections = @ \cup {src},
                               !.status = IF q + d[p] >= 0 THEN "PENDING_REVIEW" ELSE @]
    OBVIOUS
  <2>2. incident'[p] = n
    BY <1>4, <1>7, <2>1 DEF LinkCorrection
  <2>3. /\ n \in Incident /\ n.shortfall = i.shortfall
        /\ n.corrections = i.corrections \cup {src}
        /\ n.status = IF q + d[p] >= 0 THEN "PENDING_REVIEW" ELSE i.status
    BY <1>3, <2>1 DEF Incident, IncidentStatus, UnderReview
  <2>4. Sum(LinkedIn(movements', i.corrections \cup {src}, p))
          = Sum(LinkedIn(movements, i.corrections, p)) + d[p]
    BY <1>1, <1>7, RiseIsLinked
  <2> HIDE DEF i, q
  <2>5. quantity'[p] + n.shortfall <= Sum(LinkedIn(movements', n.corrections, p))
    BY <1>2, <1>3, <1>6, <1>7, <2>3, <2>4
  <2>6. q + d[p] < 0 => q < 0 /\ i.shortfall >= -(q + d[p])
    BY <1>2, <1>3, <1>7
  <2>7. (q + d[p] < 0 <=> n.status = "OPEN") /\ (q + d[p] < 0 => n.shortfall >= -(q + d[p]))
    BY <1>2, <1>3, <2>3, <2>6
  <2> QED
    BY <1>2, <1>5, <1>7, <2>2, <2>3, <2>5, <2>7 DEF i
<1>8. CASE ~(d[p] > 0)
  <2>1. incident'[p] = i
    BY <1>4, <1>8
  <2>2. LinkedIn(movements', i.corrections, p) = LinkedIn(movements, i.corrections, p)
    BY <1>1, <1>8, FallIsNotLinked
  <2>3. d[p] < 0 => q + d[p] >= 0
    BY DEF Enough
  <2> HIDE DEF i, q
  <2> QED
    BY <1>2, <1>3, <1>5, <1>6, <1>8, <2>1, <2>2, <2>3 DEF i
<1>9. CASE d[p] > 0 /\ i.status \notin UnderReview
  <2>1. incident'[p] = i
    BY <1>4, <1>9 DEF LinkCorrection
  <2>2. i.status # "OPEN"
    BY <1>9 DEF UnderReview
  <2> HIDE DEF i, q
  <2> QED
    BY <1>2, <1>3, <1>5, <1>9, <2>1, <2>2 DEF i
<1> QED
  BY <1>7, <1>8, <1>9

(* What every inventory_api function ends with keeps the stock true.       *)
LEMMA PostKeepsStock ==
  ASSUME StockTrue, NEW src \in Source, NEW d \in [Place -> Int], Post(src, d), Enough(d),
         \A m \in movements : m.source # src
  PROVE  /\ StockTrue'
         /\ \A p \in Place : incident'[p].status \in UnderReview => incident[p].status \in UnderReview
<1>1. \A p \in Place :
         /\ quantity'[p] \in Int /\ incident'[p] \in Incident
         /\ quantity'[p] = Sum(OnPlace(movements', p))
         /\ incident'[p].status \in UnderReview =>
              /\ incident[p].status \in UnderReview
              /\ quantity'[p] + incident'[p].shortfall
                   <= Sum(LinkedIn(movements', incident'[p].corrections, p))
         /\ quantity'[p] < 0 <=> incident'[p].status = "OPEN"
         /\ quantity'[p] < 0 => incident'[p].shortfall >= -quantity'[p]
  BY PostAtPlace
<1>2. Posting(movements, movements', src, d)
  BY DEF Post, Posting, StockTrue, LedgerSound
<1>3. movements' \in SUBSET Movement /\ LedgerSound(movements')
  BY <1>2, PostingSound DEF StockTrue
<1>4. quantity' \in Stock
  <2>1. quantity' = [p \in Place |-> quantity[p] + d[p]]
    BY DEF Post, Plus
  <2> QED
    BY <2>1 DEF Stock, StockTrue
<1>5. incident' \in [Place -> Incident]
  <2>1. incident' = [p \in Place |-> incident'[p]]
    BY DEF Post
  <2> QED
    BY <1>1, <2>1
<1>6. Explained' /\ ShortageUnderReview'
  BY <1>1 DEF Explained, ShortageUnderReview
<1> QED
  BY <1>1, <1>3, <1>4, <1>5, <1>6 DEF StockTrue

(* An offline sale: the goods are gone, and a shortage is opened for them. *)
LEMMA OfflineAtPlace ==
  ASSUME StockTrue, NEW n, NEW b, NEW lines, NEW d, d = At(b, lines, -1),
         d \in [Place -> Int], \A r \in Place : d[r] <= 0, <<"SALE", n>> \in Source,
         ApplyOfflineSaleStock(n, b, lines),
         \A m \in movements : m.source # <<"SALE", n>>, NEW p \in Place
  PROVE  /\ quantity'[p] = quantity[p] + d[p] /\ incident'[p] \in Incident
         /\ quantity'[p] = Sum(OnPlace(movements', p))
         /\ incident'[p].status \in UnderReview =>
              /\ incident[p].status \in UnderReview \/ d[p] < 0
              /\ quantity'[p] + incident'[p].shortfall
                   <= Sum(LinkedIn(movements', incident'[p].corrections, p))
         /\ quantity'[p] < 0 <=> incident'[p].status = "OPEN"
         /\ quantity'[p] < 0 => incident'[p].shortfall >= -quantity'[p]
<1> DEFINE i == incident[p]
           q == quantity[p]
           src == <<"SALE", n>>
<1>1. Posting(movements, movements', src, d)
  BY DEF ApplyOfflineSaleStock, Posting, StockTrue, LedgerSound
<1>2. quantity'[p] = q + d[p] /\ q \in Int /\ d[p] \in Int /\ d[p] <= 0
  BY DEF ApplyOfflineSaleStock, Plus, StockTrue, Stock
<1>3. /\ i \in Incident
      /\ i.shortfall \in Nat
      /\ i.status \in UnderReview => q + i.shortfall <= Sum(LinkedIn(movements, i.corrections, p))
      /\ q < 0 <=> i.status = "OPEN"
      /\ q < 0 => i.shortfall >= -q
  BY DEF StockTrue, Explained, ShortageUnderReview, Incident
<1>4. incident'[p] = IF d[p] < 0 /\ q + d[p] < 0 THEN Shortage(p, q + d[p]) ELSE i
  BY DEF ApplyOfflineSaleStock
<1>5. Sum(OnPlace(movements', p)) = q + d[p]
  BY <1>1, PostingSums DEF StockTrue, Explained
<1>6. \A c : Sum(LinkedIn(movements, c, p)) \in Nat
  BY LinkedIsNat DEF StockTrue, LedgerSound
<1>7. \A c : LinkedIn(movements', c, p) = LinkedIn(movements, c, p)
  BY <1>1, <1>2, FallIsNotLinked
<1> HIDE DEF i, q
<1>8. CASE d[p] < 0 /\ q + d[p] < 0 /\ i.status \in UnderReview
  <2>1. PICK k \in Nat : k = IF i.shortfall < -(q + d[p]) THEN -(q + d[p]) ELSE i.shortfall
    BY <1>2, <1>3, <1>8
  <2>2. PICK r : r = [i EXCEPT !.status = "OPEN", !.shortfall = k]
    OBVIOUS
  <2>3. incident'[p] = r
    BY <1>4, <1>8, <2>1, <2>2 DEF Shortage, i
  <2>4. r \in Incident /\ r.status = "OPEN" /\ r.shortfall = k /\ r.corrections = i.corrections
    BY <1>3, <2>2 DEF Incident, IncidentStatus, UnderReview
  <2>5. q + d[p] + k <= Sum(LinkedIn(movements, i.corrections, p)) /\ k >= -(q + d[p])
    BY <1>2, <1>3, <1>6, <1>8, <2>1
  <2> QED
    BY <1>2, <1>5, <1>7, <1>8, <2>3, <2>4, <2>5 DEF q
<1>9. CASE d[p] < 0 /\ q + d[p] < 0 /\ i.status \notin UnderReview
  <2>1. PICK r : r = [status |-> "OPEN", shortfall |-> -(q + d[p]), corrections |-> {}]
    OBVIOUS
  <2>2. incident'[p] = r
    BY <1>4, <1>9, <2>1 DEF Shortage, i
  <2>3. r \in Incident /\ r.status = "OPEN" /\ r.shortfall = -(q + d[p]) /\ r.corrections = {}
    BY <1>2, <1>9, <2>1 DEF Incident, IncidentStatus, UnderReview
  <2> QED
    BY <1>2, <1>5, <1>6, <1>7, <1>9, <2>2, <2>3 DEF q
<1>10. CASE ~(d[p] < 0 /\ q + d[p] < 0)
  <2>1. incident'[p] = i
    BY <1>4, <1>10
  <2>2. Sum(LinkedIn(movements, i.corrections, p)) \in Nat
        /\ LinkedIn(movements', i.corrections, p) = LinkedIn(movements, i.corrections, p)
    BY <1>6, <1>7
  <2>3. q + d[p] < 0 <=> q < 0
    BY <1>2, <1>10
  <2>4. q + d[p] < 0 => d[p] = 0
    BY <1>2, <1>10
  <2> QED
    BY <1>2, <1>3, <1>5, <2>1, <2>2, <2>3, <2>4 DEF q, i
<1> QED
  BY <1>8, <1>9, <1>10

(* And so does the sale a device made without the stock.                   *)
LEMMA OfflineKeepsStock ==
  ASSUME StockTrue, NEW n, NEW b, NEW lines, NEW d, d = At(b, lines, -1),
         d \in [Place -> Int], \A r \in Place : d[r] <= 0, <<"SALE", n>> \in Source,
         ApplyOfflineSaleStock(n, b, lines),
         \A m \in movements : m.source # <<"SALE", n>>
  PROVE  /\ StockTrue'
         /\ \A p \in Place :
              incident'[p].status \in UnderReview => incident[p].status \in UnderReview \/ d[p] < 0
<1>1. \A p \in Place :
         /\ quantity'[p] = quantity[p] + d[p] /\ incident'[p] \in Incident
         /\ quantity'[p] = Sum(OnPlace(movements', p))
         /\ incident'[p].status \in UnderReview =>
              /\ incident[p].status \in UnderReview \/ d[p] < 0
              /\ quantity'[p] + incident'[p].shortfall
                   <= Sum(LinkedIn(movements', incident'[p].corrections, p))
         /\ quantity'[p] < 0 <=> incident'[p].status = "OPEN"
         /\ quantity'[p] < 0 => incident'[p].shortfall >= -quantity'[p]
  BY OfflineAtPlace
<1>2. Posting(movements, movements', <<"SALE", n>>, d)
  BY DEF ApplyOfflineSaleStock, Posting, StockTrue, LedgerSound
<1>3. movements' \in SUBSET Movement /\ LedgerSound(movements')
  BY <1>2, PostingSound DEF StockTrue
<1>4. quantity' \in Stock
  <2>1. quantity' = [p \in Place |-> quantity[p] + d[p]]
    BY DEF ApplyOfflineSaleStock, Plus
  <2> QED
    BY <2>1 DEF Stock, StockTrue
<1>5. incident' \in [Place -> Incident]
  <2>1. incident' = [p \in Place |-> incident'[p]]
    BY DEF ApplyOfflineSaleStock
  <2> QED
    BY <1>1, <2>1
<1>6. Explained' /\ ShortageUnderReview'
  BY <1>1 DEF Explained, ShortageUnderReview
<1> QED
  BY <1>1, <1>3, <1>4, <1>5, <1>6 DEF StockTrue

(* What lines take from a branch, and give to it.                          *)
LEMMA AtBranch ==
  ASSUME NEW b \in Branch, NEW lines \in Lines
  PROVE  /\ At(b, lines, -1) \in [Place -> Int] /\ At(b, lines, 1) \in [Place -> Int]
         /\ \A p \in Place :
              /\ At(b, lines, -1)[p] = IF p[1] = b THEN -lines[p[2]] ELSE 0
              /\ At(b, lines, 1)[p] = IF p[1] = b THEN lines[p[2]] ELSE 0
              /\ lines[p[2]] \in Nat
              /\ At(b, lines, -1)[p] <= 0 /\ At(b, lines, 1)[p] >= 0
<1>1. \A p \in Place : p[2] \in Item /\ lines[p[2]] \in Nat
  BY StockAssumption DEF Place, Lines
<1>2. \A k \in Nat : (-1) * k = -k /\ 1 * k = k /\ -k <= 0
  OBVIOUS
<1>3. \A p \in Place :
        /\ At(b, lines, -1)[p] = IF p[1] = b THEN (-1) * lines[p[2]] ELSE 0
        /\ At(b, lines, 1)[p] = IF p[1] = b THEN 1 * lines[p[2]] ELSE 0
  BY DEF At
<1>4. \A p \in Place :
              /\ At(b, lines, -1)[p] = IF p[1] = b THEN -lines[p[2]] ELSE 0
              /\ At(b, lines, 1)[p] = IF p[1] = b THEN lines[p[2]] ELSE 0
  BY <1>1, <1>2, <1>3
<1>5. \A p \in Place : At(b, lines, -1)[p] \in Int /\ At(b, lines, 1)[p] \in Int
                       /\ At(b, lines, -1)[p] <= 0 /\ At(b, lines, 1)[p] >= 0
  BY <1>1, <1>4
<1>6. At(b, lines, -1) = [p \in Place |-> At(b, lines, -1)[p]]
      /\ At(b, lines, 1) = [p \in Place |-> At(b, lines, 1)[p]]
  BY DEF At
<1> QED
  BY <1>1, <1>4, <1>5, <1>6

(* What is taken back of a document is what it moved.                      *)
LEMMA UndoneIs ==
  ASSUME StockTrue, NEW src
  PROVE  /\ Undone(src) \in [Place -> Int]
         /\ \A p \in Place : Moved(src, p) \in Int /\ Undone(src)[p] = -Moved(src, p)
<1>1. ASSUME NEW p \in Place
      PROVE  Moved(src, p) \in Int /\ Undone(src)[p] = -Moved(src, p)
  <2>1. CASE Posted(src, p) = {}
    <3>1. Undone(src)[p] = 0
      BY <2>1 DEF Undone
    <3>2. Moved(src, p) = 0
      BY <2>1, SumOfNone DEF Moved
    <3>3. \A k, l \in Int : k >= 0 /\ k <= 0 /\ l >= 0 /\ l <= 0 => k = -l
      OBVIOUS
    <3>4. /\ Moved(src, p) \in Int /\ Moved(src, p) >= 0 /\ Moved(src, p) <= 0
          /\ Undone(src)[p] \in Int /\ Undone(src)[p] >= 0 /\ Undone(src)[p] <= 0
      BY <3>1, <3>2
    <3> QED
      BY <3>3, <3>4
  <2>2. CASE Posted(src, p) # {}
    <3>1. PICK m : m = CHOOSE o \in Posted(src, p) : TRUE
      OBVIOUS
    <3>2. m \in Posted(src, p)
      BY <2>2, <3>1
    <3>3. m \in movements /\ m.delta \in Int /\ Posted(src, p) = {m}
      BY <3>2, EntryIs DEF Posted, StockTrue, LedgerSound
    <3>4. Undone(src)[p] = -m.delta
      BY <2>2, <3>1 DEF Undone
    <3>5. Moved(src, p) = m.delta
      BY <3>3, SumOfOne DEF Moved
    <3> QED
      BY <3>3, <3>4, <3>5
  <2> QED
    BY <2>1, <2>2
<1>2. Undone(src) = [p \in Place |-> Undone(src)[p]]
  BY DEF Undone
<1> QED
  BY <1>1, <1>2

-----------------------------------------------------------------------------
(* What a step adds to the two ledgers, of one source.                     *)

StockGrows(src) == movements \subseteq movements' /\ \A m \in movements' \ movements : m.source = src
CashGrows(src) ==
  cashMovements \subseteq cashMovements' /\ \A m \in cashMovements' \ cashMovements : m.source = src
OnlyOf(src) == StockGrows(src) /\ CashGrows(src)

(* A source that does not post keeps its entries and its cash.             *)
LEMMA OthersStay ==
  ASSUME NEW src, OnlyOf(src), NEW other, other # src
  PROVE  /\ \A p \in Place : Posted(other, p)' = Posted(other, p) /\ Moved(other, p)' = Moved(other, p)
         /\ CashPosted(other)' = CashPosted(other) /\ Paid(other)' = Paid(other)
<1>1. \A p \in Place : Posted(other, p)' = Posted(other, p)
  BY DEF OnlyOf, StockGrows, Posted
<1>2. CashPosted(other)' = CashPosted(other)
  BY DEF OnlyOf, CashGrows, CashPosted
<1>3. \A p \in Place : Moved(other, p)' = Moved(other, p)
  BY <1>1 DEF Moved
<1>4. Paid(other)' = Paid(other)
  BY <1>2 DEF Paid
<1> QED
  BY <1>1, <1>2, <1>3, <1>4

(* What a source has moved, once its entries are in the ledger.            *)
LEMMA EntriesMoved ==
  ASSUME StockTrue, NEW src \in Source, NEW d \in [Place -> Int],
         movements' = movements \cup Entries(src, d), \A m \in movements : m.source # src
  PROVE  /\ StockGrows(src)
         /\ \A p \in Place : Moved(src, p)' = d[p]
         /\ \A m \in movements' : m.source = src => m.delta = d[m.place] /\ m.delta # 0
<1>1. Posting(movements, movements', src, d)
  BY DEF Posting, StockTrue, LedgerSound
<1>2. \A m \in Entries(src, d) : m.source = src /\ m.delta = d[m.place] /\ m.delta # 0
  BY EntriesOf
<1>3. \A p \in Place : Posted(src, p)' = FromAt(movements', src, p)
  BY DEF Posted, FromAt
<1>4. \A p \in Place : Sum(FromAt(movements', src, p)) = d[p]
  BY <1>1, PostingSums
<1>5. \A p \in Place : Moved(src, p)' = d[p]
  BY <1>3, <1>4 DEF Moved
<1> QED
  BY <1>2, <1>5 DEF StockGrows

(* Nothing of a source: nothing paid.                                      *)
LEMMA NothingPaid ==
  ASSUME NEW src, CashPosted(src) = {}
  PROVE  Paid(src) = 0
BY SumOfNone DEF Paid

(* MoveCash: the source has paid exactly delta, in its session.            *)
LEMMA CashMoves ==
  ASSUME CashTrue, NEW src \in Source, NEW s \in Session, NEW delta \in Int,
         MoveCash(src, s, delta), CashPosted(src) = {}
  PROVE  /\ CashTrue' /\ CashGrows(src) /\ Paid(src)' = delta
         /\ \A r \in Session : session'[r].status = session[r].status
<1>1. CASE delta = 0
  <2>1. UNCHANGED cashVars
    BY <1>1 DEF MoveCash
  <2>2. session' = session /\ cashMovements' = cashMovements
    BY <2>1 DEF cashVars
  <2>3. CashTrue' /\ CashGrows(src) /\ \A r \in Session : session'[r].status = session[r].status
    BY <2>2 DEF CashTrue, CashGrows
  <2>4. CashPosted(src)' = {}
    BY <2>2 DEF CashPosted
  <2>5. Paid(src)' = 0
    BY <2>4, SumOfNone DEF Paid
  <2> QED
    BY <1>1, <2>3, <2>5
<1>2. CASE delta # 0
  <2> DEFINE e == [source |-> src, session |-> s, delta |-> delta]
  <2>1. /\ session[s].expected + delta >= 0
        /\ session' = [session EXCEPT ![s].expected = @ + delta]
        /\ cashMovements' = cashMovements \cup {e}
    BY <1>2 DEF MoveCash
  <2>2. e \in CashMovement /\ e.source = src /\ e.delta = delta
    BY DEF CashMovement
  <2> HIDE DEF e
  <2>3. CashPosted(src)' = {e}
    BY <2>1, <2>2 DEF CashPosted
  <2>4. Paid(src)' = delta
    BY <2>2, <2>3, SumOfOne DEF Paid
  <2>5. cashMovements' \in SUBSET CashMovement /\ IsFiniteSet(cashMovements')
    BY <2>1, <2>2, FS_AddElement DEF CashTrue
  <2>6. session[s] \in CashSession /\ session[s].expected \in Nat
    BY DEF CashTrue, CashSession
  <2>7. PICK x \in Nat : x = session[s].expected + delta
    BY <2>1, <2>6
  <2>8. PICK w : w = [session[s] EXCEPT !.expected = x]
    OBVIOUS
  <2>9. w \in CashSession /\ w.status = session[s].status
    BY <2>6, <2>8 DEF CashSession
  <2>10. session' = [session EXCEPT ![s] = w]
    BY <2>1, <2>7, <2>8
  <2>11. session' \in [Session -> CashSession] /\ \A r \in Session : session'[r].status = session[r].status
    BY <2>9, <2>10 DEF CashTrue
  <2>12. CashGrows(src)
    BY <2>1, <2>2 DEF CashGrows
  <2> QED
    BY <2>4, <2>5, <2>11, <2>12 DEF CashTrue
<1> QED
  BY <1>1, <1>2

-----------------------------------------------------------------------------
(* A document stays true while another source posts.                       *)

LEMMA SaleStays ==
  ASSUME NEW src, OnlyOf(src), NEW n, SaleTrue(n), sales'[n] = sales[n],
         src # <<"SALE", n>>, src # <<"SALE_CANCELLATION", n>>
  PROVE  SaleTrue(n)'
<1>1. /\ \A p \in Place : Moved(<<"SALE", n>>, p)' = Moved(<<"SALE", n>>, p)
      /\ \A p \in Place :
           Moved(<<"SALE_CANCELLATION", n>>, p)' = Moved(<<"SALE_CANCELLATION", n>>, p)
      /\ Paid(<<"SALE", n>>)' = Paid(<<"SALE", n>>)
      /\ Paid(<<"SALE_CANCELLATION", n>>)' = Paid(<<"SALE_CANCELLATION", n>>)
  BY OthersStay
<1>2. \A m \in movements' : m.source = <<"SALE", n>> => m \in movements
  BY DEF OnlyOf, StockGrows
<1> QED
  BY <1>1, <1>2 DEF SaleTrue

LEMMA PurchaseStays ==
  ASSUME NEW src, OnlyOf(src), NEW n, PurchaseTrue(n), purchases'[n] = purchases[n],
         src # <<"PURCHASE", n>>, src # <<"PURCHASE_CANCELLATION", n>>
  PROVE  PurchaseTrue(n)'
<1>1. /\ \A p \in Place : Moved(<<"PURCHASE", n>>, p)' = Moved(<<"PURCHASE", n>>, p)
      /\ \A p \in Place :
           Moved(<<"PURCHASE_CANCELLATION", n>>, p)' = Moved(<<"PURCHASE_CANCELLATION", n>>, p)
      /\ CashPosted(<<"PURCHASE", n>>)' = CashPosted(<<"PURCHASE", n>>)
      /\ Paid(<<"PURCHASE", n>>)' = Paid(<<"PURCHASE", n>>)
      /\ Paid(<<"PURCHASE_CANCELLATION", n>>)' = Paid(<<"PURCHASE_CANCELLATION", n>>)
  BY OthersStay
<1> QED
  BY <1>1 DEF PurchaseTrue

LEMMA ExpenseStays ==
  ASSUME NEW src, OnlyOf(src), NEW n, ExpenseTrue(n), expenses'[n] = expenses[n],
         src # <<"EXPENSE", n>>, src # <<"EXPENSE_CANCELLATION", n>>
  PROVE  ExpenseTrue(n)'
<1>1. /\ Paid(<<"EXPENSE", n>>)' = Paid(<<"EXPENSE", n>>)
      /\ Paid(<<"EXPENSE_CANCELLATION", n>>)' = Paid(<<"EXPENSE_CANCELLATION", n>>)
  BY OthersStay
<1> QED
  BY <1>1 DEF ExpenseTrue

(* And so do all of a kind, when the source is of another.                 *)
LEMMA SalesStay ==
  ASSUME NEW src, OnlyOf(src), \A n \in 1..Len(sales) : SaleTrue(n), sales' = sales,
         src[1] \notin {"SALE", "SALE_CANCELLATION"}
  PROVE  \A n \in 1..Len(sales') : SaleTrue(n)'
<1>1. ASSUME NEW n \in 1..Len(sales) PROVE SaleTrue(n)'
  <2>1. src # <<"SALE", n>> /\ src # <<"SALE_CANCELLATION", n>>
    OBVIOUS
  <2>2. sales'[n] = sales[n]
    OBVIOUS
  <2> QED
    BY <2>1, <2>2, SaleStays
<1> QED
  BY <1>1

LEMMA PurchasesStay ==
  ASSUME NEW src, OnlyOf(src), \A n \in 1..Len(purchases) : PurchaseTrue(n), purchases' = purchases,
         src[1] \notin {"PURCHASE", "PURCHASE_CANCELLATION"}
  PROVE  \A n \in 1..Len(purchases') : PurchaseTrue(n)'
<1>1. ASSUME NEW n \in 1..Len(purchases) PROVE PurchaseTrue(n)'
  <2>1. src # <<"PURCHASE", n>> /\ src # <<"PURCHASE_CANCELLATION", n>>
    OBVIOUS
  <2>2. purchases'[n] = purchases[n]
    OBVIOUS
  <2> QED
    BY <2>1, <2>2, PurchaseStays
<1> QED
  BY <1>1

LEMMA ExpensesStay ==
  ASSUME NEW src, OnlyOf(src), \A n \in 1..Len(expenses) : ExpenseTrue(n), expenses' = expenses,
         src[1] \notin {"EXPENSE", "EXPENSE_CANCELLATION"}
  PROVE  \A n \in 1..Len(expenses') : ExpenseTrue(n)'
<1>1. ASSUME NEW n \in 1..Len(expenses) PROVE ExpenseTrue(n)'
  <2>1. src # <<"EXPENSE", n>> /\ src # <<"EXPENSE_CANCELLATION", n>>
    OBVIOUS
  <2>2. expenses'[n] = expenses[n]
    OBVIOUS
  <2> QED
    BY <2>1, <2>2, ExpenseStays
<1> QED
  BY <1>1

(* A document that is not there, or not cancelled, has posted nothing.     *)
LEMMA NotPosted ==
  ASSUME SourcesKnown, NEW src, src \notin Sources
  PROVE  /\ \A m \in movements : m.source # src
         /\ CashPosted(src) = {}
BY DEF SourcesKnown, CashPosted

(* The next document of each kind has posted nothing yet.                  *)
LEMMA FreshSources ==
  ASSUME DocumentsOK
  PROVE  /\ <<"ADJUSTMENT", Len(adjustments) + 1>> \in Source \ Sources
         /\ <<"TRANSFER", Len(transfers) + 1>> \in Source \ Sources
         /\ <<"SALE", Len(sales) + 1>> \in Source \ Sources
         /\ <<"SALE_CANCELLATION", Len(sales) + 1>> \notin Sources
         /\ <<"PURCHASE", Len(purchases) + 1>> \in Source \ Sources
         /\ <<"PURCHASE_CANCELLATION", Len(purchases) + 1>> \notin Sources
         /\ <<"EXPENSE", Len(expenses) + 1>> \in Source \ Sources
         /\ <<"EXPENSE_CANCELLATION", Len(expenses) + 1>> \notin Sources
<1>1. /\ Len(adjustments) \in Nat /\ Len(transfers) \in Nat /\ Len(sales) \in Nat
      /\ Len(purchases) \in Nat /\ Len(expenses) \in Nat
  BY DEF DocumentsOK
<1>2. \A k \in Nat : k + 1 \in Nat \ {0} /\ k + 1 \notin 1..k
  OBVIOUS
<1>3. \A k \in Nat \ {0} :
        /\ <<"ADJUSTMENT", k>> \in Sources <=> k \in 1..Len(adjustments)
        /\ <<"TRANSFER", k>> \in Sources <=> k \in 1..Len(transfers)
        /\ <<"SALE", k>> \in Sources <=> k \in 1..Len(sales)
        /\ <<"SALE_CANCELLATION", k>> \in Sources <=> k \in Cancelled(sales)
        /\ <<"PURCHASE", k>> \in Sources <=> k \in 1..Len(purchases)
        /\ <<"PURCHASE_CANCELLATION", k>> \in Sources <=> k \in Cancelled(purchases)
        /\ <<"EXPENSE", k>> \in Sources <=> k \in 1..Len(expenses)
        /\ <<"EXPENSE_CANCELLATION", k>> \in Sources <=> k \in Cancelled(expenses)
  BY DEF Sources
<1>4. /\ Cancelled(sales) \subseteq 1..Len(sales) /\ Cancelled(purchases) \subseteq 1..Len(purchases)
      /\ Cancelled(expenses) \subseteq 1..Len(expenses)
  BY DEF Cancelled
<1>5. \A kind \in SourceType, k \in Nat \ {0} : <<kind, k>> \in Source
  BY DEF Source
<1>6. {"ADJUSTMENT", "TRANSFER", "SALE", "PURCHASE", "EXPENSE"} \subseteq SourceType
  BY DEF SourceType
<1> QED
  BY <1>1, <1>2, <1>3, <1>4, <1>5, <1>6

-----------------------------------------------------------------------------
(* Documents are written once and remembered.                              *)

(* A document appended, and a document changed.                            *)
LEMMA AppendIs ==
  ASSUME NEW S, NEW q \in Seq(S), NEW e \in S, NEW r, r = Append(q, e)
  PROVE  /\ r \in Seq(S) /\ Len(q) \in Nat /\ Len(r) = Len(q) + 1 /\ r[Len(q) + 1] = e
         /\ \A n \in 1..Len(q) : n \in 1..Len(r) /\ r[n] = q[n]
         /\ \A n \in 1..Len(r) : n \in 1..Len(q) \/ n = Len(q) + 1
         /\ Len(q) + 1 \in 1..Len(r)
OBVIOUS

LEMMA UpdateIs ==
  ASSUME NEW S, NEW q \in Seq(S), NEW n \in 1..Len(q), NEW e \in S, NEW r, r = [q EXCEPT ![n] = e]
  PROVE  /\ r \in Seq(S) /\ Len(r) = Len(q) /\ r[n] = e
         /\ \A k \in 1..Len(q) : k # n => r[k] = q[k]
OBVIOUS

(* No step forgets a document, or what transactions rely on of one.        *)
SalesRemembered ==
  \A n \in 1..Len(sales) :
    /\ n \in 1..Len(sales')
    /\ sales'[n].branch = sales[n].branch /\ sales'[n].lines = sales[n].lines
    /\ sales'[n].late = sales[n].late /\ sales'[n].cash = sales[n].cash
    /\ sales[n].cancelled => sales'[n].cancelled
PurchasesRemembered ==
  \A n \in 1..Len(purchases) :
    /\ n \in 1..Len(purchases')
    /\ purchases[n].payment = "CASH" => purchases'[n].payment = "CASH"
    /\ purchases[n].cancelled => purchases'[n].cancelled
ExpensesRemembered ==
  \A n \in 1..Len(expenses) :
    /\ n \in 1..Len(expenses')
    /\ expenses'[n].method = expenses[n].method
    /\ expenses[n].cancelled => expenses'[n].cancelled
Remembered ==
  /\ SalesRemembered /\ PurchasesRemembered /\ ExpensesRemembered
  /\ 1..Len(adjustments) \subseteq 1..Len(adjustments')
  /\ 1..Len(transfers) \subseteq 1..Len(transfers')

(* Nothing changed, nothing forgotten.                                     *)
LEMMA UnchangedRemembered ==
  /\ sales' = sales => SalesRemembered
  /\ purchases' = purchases => PurchasesRemembered
  /\ expenses' = expenses => ExpensesRemembered
BY DEF SalesRemembered, PurchasesRemembered, ExpensesRemembered

(* A document that is there stays there, and a cancelled one cancelled.    *)
LEMMA SourcesGrow ==
  ASSUME Remembered
  PROVE  Sources \subseteq Sources'
<1>1. /\ 1..Len(sales) \subseteq 1..Len(sales') /\ Cancelled(sales) \subseteq Cancelled(sales')
      /\ 1..Len(purchases) \subseteq 1..Len(purchases')
      /\ Cancelled(purchases) \subseteq Cancelled(purchases')
      /\ 1..Len(expenses) \subseteq 1..Len(expenses') /\ Cancelled(expenses) \subseteq Cancelled(expenses')
      /\ 1..Len(adjustments) \subseteq 1..Len(adjustments')
      /\ 1..Len(transfers) \subseteq 1..Len(transfers')
  BY DEF Remembered, SalesRemembered, PurchasesRemembered, ExpensesRemembered, Cancelled
<1>2. Sources' = 
  ({"ADJUSTMENT"} \X (1..Len(adjustments'))) \cup ({"TRANSFER"} \X (1..Len(transfers')))
  \cup ({"SALE"} \X (1..Len(sales'))) \cup ({"SALE_CANCELLATION"} \X Cancelled(sales'))
  \cup ({"PURCHASE"} \X (1..Len(purchases'))) \cup ({"PURCHASE_CANCELLATION"} \X Cancelled(purchases'))
  \cup ({"EXPENSE"} \X (1..Len(expenses'))) \cup ({"EXPENSE_CANCELLATION"} \X Cancelled(expenses'))
  BY DEF Sources, Cancelled
<1> QED
  BY <1>1, <1>2 DEF Sources

(* A posting by a document that is there keeps the ledgers accounted for.  *)
LEMMA SourcesStayKnown ==
  ASSUME SourcesKnown, Remembered, NEW src, OnlyOf(src), src \in Sources',
         movements' = movements \/ src[1] \notin {"EXPENSE", "EXPENSE_CANCELLATION"}
  PROVE  SourcesKnown'
<1>1. Sources \subseteq Sources'
  BY SourcesGrow
<1>2. \A m \in movements' : m \in movements \/ (m.source = src /\ movements' # movements)
  BY DEF OnlyOf, StockGrows
<1>3. \A m \in cashMovements' : m \in cashMovements \/ m.source = src
  BY DEF OnlyOf, CashGrows
<1>4. \A m \in movements' :
        m.source \in Sources' /\ m.source[1] \notin {"EXPENSE", "EXPENSE_CANCELLATION"}
  BY <1>1, <1>2 DEF SourcesKnown
<1>5. \A m \in cashMovements' : m.source \in Sources'
  BY <1>1, <1>3 DEF SourcesKnown
<1> QED
  BY <1>4, <1>5 DEF SourcesKnown

(* A transaction that goes on relies on what is still there.               *)
LEMMA TxStaysTrue ==
  ASSUME TxTrue, Remembered, \A t \in Tx : tx'[t] = tx[t] \/ tx'[t] = Idle
  PROVE  TxTrue'
<1>1. ASSUME NEW t \in Tx
      PROVE
    /\ tx'[t].op = "CANCEL_SALE" =>
         /\ tx'[t].document \in 1..Len(sales')
         /\ tx'[t].session = NoSession => sales'[tx'[t].document].cash = 0
    /\ tx'[t].op = "PAY_PURCHASE" => tx'[t].document \in 1..Len(purchases')
    /\ tx'[t].op = "CANCEL_PURCHASE" =>
         /\ tx'[t].document \in 1..Len(purchases')
         /\ tx'[t].session # NoSession => purchases'[tx'[t].document].payment = "CASH"
    /\ tx'[t].op = "CANCEL_EXPENSE" =>
         /\ tx'[t].document \in 1..Len(expenses')
         /\ tx'[t].session = NoSession <=> expenses'[tx'[t].document].method # "CASH"
  <2>1. CASE tx'[t] = Idle
    BY <2>1 DEF Idle
  <2>2. CASE tx'[t] = tx[t]
    <3>1. /\ tx[t].op = "CANCEL_SALE" =>
               /\ tx[t].document \in 1..Len(sales)
               /\ tx[t].session = NoSession => sales[tx[t].document].cash = 0
          /\ tx[t].op = "PAY_PURCHASE" => tx[t].document \in 1..Len(purchases)
          /\ tx[t].op = "CANCEL_PURCHASE" =>
               /\ tx[t].document \in 1..Len(purchases)
               /\ tx[t].session # NoSession => purchases[tx[t].document].payment = "CASH"
          /\ tx[t].op = "CANCEL_EXPENSE" =>
               /\ tx[t].document \in 1..Len(expenses)
               /\ tx[t].session = NoSession <=> expenses[tx[t].document].method # "CASH"
      BY DEF TxTrue
    <3> QED
      BY <2>2, <3>1 DEF Remembered, SalesRemembered, PurchasesRemembered, ExpensesRemembered
  <2> QED
    BY <2>1, <2>2
<1> QED
  BY <1>1 DEF TxTrue

(* An inactive branch stays quiet unless a lost device opens an incident.  *)
LEMMA QuietStays ==
  ASSUME InactiveBranchQuiet, activeBranches' = activeBranches, Remembered,
         \A s \in Session : session'[s].status = session[s].status,
         \A p \in Place : incident'[p].status \in UnderReview =>
           \/ incident[p].status \in UnderReview \/ p[1] \in activeBranches
           \/ \E n \in 1..Len(sales') :
                sales'[n].branch = p[1] /\ sales'[n].late /\ sales'[n].lines[p[2]] > 0
  PROVE  InactiveBranchQuiet'
<1>1. ASSUME NEW b \in Branch \ activeBranches, NEW i \in Item, incident'[<<b, i>>].status \in UnderReview
      PROVE  \E n \in 1..Len(sales') : sales'[n].branch = b /\ sales'[n].late /\ sales'[n].lines[i] > 0
  <2>1. <<b, i>> \in Place /\ <<b, i>>[1] = b /\ <<b, i>>[2] = i
    BY DEF Place
  <2>2. CASE incident[<<b, i>>].status \in UnderReview
    <3>1. PICK n \in 1..Len(sales) : sales[n].branch = b /\ sales[n].late /\ sales[n].lines[i] > 0
      BY <2>2 DEF InactiveBranchQuiet
    <3>2. n \in 1..Len(sales') /\ sales'[n].branch = b /\ sales'[n].late /\ sales'[n].lines[i] > 0
      BY <3>1 DEF Remembered, SalesRemembered
    <3> QED
      BY <3>2
  <2>3. CASE \E n \in 1..Len(sales') :
                sales'[n].branch = b /\ sales'[n].late /\ sales'[n].lines[i] > 0
    BY <2>3
  <2> QED
    BY <1>1, <2>1, <2>2, <2>3
<1>2. \A b \in Branch \ activeBranches : \A s \in Session : BranchOf[s] = b => session'[s].status \notin Active
  BY DEF InactiveBranchQuiet
<1> QED
  BY <1>1, <1>2 DEF InactiveBranchQuiet

-----------------------------------------------------------------------------
(* A step that posts for one source, whatever document it writes: what is  *)
(* left to show is that the documents still say what the ledgers say.      *)

(* A step that posts stock, and cash perhaps, for one document.            *)
LEMMA PostedStep ==
  ASSUME TradeInv, NEW src \in Source \ Sources, NEW d \in [Place -> Int], Post(src, d), Enough(d),
         CashTrue', CashGrows(src), \A s \in Session : session'[s].status = session[s].status,
         DocumentsOK', Remembered, activeBranches' = activeBranches,
         tx' \in [Tx -> Transaction], \A t \in Tx : tx'[t] = tx[t] \/ tx'[t] = Idle,
         src \in Sources', src[1] \notin {"EXPENSE", "EXPENSE_CANCELLATION"},
         OnlyOf(src) => DocumentsTrue'
  PROVE  TradeInv'
<1> USE DEF TradeInv
<1>1. \A m \in movements : m.source # src
  BY NotPosted
<1>2. /\ StockTrue'
      /\ \A p \in Place : incident'[p].status \in UnderReview => incident[p].status \in UnderReview
  BY <1>1, PostKeepsStock
<1>3. StockGrows(src)
  BY <1>1, EntriesMoved DEF Post
<1>4. OnlyOf(src)
  BY <1>3 DEF OnlyOf
<1>5. SourcesKnown'
  BY <1>4, SourcesStayKnown
<1>6. TxTrue'
  BY TxStaysTrue
<1>7. InactiveBranchQuiet'
  BY <1>2, QuietStays
<1> QED
  BY <1>2, <1>4, <1>5, <1>6, <1>7

(* Cash that does not move.                                                *)
LEMMA CashUntouched ==
  ASSUME CashTrue, UNCHANGED cashVars, NEW src
  PROVE  /\ CashTrue' /\ CashGrows(src)
         /\ \A s \in Session : session'[s].status = session[s].status
         /\ CashPosted(src)' = CashPosted(src) /\ Paid(src)' = Paid(src)
<1>1. session' = session /\ cashMovements' = cashMovements
  BY DEF cashVars
<1>2. CashPosted(src)' = CashPosted(src)
  BY <1>1 DEF CashPosted
<1>3. Paid(src)' = Paid(src)
  BY <1>2 DEF Paid
<1> QED
  BY <1>1, <1>2, <1>3 DEF CashTrue, CashGrows

(* ApplyAdjustment and CompensateAdjustment.                               *)
LEMMA AdjustKeeps ==
  ASSUME TradeInv, NEW p \in Place, NEW delta \in Int \ {0}, NEW c \in Nat,
         ApplyAdjustment(p, delta, c), UNCHANGED <<cashVars, documentVars, tx>>
  PROVE  TradeInv'
<1> DEFINE src == <<"ADJUSTMENT", Len(adjustments) + 1>>
           d == [q \in Place |-> IF q = p THEN delta ELSE 0]
           e == [place |-> p, delta |-> delta, compensates |-> c]
<1>1. /\ Enough(d) /\ Post(src, d) /\ adjustments' = Append(adjustments, e)
      /\ transfers' = transfers /\ activeBranches' = activeBranches
  BY DEF ApplyAdjustment
<1>2. sales' = sales /\ purchases' = purchases /\ expenses' = expenses /\ UNCHANGED cashVars /\ tx' = tx
  BY DEF documentVars
<1>3. DocumentsOK /\ CashTrue /\ tx \in [Tx -> Transaction] /\ DocumentsTrue
  BY DEF TradeInv
<1>4. src \in Source \ Sources
  BY <1>3, FreshSources
<1>5. d \in [Place -> Int] /\ e \in Adjustment
  BY DEF Adjustment
<1>6. /\ adjustments' \in Seq(Adjustment) /\ 1..Len(adjustments) \subseteq 1..Len(adjustments')
      /\ Len(adjustments) + 1 \in 1..Len(adjustments')
  <2> HIDE DEF e
  <2> QED
    BY <1>1, <1>3, <1>5, AppendIs DEF DocumentsOK
<1>7. Remembered
  BY <1>1, <1>2, <1>6, UnchangedRemembered DEF Remembered
<1>8. src \in Sources'
  BY <1>6 DEF Sources
<1>9. src[1] \notin {"EXPENSE", "EXPENSE_CANCELLATION", "SALE", "SALE_CANCELLATION",
                     "PURCHASE", "PURCHASE_CANCELLATION"}
  OBVIOUS
<1> HIDE DEF src, d, e
<1>10. CashTrue' /\ CashGrows(src) /\ \A s \in Session : session'[s].status = session[s].status
  BY <1>2, <1>3, CashUntouched
<1>11. DocumentsOK'
  BY <1>1, <1>2, <1>3, <1>6 DEF DocumentsOK
<1>12. ASSUME OnlyOf(src) PROVE DocumentsTrue'
  <2>1. \A n \in 1..Len(sales') : SaleTrue(n)'
    BY <1>2, <1>3, <1>9, <1>12, SalesStay DEF DocumentsTrue
  <2>2. \A n \in 1..Len(purchases') : PurchaseTrue(n)'
    BY <1>2, <1>3, <1>9, <1>12, PurchasesStay DEF DocumentsTrue
  <2>3. \A n \in 1..Len(expenses') : ExpenseTrue(n)'
    BY <1>2, <1>3, <1>9, <1>12, ExpensesStay DEF DocumentsTrue
  <2> QED
    BY <2>1, <2>2, <2>3 DEF DocumentsTrue
<1>13. tx' \in [Tx -> Transaction] /\ \A t \in Tx : tx'[t] = tx[t]
  BY <1>2, <1>3
<1> QED
  BY <1>1, <1>4, <1>5, <1>7, <1>8, <1>9, <1>10, <1>11, <1>12, <1>13, PostedStep

(* Transfer and CompensateTransfer.                                        *)
LEMMA TransferKeeps ==
  ASSUME TradeInv, NEW from \in Branch, NEW to \in Branch, NEW lines \in Lines, NEW c \in Nat,
         ApplyTransfer(from, to, lines, c), UNCHANGED <<cashVars, documentVars, tx>>
  PROVE  TradeInv'
<1> DEFINE src == <<"TRANSFER", Len(transfers) + 1>>
           d == Plus(At(from, lines, -1), At(to, lines, 1))
           e == [origin |-> from, destination |-> to, lines |-> lines, compensates |-> c]
<1>1. /\ Enough(d) /\ Post(src, d) /\ transfers' = Append(transfers, e)
      /\ adjustments' = adjustments /\ activeBranches' = activeBranches
  BY DEF ApplyTransfer
<1>2. sales' = sales /\ purchases' = purchases /\ expenses' = expenses /\ UNCHANGED cashVars /\ tx' = tx
  BY DEF documentVars
<1>3. DocumentsOK /\ CashTrue /\ tx \in [Tx -> Transaction] /\ DocumentsTrue
  BY DEF TradeInv
<1>4. src \in Source \ Sources
  BY <1>3, FreshSources
<1>5. d \in [Place -> Int] /\ e \in Transfer
  <2>1. At(from, lines, -1) \in [Place -> Int] /\ At(to, lines, 1) \in [Place -> Int]
    BY AtBranch
  <2>2. d \in [Place -> Int]
    BY <2>1 DEF Plus
  <2> QED
    BY <2>2 DEF Transfer
<1>6. /\ transfers' \in Seq(Transfer) /\ 1..Len(transfers) \subseteq 1..Len(transfers')
      /\ Len(transfers) + 1 \in 1..Len(transfers')
  <2> HIDE DEF e
  <2> QED
    BY <1>1, <1>3, <1>5, AppendIs DEF DocumentsOK
<1>7. Remembered
  BY <1>1, <1>2, <1>6, UnchangedRemembered DEF Remembered
<1>8. src \in Sources'
  BY <1>6 DEF Sources
<1>9. src[1] \notin {"EXPENSE", "EXPENSE_CANCELLATION", "SALE", "SALE_CANCELLATION",
                     "PURCHASE", "PURCHASE_CANCELLATION"}
  OBVIOUS
<1> HIDE DEF src, d, e
<1>10. CashTrue' /\ CashGrows(src) /\ \A s \in Session : session'[s].status = session[s].status
  BY <1>2, <1>3, CashUntouched
<1>11. DocumentsOK'
  BY <1>1, <1>2, <1>3, <1>6 DEF DocumentsOK
<1>12. ASSUME OnlyOf(src) PROVE DocumentsTrue'
  <2>1. \A n \in 1..Len(sales') : SaleTrue(n)'
    BY <1>2, <1>3, <1>9, <1>12, SalesStay DEF DocumentsTrue
  <2>2. \A n \in 1..Len(purchases') : PurchaseTrue(n)'
    BY <1>2, <1>3, <1>9, <1>12, PurchasesStay DEF DocumentsTrue
  <2>3. \A n \in 1..Len(expenses') : ExpenseTrue(n)'
    BY <1>2, <1>3, <1>9, <1>12, ExpensesStay DEF DocumentsTrue
  <2> QED
    BY <2>1, <2>2, <2>3 DEF DocumentsTrue
<1>13. tx' \in [Tx -> Transaction] /\ \A t \in Tx : tx'[t] = tx[t]
  BY <1>2, <1>3
<1> QED
  BY <1>1, <1>4, <1>5, <1>7, <1>8, <1>9, <1>10, <1>11, <1>12, <1>13, PostedStep

-----------------------------------------------------------------------------
(* Sales.                                                                  *)

NewSale(s, lines, cash, late) ==
  [branch |-> BranchOf[s], lines |-> lines, cash |-> cash, card |-> Units(lines) - cash,
   session |-> s, late |-> late, cancelled |-> FALSE, refunded |-> 0]

(* The sale that was appended.                                             *)
LEMMA SaleWritten ==
  ASSUME DocumentsOK, NEW s \in Session, NEW lines \in Lines, NEW c \in 0..Units(lines),
         NEW late \in BOOLEAN, sales' = Append(sales, NewSale(s, lines, c, late))
  PROVE  /\ sales' \in Seq(Sale) /\ SalesRemembered
         /\ Len(sales) + 1 \in 1..Len(sales')
         /\ sales'[Len(sales) + 1] = NewSale(s, lines, c, late)
         /\ \A n \in 1..Len(sales') : n # Len(sales) + 1 => n \in 1..Len(sales) /\ sales'[n] = sales[n]
<1> DEFINE e == NewSale(s, lines, c, late)
<1>1. e \in Sale
  <2>1. Units(lines) \in Nat /\ BranchOf[s] \in Branch
    BY UnitsAreNat, TradeAssumption
  <2>2. PICK u : u = Units(lines)
    OBVIOUS
  <2>3. c \in Nat /\ u - c \in Nat
    BY <2>1, <2>2
  <2>4. e = [branch |-> BranchOf[s], lines |-> lines, cash |-> c, card |-> u - c,
             session |-> s, late |-> late, cancelled |-> FALSE, refunded |-> 0]
    BY <2>2 DEF NewSale
  <2> QED
    BY <2>1, <2>3, <2>4 DEF Sale
<1>2. sales \in Seq(Sale)
  BY DEF DocumentsOK
<1> HIDE DEF e
<1>3. /\ sales' \in Seq(Sale) /\ sales'[Len(sales) + 1] = e
      /\ \A n \in 1..Len(sales) : n \in 1..Len(sales') /\ sales'[n] = sales[n]
      /\ \A n \in 1..Len(sales') : n \in 1..Len(sales) \/ n = Len(sales) + 1
      /\ Len(sales) + 1 \in 1..Len(sales')
  BY <1>1, <1>2, AppendIs DEF e
<1>4. SalesRemembered
  BY <1>3 DEF SalesRemembered
<1> QED
  BY <1>3, <1>4 DEF e

(* It is true, and the other documents stay so.                            *)
LEMMA NewSaleTrue ==
  ASSUME TradeInv, NEW s \in Session, NEW lines \in Lines, NEW c \in 0..Units(lines),
         NEW late \in BOOLEAN, sales' = Append(sales, NewSale(s, lines, c, late)),
         purchases' = purchases, expenses' = expenses,
         NEW k, k = Len(sales) + 1, OnlyOf(<<"SALE", k>>), Paid(<<"SALE", k>>)' = c,
         \A m \in movements' : m.source = <<"SALE", k>> => m.delta < 0
  PROVE  DocumentsTrue'
<1> DEFINE src == <<"SALE", k>>
           cancel == <<"SALE_CANCELLATION", k>>
<1>1. DocumentsOK /\ DocumentsTrue /\ SourcesKnown
  BY DEF TradeInv
<1>2. /\ sales'[k] = NewSale(s, lines, c, late)
      /\ \A n \in 1..Len(sales') : n # k => n \in 1..Len(sales) /\ sales'[n] = sales[n]
  BY <1>1, SaleWritten
<1>3. Paid(cancel)' = 0
  <2>1. cancel \notin Sources /\ cancel # src /\ OnlyOf(src)
    BY <1>1, FreshSources
  <2> HIDE DEF cancel, src
  <2>2. Paid(cancel) = 0
    BY <1>1, <2>1, NotPosted, NothingPaid
  <2>3. Paid(cancel)' = Paid(cancel)
    BY <2>1, OthersStay
  <2> QED
    BY <2>2, <2>3
<1>4. SaleTrue(k)'
  <2>1. PICK u : u = Units(lines)
    OBVIOUS
  <2>2. u \in Nat /\ c \in Int /\ c + (u - c) = u
    BY <2>1, UnitsAreNat
  <2>3. /\ sales'[k].cash = c /\ sales'[k].card = u - c /\ sales'[k].lines = lines
        /\ sales'[k].cancelled = FALSE /\ sales'[k].refunded = 0
    BY <1>2, <2>1 DEF NewSale
  <2>4. Paid(src)' = c /\ \A m \in movements' : m.source = src => m.delta < 0
    OBVIOUS
  <2> QED
    BY <1>3, <2>1, <2>2, <2>3, <2>4 DEF SaleTrue
<1>5. ASSUME NEW n \in 1..Len(sales), sales'[n] = sales[n] PROVE SaleTrue(n)'
  <2>1. src # <<"SALE", n>> /\ src # <<"SALE_CANCELLATION", n>>
    <3>1. n # k
      BY <1>1 DEF DocumentsOK
    <3> QED
      BY <3>1
  <2>2. SaleTrue(n)
    BY <1>1 DEF DocumentsTrue
  <2>3. OnlyOf(src)
    OBVIOUS
  <2> HIDE DEF src
  <2> QED
    BY <1>5, <2>1, <2>2, <2>3, SaleStays
<1>6. src[1] \notin {"PURCHASE", "PURCHASE_CANCELLATION", "EXPENSE", "EXPENSE_CANCELLATION"}
  OBVIOUS
<1>7. OnlyOf(src)
  OBVIOUS
<1> HIDE DEF src
<1>8. \A n \in 1..Len(purchases') : PurchaseTrue(n)'
  BY <1>1, <1>6, <1>7, PurchasesStay DEF DocumentsTrue
<1>9. \A n \in 1..Len(expenses') : ExpenseTrue(n)'
  BY <1>1, <1>6, <1>7, ExpensesStay DEF DocumentsTrue
<1>10. \A n \in 1..Len(sales') : SaleTrue(n)'
  BY <1>2, <1>4, <1>5
<1> QED
  BY <1>8, <1>9, <1>10 DEF DocumentsTrue

(* ConfirmSale, and ImportOfflineSale, which may open an incident.         *)
LEMMA ConfirmSaleKeeps ==
  ASSUME TradeInv, NEW s \in Session, NEW lines \in Lines, NEW c \in 0..Units(lines),
         ConfirmSale(s, lines, c)
  PROVE  TradeInv'
<1>0. PICK k : k = Len(sales) + 1
  OBVIOUS
<1> DEFINE src == <<"SALE", k>>
           d == At(BranchOf[s], lines, -1)
<1>1. /\ sales' = Append(sales, NewSale(s, lines, c, FALSE))
      /\ Enough(d) /\ Post(src, d) /\ MoveCash(src, s, c)
      /\ adjustments' = adjustments /\ transfers' = transfers /\ activeBranches' = activeBranches
      /\ purchases' = purchases /\ expenses' = expenses /\ tx' = tx
  BY <1>0 DEF ConfirmSale, PersistSale, ApplySaleStock, NewSale
<1>2. DocumentsOK /\ CashTrue /\ StockTrue /\ tx \in [Tx -> Transaction] /\ SourcesKnown
  BY DEF TradeInv
<1>3. src \in Source \ Sources
  BY <1>0, <1>2, FreshSources
<1>4. d \in [Place -> Int] /\ \A p \in Place : d[p] <= 0
  BY AtBranch, TradeAssumption
<1>5. c \in Int
  BY UnitsAreNat
<1>6. src[1] \notin {"EXPENSE", "EXPENSE_CANCELLATION"}
  OBVIOUS
<1>7. /\ sales' \in Seq(Sale) /\ SalesRemembered
      /\ k \in 1..Len(sales')
  BY <1>0, <1>1, <1>2, SaleWritten
<1>8. src \in Sources'
  BY <1>7 DEF Sources
<1>9. Remembered
  BY <1>1, <1>7, UnchangedRemembered DEF Remembered
<1>10. DocumentsOK'
  BY <1>1, <1>2, <1>7 DEF DocumentsOK
<1> HIDE DEF d
<1>11. (\A m \in movements : m.source # src) /\ CashPosted(src) = {}
  <2> HIDE DEF src
  <2> QED
    BY <1>2, <1>3, NotPosted
<1>12. CashTrue' /\ CashGrows(src) /\ Paid(src)' = c
       /\ \A r \in Session : session'[r].status = session[r].status
  <2> HIDE DEF src
  <2> QED
    BY <1>1, <1>2, <1>3, <1>5, <1>11, CashMoves
<1>13. \A m \in movements' : m.source = src => m.delta < 0
  <2> HIDE DEF src
  <2>1. movements' = movements \cup Entries(src, d)
    BY <1>1 DEF Post
  <2>2. movements' \in SUBSET Movement
    BY <1>2, <1>3, <1>4, <2>1, EntriesOf DEF StockTrue
  <2>3. \A m \in movements' : m.source = src => m.delta = d[m.place] /\ m.delta # 0
    BY <1>2, <1>3, <1>4, <1>11, <2>1, EntriesMoved
  <2>4. \A m \in movements' : m.delta \in Int /\ m.place \in Place
    BY <2>2, EntryIs
  <2> QED
    BY <1>4, <2>3, <2>4
<1>14. ASSUME OnlyOf(src) PROVE DocumentsTrue'
  BY <1>0, <1>1, <1>12, <1>13, <1>14, NewSaleTrue
<1>15. tx' \in [Tx -> Transaction] /\ \A t \in Tx : tx'[t] = tx[t]
  BY <1>1, <1>2
<1> HIDE DEF src
<1> QED
  BY <1>1, <1>3, <1>4, <1>6, <1>8, <1>9, <1>10, <1>12, <1>14, <1>15, PostedStep

LEMMA ImportKeeps ==
  ASSUME TradeInv, NEW s \in Session, NEW lines \in Lines, NEW c \in 0..Units(lines),
         ImportOfflineSale(s, lines, c)
  PROVE  TradeInv'
<1>0. PICK k, late : k = Len(sales) + 1 /\ late = (session[s].status = Lost)
  OBVIOUS
<1> DEFINE src == <<"SALE", k>>
           b == BranchOf[s]
           d == At(b, lines, -1)
<1>1. /\ sales' = Append(sales, NewSale(s, lines, c, late))
      /\ session[s].status \in Active \cup {Lost}
      /\ ApplyOfflineSaleStock(k, b, lines) /\ MoveCash(src, s, c)
      /\ adjustments' = adjustments /\ transfers' = transfers /\ activeBranches' = activeBranches
      /\ purchases' = purchases /\ expenses' = expenses /\ tx' = tx
  BY <1>0 DEF ImportOfflineSale, NewSale
<1>2. DocumentsOK /\ CashTrue /\ StockTrue /\ tx \in [Tx -> Transaction] /\ SourcesKnown /\ TxTrue
      /\ InactiveBranchQuiet /\ activeBranches \subseteq Branch
  BY DEF TradeInv
<1>3. src \in Source \ Sources /\ late \in BOOLEAN
  BY <1>0, <1>2, FreshSources
<1>4. d \in [Place -> Int] /\ \A p \in Place : d[p] <= 0
  BY AtBranch, TradeAssumption
<1>5. c \in Int
  BY UnitsAreNat
<1>6. src[1] \notin {"EXPENSE", "EXPENSE_CANCELLATION"}
  OBVIOUS
<1>7. /\ sales' \in Seq(Sale) /\ SalesRemembered
      /\ k \in 1..Len(sales') /\ sales'[k] = NewSale(s, lines, c, late)
  BY <1>0, <1>1, <1>2, <1>3, SaleWritten
<1>8. src \in Sources'
  BY <1>7 DEF Sources
<1>9. Remembered
  BY <1>1, <1>7, UnchangedRemembered DEF Remembered
<1>10. DocumentsOK'
  BY <1>1, <1>2, <1>7 DEF DocumentsOK
<1>11. (\A m \in movements : m.source # src) /\ CashPosted(src) = {}
  <2> HIDE DEF src
  <2> QED
    BY <1>2, <1>3, NotPosted
<1>12. CashTrue' /\ CashGrows(src) /\ Paid(src)' = c
       /\ \A r \in Session : session'[r].status = session[r].status
  <2> HIDE DEF src
  <2> QED
    BY <1>1, <1>2, <1>3, <1>5, <1>11, CashMoves
<1>13. /\ StockTrue'
       /\ \A p \in Place :
            incident'[p].status \in UnderReview => incident[p].status \in UnderReview \/ d[p] < 0
  <2>1. d = At(b, lines, -1) /\ <<"SALE", k>> = src
    OBVIOUS
  <2> HIDE DEF b, d, src
  <2>2. ApplyOfflineSaleStock(k, b, lines) /\ <<"SALE", k>> \in Source
        /\ \A m \in movements : m.source # <<"SALE", k>>
    BY <1>1, <1>3, <1>11, <2>1
  <2> QED
    BY <1>2, <1>4, <2>1, <2>2, OfflineKeepsStock
<1>14. movements' = movements \cup Entries(src, d)
  BY <1>1 DEF ApplyOfflineSaleStock
<1>15. StockGrows(src) /\ \A m \in movements' : m.source = src => m.delta < 0
  <2> HIDE DEF src, d
  <2>1. StockGrows(src) /\ \A m \in movements' : m.source = src => m.delta = d[m.place] /\ m.delta # 0
    BY <1>2, <1>3, <1>4, <1>11, <1>14, EntriesMoved
  <2>2. \A m \in movements' : m.delta \in Int /\ m.place \in Place
    BY <1>13, EntryIs DEF StockTrue
  <2> QED
    BY <1>4, <2>1, <2>2
<1>16. OnlyOf(src)
  BY <1>12, <1>15 DEF OnlyOf
<1>17. DocumentsTrue'
  <2> HIDE DEF d, b
  <2> QED
    BY <1>0, <1>1, <1>3, <1>12, <1>15, <1>16, NewSaleTrue
<1>18. ASSUME NEW p \in Place, incident'[p].status \in UnderReview
       PROVE  \/ incident[p].status \in UnderReview \/ p[1] \in activeBranches
              \/ \E n \in 1..Len(sales') :
                   sales'[n].branch = p[1] /\ sales'[n].late /\ sales'[n].lines[p[2]] > 0
  <2>1. CASE d[p] < 0
    <3>1. p[1] = b /\ lines[p[2]] \in Nat /\ lines[p[2]] > 0
      <4>1. d[p] = (IF p[1] = b THEN -lines[p[2]] ELSE 0) /\ lines[p[2]] \in Nat
        BY AtBranch, TradeAssumption
      <4> HIDE DEF d
      <4> QED
        BY <2>1, <4>1
    <3>2. CASE session[s].status = Lost
      <4>1. sales'[k].branch = b /\ sales'[k].lines = lines /\ sales'[k].late = late
        BY <1>7 DEF NewSale
      <4>2. late
        BY <1>0, <3>2
      <4>3. sales'[k].late
        BY <4>1, <4>2, Zenon
      <4> QED
        BY <1>7, <3>1, <4>1, <4>3
    <3>3. CASE session[s].status \in Active
      <4>1. BranchOf[s] \in activeBranches
        BY <1>2, <3>3, TradeAssumption DEF InactiveBranchQuiet
      <4> QED
        BY <3>1, <4>1
    <3> QED
      BY <1>1, <3>2, <3>3
  <2> QED
    BY <1>13, <1>18, <2>1
<1> HIDE DEF src, d, b
<1>19. InactiveBranchQuiet'
  BY <1>1, <1>2, <1>9, <1>12, <1>18, QuietStays
<1>20. SourcesKnown'
  BY <1>2, <1>6, <1>8, <1>9, <1>16, SourcesStayKnown
<1>21. TxTrue'
  BY <1>1, <1>2, <1>9, TxStaysTrue
<1> QED
  BY <1>1, <1>2, <1>10, <1>12, <1>13, <1>17, <1>19, <1>20, <1>21 DEF TradeInv

-----------------------------------------------------------------------------
(* Purchases and expenses.                                                 *)

NewPurchase(b, lines, payment) ==
  [branch |-> b, lines |-> lines, payment |-> payment,
   cancelled |-> FALSE, reversal |-> "NONE", paidLate |-> FALSE]

(* A purchase received, whatever its cash; then the two ways to.           *)
LEMMA ReceiveKeeps ==
  ASSUME TradeInv, NEW b \in Branch, NEW lines \in Lines, NEW payment \in {"NONE", "CASH", "CARD"},
         ReceivePurchase(b, lines, payment), NEW k, k = Len(purchases) + 1,
         CashTrue', \A r \in Session : session'[r].status = session[r].status,
         CashGrows(<<"PURCHASE", k>>),
         Paid(<<"PURCHASE", k>>)' = IF payment = "CASH" THEN -Units(lines) ELSE 0,
         payment = "NONE" => CashPosted(<<"PURCHASE", k>>)' = {}
  PROVE  TradeInv'
<1> DEFINE src == <<"PURCHASE", k>>
           cancel == <<"PURCHASE_CANCELLATION", k>>
           d == At(b, lines, 1)
           e == NewPurchase(b, lines, payment)
<1>1. /\ purchases' = Append(purchases, e) /\ Post(src, d)
      /\ adjustments' = adjustments /\ transfers' = transfers /\ activeBranches' = activeBranches
      /\ sales' = sales /\ expenses' = expenses /\ tx' = tx
  BY DEF ReceivePurchase, PersistPurchase, ApplyPurchaseStock, NewPurchase
<1>2. DocumentsOK /\ DocumentsTrue /\ StockTrue /\ tx \in [Tx -> Transaction] /\ SourcesKnown
  BY DEF TradeInv
<1>3. src \in Source \ Sources /\ cancel \notin Sources
  BY <1>2, FreshSources
<1>4. d \in [Place -> Int] /\ \A p \in Place : d[p] >= 0
  BY AtBranch
<1>5. Enough(d)
  <2> HIDE DEF d
  <2> QED
    BY <1>4 DEF Enough
<1>6. src[1] \notin {"EXPENSE", "EXPENSE_CANCELLATION", "SALE", "SALE_CANCELLATION"} /\ cancel # src
  OBVIOUS
<1>7. e \in Purchase /\ purchases \in Seq(Purchase)
  BY <1>2 DEF DocumentsOK, Purchase, NewPurchase
<1> HIDE DEF e
<1>8. /\ purchases' \in Seq(Purchase) /\ purchases'[k] = e /\ k \in 1..Len(purchases')
      /\ \A n \in 1..Len(purchases) : n \in 1..Len(purchases') /\ purchases'[n] = purchases[n]
      /\ \A n \in 1..Len(purchases') : n \in 1..Len(purchases) \/ n = k
  BY <1>1, <1>7, AppendIs
<1>9. PurchasesRemembered
  BY <1>8 DEF PurchasesRemembered
<1>10. Remembered
  BY <1>1, <1>9, UnchangedRemembered DEF Remembered
<1>11. src \in Sources'
  BY <1>8 DEF Sources
<1>12. DocumentsOK'
  BY <1>1, <1>2, <1>8 DEF DocumentsOK
<1>13. CashGrows(src)
  OBVIOUS
<1>14. ASSUME OnlyOf(src) PROVE DocumentsTrue'
  <2>1. Paid(cancel)' = 0
    <3> HIDE DEF src, cancel
    <3>1. Paid(cancel) = 0
      BY <1>2, <1>3, NotPosted, NothingPaid
    <3>2. Paid(cancel)' = Paid(cancel)
      BY <1>6, <1>14, OthersStay
    <3> QED
      BY <3>1, <3>2
  <2>2. PurchaseTrue(k)'
    <3>1. /\ purchases'[k].payment = payment /\ purchases'[k].cancelled = FALSE
          /\ purchases'[k].lines = lines
      BY <1>8 DEF e, NewPurchase
    <3> QED
      BY <2>1, <3>1 DEF PurchaseTrue
  <2>3. ASSUME NEW n \in 1..Len(purchases) PROVE PurchaseTrue(n)'
    <3>1. src # <<"PURCHASE", n>> /\ src # <<"PURCHASE_CANCELLATION", n>>
      <4>1. n # k
        BY <1>2 DEF DocumentsOK
      <4> QED
        BY <4>1
    <3>2. PurchaseTrue(n) /\ purchases'[n] = purchases[n]
      BY <1>2, <1>8 DEF DocumentsTrue
    <3> HIDE DEF src
    <3> QED
      BY <1>14, <3>1, <3>2, PurchaseStays
  <2> HIDE DEF src
  <2>4. \A n \in 1..Len(purchases') : PurchaseTrue(n)'
    BY <1>8, <2>2, <2>3
  <2>5. \A n \in 1..Len(sales') : SaleTrue(n)'
    BY <1>1, <1>2, <1>6, <1>14, SalesStay DEF DocumentsTrue
  <2>6. \A n \in 1..Len(expenses') : ExpenseTrue(n)'
    BY <1>1, <1>2, <1>6, <1>14, ExpensesStay DEF DocumentsTrue
  <2> QED
    BY <2>4, <2>5, <2>6 DEF DocumentsTrue
<1>15. tx' \in [Tx -> Transaction] /\ \A t \in Tx : tx'[t] = tx[t]
  BY <1>1, <1>2
<1> HIDE DEF src, d
<1> QED
  BY <1>1, <1>3, <1>4, <1>5, <1>6, <1>10, <1>11, <1>12, <1>13, <1>14, <1>15, PostedStep

LEMMA ConfirmPendingKeeps ==
  ASSUME TradeInv, NEW b \in Branch, NEW lines \in Lines, ConfirmPending(b, lines)
  PROVE  TradeInv'
<1>1. PICK k : k = Len(purchases) + 1
  OBVIOUS
<1> DEFINE src == <<"PURCHASE", k>>
<1>2. DocumentsOK /\ CashTrue /\ SourcesKnown
  BY DEF TradeInv
<1>3. src \notin Sources
  BY <1>1, <1>2, FreshSources
<1>4. ReceivePurchase(b, lines, "NONE") /\ UNCHANGED cashVars
  BY DEF ConfirmPending
<1>5. /\ CashTrue' /\ CashGrows(src)
      /\ \A s \in Session : session'[s].status = session[s].status
      /\ CashPosted(src)' = {} /\ Paid(src)' = 0
  <2> HIDE DEF src
  <2>1. CashPosted(src) = {} /\ Paid(src) = 0
    BY <1>2, <1>3, NotPosted, NothingPaid
  <2> QED
    BY <1>2, <1>4, <2>1, CashUntouched
<1> QED
  BY <1>1, <1>4, <1>5, ReceiveKeeps

LEMMA PreparePaidKeeps ==
  ASSUME TradeInv, NEW b \in Branch, NEW lines \in Lines, NEW s \in Session \cup {NoSession},
         PreparePaid(b, lines, s)
  PROVE  TradeInv'
<1>1. PICK k : k = Len(purchases) + 1
  OBVIOUS
<1> DEFINE src == <<"PURCHASE", k>>
<1>2. DocumentsOK /\ CashTrue /\ SourcesKnown
  BY DEF TradeInv
<1>3. src \in Source \ Sources
  BY <1>1, <1>2, FreshSources
<1>4. ReceivePurchase(b, lines, Method(s)) /\ PurchaseCashOut(k, s, Units(lines))
  BY <1>1 DEF PreparePaid
<1>5. CashPosted(src) = {} /\ Paid(src) = 0
  <2> HIDE DEF src
  <2> QED
    BY <1>2, <1>3, NotPosted, NothingPaid
<1>6. CASE s = NoSession
  <2>1. UNCHANGED cashVars /\ Method(s) = "CARD"
    BY <1>4, <1>6 DEF PurchaseCashOut, Method
  <2>2. /\ CashTrue' /\ CashGrows(src)
        /\ \A r \in Session : session'[r].status = session[r].status
        /\ Paid(src)' = 0
    <3> HIDE DEF src
    <3> QED
      BY <1>2, <1>5, <2>1, CashUntouched
  <2> QED
    BY <1>1, <1>4, <2>1, <2>2, ReceiveKeeps
<1>7. CASE s # NoSession
  <2>1. MoveCash(src, s, -Units(lines)) /\ Method(s) = "CASH" /\ s \in Session
    BY <1>4, <1>7 DEF PurchaseCashOut, Method
  <2>2. -Units(lines) \in Int
    BY UnitsAreNat
  <2>3. /\ CashTrue' /\ CashGrows(src)
        /\ \A r \in Session : session'[r].status = session[r].status
        /\ Paid(src)' = -Units(lines)
    <3> HIDE DEF src
    <3> QED
      BY <1>2, <1>3, <1>5, <2>1, <2>2, CashMoves
  <2> QED
    BY <1>1, <1>4, <2>1, <2>3, ReceiveKeeps
<1> QED
  BY <1>6, <1>7

(* A step that touches no stock, and pays at most for one source.          *)
LEMMA StockUntouched ==
  ASSUME StockTrue, UNCHANGED stockVars, NEW src
  PROVE  /\ StockTrue' /\ StockGrows(src) /\ movements' = movements
         /\ \A p \in Place : incident'[p].status \in UnderReview => incident[p].status \in UnderReview
         /\ \A p \in Place : Moved(src, p)' = Moved(src, p)
<1>1. quantity' = quantity /\ movements' = movements /\ incident' = incident
  BY DEF stockVars
<1>2. StockTrue'
  BY <1>1 DEF StockTrue, Explained, ShortageUnderReview
<1>3. \A p \in Place : Posted(src, p)' = Posted(src, p)
  BY <1>1 DEF Posted
<1>4. \A p \in Place : Moved(src, p)' = Moved(src, p)
  BY <1>3 DEF Moved
<1> QED
  BY <1>1, <1>2, <1>4 DEF StockGrows

(* A step that moves cash, and no stock, for one document.                 *)
LEMMA PaidStep ==
  ASSUME TradeInv, NEW src, UNCHANGED stockVars,
         CashTrue', CashGrows(src), \A s \in Session : session'[s].status = session[s].status,
         DocumentsOK', Remembered, activeBranches' = activeBranches,
         tx' \in [Tx -> Transaction], \A t \in Tx : tx'[t] = tx[t] \/ tx'[t] = Idle,
         src \in Sources', OnlyOf(src) => DocumentsTrue'
  PROVE  TradeInv'
<1> USE DEF TradeInv
<1>1. /\ StockTrue' /\ StockGrows(src) /\ movements' = movements
      /\ \A p \in Place : incident'[p].status \in UnderReview => incident[p].status \in UnderReview
  BY StockUntouched
<1>2. OnlyOf(src)
  BY <1>1 DEF OnlyOf
<1>3. SourcesKnown'
  BY <1>1, <1>2, SourcesStayKnown
<1>4. TxTrue'
  BY TxStaysTrue
<1>5. InactiveBranchQuiet'
  BY <1>1, QuietStays
<1> QED
  BY <1>1, <1>2, <1>3, <1>4, <1>5

(* CreateExpense.                                                          *)
LEMMA CreateExpenseKeeps ==
  ASSUME TradeInv, NEW b \in Branch, NEW u \in 1..MaxQuantity, NEW s \in Session \cup {NoSession},
         CreateExpense(b, u, s)
  PROVE  TradeInv'
<1>0. PICK k : k = Len(expenses) + 1
  OBVIOUS
<1> DEFINE src == <<"EXPENSE", k>>
           cancel == <<"EXPENSE_CANCELLATION", k>>
           e == [branch |-> b, amount |-> u, cancelled |-> FALSE, method |-> Method(s)]
<1>1. /\ expenses' = Append(expenses, e) /\ ExpenseCashOut(k, s, u)
      /\ UNCHANGED stockVars
      /\ adjustments' = adjustments /\ transfers' = transfers /\ activeBranches' = activeBranches
      /\ sales' = sales /\ purchases' = purchases /\ tx' = tx
  BY <1>0 DEF CreateExpense, PersistExpense, inventoryVars
<1>2. DocumentsOK /\ DocumentsTrue /\ CashTrue /\ tx \in [Tx -> Transaction] /\ SourcesKnown
  BY DEF TradeInv
<1>3. src \in Source \ Sources /\ cancel \notin Sources
  BY <1>0, <1>2, FreshSources
<1>4. src[1] \notin {"PURCHASE", "PURCHASE_CANCELLATION", "SALE", "SALE_CANCELLATION"} /\ cancel # src
  OBVIOUS
<1>5. u \in Nat /\ Method(s) \in {"CASH", "CARD"} /\ -u \in Int
  BY StockAssumption DEF Method
<1>6. e \in Expense /\ expenses \in Seq(Expense)
  BY <1>2, <1>5 DEF DocumentsOK, Expense
<1> HIDE DEF e
<1>7. /\ expenses' \in Seq(Expense) /\ expenses'[k] = e /\ k \in 1..Len(expenses')
      /\ \A n \in 1..Len(expenses) : n \in 1..Len(expenses') /\ expenses'[n] = expenses[n]
      /\ \A n \in 1..Len(expenses') : n \in 1..Len(expenses) \/ n = k
  BY <1>0, <1>1, <1>6, AppendIs
<1>8. ExpensesRemembered
  BY <1>7 DEF ExpensesRemembered
<1>9. Remembered
  BY <1>1, <1>8, UnchangedRemembered DEF Remembered
<1>10. src \in Sources'
  BY <1>7 DEF Sources
<1>11. DocumentsOK'
  BY <1>1, <1>2, <1>7 DEF DocumentsOK
<1>12. CashPosted(src) = {} /\ Paid(src) = 0 /\ Paid(cancel) = 0
  <2> HIDE DEF src, cancel
  <2> QED
    BY <1>2, <1>3, NotPosted, NothingPaid
<1>13. /\ CashTrue' /\ CashGrows(src)
       /\ \A r \in Session : session'[r].status = session[r].status
       /\ Paid(src)' = IF Method(s) = "CASH" THEN -u ELSE 0
  <2>1. CASE s = NoSession
    <3>1. UNCHANGED cashVars /\ Method(s) = "CARD"
      BY <1>1, <2>1 DEF ExpenseCashOut, Method
    <3> HIDE DEF src
    <3> QED
      BY <1>2, <1>12, <3>1, CashUntouched
  <2>2. CASE s # NoSession
    <3>1. MoveCash(src, s, -u) /\ Method(s) = "CASH" /\ s \in Session
      BY <1>1, <2>2 DEF ExpenseCashOut, Method
    <3> HIDE DEF src
    <3> QED
      BY <1>2, <1>3, <1>5, <1>12, <3>1, CashMoves
  <2> QED
    BY <2>1, <2>2
<1>14. ASSUME OnlyOf(src) PROVE DocumentsTrue'
  <2>1. Paid(cancel)' = 0
    <3> HIDE DEF src, cancel
    <3> QED
      BY <1>4, <1>12, <1>14, OthersStay
  <2>2. ExpenseTrue(k)'
    <3>1. /\ expenses'[k].method = Method(s) /\ expenses'[k].cancelled = FALSE
          /\ expenses'[k].amount = u
      BY <1>7 DEF e
    <3> QED
      BY <1>13, <2>1, <3>1 DEF ExpenseTrue
  <2>3. ASSUME NEW n \in 1..Len(expenses) PROVE ExpenseTrue(n)'
    <3>1. src # <<"EXPENSE", n>> /\ src # <<"EXPENSE_CANCELLATION", n>>
      <4>1. n # k
        BY <1>0, <1>2 DEF DocumentsOK
      <4> QED
        BY <4>1
    <3>2. ExpenseTrue(n) /\ expenses'[n] = expenses[n]
      BY <1>2, <1>7 DEF DocumentsTrue
    <3> HIDE DEF src
    <3> QED
      BY <1>14, <3>1, <3>2, ExpenseStays
  <2> HIDE DEF src
  <2>4. \A n \in 1..Len(expenses') : ExpenseTrue(n)'
    BY <1>7, <2>2, <2>3
  <2>5. \A n \in 1..Len(sales') : SaleTrue(n)'
    BY <1>1, <1>2, <1>4, <1>14, SalesStay DEF DocumentsTrue
  <2>6. \A n \in 1..Len(purchases') : PurchaseTrue(n)'
    BY <1>1, <1>2, <1>4, <1>14, PurchasesStay DEF DocumentsTrue
  <2> QED
    BY <2>4, <2>5, <2>6 DEF DocumentsTrue
<1>15. tx' \in [Tx -> Transaction] /\ \A t \in Tx : tx'[t] = tx[t]
  BY <1>1, <1>2
<1> HIDE DEF src
<1> QED
  BY <1>1, <1>9, <1>10, <1>11, <1>13, <1>14, <1>15, PaidStep

-----------------------------------------------------------------------------
(* The second steps: cancellations and payments.                           *)

(* A transaction ends with its second step.                                *)
LEMMA CommitEnds ==
  ASSUME TradeInv, NEW t \in Tx, NEW op, Commit(t, op)
  PROVE  /\ tx[t].op = op
         /\ tx' \in [Tx -> Transaction]
         /\ \A r \in Tx : tx'[r] = tx[r] \/ tx'[r] = Idle
<1>1. Idle \in Transaction
  BY DEF Idle, Transaction
<1> QED
  BY <1>1 DEF Commit, TradeInv

(* Taking back a sale gives to every stock.                                *)
LEMMA UndoneRises ==
  ASSUME StockTrue, NEW src, \A m \in movements : m.source = src => m.delta < 0, NEW p \in Place
  PROVE  Undone(src)[p] >= 0
<1>1. CASE Posted(src, p) = {}
  BY <1>1 DEF Undone
<1>2. CASE Posted(src, p) # {}
  <2>1. PICK m : m = CHOOSE o \in Posted(src, p) : TRUE
    OBVIOUS
  <2>2. m \in Posted(src, p)
    BY <1>2, <2>1
  <2>3. m.delta \in Int /\ m.delta < 0
    BY <2>2, EntryIs DEF Posted, StockTrue
  <2>4. Undone(src)[p] = -m.delta
    BY <1>2, <2>1 DEF Undone
  <2> QED
    BY <2>3, <2>4
<1> QED
  BY <1>1, <1>2

(* Zero is its own opposite.                                               *)
LEMMA NoCashIsNone ==
  ASSUME NEW k \in Int, NEW l \in Int, k >= 0, k <= 0, l >= 0, l <= 0
  PROVE  l = -k
OBVIOUS

(* The cancellation of a document that stands has posted nothing yet.      *)
LEMMA CancellationSource ==
  ASSUME TradeInv
  PROVE  /\ \A n \in 1..Len(sales) : ~sales[n].cancelled =>
              <<"SALE_CANCELLATION", n>> \in Source \ Sources
         /\ \A n \in 1..Len(purchases) : ~purchases[n].cancelled =>
              <<"PURCHASE_CANCELLATION", n>> \in Source \ Sources
         /\ \A n \in 1..Len(expenses) : ~expenses[n].cancelled =>
              <<"EXPENSE_CANCELLATION", n>> \in Source \ Sources
<1>1. {"SALE_CANCELLATION", "PURCHASE_CANCELLATION", "EXPENSE_CANCELLATION"} \subseteq SourceType
  BY DEF SourceType
<1>2. /\ Len(sales) \in Nat /\ Len(purchases) \in Nat /\ Len(expenses) \in Nat
  BY DEF TradeInv, DocumentsOK
<1>3. \A l \in Nat : \A n \in 1..l : n \in Nat \ {0}
  OBVIOUS
<1>4. \A n :
        /\ <<"SALE_CANCELLATION", n>> \in Sources => n \in Cancelled(sales)
        /\ <<"PURCHASE_CANCELLATION", n>> \in Sources => n \in Cancelled(purchases)
        /\ <<"EXPENSE_CANCELLATION", n>> \in Sources => n \in Cancelled(expenses)
  BY DEF Sources
<1>5. \A kind \in SourceType, n \in Nat \ {0} : <<kind, n>> \in Source
  BY DEF Source
<1> QED
  BY <1>1, <1>2, <1>3, <1>4, <1>5 DEF Cancelled

(* CommitCancelSale: what it read is still so (TxTrue).                    *)
LEMMA CommitCancelSaleKeeps ==
  ASSUME TradeInv, NEW t \in Tx, CommitCancelSale(t)
  PROVE  TradeInv'
<1>0. PICK n, s : n = tx[t].document /\ s = tx[t].session
  OBVIOUS
<1> DEFINE src == <<"SALE_CANCELLATION", n>>
           sale == <<"SALE", n>>
           d == Undone(sale)
<1>1. /\ Commit(t, "CANCEL_SALE") /\ ~sales[n].cancelled
      /\ RecordSaleRefunds(n) /\ Post(src, d) /\ RecordCashRefund(n, s)
      /\ adjustments' = adjustments /\ transfers' = transfers /\ activeBranches' = activeBranches
      /\ purchases' = purchases /\ expenses' = expenses
  BY <1>0 DEF CommitCancelSale, SalePrepared, ReverseSaleStock
<1>2. DocumentsOK /\ DocumentsTrue /\ StockTrue /\ CashTrue /\ SourcesKnown
  BY DEF TradeInv
<1>3. /\ tx[t].op = "CANCEL_SALE" /\ tx' \in [Tx -> Transaction]
      /\ \A r \in Tx : tx'[r] = tx[r] \/ tx'[r] = Idle
  BY <1>1, CommitEnds
<1>4. /\ n \in 1..Len(sales) /\ (s = NoSession => sales[n].cash = 0)
      /\ s \in Session \cup {NoSession}
  <2>1. tx[t] \in Transaction
    BY DEF TradeInv
  <2> QED
    BY <1>0, <1>3, <2>1 DEF TradeInv, TxTrue, Transaction
<1>5. SaleTrue(n) /\ sales[n] \in Sale /\ sales \in Seq(Sale)
  BY <1>2, <1>4 DEF DocumentsTrue, DocumentsOK
<1>6. src \in Source \ Sources
  BY <1>1, <1>4, CancellationSource
<1>7. PICK c \in Nat, a \in Nat, u \in Nat : c = sales[n].cash /\ a = sales[n].card /\ u = sales[n].refunded
                           /\ u = 0 /\ c + a = Units(sales[n].lines)
  BY <1>1, <1>5 DEF SaleTrue, Sale
<1>8. PICK w : w = [sales[n] EXCEPT !.cancelled = TRUE, !.refunded = u + c + a]
  OBVIOUS
<1>9. /\ w \in Sale /\ w.cancelled = TRUE /\ w.refunded = c + a /\ w.cash = c /\ w.card = a
      /\ w.lines = sales[n].lines /\ w.branch = sales[n].branch /\ w.late = sales[n].late
  <2>1. u + c + a \in Nat /\ u + c + a = c + a
    BY <1>7
  <2> QED
    BY <1>5, <1>7, <1>8, <2>1 DEF Sale
<1>10. sales' = [sales EXCEPT ![n] = w]
  BY <1>1, <1>7, <1>8 DEF RecordSaleRefunds
<1>11. /\ sales' \in Seq(Sale) /\ Len(sales') = Len(sales) /\ sales'[n] = w
       /\ \A k \in 1..Len(sales) : k # n => sales'[k] = sales[k]
  BY <1>4, <1>5, <1>9, <1>10, UpdateIs
<1>12. SalesRemembered
  <2>1. ASSUME NEW k \in 1..Len(sales)
        PROVE  /\ k \in 1..Len(sales')
               /\ sales'[k].branch = sales[k].branch /\ sales'[k].lines = sales[k].lines
               /\ sales'[k].late = sales[k].late /\ sales'[k].cash = sales[k].cash
               /\ sales[k].cancelled => sales'[k].cancelled
    <3>1. CASE k = n
      BY <1>7, <1>9, <1>11, <3>1
    <3>2. CASE k # n
      BY <1>11, <3>2
    <3> QED
      BY <3>1, <3>2
  <2> QED
    BY <2>1 DEF SalesRemembered
<1>13. Remembered
  BY <1>1, <1>12, UnchangedRemembered DEF Remembered
<1>14. src \in Sources'
  <2>1. n \in Cancelled(sales')
    BY <1>4, <1>9, <1>11 DEF Cancelled
  <2> QED
    BY <2>1 DEF Sources, Cancelled
<1>15. DocumentsOK'
  BY <1>1, <1>2, <1>11 DEF DocumentsOK
<1>16. src[1] \notin {"EXPENSE", "EXPENSE_CANCELLATION", "PURCHASE", "PURCHASE_CANCELLATION"} /\ sale # src
  OBVIOUS
<1>17. /\ d \in [Place -> Int]
       /\ \A p \in Place : Moved(sale, p) \in Int /\ d[p] = -Moved(sale, p) /\ d[p] >= 0
  <2>1. \A m \in movements : m.source = sale => m.delta < 0
    BY <1>5 DEF SaleTrue
  <2> HIDE DEF sale
  <2> QED
    BY <1>2, <2>1, UndoneIs, UndoneRises
<1>18. (\A m \in movements : m.source # src) /\ CashPosted(src) = {} /\ Paid(src) = 0
  <2> HIDE DEF src
  <2> QED
    BY <1>2, <1>6, NotPosted, NothingPaid
<1>19. /\ CashTrue' /\ CashGrows(src)
       /\ \A r \in Session : session'[r].status = session[r].status
       /\ Paid(src)' = -c
  <2>1. CASE s = NoSession
    <3>1. UNCHANGED cashVars /\ c = 0
      BY <1>1, <1>4, <1>7, <2>1 DEF RecordCashRefund
    <3>2. /\ c \in Int /\ c >= 0 /\ c <= 0
          /\ Paid(src) \in Int /\ Paid(src) >= 0 /\ Paid(src) <= 0
      BY <1>18, <3>1
    <3>3. Paid(src) = -c
      BY <3>2, NoCashIsNone
    <3> HIDE DEF src
    <3> QED
      BY <1>2, <3>1, <3>3, CashUntouched
  <2>2. CASE s # NoSession
    <3>1. MoveCash(src, s, -c) /\ s \in Session /\ -c \in Int
      BY <1>1, <1>4, <1>7, <2>2 DEF RecordCashRefund
    <3> HIDE DEF src
    <3> QED
      BY <1>2, <1>6, <1>18, <3>1, CashMoves
  <2> QED
    BY <2>1, <2>2
<1>20. Enough(d)
  <2> HIDE DEF d
  <2> QED
    BY <1>17 DEF Enough
<1>21. movements' = movements \cup Entries(src, d)
  BY <1>1 DEF Post
<1>22. PICK e \in [Place -> Int] : e = d
  BY <1>17
<1> HIDE DEF d
<1>23. \A p \in Place : Moved(src, p)' = e[p]
  <2> HIDE DEF src
  <2> QED
    BY <1>2, <1>6, <1>18, <1>21, <1>22, EntriesMoved
<1>24. ASSUME OnlyOf(src) PROVE DocumentsTrue'
  <2>1. Paid(sale)' = Paid(sale) /\ \A p \in Place : Moved(sale, p)' = Moved(sale, p)
    <3> HIDE DEF src, sale
    <3> QED
      BY <1>16, <1>24, OthersStay
  <2>2. \A p \in Place : Moved(src, p)' = -(Moved(sale, p)')
    BY <1>17, <1>22, <1>23, <2>1
  <2>3. \A m \in movements' : m.source = sale => m.delta < 0
    <3>1. \A m \in movements' : m.source = sale => m \in movements
      BY <1>16, <1>24 DEF OnlyOf, StockGrows
    <3> QED
      BY <1>5, <3>1 DEF SaleTrue
  <2>4. Paid(sale)' = c
    BY <1>5, <1>7, <2>1 DEF SaleTrue
  <2>5. SaleTrue(n)'
    BY <1>7, <1>9, <1>11, <1>19, <2>2, <2>3, <2>4 DEF SaleTrue
  <2>6. ASSUME NEW k \in 1..Len(sales), k # n PROVE SaleTrue(k)'
    <3>1. src # <<"SALE", k>> /\ src # <<"SALE_CANCELLATION", k>>
      BY <2>6
    <3>2. SaleTrue(k) /\ sales'[k] = sales[k]
      BY <1>2, <1>11, <2>6 DEF DocumentsTrue
    <3> HIDE DEF src
    <3> QED
      BY <1>24, <3>1, <3>2, SaleStays
  <2> HIDE DEF src
  <2>7. \A k \in 1..Len(sales') : SaleTrue(k)'
    BY <1>11, <2>5, <2>6
  <2>8. \A k \in 1..Len(purchases') : PurchaseTrue(k)'
    BY <1>1, <1>2, <1>16, <1>24, PurchasesStay DEF DocumentsTrue
  <2>9. \A k \in 1..Len(expenses') : ExpenseTrue(k)'
    BY <1>1, <1>2, <1>16, <1>24, ExpensesStay DEF DocumentsTrue
  <2> QED
    BY <2>7, <2>8, <2>9 DEF DocumentsTrue
<1> HIDE DEF src, sale
<1> QED
  BY <1>1, <1>3, <1>6, <1>13, <1>14, <1>15, <1>16, <1>17, <1>19, <1>20, <1>24, PostedStep

(* CommitCancelPurchase: cash paid since Begin has no session to return to.*)
LEMMA CommitCancelPurchaseKeeps ==
  ASSUME TradeInv, NEW t \in Tx, CommitCancelPurchase(t)
  PROVE  TradeInv'
<1>0. PICK n, s : n = tx[t].document /\ s = tx[t].session
  OBVIOUS
<1> DEFINE src == <<"PURCHASE_CANCELLATION", n>>
           purchase == <<"PURCHASE", n>>
           d == Undone(purchase)
<1>1. /\ Commit(t, "CANCEL_PURCHASE") /\ ~purchases[n].cancelled
      /\ ReversePayment(n, s) /\ Enough(d) /\ Post(src, d)
      /\ adjustments' = adjustments /\ transfers' = transfers /\ activeBranches' = activeBranches
      /\ sales' = sales /\ expenses' = expenses
  BY <1>0 DEF CommitCancelPurchase, PurchasePrepared, ReversePurchaseStock
<1>2. DocumentsOK /\ DocumentsTrue /\ StockTrue /\ CashTrue /\ SourcesKnown
  BY DEF TradeInv
<1>3. /\ tx[t].op = "CANCEL_PURCHASE" /\ tx' \in [Tx -> Transaction]
      /\ \A r \in Tx : tx'[r] = tx[r] \/ tx'[r] = Idle
  BY <1>1, CommitEnds
<1>4. /\ n \in 1..Len(purchases) /\ (s # NoSession => purchases[n].payment = "CASH")
      /\ s \in Session \cup {NoSession}
  <2>1. tx[t] \in Transaction
    BY DEF TradeInv
  <2> QED
    BY <1>0, <1>3, <2>1 DEF TradeInv, TxTrue, Transaction
<1>5. PurchaseTrue(n) /\ purchases[n] \in Purchase /\ purchases \in Seq(Purchase)
  BY <1>2, <1>4 DEF DocumentsTrue, DocumentsOK
<1>6. src \in Source \ Sources
  BY <1>1, <1>4, CancellationSource
<1>7. PICK w : w = [purchases[n] EXCEPT !.cancelled = TRUE, !.reversal = purchases[n].payment]
  OBVIOUS
<1>8. /\ w \in Purchase /\ w.cancelled = TRUE /\ w.reversal = purchases[n].payment
      /\ w.payment = purchases[n].payment /\ w.lines = purchases[n].lines
  BY <1>5, <1>7 DEF Purchase
<1>9. purchases' = [purchases EXCEPT ![n] = w]
  BY <1>1, <1>7 DEF ReversePayment
<1>10. /\ purchases' \in Seq(Purchase) /\ Len(purchases') = Len(purchases) /\ purchases'[n] = w
       /\ \A k \in 1..Len(purchases) : k # n => purchases'[k] = purchases[k]
  BY <1>4, <1>5, <1>8, <1>9, UpdateIs
<1>11. PurchasesRemembered
  <2>1. ASSUME NEW k \in 1..Len(purchases)
        PROVE  /\ k \in 1..Len(purchases')
               /\ purchases[k].payment = "CASH" => purchases'[k].payment = "CASH"
               /\ purchases[k].cancelled => purchases'[k].cancelled
    <3>1. CASE k = n
      BY <1>8, <1>10, <3>1
    <3>2. CASE k # n
      BY <1>10, <3>2
    <3> QED
      BY <3>1, <3>2
  <2> QED
    BY <2>1 DEF PurchasesRemembered
<1>12. Remembered
  BY <1>1, <1>11, UnchangedRemembered DEF Remembered
<1>13. src \in Sources'
  <2>1. n \in Cancelled(purchases')
    BY <1>4, <1>8, <1>10 DEF Cancelled
  <2> QED
    BY <2>1 DEF Sources, Cancelled
<1>14. DocumentsOK'
  BY <1>1, <1>2, <1>10 DEF DocumentsOK
<1>15. src[1] \notin {"EXPENSE", "EXPENSE_CANCELLATION", "SALE", "SALE_CANCELLATION"} /\ purchase # src
  OBVIOUS
<1>16. /\ d \in [Place -> Int]
       /\ \A p \in Place : Moved(purchase, p) \in Int /\ d[p] = -Moved(purchase, p)
  BY <1>2, UndoneIs
<1>17. (\A m \in movements : m.source # src) /\ CashPosted(src) = {} /\ Paid(src) = 0
  <2> HIDE DEF src
  <2> QED
    BY <1>2, <1>6, NotPosted, NothingPaid
<1>18. Units(purchases[n].lines) \in Int
  BY <1>5, UnitsAreNat DEF Purchase
<1>19. /\ CashTrue' /\ CashGrows(src)
       /\ \A r \in Session : session'[r].status = session[r].status
       /\ Paid(src)' = IF w.reversal = "CASH" THEN Units(w.lines) ELSE 0
  <2>1. CASE s = NoSession
    <3>1. UNCHANGED cashVars /\ w.reversal # "CASH"
      BY <1>1, <1>8, <2>1 DEF ReversePayment
    <3> HIDE DEF src
    <3> QED
      BY <1>2, <1>17, <3>1, CashUntouched
  <2>2. CASE s # NoSession
    <3>1. MoveCash(src, s, Units(purchases[n].lines)) /\ s \in Session /\ w.reversal = "CASH"
      BY <1>1, <1>4, <1>8, <2>2 DEF ReversePayment
    <3> HIDE DEF src
    <3> QED
      BY <1>2, <1>6, <1>8, <1>17, <1>18, <3>1, CashMoves
  <2> QED
    BY <2>1, <2>2
<1>20. movements' = movements \cup Entries(src, d)
  BY <1>1 DEF Post
<1>21. PICK e \in [Place -> Int] : e = d
  BY <1>16
<1> HIDE DEF d
<1>22. \A p \in Place : Moved(src, p)' = e[p]
  <2> HIDE DEF src
  <2> QED
    BY <1>2, <1>6, <1>17, <1>20, <1>21, EntriesMoved
<1>23. ASSUME OnlyOf(src) PROVE DocumentsTrue'
  <2>1. /\ Paid(purchase)' = Paid(purchase) /\ CashPosted(purchase)' = CashPosted(purchase)
        /\ \A p \in Place : Moved(purchase, p)' = Moved(purchase, p)
    <3> HIDE DEF src, purchase
    <3> QED
      BY <1>15, <1>23, OthersStay
  <2>2. \A p \in Place : Moved(src, p)' = -(Moved(purchase, p)')
    BY <1>16, <1>21, <1>22, <2>1
  <2>3. /\ w.payment = "NONE" => CashPosted(purchase)' = {}
        /\ Paid(purchase)' = IF w.payment = "CASH" THEN -Units(w.lines) ELSE 0
    BY <1>5, <1>8, <2>1 DEF PurchaseTrue
  <2>4. PurchaseTrue(n)'
    BY <1>8, <1>10, <1>19, <2>2, <2>3 DEF PurchaseTrue
  <2>5. ASSUME NEW k \in 1..Len(purchases), k # n PROVE PurchaseTrue(k)'
    <3>1. src # <<"PURCHASE", k>> /\ src # <<"PURCHASE_CANCELLATION", k>>
      BY <2>5
    <3>2. PurchaseTrue(k) /\ purchases'[k] = purchases[k]
      BY <1>2, <1>10, <2>5 DEF DocumentsTrue
    <3> HIDE DEF src
    <3> QED
      BY <1>23, <3>1, <3>2, PurchaseStays
  <2> HIDE DEF src
  <2>6. \A k \in 1..Len(purchases') : PurchaseTrue(k)'
    BY <1>10, <2>4, <2>5
  <2>7. \A k \in 1..Len(sales') : SaleTrue(k)'
    BY <1>1, <1>2, <1>15, <1>23, SalesStay DEF DocumentsTrue
  <2>8. \A k \in 1..Len(expenses') : ExpenseTrue(k)'
    BY <1>1, <1>2, <1>15, <1>23, ExpensesStay DEF DocumentsTrue
  <2> QED
    BY <2>6, <2>7, <2>8 DEF DocumentsTrue
<1> HIDE DEF src, purchase
<1> QED
  BY <1>1, <1>3, <1>6, <1>12, <1>13, <1>14, <1>15, <1>16, <1>19, <1>23, PostedStep

(* CommitPayPurchase, also of a purchase cancelled meanwhile.              *)
LEMMA CommitPayPurchaseKeeps ==
  ASSUME TradeInv, NEW t \in Tx, CommitPayPurchase(t)
  PROVE  TradeInv'
<1>0. PICK n, s : n = tx[t].document /\ s = tx[t].session
  OBVIOUS
<1> DEFINE src == <<"PURCHASE", n>>
           cancel == <<"PURCHASE_CANCELLATION", n>>
<1>1. /\ Commit(t, "PAY_PURCHASE") /\ purchases[n].payment = "NONE"
      /\ purchases' = [purchases EXCEPT ![n].payment = Method(s), ![n].paidLate = purchases[n].cancelled]
      /\ PurchaseCashOut(n, s, Units(purchases[n].lines)) /\ UNCHANGED stockVars
      /\ adjustments' = adjustments /\ transfers' = transfers /\ activeBranches' = activeBranches
      /\ sales' = sales /\ expenses' = expenses
  BY <1>0 DEF CommitPayPurchase, inventoryVars
<1>2. DocumentsOK /\ DocumentsTrue /\ StockTrue /\ CashTrue /\ SourcesKnown
  BY DEF TradeInv
<1>3. /\ tx[t].op = "PAY_PURCHASE" /\ tx' \in [Tx -> Transaction]
      /\ \A r \in Tx : tx'[r] = tx[r] \/ tx'[r] = Idle
  BY <1>1, CommitEnds
<1>4. n \in 1..Len(purchases) /\ s \in Session \cup {NoSession}
  <2>1. tx[t] \in Transaction
    BY DEF TradeInv
  <2> QED
    BY <1>0, <1>3, <2>1 DEF TradeInv, TxTrue, Transaction
<1>5. PurchaseTrue(n) /\ purchases[n] \in Purchase /\ purchases \in Seq(Purchase)
  BY <1>2, <1>4 DEF DocumentsTrue, DocumentsOK
<1>6. PICK w : w = [purchases[n] EXCEPT !.payment = Method(s), !.paidLate = purchases[n].cancelled]
  OBVIOUS
<1>7. /\ w \in Purchase /\ w.payment = Method(s) /\ w.lines = purchases[n].lines
      /\ w.cancelled = purchases[n].cancelled /\ w.reversal = purchases[n].reversal
      /\ w.paidLate = purchases[n].cancelled
      /\ Method(s) \in {"CASH", "CARD"}
  BY <1>5, <1>6 DEF Purchase, Method
<1>8. purchases' = [purchases EXCEPT ![n] = w]
  BY <1>1, <1>6
<1>9. /\ purchases' \in Seq(Purchase) /\ Len(purchases') = Len(purchases) /\ purchases'[n] = w
      /\ \A k \in 1..Len(purchases) : k # n => purchases'[k] = purchases[k]
  BY <1>4, <1>5, <1>7, <1>8, UpdateIs
<1>10. PurchasesRemembered
  <2>1. ASSUME NEW k \in 1..Len(purchases)
        PROVE  /\ k \in 1..Len(purchases')
               /\ purchases[k].payment = "CASH" => purchases'[k].payment = "CASH"
               /\ purchases[k].cancelled => purchases'[k].cancelled
    <3>1. CASE k = n
      BY <1>1, <1>7, <1>9, <3>1
    <3>2. CASE k # n
      BY <1>9, <3>2
    <3> QED
      BY <3>1, <3>2
  <2> QED
    BY <2>1 DEF PurchasesRemembered
<1>11. Remembered
  BY <1>1, <1>10, UnchangedRemembered DEF Remembered
<1>12. src \in Source /\ src \in Sources'
  <2>1. n \in Nat \ {0} /\ n \in 1..Len(purchases')
    BY <1>2, <1>4, <1>9 DEF DocumentsOK
  <2>2. src \in Source
    BY <2>1 DEF Source, SourceType
  <2>3. src \in Sources'
    BY <2>1 DEF Sources
  <2> QED
    BY <2>2, <2>3
<1>13. DocumentsOK'
  BY <1>1, <1>2, <1>9 DEF DocumentsOK
<1>14. src[1] \notin {"EXPENSE", "EXPENSE_CANCELLATION", "SALE", "SALE_CANCELLATION"} /\ cancel # src
  OBVIOUS
<1>15. CashPosted(src) = {} /\ Paid(src) = 0
  BY <1>1, <1>5, NothingPaid DEF PurchaseTrue
<1>16. -Units(purchases[n].lines) \in Int
  BY <1>5, UnitsAreNat DEF Purchase
<1>17. /\ CashTrue' /\ CashGrows(src)
       /\ \A r \in Session : session'[r].status = session[r].status
       /\ Paid(src)' = IF w.payment = "CASH" THEN -Units(w.lines) ELSE 0
  <2>1. CASE s = NoSession
    <3>1. UNCHANGED cashVars /\ w.payment = "CARD"
      BY <1>1, <1>7, <2>1 DEF PurchaseCashOut, Method
    <3> HIDE DEF src
    <3> QED
      BY <1>2, <1>15, <3>1, CashUntouched
  <2>2. CASE s # NoSession
    <3>1. MoveCash(src, s, -Units(purchases[n].lines)) /\ s \in Session /\ w.payment = "CASH"
      BY <1>1, <1>4, <1>7, <2>2 DEF PurchaseCashOut, Method
    <3> HIDE DEF src
    <3> QED
      BY <1>2, <1>7, <1>12, <1>15, <1>16, <3>1, CashMoves
  <2> QED
    BY <2>1, <2>2
<1>18. ASSUME OnlyOf(src) PROVE DocumentsTrue'
  <2>1. /\ Paid(cancel)' = Paid(cancel)
        /\ \A p \in Place : Moved(cancel, p)' = Moved(cancel, p)
    <3> HIDE DEF src, cancel
    <3> QED
      BY <1>14, <1>18, OthersStay
  <2>2. \A p \in Place : Moved(src, p)' = Moved(src, p)
    <3> HIDE DEF src
    <3> QED
      BY <1>1, <1>2, StockUntouched
  <2>3. PurchaseTrue(n)'
    <3>1. /\ w.cancelled => \A p \in Place : Moved(cancel, p)' = -(Moved(src, p)')
          /\ Paid(cancel)' = IF w.cancelled /\ w.reversal = "CASH" THEN Units(w.lines) ELSE 0
      BY <1>5, <1>7, <2>1, <2>2 DEF PurchaseTrue
    <3>2. w.payment # "NONE" /\ ~(w.cancelled /\ ~w.paidLate)
      BY <1>7
    <3> QED
      BY <1>9, <1>17, <3>1, <3>2 DEF PurchaseTrue
  <2>4. ASSUME NEW k \in 1..Len(purchases), k # n PROVE PurchaseTrue(k)'
    <3>1. src # <<"PURCHASE", k>> /\ src # <<"PURCHASE_CANCELLATION", k>>
      BY <2>4
    <3>2. PurchaseTrue(k) /\ purchases'[k] = purchases[k]
      BY <1>2, <1>9, <2>4 DEF DocumentsTrue
    <3> HIDE DEF src
    <3> QED
      BY <1>18, <3>1, <3>2, PurchaseStays
  <2> HIDE DEF src
  <2>5. \A k \in 1..Len(purchases') : PurchaseTrue(k)'
    BY <1>9, <2>3, <2>4
  <2>6. \A k \in 1..Len(sales') : SaleTrue(k)'
    BY <1>1, <1>2, <1>14, <1>18, SalesStay DEF DocumentsTrue
  <2>7. \A k \in 1..Len(expenses') : ExpenseTrue(k)'
    BY <1>1, <1>2, <1>14, <1>18, ExpensesStay DEF DocumentsTrue
  <2> QED
    BY <2>5, <2>6, <2>7 DEF DocumentsTrue
<1> HIDE DEF src, cancel
<1> QED
  BY <1>1, <1>3, <1>11, <1>12, <1>13, <1>17, <1>18, PaidStep

(* CommitCancelExpense.                                                    *)
LEMMA CommitCancelExpenseKeeps ==
  ASSUME TradeInv, NEW t \in Tx, CommitCancelExpense(t)
  PROVE  TradeInv'
<1>0. PICK n, s : n = tx[t].document /\ s = tx[t].session
  OBVIOUS
<1> DEFINE src == <<"EXPENSE_CANCELLATION", n>>
           expense == <<"EXPENSE", n>>
<1>1. /\ Commit(t, "CANCEL_EXPENSE") /\ ~expenses[n].cancelled
      /\ expenses' = [expenses EXCEPT ![n].cancelled = TRUE]
      /\ RecordCashReturn(n, s) /\ UNCHANGED stockVars
      /\ adjustments' = adjustments /\ transfers' = transfers /\ activeBranches' = activeBranches
      /\ sales' = sales /\ purchases' = purchases
  BY <1>0 DEF CommitCancelExpense, ExpensePrepared, inventoryVars
<1>2. DocumentsOK /\ DocumentsTrue /\ StockTrue /\ CashTrue /\ SourcesKnown
  BY DEF TradeInv
<1>3. /\ tx[t].op = "CANCEL_EXPENSE" /\ tx' \in [Tx -> Transaction]
      /\ \A r \in Tx : tx'[r] = tx[r] \/ tx'[r] = Idle
  BY <1>1, CommitEnds
<1>4. /\ n \in 1..Len(expenses) /\ (s = NoSession <=> expenses[n].method # "CASH")
      /\ s \in Session \cup {NoSession}
  <2>1. tx[t] \in Transaction
    BY DEF TradeInv
  <2> QED
    BY <1>0, <1>3, <2>1 DEF TradeInv, TxTrue, Transaction
<1>5. ExpenseTrue(n) /\ expenses[n] \in Expense /\ expenses \in Seq(Expense)
  BY <1>2, <1>4 DEF DocumentsTrue, DocumentsOK
<1>6. PICK w : w = [expenses[n] EXCEPT !.cancelled = TRUE]
  OBVIOUS
<1>7. /\ w \in Expense /\ w.cancelled = TRUE /\ w.method = expenses[n].method
      /\ w.amount = expenses[n].amount /\ w.amount \in Int
  <2>1. /\ w \in Expense /\ w.cancelled = TRUE /\ w.method = expenses[n].method
        /\ w.amount = expenses[n].amount
    BY <1>5, <1>6 DEF Expense
  <2>2. w.amount \in Nat
    BY <2>1 DEF Expense
  <2> QED
    BY <2>1, <2>2
<1>8. expenses' = [expenses EXCEPT ![n] = w]
  BY <1>1, <1>6
<1>9. /\ expenses' \in Seq(Expense) /\ Len(expenses') = Len(expenses) /\ expenses'[n] = w
      /\ \A k \in 1..Len(expenses) : k # n => expenses'[k] = expenses[k]
  BY <1>4, <1>5, <1>7, <1>8, UpdateIs
<1>10. ExpensesRemembered
  <2>1. ASSUME NEW k \in 1..Len(expenses)
        PROVE  /\ k \in 1..Len(expenses')
               /\ expenses'[k].method = expenses[k].method
               /\ expenses[k].cancelled => expenses'[k].cancelled
    <3>1. CASE k = n
      BY <1>7, <1>9, <3>1
    <3>2. CASE k # n
      BY <1>9, <3>2
    <3> QED
      BY <3>1, <3>2
  <2> QED
    BY <2>1 DEF ExpensesRemembered
<1>11. Remembered
  BY <1>1, <1>10, UnchangedRemembered DEF Remembered
<1>12. src \in Source \ Sources
  BY <1>1, <1>4, CancellationSource
<1>13. src \in Sources'
  <2>1. n \in Cancelled(expenses')
    BY <1>4, <1>7, <1>9 DEF Cancelled
  <2> QED
    BY <2>1 DEF Sources, Cancelled
<1>14. DocumentsOK'
  BY <1>1, <1>2, <1>9 DEF DocumentsOK
<1>15. src[1] \notin {"PURCHASE", "PURCHASE_CANCELLATION", "SALE", "SALE_CANCELLATION"} /\ expense # src
  OBVIOUS
<1>16. CashPosted(src) = {} /\ Paid(src) = 0
  <2> HIDE DEF src
  <2> QED
    BY <1>2, <1>12, NotPosted, NothingPaid
<1>17. /\ CashTrue' /\ CashGrows(src)
       /\ \A r \in Session : session'[r].status = session[r].status
       /\ Paid(src)' = IF w.method = "CASH" THEN w.amount ELSE 0
  <2>1. CASE s = NoSession
    <3>1. UNCHANGED cashVars /\ w.method # "CASH"
      BY <1>1, <1>4, <1>7, <2>1 DEF RecordCashReturn
    <3> HIDE DEF src
    <3> QED
      BY <1>2, <1>16, <3>1, CashUntouched
  <2>2. CASE s # NoSession
    <3>1. MoveCash(src, s, w.amount) /\ s \in Session /\ w.method = "CASH"
      BY <1>1, <1>4, <1>7, <2>2 DEF RecordCashReturn
    <3> HIDE DEF src
    <3> QED
      BY <1>2, <1>7, <1>12, <1>16, <3>1, CashMoves
  <2> QED
    BY <2>1, <2>2
<1>18. ASSUME OnlyOf(src) PROVE DocumentsTrue'
  <2>1. Paid(expense)' = Paid(expense)
    <3> HIDE DEF src, expense
    <3> QED
      BY <1>15, <1>18, OthersStay
  <2>2. ExpenseTrue(n)'
    <3>1. Paid(expense)' = IF w.method = "CASH" THEN -w.amount ELSE 0
      BY <1>5, <1>7, <2>1 DEF ExpenseTrue
    <3> QED
      BY <1>7, <1>9, <1>17, <3>1 DEF ExpenseTrue
  <2>3. ASSUME NEW k \in 1..Len(expenses), k # n PROVE ExpenseTrue(k)'
    <3>1. src # <<"EXPENSE", k>> /\ src # <<"EXPENSE_CANCELLATION", k>>
      BY <2>3
    <3>2. ExpenseTrue(k) /\ expenses'[k] = expenses[k]
      BY <1>2, <1>9, <2>3 DEF DocumentsTrue
    <3> HIDE DEF src
    <3> QED
      BY <1>18, <3>1, <3>2, ExpenseStays
  <2> HIDE DEF src
  <2>4. \A k \in 1..Len(expenses') : ExpenseTrue(k)'
    BY <1>9, <2>2, <2>3
  <2>5. \A k \in 1..Len(sales') : SaleTrue(k)'
    BY <1>1, <1>2, <1>15, <1>18, SalesStay DEF DocumentsTrue
  <2>6. \A k \in 1..Len(purchases') : PurchaseTrue(k)'
    BY <1>1, <1>2, <1>15, <1>18, PurchasesStay DEF DocumentsTrue
  <2> QED
    BY <2>4, <2>5, <2>6 DEF DocumentsTrue
<1> HIDE DEF src, expense
<1> QED
  BY <1>1, <1>3, <1>11, <1>13, <1>14, <1>17, <1>18, PaidStep

-----------------------------------------------------------------------------
(* Steps that write neither ledger and no document.                        *)

LEMMA DocumentsUntouched ==
  ASSUME DocumentsTrue, SourcesKnown, DocumentsOK,
         UNCHANGED <<movements, cashMovements, documentVars, adjustments, transfers>>
  PROVE  DocumentsTrue' /\ SourcesKnown' /\ DocumentsOK' /\ Remembered
<1> DEFINE src == <<"ADJUSTMENT", 1>>
<1>1. /\ movements' = movements /\ cashMovements' = cashMovements
      /\ sales' = sales /\ purchases' = purchases /\ expenses' = expenses
      /\ adjustments' = adjustments /\ transfers' = transfers
  BY DEF documentVars
<1>2. src[1] \notin {"EXPENSE", "EXPENSE_CANCELLATION", "SALE", "SALE_CANCELLATION",
                     "PURCHASE", "PURCHASE_CANCELLATION"}
  OBVIOUS
<1>3. OnlyOf(src)
  BY <1>1 DEF OnlyOf, StockGrows, CashGrows
<1> HIDE DEF src
<1>4. \A n \in 1..Len(sales') : SaleTrue(n)'
  BY <1>1, <1>2, <1>3, SalesStay DEF DocumentsTrue
<1>5. \A n \in 1..Len(purchases') : PurchaseTrue(n)'
  BY <1>1, <1>2, <1>3, PurchasesStay DEF DocumentsTrue
<1>6. \A n \in 1..Len(expenses') : ExpenseTrue(n)'
  BY <1>1, <1>2, <1>3, ExpensesStay DEF DocumentsTrue
<1>7. Remembered
  BY <1>1, UnchangedRemembered DEF Remembered
<1>8. SourcesKnown'
  <2>1. Sources \subseteq Sources'
    BY <1>7, SourcesGrow
  <2> QED
    BY <1>1, <2>1 DEF SourcesKnown
<1>9. DocumentsOK'
  BY <1>1 DEF DocumentsOK
<1> QED
  BY <1>4, <1>5, <1>6, <1>7, <1>8, <1>9 DEF DocumentsTrue

(* OpenSession and OpenConflicted, CloseSession, ResolveIncident and        *)
(* DeactivateBranch.                                                       *)
LEMMA OpenSessionKeeps ==
  ASSUME TradeInv, NEW s \in Session, OpenSession(s) \/ OpenConflicted(s)
  PROVE  TradeInv'
<1>status. PICK status \in Active :
        session' = [session EXCEPT ![s] = [status |-> status, expected |-> Opening[s]]]
  BY DEF OpenSession, OpenConflicted, Active
<1>branch. BranchOf[s] \in activeBranches
  BY TradeAssumption DEF TradeInv, InactiveBranchQuiet, OpenSession, OpeningPrepared, OpenConflicted
<1> USE DEF TradeInv
<1>1. /\ UNCHANGED inventoryVars /\ UNCHANGED documentVars
      /\ activeBranches' = activeBranches /\ tx' = tx
      /\ session' = [session EXCEPT ![s] = [status |-> status, expected |-> Opening[s]]]
      /\ BranchOf[s] \in activeBranches /\ cashMovements' = cashMovements
  BY <1>status, <1>branch DEF OpenSession, OpenConflicted
<1>2. UNCHANGED stockVars /\ UNCHANGED <<movements, adjustments, transfers>> /\ incident' = incident
  BY <1>1 DEF inventoryVars, stockVars
<1>3. /\ UNCHANGED stockVars /\ UNCHANGED <<movements, cashMovements, documentVars, adjustments, transfers>>
      /\ activeBranches' = activeBranches /\ tx' = tx
      /\ incident' = incident /\ sales' = sales
      /\ session' = [session EXCEPT ![s] = [status |-> status, expected |-> Opening[s]]]
      /\ BranchOf[s] \in activeBranches /\ cashMovements' = cashMovements
  BY <1>1, <1>2 DEF documentVars
<1>4. DocumentsTrue' /\ SourcesKnown' /\ DocumentsOK' /\ Remembered
  BY <1>3, DocumentsUntouched
<1>5. StockTrue'
  BY <1>3, StockUntouched
<1>6. CashTrue'
  <2>1. [status |-> status, expected |-> Opening[s]] \in CashSession
    BY TradeAssumption DEF CashSession, SessionStatus, Active
  <2> QED
    BY <1>3, <2>1 DEF CashTrue
<1>7. TxTrue' /\ tx' \in [Tx -> Transaction]
  BY <1>3, <1>4, TxStaysTrue
<1>8. InactiveBranchQuiet'
  <2>1. session \in [Session -> CashSession]
    BY DEF CashTrue
  <2>2. \A r \in Session : r # s => session'[r] = session[r]
    BY <1>3, <2>1
  <2> QED
    BY <1>3, <2>2 DEF InactiveBranchQuiet
<1> QED
  BY <1>3, <1>4, <1>5, <1>6, <1>7, <1>8

LEMMA CloseSessionKeeps ==
  ASSUME TradeInv, NEW s \in Session, NEW how \in {"CLOSED", Lost}, CloseSession(s, how)
  PROVE  TradeInv'
<1> USE DEF TradeInv
<1>1. /\ UNCHANGED inventoryVars /\ UNCHANGED documentVars
      /\ activeBranches' = activeBranches /\ tx' = tx
      /\ session' = [session EXCEPT ![s].status = how]
      /\ cashMovements' = cashMovements
  BY DEF CloseSession
<1>2. UNCHANGED stockVars /\ UNCHANGED <<movements, adjustments, transfers>> /\ incident' = incident
  BY <1>1 DEF inventoryVars, stockVars
<1>3. /\ UNCHANGED stockVars /\ UNCHANGED <<movements, cashMovements, documentVars, adjustments, transfers>>
      /\ activeBranches' = activeBranches /\ tx' = tx
      /\ incident' = incident /\ sales' = sales
      /\ session' = [session EXCEPT ![s].status = how]
      /\ cashMovements' = cashMovements
  BY <1>1, <1>2 DEF documentVars
<1>4. DocumentsTrue' /\ SourcesKnown' /\ DocumentsOK' /\ Remembered
  BY <1>3, DocumentsUntouched
<1>5. StockTrue'
  BY <1>3, StockUntouched
<1>6. PICK w : w = [session[s] EXCEPT !.status = how]
  OBVIOUS
<1>7. w \in CashSession /\ w.status \notin Active /\ session \in [Session -> CashSession]
  BY <1>6 DEF CashTrue, CashSession, SessionStatus, Lost, Active
<1>8. session' = [session EXCEPT ![s] = w]
  BY <1>3, <1>6
<1>9. CashTrue'
  BY <1>3, <1>7, <1>8 DEF CashTrue
<1>10. TxTrue' /\ tx' \in [Tx -> Transaction]
  BY <1>3, <1>4, TxStaysTrue
<1>11. InactiveBranchQuiet'
  <2>1. \A r \in Session : session'[r].status \in Active => session[r].status \in Active
    BY <1>7, <1>8
  <2> QED
    BY <1>3, <2>1 DEF InactiveBranchQuiet
<1> QED
  BY <1>3, <1>4, <1>5, <1>9, <1>10, <1>11

LEMMA ResolveKeeps ==
  ASSUME TradeInv, NEW p \in Place, ResolveIncident(p), UNCHANGED <<cashVars, documentVars, tx>>
  PROVE  TradeInv'
<1> USE DEF TradeInv
<1>1. /\ UNCHANGED <<movements, cashMovements, documentVars, adjustments, transfers>>
      /\ activeBranches' = activeBranches /\ tx' = tx /\ movements' = movements
      /\ quantity' = quantity /\ quantity[p] >= 0
      /\ incident' = [incident EXCEPT ![p].status = "RESOLVED"] /\ UNCHANGED cashVars
  BY DEF ResolveIncident, cashVars
<1>2. DocumentsTrue' /\ SourcesKnown' /\ DocumentsOK' /\ Remembered
  BY <1>1, DocumentsUntouched
<1>3. PICK w : w = [incident[p] EXCEPT !.status = "RESOLVED"]
  OBVIOUS
<1>4. w \in Incident /\ w.status = "RESOLVED" /\ incident \in [Place -> Incident]
  BY <1>3 DEF StockTrue, Incident, IncidentStatus, UnderReview
<1>5. incident' = [incident EXCEPT ![p] = w]
  BY <1>1, <1>3
<1>6. \A q \in Place : (q # p => incident'[q] = incident[q]) /\ (q = p => incident'[q].status = "RESOLVED")
  BY <1>4, <1>5
<1>7. quantity[p] \in Int /\ "RESOLVED" \notin UnderReview
  BY DEF StockTrue, Stock, UnderReview
<1>8. Explained'
  <2>1. ASSUME NEW q \in Place
        PROVE  /\ quantity[q] = Sum(OnPlace(movements, q))
               /\ incident'[q].status \in UnderReview => quantity[q] + incident'[q].shortfall
                     <= Sum(LinkedIn(movements, incident'[q].corrections, q))
    BY <1>6, <1>7 DEF StockTrue, Explained
  <2> QED
    BY <1>1, <2>1 DEF Explained
<1>9. ShortageUnderReview'
  <2>1. ASSUME NEW q \in Place
        PROVE  /\ quantity[q] < 0 <=> incident'[q].status = "OPEN"
               /\ quantity[q] < 0 => incident'[q].shortfall >= -quantity[q]
    BY <1>1, <1>6, <1>7 DEF StockTrue, ShortageUnderReview
  <2> QED
    BY <1>1, <2>1 DEF ShortageUnderReview
<1>10. StockTrue'
  BY <1>1, <1>4, <1>5, <1>8, <1>9 DEF StockTrue
<1>11. /\ CashTrue' /\ \A s \in Session : session'[s].status = session[s].status
  BY <1>1, CashUntouched
<1>12. TxTrue' /\ tx' \in [Tx -> Transaction]
  BY <1>1, <1>2, TxStaysTrue
<1>13. InactiveBranchQuiet'
  <2>1. \A q \in Place : incident'[q].status \in UnderReview => incident[q].status \in UnderReview
    BY <1>6, <1>7
  <2> QED
    BY <1>1, <1>2, <1>11, <2>1, QuietStays
<1> QED
  BY <1>1, <1>2, <1>10, <1>11, <1>12, <1>13

LEMMA DeactivateKeeps ==
  ASSUME TradeInv, NEW b \in Branch, DeactivateBranch(b)
  PROVE  TradeInv'
<1> USE DEF TradeInv
<1>1. /\ UNCHANGED inventoryVars /\ UNCHANGED documentVars /\ UNCHANGED cashVars
      /\ activeBranches' = activeBranches \ {b} /\ tx' = tx
      /\ \A s \in Session : BranchOf[s] = b => session[s].status \notin Active
      /\ \A i \in Item : incident[<<b, i>>].status \notin UnderReview
  BY DEF DeactivateBranch
<1>2. UNCHANGED stockVars /\ UNCHANGED <<movements, adjustments, transfers>> /\ incident' = incident
  BY <1>1 DEF inventoryVars, stockVars
<1>3. session' = session /\ cashMovements' = cashMovements
  BY <1>1 DEF cashVars
<1>4. /\ UNCHANGED stockVars /\ UNCHANGED <<movements, cashMovements, documentVars, adjustments, transfers>>
      /\ activeBranches' = activeBranches \ {b} /\ tx' = tx
      /\ incident' = incident /\ sales' = sales /\ session' = session /\ UNCHANGED cashVars
      /\ \A s \in Session : BranchOf[s] = b => session[s].status \notin Active
      /\ \A i \in Item : incident[<<b, i>>].status \notin UnderReview
  BY <1>1, <1>2, <1>3 DEF documentVars
<1>5. DocumentsTrue' /\ SourcesKnown' /\ DocumentsOK' /\ Remembered
  BY <1>4, DocumentsUntouched
<1>6. StockTrue'
  BY <1>4, StockUntouched
<1>7. CashTrue'
  BY <1>4, CashUntouched
<1>8. TxTrue' /\ tx' \in [Tx -> Transaction]
  BY <1>4, <1>5, TxStaysTrue
<1>9. InactiveBranchQuiet'
  <2>1. \A c \in Branch \ activeBranches' : c = b \/ c \in Branch \ activeBranches
    BY <1>4
  <2> QED
    BY <1>4, <2>1 DEF InactiveBranchQuiet
<1> QED
  BY <1>4, <1>5, <1>6, <1>7, <1>8, <1>9

(* A step of the transactions alone.                                       *)
LEMMA TxStep ==
  ASSUME TradeInv, UNCHANGED <<inventoryVars, activeBranches, cashVars, documentVars>>,
         tx' \in [Tx -> Transaction], TxTrue'
  PROVE  TradeInv'
<1> USE DEF TradeInv
<1>1. /\ UNCHANGED stockVars /\ UNCHANGED <<movements, cashMovements, documentVars, adjustments, transfers>>
      /\ activeBranches' = activeBranches
      /\ incident' = incident /\ sales' = sales /\ session' = session /\ UNCHANGED cashVars
  BY DEF inventoryVars, stockVars, cashVars, documentVars
<1>2. DocumentsTrue' /\ SourcesKnown' /\ DocumentsOK' /\ Remembered
  BY <1>1, DocumentsUntouched
<1>3. StockTrue' /\ CashTrue'
  BY <1>1, StockUntouched, CashUntouched
<1>4. InactiveBranchQuiet'
  BY <1>1 DEF InactiveBranchQuiet
<1> QED
  BY <1>1, <1>2, <1>3, <1>4

(* Rollback, and the four first steps.                                     *)
LEMMA RollbackKeeps ==
  ASSUME TradeInv, NEW t \in Tx, Rollback(t)
  PROVE  TradeInv'
<1>1. tx' = [tx EXCEPT ![t] = Idle] /\ UNCHANGED <<inventoryVars, activeBranches, cashVars, documentVars>>
  BY DEF Rollback
<1>2. Idle \in Transaction /\ tx \in [Tx -> Transaction] /\ TxTrue
  BY DEF Idle, Transaction, TradeInv
<1>3. tx' \in [Tx -> Transaction] /\ \A r \in Tx : tx'[r] = tx[r] \/ tx'[r] = Idle
  BY <1>1, <1>2
<1>4. Remembered
  BY <1>1, UnchangedRemembered DEF Remembered, documentVars, inventoryVars
<1>5. TxTrue'
  BY <1>2, <1>3, <1>4, TxStaysTrue
<1> QED
  BY <1>1, <1>3, <1>5, TxStep

(* What a transaction reads of a document when it begins.                  *)
Reads(op, n, s) ==
  /\ op = "CANCEL_SALE" => n \in 1..Len(sales) /\ (s = NoSession => sales[n].cash = 0)
  /\ op = "PAY_PURCHASE" => n \in 1..Len(purchases)
  /\ op = "CANCEL_PURCHASE" =>
       n \in 1..Len(purchases) /\ (s # NoSession => purchases[n].payment = "CASH")
  /\ op = "CANCEL_EXPENSE" =>
       n \in 1..Len(expenses) /\ (s = NoSession <=> expenses[n].method # "CASH")

LEMMA BeginKeeps ==
  ASSUME TradeInv, NEW t \in Tx, NEW n \in Nat, NEW s \in Session \cup {NoSession},
         NEW op \in {"CANCEL_SALE", "PAY_PURCHASE", "CANCEL_PURCHASE", "CANCEL_EXPENSE"},
         Begin(t, op, n, s), Reads(op, n, s)
  PROVE  TradeInv'
<1> DEFINE w == [op |-> op, document |-> n, session |-> s]
<1>1. tx' = [tx EXCEPT ![t] = w] /\ UNCHANGED <<inventoryVars, activeBranches, cashVars, documentVars>>
  BY DEF Begin
<1>2. w \in Transaction /\ tx \in [Tx -> Transaction] /\ TxTrue
  BY DEF Transaction, TradeInv
<1>3. w.op = op /\ w.document = n /\ w.session = s
  OBVIOUS
<1> HIDE DEF w
<1>4. tx' \in [Tx -> Transaction] /\ tx'[t] = w /\ \A r \in Tx : r # t => tx'[r] = tx[r]
  BY <1>1, <1>2
<1>5. sales' = sales /\ purchases' = purchases /\ expenses' = expenses
  BY <1>1 DEF documentVars
<1>6. TxTrue'
  <2>1. ASSUME NEW r \in Tx
        PROVE  /\ tx'[r].op = "CANCEL_SALE" =>
                    /\ tx'[r].document \in 1..Len(sales)
                    /\ tx'[r].session = NoSession => sales[tx'[r].document].cash = 0
               /\ tx'[r].op = "PAY_PURCHASE" => tx'[r].document \in 1..Len(purchases)
               /\ tx'[r].op = "CANCEL_PURCHASE" =>
                    /\ tx'[r].document \in 1..Len(purchases)
                    /\ tx'[r].session # NoSession => purchases[tx'[r].document].payment = "CASH"
               /\ tx'[r].op = "CANCEL_EXPENSE" =>
                    /\ tx'[r].document \in 1..Len(expenses)
                    /\ tx'[r].session = NoSession <=> expenses[tx'[r].document].method # "CASH"
    <3>1. CASE r = t
      BY <1>3, <1>4, <3>1 DEF Reads
    <3>2. CASE r # t
      BY <1>2, <1>4, <3>2 DEF TxTrue
    <3> QED
      BY <3>1, <3>2
  <2> QED
    BY <1>5, <2>1 DEF TxTrue
<1> QED
  BY <1>1, <1>4, <1>6, TxStep

-----------------------------------------------------------------------------
(* The steps of the specification.                                         *)

(* The disjuncts of TradeNext.                                             *)
LEMMA InventoryKeeps ==
  ASSUME TradeInv, InventoryStep
  PROVE  TradeInv'
<1>1. AdjustOrTransfer /\ UNCHANGED <<cashVars, documentVars, tx>>
  BY DEF InventoryStep
<1>2. adjustments \in Seq(Adjustment) /\ transfers \in Seq(Transfer) /\ Len(adjustments) \in Nat
      /\ Len(transfers) \in Nat
  BY DEF TradeInv, DocumentsOK
<1>3. CASE \E p \in Place, u \in (-MaxQuantity..MaxQuantity) \ {0} : ConfirmAdjustment(p, u)
  <2>1. PICK p \in Place, u \in (-MaxQuantity..MaxQuantity) \ {0} : ConfirmAdjustment(p, u)
    BY <1>3
  <2>2. u \in Int \ {0} /\ ApplyAdjustment(p, u, 0)
    BY <2>1, StockAssumption DEF ConfirmAdjustment
  <2> QED
    BY <1>1, <2>2, AdjustKeeps
<1>4. CASE \E n \in 1..Len(adjustments) : CompensateAdjustment(n)
  <2>1. PICK n \in 1..Len(adjustments) : CompensateAdjustment(n)
    BY <1>4
  <2>2. PICK a \in Adjustment : a = adjustments[n]
    BY <1>2
  <2>3. ApplyAdjustment(a.place, -a.delta, n)
    BY <2>1, <2>2 DEF CompensateAdjustment
  <2>4. a.place \in Place /\ -a.delta \in Int \ {0} /\ n \in Nat
    BY <1>2, <2>2 DEF Adjustment
  <2> QED
    BY <1>1, <2>3, <2>4, AdjustKeeps
<1>5. CASE \E b, c \in Branch, l \in Lines : ConfirmTransfer(b, c, l)
  <2>1. PICK b \in Branch, c \in Branch, l \in Lines : ConfirmTransfer(b, c, l)
    BY <1>5
  <2>2. ApplyTransfer(b, c, l, 0)
    BY <2>1 DEF ConfirmTransfer
  <2> QED
    BY <1>1, <2>2, TransferKeeps
<1>6. CASE \E n \in 1..Len(transfers) : CompensateTransfer(n)
  <2>1. PICK n \in 1..Len(transfers) : CompensateTransfer(n)
    BY <1>6
  <2>2. PICK a \in Transfer : a = transfers[n]
    BY <1>2
  <2>3. ApplyTransfer(a.destination, a.origin, a.lines, n)
    BY <2>1, <2>2 DEF CompensateTransfer
  <2>4. a.destination \in Branch /\ a.origin \in Branch /\ a.lines \in Lines /\ n \in Nat
    BY <1>2, <2>2 DEF Transfer
  <2> QED
    BY <1>1, <2>3, <2>4, TransferKeeps
<1> QED
  BY <1>1, <1>3, <1>4, <1>5, <1>6 DEF AdjustOrTransfer

LEMMA BeginStepKeeps ==
  ASSUME TradeInv, BeginStep
  PROVE  TradeInv'
<1>1. PICK t \in Tx, s \in Session \cup {NoSession} :
    \/ \E n \in 1..Len(sales) : BeginCancelSale(t, n, s)
    \/ \E n \in 1..Len(purchases) : BeginPayPurchase(t, n, s) \/ BeginCancelPurchase(t, n, s)
    \/ \E n \in 1..Len(expenses) : BeginCancelExpense(t, n, s)
  BY DEF BeginStep
<1>2. Len(sales) \in Nat /\ Len(purchases) \in Nat /\ Len(expenses) \in Nat
  BY DEF TradeInv, DocumentsOK
<1>3. ASSUME NEW n \in 1..Len(sales), BeginCancelSale(t, n, s) PROVE TradeInv'
  <2>1. Begin(t, "CANCEL_SALE", n, s) /\ Reads("CANCEL_SALE", n, s) /\ n \in Nat
    BY <1>2, <1>3 DEF BeginCancelSale, Reads
  <2> QED
    BY <2>1, BeginKeeps
<1>4. ASSUME NEW n \in 1..Len(purchases), BeginPayPurchase(t, n, s) PROVE TradeInv'
  <2>1. Begin(t, "PAY_PURCHASE", n, s) /\ Reads("PAY_PURCHASE", n, s) /\ n \in Nat
    BY <1>2, <1>4 DEF BeginPayPurchase, Reads
  <2> QED
    BY <2>1, BeginKeeps
<1>5. ASSUME NEW n \in 1..Len(purchases), BeginCancelPurchase(t, n, s) PROVE TradeInv'
  <2>1. Begin(t, "CANCEL_PURCHASE", n, s) /\ Reads("CANCEL_PURCHASE", n, s) /\ n \in Nat
    BY <1>2, <1>5 DEF BeginCancelPurchase, Reads
  <2> QED
    BY <2>1, BeginKeeps
<1>6. ASSUME NEW n \in 1..Len(expenses), BeginCancelExpense(t, n, s) PROVE TradeInv'
  <2>1. Begin(t, "CANCEL_EXPENSE", n, s) /\ Reads("CANCEL_EXPENSE", n, s) /\ n \in Nat
    BY <1>2, <1>6 DEF BeginCancelExpense, Reads
  <2> QED
    BY <2>1, BeginKeeps
<1> QED
  BY <1>1, <1>3, <1>4, <1>5, <1>6

LEMMA ConfirmKeeps ==
  ASSUME TradeInv, ConfirmStep \/ ExpenseStep
  PROVE  TradeInv'
<1>1. ASSUME NEW l \in Lines, NEW s \in Session, NEW c \in 0..Units(l),
             ConfirmSale(s, l, c) \/ ImportOfflineSale(s, l, c)
      PROVE  TradeInv'
  BY <1>1, ConfirmSaleKeeps, ImportKeeps
<1>2. ASSUME NEW l \in Lines, NEW b \in Branch, ConfirmPending(b, l) PROVE TradeInv'
  BY <1>2, ConfirmPendingKeeps
<1>3. ASSUME NEW l \in Lines, NEW b \in Branch, NEW s \in Session \cup {NoSession}, PreparePaid(b, l, s)
      PROVE  TradeInv'
  BY <1>3, PreparePaidKeeps
<1>4. ASSUME ExpenseStep PROVE TradeInv'
  BY <1>4, CreateExpenseKeeps DEF ExpenseStep
<1> QED
  BY <1>1, <1>2, <1>3, <1>4 DEF ConfirmStep

(* Every step, and a stutter.                                              *)
LEMMA StepKeeps ==
  ASSUME TradeInv, TradeNext
  PROVE  TradeInv'
<1>1. CASE InventoryStep
  BY <1>1, InventoryKeeps
<1>2. CASE IncidentStep
  BY <1>2, ResolveKeeps DEF IncidentStep
<1>3. CASE SessionStep
  BY <1>3, OpenSessionKeeps, CloseSessionKeeps DEF SessionStep
<1>4. CASE ConfirmStep \/ ExpenseStep
  BY <1>4, ConfirmKeeps
<1>5. CASE BeginStep
  BY <1>5, BeginStepKeeps
<1>6. CASE CommitStep
  BY <1>6, CommitCancelSaleKeeps, CommitPayPurchaseKeeps, CommitCancelPurchaseKeeps,
     CommitCancelExpenseKeeps, RollbackKeeps DEF CommitStep
<1>7. CASE \E b \in Branch : DeactivateBranch(b)
  BY <1>7, DeactivateKeeps
<1> QED
  BY <1>1, <1>2, <1>3, <1>4, <1>5, <1>6, <1>7 DEF TradeNext

LEMMA StutterKeeps ==
  ASSUME TradeInv, UNCHANGED tradeVars
  PROVE  TradeInv'
<1>1. UNCHANGED <<inventoryVars, activeBranches, cashVars, documentVars>> /\ tx' = tx
  BY DEF tradeVars
<1>2. Remembered
  BY <1>1, UnchangedRemembered DEF Remembered, documentVars, inventoryVars
<1>3. TxTrue /\ tx \in [Tx -> Transaction]
  BY DEF TradeInv
<1>4. TxTrue'
  BY <1>1, <1>2, <1>3, TxStaysTrue
<1> QED
  BY <1>1, <1>3, <1>4, TxStep

(* Nothing has happened at the start.                                      *)
LEMMA InitHolds ==
  ASSUME TradeInit
  PROVE  TradeInv
<1>1. /\ quantity = [p \in Place |-> 0] /\ movements = {}
      /\ incident = [p \in Place |-> NoIncident]
      /\ adjustments = <<>> /\ transfers = <<>> /\ activeBranches = Branch
      /\ session = [s \in Session |-> [status |-> "NONE", expected |-> 0]]
      /\ cashMovements = {} /\ sales = <<>> /\ purchases = <<>> /\ expenses = <<>>
      /\ tx = [t \in Tx |-> Idle]
  BY DEF TradeInit, StockInit
<1>2. StockTrue
  <2>1. \A p \in Place : OnPlace(movements, p) = {}
    BY <1>1 DEF OnPlace
  <2>2. NoIncident \in Incident /\ NoIncident.status = "NONE" /\ "NONE" \notin UnderReview
    BY DEF NoIncident, Incident, IncidentStatus, UnderReview
  <2>3. quantity \in Stock /\ incident \in [Place -> Incident] /\ movements \in SUBSET Movement
    BY <1>1, <2>2 DEF Stock
  <2>4. LedgerSound(movements)
    BY <1>1, FS_EmptySet DEF LedgerSound
  <2>5. \A p \in Place : quantity[p] = 0 /\ incident[p].status = "NONE"
    BY <1>1, <2>2
  <2>6. Explained
    BY <2>1, <2>2, <2>5, SumOfNone DEF Explained
  <2>7. ShortageUnderReview
    BY <2>5 DEF ShortageUnderReview
  <2> QED
    BY <2>3, <2>4, <2>6, <2>7 DEF StockTrue
<1>3. CashTrue
  BY <1>1, FS_EmptySet DEF CashTrue, CashSession, SessionStatus
<1>4. DocumentsOK
  BY <1>1 DEF DocumentsOK
<1>5. tx \in [Tx -> Transaction] /\ TxTrue
  BY <1>1 DEF Idle, Transaction, TxTrue
<1>6. SourcesKnown
  BY <1>1 DEF SourcesKnown
<1>7. DocumentsTrue
  BY <1>1 DEF DocumentsTrue
<1>8. InactiveBranchQuiet
  BY <1>1 DEF InactiveBranchQuiet
<1> QED
  BY <1>1, <1>2, <1>3, <1>4, <1>5, <1>6, <1>7, <1>8 DEF TradeInv

(* The invariant everything below follows from.                            *)
THEOREM TradeInvariant == TradeSpec => []TradeInv
<1>1. TradeInit => TradeInv
  BY InitHolds
<1>2. TradeInv /\ [TradeNext]_tradeVars => TradeInv'
  BY StepKeeps, StutterKeeps
<1> QED
  BY <1>1, <1>2, PTL DEF TradeSpec

-----------------------------------------------------------------------------
(* What the invariant says of the two sources of a document together.      *)

(* The cash of a document and of its cancellation is that of both.         *)
LEMMA CashOfBoth ==
  ASSUME CashTrue, NEW a, NEW b, a # b
  PROVE  /\ Paid(a) \in Int /\ Paid(b) \in Int
         /\ Sum({m \in cashMovements : m.source \in {a, b}}) = Paid(a) + Paid(b)
<1>1. ASSUME NEW c
      PROVE  IsFiniteSet(CashPosted(c)) /\ \A m \in CashPosted(c) : m.delta \in Int
  <2>1. CashPosted(c) \in SUBSET cashMovements
    BY DEF CashPosted
  <2>2. \A m \in cashMovements : m.delta \in Int
    BY DEF CashTrue, CashMovement
  <2> QED
    BY <2>1, <2>2, FS_Subset DEF CashTrue
<1>2. Paid(a) \in Int /\ Paid(b) \in Int
  BY <1>1, SumIsInt DEF Paid
<1>3. CashPosted(a) \cap CashPosted(b) = {}
  BY DEF CashPosted
<1>4. {m \in cashMovements : m.source \in {a, b}} = CashPosted(a) \cup CashPosted(b)
  BY DEF CashPosted
<1>5. \A m \in CashPosted(a) \cup CashPosted(b) : m.delta \in Int
  BY <1>1
<1>6. Sum(CashPosted(a) \cup CashPosted(b)) = Sum(CashPosted(a)) + Sum(CashPosted(b))
  BY <1>1, <1>3, <1>5, SumOfBoth
<1> QED
  BY <1>2, <1>4, <1>6 DEF Paid

(* And so are their entries in the stock ledger, stock by stock.           *)
LEMMA MovedByBoth ==
  ASSUME StockTrue, NEW a, NEW b, a # b, NEW p
  PROVE  /\ Moved(a, p) \in Int /\ Moved(b, p) \in Int
         /\ Sum({m \in {o \in movements : o.source \in {a, b}} : m.place = p})
              = Moved(a, p) + Moved(b, p)
<1>1. ASSUME NEW c
      PROVE  IsFiniteSet(Posted(c, p)) /\ \A m \in Posted(c, p) : m.delta \in Int
  <2>1. Posted(c, p) \in SUBSET movements
    BY DEF Posted
  <2>2. \A m \in movements : m.delta \in Int
    BY EntryIs DEF StockTrue
  <2> QED
    BY <2>1, <2>2, FS_Subset DEF StockTrue, LedgerSound
<1>2. Moved(a, p) \in Int /\ Moved(b, p) \in Int
  BY <1>1, SumIsInt DEF Moved
<1>3. Posted(a, p) \cap Posted(b, p) = {}
  BY DEF Posted
<1>4. {m \in {o \in movements : o.source \in {a, b}} : m.place = p} = Posted(a, p) \cup Posted(b, p)
  BY DEF Posted
<1>5. \A m \in Posted(a, p) \cup Posted(b, p) : m.delta \in Int
  BY <1>1
<1>6. Sum(Posted(a, p) \cup Posted(b, p)) = Sum(Posted(a, p)) + Sum(Posted(b, p))
  BY <1>1, <1>3, <1>5, SumOfBoth
<1> QED
  BY <1>2, <1>4, <1>6 DEF Moved

(* The kinds of documents, and what each is called when it is cancelled.   *)
LEMMA Kinds ==
  /\ Cancellation["SALE"] = "SALE_CANCELLATION"
  /\ Cancellation["PURCHASE"] = "PURCHASE_CANCELLATION"
  /\ Cancellation["EXPENSE"] = "EXPENSE_CANCELLATION"
BY DEF Cancellation

(* A sale, as CancelledNetsToZero has it.                                  *)
LEMMA SalesNet ==
  ASSUME TradeInv, NEW n \in 1..Len(sales)
  PROVE  /\ sales[n].cancelled => NetsToZero("SALE", n)
         /\ sales[n].refunded = IF sales[n].cancelled THEN Units(sales[n].lines) ELSE 0
         /\ ~sales[n].cancelled => Sum(CashOf("SALE", n)) = sales[n].cash
<1> DEFINE a == <<"SALE", n>>
           b == <<"SALE_CANCELLATION", n>>
           r == sales[n]
<1>1. StockTrue /\ CashTrue /\ SaleTrue(n) /\ r \in Sale /\ a # b
  BY DEF TradeInv, DocumentsTrue, DocumentsOK
<1>2. r.cash \in Nat /\ r.card \in Nat /\ r.refunded \in Nat
  BY <1>1 DEF Sale
<1>3. Movements("SALE", n) = {m \in movements : m.source \in {a, b}}
      /\ CashOf("SALE", n) = {m \in cashMovements : m.source \in {a, b}}
  BY Kinds DEF Movements, CashOf
<1>4. /\ r.cash + r.card = Units(r.lines)
      /\ r.refunded = IF r.cancelled THEN r.cash + r.card ELSE 0
      /\ r.cancelled => \A p \in Place : Moved(b, p) = -Moved(a, p)
      /\ Paid(a) = r.cash /\ Paid(b) = IF r.cancelled THEN -r.cash ELSE 0
  BY <1>1 DEF SaleTrue
<1> HIDE DEF a, b, r
<1>5. Sum(CashOf("SALE", n)) = Paid(a) + Paid(b)
  BY <1>1, <1>3, CashOfBoth
<1>6. ASSUME r.cancelled, NEW p \in Place
      PROVE  Sum({m \in Movements("SALE", n) : m.place = p}) = 0
  <2>1. /\ Moved(a, p) \in Int /\ Moved(b, p) \in Int
        /\ Sum({m \in {o \in movements : o.source \in {a, b}} : m.place = p})
             = Moved(a, p) + Moved(b, p)
    BY <1>1, MovedByBoth
  <2>2. Moved(b, p) = -Moved(a, p)
    BY <1>4, <1>6
  <2>3. Moved(a, p) + Moved(b, p) = 0
    BY <2>1, <2>2
  <2> QED
    BY <1>3, <2>1, <2>3
<1>7. r.cancelled => Sum(CashOf("SALE", n)) = 0
  BY <1>2, <1>4, <1>5
<1>8. ~r.cancelled => Sum(CashOf("SALE", n)) = r.cash
  BY <1>2, <1>4, <1>5
<1>9. r.refunded = IF r.cancelled THEN Units(r.lines) ELSE 0
  BY <1>4
<1> QED
  BY <1>6, <1>7, <1>8, <1>9 DEF NetsToZero, r

(* A purchase, and an expense.                                             *)
LEMMA PurchasesNet ==
  ASSUME TradeInv, NEW n \in 1..Len(purchases)
  PROVE  IF purchases[n].cancelled
         THEN /\ \A p \in Place : Sum({m \in Movements("PURCHASE", n) : m.place = p}) = 0
              /\ ~purchases[n].paidLate => /\ Sum(CashOf("PURCHASE", n)) = 0
                                           /\ purchases[n].reversal = purchases[n].payment
         ELSE Sum(CashOf("PURCHASE", n)) =
                IF purchases[n].payment = "CASH" THEN -Units(purchases[n].lines) ELSE 0
<1> DEFINE a == <<"PURCHASE", n>>
           b == <<"PURCHASE_CANCELLATION", n>>
           r == purchases[n]
           u == Units(r.lines)
<1>1. StockTrue /\ CashTrue /\ PurchaseTrue(n) /\ r \in Purchase /\ a # b
  BY DEF TradeInv, DocumentsTrue, DocumentsOK
<1>2. u \in Nat
  BY <1>1, UnitsAreNat DEF Purchase
<1>3. Movements("PURCHASE", n) = {m \in movements : m.source \in {a, b}}
      /\ CashOf("PURCHASE", n) = {m \in cashMovements : m.source \in {a, b}}
  BY Kinds DEF Movements, CashOf
<1>4. /\ r.cancelled => \A p \in Place : Moved(b, p) = -Moved(a, p)
      /\ Paid(a) = IF r.payment = "CASH" THEN -u ELSE 0
      /\ Paid(b) = IF r.cancelled /\ r.reversal = "CASH" THEN u ELSE 0
      /\ r.cancelled /\ ~r.paidLate => r.reversal = r.payment
  BY <1>1 DEF PurchaseTrue
<1> HIDE DEF a, b, u, r
<1>5. Sum(CashOf("PURCHASE", n)) = Paid(a) + Paid(b)
  BY <1>1, <1>3, CashOfBoth
<1>6. ASSUME r.cancelled, NEW p \in Place
      PROVE  Sum({m \in Movements("PURCHASE", n) : m.place = p}) = 0
  <2>1. /\ Moved(a, p) \in Int /\ Moved(b, p) \in Int
        /\ Sum({m \in {o \in movements : o.source \in {a, b}} : m.place = p})
             = Moved(a, p) + Moved(b, p)
    BY <1>1, MovedByBoth
  <2>2. Moved(b, p) = -Moved(a, p)
    BY <1>4, <1>6
  <2>3. Moved(a, p) + Moved(b, p) = 0
    BY <2>1, <2>2
  <2> QED
    BY <1>3, <2>1, <2>3
<1>7. r.cancelled /\ ~r.paidLate => Sum(CashOf("PURCHASE", n)) = 0
  BY <1>2, <1>4, <1>5
<1>8. ~r.cancelled => Sum(CashOf("PURCHASE", n)) = IF r.payment = "CASH" THEN -u ELSE 0
  BY <1>2, <1>4, <1>5
<1> QED
  BY <1>4, <1>6, <1>7, <1>8 DEF r, u

LEMMA ExpensesNet ==
  ASSUME TradeInv, NEW n \in 1..Len(expenses), expenses[n].cancelled
  PROVE  NetsToZero("EXPENSE", n)
<1> DEFINE a == <<"EXPENSE", n>>
           b == <<"EXPENSE_CANCELLATION", n>>
           r == expenses[n]
<1>1. CashTrue /\ ExpenseTrue(n) /\ r \in Expense /\ a # b
  BY DEF TradeInv, DocumentsTrue, DocumentsOK
<1>2. CashOf("EXPENSE", n) = {m \in cashMovements : m.source \in {a, b}}
  BY Kinds DEF CashOf
<1>3. Movements("EXPENSE", n) = {}
  <2>1. \A m \in movements : m.source[1] \notin {"EXPENSE", "EXPENSE_CANCELLATION"}
    BY DEF TradeInv, SourcesKnown
  <2> QED
    BY <2>1, Kinds DEF Movements
<1>4. \A p \in Place : Sum({m \in Movements("EXPENSE", n) : m.place = p}) = 0
  <2>1. ASSUME NEW p \in Place PROVE {m \in Movements("EXPENSE", n) : m.place = p} = {}
    BY <1>3
  <2> QED
    BY <2>1, SumOfNone
<1>5. /\ r.amount \in Nat /\ r.cancelled
      /\ Paid(a) = IF r.method = "CASH" THEN -r.amount ELSE 0
      /\ Paid(b) = IF r.cancelled /\ r.method = "CASH" THEN r.amount ELSE 0
  BY <1>1 DEF ExpenseTrue, Expense
<1> HIDE DEF a, b, r
<1>6. Sum(CashOf("EXPENSE", n)) = Paid(a) + Paid(b)
  BY <1>1, <1>2, CashOfBoth
<1>7. Sum(CashOf("EXPENSE", n)) = 0
  BY <1>5, <1>6
<1> QED
  BY <1>4, <1>7 DEF NetsToZero

(***************************************************************************)
(* The theorems.                                                           *)
(***************************************************************************)

(* The projection is the ledger, whatever was bought, sold, cancelled,     *)
(* compensated, moved or sold by a device out of sight; and an incident is *)
(* presented for review only when what was linked to it makes up for the   *)
(* most that was ever missing (inventory_api and its triggers).            *)
THEOREM StockIsItsLedger == TradeSpec => []LedgerExplainsStock
<1>1. TradeInv => LedgerExplainsStock
  <2> SUFFICES ASSUME TradeInv, NEW p \in Place
               PROVE  /\ quantity[p] = Sum({m \in movements : m.place = p})
                      /\ incident[p].status = "PENDING_REVIEW" =>
                           incident[p].shortfall <=
                             Sum({m \in movements : m.place = p /\ m.source \in incident[p].corrections
                                                      /\ m.delta > 0})
    BY DEF LedgerExplainsStock
  <2>1. Explained /\ ShortageUnderReview /\ quantity[p] \in Int /\ incident[p] \in Incident
    BY DEF TradeInv, StockTrue, Stock
  <2>2. quantity[p] = Sum(OnPlace(movements, p))
    BY <2>1 DEF Explained
  <2>3. ASSUME incident[p].status = "PENDING_REVIEW"
        PROVE  incident[p].shortfall <= Sum(LinkedIn(movements, incident[p].corrections, p))
    <3>1. incident[p].status \in UnderReview /\ incident[p].status # "OPEN"
      BY <2>3 DEF UnderReview
    <3>2. quantity[p] >= 0
      BY <2>1, <3>1 DEF ShortageUnderReview
    <3>3. quantity[p] + incident[p].shortfall <= Sum(LinkedIn(movements, incident[p].corrections, p))
      BY <2>1, <3>1 DEF Explained
    <3>4. incident[p].shortfall \in Nat
      BY <2>1 DEF Incident
    <3>5. Sum(LinkedIn(movements, incident[p].corrections, p)) \in Nat
      BY LinkedIsNat DEF TradeInv, StockTrue, LedgerSound
    <3> QED
      BY <2>1, <3>2, <3>3, <3>4, <3>5
  <2> QED
    BY <2>2, <2>3 DEF OnPlace, LinkedIn
<1> QED
  BY <1>1, TradeInvariant, PTL

(* A stock is negative exactly while its incident is open, and the         *)
(* incident says at least how much is missing (apply_offline_sale, which   *)
(* opens it, and link_incident_corrections, which presents it).            *)
THEOREM ShortagesAreReviewed == TradeSpec => []ShortageUnderReview
<1>1. TradeInv => ShortageUnderReview
  BY DEF TradeInv, StockTrue
<1> QED
  BY <1>1, TradeInvariant, PTL

(* What a cancelled sale, purchase or expense moved, in any stock and any  *)
(* cash session, its cancellation moved back, whatever ran between the     *)
(* step that read it and the one that locked it; one that stands has moved *)
(* what it says.                                                           *)
THEOREM CancellationsNetToZero == TradeSpec => []CancelledNetsToZero
<1>1. TradeInv => CancelledNetsToZero
  <2> SUFFICES ASSUME TradeInv PROVE CancelledNetsToZero
    OBVIOUS
  <2> QED
    BY SalesNet, PurchasesNet, ExpensesNet DEF CancelledNetsToZero
<1> QED
  BY <1>1, TradeInvariant, PTL

(* An inactive branch has no active session, and a shortage under review   *)
(* there was sold by a device given up for lost                            *)
(* (BranchDeactivationService.deactivate, guard_branch_deactivation).      *)
THEOREM InactiveBranchesAreQuiet == TradeSpec => []InactiveBranchQuiet
<1>1. TradeInv => InactiveBranchQuiet
  BY DEF TradeInv
<1> QED
  BY <1>1, TradeInvariant, PTL

=============================================================================
