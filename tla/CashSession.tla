---------------------------- MODULE CashSession ----------------------------
(***************************************************************************)
(* The server's cash sessions of one organization: their life cycle, the   *)
(* cash each is expected to hold, the attempts to close one, and what is   *)
(* written down when one is closed.                                        *)
(*                                                                         *)
(* Every command takes the organization row, then the register or the      *)
(* session, FOR UPDATE, so each transaction is one step.  A command that   *)
(* throws, and the replay of a completed one, change nothing: no step.     *)
(* A session's register, device, owner, origin and opening cash never      *)
(* change once its row is written (guard_cash_session_update), so each     *)
(* session identifier stands for one opening that may be requested.        *)
(***************************************************************************)
EXTENDS Integers, Sequences, FiniteSetsExt

CONSTANTS
  Session,      \* identifiers of the cash sessions that may be opened
  Register, Device, Actor,
  Manager,      \* actors with role OWNER, or ADMIN within scope
  Opening,      \* what each session's opening request says
  Amount,       \* amounts of cash
  NoRow,        \* no such row
  MaxOperation, \* bound: operations a device seals
  MaxAttempt,   \* bound: attempts to close
  MaxCash       \* bound: deposits stop when this much is expected

OpeningRequest ==
  [register: Register, device: Device, owner: Actor, origin: {"ONLINE", "OFFLINE"}, cash: Nat]

Closure == [expected: Nat, counted: Nat, by: Actor, attempt: Nat]  \* 0: none
Snapshot == [expected: Nat, received: Nat]

ASSUME CashAssumption ==
  /\ Manager \subseteq Actor
  /\ Opening \in [Session -> OpeningRequest]
  /\ Amount \subseteq Nat \ {0}
  /\ NoRow \notin Nat \cup Closure \cup Snapshot
  /\ MaxOperation \in Nat /\ MaxAttempt \in Nat /\ MaxCash \in Nat

VARIABLES
  status,        \* cash_sessions.status, "NONE" before the row exists
  expected,      \* cash_sessions.expected_cash, the projection
  ledger,        \* sum of the session's cash_movements
  operations,    \* sync_operations of each device, in sequence; all are ACKED
  attempts,      \* cash_close_attempts; an attempt's id is its position
  attempt,       \* close_attempt_id of the session's latest transition, 0 if null
  finals,        \* cash_final_syncs: expected cash, by attempt
  closures,      \* cash_session_closures, by session
  reviews,       \* cash_difference_review_events: who reviewed, by session
  snapshots,     \* cash_exceptional_closures, by session
  recoveries,    \* cash_late_recoveries
  lateReviews,   \* cash_late_reviews: the operation each goes through
  deviceStatus,  \* devices.status
  registers      \* cash registers with status ACTIVE, in an active branch

moneyVars == <<status, expected, ledger>>
closeVars == <<attempts, attempt, finals, closures, reviews>>
exceptionalVars == <<snapshots, recoveries, lateReviews>>
placeVars == <<deviceStatus, registers>>
cashVars == <<moneyVars, operations, closeVars, exceptionalVars, placeVars>>

Active == {"OPEN", "CLOSING", "CONFLICTED"}
Settled == {"CLOSED", "CLOSED_CONFLICT_RESOLVED"}
Unrecovered == "CLOSED_WITH_UNRECOVERED_DEVICE"
SessionStatus == {"NONE", Unrecovered} \cup Active \cup Settled

Sealed == [session: Session, cash: Nat]   \* an opening has cash 0

CashTypeOK ==
  /\ status \in [Session -> SessionStatus]
  /\ expected \in [Session -> Nat]
  /\ ledger \in [Session -> Int]
  /\ operations \in [Device -> Seq(Sealed)]
  /\ attempts \in Seq([session: Session, seq: Nat])
  /\ attempt \in [Session -> Nat]
  /\ finals \in [1..MaxAttempt -> Nat \cup {NoRow}]
  /\ closures \in [Session -> Closure \cup {NoRow}]
  /\ reviews \in [Session -> Actor \cup {NoRow}]
  /\ snapshots \in [Session -> Snapshot \cup {NoRow}]
  /\ recoveries \subseteq [session: Session, seq: Nat, cash: Nat, known: Nat]
  /\ lateReviews \subseteq [session: Session, seq: Nat]
  /\ deviceStatus \in [Device -> {"ACTIVE", "UNRECOVERABLE"}]
  /\ registers \subseteq Register

CashInit ==
  /\ status = [s \in Session |-> "NONE"]
  /\ expected = [s \in Session |-> 0]
  /\ ledger = [s \in Session |-> 0]
  /\ operations = [d \in Device |-> <<>>]
  /\ attempts = <<>>
  /\ attempt = [s \in Session |-> 0]
  /\ finals = [n \in 1..MaxAttempt |-> NoRow]
  /\ closures = [s \in Session |-> NoRow]
  /\ reviews = [s \in Session |-> NoRow]
  /\ snapshots = [s \in Session |-> NoRow]
  /\ recoveries = {}
  /\ lateReviews = {}
  /\ deviceStatus = [d \in Device |-> "ACTIVE"]
  /\ registers = Register

-----------------------------------------------------------------------------
(* Who may act, and where.                                                 *)

DeviceOf(s) == Opening[s].device

(* CashSessionDevicePolicy.requireAuthorizedActor *)
Authorized(a, s) ==
  /\ deviceStatus[DeviceOf(s)] = "ACTIVE"
  /\ a \in Manager \/ a = Opening[s].owner

SessionOperations(s) ==
  {n \in 1..Len(operations[DeviceOf(s)]) : operations[DeviceOf(s)][n].session = s}

(* Mutated form: a session that is closing does not count. *)
OccupiedWhenOpen(s) ==
  \E t \in Session : Opening[t].register = Opening[s].register /\ status[t] \in Active \ {"CLOSING"}

Occupied(s) ==
  \E t \in Session : Opening[t].register = Opening[s].register /\ status[t] \in Active

Insert(s, st) ==
  /\ status' = [status EXCEPT ![s] = st]
  /\ expected' = [expected EXCEPT ![s] = Opening[s].cash]

Record(s, o) ==
  operations' = [operations EXCEPT ![DeviceOf(s)] = Append(@, o)]

(* Mutated form: a withdrawal is not held against what is expected. *)
MoveUnchecked(s, delta, sealed) ==
  /\ ledger' = [ledger EXCEPT ![s] = @ + delta]
  /\ expected' = [expected EXCEPT ![s] = @ + delta]

(* An INSERT into cash_movements and its trigger, apply_cash_movement, *)
(* which checks again what the session accepts.                        *)
Move(s, delta, sealed) ==
  /\ expected[s] + delta >= 0
  /\ status[s] \in {"OPEN", "CONFLICTED"} \cup (IF sealed THEN {Unrecovered} ELSE {})
  /\ ledger' = [ledger EXCEPT ![s] = @ + delta]
  /\ expected' = [expected EXCEPT ![s] = @ + delta]

(* INSERT into cash_session_state_transitions, with or without an attempt. *)
Transition(s, st, n) ==
  /\ status' = [status EXCEPT ![s] = st]
  /\ attempt' = [attempt EXCEPT ![s] = n]

-----------------------------------------------------------------------------
(* Openings and movements.                                                 *)

(* CashOperationsService.open *)
Open(s) ==
  /\ status[s] = "NONE"
  /\ Opening[s].origin = "ONLINE"
  /\ Opening[s].register \in registers
  /\ deviceStatus[DeviceOf(s)] = "ACTIVE"
  /\ ~ Occupied(s)
  /\ Insert(s, "OPEN")
  /\ UNCHANGED <<ledger, operations, closeVars, exceptionalVars, placeVars>>

(* OfflineCashOpeningImporter.apply, in the ingesting transaction *)
ImportOpening(s) ==
  /\ status[s] = "NONE"
  /\ Opening[s].origin = "OFFLINE"
  /\ Len(operations[DeviceOf(s)]) < MaxOperation
  /\ Insert(s, IF Occupied(s) \/ Opening[s].register \notin registers
                 THEN "CONFLICTED" ELSE "OPEN")
  /\ Record(s, [session |-> s, cash |-> 0])
  /\ UNCHANGED <<ledger, closeVars, exceptionalVars, placeVars>>

(* CashOperationsService.recordManual; online sales, refunds, purchases    *)
(* and expenses move cash under the same policy and trigger.               *)
MoveOnline(a, s, delta) ==
  /\ status[s] = "OPEN"
  /\ Authorized(a, s)
  /\ expected[s] + delta <= MaxCash
  /\ Move(s, delta, FALSE)
  /\ UNCHANGED <<status, operations, closeVars, exceptionalVars, placeVars>>

(* Mutated form: a closed session still takes sealed sales. *)
AcceptsHistoryClosed(s) == status[s] \in {"OPEN", "CONFLICTED", "CLOSED", Unrecovered}

AcceptsHistory(s) == status[s] \in {"OPEN", "CONFLICTED", Unrecovered}

(* Mutated form: a late sale without cash leaves no trace. *)
RecoveredCash(s, cash) ==
  recoveries' = IF status[s] = Unrecovered /\ cash # 0
    THEN recoveries \cup {[session |-> s, seq |-> Len(operations[DeviceOf(s)]) + 1,
                           cash |-> cash, known |-> expected'[s]]}
    ELSE recoveries

(* recordLateCashRecovery, after the sale's movement *)
Recovered(s, cash) ==
  recoveries' = IF status[s] = Unrecovered
    THEN recoveries \cup {[session |-> s, seq |-> Len(operations[DeviceOf(s)]) + 1,
                           cash |-> cash, known |-> expected'[s]]}
    ELSE recoveries

(* OfflineSaleImporter.apply, in the ingesting transaction *)
ImportSale(s, cash) ==
  /\ Opening[s].origin = "OFFLINE"
  /\ AcceptsHistory(s)
  /\ Len(operations[DeviceOf(s)]) < MaxOperation
  /\ IF cash = 0 THEN UNCHANGED <<ledger, expected>> ELSE Move(s, cash, TRUE)
  /\ Recovered(s, cash)
  /\ Record(s, [session |-> s, cash |-> cash])
  /\ UNCHANGED <<status, closeVars, snapshots, lateReviews, placeVars>>

-----------------------------------------------------------------------------
(* The normal close: begin, final sync, close or abort.                    *)

(* requireContinuity: the chain received is exactly the one the device     *)
(* signed a checkpoint of.  Chains do not fork (EnvelopeIngestion), so its *)
(* length stands for its head and for the session's own sequence.          *)
Continuity(s, seq) == Len(operations[DeviceOf(s)]) = seq

(* CashCloseService.expected *)
Balanced(s) == expected[s] = Opening[s].cash + ledger[s]

(* Mutated form: any attempt of the session will do. *)
AnyAttempt(s, n) == n \in DOMAIN attempts /\ attempts[n].session = s /\ status[s] = "CLOSING"

(* requireCurrentAttempt *)
CurrentAttempt(s, n) ==
  /\ n \in DOMAIN attempts
  /\ attempts[n].session = s
  /\ status[s] = "CLOSING" /\ attempt[s] = n

BeginClose(a, s, seq) ==
  /\ status[s] = "OPEN"
  /\ Authorized(a, s)
  /\ Continuity(s, seq)
  /\ Len(attempts) < MaxAttempt
  /\ attempts' = Append(attempts, [session |-> s, seq |-> seq])
  /\ Transition(s, "CLOSING", Len(attempts) + 1)
  /\ UNCHANGED <<expected, ledger, operations, finals, closures, reviews, exceptionalVars, placeVars>>

FinalSync(a, s, n) ==
  /\ CurrentAttempt(s, n)
  /\ Authorized(a, s)
  /\ Continuity(s, attempts[n].seq)
  /\ Balanced(s)
  /\ finals[n] = NoRow   \* ON CONFLICT DO NOTHING
  /\ finals' = [finals EXCEPT ![n] = expected[s]]
  /\ UNCHANGED <<moneyVars, operations, attempts, attempt, closures, reviews, exceptionalVars, placeVars>>

(* The request repeats the expected cash its form showed. *)
Close(a, s, n, shown, counted) ==
  /\ CurrentAttempt(s, n)
  /\ Authorized(a, s)
  /\ Continuity(s, attempts[n].seq)
  /\ Balanced(s)
  /\ finals[n] = expected[s] /\ shown = expected[s]
  /\ Transition(s, "CLOSED", n)
  /\ closures' = [closures EXCEPT
       ![s] = [expected |-> expected[s], counted |-> counted, by |-> a, attempt |-> n]]
  /\ UNCHANGED <<expected, ledger, operations, attempts, finals, reviews, exceptionalVars, placeVars>>

(* The OPEN transition has no attempt: old forms become unusable. *)
Abort(a, s, n) ==
  /\ CurrentAttempt(s, n)
  /\ Authorized(a, s)
  /\ Transition(s, "OPEN", 0)
  /\ UNCHANGED <<expected, ledger, operations, attempts, finals, closures, reviews, exceptionalVars, placeVars>>

-----------------------------------------------------------------------------
(* Conflicts, lost devices and reviews.                                    *)

(* CashCloseService.reconcile *)
Reconcile(a, s, seq, counted) ==
  /\ a \in Manager
  /\ Authorized(a, s)
  /\ status[s] = "CONFLICTED"
  /\ Continuity(s, seq)
  /\ Balanced(s)
  /\ Transition(s, "CLOSED_CONFLICT_RESOLVED", 0)
  /\ closures' = [closures EXCEPT
       ![s] = [expected |-> expected[s], counted |-> counted, by |-> a, attempt |-> 0]]
  /\ UNCHANGED <<expected, ledger, operations, attempts, finals, reviews, exceptionalVars, placeVars>>

(* ExceptionalCashCloseService.close *)
ExceptionalClose(a, s) ==
  /\ a \in Manager
  /\ status[s] \in Active
  /\ deviceStatus[DeviceOf(s)] = "UNRECOVERABLE"
  /\ Balanced(s)   \* guard_cash_exceptional_closure
  /\ Transition(s, Unrecovered, 0)
  /\ snapshots' = [snapshots EXCEPT
       ![s] = [expected |-> Opening[s].cash + ledger[s], received |-> Cardinality(SessionOperations(s))]]
  /\ UNCHANGED <<expected, ledger, operations, attempts, finals, closures, reviews, recoveries, lateReviews, placeVars>>

(* The closer reviews their own difference only when nobody else can. *)
MayReview(a, s) == closures[s].by = a => Manager = {a}

(* CashDifferenceReviewService.review *)
ReviewDifference(a, s) ==
  /\ a \in Manager
  /\ closures[s] # NoRow
  /\ closures[s].counted # closures[s].expected
  /\ reviews[s] = NoRow
  /\ MayReview(a, s)
  /\ reviews' = [reviews EXCEPT ![s] = a]
  /\ UNCHANGED <<moneyVars, operations, attempts, attempt, finals, closures, exceptionalVars, placeVars>>

(* LateCashReviewService.review: through the latest recovery, and once. *)
LateReview(a, s, seq) ==
  /\ a \in Manager
  /\ \E r \in recoveries : r.session = s /\ r.seq = seq
  /\ \A r \in recoveries : r.session = s => r.seq <= seq
  /\ [session |-> s, seq |-> seq] \notin lateReviews
  /\ lateReviews' = lateReviews \cup {[session |-> s, seq |-> seq]}
  /\ UNCHANGED <<moneyVars, operations, closeVars, snapshots, recoveries, placeVars>>

(* UnrecoverableDeviceService.declare *)
DeclareUnrecoverable(d) ==
  /\ deviceStatus' = [deviceStatus EXCEPT ![d] = "UNRECOVERABLE"]
  /\ UNCHANGED <<moneyVars, operations, closeVars, exceptionalVars, registers>>

(* CashRegisterManagementService.deactivate: sessions do not prevent it. *)
DeactivateRegister(r) ==
  /\ r \in registers
  /\ registers' = registers \ {r}
  /\ UNCHANGED <<moneyVars, operations, closeVars, exceptionalVars, deviceStatus>>

-----------------------------------------------------------------------------
Movement(s) == \E a \in Actor, c \in Amount : MoveOnline(a, s, c) \/ MoveOnline(a, s, -c)

Arrival(s) == ImportOpening(s) \/ \E c \in Amount \cup {0} : ImportSale(s, c)

NormalClose(s) ==
  \E a \in Actor :
    \/ \E seq \in 0..MaxOperation : BeginClose(a, s, seq)
    \/ \E n \in 1..MaxAttempt :
         \/ FinalSync(a, s, n)
         \/ Abort(a, s, n)
         \/ \E c \in Amount \cup {0} : Close(a, s, n, expected[s], c)

Manage(s) ==
  \E a \in Actor :
    \/ \E seq \in 0..MaxOperation, c \in Amount \cup {0} : Reconcile(a, s, seq, c)
    \/ ExceptionalClose(a, s)
    \/ ReviewDifference(a, s)
    \/ \E seq \in 1..MaxOperation : LateReview(a, s, seq)

CashNext ==
  \/ \E s \in Session : Open(s) \/ Movement(s) \/ Arrival(s) \/ NormalClose(s) \/ Manage(s)
  \/ \E d \in Device : DeclareUnrecoverable(d)
  \/ \E r \in Register : DeactivateRegister(r)

CashSpec == CashInit /\ [][CashNext]_cashVars

-----------------------------------------------------------------------------
(* A register is in the hands of at most one session that is not a        *)
(* conflict, whatever was opened offline meanwhile.  The unique index of  *)
(* migration 0064 is left out: the commands keep this by themselves, so   *)
(* no import ever fails on that index.                                    *)
OneActivePerRegister ==
  \A s, t \in Session :
    /\ {status[s], status[t]} \subseteq {"OPEN", "CLOSING"}
    /\ Opening[s].register = Opening[t].register
    => s = t

(* What a settled session's closure row says stays true: the cash it was  *)
(* closed against is still what the movements add up to, and nothing the  *)
(* device sealed in it is found after the checkpoint it was closed on.    *)
ClosureStillTrue ==
  \A s \in Session : status[s] \in Settled =>
    /\ closures[s] # NoRow
    /\ closures[s].expected = Opening[s].cash + ledger[s]
    /\ closures[s].attempt # 0 =>
         SessionOperations(s) \subseteq 1..attempts[closures[s].attempt].seq

(* A session is only closed by the last attempt begun for it, on the cash *)
(* that attempt's own final sync saw: an attempt that was aborted cannot  *)
(* be completed by a form left open in another tab.                       *)
ClosedByLastAttempt ==
  \A s \in Session : status[s] = "CLOSED" =>
    LET n == closures[s].attempt
    IN  /\ n \in DOMAIN attempts /\ attempts[n].session = s
        /\ finals[n] = closures[s].expected
        /\ \A m \in DOMAIN attempts : attempts[m].session = s => m <= n

RecoveriesOf(s) == {r \in recoveries : r.session = s}

(* For a session closed with its device unrecovered, the snapshot taken   *)
(* and the recoveries marked since account for every operation of the     *)
(* session and for all its cash: nothing that arrives late goes unmarked. *)
LateDataAccounted ==
  \A s \in Session : status[s] = Unrecovered =>
    /\ snapshots[s].received + Cardinality(RecoveriesOf(s)) = Cardinality(SessionOperations(s))
    /\ expected[s] = snapshots[s].expected + MapThenSumSet(LAMBDA r : r.cash, RecoveriesOf(s))
    /\ \A r \in RecoveriesOf(s) :
         r.known = snapshots[s].expected
           + MapThenSumSet(LAMBDA q : q.cash, {q \in RecoveriesOf(s) : q.seq <= r.seq})
=============================================================================
