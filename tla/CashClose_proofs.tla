-------------------------- MODULE CashClose_proofs --------------------------
(***************************************************************************)
(* What holds of the server's cash sessions for every set of sessions,     *)
(* registers, devices and actors and for all amounts of cash, and what     *)
(* holds of closing one from its device.                                   *)
(*                                                                         *)
(* Of the server, three facts strengthen the safety properties into an     *)
(* inductive invariant: the projection of a session's cash always agrees   *)
(* with its movements (Books), the attempt a closing session is in is the  *)
(* last one begun for it (ClosingByLastAttempt), and a closure row names   *)
(* an attempt that exists (ClosureAttempts).  What arrives late for a      *)
(* session closed without its device is counted and added up; LateInv is   *)
(* the invariant of that.                                                  *)
(*                                                                         *)
(* Of the device and its page: the page knows of every attempt that is     *)
(* begun (PageTrue), a checkpoint that is kept covers all that is sealed   *)
(* (DeviceTrue), and so does the attempt the server is in (ServerTrue).    *)
(***************************************************************************)
EXTENDS CashClose, Sums_proofs

-----------------------------------------------------------------------------
(* The server's cash sessions, alone.                                      *)

Books ==
  \A s \in Session :
    IF status[s] = "NONE" THEN ledger[s] = 0 ELSE Balanced(s)

LastOf(s, n) ==
  /\ n \in DOMAIN attempts /\ attempts[n].session = s
  /\ \A m \in DOMAIN attempts : attempts[m].session = s => m <= n

ClosingByLastAttempt ==
  \A s \in Session : status[s] = "CLOSING" => LastOf(s, attempt[s])

ClosureAttempts ==
  \A s \in Session : status[s] \in Settled =>
    closures[s] \in Closure /\ closures[s].attempt \in {0} \cup DOMAIN attempts

CashInv ==
  /\ CashTypeOK
  /\ Books
  /\ OneActivePerRegister
  /\ ClosureStillTrue
  /\ ClosingByLastAttempt
  /\ ClosureAttempts
  /\ ClosedByLastAttempt

-----------------------------------------------------------------------------
LEMMA OpeningFields ==
  ASSUME NEW s \in Session
  PROVE  /\ DeviceOf(s) \in Device
         /\ Opening[s].register \in Register
         /\ Opening[s].cash \in Nat
BY CashAssumption DEF DeviceOf, OpeningRequest

LEMMA InitInv == CashInit => CashInv
<1> SUFFICES ASSUME CashInit PROVE CashInv
  OBVIOUS
<1> USE DEF CashInit
<1>1. CashTypeOK
  BY CashAssumption DEF CashTypeOK, SessionStatus
<1>2. Books /\ OneActivePerRegister /\ ClosureStillTrue /\ ClosingByLastAttempt
      /\ ClosureAttempts /\ ClosedByLastAttempt
  BY DEF Books, OneActivePerRegister, ClosureStillTrue, ClosingByLastAttempt, ClosureAttempts,
         ClosedByLastAttempt, Settled
<1> QED
  BY <1>1, <1>2 DEF CashInv

-----------------------------------------------------------------------------
(* Everything but the types is about these variables. *)
LEMMA Frame ==
  ASSUME CashInv, CashTypeOK', UNCHANGED <<moneyVars, operations, attempts, attempt, finals, closures>>
  PROVE  CashInv'
<1>1. Books' /\ OneActivePerRegister' /\ ClosureStillTrue'
  BY DEF CashInv, Books, Balanced, OneActivePerRegister, ClosureStillTrue, SessionOperations, moneyVars
<1>2. ClosingByLastAttempt' /\ ClosureAttempts' /\ ClosedByLastAttempt'
  BY DEF CashInv, ClosingByLastAttempt, LastOf, ClosureAttempts, ClosedByLastAttempt, moneyVars
<1> QED
  BY <1>1, <1>2 DEF CashInv

(* An operation sealed in s is in no other session's chain. *)
LEMMA RecordElsewhere ==
  ASSUME CashTypeOK, NEW s \in Session, NEW t \in Session, t # s,
         NEW o \in Sealed, o.session = s, Record(s, o)
  PROVE  SessionOperations(t)' = SessionOperations(t)
<1> DEFINE d == DeviceOf(t)
<1>1. d \in Device /\ DeviceOf(s) \in Device
  BY OpeningFields
<1>2. operations \in [Device -> Seq(Sealed)]
  BY DEF CashTypeOK
<1>3. CASE d # DeviceOf(s)
  <2>1. operations'[d] = operations[d]
    BY <1>1, <1>2, <1>3 DEF Record
  <2> QED
    BY <2>1 DEF SessionOperations, DeviceOf
<1>4. CASE d = DeviceOf(s)
  <2>1. operations'[d] = Append(operations[d], o)
    BY <1>1, <1>2, <1>4 DEF Record
  <2>2. operations[d] \in Seq(Sealed)
    BY <1>1, <1>2
  <2>3. /\ Len(operations'[d]) = Len(operations[d]) + 1
        /\ \A n \in 1..Len(operations[d]) : operations'[d][n] = operations[d][n]
        /\ operations'[d][Len(operations[d]) + 1] = o
    BY <2>1, <2>2
  <2> QED
    BY SMTT(20), <2>2, <2>3 DEF SessionOperations, DeviceOf
<1> QED
  BY <1>3, <1>4

(* A session that is not settled before or after a step, and whose own     *)
(* cash, closure and operations are all that the step changes.             *)
LEMMA OthersStaySettled ==
  ASSUME CashInv, NEW s \in Session, status[s] \notin Settled,
         UNCHANGED <<attempts, finals>>,
         \A t \in Session \ {s} :
           /\ status'[t] = status[t] /\ ledger'[t] = ledger[t]
           /\ closures'[t] = closures[t] /\ SessionOperations(t)' = SessionOperations(t),
         status'[s] \notin Settled
  PROVE  ClosureStillTrue' /\ ClosureAttempts' /\ ClosedByLastAttempt'
BY DEF CashInv, ClosureStillTrue, ClosureAttempts, ClosedByLastAttempt, Settled

-----------------------------------------------------------------------------
(* Openings.                                                               *)

LEMMA OpenPreservesInv ==
  ASSUME CashInv, NEW s \in Session, Open(s)
  PROVE  CashInv'
<1> USE DEF Open, Insert
<1>1. CashTypeOK'
  BY OpeningFields DEF CashInv, CashTypeOK, SessionStatus, Active, closeVars, exceptionalVars, placeVars
<1>2. Books'
  BY OpeningFields DEF CashInv, CashTypeOK, Books, Balanced
<1>3. OneActivePerRegister'
  BY DEF CashInv, CashTypeOK, OneActivePerRegister, Occupied, Active
<1>4. ClosureStillTrue' /\ ClosureAttempts' /\ ClosedByLastAttempt'
  <2>1. status[s] \notin Settled /\ status'[s] \notin Settled
    BY DEF CashInv, CashTypeOK, Settled
  <2>2. UNCHANGED <<attempts, finals, closures, operations, ledger>>
    BY DEF closeVars
  <2>3. \A u \in Session \ {s} : status'[u] = status[u]
    BY DEF CashInv, CashTypeOK
  <2>4. \A u \in Session : SessionOperations(u)' = SessionOperations(u)
    BY <2>2 DEF SessionOperations
  <2> QED
    BY <2>1, <2>2, <2>3, <2>4, OthersStaySettled
<1>5. ClosingByLastAttempt'
  BY DEF CashInv, CashTypeOK, ClosingByLastAttempt, LastOf, closeVars
<1> QED
  BY <1>1, <1>2, <1>3, <1>4, <1>5 DEF CashInv

LEMMA ImportOpeningPreservesInv ==
  ASSUME CashInv, NEW s \in Session, ImportOpening(s)
  PROVE  CashInv'
<1> DEFINE o == [session |-> s, cash |-> 0]
<1>1. o \in Sealed /\ o.session = s /\ Record(s, o)
  BY DEF ImportOpening, Sealed
<1>2. /\ status[s] = "NONE"
      /\ status'[s] \in {"OPEN", "CONFLICTED"}
      /\ status'[s] = "OPEN" => ~ Occupied(s)
      /\ status' = [status EXCEPT ![s] = status'[s]]
      /\ expected' = [expected EXCEPT ![s] = Opening[s].cash]
      /\ UNCHANGED <<ledger, closeVars, exceptionalVars, placeVars>>
  BY DEF ImportOpening, Insert, CashInv, CashTypeOK
<1>3. CashTypeOK'
  <2>1. operations' \in [Device -> Seq(Sealed)]
    BY <1>1, OpeningFields DEF Record, CashInv, CashTypeOK
  <2> QED
    BY <1>2, <2>1, OpeningFields
       DEF CashInv, CashTypeOK, SessionStatus, Active, closeVars, exceptionalVars, placeVars
<1>4. Books'
  BY SMTT(20), <1>2, OpeningFields DEF CashInv, CashTypeOK, Books, Balanced
<1>5. OneActivePerRegister'
  <2>1. \A u \in Session \ {s} : status'[u] = status[u]
    BY <1>2 DEF CashInv, CashTypeOK
  <2>2. CASE status'[s] = "OPEN"
    <3>1. \A u \in Session : Opening[u].register = Opening[s].register
                             => status[u] \notin {"OPEN", "CLOSING"}
      BY <1>2, <2>2 DEF Occupied, Active
    <3> QED
      BY <2>1, <3>1 DEF CashInv, OneActivePerRegister
  <2>3. CASE status'[s] = "CONFLICTED"
    BY <2>1, <2>3 DEF CashInv, OneActivePerRegister
  <2> QED
    BY <1>2, <2>2, <2>3
<1>6. ClosureStillTrue' /\ ClosureAttempts' /\ ClosedByLastAttempt'
  <2>1. status[s] \notin Settled /\ status'[s] \notin Settled
    BY <1>2 DEF Settled
  <2>2. \A u \in Session \ {s} :
          /\ status'[u] = status[u] /\ ledger'[u] = ledger[u] /\ closures'[u] = closures[u]
          /\ SessionOperations(u)' = SessionOperations(u)
    BY <1>1, <1>2, RecordElsewhere DEF CashInv, CashTypeOK, closeVars
  <2> QED
    BY <1>2, <2>1, <2>2, OthersStaySettled DEF closeVars
<1>7. ClosingByLastAttempt'
  BY <1>2 DEF CashInv, CashTypeOK, ClosingByLastAttempt, LastOf, closeVars
<1> QED
  BY <1>3, <1>4, <1>5, <1>6, <1>7 DEF CashInv

-----------------------------------------------------------------------------
(* Movements of cash.                                                      *)

LEMMA MoveKeepsBooks ==
  ASSUME CashInv, NEW s \in Session, NEW delta \in Int, NEW isSealed, Move(s, delta, isSealed),
         UNCHANGED status
  PROVE  /\ expected' \in [Session -> Nat] /\ ledger' \in [Session -> Int]
         /\ \A u \in Session \ {s} : ledger'[u] = ledger[u]
         /\ Books'
<1>1. expected[s] + delta \in Nat /\ ledger[s] + delta \in Int
  BY DEF Move, CashInv, CashTypeOK
<1>2. expected' \in [Session -> Nat] /\ ledger' \in [Session -> Int]
  BY <1>1 DEF Move, CashInv, CashTypeOK
<1>3. status[s] # "NONE"
  BY DEF Move, Unrecovered
<1>4. Books'
  BY SMTT(20), <1>2, <1>3, OpeningFields DEF Move, CashInv, CashTypeOK, Books, Balanced
<1> QED
  BY <1>2, <1>4 DEF Move, CashInv, CashTypeOK

LEMMA MoveOnlinePreservesInv ==
  ASSUME CashInv, NEW a \in Actor, NEW s \in Session, NEW delta \in Int, MoveOnline(a, s, delta)
  PROVE  CashInv'
<1>1. /\ status[s] = "OPEN" /\ Move(s, delta, FALSE)
      /\ UNCHANGED <<status, operations, closeVars, exceptionalVars, placeVars>>
  BY DEF MoveOnline
<1>2. /\ expected' \in [Session -> Nat] /\ ledger' \in [Session -> Int]
      /\ \A u \in Session \ {s} : ledger'[u] = ledger[u]
      /\ Books'
  BY <1>1, MoveKeepsBooks
<1>3. CashTypeOK'
  BY <1>1, <1>2 DEF CashInv, CashTypeOK, closeVars, exceptionalVars, placeVars
<1>4. OneActivePerRegister' /\ ClosingByLastAttempt'
  BY <1>1 DEF CashInv, OneActivePerRegister, ClosingByLastAttempt, LastOf, closeVars
<1>5. ClosureStillTrue' /\ ClosureAttempts' /\ ClosedByLastAttempt'
  <2>1. \A u \in Session : SessionOperations(u)' = SessionOperations(u)
    BY <1>1 DEF SessionOperations
  <2> QED
    BY <1>1, <1>2, <2>1, OthersStaySettled DEF closeVars, Settled
<1> QED
  BY <1>2, <1>3, <1>4, <1>5 DEF CashInv

LEMMA ImportSalePreservesInv ==
  ASSUME CashInv, NEW s \in Session, NEW cash \in Nat, ImportSale(s, cash)
  PROVE  CashInv'
<1> DEFINE o == [session |-> s, cash |-> cash]
<1>1. o \in Sealed /\ o.session = s /\ Record(s, o)
  BY DEF ImportSale, Sealed
<1>2. /\ AcceptsHistory(s) /\ Recovered(s, cash)
      /\ cash = 0 => UNCHANGED <<ledger, expected>>
      /\ cash # 0 => Move(s, cash, TRUE)
      /\ UNCHANGED <<status, closeVars, snapshots, lateReviews, placeVars>>
  BY DEF ImportSale
<1>3. /\ expected' \in [Session -> Nat] /\ ledger' \in [Session -> Int]
      /\ \A u \in Session \ {s} : ledger'[u] = ledger[u]
      /\ Books'
  <2>1. CASE cash = 0
    BY <1>2, <2>1 DEF CashInv, CashTypeOK, Books, Balanced
  <2>2. CASE cash # 0
    <3>1. cash \in Int
      OBVIOUS
    <3> QED
      BY <1>2, <2>2, <3>1, MoveKeepsBooks
  <2> QED
    BY <2>1, <2>2
<1>4. CashTypeOK'
  <2>1. operations' \in [Device -> Seq(Sealed)]
    BY <1>1, OpeningFields DEF Record, CashInv, CashTypeOK
  <2>2. Len(operations[DeviceOf(s)]) + 1 \in Nat /\ expected'[s] \in Nat
    BY <1>3, OpeningFields DEF CashInv, CashTypeOK
  <2>3. recoveries' \subseteq [session: Session, seq: Nat, cash: Nat, known: Nat]
    BY <1>2, <2>2 DEF Recovered, CashInv, CashTypeOK
  <2> QED
    BY <1>2, <1>3, <2>1, <2>3 DEF CashInv, CashTypeOK, closeVars, placeVars
<1>5. OneActivePerRegister' /\ ClosingByLastAttempt'
  BY <1>2 DEF CashInv, OneActivePerRegister, ClosingByLastAttempt, LastOf, closeVars
<1>6. ClosureStillTrue' /\ ClosureAttempts' /\ ClosedByLastAttempt'
  <2>1. status[s] \notin Settled
    BY <1>2 DEF AcceptsHistory, Unrecovered, Settled
  <2>2. \A u \in Session \ {s} : SessionOperations(u)' = SessionOperations(u)
    BY <1>1, RecordElsewhere DEF CashInv
  <2> QED
    BY <1>2, <1>3, <2>1, <2>2, OthersStaySettled DEF closeVars
<1> QED
  BY <1>3, <1>4, <1>5, <1>6 DEF CashInv

-----------------------------------------------------------------------------
(* The normal close.                                                       *)

LEMMA TransitionFrame ==
  ASSUME CashTypeOK, NEW s \in Session, NEW st, NEW n, Transition(s, st, n)
  PROVE  /\ status'[s] = st /\ attempt'[s] = n
         /\ \A u \in Session \ {s} : status'[u] = status[u] /\ attempt'[u] = attempt[u]
BY DEF Transition, CashTypeOK

LEMMA BeginClosePreservesInv ==
  ASSUME CashInv, NEW a \in Actor, NEW s \in Session, NEW seq \in Nat, BeginClose(a, s, seq)
  PROVE  CashInv'
<1> DEFINE N == Len(attempts) + 1
           r == [session |-> s, seq |-> seq]
<1>1. /\ status[s] = "OPEN" /\ attempts' = Append(attempts, r) /\ Transition(s, "CLOSING", N)
      /\ UNCHANGED <<expected, ledger, operations, finals, closures, reviews, exceptionalVars, placeVars>>
  BY DEF BeginClose
<1>2. /\ status'[s] = "CLOSING" /\ attempt'[s] = N
      /\ \A u \in Session \ {s} : status'[u] = status[u] /\ attempt'[u] = attempt[u]
  BY <1>1, TransitionFrame DEF CashInv
<1>3. /\ attempts \in Seq([session: Session, seq: Nat]) /\ N \in Nat
      /\ attempts' \in Seq([session: Session, seq: Nat])
      /\ DOMAIN attempts = 1..(N - 1) /\ DOMAIN attempts' = 1..N
      /\ \A m \in DOMAIN attempts : attempts'[m] = attempts[m]
      /\ attempts'[N] = r
  BY SMTT(20), <1>1 DEF CashInv, CashTypeOK
<1>4. CashTypeOK'
  BY <1>1, <1>3 DEF Transition, CashInv, CashTypeOK, SessionStatus, Active, exceptionalVars, placeVars
<1>5. Books'
  BY <1>1, <1>2 DEF CashInv, Books, Balanced
<1>6. OneActivePerRegister'
  BY <1>1, <1>2 DEF CashInv, OneActivePerRegister
<1>7. ClosureStillTrue' /\ ClosureAttempts'
  <2> SUFFICES ASSUME NEW u \in Session, status'[u] \in Settled
               PROVE  /\ closures'[u] # NoRow /\ closures'[u].expected = Opening[u].cash + ledger'[u]
                      /\ closures'[u].attempt # 0 =>
                           SessionOperations(u)' \subseteq 1..attempts'[closures'[u].attempt].seq
                      /\ closures'[u] \in Closure /\ closures'[u].attempt \in {0} \cup DOMAIN attempts'
    BY DEF ClosureStillTrue, ClosureAttempts
  <2>1. u # s /\ status[u] \in Settled
    BY <1>2 DEF Settled
  <2>2. SessionOperations(u)' = SessionOperations(u)
    BY <1>1 DEF SessionOperations
  <2> QED
    BY <1>1, <1>3, <2>1, <2>2 DEF CashInv, ClosureStillTrue, ClosureAttempts
<1>8. ClosingByLastAttempt'
  <2> SUFFICES ASSUME NEW u \in Session, status'[u] = "CLOSING"
               PROVE  LastOf(u, attempt[u])'
    BY DEF ClosingByLastAttempt
  <2>1. CASE u = s
    BY <1>2, <1>3, <2>1 DEF LastOf
  <2>2. CASE u # s
    <3>1. LastOf(u, attempt[u])
      BY <1>2, <2>2 DEF CashInv, ClosingByLastAttempt
    <3>2. attempt'[u] = attempt[u]
      BY <1>2, <2>2
    <3>3. \A m \in DOMAIN attempts' : attempts'[m].session = u => m \in DOMAIN attempts
      BY <1>3, <2>2
    <3> QED
      BY <1>3, <3>1, <3>2, <3>3 DEF LastOf
  <2> QED
    BY <2>1, <2>2
<1>9. ClosedByLastAttempt'
  <2> SUFFICES ASSUME NEW u \in Session, status'[u] = "CLOSED"
               PROVE  /\ LastOf(u, closures[u].attempt)'
                      /\ finals'[closures'[u].attempt] = closures'[u].expected
    BY DEF ClosedByLastAttempt, LastOf
  <2>1. u # s /\ status[u] = "CLOSED"
    BY <1>2
  <2>2. LastOf(u, closures[u].attempt) /\ finals[closures[u].attempt] = closures[u].expected
    BY <2>1 DEF CashInv, ClosedByLastAttempt, LastOf
  <2> QED
    BY <1>1, <1>3, <2>1, <2>2 DEF LastOf
<1> QED
  BY <1>4, <1>5, <1>6, <1>7, <1>8, <1>9 DEF CashInv

LEMMA FinalSyncPreservesInv ==
  ASSUME CashInv, NEW a \in Actor, NEW s \in Session, NEW n \in 1..MaxAttempt, FinalSync(a, s, n)
  PROVE  CashInv'
<1>1. /\ status[s] = "CLOSING" /\ n \in DOMAIN attempts /\ attempts[n].session = s
      /\ finals' = [finals EXCEPT ![n] = expected[s]]
      /\ UNCHANGED <<moneyVars, operations, attempts, attempt, closures, reviews, exceptionalVars, placeVars>>
  BY DEF FinalSync, CurrentAttempt
<1>2. finals' \in [1..MaxAttempt -> Nat \cup {NoRow}]
  BY <1>1 DEF CashInv, CashTypeOK
<1>3. CashTypeOK'
  BY <1>1, <1>2 DEF CashInv, CashTypeOK, moneyVars, exceptionalVars, placeVars
<1>4. Books' /\ OneActivePerRegister' /\ ClosureStillTrue'
  BY <1>1 DEF CashInv, Books, Balanced, OneActivePerRegister, ClosureStillTrue, SessionOperations, moneyVars
<1>5. ClosingByLastAttempt' /\ ClosureAttempts'
  BY <1>1 DEF CashInv, ClosingByLastAttempt, LastOf, ClosureAttempts, moneyVars
<1>6. ClosedByLastAttempt'
  <2> SUFFICES ASSUME NEW u \in Session, status[u] = "CLOSED"
               PROVE  finals'[closures[u].attempt] = finals[closures[u].attempt]
    BY <1>1 DEF CashInv, ClosedByLastAttempt, moneyVars
  <2>1. attempts[closures[u].attempt].session = u
    BY DEF CashInv, ClosedByLastAttempt
  <2>2. closures[u].attempt # n
    BY <1>1, <2>1
  <2> QED
    BY <1>1, <2>2 DEF CashInv, CashTypeOK
<1> QED
  BY <1>3, <1>4, <1>5, <1>6 DEF CashInv

(* Leaving CLOSING, OPEN or CONFLICTED without a closure row. *)
LEMMA LeavePreservesInv ==
  ASSUME CashInv, NEW s \in Session, NEW st \in {"OPEN", Unrecovered},
         status[s] \in Active, st = "OPEN" => status[s] = "CLOSING",
         Transition(s, st, 0),
         UNCHANGED <<expected, ledger, operations, attempts, finals, closures>>
  PROVE  /\ status' \in [Session -> SessionStatus] /\ attempt' \in [Session -> Nat]
         /\ Books' /\ OneActivePerRegister' /\ ClosureStillTrue'
         /\ ClosingByLastAttempt' /\ ClosureAttempts' /\ ClosedByLastAttempt'
<1>1. /\ status'[s] = st
      /\ \A u \in Session \ {s} : status'[u] = status[u] /\ attempt'[u] = attempt[u]
  BY TransitionFrame DEF CashInv
<1>2. status' \in [Session -> SessionStatus] /\ attempt' \in [Session -> Nat]
  BY DEF Transition, CashInv, CashTypeOK, SessionStatus, Active
<1>3. Books'
  BY <1>1 DEF CashInv, Books, Balanced, Active, Unrecovered
<1>4. OneActivePerRegister'
  BY <1>1 DEF CashInv, OneActivePerRegister, Unrecovered
<1>5. ClosureStillTrue' /\ ClosureAttempts' /\ ClosedByLastAttempt'
  <2>1. status[s] \notin Settled /\ status'[s] \notin Settled
    BY <1>1 DEF Active, Settled, Unrecovered
  <2>2. \A u \in Session : SessionOperations(u)' = SessionOperations(u)
    BY DEF SessionOperations
  <2> QED
    BY <1>1, <2>1, <2>2, OthersStaySettled
<1>6. ClosingByLastAttempt'
  BY <1>1 DEF CashInv, ClosingByLastAttempt, LastOf, Unrecovered
<1> QED
  BY <1>2, <1>3, <1>4, <1>5, <1>6

LEMMA AbortPreservesInv ==
  ASSUME CashInv, NEW a \in Actor, NEW s \in Session, NEW n \in 1..MaxAttempt, Abort(a, s, n)
  PROVE  CashInv'
<1>1. /\ status[s] = "CLOSING" /\ Transition(s, "OPEN", 0)
      /\ UNCHANGED <<expected, ledger, operations, attempts, finals, closures, reviews, exceptionalVars, placeVars>>
  BY DEF Abort, CurrentAttempt
<1>2. /\ status' \in [Session -> SessionStatus] /\ attempt' \in [Session -> Nat]
      /\ Books' /\ OneActivePerRegister' /\ ClosureStillTrue'
      /\ ClosingByLastAttempt' /\ ClosureAttempts' /\ ClosedByLastAttempt'
  BY <1>1, LeavePreservesInv DEF Active
<1>3. CashTypeOK'
  BY <1>1, <1>2 DEF CashInv, CashTypeOK, exceptionalVars, placeVars
<1> QED
  BY <1>2, <1>3 DEF CashInv

LEMMA ExceptionalClosePreservesInv ==
  ASSUME CashInv, NEW a \in Actor, NEW s \in Session, ExceptionalClose(a, s)
  PROVE  CashInv'
<1> DEFINE snap == [expected |-> Opening[s].cash + ledger[s],
                    received |-> Cardinality(SessionOperations(s))]
<1>1. /\ status[s] \in Active /\ Balanced(s) /\ Transition(s, Unrecovered, 0)
      /\ snapshots' = [snapshots EXCEPT ![s] = snap]
      /\ UNCHANGED <<expected, ledger, operations, attempts, finals, closures, reviews, recoveries,
                     lateReviews, placeVars>>
  BY DEF ExceptionalClose
<1>2. /\ status' \in [Session -> SessionStatus] /\ attempt' \in [Session -> Nat]
      /\ Books' /\ OneActivePerRegister' /\ ClosureStillTrue'
      /\ ClosingByLastAttempt' /\ ClosureAttempts' /\ ClosedByLastAttempt'
  BY <1>1, LeavePreservesInv DEF Unrecovered
<1>3. snap \in Snapshot
  <2>1. Cardinality(SessionOperations(s)) \in Nat
    <3>1. Len(operations[DeviceOf(s)]) \in Nat
      BY OpeningFields DEF CashInv, CashTypeOK
    <3>2. IsFiniteSet(1..Len(operations[DeviceOf(s)]))
      BY <3>1, FS_Interval
    <3> QED
      BY <3>2, FS_Subset, FS_CardinalityType DEF SessionOperations
  <2>2. snap.expected = expected[s] /\ expected[s] \in Nat
    BY <1>1 DEF Balanced, CashInv, CashTypeOK
  <2> QED
    BY <2>1, <2>2 DEF Snapshot
<1>4. CashTypeOK'
  BY <1>1, <1>2, <1>3 DEF CashInv, CashTypeOK, placeVars
<1> QED
  BY <1>2, <1>4 DEF CashInv

(* A closure row is written with the transition that settles its session. *)
LEMMA SettlePreservesInv ==
  ASSUME CashInv, NEW a \in Actor, NEW s \in Session, NEW st \in Settled, NEW n \in Nat,
         NEW counted \in Nat,
         Balanced(s), Transition(s, st, n),
         closures' = [closures EXCEPT
           ![s] = [expected |-> expected[s], counted |-> counted, by |-> a, attempt |-> n]],
         UNCHANGED <<expected, ledger, operations, attempts, finals>>,
         n = 0 \/ /\ LastOf(s, n) /\ finals[n] = expected[s]
                  /\ SessionOperations(s) \subseteq 1..attempts[n].seq,
         st = "CLOSED" => n # 0,
         status[s] \in Active
  PROVE  /\ status' \in [Session -> SessionStatus] /\ attempt' \in [Session -> Nat]
         /\ closures' \in [Session -> Closure \cup {NoRow}]
         /\ Books' /\ OneActivePerRegister' /\ ClosureStillTrue'
         /\ ClosingByLastAttempt' /\ ClosureAttempts' /\ ClosedByLastAttempt'
<1> DEFINE c == [expected |-> expected[s], counted |-> counted, by |-> a, attempt |-> n]
<1>1. /\ status'[s] = st
      /\ \A u \in Session \ {s} : status'[u] = status[u] /\ attempt'[u] = attempt[u]
  BY TransitionFrame DEF CashInv
<1>2. status' \in [Session -> SessionStatus] /\ attempt' \in [Session -> Nat]
  BY DEF Transition, CashInv, CashTypeOK, SessionStatus
<1>3. c \in Closure /\ c # NoRow
  BY CashAssumption DEF CashInv, CashTypeOK, Closure
<1>4. /\ closures' \in [Session -> Closure \cup {NoRow}] /\ closures'[s] = c
      /\ \A u \in Session \ {s} : closures'[u] = closures[u]
  BY <1>3 DEF CashInv, CashTypeOK
<1>5. Books'
  BY <1>1 DEF CashInv, Books, Balanced, Settled
<1>6. OneActivePerRegister' /\ ClosingByLastAttempt'
  BY <1>1 DEF CashInv, OneActivePerRegister, ClosingByLastAttempt, LastOf, Settled
<1>7. \A u \in Session : SessionOperations(u)' = SessionOperations(u)
  BY DEF SessionOperations
<1>8. ClosureStillTrue'
  BY <1>1, <1>3, <1>4, <1>7 DEF CashInv, ClosureStillTrue, Balanced
<1>9. ClosureAttempts'
  BY <1>1, <1>3, <1>4 DEF CashInv, ClosureAttempts, LastOf
<1>10. ClosedByLastAttempt'
  BY <1>1, <1>4 DEF CashInv, ClosedByLastAttempt, LastOf
<1> QED
  BY <1>2, <1>4, <1>5, <1>6, <1>8, <1>9, <1>10

LEMMA ClosePreservesInv ==
  ASSUME CashInv, NEW a \in Actor, NEW s \in Session, NEW n \in 1..MaxAttempt, NEW shown,
         NEW counted \in Nat, Close(a, s, n, shown, counted)
  PROVE  CashInv'
<1>1. /\ status[s] = "CLOSING" /\ n \in DOMAIN attempts /\ attempt[s] = n
      /\ Continuity(s, attempts[n].seq) /\ Balanced(s) /\ finals[n] = expected[s]
      /\ Transition(s, "CLOSED", n)
      /\ closures' = [closures EXCEPT
           ![s] = [expected |-> expected[s], counted |-> counted, by |-> a, attempt |-> n]]
      /\ UNCHANGED <<expected, ledger, operations, attempts, finals, reviews, exceptionalVars, placeVars>>
  BY DEF Close, CurrentAttempt
<1>2. LastOf(s, n)
  BY <1>1 DEF CashInv, ClosingByLastAttempt
<1>3. SessionOperations(s) \subseteq 1..attempts[n].seq
  BY <1>1 DEF Continuity, SessionOperations
<1>4. /\ status' \in [Session -> SessionStatus] /\ attempt' \in [Session -> Nat]
      /\ closures' \in [Session -> Closure \cup {NoRow}]
      /\ Books' /\ OneActivePerRegister' /\ ClosureStillTrue'
      /\ ClosingByLastAttempt' /\ ClosureAttempts' /\ ClosedByLastAttempt'
  <2>1. n \in Nat /\ n # 0 /\ "CLOSED" \in Settled /\ status[s] \in Active
    BY <1>1 DEF Settled, Active
  <2> QED
    BY <1>1, <1>2, <1>3, <2>1, SettlePreservesInv
<1>5. CashTypeOK'
  BY <1>1, <1>4 DEF CashInv, CashTypeOK, exceptionalVars, placeVars
<1> QED
  BY <1>4, <1>5 DEF CashInv

-----------------------------------------------------------------------------
(* Conflicts, lost devices, reviews and places.                            *)

LEMMA ReconcilePreservesInv ==
  ASSUME CashInv, NEW a \in Actor, NEW s \in Session, NEW seq, NEW counted \in Nat,
         Reconcile(a, s, seq, counted)
  PROVE  CashInv'
<1> DEFINE st == "CLOSED_CONFLICT_RESOLVED"
<1>1. /\ status[s] = "CONFLICTED" /\ Balanced(s) /\ Transition(s, st, 0)
      /\ closures' = [closures EXCEPT
           ![s] = [expected |-> expected[s], counted |-> counted, by |-> a, attempt |-> 0]]
      /\ UNCHANGED <<expected, ledger, operations, attempts, finals, reviews, exceptionalVars, placeVars>>
  BY DEF Reconcile
<1>2. /\ status' \in [Session -> SessionStatus] /\ attempt' \in [Session -> Nat]
      /\ closures' \in [Session -> Closure \cup {NoRow}]
      /\ Books' /\ OneActivePerRegister' /\ ClosureStillTrue'
      /\ ClosingByLastAttempt' /\ ClosureAttempts' /\ ClosedByLastAttempt'
  <2>1. st \in Settled /\ st # "CLOSED" /\ status[s] \in Active /\ 0 \in Nat
    BY <1>1 DEF Settled, Active
  <2> HIDE DEF st
  <2> QED
    BY <1>1, <2>1, SettlePreservesInv
<1>3. CashTypeOK'
  BY <1>1, <1>2 DEF CashInv, CashTypeOK, exceptionalVars, placeVars
<1> QED
  BY <1>2, <1>3 DEF CashInv

LEMMA RestPreservesInv ==
  ASSUME CashInv,
         \/ \E a \in Actor, s \in Session : ReviewDifference(a, s)
         \/ \E a \in Actor, s \in Session, seq \in Nat : LateReview(a, s, seq)
         \/ \E d \in Device : DeclareUnrecoverable(d)
         \/ \E r \in Register : DeactivateRegister(r)
         \/ UNCHANGED cashVars
  PROVE  CashInv'
<1> DEFINE SameCore == UNCHANGED <<moneyVars, operations, attempts, attempt, finals, closures>>
           TypedRest ==
             /\ reviews' \in [Session -> Actor \cup {NoRow}]
             /\ lateReviews' \subseteq [session: Session, seq: Nat]
             /\ deviceStatus' \in [Device -> {"ACTIVE", "UNRECOVERABLE"}]
             /\ registers' \subseteq Register
             /\ UNCHANGED <<snapshots, recoveries>>
<1> USE DEF closeVars, exceptionalVars, placeVars
<1>1. SameCore /\ TypedRest
  <2>1. CASE \E a \in Actor, s \in Session : ReviewDifference(a, s)
    BY <2>1 DEF ReviewDifference, CashInv, CashTypeOK
  <2>2. CASE \E a \in Actor, s \in Session, seq \in Nat : LateReview(a, s, seq)
    BY <2>2 DEF LateReview, CashInv, CashTypeOK
  <2>3. CASE \E d \in Device : DeclareUnrecoverable(d)
    BY <2>3 DEF DeclareUnrecoverable, CashInv, CashTypeOK
  <2>4. CASE \E r \in Register : DeactivateRegister(r)
    BY <2>4 DEF DeactivateRegister, CashInv, CashTypeOK
  <2>5. CASE UNCHANGED cashVars
    BY <2>5 DEF cashVars, CashInv, CashTypeOK
  <2> QED
    BY <2>1, <2>2, <2>3, <2>4, <2>5
<1>2. CashTypeOK'
  BY <1>1 DEF CashInv, CashTypeOK, moneyVars
<1> QED
  BY <1>1, <1>2, Frame

LEMMA NextPreservesInv ==
  ASSUME CashInv, [CashNext]_cashVars
  PROVE  CashInv'
<1>1. /\ Amount \subseteq Nat /\ Amount \cup {0} \subseteq Nat
      /\ \A c \in Amount : c \in Int /\ -c \in Int
      /\ 0..MaxOperation \subseteq Nat /\ 1..MaxOperation \subseteq Nat
  BY CashAssumption
<1>2. ASSUME NEW s \in Session, Open(s) \/ Movement(s) \/ Arrival(s) \/ NormalClose(s) \/ Manage(s)
      PROVE  CashInv'
  <2>1. CASE Open(s)
    BY <2>1, OpenPreservesInv
  <2>2. CASE Movement(s)
    <3>1. PICK a \in Actor, c \in Amount : MoveOnline(a, s, c) \/ MoveOnline(a, s, -c)
      BY <2>2 DEF Movement
    <3> QED
      BY <1>1, <3>1, MoveOnlinePreservesInv
  <2>3. CASE Arrival(s)
    BY <1>1, <2>3, ImportOpeningPreservesInv, ImportSalePreservesInv DEF Arrival
  <2>4. CASE NormalClose(s)
    <3>1. PICK a \in Actor :
            \/ \E seq \in 0..MaxOperation : BeginClose(a, s, seq)
            \/ \E n \in 1..MaxAttempt :
                 \/ FinalSync(a, s, n)
                 \/ Abort(a, s, n)
                 \/ \E c \in Amount \cup {0} : Close(a, s, n, expected[s], c)
      BY <2>4 DEF NormalClose
    <3>2. CASE \E seq \in 0..MaxOperation : BeginClose(a, s, seq)
      BY <1>1, <3>2, BeginClosePreservesInv
    <3>3. CASE \E n \in 1..MaxAttempt : FinalSync(a, s, n)
      BY <3>3, FinalSyncPreservesInv
    <3>4. CASE \E n \in 1..MaxAttempt : Abort(a, s, n)
      BY <3>4, AbortPreservesInv
    <3>5. CASE \E n \in 1..MaxAttempt : \E c \in Amount \cup {0} : Close(a, s, n, expected[s], c)
      BY <1>1, <3>5, ClosePreservesInv
    <3> QED
      BY <3>1, <3>2, <3>3, <3>4, <3>5
  <2>5. CASE Manage(s)
    <3>1. PICK a \in Actor :
            \/ \E seq \in 0..MaxOperation, c \in Amount \cup {0} : Reconcile(a, s, seq, c)
            \/ ExceptionalClose(a, s)
            \/ ReviewDifference(a, s)
            \/ \E seq \in 1..MaxOperation : LateReview(a, s, seq)
      BY <2>5 DEF Manage
    <3>2. CASE \E seq \in 0..MaxOperation, c \in Amount \cup {0} : Reconcile(a, s, seq, c)
      BY <1>1, <3>2, ReconcilePreservesInv
    <3>3. CASE ExceptionalClose(a, s)
      BY <3>3, ExceptionalClosePreservesInv
    <3>4. CASE ReviewDifference(a, s)
      BY <3>4, RestPreservesInv
    <3>5. CASE \E seq \in 1..MaxOperation : LateReview(a, s, seq)
      BY <1>1, <3>5, RestPreservesInv
    <3> QED
      BY <3>1, <3>2, <3>3, <3>4, <3>5
  <2> QED
    BY <1>2, <2>1, <2>2, <2>3, <2>4, <2>5
<1>3. CASE (\E d \in Device : DeclareUnrecoverable(d)) \/ (\E r \in Register : DeactivateRegister(r))
  BY <1>3, RestPreservesInv
<1>4. CASE UNCHANGED cashVars
  BY <1>4, RestPreservesInv
<1> QED
  BY <1>2, <1>3, <1>4 DEF CashNext

-----------------------------------------------------------------------------
(* The inductive invariant holds of every reachable state. *)
THEOREM Invariance == CashSpec => []CashInv
<1>1. CashInit => CashInv
  BY InitInv
<1>2. CashInv /\ [CashNext]_cashVars => CashInv'
  BY NextPreservesInv
<1> QED
  BY <1>1, <1>2, PTL DEF CashSpec

(* Every table of the cash module only holds rows of its shape; expected   *)
(* cash in particular is never negative.                                   *)
THEOREM CashTypeCorrect == CashSpec => []CashTypeOK
<1>1. CashInv => CashTypeOK
  BY DEF CashInv
<1> QED
  BY <1>1, Invariance, PTL

(* However openings made online, openings sealed offline and closes that   *)
(* are aborted interleave, a register has one session in operation.        *)
THEOREM RegistersNotShared == CashSpec => []OneActivePerRegister
<1>1. CashInv => OneActivePerRegister
  BY DEF CashInv
<1> QED
  BY <1>1, Invariance, PTL

(* What a closure row says of a settled session is true for ever after.    *)
THEOREM ClosuresStayTrue == CashSpec => []ClosureStillTrue
<1>1. CashInv => ClosureStillTrue
  BY DEF CashInv
<1> QED
  BY <1>1, Invariance, PTL

(* Only the last attempt begun for a session closes it.                    *)
THEOREM LastAttemptCloses == CashSpec => []ClosedByLastAttempt
<1>1. CashInv => ClosedByLastAttempt
  BY DEF CashInv
<1> QED
  BY <1>1, Invariance, PTL

-----------------------------------------------------------------------------
(***************************************************************************)
(* What arrives after a device was given up.  The marks left by late sales *)
(* are counted and added up, so three facts join the invariant: the marks  *)
(* are finitely many, each is of a session closed without its device and   *)
(* of an operation that was there (so the next one is marked apart), and   *)
(* such a session has its snapshot.                                        *)
(***************************************************************************)
MarkedCash(R) == MapThenSumSet(LAMBDA r : r.cash, R)

Marked ==
  /\ IsFiniteSet(recoveries)
  /\ \A r \in recoveries :
       status[r.session] = Unrecovered /\ r.seq <= Len(operations[DeviceOf(r.session)])

Photographed == \A s \in Session : status[s] = Unrecovered => snapshots[s] \in Snapshot

(* What is known of the late data of one session.                          *)
Upto(s, n) == {q \in RecoveriesOf(s) : q.seq <= n}
LateAccounted(s) ==
  /\ snapshots[s].received + Cardinality(RecoveriesOf(s)) = Cardinality(SessionOperations(s))
  /\ expected[s] = snapshots[s].expected + MarkedCash(RecoveriesOf(s))
  /\ \A r \in RecoveriesOf(s) : r.known = snapshots[s].expected + MarkedCash(Upto(s, r.seq))

LateInv ==
  /\ Marked /\ Photographed
  /\ \A s \in Session : status[s] = Unrecovered => LateAccounted(s)

-----------------------------------------------------------------------------
(* Sums of the marks' cash.                                                *)

(* The sum of a set of marks, as the sum of a function on it.              *)
LEMMA CashIsSum ==
  ASSUME NEW R, IsFiniteSet(R)
  PROVE  MarkedCash(R) = SumFunctionOnSet([r \in R |-> r.cash], R)
<1> DEFINE f == [r \in R |-> r.cash]
           Rec(g) == g = [s \in SUBSET R |-> IF s = {} THEN 0 ELSE First(s).cash + g[s \ {First(s)}]]
           h == CHOOSE g : Rec(g)
<1>1. MarkedCash(R) = h[R]
  BY DEF MarkedCash, MapThenSumSet, MapThenFoldSet, First
<1>2. PICK g : IsIter(g, f, SUBSET R) /\ SumFunctionOnSet(f, R) = g[R]
  <2> HIDE DEF f
  <2> QED
    BY IterOf
<1>3. ASSUME NEW s \in SUBSET R, s # {} PROVE f[First(s)] = First(s).cash
  BY <1>3, FirstIn
<1>4. ASSUME NEW k PROVE Rec(k) <=> IsIter(k, f, SUBSET R)
  <2>1. [s \in SUBSET R |-> IF s = {} THEN 0 ELSE First(s).cash + k[s \ {First(s)}]]
        = [s \in SUBSET R |-> IF s = {} THEN 0 ELSE f[First(s)] + k[s \ {First(s)}]]
    <3> HIDE DEF f
    <3> QED
      BY <1>3
  <2> QED
    BY <2>1 DEF IsIter
<1> HIDE DEF f, Rec
<1>5. IsIter(h, f, SUBSET R)
  <2>1. Rec(g)
    BY <1>2, <1>4
  <2>2. Rec(h)
    BY <2>1
  <2> QED
    BY <1>4, <2>2
<1> HIDE DEF h
<1>6. h[R] = g[R]
  BY <1>2, <1>5, Agree
<1> QED
  BY <1>1, <1>2, <1>6 DEF f

(* No marks, and one more mark.                                            *)
LEMMA CashOfNone == MarkedCash({}) = 0
<1>1. MarkedCash({}) = SumFunctionOnSet([r \in {} |-> r.cash], {})
  BY CashIsSum, FS_EmptySet
<1> QED
  BY <1>1, SumOnEmpty

LEMMA CashOfMore ==
  ASSUME NEW R, IsFiniteSet(R), NEW e, e \notin R, \A r \in R \cup {e} : r.cash \in Nat
  PROVE  MarkedCash(R) \in Nat /\ MarkedCash(R \cup {e}) = MarkedCash(R) + e.cash
<1> DEFINE Q == R \cup {e}
           f == [r \in Q |-> r.cash]
           k == [r \in R |-> r.cash]
<1>1. IsFiniteSet(Q)
  BY FS_AddElement
<1>2. MarkedCash(Q) = SumFunctionOnSet(f, Q) /\ MarkedCash(R) = SumFunctionOnSet(k, R)
  BY <1>1, CashIsSum
<1>3. \A r \in R : k[r] = f[r]
  OBVIOUS
<1>4. \A r \in Q : f[r] \in Int
  OBVIOUS
<1>5. (\A r \in R : k[r] \in Nat) /\ f[e] = e.cash /\ Q \ {e} = R /\ e \in Q
  OBVIOUS
<1> HIDE DEF f, k, Q
<1>6. SumFunctionOnSet(k, R) = SumFunctionOnSet(f, R)
  BY <1>3, SumOnSame
<1>7. SumFunctionOnSet(f, Q) = f[e] + SumFunctionOnSet(f, Q \ {e})
  BY <1>1, <1>4, <1>5, SumOnTake
<1>8. SumFunctionOnSet(k, R) \in Nat
  <2>1. 0 \in Nat /\ \A a, b \in Nat : a + b \in Nat
    OBVIOUS
  <2> QED
    BY <1>5, <2>1, SumOnIn
<1>9. MarkedCash(Q) = e.cash + MarkedCash(R)
  BY <1>2, <1>5, <1>6, <1>7
<1>10. e.cash \in Nat /\ MarkedCash(R) \in Nat
  BY <1>2, <1>8
<1> QED
  BY <1>9, <1>10 DEF Q

-----------------------------------------------------------------------------
(* Steps that bring no data to a session given up.                         *)

(* The types the argument needs.                                           *)
LEMMA LateTypes ==
  ASSUME CashTypeOK
  PROVE  /\ \A r \in recoveries :
              r.session \in Session /\ r.seq \in Nat /\ r.cash \in Nat /\ r.known \in Nat
         /\ \A d \in Device : Len(operations[d]) \in Nat
         /\ \A s \in Session : DeviceOf(s) \in Device
         /\ \A s \in Session : expected[s] \in Nat
BY OpeningFields DEF CashTypeOK

(* A session that a step leaves alone stays accounted for.                 *)
LEMMA LateUntouched ==
  ASSUME NEW s \in Session, LateAccounted(s), snapshots'[s] = snapshots[s],
         expected'[s] = expected[s], RecoveriesOf(s)' = RecoveriesOf(s),
         SessionOperations(s)' = SessionOperations(s)
  PROVE  LateAccounted(s)'
<1>1. \A n : Upto(s, n)' = Upto(s, n)
  BY DEF Upto
<1> QED
  BY <1>1 DEF LateAccounted

(* No session is given up, and none of those that were gets anything.      *)
LEMMA NothingLate ==
  ASSUME LateInv, CashTypeOK, recoveries' = recoveries, snapshots' = snapshots,
         \A d \in Device : Len(operations'[d]) >= Len(operations[d]),
         \A s \in Session :
           /\ status'[s] = Unrecovered <=> status[s] = Unrecovered
           /\ status[s] = Unrecovered =>
                expected'[s] = expected[s] /\ SessionOperations(s)' = SessionOperations(s)
         , \A d \in Device : Len(operations'[d]) \in Nat
  PROVE  LateInv'
<1>1. Marked'
  <2>1. ASSUME NEW r \in recoveries
        PROVE  status'[r.session] = Unrecovered /\ r.seq <= Len(operations'[DeviceOf(r.session)])
    <3>1. r.session \in Session /\ r.seq \in Nat /\ DeviceOf(r.session) \in Device
      BY LateTypes
    <3>2. status[r.session] = Unrecovered /\ r.seq <= Len(operations[DeviceOf(r.session)])
      BY DEF LateInv, Marked
    <3> QED
      BY <3>1, <3>2, LateTypes
  <2> QED
    BY <2>1 DEF LateInv, Marked, DeviceOf
<1>2. Photographed'
  BY DEF LateInv, Photographed
<1>3. ASSUME NEW s \in Session, status'[s] = Unrecovered PROVE LateAccounted(s)'
  <2>1. RecoveriesOf(s)' = RecoveriesOf(s)
    BY DEF RecoveriesOf
  <2> QED
    BY <1>3, <2>1, LateUntouched DEF LateInv
<1> QED
  BY <1>1, <1>2, <1>3 DEF LateInv

(* What Record does to a device's operations.                              *)
LEMMA Recorded ==
  ASSUME CashTypeOK, NEW s \in Session, NEW o \in Sealed, o.session = s, Record(s, o),
         NEW n, n = Len(operations[DeviceOf(s)])
  PROVE  /\ n \in Nat
         /\ \A d \in Device : Len(operations'[d]) \in Nat /\ Len(operations'[d]) >= Len(operations[d])
         /\ Len(operations'[DeviceOf(s)]) = n + 1
         /\ SessionOperations(s)' = SessionOperations(s) \cup {n + 1}
         /\ n + 1 \notin SessionOperations(s)
         /\ IsFiniteSet(SessionOperations(s))
<1> DEFINE d == DeviceOf(s)
           q == operations[d]
<1>1. d \in Device /\ q \in Seq(Sealed) /\ operations \in [Device -> Seq(Sealed)]
  BY OpeningFields DEF CashTypeOK
<1>2. operations' = [operations EXCEPT ![d] = Append(q, o)]
  BY DEF Record
<1>3. operations'[d] = Append(q, o) /\ \A e \in Device : e # d => operations'[e] = operations[e]
  BY <1>1, <1>2
<1>4. /\ n \in Nat /\ Len(operations'[d]) = n + 1
      /\ \A m \in 1..n : operations'[d][m] = q[m]
      /\ operations'[d][n + 1] = o
  BY <1>1, <1>3
<1>5. \A e \in Device : Len(operations'[e]) \in Nat /\ Len(operations'[e]) >= Len(operations[e])
  <2>1. \A e \in Device : Len(operations[e]) \in Nat
    BY <1>1
  <2> QED
    BY <1>3, <1>4, <2>1
<1>6. SessionOperations(s) = {m \in 1..n : q[m].session = s}
      /\ SessionOperations(s)' = {m \in 1..(n + 1) : operations'[d][m].session = s}
  BY <1>4 DEF SessionOperations, DeviceOf
<1> HIDE DEF d, q
<1>7. SessionOperations(s)' = SessionOperations(s) \cup {n + 1}
  BY <1>4, <1>6
<1>8. n + 1 \notin SessionOperations(s)
  BY <1>4, <1>6
<1>9. IsFiniteSet(SessionOperations(s))
  <2>1. IsFiniteSet(1..n)
    <3>1. 1 \in Int /\ n \in Int
      BY <1>4
    <3> QED
      BY <3>1, FS_Interval
  <2>2. SessionOperations(s) \in SUBSET (1..n)
    BY <1>4, <1>6
  <2> QED
    BY <2>1, <2>2, FS_Subset
<1> QED
  BY <1>4, <1>5, <1>7, <1>8, <1>9 DEF d

(* A sale of a session given up is marked, with what was known then.       *)
LEMMA MarkedSale ==
  ASSUME CashInv, LateInv, NEW s \in Session, NEW cash \in Nat, ImportSale(s, cash),
         status[s] = Unrecovered
  PROVE  LateInv'
<1> DEFINE o == [session |-> s, cash |-> cash]
<1>1. PICK n : n = Len(operations[DeviceOf(s)])
  OBVIOUS
<1>2. PICK e : e = [session |-> s, seq |-> n + 1, cash |-> cash, known |-> expected'[s]]
  OBVIOUS
<1>3. CashTypeOK /\ CashTypeOK'
  BY ImportSalePreservesInv DEF CashInv
<1>4. /\ o \in Sealed /\ o.session = s /\ Record(s, o)
      /\ recoveries' = recoveries \cup {e}
      /\ status' = status /\ snapshots' = snapshots
  BY <1>1, <1>2 DEF ImportSale, Sealed, Recovered
<1>5. expected'[s] = expected[s] + cash /\ \A t \in Session \ {s} : expected'[t] = expected[t]
  <2>1. CASE cash = 0
    <3>1. expected' = expected
      BY <2>1 DEF ImportSale
    <3> QED
      BY <2>1, <3>1, <1>3, LateTypes
  <2>2. CASE cash # 0
    <3>1. expected' = [expected EXCEPT ![s] = @ + cash]
      BY <2>2 DEF ImportSale, Move
    <3> QED
      BY <1>3, <3>1 DEF CashTypeOK
  <2> QED
    BY <2>1, <2>2
<1> HIDE DEF o
<1>6. /\ n \in Nat
      /\ \A d \in Device : Len(operations'[d]) \in Nat /\ Len(operations'[d]) >= Len(operations[d])
      /\ Len(operations'[DeviceOf(s)]) = n + 1
      /\ SessionOperations(s)' = SessionOperations(s) \cup {n + 1}
      /\ n + 1 \notin SessionOperations(s)
      /\ IsFiniteSet(SessionOperations(s))
  BY <1>1, <1>3, <1>4, Recorded
<1>7. e.session = s /\ e.seq = n + 1 /\ e.cash = cash /\ e.known = expected'[s]
  BY <1>2
<1>8. /\ \A r \in recoveries : r.session \in Session /\ r.seq \in Nat /\ r.cash \in Nat
      /\ \A r \in recoveries :
           status[r.session] = Unrecovered /\ r.seq <= Len(operations[DeviceOf(r.session)])
      /\ IsFiniteSet(recoveries)
  BY <1>3, LateTypes DEF LateInv, Marked
<1>9. \A r \in RecoveriesOf(s) : r.seq <= n /\ r.seq \in Nat /\ r.cash \in Nat /\ r # e
  BY <1>1, <1>6, <1>7, <1>8 DEF RecoveriesOf
<1>10. Marked'
  <2>1. ASSUME NEW r \in recoveries'
        PROVE  status'[r.session] = Unrecovered /\ r.seq <= Len(operations'[DeviceOf(r.session)])
    <3>1. CASE r = e
      BY <1>4, <1>6, <1>7, <3>1
    <3>2. CASE r \in recoveries
      <4>1. /\ r.seq \in Nat /\ DeviceOf(r.session) \in Device /\ status'[r.session] = Unrecovered
            /\ r.seq <= Len(operations[DeviceOf(r.session)])
            /\ Len(operations[DeviceOf(r.session)]) \in Nat
        BY <1>3, <1>4, <1>8, <3>2, LateTypes
      <4> QED
        BY <1>6, <4>1
    <3> QED
      BY <1>4, <3>1, <3>2
  <2>2. IsFiniteSet(recoveries')
    BY <1>4, <1>8, FS_AddElement
  <2> QED
    BY <2>1, <2>2 DEF Marked, DeviceOf
<1>11. Photographed'
  BY <1>4 DEF LateInv, Photographed
<1>12. ASSUME NEW t \in Session, t # s, status'[t] = Unrecovered PROVE LateAccounted(t)'
  <2>1. RecoveriesOf(t)' = RecoveriesOf(t)
    BY <1>4, <1>7, <1>12 DEF RecoveriesOf
  <2>2. SessionOperations(t)' = SessionOperations(t)
    BY <1>3, <1>4, <1>12, RecordElsewhere
  <2> QED
    BY <1>4, <1>5, <1>12, <2>1, <2>2, LateUntouched DEF LateInv
<1>13. LateAccounted(s)'
  <2>1. RecoveriesOf(s)' = RecoveriesOf(s) \cup {e}
    BY <1>4, <1>7 DEF RecoveriesOf
  <2>2. IsFiniteSet(RecoveriesOf(s)) /\ e \notin RecoveriesOf(s)
    <3>1. RecoveriesOf(s) \in SUBSET recoveries
      BY DEF RecoveriesOf
    <3> QED
      BY <1>8, <1>9, <3>1, FS_Subset
  <2>3. MarkedCash(RecoveriesOf(s)) \in Nat /\ MarkedCash(RecoveriesOf(s) \cup {e}) = MarkedCash(RecoveriesOf(s)) + cash
    <3>1. \A r \in RecoveriesOf(s) \cup {e} : r.cash \in Nat
      BY <1>7, <1>9
    <3> QED
      BY <1>7, <2>2, <3>1, CashOfMore
  <2>4. /\ Cardinality(RecoveriesOf(s) \cup {e}) = Cardinality(RecoveriesOf(s)) + 1
        /\ Cardinality(SessionOperations(s) \cup {n + 1}) = Cardinality(SessionOperations(s)) + 1
        /\ Cardinality(RecoveriesOf(s)) \in Nat /\ Cardinality(SessionOperations(s)) \in Nat
    BY <1>6, <2>2, FS_AddElement, FS_CardinalityType
  <2>5. /\ snapshots[s] \in Snapshot
        /\ snapshots[s].received + Cardinality(RecoveriesOf(s)) = Cardinality(SessionOperations(s))
        /\ expected[s] = snapshots[s].expected + MarkedCash(RecoveriesOf(s))
        /\ \A r \in RecoveriesOf(s) : r.known = snapshots[s].expected + MarkedCash(Upto(s, r.seq))
    BY DEF LateInv, LateAccounted, Photographed
  <2>6. snapshots[s].received \in Nat /\ snapshots[s].expected \in Nat
    BY <2>5 DEF Snapshot
  <2>7. snapshots[s].received + Cardinality(RecoveriesOf(s)') = Cardinality(SessionOperations(s)')
    BY SMTT(20), <1>6, <2>1, <2>4, <2>5, <2>6
  <2>8. expected'[s] = snapshots[s].expected + MarkedCash(RecoveriesOf(s) \cup {e})
    BY <1>5, <2>3, <2>5, <2>6
  <2>9. ASSUME NEW r \in RecoveriesOf(s)' PROVE r.known = snapshots[s].expected + MarkedCash(Upto(s, r.seq)')
    <3>1. CASE r = e
      <4>1. Upto(s, e.seq)' = RecoveriesOf(s) \cup {e}
        BY <1>6, <1>7, <1>9, <2>1 DEF Upto
      <4> QED
        BY <1>7, <2>8, <3>1, <4>1
    <3>2. CASE r \in RecoveriesOf(s)
      <4>1. ~(e.seq <= r.seq)
        BY <1>6, <1>7, <1>9, <3>2
      <4>2. Upto(s, r.seq)' = Upto(s, r.seq)
        BY <2>1, <4>1 DEF Upto
      <4> QED
        BY <2>5, <3>2, <4>2
    <3> QED
      BY <2>1, <3>1, <3>2
  <2> QED
    BY <1>4, <2>1, <2>7, <2>8, <2>9 DEF LateAccounted
<1> QED
  BY <1>4, <1>10, <1>11, <1>12, <1>13 DEF LateInv

(* The snapshot of a session that is given up says what there is.          *)
LEMMA GivenUp ==
  ASSUME CashInv, LateInv, NEW a \in Actor, NEW s \in Session, ExceptionalClose(a, s)
  PROVE  LateInv'
<1> DEFINE w == [expected |-> Opening[s].cash + ledger[s], received |-> Cardinality(SessionOperations(s))]
<1>1. /\ status[s] \in Active /\ Balanced(s)
      /\ status' = [status EXCEPT ![s] = Unrecovered]
      /\ snapshots' = [snapshots EXCEPT ![s] = w]
      /\ expected' = expected /\ operations' = operations /\ recoveries' = recoveries
  BY DEF ExceptionalClose, Transition
<1>2. CashTypeOK
  BY DEF CashInv
<1>3. status[s] # Unrecovered
  BY <1>1 DEF Active, Unrecovered
<1>4. \A t \in Session \ {s} : status'[t] = status[t] /\ snapshots'[t] = snapshots[t]
  BY <1>1, <1>2 DEF CashTypeOK
<1>5. status'[s] = Unrecovered /\ snapshots'[s] = w
  BY <1>1, <1>2 DEF CashTypeOK
<1>6. IsFiniteSet(SessionOperations(s))
  <2>1. PICK n : n = Len(operations[DeviceOf(s)])
    OBVIOUS
  <2>2. 1 \in Int /\ n \in Int
    BY <1>2, <2>1, LateTypes
  <2>3. IsFiniteSet(1..n)
    BY <2>2, FS_Interval
  <2>4. SessionOperations(s) \in SUBSET (1..n)
    BY <2>1 DEF SessionOperations
  <2> QED
    BY <2>3, <2>4, FS_Subset
<1>7. Cardinality(SessionOperations(s)) \in Nat /\ expected[s] \in Nat
  BY <1>2, <1>6, FS_CardinalityType, LateTypes
<1>8. w.expected = expected[s] /\ w.received = Cardinality(SessionOperations(s)) /\ w \in Snapshot
  BY <1>1, <1>7 DEF Balanced, Snapshot
<1> HIDE DEF w
<1>9. RecoveriesOf(s) = {}
  BY <1>3 DEF RecoveriesOf, LateInv, Marked
<1>10. \A t \in Session : RecoveriesOf(t)' = RecoveriesOf(t) /\ SessionOperations(t)' = SessionOperations(t)
  BY <1>1 DEF RecoveriesOf, SessionOperations
<1>11. Marked'
  <2>1. ASSUME NEW r \in recoveries PROVE status'[r.session] = Unrecovered
    BY <1>2, <1>4, <1>5, LateTypes DEF LateInv, Marked
  <2> QED
    BY <1>1, <2>1 DEF LateInv, Marked
<1>12. Photographed'
  BY <1>4, <1>5, <1>8 DEF LateInv, Photographed
<1>13. ASSUME NEW t \in Session \ {s}, status'[t] = Unrecovered PROVE LateAccounted(t)'
  BY <1>1, <1>4, <1>10, <1>13, LateUntouched DEF LateInv
<1>14. LateAccounted(s)'
  <2>1. Cardinality({}) = 0 /\ MarkedCash({}) = 0
    BY FS_EmptySet, CashOfNone
  <2> QED
    BY <1>1, <1>5, <1>7, <1>8, <1>9, <1>10, <2>1 DEF LateAccounted
<1> QED
  BY <1>11, <1>12, <1>13, <1>14 DEF LateInv

(* A step about one session, which is not given up before or after it.     *)
LEMMA LateElsewhere ==
  ASSUME LateInv, CashTypeOK, recoveries' = recoveries, snapshots' = snapshots,
         operations' = operations, NEW s \in Session,
         status[s] # Unrecovered, status'[s] # Unrecovered,
         \A t \in Session \ {s} : status'[t] = status[t] /\ expected'[t] = expected[t]
  PROVE  LateInv'
<1>1. \A t \in Session : SessionOperations(t)' = SessionOperations(t)
  BY DEF SessionOperations
<1>2. \A d \in Device : Len(operations'[d]) \in Nat /\ Len(operations'[d]) >= Len(operations[d])
  BY LateTypes
<1> QED
  BY <1>1, <1>2, NothingLate

(* The steps of the normal close, and a conflict that is reconciled.       *)
LEMMA LateTransition ==
  ASSUME LateInv, CashTypeOK, NEW s \in Session, NEW st, NEW n, Transition(s, st, n),
         status[s] # Unrecovered, st # Unrecovered,
         expected' = expected, operations' = operations, UNCHANGED exceptionalVars
  PROVE  LateInv'
<1>1. /\ status'[s] = st
      /\ \A t \in Session \ {s} : status'[t] = status[t]
  BY TransitionFrame
<1>2. recoveries' = recoveries /\ snapshots' = snapshots
  BY DEF exceptionalVars
<1> QED
  BY <1>1, <1>2, LateElsewhere

(* An opening begins a session that was not there.                         *)
LEMMA LateOpening ==
  ASSUME CashInv, LateInv, NEW s \in Session, Open(s) \/ ImportOpening(s)
  PROVE  LateInv'
<1>1. CashTypeOK /\ status \in [Session -> SessionStatus] /\ expected \in [Session -> Nat]
  BY DEF CashInv, CashTypeOK
<1>2. PICK st \in {"OPEN", "CONFLICTED"} :
        status[s] = "NONE" /\ Insert(s, st) /\ UNCHANGED exceptionalVars
  BY DEF Open, ImportOpening
<1>3. /\ status[s] # Unrecovered /\ status'[s] # Unrecovered
      /\ \A t \in Session \ {s} : status'[t] = status[t] /\ expected'[t] = expected[t]
  BY <1>1, <1>2 DEF Insert, Unrecovered
<1>4. recoveries' = recoveries /\ snapshots' = snapshots
  BY <1>2 DEF exceptionalVars
<1>5. CASE Open(s)
  <2>1. operations' = operations
    BY <1>5 DEF Open
  <2> QED
    BY <1>1, <1>3, <1>4, <2>1, LateElsewhere
<1>6. CASE ImportOpening(s)
  <2> DEFINE o == [session |-> s, cash |-> 0]
  <2>1. o \in Sealed /\ o.session = s /\ Record(s, o)
    BY <1>6 DEF ImportOpening, Sealed
  <2> HIDE DEF o
  <2>2. \A d \in Device : Len(operations'[d]) \in Nat /\ Len(operations'[d]) >= Len(operations[d])
    <3>1. PICK n : n = Len(operations[DeviceOf(s)])
      OBVIOUS
    <3> QED
      BY <1>1, <2>1, <3>1, Recorded
  <2>3. \A t \in Session \ {s} : SessionOperations(t)' = SessionOperations(t)
    BY <1>1, <2>1, RecordElsewhere
  <2> QED
    BY <1>1, <1>3, <1>4, <2>2, <2>3, NothingLate
<1> QED
  BY <1>5, <1>6

(* Online movements stop when a session closes; a sale sealed earlier may  *)
(* still come.                                                             *)
LEMMA LateMovement ==
  ASSUME CashInv, LateInv, NEW a \in Actor, NEW s \in Session, NEW delta \in Int,
         MoveOnline(a, s, delta)
  PROVE  LateInv'
<1>1. /\ CashTypeOK /\ expected \in [Session -> Nat]
      /\ status[s] = "OPEN" /\ status' = status /\ operations' = operations
      /\ UNCHANGED exceptionalVars
      /\ expected' = [expected EXCEPT ![s] = @ + delta]
  BY DEF MoveOnline, Move, CashInv, CashTypeOK
<1>2. /\ status[s] # Unrecovered /\ recoveries' = recoveries /\ snapshots' = snapshots
      /\ \A t \in Session \ {s} : expected'[t] = expected[t]
  BY <1>1 DEF Unrecovered, exceptionalVars
<1> QED
  BY <1>1, <1>2, LateElsewhere

LEMMA LateSale ==
  ASSUME CashInv, LateInv, NEW s \in Session, NEW cash \in Nat, ImportSale(s, cash)
  PROVE  LateInv'
<1>1. CASE status[s] = Unrecovered
  BY <1>1, MarkedSale
<1>2. CASE status[s] # Unrecovered
  <2> DEFINE o == [session |-> s, cash |-> cash]
  <2>1. /\ o \in Sealed /\ o.session = s /\ Record(s, o)
        /\ CashTypeOK /\ status' = status /\ snapshots' = snapshots /\ recoveries' = recoveries
    BY <1>2 DEF ImportSale, Sealed, Recovered, CashInv
  <2>2. \A t \in Session \ {s} : expected'[t] = expected[t]
    <3>1. expected' = expected \/ expected' = [expected EXCEPT ![s] = @ + cash]
      BY DEF ImportSale, Move
    <3> QED
      BY <2>1, <3>1 DEF CashTypeOK
  <2> HIDE DEF o
  <2>3. \A d \in Device : Len(operations'[d]) \in Nat /\ Len(operations'[d]) >= Len(operations[d])
    <3>1. PICK n : n = Len(operations[DeviceOf(s)])
      OBVIOUS
    <3> QED
      BY <2>1, <3>1, Recorded
  <2>4. \A t \in Session \ {s} : SessionOperations(t)' = SessionOperations(t)
    BY <2>1, RecordElsewhere
  <2> QED
    BY <1>2, <2>1, <2>2, <2>3, <2>4, NothingLate
<1> QED
  BY <1>1, <1>2

(* Steps that only write what the argument does not read.                  *)
LEMMA LateFrame ==
  ASSUME LateInv, UNCHANGED <<status, expected, operations, snapshots, recoveries>>
  PROVE  LateInv'
<1>1. \A t \in Session : RecoveriesOf(t)' = RecoveriesOf(t) /\ SessionOperations(t)' = SessionOperations(t)
  BY DEF RecoveriesOf, SessionOperations
<1>2. Marked' /\ Photographed'
  BY DEF LateInv, Marked, Photographed
<1>3. ASSUME NEW t \in Session, status'[t] = Unrecovered PROVE LateAccounted(t)'
  BY <1>1, <1>3, LateUntouched DEF LateInv
<1> QED
  BY <1>2, <1>3 DEF LateInv

LEMMA LateNext ==
  ASSUME CashInv, LateInv, [CashNext]_cashVars
  PROVE  LateInv'
<1>1. /\ Amount \cup {0} \subseteq Nat
      /\ \A c \in Amount : c \in Int /\ -c \in Int
  BY CashAssumption
<1>2. CashTypeOK
  BY DEF CashInv
<1>3. ASSUME NEW s \in Session, Open(s) \/ Movement(s) \/ Arrival(s) \/ NormalClose(s) \/ Manage(s)
      PROVE  LateInv'
  <2>1. CASE Open(s)
    BY <2>1, LateOpening
  <2>2. CASE Movement(s)
    <3>1. PICK a \in Actor, c \in Amount : MoveOnline(a, s, c) \/ MoveOnline(a, s, -c)
      BY <2>2 DEF Movement
    <3> QED
      BY <1>1, <3>1, LateMovement
  <2>3. CASE Arrival(s)
    BY <1>1, <2>3, LateOpening, LateSale DEF Arrival
  <2>4. CASE NormalClose(s)
    <3>1. PICK a \in Actor :
            \/ \E seq \in 0..MaxOperation : BeginClose(a, s, seq)
            \/ \E n \in 1..MaxAttempt :
                 \/ FinalSync(a, s, n)
                 \/ Abort(a, s, n)
                 \/ \E c \in Amount \cup {0} : Close(a, s, n, expected[s], c)
      BY <2>4 DEF NormalClose
    <3>2. CASE \E seq \in 0..MaxOperation : BeginClose(a, s, seq)
      <4>1. /\ Transition(s, "CLOSING", Len(attempts) + 1) /\ status[s] = "OPEN"
            /\ expected' = expected /\ operations' = operations /\ UNCHANGED exceptionalVars
        BY <3>2 DEF BeginClose
      <4> QED
        BY <1>2, <4>1, LateTransition DEF Unrecovered
    <3>3. CASE \E n \in 1..MaxAttempt : FinalSync(a, s, n)
      <4>1. UNCHANGED <<status, expected, operations, snapshots, recoveries>>
        BY <3>3 DEF FinalSync, moneyVars, exceptionalVars
      <4> QED
        BY <4>1, LateFrame
    <3>4. CASE \E n \in 1..MaxAttempt : Abort(a, s, n)
      <4>1. /\ Transition(s, "OPEN", 0) /\ status[s] = "CLOSING"
            /\ expected' = expected /\ operations' = operations /\ UNCHANGED exceptionalVars
        BY <3>4 DEF Abort, CurrentAttempt
      <4> QED
        BY <1>2, <4>1, LateTransition DEF Unrecovered
    <3>5. CASE \E n \in 1..MaxAttempt : \E c \in Amount \cup {0} : Close(a, s, n, expected[s], c)
      <4>1. PICK n : /\ Transition(s, "CLOSED", n) /\ status[s] = "CLOSING"
                     /\ expected' = expected /\ operations' = operations /\ UNCHANGED exceptionalVars
        BY <3>5 DEF Close, CurrentAttempt
      <4> QED
        BY <1>2, <4>1, LateTransition DEF Unrecovered
    <3> QED
      BY <3>1, <3>2, <3>3, <3>4, <3>5
  <2>5. CASE Manage(s)
    <3>1. PICK a \in Actor :
            \/ \E seq \in 0..MaxOperation, c \in Amount \cup {0} : Reconcile(a, s, seq, c)
            \/ ExceptionalClose(a, s)
            \/ ReviewDifference(a, s)
            \/ \E seq \in 1..MaxOperation : LateReview(a, s, seq)
      BY <2>5 DEF Manage
    <3>2. CASE \E seq \in 0..MaxOperation, c \in Amount \cup {0} : Reconcile(a, s, seq, c)
      <4>1. /\ Transition(s, "CLOSED_CONFLICT_RESOLVED", 0) /\ status[s] = "CONFLICTED"
            /\ expected' = expected /\ operations' = operations /\ UNCHANGED exceptionalVars
        BY <3>2 DEF Reconcile
      <4> QED
        BY <1>2, <4>1, LateTransition DEF Unrecovered
    <3>3. CASE ExceptionalClose(a, s)
      BY <3>3, GivenUp
    <3>4. CASE ReviewDifference(a, s) \/ \E seq \in 1..MaxOperation : LateReview(a, s, seq)
      <4>1. UNCHANGED <<status, expected, operations, snapshots, recoveries>>
        BY <3>4 DEF ReviewDifference, LateReview, moneyVars, exceptionalVars
      <4> QED
        BY <4>1, LateFrame
    <3> QED
      BY <3>1, <3>2, <3>3, <3>4
  <2> QED
    BY <1>3, <2>1, <2>2, <2>3, <2>4, <2>5
<1>4. CASE (\E d \in Device : DeclareUnrecoverable(d)) \/ (\E r \in Register : DeactivateRegister(r))
           \/ UNCHANGED cashVars
  <2>1. UNCHANGED <<status, expected, operations, snapshots, recoveries>>
    BY <1>4 DEF DeclareUnrecoverable, DeactivateRegister, moneyVars, exceptionalVars, cashVars
  <2> QED
    BY <2>1, LateFrame
<1> QED
  BY <1>3, <1>4 DEF CashNext

(* Whatever arrives for a session that was closed without its device is    *)
(* marked, and the marks and the snapshot add up to the session            *)
(* (ExceptionalCashCloseService.close, recordLateCashRecovery).            *)
THEOREM LateDataIsAccounted == CashSpec => []LateDataAccounted
<1>1. CashInit => LateInv
  <2> SUFFICES ASSUME CashInit PROVE LateInv
    OBVIOUS
  <2>1. recoveries = {} /\ \A s \in Session : status[s] # Unrecovered
    BY DEF CashInit, Unrecovered
  <2> QED
    BY <2>1, FS_EmptySet DEF LateInv, Marked, Photographed
<1>2. CashInv /\ LateInv /\ [CashNext]_cashVars => LateInv'
  BY LateNext
<1>3. LateInv => LateDataAccounted
  BY DEF LateInv, LateAccounted, LateDataAccounted, MarkedCash, Upto
<1> QED
  BY <1>1, <1>2, <1>3, Invariance, PTL DEF CashSpec

-----------------------------------------------------------------------------
(***************************************************************************)
(* The close from the device.  The server moves only by its own commands,  *)
(* so that its invariant goes on holding (ServerKeeps); what the tabs and  *)
(* the device hold is well formed, for any number of tabs.                 *)
(***************************************************************************)
ServerTyped == CashInv /\ Len(attempts) <= MaxAttempt

CloseTyped ==
  /\ CloseTypeOK /\ ServerTyped
  /\ Received <= Len(sealed) /\ Received <= MaxOperation
  /\ \A t \in Tab : /\ step[t] = "send" => signed[t] # NoRow
                    /\ view[t].status = "CLOSING" => view[t].attempt # 0

(* What the device's steps do at the server.                               *)
Arrives == ImportOpening(Cash) \/ \E c \in Nat : ImportSale(Cash, c)
Begins(seq) == BeginClose(Cashier, Cash, seq)
Syncs(n) == FinalSync(Cashier, Cash, n)
Closes(n) == \E c \in Nat : Close(Cashier, Cash, n, c, c)
Aborts(n) == Abort(Cashier, Cash, n)

LEMMA ServerKeeps ==
  ASSUME ServerTyped,
         \/ UNCHANGED cashVars
         \/ Arrives
         \/ \E seq \in Nat : Begins(seq)
         \/ \E n \in 1..MaxAttempt : Syncs(n) \/ Closes(n) \/ Aborts(n)
  PROVE  ServerTyped'
<1>1. Cash \in Session /\ Cashier \in Actor
  BY CloseAssumption
<1>2. CashInv'
  <2>1. CASE UNCHANGED cashVars
    BY <2>1, RestPreservesInv DEF ServerTyped
  <2>2. CASE Arrives
    BY <2>2, <1>1, ImportOpeningPreservesInv, ImportSalePreservesInv DEF ServerTyped, Arrives
  <2>3. CASE \E seq \in Nat : Begins(seq)
    BY <2>3, <1>1, BeginClosePreservesInv DEF ServerTyped, Begins
  <2>4. ASSUME NEW n \in 1..MaxAttempt, Syncs(n) \/ Closes(n) \/ Aborts(n) PROVE CashInv'
    BY <2>4, <1>1, FinalSyncPreservesInv, ClosePreservesInv, AbortPreservesInv
       DEF ServerTyped, Syncs, Closes, Aborts
  <2> QED
    BY <2>1, <2>2, <2>3, <2>4
<1>3. attempts' = attempts \/ \E seq \in Nat : Begins(seq)
  BY DEF Arrives, Syncs, Closes, Aborts, cashVars, closeVars, ImportOpening, ImportSale, FinalSync,
         Close, Abort
<1>4. ASSUME NEW seq \in Nat, Begins(seq) PROVE Len(attempts') <= MaxAttempt
  <2>1. /\ Len(attempts) < MaxAttempt
        /\ attempts' = Append(attempts, [session |-> Cash, seq |-> seq])
    BY <1>4 DEF Begins, BeginClose
  <2>2. attempts \in Seq([session: Session, seq: Nat])
    BY DEF ServerTyped, CashInv, CashTypeOK
  <2> QED
    BY <2>1, <2>2, CashAssumption
<1> QED
  BY <1>2, <1>3, <1>4 DEF ServerTyped

(* Types the steps need.                                                   *)
LEMMA CloseTypes ==
  ASSUME CloseTyped
  PROVE  /\ sealed \in Seq(Nat) /\ Len(sealed) \in Nat
         /\ Received \in Nat
         /\ attempts \in Seq([session: Session, seq: Nat]) /\ Len(attempts) \in Nat
         /\ Len(attempts) <= MaxAttempt /\ MaxAttempt \in Nat /\ MaxOperation \in Nat /\ MaxKey \in Nat
         /\ status[Cash] \in SessionStatus /\ attempt[Cash] \in Nat
         /\ \A t \in Tab : view[t] \in View
         /\ \A t \in Tab : signed[t] \in Checkpoint \cup {NoRow}
         /\ NoRow \notin Nat /\ NoRow \notin Checkpoint
         /\ Cash \in Session /\ DeviceOf(Cash) \in Device
<1>1. Cash \in Session /\ DeviceOf(Cash) \in Device
  BY CloseAssumption, OpeningFields
<1>2. CashTypeOK
  BY DEF CloseTyped, CloseTypeOK
<1>3. operations[DeviceOf(Cash)] \in Seq(Sealed)
  BY <1>1, <1>2 DEF CashTypeOK
<1>4. attempts \in Seq([session: Session, seq: Nat]) /\ status[Cash] \in SessionStatus /\ attempt[Cash] \in Nat
  BY <1>1, <1>2 DEF CashTypeOK
<1>5. NoRow \notin Nat /\ NoRow \notin Checkpoint /\ MaxAttempt \in Nat /\ MaxOperation \in Nat
      /\ MaxKey \in Nat
  BY CashAssumption, CloseAssumption
<1>6. sealed \in Seq(Nat) /\ (\A t \in Tab : view[t] \in View)
      /\ (\A t \in Tab : signed[t] \in Checkpoint \cup {NoRow}) /\ Len(attempts) <= MaxAttempt
  BY DEF CloseTyped, CloseTypeOK, ServerTyped
<1>7. Len(sealed) \in Nat /\ Len(attempts) \in Nat /\ Received \in Nat
  BY <1>3, <1>4, <1>6 DEF Received
<1> QED
  BY <1>1, <1>4, <1>5, <1>6, <1>7

(* What each of them changes of the session being closed.                  *)
LEMMA Arrived ==
  ASSUME CloseTyped, Arrives
  PROVE  /\ status[Cash] \notin {"CLOSING", "CLOSED"} /\ status'[Cash] \notin {"CLOSING", "CLOSED"}
         /\ UNCHANGED closeVars
         /\ Received < MaxOperation /\ Received' = Received + 1
<1>1. /\ Cash \in Session /\ DeviceOf(Cash) \in Device
      /\ status \in [Session -> SessionStatus] /\ operations \in [Device -> Seq(Sealed)]
  BY CloseTypes DEF CloseTyped, CloseTypeOK, CashTypeOK
<1>2. ASSUME NEW o, Record(Cash, o) PROVE Received' = Received + 1
  <2>1. operations[DeviceOf(Cash)] \in Seq(Sealed)
    BY <1>1
  <2>2. operations'[DeviceOf(Cash)] = Append(operations[DeviceOf(Cash)], o)
    BY <1>1, <1>2 DEF Record
  <2>3. DeviceOf(Cash)' = DeviceOf(Cash)
    BY DEF DeviceOf
  <2> QED
    BY <2>1, <2>2, <2>3 DEF Received
<1>3. CASE ImportOpening(Cash)
  <2>1. /\ status[Cash] = "NONE" /\ status'[Cash] \in {"OPEN", "CONFLICTED"}
    BY <1>1, <1>3 DEF ImportOpening, Insert
  <2> QED
    BY <1>2, <1>3, <2>1 DEF ImportOpening, Received
<1>4. ASSUME NEW c \in Nat, ImportSale(Cash, c) PROVE
         /\ status[Cash] \notin {"CLOSING", "CLOSED"} /\ status'[Cash] \notin {"CLOSING", "CLOSED"}
         /\ UNCHANGED closeVars
         /\ Received < MaxOperation /\ Received' = Received + 1
  BY <1>2, <1>4 DEF ImportSale, AcceptsHistory, Unrecovered, Received
<1> QED
  BY <1>3, <1>4 DEF Arrives

LEMMA Begun ==
  ASSUME CloseTyped, NEW seq \in Nat, Begins(seq)
  PROVE  /\ status[Cash] = "OPEN" /\ status'[Cash] = "CLOSING"
         /\ Len(attempts') = Len(attempts) + 1 /\ Len(attempts') <= MaxAttempt
         /\ attempt'[Cash] = Len(attempts') /\ attempts'[Len(attempts')].seq = seq
         /\ UNCHANGED operations
<1>1. /\ Cash \in Session /\ attempts \in Seq([session: Session, seq: Nat])
      /\ Len(attempts) \in Nat /\ MaxAttempt \in Nat
      /\ status \in [Session -> SessionStatus] /\ attempt \in [Session -> Nat]
  BY CloseTypes DEF CloseTyped, CloseTypeOK, CashTypeOK
<1>2. /\ status[Cash] = "OPEN" /\ Len(attempts) < MaxAttempt
      /\ attempts' = Append(attempts, [session |-> Cash, seq |-> seq])
      /\ Transition(Cash, "CLOSING", Len(attempts) + 1) /\ UNCHANGED operations
  BY DEF Begins, BeginClose
<1>3. status'[Cash] = "CLOSING" /\ attempt'[Cash] = Len(attempts) + 1
  BY <1>1, <1>2 DEF Transition
<1>4. Len(attempts') = Len(attempts) + 1 /\ attempts'[Len(attempts) + 1] = [session |-> Cash, seq |-> seq]
  BY <1>1, <1>2
<1> QED
  BY <1>1, <1>2, <1>3, <1>4

LEMMA Settling ==
  ASSUME CloseTyped, NEW n, Closes(n)
  PROVE  /\ status[Cash] = "CLOSING" /\ attempt[Cash] = n /\ Received = attempts[n].seq
         /\ status'[Cash] = "CLOSED" /\ attempt'[Cash] = n
         /\ UNCHANGED <<attempts, operations>>
<1>1. /\ Cash \in Session
      /\ status \in [Session -> SessionStatus] /\ attempt \in [Session -> Nat]
  BY CloseTypes DEF CloseTyped, CloseTypeOK, CashTypeOK
<1> QED
  BY <1>1 DEF Closes, Close, CurrentAttempt, Continuity, Transition, Received

LEMMA Syncing ==
  ASSUME NEW n, Syncs(n)
  PROVE  UNCHANGED <<status, attempt, attempts, operations>>
BY DEF Syncs, FinalSync, moneyVars

LEMMA Aborting ==
  ASSUME CloseTyped, NEW n, Aborts(n)
  PROVE  /\ attempt[Cash] = n /\ status'[Cash] = "OPEN" /\ UNCHANGED <<attempts, operations>>
<1>1. Cash \in Session /\ status \in [Session -> SessionStatus]
  BY CloseTypes DEF CloseTyped, CloseTypeOK, CashTypeOK
<1> QED
  BY <1>1 DEF Aborts, Abort, CurrentAttempt, Transition

LEMMA CloseInitTyped == CloseInit => CloseTyped
<1> SUFFICES ASSUME CloseInit PROVE CloseTyped
  OBVIOUS
<1>1. CashInv
  BY InitInv DEF CloseInit
<1>2. attempts = <<>> /\ Received = 0
  BY CloseAssumption, OpeningFields DEF CloseInit, CashInit, Received
<1>3. /\ sealed \in Seq(Nat) /\ Len(sealed) = 1 /\ MaxAttempt \in Nat /\ MaxOperation \in Nat
      /\ MaxKey \in Nat
  BY CashAssumption, CloseAssumption DEF CloseInit
<1>4. CloseTypeOK
  <2>1. view \in [Tab -> View]
    BY <1>3 DEF CloseInit, View, SessionStatus
  <2>2. /\ CashTypeOK /\ frozen = FALSE /\ kept = NoRow /\ keys = 0 /\ abortKeys = {}
        /\ begun = [k \in 1..MaxKey |-> NoRow] /\ step = [t \in Tab |-> "idle"]
        /\ signed = [t \in Tab |-> NoRow]
    BY <1>1 DEF CloseInit, CashInv
  <2>3. 0 \in 0..MaxKey
    BY <1>3
  <2>4. begun \in [1..MaxKey -> 1..MaxAttempt \cup {NoRow}]
    BY <2>2
  <2>5. /\ step \in [Tab -> {"idle", "freeze", "drain", "sign", "send", "release", "finish"}]
        /\ signed \in [Tab -> Checkpoint \cup {NoRow}]
    BY <2>2
  <2> QED
    BY <1>3, <2>1, <2>2, <2>3, <2>4, <2>5 DEF CloseTypeOK
<1> QED
  BY <1>1, <1>2, <1>3, <1>4 DEF CloseTyped, ServerTyped, CloseInit

(* A step that leaves the server, and what is sealed, alone.               *)
LEMMA ServerAlone ==
  ASSUME CloseTyped, UNCHANGED cashVars
  PROVE  ServerTyped' /\ CashTypeOK' /\ Received' = Received
<1>1. ServerTyped'
  BY ServerKeeps DEF CloseTyped
<1>2. UNCHANGED operations
  BY DEF cashVars
<1> QED
  BY <1>1, <1>2 DEF ServerTyped, CashInv, Received, DeviceOf

(* The tab's view, as the answers and the reload leave it.                 *)
LEMMA Viewed ==
  ASSUME CloseTyped, NEW st \in SessionStatus, NEW n \in 0..MaxAttempt, NEW m \in 0..MaxAttempt,
         NEW x \in Nat \cup {NoRow}
  PROVE  [status |-> st, attempt |-> n, lastAborted |-> m, shown |-> x] \in View
BY DEF View

LEMMA SealSaleTyped ==
  ASSUME CloseTyped, NEW c \in Nat, SealSale(c)
  PROVE  CloseTyped'
<1>1. ServerTyped' /\ CashTypeOK' /\ Received' = Received
  BY ServerAlone DEF SealSale
<1>2. sealed' \in Seq(Nat) /\ Len(sealed') = Len(sealed) + 1
  BY CloseTypes DEF SealSale
<1>3. CloseTypeOK'
  BY <1>1, <1>2 DEF SealSale, CloseTyped, CloseTypeOK, tabVars
<1>4. Received' <= Len(sealed') /\ Received' <= MaxOperation
  BY <1>1, <1>2, CloseTypes DEF CloseTyped
<1>5. view' = view /\ step' = step /\ signed' = signed
  BY DEF SealSale, tabVars
<1> QED
  BY <1>1, <1>3, <1>4, <1>5 DEF CloseTyped

(* What is delivered is the next of what is sealed.                        *)
LEMMA DeliverArrives ==
  ASSUME CloseTyped, Deliver
  PROVE  Arrives /\ UNCHANGED <<deviceVars, tabVars>> /\ Received < Len(sealed)
<1>1. Received < Len(sealed)
  BY CloseTypes DEF CloseTyped, Deliver, Drained
<1>2. Received # 0 => sealed[Received + 1] \in Nat
  BY <1>1, CloseTypes
<1> QED
  BY <1>1, <1>2 DEF Deliver, Arrives

LEMMA DeliverTyped ==
  ASSUME CloseTyped, Deliver
  PROVE  CloseTyped'
<1>1. Arrives /\ UNCHANGED <<deviceVars, tabVars>> /\ Received < Len(sealed)
  BY DeliverArrives
<1>2. ServerTyped' /\ CashTypeOK'
  BY <1>1, ServerKeeps DEF CloseTyped, ServerTyped, CashInv
<1>3. CloseTypeOK'
  BY <1>1, <1>2 DEF CloseTyped, CloseTypeOK, deviceVars, tabVars
<1>4. Received' <= Len(sealed') /\ Received' <= MaxOperation
  BY <1>1, Arrived, CloseTypes DEF deviceVars
<1>5. view' = view /\ step' = step /\ signed' = signed
  BY <1>1 DEF tabVars
<1> QED
  BY <1>2, <1>3, <1>4, <1>5 DEF CloseTyped

(* The barrier.                                                            *)
LEMMA BarrierTyped ==
  ASSUME CloseTyped, NEW t \in Tab, Barrier(t)
  PROVE  CloseTyped'
<1>1. UNCHANGED <<cashVars, sealed>>
  BY DEF Barrier, ClickBegin, Freeze, Drain, Sign, Release, Finish, deviceVars
<1>2. ServerTyped' /\ CashTypeOK' /\ Received' = Received
  BY <1>1, ServerAlone
<1>3. /\ frozen' \in BOOLEAN /\ kept' \in Checkpoint \cup {NoRow} /\ keys' \in 0..MaxKey
      /\ begun' = begun /\ abortKeys' \subseteq abortKeys
  <2>1. CASE Sign(t)
    <3>1. CASE kept # NoRow
      BY <2>1, <3>1 DEF Sign, CloseTyped, CloseTypeOK
    <3>2. CASE kept = NoRow
      <4>1. Len(sealed) \in 0..MaxOperation
        BY <2>1, <3>2, CloseTypes DEF Sign, Drained, CloseTyped
      <4>2. keys + 1 \in 1..MaxKey
        BY <2>1, <3>2, CloseTypes DEF Sign, CloseTyped, CloseTypeOK
      <4> QED
        BY <2>1, <3>2, <4>1, <4>2 DEF Sign, CloseTyped, CloseTypeOK, Checkpoint
    <3> QED
      BY <3>1, <3>2
  <2>2. CASE ~Sign(t)
    BY <2>2 DEF Barrier, ClickBegin, Freeze, Drain, Release, Finish, Unfreeze, deviceVars, CloseTyped,
                CloseTypeOK
  <2> QED
    BY <2>1, <2>2
<1>4. /\ view' \in [Tab -> View]
      /\ \A u \in Tab : view'[u].status = "CLOSING" => view'[u].attempt # 0
  <2>1. CASE Release(t)
    <3> DEFINE v == [status |-> "OPEN", attempt |-> 0, lastAborted |-> 0, shown |-> NoRow]
    <3>1. v \in View
      BY CloseTypes DEF View, SessionStatus, Active
    <3>2. view' = [view EXCEPT ![t] = v] /\ v.status = "OPEN"
      BY <2>1 DEF Release, See
    <3> HIDE DEF v
    <3> QED
      BY <3>1, <3>2 DEF CloseTyped, CloseTypeOK
  <2>2. CASE ~Release(t)
    <3>1. view' = view
      BY <2>2 DEF Barrier, ClickBegin, Freeze, Drain, Sign, Finish
    <3> QED
      BY <3>1 DEF CloseTyped, CloseTypeOK
  <2> QED
    BY <2>1, <2>2
<1>5. /\ signed' \in [Tab -> Checkpoint \cup {NoRow}]
      /\ step' \in [Tab -> {"idle", "freeze", "drain", "sign", "send", "release", "finish"}]
      /\ \A u \in Tab : step'[u] = "send" => signed'[u] # NoRow
  <2>1. CASE Sign(t)
    <3>1. kept' # NoRow
      <4>1. CASE kept = NoRow
        <5>1. kept' = [seq |-> Len(sealed), key |-> keys + 1]
          BY <2>1, <4>1 DEF Sign
        <5>2. Len(sealed) \in 0..MaxOperation /\ keys + 1 \in 1..MaxKey
          BY <2>1, <4>1, CloseTypes DEF Sign, Drained, CloseTyped, CloseTypeOK
        <5>3. kept' \in Checkpoint
          BY <5>1, <5>2 DEF Checkpoint
        <5> QED
          BY <5>3, CloseAssumption
      <4>2. CASE kept # NoRow
        BY <2>1, <4>2 DEF Sign
      <4> QED
        BY <4>1, <4>2
    <3>2. signed' = [signed EXCEPT ![t] = kept'] /\ step' = [step EXCEPT ![t] = "send"]
      BY <2>1 DEF Sign, Goto
    <3> QED
      BY <1>3, <3>1, <3>2 DEF CloseTyped, CloseTypeOK
  <2>2. CASE ~Sign(t)
    <3>1. /\ signed' = signed
          /\ \E place \in {"idle", "freeze", "drain", "sign"} : step' = [step EXCEPT ![t] = place]
      BY <2>2 DEF Barrier, ClickBegin, Freeze, Drain, Release, Finish, Goto
    <3> QED
      BY <3>1 DEF CloseTyped, CloseTypeOK
  <2> QED
    BY <2>1, <2>2
<1>6. CloseTypeOK'
  BY <1>1, <1>2, <1>3, <1>4, <1>5 DEF CloseTyped, CloseTypeOK
<1> QED
  BY <1>1, <1>2, <1>4, <1>5, <1>6 DEF CloseTyped

(* A command sent to the server, and its answer.                           *)
LEMMA AnswerTyped ==
  ASSUME CloseTyped, NEW t \in Tab, NEW command, NEW v \in View,
         NEW place \in {"idle", "release", "finish"},
         v.status = "CLOSING" => v.attempt # 0,
         Answer(t, command, place, v), UNCHANGED signed
  PROVE  /\ view' \in [Tab -> View]
         /\ step' \in [Tab -> {"idle", "freeze", "drain", "sign", "send", "release", "finish"}]
         /\ \A u \in Tab : /\ step'[u] = "send" => signed'[u] # NoRow
                           /\ view'[u].status = "CLOSING" => view'[u].attempt # 0
<1>1. view' = view \/ view' = [view EXCEPT ![t] = v]
  BY DEF Answer, See
<1>2. \E p \in {"idle", "release", "finish"} : step' = [step EXCEPT ![t] = p]
  BY DEF Answer, Goto
<1>3. view \in [Tab -> View] /\ \A u \in Tab : view[u].status = "CLOSING" => view[u].attempt # 0
  BY DEF CloseTyped, CloseTypeOK
<1>4. view' \in [Tab -> View] /\ \A u \in Tab : view'[u].status = "CLOSING" => view'[u].attempt # 0
  BY <1>1, <1>3
<1>5. /\ step' \in [Tab -> {"idle", "freeze", "drain", "sign", "send", "release", "finish"}]
      /\ \A u \in Tab : step'[u] = "send" => signed'[u] # NoRow
  BY <1>2 DEF CloseTyped, CloseTypeOK
<1> QED
  BY <1>4, <1>5

(* The rest of CloseTyped, when nothing is sealed and nothing arrives.     *)
LEMMA Wrap ==
  ASSUME CloseTyped, ServerTyped', UNCHANGED <<sealed, operations>>,
         frozen' \in BOOLEAN, kept' \in Checkpoint \cup {NoRow}, keys' \in 0..MaxKey,
         begun' \in [1..MaxKey -> 1..MaxAttempt \cup {NoRow}], abortKeys' \subseteq 1..MaxAttempt,
         view' \in [Tab -> View],
         step' \in [Tab -> {"idle", "freeze", "drain", "sign", "send", "release", "finish"}],
         signed' \in [Tab -> Checkpoint \cup {NoRow}],
         \A u \in Tab : /\ step'[u] = "send" => signed'[u] # NoRow
                        /\ view'[u].status = "CLOSING" => view'[u].attempt # 0
  PROVE  CloseTyped'
<1>1. CashTypeOK' /\ sealed' \in Seq(Nat)
  BY DEF ServerTyped, CashInv, CloseTyped, CloseTypeOK
<1>2. CloseTypeOK'
  BY <1>1 DEF CloseTypeOK
<1>3. Received' <= Len(sealed') /\ Received' <= MaxOperation
  BY DEF CloseTyped, Received, DeviceOf
<1> QED
  BY <1>2, <1>3 DEF CloseTyped

(* What a tab sends begin-close with.                                      *)
LEMMA SendsBegin ==
  ASSUME CloseTyped, NEW t \in Tab, SendBegin(t)
  PROVE  /\ signed[t] \in Checkpoint /\ signed[t].key \in 1..MaxKey /\ signed[t].seq \in Nat
         /\ \/ begun[signed[t].key] # NoRow /\ UNCHANGED <<cashVars, begun>>
            \/ /\ begun[signed[t].key] = NoRow
               /\ Begins(signed[t].seq)
               /\ begun' = [begun EXCEPT ![signed[t].key] = Len(attempts')]
<1>1. signed[t] \in Checkpoint
  BY CloseTypes DEF SendBegin, CloseTyped
<1>2. signed[t].key \in 1..MaxKey /\ signed[t].seq \in 0..MaxOperation
  BY <1>1 DEF Checkpoint
<1> QED
  BY <1>1, <1>2 DEF SendBegin, Begins

LEMMA SendBeginTyped ==
  ASSUME CloseTyped, NEW t \in Tab, SendBegin(t)
  PROVE  CloseTyped'
<1> DEFINE v == [status |-> "CLOSING", attempt |-> begun'[signed[t].key], lastAborted |-> 0, shown |-> NoRow]
<1>1. /\ signed[t].key \in 1..MaxKey /\ signed[t].seq \in Nat
      /\ \/ begun[signed[t].key] # NoRow /\ UNCHANGED <<cashVars, begun>>
         \/ /\ begun[signed[t].key] = NoRow
            /\ Begins(signed[t].seq)
            /\ begun' = [begun EXCEPT ![signed[t].key] = Len(attempts')]
  BY SendsBegin
<1>2. begun \in [1..MaxKey -> 1..MaxAttempt \cup {NoRow}]
  BY DEF CloseTyped, CloseTypeOK
<1>3. /\ ServerTyped' /\ UNCHANGED operations
      /\ begun' \in [1..MaxKey -> 1..MaxAttempt \cup {NoRow}]
      /\ begun'[signed[t].key] \in 1..MaxAttempt
  <2>1. CASE begun[signed[t].key] # NoRow /\ UNCHANGED <<cashVars, begun>>
    <3>1. ServerTyped' /\ UNCHANGED operations
      BY <2>1, ServerAlone DEF cashVars
    <3> QED
      BY <2>1, <3>1, <1>1, <1>2
  <2>2. CASE /\ Begins(signed[t].seq)
             /\ begun' = [begun EXCEPT ![signed[t].key] = Len(attempts')]
    <3>1. ServerTyped'
      BY <2>2, <1>1, ServerKeeps DEF CloseTyped
    <3>2. UNCHANGED operations /\ Len(attempts') \in 1..MaxAttempt
      BY <2>2, <1>1, Begun, CloseTypes
    <3> QED
      BY <2>2, <3>1, <3>2, <1>1, <1>2
  <2> QED
    BY <1>1, <2>1, <2>2
<1>4. v \in View /\ v.attempt # 0
  BY <1>3, CloseTypes DEF View, SessionStatus, Active
<1>5. Answer(t, "begin", "idle", v) /\ UNCHANGED <<sealed, frozen, kept, keys, abortKeys, signed>>
  BY DEF SendBegin
<1> HIDE DEF v
<1>6. /\ view' \in [Tab -> View]
      /\ step' \in [Tab -> {"idle", "freeze", "drain", "sign", "send", "release", "finish"}]
      /\ \A u \in Tab : /\ step'[u] = "send" => signed'[u] # NoRow
                        /\ view'[u].status = "CLOSING" => view'[u].attempt # 0
  BY <1>4, <1>5, AnswerTyped
<1>7. /\ frozen' \in BOOLEAN /\ kept' \in Checkpoint \cup {NoRow} /\ keys' \in 0..MaxKey
      /\ abortKeys' \subseteq 1..MaxAttempt /\ signed' \in [Tab -> Checkpoint \cup {NoRow}]
      /\ UNCHANGED sealed
  BY <1>5 DEF CloseTyped, CloseTypeOK
<1> QED
  BY <1>3, <1>6, <1>7, Wrap

(* The attempt a tab that shows CLOSING names.                             *)
LEMMA Named ==
  ASSUME CloseTyped, NEW t \in Tab, view[t].status = "CLOSING"
  PROVE  view[t].attempt \in 1..MaxAttempt /\ view[t] \in View
BY CloseTypes DEF View, CloseTyped

LEMMA SendsFinalSync ==
  ASSUME CloseTyped, NEW t \in Tab, SendFinalSync(t)
  PROVE  /\ Syncs(view[t].attempt) \/ UNCHANGED cashVars
         /\ view[t].status = "CLOSING" /\ step[t] = "idle"
BY DEF SendFinalSync, Syncs

LEMMA SendFinalSyncTyped ==
  ASSUME CloseTyped, NEW t \in Tab, SendFinalSync(t)
  PROVE  CloseTyped'
<1> DEFINE n == view[t].attempt
<1>1. (Syncs(n) \/ UNCHANGED cashVars) /\ view[t].status = "CLOSING"
  BY SendsFinalSync
<1>2. n \in 1..MaxAttempt /\ view[t] \in View
  BY <1>1, Named
<1>3. ServerTyped' /\ UNCHANGED operations
  BY <1>1, <1>2, ServerKeeps, Syncing DEF CloseTyped, cashVars
<1>4. finals'[n] \in Nat \cup {NoRow}
  BY <1>2, <1>3 DEF ServerTyped, CashInv, CashTypeOK
<1>5. view' = [view EXCEPT ![t] = [view[t] EXCEPT !.shown = finals'[n]]]
  BY DEF SendFinalSync, See
<1>6. PICK x \in Nat \cup {NoRow} : view' = [view EXCEPT ![t] = [view[t] EXCEPT !.shown = x]]
  BY <1>4, <1>5
<1>7. /\ [view[t] EXCEPT !.shown = x] \in View
      /\ [view[t] EXCEPT !.shown = x].attempt # 0
  BY <1>2 DEF View
<1>8. /\ view' \in [Tab -> View]
      /\ \A u \in Tab : view'[u].status = "CLOSING" => view'[u].attempt # 0
  BY <1>6, <1>7 DEF CloseTyped, CloseTypeOK
<1>9. UNCHANGED <<sealed, frozen, kept, keys, begun, abortKeys, step, signed>>
  BY DEF SendFinalSync, deviceVars
<1>10. /\ frozen' \in BOOLEAN /\ kept' \in Checkpoint \cup {NoRow} /\ keys' \in 0..MaxKey
       /\ begun' \in [1..MaxKey -> 1..MaxAttempt \cup {NoRow}] /\ abortKeys' \subseteq 1..MaxAttempt
       /\ step' \in [Tab -> {"idle", "freeze", "drain", "sign", "send", "release", "finish"}]
       /\ signed' \in [Tab -> Checkpoint \cup {NoRow}]
       /\ \A u \in Tab : step'[u] = "send" => signed'[u] # NoRow
  BY <1>9 DEF CloseTyped, CloseTypeOK
<1> QED
  BY <1>3, <1>8, <1>9, <1>10, Wrap

LEMMA SendsClose ==
  ASSUME CloseTyped, NEW t \in Tab, SendClose(t)
  PROVE  /\ Closes(view[t].attempt) \/ UNCHANGED cashVars
         /\ view[t].status = "CLOSING" /\ step[t] = "idle"
         /\ Answer(t, "close", "finish", [view[t] EXCEPT !.status = "CLOSED"])
<1>1. /\ view[t].shown # NoRow /\ view[t].status = "CLOSING" /\ step[t] = "idle"
      /\ Answer(t, "close", "finish", [view[t] EXCEPT !.status = "CLOSED"])
      /\ Close(Cashier, Cash, view[t].attempt, view[t].shown, view[t].shown) \/ UNCHANGED cashVars
  BY DEF SendClose
<1>2. view[t].shown \in Nat
  BY <1>1, CloseTypes DEF View
<1> QED
  BY <1>1, <1>2 DEF Closes

LEMMA SendCloseTyped ==
  ASSUME CloseTyped, NEW t \in Tab, SendClose(t)
  PROVE  CloseTyped'
<1> DEFINE n == view[t].attempt
           v == [view[t] EXCEPT !.status = "CLOSED"]
<1>1. /\ Closes(n) \/ UNCHANGED cashVars
      /\ view[t].status = "CLOSING" /\ Answer(t, "close", "finish", v)
  BY SendsClose
<1>2. n \in 1..MaxAttempt /\ view[t] \in View
  BY <1>1, Named
<1>3. ServerTyped' /\ UNCHANGED operations
  BY <1>1, <1>2, ServerKeeps, Settling DEF CloseTyped, cashVars
<1>4. v \in View /\ v.attempt # 0
  BY <1>2 DEF View, SessionStatus, Settled
<1>5. UNCHANGED <<sealed, frozen, kept, keys, begun, abortKeys, signed>>
  BY DEF SendClose, deviceVars
<1> HIDE DEF v
<1>6. /\ view' \in [Tab -> View]
      /\ step' \in [Tab -> {"idle", "freeze", "drain", "sign", "send", "release", "finish"}]
      /\ \A u \in Tab : /\ step'[u] = "send" => signed'[u] # NoRow
                        /\ view'[u].status = "CLOSING" => view'[u].attempt # 0
  BY <1>1, <1>4, <1>5, AnswerTyped
<1>7. /\ frozen' \in BOOLEAN /\ kept' \in Checkpoint \cup {NoRow} /\ keys' \in 0..MaxKey
      /\ begun' \in [1..MaxKey -> 1..MaxAttempt \cup {NoRow}]
      /\ abortKeys' \subseteq 1..MaxAttempt /\ signed' \in [Tab -> Checkpoint \cup {NoRow}]
      /\ UNCHANGED sealed
  BY <1>5 DEF CloseTyped, CloseTypeOK
<1> QED
  BY <1>3, <1>6, <1>7, Wrap

LEMMA SendAbortTyped ==
  ASSUME CloseTyped, NEW t \in Tab, SendAbort(t)
  PROVE  CloseTyped'
<1> DEFINE n == view[t].attempt
<1>1. /\ Aborts(n) \/ UNCHANGED cashVars
      /\ view[t].status = "CLOSING" /\ Answer(t, "abort", "release", view[t])
      /\ abortKeys' = abortKeys \cup {n}
      /\ UNCHANGED <<sealed, frozen, kept, keys, begun, signed>>
  BY DEF SendAbort, Aborts
<1>2. n \in 1..MaxAttempt /\ view[t] \in View
  BY <1>1, Named
<1>3. ServerTyped' /\ UNCHANGED operations
  BY <1>1, <1>2, ServerKeeps, Aborting DEF CloseTyped, cashVars
<1>4. n # 0
  BY <1>2
<1>6. /\ view' \in [Tab -> View]
      /\ step' \in [Tab -> {"idle", "freeze", "drain", "sign", "send", "release", "finish"}]
      /\ \A u \in Tab : /\ step'[u] = "send" => signed'[u] # NoRow
                        /\ view'[u].status = "CLOSING" => view'[u].attempt # 0
  BY <1>1, <1>2, <1>4, AnswerTyped
<1>7. /\ frozen' \in BOOLEAN /\ kept' \in Checkpoint \cup {NoRow} /\ keys' \in 0..MaxKey
      /\ begun' \in [1..MaxKey -> 1..MaxAttempt \cup {NoRow}]
      /\ abortKeys' \subseteq 1..MaxAttempt /\ signed' \in [Tab -> Checkpoint \cup {NoRow}]
      /\ UNCHANGED sealed
  BY <1>1, <1>2 DEF CloseTyped, CloseTypeOK
<1> QED
  BY <1>3, <1>6, <1>7, Wrap

(* The tabs themselves.                                                    *)
LEMMA ReloadTyped ==
  ASSUME CloseTyped, NEW t \in Tab, Reload(t)
  PROVE  CloseTyped'
<1>1. /\ UNCHANGED <<cashVars, sealed, frozen, kept, keys, begun, abortKeys>>
      /\ view' = [view EXCEPT ![t] = Shown] /\ step' = [step EXCEPT ![t] = "idle"]
      /\ signed' = [signed EXCEPT ![t] = NoRow]
  BY DEF Reload, See, Goto, deviceVars
<1>2. ServerTyped' /\ UNCHANGED operations
  BY <1>1, ServerAlone DEF cashVars
<1>3. status[Cash] = "CLOSING" => attempt[Cash] \in 1..MaxAttempt
  BY CloseTypes DEF CloseTyped, ServerTyped, CashInv, ClosingByLastAttempt, LastOf
<1>4. status[Cash] = "CLOSING" => finals[attempt[Cash]] \in Nat \cup {NoRow}
  BY <1>3 DEF CloseTyped, CloseTypeOK, CashTypeOK
<1>5. LastAborted \in 0..MaxAttempt
  BY CloseTypes DEF LastAborted
<1>6. Shown \in View /\ (Shown.status = "CLOSING" => Shown.attempt # 0)
  BY <1>3, <1>4, <1>5, CloseTypes DEF Shown, View
<1>7. /\ view' \in [Tab -> View]
      /\ \A u \in Tab : view'[u].status = "CLOSING" => view'[u].attempt # 0
  BY <1>1, <1>6 DEF CloseTyped, CloseTypeOK
<1>8. /\ frozen' \in BOOLEAN /\ kept' \in Checkpoint \cup {NoRow} /\ keys' \in 0..MaxKey
      /\ begun' \in [1..MaxKey -> 1..MaxAttempt \cup {NoRow}] /\ abortKeys' \subseteq 1..MaxAttempt
      /\ step' \in [Tab -> {"idle", "freeze", "drain", "sign", "send", "release", "finish"}]
      /\ signed' \in [Tab -> Checkpoint \cup {NoRow}]
      /\ \A u \in Tab : step'[u] = "send" => signed'[u] # NoRow
  BY <1>1 DEF CloseTyped, CloseTypeOK
<1> QED
  BY <1>1, <1>2, <1>7, <1>8, Wrap

LEMMA TabTyped ==
  ASSUME CloseTyped, NEW t \in Tab, Consolidate(t) \/ Fail(t)
  PROVE  CloseTyped'
<1>1. /\ UNCHANGED <<cashVars, deviceVars, view, signed>>
      /\ \E p \in {"idle", "finish"} : step' = [step EXCEPT ![t] = p]
  BY DEF Consolidate, Fail, Goto
<1>2. ServerTyped' /\ UNCHANGED <<operations, sealed>>
  BY <1>1, ServerAlone DEF cashVars, deviceVars
<1>3. /\ frozen' \in BOOLEAN /\ kept' \in Checkpoint \cup {NoRow} /\ keys' \in 0..MaxKey
      /\ begun' \in [1..MaxKey -> 1..MaxAttempt \cup {NoRow}] /\ abortKeys' \subseteq 1..MaxAttempt
      /\ view' \in [Tab -> View]
  BY <1>1 DEF CloseTyped, CloseTypeOK, deviceVars
<1>4. /\ step' \in [Tab -> {"idle", "freeze", "drain", "sign", "send", "release", "finish"}]
      /\ signed' \in [Tab -> Checkpoint \cup {NoRow}]
      /\ \A u \in Tab : /\ step'[u] = "send" => signed'[u] # NoRow
                        /\ view'[u].status = "CLOSING" => view'[u].attempt # 0
  BY <1>1 DEF CloseTyped, CloseTypeOK
<1> QED
  BY <1>2, <1>3, <1>4, Wrap

LEMMA CloseTypedKept ==
  ASSUME CloseTyped, [CloseNext]_closingVars
  PROVE  CloseTyped'
<1>1. CASE UNCHANGED closingVars
  <2>1. UNCHANGED <<cashVars, deviceVars, tabVars>>
    BY <1>1 DEF closingVars
  <2>2. ServerTyped' /\ CashTypeOK' /\ Received' = Received
    BY <2>1, ServerAlone
  <2> QED
    BY <2>1, <2>2 DEF CloseTyped, CloseTypeOK, deviceVars, tabVars
<1>2. ASSUME NEW c \in Amount \cup {0}, SealSale(c) PROVE CloseTyped'
  BY <1>2, SealSaleTyped, CashAssumption
<1>3. ASSUME NEW t \in Tab, Barrier(t) \/ Send(t) \/ Consolidate(t) \/ Fail(t) \/ Reload(t)
      PROVE  CloseTyped'
  BY <1>3, BarrierTyped, SendBeginTyped, SendFinalSyncTyped, SendCloseTyped, SendAbortTyped, TabTyped,
     ReloadTyped DEF Send
<1> QED
  BY <1>1, <1>2, <1>3, DeliverTyped DEF CloseNext

(* Whatever the tabs do, the server's rows are those of CashSession's      *)
(* invariant, and the stores of the device have their shapes               *)
(* (cash-closing.tsx, offline-close.ts).                                   *)
THEOREM CloseTypeCorrect == CloseSpec => [](CloseTypeOK /\ CashInv)
<1>1. CloseTyped => CloseTypeOK /\ CashInv
  BY DEF CloseTyped, ServerTyped
<1> QED
  BY <1>1, CloseInitTyped, CloseTypedKept, PTL DEF CloseSpec

-----------------------------------------------------------------------------
(***************************************************************************)
(* One page, and answers to begin-close that arrive: while the server has  *)
(* the session closing or closed, the attempt it is in covers all that is  *)
(* sealed, and the page knows of it; so the page lifts the freeze only     *)
(* when the server has the session open.  With a second page, or an answer *)
(* to begin-close that is lost, a page may show an abort that is no longer *)
(* the latest word, and both properties fail (cash_close_lost_begin).      *)
(***************************************************************************)
Ending == status[Cash] \in {"CLOSING", "CLOSED"}

Beginning(t) == step[t] \in {"freeze", "drain", "sign", "send"}

ServerTrue ==
  /\ Ending =>
       /\ frozen
       /\ attempt[Cash] = Len(attempts) /\ Len(attempts) # 0 /\ Len(attempts) \notin abortKeys
       /\ attempts[Len(attempts)].seq = Len(sealed)
  /\ status[Cash] = "CLOSED" => Drained
  /\ \A n \in abortKeys : n <= Len(attempts)

(* A kept checkpoint is of all that is sealed; no key is answered before   *)
(* it is drawn.                                                            *)
DeviceTrue ==
  /\ kept # NoRow => frozen /\ kept.seq = Len(sealed) /\ kept.key <= keys
  /\ \A k \in 1..MaxKey : k > keys \/ attempts = <<>> => begun[k] = NoRow

(* A checkpoint that is kept is not begun yet, unless the page shows the   *)
(* abort that will have it dropped.                                        *)
PageTrue(t) ==
  /\ view[t].status = "OPEN" => ~Ending
  /\ view[t].status = "CLOSING" => view[t].attempt = Len(attempts)
  /\ Beginning(t) => view[t].status = "OPEN"
  /\ Beginning(t) /\ step[t] # "freeze" => frozen
  /\ step[t] = "send" => kept # NoRow /\ signed[t] = kept
  /\ kept # NoRow /\ view[t].status = "OPEN" /\ (view[t].lastAborted = 0 \/ Beginning(t))
       => begun[kept.key] = NoRow
  /\ step[t] = "release" => ~Ending

CloseTrue(t) == CloseTyped /\ ServerTrue /\ DeviceTrue /\ PageTrue(t)

LEMMA CloseInitTrue ==
  ASSUME NEW t \in Tab, CloseInit
  PROVE  CloseTrue(t)
<1>1. CloseTyped
  BY CloseInitTyped
<1>2. /\ ~Ending /\ status[Cash] # "CLOSED" /\ abortKeys = {} /\ kept = NoRow
      /\ begun = [k \in 1..MaxKey |-> NoRow]
      /\ view[t].status = "NONE" /\ step[t] = "idle"
  BY CloseAssumption DEF CloseInit, CashInit, Ending
<1> QED
  BY <1>1, <1>2 DEF CloseTrue, ServerTrue, DeviceTrue, PageTrue, Beginning

(* A step that leaves the server and all that is sealed alone.             *)
LEMMA LeftAlone ==
  ASSUME UNCHANGED cashVars
  PROVE  /\ UNCHANGED <<status, attempt, attempts, operations>>
         /\ Ending' = Ending /\ Received' = Received
BY DEF cashVars, moneyVars, closeVars, Ending, Received, DeviceOf

LEMMA SealSaleTrue ==
  ASSUME NEW t \in Tab, CloseTrue(t), NEW c \in Nat, SealSale(c)
  PROVE  ServerTrue' /\ DeviceTrue' /\ PageTrue(t)'
<1>1. /\ ~frozen
      /\ UNCHANGED <<cashVars, frozen, kept, keys, begun, abortKeys, view, step, signed>>
  BY DEF SealSale, MaySeal, tabVars
<1>2. UNCHANGED <<status, attempt, attempts, operations>> /\ Ending' = Ending
  BY <1>1, LeftAlone
<1>3. ~Ending /\ kept = NoRow
  BY <1>1 DEF CloseTrue, ServerTrue, DeviceTrue
<1>4. ServerTrue' /\ DeviceTrue'
  BY <1>1, <1>2, <1>3 DEF CloseTrue, ServerTrue, DeviceTrue, Ending
<1>5. PageTrue(t)'
  BY <1>1, <1>2, <1>3 DEF CloseTrue, PageTrue, Beginning
<1> QED
  BY <1>4, <1>5

LEMMA DeliverTrue ==
  ASSUME NEW t \in Tab, CloseTrue(t), Deliver
  PROVE  ServerTrue' /\ DeviceTrue' /\ PageTrue(t)'
<1>1. Arrives /\ UNCHANGED <<deviceVars, tabVars>>
  BY DeliverArrives DEF CloseTrue
<1>2. ~Ending /\ ~Ending' /\ UNCHANGED <<attempts, attempt>>
  BY <1>1, Arrived DEF CloseTrue, Ending, closeVars
<1>3. UNCHANGED <<sealed, frozen, kept, keys, begun, abortKeys, view, step, signed>>
  BY <1>1 DEF deviceVars, tabVars
<1>4. ServerTrue' /\ DeviceTrue'
  BY <1>2, <1>3 DEF CloseTrue, ServerTrue, DeviceTrue, Ending
<1>5. PageTrue(t)'
  BY <1>2, <1>3 DEF CloseTrue, PageTrue, Beginning
<1> QED
  BY <1>4, <1>5

(* The barrier.                                                            *)
LEMMA StepIs ==
  ASSUME CloseTyped, NEW t \in Tab, NEW place, Goto(t, place)
  PROVE  step'[t] = place
BY DEF CloseTyped, CloseTypeOK, Goto

LEMMA ViewIs ==
  ASSUME CloseTyped, NEW t \in Tab, NEW v, See(t, v)
  PROVE  view'[t] = v
BY DEF CloseTyped, CloseTypeOK, See

LEMMA ClickBeginTrue ==
  ASSUME NEW t \in Tab, CloseTrue(t), ClickBegin(t)
  PROVE  ServerTrue' /\ DeviceTrue' /\ PageTrue(t)'
<1>1. /\ step[t] = "idle" /\ view[t].status = "OPEN"
      /\ UNCHANGED <<cashVars, sealed, keys, begun, abortKeys, view, signed>>
      /\ \/ view[t].lastAborted # 0 /\ frozen' = FALSE /\ kept' = NoRow
         \/ view[t].lastAborted = 0 /\ UNCHANGED <<frozen, kept>>
  BY DEF ClickBegin, Unfreeze
<1>2. step'[t] = "freeze"
  BY StepIs DEF ClickBegin, CloseTrue
<1>3. /\ UNCHANGED <<status, attempt, attempts, operations>> /\ Ending' = Ending
      /\ Received' = Received
  BY <1>1, LeftAlone
<1>4. ~Ending
  BY <1>1 DEF CloseTrue, PageTrue
<1>5. ServerTrue' /\ DeviceTrue'
  BY <1>1, <1>3, <1>4 DEF CloseTrue, ServerTrue, DeviceTrue, Ending
<1>6. PageTrue(t)'
  BY <1>1, <1>2, <1>3, <1>4 DEF CloseTrue, PageTrue, Beginning
<1> QED
  BY <1>5, <1>6

LEMMA FreezeTrue ==
  ASSUME NEW t \in Tab, CloseTrue(t), Freeze(t)
  PROVE  ServerTrue' /\ DeviceTrue' /\ PageTrue(t)'
<1>1. /\ step[t] = "freeze" /\ frozen' = TRUE
      /\ UNCHANGED <<cashVars, sealed, kept, keys, begun, abortKeys, view, signed>>
  BY DEF Freeze
<1>2. step'[t] = "drain"
  BY StepIs DEF Freeze, CloseTrue
<1>3. /\ UNCHANGED <<status, attempt, attempts, operations>> /\ Ending' = Ending
      /\ Received' = Received
  BY <1>1, LeftAlone
<1>4. ServerTrue' /\ DeviceTrue'
  BY <1>1, <1>3 DEF CloseTrue, ServerTrue, DeviceTrue, Ending, Drained
<1>5. PageTrue(t)'
  BY <1>1, <1>2, <1>3 DEF CloseTrue, PageTrue, Beginning
<1> QED
  BY <1>4, <1>5

LEMMA DrainTrue ==
  ASSUME NEW t \in Tab, CloseTrue(t), Drain(t)
  PROVE  ServerTrue' /\ DeviceTrue' /\ PageTrue(t)'
<1>1. step[t] = "drain" /\ UNCHANGED <<cashVars, deviceVars, view, signed>>
  BY DEF Drain
<1>2. step'[t] = "sign"
  BY StepIs DEF Drain, CloseTrue
<1>3. /\ UNCHANGED <<status, attempt, attempts, operations>> /\ Ending' = Ending
      /\ Received' = Received
  BY <1>1, LeftAlone
<1>4. UNCHANGED <<sealed, frozen, kept, keys, begun, abortKeys>>
  BY <1>1 DEF deviceVars
<1>5. ServerTrue' /\ DeviceTrue'
  BY <1>3, <1>4 DEF CloseTrue, ServerTrue, DeviceTrue, Ending, Drained
<1>6. PageTrue(t)'
  BY <1>1, <1>2, <1>3, <1>4 DEF CloseTrue, PageTrue, Beginning
<1> QED
  BY <1>5, <1>6

LEMMA SignTrue ==
  ASSUME NEW t \in Tab, CloseTrue(t), Sign(t)
  PROVE  ServerTrue' /\ DeviceTrue' /\ PageTrue(t)'
<1>1. /\ step[t] = "sign"
      /\ signed' = [signed EXCEPT ![t] = kept']
      /\ UNCHANGED <<cashVars, sealed, frozen, begun, abortKeys, view>>
  BY DEF Sign
<1>2. step'[t] = "send" /\ signed'[t] = kept'
  BY <1>1, StepIs DEF Sign, CloseTrue, CloseTyped, CloseTypeOK
<1>3. /\ UNCHANGED <<status, attempt, attempts, operations>> /\ Ending' = Ending
      /\ Received' = Received
  BY <1>1, LeftAlone
<1>4. CloseTyped'
  BY BarrierTyped DEF Barrier, CloseTrue
<1>5. kept' # NoRow
  BY <1>2, <1>4 DEF CloseTyped
<1>6. frozen /\ view[t].status = "OPEN"
  BY <1>1 DEF CloseTrue, PageTrue, Beginning
<1>7. CASE kept # NoRow /\ UNCHANGED <<keys, kept>>
  <2>1. ServerTrue' /\ DeviceTrue'
    BY <1>1, <1>3, <1>7 DEF CloseTrue, ServerTrue, DeviceTrue, Ending, Drained
  <2>2. begun[kept.key] = NoRow
    BY <1>1, <1>6, <1>7 DEF CloseTrue, PageTrue, Beginning
  <2>3. PageTrue(t)'
    BY <1>1, <1>2, <1>3, <1>5, <1>6, <1>7, <2>2 DEF CloseTrue, PageTrue, Beginning
  <2> QED
    BY <2>1, <2>3
<1>8. CASE /\ kept = NoRow /\ keys < MaxKey /\ keys' = keys + 1
           /\ kept' = [seq |-> Len(sealed), key |-> keys + 1]
  <2>1. keys \in Nat /\ keys + 1 \in 1..MaxKey /\ keys + 1 > keys
    BY <1>8, CloseTypes DEF CloseTrue, CloseTyped, CloseTypeOK
  <2>2. kept'.seq = Len(sealed) /\ kept'.key = keys + 1
    BY <1>8
  <2>3. begun[keys + 1] = NoRow
    BY <2>1 DEF CloseTrue, DeviceTrue
  <2>4. DeviceTrue'
    <3>1. ASSUME NEW k \in 1..MaxKey, k > keys + 1 \/ attempts = <<>> PROVE begun[k] = NoRow
      BY <3>1, <2>1 DEF CloseTrue, DeviceTrue
    <3> QED
      BY <1>1, <1>3, <1>6, <1>8, <2>1, <2>2, <3>1 DEF DeviceTrue
  <2>5. ServerTrue'
    BY <1>1, <1>3 DEF CloseTrue, ServerTrue, Ending, Drained
  <2>6. PageTrue(t)'
    BY <1>1, <1>2, <1>3, <1>5, <1>6, <2>2, <2>3 DEF CloseTrue, PageTrue, Beginning
  <2> QED
    BY <2>4, <2>5, <2>6
<1> QED
  BY <1>7, <1>8 DEF Sign

LEMMA ReleaseTrue ==
  ASSUME NEW t \in Tab, CloseTrue(t), Release(t)
  PROVE  ServerTrue' /\ DeviceTrue' /\ PageTrue(t)'
<1> DEFINE v == [status |-> "OPEN", attempt |-> 0, lastAborted |-> 0, shown |-> NoRow]
<1>1. /\ step[t] = "release" /\ frozen' = FALSE /\ kept' = NoRow
      /\ abortKeys' = abortKeys \ {view[t].attempt}
      /\ UNCHANGED <<cashVars, sealed, keys, begun, signed>>
  BY DEF Release, Unfreeze
<1>2. step'[t] = "idle" /\ view'[t] = v
  BY StepIs, ViewIs DEF Release, CloseTrue
<1>3. /\ UNCHANGED <<status, attempt, attempts, operations>> /\ Ending' = Ending
      /\ Received' = Received
  BY <1>1, LeftAlone
<1>4. ~Ending
  BY <1>1 DEF CloseTrue, PageTrue
<1>5. ServerTrue' /\ DeviceTrue'
  BY <1>1, <1>3, <1>4 DEF CloseTrue, ServerTrue, DeviceTrue, Ending
<1>6. view'[t].status = "OPEN"
  BY <1>2
<1>7. PageTrue(t)'
  BY <1>1, <1>2, <1>3, <1>4, <1>6 DEF PageTrue, Beginning
<1> QED
  BY <1>5, <1>7

LEMMA FinishTrue ==
  ASSUME NEW t \in Tab, CloseTrue(t), Finish(t)
  PROVE  ServerTrue' /\ DeviceTrue' /\ PageTrue(t)'
<1>1. /\ frozen' = TRUE /\ kept' = NoRow
      /\ UNCHANGED <<cashVars, sealed, keys, begun, abortKeys, view, signed>>
  BY DEF Finish
<1>2. step'[t] = "idle"
  BY StepIs DEF Finish, CloseTrue
<1>3. /\ UNCHANGED <<status, attempt, attempts, operations>> /\ Ending' = Ending
      /\ Received' = Received
  BY <1>1, LeftAlone
<1>4. ServerTrue' /\ DeviceTrue'
  BY <1>1, <1>3 DEF CloseTrue, ServerTrue, DeviceTrue, Ending, Drained
<1>5. PageTrue(t)'
  BY <1>1, <1>2, <1>3 DEF CloseTrue, PageTrue, Beginning
<1> QED
  BY <1>4, <1>5

(* The commands.                                                           *)
LEMMA SendBeginTrue ==
  ASSUME NEW t \in Tab, CloseTrue(t), SendBegin(t), "begin" \notin Losable
  PROVE  ServerTrue' /\ DeviceTrue' /\ PageTrue(t)'
<1> DEFINE k == signed[t].key
<1>1. /\ step[t] = "send"
      /\ UNCHANGED <<sealed, frozen, kept, keys, abortKeys, signed>>
      /\ See(t, [status |-> "CLOSING", attempt |-> begun'[k], lastAborted |-> 0, shown |-> NoRow])
      /\ Goto(t, "idle")
  BY DEF SendBegin, Answer
<1>2. frozen /\ kept # NoRow /\ signed[t] = kept /\ kept.seq = Len(sealed) /\ view[t].status = "OPEN"
      /\ begun[k] = NoRow /\ k <= keys
  BY <1>1 DEF CloseTrue, DeviceTrue, PageTrue, Beginning
<1>3. /\ k \in 1..MaxKey /\ signed[t].seq \in Nat /\ Begins(signed[t].seq)
      /\ begun' = [begun EXCEPT ![k] = Len(attempts')]
  BY <1>2, SendsBegin DEF CloseTrue
<1>4. /\ Len(attempts') = Len(attempts) + 1 /\ attempt'[Cash] = Len(attempts')
      /\ attempts'[Len(attempts')].seq = Len(sealed)
      /\ status'[Cash] = "CLOSING"
  BY <1>2, <1>3, Begun DEF CloseTrue
<1>5. Len(attempts) \in Nat /\ begun \in [1..MaxKey -> 1..MaxAttempt \cup {NoRow}] /\ keys \in Nat
      /\ abortKeys \subseteq Nat
  BY CloseTypes DEF CloseTrue, CloseTyped, CloseTypeOK
<1>6. begun'[k] = Len(attempts') /\ \A j \in 1..MaxKey : j # k => begun'[j] = begun[j]
  BY <1>3, <1>5
<1>7. ServerTrue'
  <2>1. \A n \in abortKeys : n <= Len(attempts)
    BY DEF CloseTrue, ServerTrue
  <2>2. Len(attempts') # 0 /\ Len(attempts') \notin abortKeys
    BY <1>4, <1>5, <2>1
  <2>3. \A n \in abortKeys : n <= Len(attempts')
    BY <1>4, <1>5, <2>1
  <2> QED
    BY <1>1, <1>2, <1>4, <2>2, <2>3 DEF ServerTrue
<1>8. DeviceTrue'
  <2>1. attempts' # <<>>
    BY <1>4, <1>5
  <2>2. ASSUME NEW j \in 1..MaxKey, j > keys PROVE begun'[j] = NoRow
    <3>1. j # k
      BY <1>2, <1>5, <2>2, <1>3
    <3> QED
      BY <1>6, <2>2, <3>1 DEF CloseTrue, DeviceTrue
  <2> QED
    BY <1>1, <2>1, <2>2 DEF CloseTrue, DeviceTrue
<1>9. PageTrue(t)'
  <2>1. view'[t] = [status |-> "CLOSING", attempt |-> Len(attempts'), lastAborted |-> 0, shown |-> NoRow]
        /\ step'[t] = "idle"
    BY <1>1, <1>6, StepIs, ViewIs DEF CloseTrue
  <2> QED
    BY <2>1 DEF PageTrue, Beginning
<1> QED
  BY <1>7, <1>8, <1>9

LEMMA SendFinalSyncTrue ==
  ASSUME NEW t \in Tab, CloseTrue(t), SendFinalSync(t)
  PROVE  ServerTrue' /\ DeviceTrue' /\ PageTrue(t)'
<1>1. view[t].status = "CLOSING" /\ step[t] = "idle"
      /\ UNCHANGED <<sealed, frozen, kept, keys, begun, abortKeys, step, signed>>
      /\ See(t, [view[t] EXCEPT !.shown = finals'[view[t].attempt]])
  BY DEF SendFinalSync, deviceVars
<1>2. UNCHANGED <<status, attempt, attempts, operations>>
  BY SendsFinalSync, Syncing, LeftAlone DEF CloseTrue
<1>3. Ending' = Ending /\ Received' = Received
  BY <1>2 DEF Ending, Received, DeviceOf
<1>4. ServerTrue' /\ DeviceTrue'
  BY <1>1, <1>2, <1>3 DEF CloseTrue, ServerTrue, DeviceTrue, Ending, Drained
<1>5. view'[t] = [view[t] EXCEPT !.shown = finals'[view[t].attempt]] /\ view[t] \in View
  BY <1>1, ViewIs, CloseTypes DEF CloseTrue
<1>6. view'[t].status = "CLOSING" /\ view'[t].attempt = view[t].attempt
  BY <1>1, <1>5 DEF View
<1>7. PageTrue(t)'
  BY <1>1, <1>2, <1>3, <1>6 DEF CloseTrue, PageTrue, Beginning
<1> QED
  BY <1>4, <1>7

LEMMA SendCloseTrue ==
  ASSUME NEW t \in Tab, CloseTrue(t), SendClose(t)
  PROVE  ServerTrue' /\ DeviceTrue' /\ PageTrue(t)'
<1> DEFINE v == [view[t] EXCEPT !.status = "CLOSED"]
<1>1. /\ view[t].status = "CLOSING" /\ step[t] = "idle"
      /\ Closes(view[t].attempt) \/ UNCHANGED cashVars
      /\ Answer(t, "close", "finish", v)
  BY SendsClose DEF CloseTrue
<1>2. UNCHANGED <<sealed, frozen, kept, keys, begun, abortKeys, signed>>
  BY DEF SendClose, deviceVars
<1>3. v.status = "CLOSED"
  BY CloseTypes DEF CloseTrue, View
<1>4. /\ view'[t] = v \/ view'[t] = view[t]
      /\ step'[t] \in {"finish", "idle"}
  <2> HIDE DEF v
  <2> QED
    BY <1>1, StepIs, ViewIs DEF Answer, CloseTrue
<1>5. ServerTrue' /\ DeviceTrue' /\ UNCHANGED attempts
  <2>1. CASE UNCHANGED cashVars
    <3>1. /\ UNCHANGED <<status, attempt, attempts, operations>> /\ Ending' = Ending
          /\ Received' = Received
      BY <2>1, LeftAlone
    <3> QED
      BY <1>2, <3>1 DEF CloseTrue, ServerTrue, DeviceTrue, Ending, Drained
  <2>2. CASE Closes(view[t].attempt)
    <3>1. /\ status[Cash] = "CLOSING" /\ attempt[Cash] = view[t].attempt
          /\ Received = attempts[view[t].attempt].seq
          /\ status'[Cash] = "CLOSED" /\ attempt'[Cash] = view[t].attempt
          /\ UNCHANGED <<attempts, operations>>
      BY <2>2, Settling DEF CloseTrue
    <3>2. Received' = Received
      BY <3>1 DEF Received, DeviceOf
    <3> QED
      BY <1>2, <3>1, <3>2 DEF CloseTrue, ServerTrue, DeviceTrue, Ending, Drained
  <2> QED
    BY <1>1, <2>1, <2>2
<1>6. PageTrue(t)'
  <2>1. CASE view'[t] = v
    BY <1>2, <1>3, <1>4, <2>1 DEF PageTrue, Beginning
  <2>2. CASE view'[t] = view[t]
    BY <1>1, <1>2, <1>4, <1>5, <2>2 DEF CloseTrue, PageTrue, Beginning
  <2> QED
    BY <1>4, <2>1, <2>2
<1> QED
  BY <1>5, <1>6

LEMMA SendAbortTrue ==
  ASSUME NEW t \in Tab, CloseTrue(t), SendAbort(t)
  PROVE  ServerTrue' /\ DeviceTrue' /\ PageTrue(t)'
<1> DEFINE n == view[t].attempt
<1>1. /\ view[t].status = "CLOSING" /\ step[t] = "idle"
      /\ \/ n \in abortKeys /\ UNCHANGED cashVars
         \/ Aborts(n)
      /\ abortKeys' = abortKeys \cup {n}
      /\ Answer(t, "abort", "release", view[t])
      /\ UNCHANGED <<sealed, frozen, kept, keys, begun, signed>>
  BY DEF SendAbort, Aborts
<1>2. n = Len(attempts) /\ n \in Nat
  BY <1>1, CloseTypes DEF CloseTrue, PageTrue
<1>3. ~Ending' /\ UNCHANGED attempts
  <2>1. CASE n \in abortKeys /\ UNCHANGED cashVars
    BY <1>2, <2>1, LeftAlone DEF CloseTrue, ServerTrue
  <2>2. CASE Aborts(n)
    BY <2>2, Aborting DEF CloseTrue, Ending
  <2> QED
    BY <1>1, <2>1, <2>2
<1>4. view'[t] = view[t] /\ step'[t] \in {"idle", "release"}
  BY <1>1, StepIs, ViewIs DEF Answer, CloseTrue
<1>5. ServerTrue' /\ DeviceTrue'
  BY <1>1, <1>2, <1>3 DEF CloseTrue, ServerTrue, DeviceTrue, Ending
<1>6. PageTrue(t)'
  BY <1>1, <1>2, <1>3, <1>4 DEF CloseTrue, PageTrue, Beginning
<1> QED
  BY <1>5, <1>6

(* The page.                                                               *)
LEMMA ReloadTrue ==
  ASSUME NEW t \in Tab, CloseTrue(t), Reload(t)
  PROVE  ServerTrue' /\ DeviceTrue' /\ PageTrue(t)'
<1>1. UNCHANGED <<cashVars, sealed, frozen, kept, keys, begun, abortKeys>>
  BY DEF Reload, deviceVars
<1>2. step'[t] = "idle" /\ view'[t] = Shown
  BY StepIs, ViewIs DEF Reload, CloseTrue
<1>3. /\ UNCHANGED <<status, attempt, attempts, operations>> /\ Ending' = Ending
      /\ Received' = Received
  BY <1>1, LeftAlone
<1>4. ServerTrue' /\ DeviceTrue'
  BY <1>1, <1>3 DEF CloseTrue, ServerTrue, DeviceTrue, Ending, Drained
<1>5. /\ Shown.status = status[Cash]
      /\ status[Cash] = "CLOSING" => Shown.attempt = attempt[Cash]
      /\ Shown.lastAborted = LastAborted
  BY DEF Shown
<1>6. status[Cash] = "OPEN" /\ LastAborted = 0 => attempts = <<>>
  BY CloseTypes DEF LastAborted, CloseTrue
<1>7. kept # NoRow => kept.key \in 1..MaxKey
  BY DEF CloseTrue, CloseTyped, CloseTypeOK, Checkpoint
<1>8. status[Cash] = "OPEN" /\ LastAborted = 0 /\ kept # NoRow => begun[kept.key] = NoRow
  BY <1>6, <1>7 DEF CloseTrue, DeviceTrue
<1>9. PageTrue(t)'
  BY <1>1, <1>2, <1>3, <1>5, <1>8 DEF CloseTrue, ServerTrue, PageTrue, Beginning, Ending
<1> QED
  BY <1>4, <1>9

LEMMA TabTrue ==
  ASSUME NEW t \in Tab, CloseTrue(t), Consolidate(t) \/ Fail(t)
  PROVE  ServerTrue' /\ DeviceTrue' /\ PageTrue(t)'
<1>1. UNCHANGED <<cashVars, deviceVars, view, signed>>
  BY DEF Consolidate, Fail
<1>2. step'[t] \in {"idle", "finish"}
  BY StepIs DEF Consolidate, Fail, CloseTrue
<1>3. /\ UNCHANGED <<status, attempt, attempts, operations>> /\ Ending' = Ending
      /\ Received' = Received
  BY <1>1, LeftAlone
<1>4. UNCHANGED <<sealed, frozen, kept, keys, begun, abortKeys>>
  BY <1>1 DEF deviceVars
<1>5. ServerTrue' /\ DeviceTrue'
  BY <1>3, <1>4 DEF CloseTrue, ServerTrue, DeviceTrue, Ending, Drained
<1>6. PageTrue(t)'
  BY <1>1, <1>2, <1>3, <1>4 DEF CloseTrue, PageTrue, Beginning
<1> QED
  BY <1>5, <1>6

LEMMA CloseTrueKept ==
  ASSUME NEW t, Tab = {t}, "begin" \notin Losable, CloseTrue(t), [CloseNext]_closingVars
  PROVE  CloseTrue(t)'
<1>1. t \in Tab /\ CloseTyped'
  BY CloseTypedKept DEF CloseTrue
<1>2. CASE UNCHANGED closingVars
  <2>1. UNCHANGED <<cashVars, deviceVars, tabVars>>
    BY <1>2 DEF closingVars
  <2>2. /\ UNCHANGED <<status, attempt, attempts, operations>> /\ Ending' = Ending
        /\ Received' = Received
    BY <2>1, LeftAlone
  <2>3. UNCHANGED <<sealed, frozen, kept, keys, begun, abortKeys, view, step, signed>>
    BY <2>1 DEF deviceVars, tabVars
  <2>4. ServerTrue' /\ DeviceTrue'
    BY <2>2, <2>3 DEF CloseTrue, ServerTrue, DeviceTrue, Ending, Drained
  <2>5. PageTrue(t)'
    BY <2>2, <2>3 DEF CloseTrue, PageTrue, Beginning
  <2> QED
    BY <1>1, <2>4, <2>5 DEF CloseTrue
<1>3. ASSUME NEW c \in Amount \cup {0}, SealSale(c) PROVE CloseTrue(t)'
  BY <1>1, <1>3, SealSaleTrue, CashAssumption DEF CloseTrue
<1>4. CASE Deliver
  BY <1>1, <1>4, DeliverTrue DEF CloseTrue
<1>5. CASE Barrier(t)
  BY <1>1, <1>5, ClickBeginTrue, FreezeTrue, DrainTrue, SignTrue, ReleaseTrue, FinishTrue
     DEF Barrier, CloseTrue
<1>6. CASE Send(t)
  BY <1>1, <1>6, SendBeginTrue, SendFinalSyncTrue, SendCloseTrue, SendAbortTrue DEF Send, CloseTrue
<1>7. CASE Consolidate(t) \/ Fail(t) \/ Reload(t)
  BY <1>1, <1>7, TabTrue, ReloadTrue DEF CloseTrue
<1> QED
  BY <1>2, <1>3, <1>4, <1>5, <1>6, <1>7 DEF CloseNext

LEMMA OnePage ==
  ASSUME NEW t, Tab = {t}, "begin" \notin Losable
  PROVE  CloseSpec => []CloseTrue(t)
<1>1. CloseInit => CloseTrue(t)
  BY CloseInitTrue
<1>2. CloseTrue(t) /\ [CloseNext]_closingVars => CloseTrue(t)'
  BY CloseTrueKept
<1> QED
  BY <1>1, <1>2, PTL DEF CloseSpec

(* As long as the server has the session closing or closed, the device     *)
(* seals nothing in it, through reloads, lost answers to an abort or to a  *)
(* close, and retries: of one page whose begin-close is answered           *)
(* (cash-closing.tsx, OfflineCloseBarrier).                                *)
THEOREM StaysFrozen ==
  ASSUME NEW t, Tab = {t}, "begin" \notin Losable
  PROVE  CloseSpec => []FrozenWhileClosing
<1>1. CloseTrue(t) => FrozenWhileClosing
  BY DEF CloseTrue, ServerTrue, Ending, FrozenWhileClosing
<1> QED
  BY <1>1, OnePage, PTL

(* A session is never closed for good while something its device sealed is *)
(* still to be delivered, under the same conditions                        *)
(* (CashCloseService.requireContinuity, OfflineCloseBarrier.checkpoint).   *)
THEOREM NothingIsLeftBehind ==
  ASSUME NEW t, Tab = {t}, "begin" \notin Losable
  PROVE  CloseSpec => []NothingLeftBehind
<1>1. CloseTrue(t) => NothingLeftBehind
  BY DEF CloseTrue, ServerTrue, NothingLeftBehind
<1> QED
  BY <1>1, OnePage, PTL
=============================================================================
