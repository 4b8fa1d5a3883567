----------------------------- MODULE CashClose -----------------------------
(***************************************************************************)
(* Closing a session from the device it was opened on: the POS that seals  *)
(* sales, the barrier that freezes them, the tabs that show the cash page, *)
(* and the server of CashSession.                                          *)
(*                                                                         *)
(* The device's IndexedDB (what is sealed, the freeze, the checkpoint kept *)
(* for a retry) is shared by every tab and outlives them; a tab's view is  *)
(* what it last read of the server.  A tab may be reloaded or closed       *)
(* between any two steps, and the response to a command may be lost after  *)
(* the server has carried it out.                                          *)
(***************************************************************************)
EXTENDS CashSession

CONSTANTS
  Tab,      \* open cash pages of the device
  Cash,     \* the session being closed
  Cashier,  \* who closes it
  Losable,  \* commands whose response may be lost
  MaxKey    \* bound: checkpoints signed

Checkpoint == [seq: 0..MaxOperation, key: 1..MaxKey]

ASSUME CloseAssumption ==
  /\ Cash \in Session /\ Opening[Cash].origin = "OFFLINE"
  /\ Cashier \in Actor /\ (Cashier \in Manager \/ Cashier = Opening[Cash].owner)
  /\ Losable \subseteq {"begin", "abort", "close"}
  /\ MaxKey \in Nat
  /\ NoRow \notin Checkpoint

VARIABLES
  sealed,     \* cash of each operation sealed for the session, its opening first
  frozen,     \* the session is in device_keys.closingSessions
  kept,       \* the signed checkpoint in device_keys.closeCheckpoints, or NoRow
  keys,       \* checkpoints signed so far; a checkpoint's key is its number
  begun,      \* what each key's begin-close was answered: an attempt, or NoRow
  abortKeys,  \* attempts aborted with a key that localStorage still holds
  view,       \* what each tab shows
  step,       \* where each tab's running command is
  signed      \* the checkpoint each tab is about to send

deviceVars == <<sealed, frozen, kept, keys, begun, abortKeys>>
tabVars == <<view, step, signed>>
closingVars == <<cashVars, deviceVars, tabVars>>

View == [status: SessionStatus, attempt: 0..MaxAttempt, lastAborted: 0..MaxAttempt, shown: Nat \cup {NoRow}]

CloseTypeOK ==
  /\ CashTypeOK
  /\ sealed \in Seq(Nat)
  /\ frozen \in BOOLEAN
  /\ kept \in Checkpoint \cup {NoRow}
  /\ keys \in 0..MaxKey
  /\ begun \in [1..MaxKey -> 1..MaxAttempt \cup {NoRow}]
  /\ abortKeys \subseteq 1..MaxAttempt
  /\ view \in [Tab -> View]
  /\ step \in [Tab -> {"idle", "freeze", "drain", "sign", "send", "release", "finish"}]
  /\ signed \in [Tab -> Checkpoint \cup {NoRow}]

(* The device has sealed the opening; nothing has been delivered. *)
CloseInit ==
  /\ CashInit
  /\ sealed = <<0>>
  /\ frozen = FALSE
  /\ kept = NoRow
  /\ keys = 0
  /\ begun = [k \in 1..MaxKey |-> NoRow]
  /\ abortKeys = {}
  /\ view = [t \in Tab |-> [status |-> "NONE", attempt |-> 0, lastAborted |-> 0, shown |-> NoRow]]
  /\ step = [t \in Tab |-> "idle"]
  /\ signed = [t \in Tab |-> NoRow]

-----------------------------------------------------------------------------
Received == Len(operations[DeviceOf(Cash)])

(* delivery_queue.count() = 0: an operation leaves it with its ACK. *)
Drained == Len(sealed) = Received

(* The attempt of the last CLOSING transition, if the latest was its abort. *)
LastAborted ==
  IF status[Cash] = "OPEN" /\ attempts # <<>> THEN Len(attempts) ELSE 0

(* CashWorkspaceService.read *)
Shown ==
  [status |-> status[Cash],
   attempt |-> IF status[Cash] = "CLOSING" THEN attempt[Cash] ELSE 0,
   lastAborted |-> LastAborted,
   shown |-> IF status[Cash] = "CLOSING" THEN finals[attempt[Cash]] ELSE NoRow]

Goto(t, place) == step' = [step EXCEPT ![t] = place]

See(t, v) == view' = [view EXCEPT ![t] = v]

-----------------------------------------------------------------------------
(* The POS and the delivery of what it sealed.                             *)

(* Mutated form: a frozen session still seals. *)
MaySealFrozen == TRUE

(* OfflineSealer.seal, inside its transaction *)
MaySeal == ~ frozen

SealSale(cash) ==
  /\ MaySeal
  /\ Len(sealed) < MaxOperation
  /\ sealed' = Append(sealed, cash)
  /\ UNCHANGED <<cashVars, frozen, kept, keys, begun, abortKeys, tabVars>>

(* OpaqueDelivery: the next operation is applied, or refused and kept. *)
Deliver ==
  /\ ~ Drained
  /\ IF Received = 0 THEN ImportOpening(Cash) ELSE ImportSale(Cash, sealed[Received + 1])
  /\ UNCHANGED <<deviceVars, tabVars>>

-----------------------------------------------------------------------------
(* The barrier, one IndexedDB transaction each.                            *)

Unfreeze == frozen' = FALSE /\ kept' = NoRow

(* cash-closing.begin: what the tab shows as aborted is released first. *)
ClickBegin(t) ==
  /\ step[t] = "idle" /\ view[t].status = "OPEN"
  /\ IF view[t].lastAborted # 0 THEN Unfreeze ELSE UNCHANGED <<frozen, kept>>
  /\ Goto(t, "freeze")
  /\ UNCHANGED <<cashVars, sealed, keys, begun, abortKeys, view, signed>>

Freeze(t) ==
  /\ step[t] = "freeze"
  /\ frozen' = TRUE
  /\ Goto(t, "drain")
  /\ UNCHANGED <<cashVars, sealed, kept, keys, begun, abortKeys, view, signed>>

Drain(t) ==
  /\ step[t] = "drain" /\ Drained
  /\ Goto(t, "sign")
  /\ UNCHANGED <<cashVars, deviceVars, view, signed>>

(* OfflineCloseBarrier.checkpoint: a kept one is sent again with its key. *)
Sign(t) ==
  /\ step[t] = "sign"
  /\ IF kept # NoRow
       THEN UNCHANGED <<keys, kept>>
       ELSE /\ frozen /\ Drained /\ keys < MaxKey
            /\ keys' = keys + 1
            /\ kept' = [seq |-> Len(sealed), key |-> keys + 1]
  /\ signed' = [signed EXCEPT ![t] = kept']
  /\ Goto(t, "send")
  /\ UNCHANGED <<cashVars, sealed, frozen, begun, abortKeys, view>>

(* releaseAfterAbort, with the answer the abort was given *)
Release(t) ==
  /\ step[t] = "release"
  /\ Unfreeze
  /\ abortKeys' = abortKeys \ {view[t].attempt}
  /\ See(t, [status |-> "OPEN", attempt |-> 0, lastAborted |-> 0, shown |-> NoRow])
  /\ Goto(t, "idle")
  /\ UNCHANGED <<cashVars, sealed, keys, begun, signed>>

(* completeAfterClose: the session stays frozen for good. *)
Finish(t) ==
  /\ step[t] = "finish" /\ Drained
  /\ frozen' = TRUE /\ kept' = NoRow
  /\ Goto(t, "idle")
  /\ UNCHANGED <<cashVars, sealed, keys, begun, abortKeys, view, signed>>

-----------------------------------------------------------------------------
(* Commands to the server; a repeated key is answered as it was before.    *)

(* The answer arrives, or is lost with the tab left where it was. *)
Answer(t, command, place, v) ==
  \/ See(t, v) /\ Goto(t, place)
  \/ command \in Losable /\ Goto(t, "idle") /\ UNCHANGED view

SendBegin(t) ==
  LET k == signed[t].key
  IN  /\ step[t] = "send"
      /\ IF begun[k] # NoRow
           THEN UNCHANGED <<cashVars, begun>>
           ELSE /\ BeginClose(Cashier, Cash, signed[t].seq)
                /\ begun' = [begun EXCEPT ![k] = Len(attempts')]
      /\ Answer(t, "begin", "idle",
                [status |-> "CLOSING", attempt |-> begun'[k], lastAborted |-> 0, shown |-> NoRow])
      /\ UNCHANGED <<sealed, frozen, kept, keys, abortKeys, signed>>

SendFinalSync(t) ==
  LET n == view[t].attempt
  IN  /\ step[t] = "idle" /\ view[t].status = "CLOSING"
      /\ IF finals[n] = NoRow THEN FinalSync(Cashier, Cash, n)
                              ELSE CurrentAttempt(Cash, n) /\ UNCHANGED cashVars
      /\ See(t, [view[t] EXCEPT !.shown = finals'[n]])
      /\ UNCHANGED <<deviceVars, step, signed>>

SendClose(t) ==
  LET n == view[t].attempt  shown == view[t].shown
  IN  /\ step[t] = "idle" /\ view[t].status = "CLOSING" /\ shown # NoRow
      /\ IF closures[Cash] = NoRow THEN Close(Cashier, Cash, n, shown, shown)
                                   ELSE closures[Cash].attempt = n /\ UNCHANGED cashVars
      /\ Answer(t, "close", "finish", [view[t] EXCEPT !.status = "CLOSED"])
      /\ UNCHANGED <<deviceVars, signed>>

(* Mutated form: the freeze is lifted without waiting for the answer. *)
AbortAtOnce(t) ==
  /\ step[t] = "idle" /\ view[t].status = "CLOSING"
  /\ Goto(t, "release")
  /\ UNCHANGED <<cashVars, deviceVars, view, signed>>

SendAbort(t) ==
  LET n == view[t].attempt
  IN  /\ step[t] = "idle" /\ view[t].status = "CLOSING"
      /\ IF n \in abortKeys THEN UNCHANGED cashVars ELSE Abort(Cashier, Cash, n)
      /\ abortKeys' = abortKeys \cup {n}
      /\ Answer(t, "abort", "release", view[t])
      /\ UNCHANGED <<sealed, frozen, kept, keys, begun, signed>>

-----------------------------------------------------------------------------
(* The tabs.                                                               *)

Consolidate(t) ==
  /\ step[t] = "idle" /\ view[t].status = "CLOSED"
  /\ Goto(t, "finish")
  /\ UNCHANGED <<cashVars, deviceVars, view, signed>>

(* The command throws: pending operations, no network, a refusal. *)
Fail(t) ==
  /\ step[t] # "idle"
  /\ Goto(t, "idle")
  /\ UNCHANGED <<cashVars, deviceVars, view, signed>>

(* The page is reloaded, or closed and opened again. *)
Reload(t) ==
  /\ See(t, Shown)
  /\ Goto(t, "idle")
  /\ signed' = [signed EXCEPT ![t] = NoRow]
  /\ UNCHANGED <<cashVars, deviceVars>>

Barrier(t) == ClickBegin(t) \/ Freeze(t) \/ Drain(t) \/ Sign(t) \/ Release(t) \/ Finish(t)

Send(t) == SendBegin(t) \/ SendFinalSync(t) \/ SendClose(t) \/ SendAbort(t)

CloseNext ==
  \/ \E c \in Amount \cup {0} : SealSale(c)
  \/ Deliver
  \/ \E t \in Tab : Barrier(t) \/ Send(t) \/ Consolidate(t) \/ Fail(t) \/ Reload(t)

CloseSpec == CloseInit /\ [][CloseNext]_closingVars

-----------------------------------------------------------------------------
(* As long as the server has the session closing or closed, the device     *)
(* seals nothing in it, through reloads, lost answers and retries.         *)
FrozenWhileClosing == status[Cash] \in {"CLOSING", "CLOSED"} => frozen

(* A session is never closed for good while something its device sealed is *)
(* still to be delivered: the server would refuse it from then on.         *)
NothingLeftBehind == status[Cash] = "CLOSED" => Drained
=============================================================================
