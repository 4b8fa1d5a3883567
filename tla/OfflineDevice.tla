--------------------------- MODULE OfflineDevice ---------------------------
(***************************************************************************)
(* One POS device: the IndexedDB database that all browser tabs of the     *)
(* device share, and the tabs that seal operations into it offline.        *)
(*                                                                         *)
(* IndexedDB transactions are atomic, but they cannot span cryptography or *)
(* the network, so each command reads, takes the sequence lease, computes, *)
(* and commits in a second transaction that asserts the lease again.       *)
(* Between those steps the other tabs run, the lease may run out, answers  *)
(* of the server may arrive, and the tab may be closed.                    *)
(***************************************************************************)
EXTENDS SealedOperation, Sequences, FiniteSets

CONSTANTS
  ThisDevice,   \* the device
  Tab,          \* browser tabs
  Draft,        \* identifiers of sale drafts; the sale's operation has the same
  OpeningId,    \* the operation identifier drawn with each new session identifier
  None,         \* no session
  Command,      \* bound: the commands, other than sales and openings, to explore
  MaxFence      \* bound: how often the lease is taken

ASSUME DeviceAssumption ==
  /\ ThisDevice \in Device
  /\ Draft \subseteq Id
  /\ OpeningId \in [Session -> Id \ Draft]
  /\ \A s, t \in Session : OpeningId[s] = OpeningId[t] => s = t
  /\ Id \subseteq Hash
  /\ None \notin Session
  /\ MaxFence \in Nat

Simple ==
  [do: {"learn"}, target: Target] \cup
  [do: {"freeze-session", "release", "complete"}, session: Session] \cup
  [do: {"checkpoint"}, actor: Actor, session: Session] \cup
  [do: {"freeze-configuration"}]

ASSUME CommandAssumption == Command \subseteq Simple

VARIABLES
  chain,             \* meta: lease (fence, held), sequence, head, open session, wiped
  queue,             \* delivery_queue, with the operation and sale records of each row
  receipts,          \* delivery_receipts
  drafts,            \* sale-draft records
  sessions,          \* cash-session records
  sessionSeq,        \* session-chain records
  cash,              \* cash-projection records: sales counted in the session's cash
  knowledge,         \* device_keys.knowledge, and the revoked flags set with it
  retired,           \* device_keys.retiredUsers
  frozen,            \* device_keys.freeze
  closing,           \* device_keys.closingSessions
  closeCheckpoints,  \* device_keys.closeCheckpoints
  tabs,              \* what each tab is doing
  log                \* every operation ever sealed (history; no record of it is kept)

deviceVars == <<chain, queue, receipts, drafts, sessions, sessionSeq, cash, knowledge, retired,
                frozen, closing, closeCheckpoints, tabs, log>>

Idle == [at |-> "idle"]

(* A command that holds, or held, the lease. *)
Work ==
  [do: {"open"}, actor: Actor, session: Session] \cup
  [do: {"confirm"}, draft: [id: Draft, actor: Actor, session: Session], seen: Nat] \cup
  Simple

ChainState ==
  [fence: 0..MaxFence, held: BOOLEAN, seq: 0..MaxSequence, head: Hash \cup {Genesis},
   session: Session \cup {None}, wiped: BOOLEAN]

DeviceTypeOK ==
  /\ chain \in ChainState
  /\ queue \subseteq Operation
  /\ receipts \subseteq [id: Id, status: Status]
  /\ drafts \subseteq [id: Draft, actor: Actor, session: Session]
  /\ sessions \subseteq [session: Session, actor: Actor]
  /\ sessionSeq \in [Session -> 0..MaxSequence]
  /\ cash \in [Session -> 0..MaxSequence]
  /\ knowledge \subseteq Knowing
  /\ retired \subseteq Actor
  /\ frozen \in BOOLEAN
  /\ closing \subseteq Session
  /\ closeCheckpoints \subseteq
       [session: Session, actor: Actor, seq: 0..MaxSequence, head: Hash \cup {Genesis}]
  /\ \A t \in Tab :
       \/ tabs[t] = Idle
       \/ tabs[t] \in [at: {"waiting"}, work: Work]
       \/ tabs[t] \in [at: {"leased"}, work: Work, lease: ChainState]
  /\ log \in Seq(Operation)

DeviceInit ==
  /\ chain = [fence |-> 0, held |-> FALSE, seq |-> 0, head |-> Genesis,
              session |-> None, wiped |-> FALSE]
  /\ queue = {} /\ receipts = {} /\ drafts = {} /\ sessions = {}
  /\ sessionSeq = [s \in Session |-> 0]
  /\ cash = [s \in Session |-> 0]
  /\ knowledge = {} /\ retired = {} /\ frozen = FALSE
  /\ closing = {} /\ closeCheckpoints = {}
  /\ tabs = [t \in Tab |-> Idle]
  /\ log = <<>>

-----------------------------------------------------------------------------
(* What transactions check. *)

Revoked(target) == chain.wiped \/ \E k \in knowledge : k.target = target

(* Mutated form: only the revocation of the device is looked at. *)
DeviceIdentified(a) == ~ Revoked("DEVICE") /\ a \notin retired

(* assertOfflineIdentity *)
Identified(a) == ~ Revoked("DEVICE") /\ ~ Revoked(a) /\ a \notin retired

Final(i) == \E r \in receipts : r.id = i

(* OfflineLease.assert, of the lease a tab took. *)
Holds(t) ==
  /\ tabs[t].at = "leased"
  /\ chain.held
  /\ chain.fence = tabs[t].lease.fence
  /\ chain.seq = tabs[t].lease.seq
  /\ chain.head = tabs[t].lease.head
  /\ chain.session = tabs[t].lease.session

(* OfflinePos.session: a session record of the actor, some session open.   *)
Usable(a, s) == Identified(a) /\ chain.session # None /\ [session |-> s, actor |-> a] \in sessions

Used(i) == (\E n \in 1..Len(log) : log[n].id = i) \/ (\E d \in drafts : d.id = i)

-----------------------------------------------------------------------------
(* The lease. *)

(* OfflinePos.prepareSale: the draft gets a fresh identifier. *)
PrepareSale(a, s, i) ==
  /\ ~ frozen
  /\ Usable(a, s)
  /\ ~ Used(i)
  /\ drafts' = drafts \cup {[id |-> i, actor |-> a, session |-> s]}
  /\ UNCHANGED <<chain, queue, receipts, sessions, sessionSeq, cash, knowledge, retired, frozen,
                 closing, closeCheckpoints, tabs, log>>

(* OfflineSales.confirm up to the lease: a sale already stored is returned *)
(* as it is; otherwise the cash projection it will add to is read.         *)
StartConfirm(t, d) ==
  /\ tabs[t] = Idle
  /\ ~ frozen
  /\ d \in drafts
  /\ ~ \E o \in queue : o.id = d.id
  /\ Usable(d.actor, d.session)
  /\ tabs' = [tabs EXCEPT ![t] = [at |-> "waiting", work |->
                [do |-> "confirm", draft |-> d, seen |-> cash[d.session]]]]
  /\ UNCHANGED <<chain, queue, receipts, drafts, sessions, sessionSeq, cash, knowledge, retired,
                 frozen, closing, closeCheckpoints, log>>

(* OfflinePos.open draws a session identifier no one else has. *)
StartOpen(t, a, s) ==
  /\ tabs[t] = Idle
  /\ ~ frozen
  /\ Identified(a)
  /\ \A n \in 1..Len(log) : log[n].session # s
  /\ ~ \E u \in Tab : tabs[u] # Idle /\ tabs[u].work.do = "open" /\ tabs[u].work.session = s
  /\ tabs' = [tabs EXCEPT ![t] = [at |-> "waiting", work |->
                [do |-> "open", actor |-> a, session |-> s]]]
  /\ UNCHANGED <<chain, queue, receipts, drafts, sessions, sessionSeq, cash, knowledge, retired,
                 frozen, closing, closeCheckpoints, log>>

(* The other commands read nothing before they take the lease. *)
Start(t, work) ==
  /\ tabs[t] = Idle
  /\ tabs' = [tabs EXCEPT ![t] = [at |-> "waiting", work |-> work]]
  /\ UNCHANGED <<chain, queue, receipts, drafts, sessions, sessionSeq, cash, knowledge, retired,
                 frozen, closing, closeCheckpoints, log>>

(* OfflineLease.acquire: busy while another lease lasts. *)
Acquire(t) ==
  /\ tabs[t].at = "waiting"
  /\ ~ chain.held
  /\ chain.fence < MaxFence
  /\ chain' = [chain EXCEPT !.fence = @ + 1, !.held = TRUE]
  /\ tabs' = [tabs EXCEPT ![t] = [at |-> "leased", work |-> tabs[t].work, lease |-> chain']]
  /\ UNCHANGED <<queue, receipts, drafts, sessions, sessionSeq, cash, knowledge, retired, frozen,
                 closing, closeCheckpoints, log>>

(* A command that fails anywhere rolls back and releases the lease it has. *)
Fail(t) ==
  /\ tabs[t] # Idle
  /\ tabs' = [tabs EXCEPT ![t] = Idle]
  /\ chain' = IF tabs[t].at = "leased" /\ chain.fence = tabs[t].lease.fence
                THEN [chain EXCEPT !.held = FALSE] ELSE chain
  /\ UNCHANGED <<queue, receipts, drafts, sessions, sessionSeq, cash, knowledge, retired, frozen,
                 closing, closeCheckpoints, log>>

(* A tab that is closed or reloaded releases nothing. *)
Crash(t) ==
  /\ tabs[t] # Idle
  /\ tabs' = [tabs EXCEPT ![t] = Idle]
  /\ UNCHANGED <<chain, queue, receipts, drafts, sessions, sessionSeq, cash, knowledge, retired,
                 frozen, closing, closeCheckpoints, log>>

(* The lease lasts 30 seconds, whatever its owner is doing. *)
Expire ==
  /\ chain.held
  /\ chain' = [chain EXCEPT !.held = FALSE]
  /\ UNCHANGED <<queue, receipts, drafts, sessions, sessionSeq, cash, knowledge, retired, frozen,
                 closing, closeCheckpoints, tabs, log>>

-----------------------------------------------------------------------------
(* Sealing. *)

(* The operation OfflineSealer.seal builds under the lease. *)
Sealed(work, lease, n) ==
  LET opening == work.do = "open"
      subject == IF opening THEN work ELSE work.draft
      i       == IF opening THEN OpeningId[work.session] ELSE work.draft.id
  IN  [id |-> i, device |-> ThisDevice, actor |-> subject.actor, session |-> subject.session,
       kind |-> IF opening THEN "cash-session-open" ELSE "sale-confirm",
       seq |-> lease.seq + 1, sessionSeq |-> n + 1, prev |-> lease.head, hash |-> i,
       genuine |-> TRUE]

(* OfflineSealer.seal's transaction, from the checks to the released lease. *)
Admissible(o, t) ==
  /\ Holds(t)
  /\ Identified(o.actor)
  /\ ~ Final(o.id)
  /\ ~ frozen
  /\ o.session \notin closing
  /\ ~ \E q \in queue : q.id = o.id
  /\ o.seq <= MaxSequence

(* Mutated form: the session's own counter is not advanced. *)
CommitDeviceOnly(t, o) ==
  /\ log' = Append(log, o)
  /\ queue' = queue \cup {o}
  /\ tabs' = [tabs EXCEPT ![t] = Idle]
  /\ UNCHANGED <<receipts, drafts, sessionSeq, knowledge, retired, frozen, closing,
                 closeCheckpoints>>

Commit(t, o) ==
  /\ log' = Append(log, o)
  /\ queue' = queue \cup {o}
  /\ sessionSeq' = [sessionSeq EXCEPT ![o.session] = o.sessionSeq]
  /\ tabs' = [tabs EXCEPT ![t] = Idle]
  /\ UNCHANGED <<receipts, drafts, knowledge, retired, frozen, closing, closeCheckpoints>>

SealOpening(t) ==
  /\ tabs[t].at = "leased" /\ tabs[t].work.do = "open"
  /\ LET o == Sealed(tabs[t].work, tabs[t].lease, sessionSeq[tabs[t].work.session])
     IN  /\ Admissible(o, t)
         /\ chain.session = None
         /\ sessions' = sessions \cup {[session |-> o.session, actor |-> o.actor]}
         /\ cash' = [cash EXCEPT ![o.session] = 0]
         /\ chain' = [chain EXCEPT !.held = FALSE, !.seq = o.seq, !.head = o.hash,
                                   !.session = o.session]
         /\ Commit(t, o)

(* Mutated form: the cash that was read is not compared at the commit. *)
SealSaleUnchecked(t) ==
  /\ tabs[t].at = "leased" /\ tabs[t].work.do = "confirm"
  /\ LET w == tabs[t].work
         o == Sealed(w, tabs[t].lease, sessionSeq[w.draft.session])
     IN  /\ Admissible(o, t)
         /\ chain.session # None
         /\ [session |-> o.session, actor |-> o.actor] \in sessions
         /\ cash' = [cash EXCEPT ![o.session] = w.seen + 1]
         /\ chain' = [chain EXCEPT !.held = FALSE, !.seq = o.seq, !.head = o.hash]
         /\ UNCHANGED sessions
         /\ Commit(t, o)

(* Mutated form: the commit looks again at neither the lease nor the cash. *)
SealSaleBlindly(t) ==
  /\ tabs[t].at = "leased" /\ tabs[t].work.do = "confirm"
  /\ LET w == tabs[t].work
         o == Sealed(w, tabs[t].lease, sessionSeq[w.draft.session])
     IN  /\ Identified(o.actor) /\ ~ Final(o.id) /\ ~ frozen /\ o.seq <= MaxSequence
         /\ ~ \E q \in queue : q.id = o.id
         /\ chain.session # None
         /\ [session |-> o.session, actor |-> o.actor] \in sessions
         /\ cash' = [cash EXCEPT ![o.session] = w.seen + 1]
         /\ chain' = [chain EXCEPT !.held = FALSE, !.seq = o.seq, !.head = o.hash]
         /\ UNCHANGED sessions
         /\ Commit(t, o)

(* assertBeforeCommit: the session record and the cash read are unchanged. *)
SealSale(t) ==
  /\ tabs[t].at = "leased" /\ tabs[t].work.do = "confirm"
  /\ LET w == tabs[t].work
         o == Sealed(w, tabs[t].lease, sessionSeq[w.draft.session])
     IN  /\ Admissible(o, t)
         /\ chain.session # None
         /\ [session |-> o.session, actor |-> o.actor] \in sessions
         /\ cash[o.session] = w.seen
         /\ cash' = [cash EXCEPT ![o.session] = w.seen + 1]
         /\ chain' = [chain EXCEPT !.held = FALSE, !.seq = o.seq, !.head = o.hash]
         /\ UNCHANGED sessions
         /\ Commit(t, o)

-----------------------------------------------------------------------------
(* Answers of the server. *)

(* acceptAck of the last row of a revoked device: everything but receipts. *)
Wipe ==
  /\ chain' = [chain EXCEPT !.held = FALSE, !.wiped = TRUE]
  /\ drafts' = {} /\ sessions' = {}
  /\ sessionSeq' = [s \in Session |-> 0]
  /\ cash' = [s \in Session |-> 0]
  /\ knowledge' = {} /\ retired' = {} /\ frozen' = FALSE
  /\ closing' = {} /\ closeCheckpoints' = {}

(* ... and of the last row, when users are revoked: their records. *)
Purge(d) ==
  LET gone(a) == \E k \in knowledge : k.target = a
      left(s) == ~ \E r \in sessions : r.session = s /\ gone(r.actor)
  IN  /\ drafts' = {r \in drafts \ d : ~ gone(r.actor)}
      /\ sessions' = {r \in sessions : ~ gone(r.actor)}
      /\ sessionSeq' = [s \in Session |-> IF left(s) THEN sessionSeq[s] ELSE 0]
      /\ cash' = [s \in Session |-> IF left(s) THEN cash[s] ELSE 0]
      /\ UNCHANGED <<chain, knowledge, retired, frozen, closing, closeCheckpoints>>

(* Mutated form: a revoked device is wiped at its next answer, with all rows. *)
AcceptAckAndWipe(o, status) ==
  LET draft == {d \in drafts : d.id = o.id} IN
  /\ o \in queue
  /\ receipts' = receipts \cup {[id |-> o.id, status |-> status]}
  /\ UNCHANGED <<tabs, log>>
  /\ \/ /\ Revoked("DEVICE")
        /\ queue' = {}
        /\ Wipe
     \/ /\ ~ Revoked("DEVICE")
        /\ queue' = queue \ {o}
        /\ drafts' = drafts \ draft
        /\ UNCHANGED <<chain, sessions, sessionSeq, cash, knowledge, retired, frozen, closing,
                       closeCheckpoints>>

AcceptAck(o, status) ==
  LET draft == {d \in drafts : d.id = o.id} IN
  /\ o \in queue
  /\ queue' = queue \ {o}
  /\ receipts' = receipts \cup {[id |-> o.id, status |-> status]}
  /\ UNCHANGED <<tabs, log>>
  /\ \/ /\ queue' = {} /\ Revoked("DEVICE")
        /\ Wipe
     \/ /\ queue' = {} /\ ~ Revoked("DEVICE")
        /\ Purge(draft)
     \/ /\ queue' # {}
        /\ drafts' = drafts \ draft
        /\ UNCHANGED <<chain, sessions, sessionSeq, cash, knowledge, retired, frozen, closing,
                       closeCheckpoints>>

-----------------------------------------------------------------------------
(* The other commands that work under the lease; each releases it.         *)

Leased(t, do) ==
  /\ tabs[t].at = "leased" /\ tabs[t].work.do = do
  /\ Holds(t)
  /\ ~ chain.wiped
  /\ tabs' = [tabs EXCEPT ![t] = Idle]

(* OfflineRevocation.learn: the first knowledge of a target is kept. *)
Learn(t) ==
  /\ Leased(t, "learn")
  /\ LET target == tabs[t].work.target
     IN  knowledge' = IF \E k \in knowledge : k.target = target THEN knowledge
                      ELSE knowledge \cup {[device |-> ThisDevice, target |-> target,
                             seq |-> tabs[t].lease.seq, head |-> tabs[t].lease.head]}
  /\ chain' = [chain EXCEPT !.held = FALSE]
  /\ UNCHANGED <<queue, receipts, drafts, sessions, sessionSeq, cash, retired, frozen, closing,
                 closeCheckpoints, log>>

(* OfflineCloseBarrier.freeze *)
FreezeSession(t) ==
  /\ Leased(t, "freeze-session")
  /\ ~ Revoked("DEVICE")
  /\ closing' = closing \cup {tabs[t].work.session}
  /\ chain' = [chain EXCEPT !.held = FALSE]
  /\ UNCHANGED <<queue, receipts, drafts, sessions, sessionSeq, cash, knowledge, retired, frozen,
                 closeCheckpoints, log>>

(* OfflineCloseBarrier.checkpoint, when the server reported the same chain *)
(* as the lease: the first checkpoint of a session and actor is kept.      *)
KeepCheckpoint(t) ==
  LET w == tabs[t].work IN
  /\ Leased(t, "checkpoint")
  /\ Identified(w.actor)
  /\ w.session \in closing
  /\ queue = {}
  /\ ~ \E c \in closeCheckpoints : c.session = w.session /\ c.actor = w.actor
  /\ closeCheckpoints' = closeCheckpoints \cup
       {[session |-> w.session, actor |-> w.actor,
         seq |-> tabs[t].lease.seq, head |-> tabs[t].lease.head]}
  /\ chain' = [chain EXCEPT !.held = FALSE]
  /\ UNCHANGED <<queue, receipts, drafts, sessions, sessionSeq, cash, knowledge, retired, frozen,
                 closing, log>>

WithoutCheckpoints(s) == {c \in closeCheckpoints : c.session # s}

(* Mutated form: the checkpoint outlives the attempt it was signed for. *)
ReleaseSessionOnly(t) ==
  /\ Leased(t, "release")
  /\ ~ Revoked("DEVICE")
  /\ closing' = closing \ {tabs[t].work.session}
  /\ chain' = [chain EXCEPT !.held = FALSE]
  /\ UNCHANGED <<queue, receipts, drafts, sessions, sessionSeq, cash, knowledge, retired, frozen,
                 closeCheckpoints, log>>

(* OfflineCloseBarrier.releaseAfterAbort *)
ReleaseSession(t) ==
  LET s == tabs[t].work.session IN
  /\ Leased(t, "release")
  /\ ~ Revoked("DEVICE")
  /\ closing' = closing \ {s}
  /\ closeCheckpoints' = WithoutCheckpoints(s)
  /\ chain' = [chain EXCEPT !.held = FALSE]
  /\ UNCHANGED <<queue, receipts, drafts, sessions, sessionSeq, cash, knowledge, retired, frozen,
                 log>>

(* OfflineCloseBarrier.completeAfterClose: the session stays closed here.  *)
CompleteSession(t) ==
  LET s == tabs[t].work.session IN
  /\ Leased(t, "complete")
  /\ queue = {}
  /\ chain.session \in {None, s}
  /\ ~ Revoked("DEVICE")
  /\ closing' = closing \cup {s}
  /\ closeCheckpoints' = WithoutCheckpoints(s)
  /\ chain' = [chain EXCEPT !.held = FALSE, !.session = None]
  /\ UNCHANGED <<queue, receipts, drafts, sessions, sessionSeq, cash, knowledge, retired, frozen,
                 log>>

(* OfflineConfigurationBarrier.freeze and resume; resume takes no lease.   *)
FreezeConfiguration(t) ==
  /\ Leased(t, "freeze-configuration")
  /\ frozen' = TRUE
  /\ chain' = [chain EXCEPT !.held = FALSE]
  /\ UNCHANGED <<queue, receipts, drafts, sessions, sessionSeq, cash, knowledge, retired, closing,
                 closeCheckpoints, log>>

ResumeConfiguration ==
  /\ frozen
  /\ queue = {}
  /\ frozen' = FALSE
  /\ UNCHANGED <<chain, queue, receipts, drafts, sessions, sessionSeq, cash, knowledge, retired,
                 closing, closeCheckpoints, tabs, log>>

(* retireOfflineIdentity at logout, for every user; activateOfflineIdentity *)
(* after an online login.  Neither takes the lease.                        *)
Retire ==
  /\ ~ chain.wiped
  /\ retired' = Actor
  /\ UNCHANGED <<chain, queue, receipts, drafts, sessions, sessionSeq, cash, knowledge, frozen,
                 closing, closeCheckpoints, tabs, log>>

Activate(a) ==
  /\ ~ Revoked("DEVICE") /\ ~ Revoked(a)
  /\ retired' = retired \ {a}
  /\ UNCHANGED <<chain, queue, receipts, drafts, sessions, sessionSeq, cash, knowledge, frozen,
                 closing, closeCheckpoints, tabs, log>>

TabStep ==
  \/ \E a \in Actor, s \in Session, i \in Draft : PrepareSale(a, s, i)
  \/ \E t \in Tab :
       \/ \E d \in drafts : StartConfirm(t, d)
       \/ \E a \in Actor, s \in Session : StartOpen(t, a, s)
       \/ Acquire(t) \/ Fail(t)
       \/ SealOpening(t) \/ SealSale(t)
       \/ Learn(t) \/ FreezeSession(t) \/ KeepCheckpoint(t) \/ ReleaseSession(t)
       \/ CompleteSession(t) \/ FreezeConfiguration(t)

LeaseLost == Expire \/ \E t \in Tab : Crash(t)

(* The server's answers, the revocations it tells and the responses that   *)
(* release or complete a session are arbitrary here: what the device       *)
(* guarantees by itself does not depend on them.                           *)
DeviceNext ==
  \/ TabStep \/ LeaseLost
  \/ \E t \in Tab, w \in Command : Start(t, w)
  \/ \E o \in queue, status \in Status : AcceptAck(o, status)
  \/ ResumeConfiguration \/ Retire
  \/ \E a \in Actor : Activate(a)

DeviceSpec == DeviceInit /\ [][DeviceNext]_deviceVars

-----------------------------------------------------------------------------
(* Properties.                                                             *)

Logged == {log[n] : n \in 1..Len(log)}

(* Whatever tabs do while leases run out, all of them together seal one    *)
(* hash chain without gap or fork, and no sale or opening twice: confirming *)
(* a draft in two tabs, before or after its answer, seals one operation.   *)
OneChain ==
  /\ chain.seq = Len(log)
  /\ \A n \in 1..Len(log) :
       log[n].seq = n /\ log[n].prev = IF n = 1 THEN Genesis ELSE log[n - 1].hash
  /\ Cardinality({o.id : o \in Logged}) = Len(log)

(* The browser keeps every operation until it has its definitive answer:   *)
(* no logout, revocation, purge, wipe or crash loses a sealed sale.        *)
NothingForgotten == \A o \in Logged : o \in queue \/ Final(o.id)

(* The operations of a session are numbered 1, 2, 3... in the order of the *)
(* device's chain, and the first one is its opening.                       *)
SessionsInOrder ==
  \A o \in Logged :
    /\ o.sessionSeq = Cardinality({p \in Logged : p.session = o.session /\ p.seq <= o.seq})
    /\ o.kind = "cash-session-open" <=> o.sessionSeq = 1

(* The cash a session is believed to hold counts each of its sales once,   *)
(* however reads and commits of different tabs interleave.                 *)
CashCountsSales ==
  \A r \in sessions : cash[r.session] =
    Cardinality({o \in Logged : o.session = r.session /\ o.kind = "sale-confirm"})

(* Once the device knows of a revocation nothing is sealed for the target: *)
(* the sequence it signed stays the last of the target's operations.       *)
SilentOnceKnown ==
  \A k \in knowledge :
    /\ k.head = IF k.seq = 0 THEN Genesis ELSE log[k.seq].hash
    /\ \A o \in Logged : k.target \in {"DEVICE", o.actor} => o.seq <= k.seq

(* A close checkpoint that the device keeps still says the truth when it   *)
(* is sent, now or after a reload: all it covers has been answered, and    *)
(* the session has had no operation since.                                 *)
CheckpointStillTrue ==
  \A c \in closeCheckpoints :
    /\ c.head = IF c.seq = 0 THEN Genesis ELSE log[c.seq].hash
    /\ \A o \in Logged : o.seq <= c.seq => Final(o.id)
    /\ \A o \in Logged : o.session = c.session => o.seq <= c.seq
=============================================================================
