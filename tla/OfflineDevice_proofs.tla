------------------------ MODULE OfflineDevice_proofs ------------------------
(***************************************************************************)
(* What a POS device guarantees for any number of tabs, sessions, drafts   *)
(* and users, and for any bound on its chain and on its leases.            *)
(*                                                                         *)
(* The safety properties are not inductive as they stand.  The commit of a *)
(* tab continues the chain because the lease it asserts describes the end  *)
(* of the log (ChainMatchesLog); the session's own counter and its cash    *)
(* are right because they are the counts of the log as long as the session *)
(* has a record (SessionsFromLog); an opening has a session of its own     *)
(* from the moment its identifier is drawn (OpeningsApart); and what the   *)
(* device signed lies behind the end of the chain, and a close checkpoint  *)
(* only stands while its session is being closed (SignedBehind).           *)
(***************************************************************************)
EXTENDS OfflineDevice, FiniteSetTheorems, SequenceTheorems, TLAPS

HeadAt(n) == IF n = 0 THEN Genesis ELSE log[n].hash

OfSession(s) == {o \in Logged : o.session = s}
SalesOf(s) == {o \in Logged : o.session = s /\ o.kind = "sale-confirm"}

Opening(t) == tabs[t] # Idle /\ tabs[t].work.do = "open"

ChainMatchesLog ==
  /\ chain.seq = Len(log)
  /\ chain.head = HeadAt(Len(log))
  /\ \A n \in 1..Len(log) : log[n].seq = n /\ log[n].prev = HeadAt(n - 1)

SessionsFromLog ==
  /\ \A r \in sessions : \E o \in Logged : o.session = r.session /\ o.actor = r.actor
  /\ \A o, p \in Logged : o.session = p.session => o.actor = p.actor
  /\ \A s \in Session : OfSession(s) = {} => sessionSeq[s] = 0
  /\ \A r \in sessions : /\ sessionSeq[r.session] = Cardinality(OfSession(r.session))
                         /\ cash[r.session] = Cardinality(SalesOf(r.session))
  /\ \A s \in Session : sessionSeq[s] <= Len(log) /\ cash[s] <= Len(log)

OpeningsApart ==
  \A t \in Tab : Opening(t) =>
    /\ \A o \in Logged : o.session # tabs[t].work.session
    /\ \A u \in Tab : Opening(u) /\ tabs[u].work.session = tabs[t].work.session => u = t

SignedBehind ==
  /\ \A k \in knowledge : k.seq <= Len(log)
  /\ \A c \in closeCheckpoints : c.seq <= Len(log) /\ c.session \in closing

DeviceInv ==
  /\ DeviceTypeOK
  /\ tabs = [t \in Tab |-> tabs[t]]
  /\ ChainMatchesLog
  /\ NothingForgotten
  /\ Cardinality({o.id : o \in Logged}) = Len(log)
  /\ SessionsFromLog
  /\ SessionsInOrder
  /\ OpeningsApart
  /\ SignedBehind
  /\ SilentOnceKnown
  /\ CheckpointStillTrue

TabState(x) ==
  \/ x = Idle
  \/ x \in [at: {"waiting"}, work: Work]
  \/ x \in [at: {"leased"}, work: Work, lease: ChainState]

-----------------------------------------------------------------------------
(* What the log holds after an operation is sealed into it. *)
LEMMA AppendToLog ==
  ASSUME log \in Seq(Operation), NEW o \in Operation, log' = Append(log, o)
  PROVE  /\ log' \in Seq(Operation)
         /\ Len(log) \in Nat /\ Len(log') = Len(log) + 1
         /\ \A n \in 1..Len(log) : log'[n] = log[n]
         /\ log'[Len(log) + 1] = o
         /\ Logged' = Logged \cup {o}
<1>1. /\ log' \in Seq(Operation)
      /\ Len(log) \in Nat /\ Len(log') = Len(log) + 1
      /\ \A n \in 1..Len(log) : log'[n] = log[n]
      /\ log'[Len(log) + 1] = o
  OBVIOUS
<1>2. Logged' = {log'[n] : n \in 1..(Len(log) + 1)}
  BY <1>1 DEF Logged
<1>3. \A x \in Logged' : x \in Logged \cup {o}
  <2> SUFFICES ASSUME NEW n \in 1..(Len(log) + 1)
               PROVE  log'[n] \in Logged \cup {o}
    BY <1>2
  <2>1. CASE n = Len(log) + 1
    BY <2>1, <1>1
  <2>2. CASE n # Len(log) + 1
    BY <2>2, <1>1 DEF Logged
  <2> QED
    BY <2>1, <2>2
<1>4. \A n \in 1..Len(log) : log[n] \in Logged'
  <2> SUFFICES ASSUME NEW n \in 1..Len(log) PROVE log[n] \in Logged'
    OBVIOUS
  <2>1. n \in 1..(Len(log) + 1) /\ log'[n] = log[n]
    BY <1>1
  <2> QED
    BY <2>1, <1>2
<1>5. o \in Logged'
  <2>1. Len(log) + 1 \in 1..(Len(log) + 1)
    BY <1>1
  <2> QED
    BY <2>1, <1>1, <1>2
<1>6. Logged \subseteq Logged'
  BY <1>4 DEF Logged
<1> QED
  BY <1>1, <1>3, <1>5, <1>6

LEMMA LoggedFinite ==
  ASSUME log \in Seq(Operation)
  PROVE  /\ IsFiniteSet(Logged)
         /\ IsFiniteSet({o.id : o \in Logged})
         /\ Logged \subseteq Operation
         /\ \A o \in Logged : \E n \in 1..Len(log) : log[n] = o
<1>1. Len(log) \in Nat /\ \A n \in 1..Len(log) : log[n] \in Operation
  OBVIOUS
<1>2. IsFiniteSet(1..Len(log))
  BY <1>1, FS_Interval
<1>3. IsFiniteSet(Logged)
  <2> DEFINE f == [n \in 1..Len(log) |-> log[n]]
  <2>1. f \in Surjection(1..Len(log), Logged)
    BY DEF Surjection, Logged
  <2> QED
    BY <1>2, <2>1, FS_Surjection
<1>4. IsFiniteSet({o.id : o \in Logged})
  <2> DEFINE S == {o.id : o \in Logged}
             g == [o \in Logged |-> o.id]
  <2>1. g \in Surjection(Logged, S)
    BY DEF Surjection
  <2> QED
    BY <1>3, <2>1, FS_Surjection
<1> QED
  BY <1>1, <1>3, <1>4 DEF Logged

(* An operation's fields. *)
LEMMA OperationFields ==
  ASSUME NEW o \in Operation
  PROVE  /\ o.id \in Id /\ o.actor \in Actor /\ o.session \in Session /\ o.hash \in Hash
         /\ o.seq \in Nat /\ o.seq >= 1 /\ o.seq <= MaxSequence
         /\ o.sessionSeq \in Nat /\ o.sessionSeq <= MaxSequence /\ o.kind \in Kind
BY SequenceAssumption DEF Operation

LEMMA WorkFields ==
  ASSUME NEW w \in Work
  PROVE  /\ w.do = "open" => w.actor \in Actor /\ w.session \in Session
         /\ w.do = "confirm" => /\ w.draft \in [id: Draft, actor: Actor, session: Session]
                                /\ w.seen \in Nat
         /\ w.do = "learn" => w.target \in Target
         /\ w.do \in {"freeze-session", "release", "complete", "checkpoint"} => w.session \in Session
         /\ w.do = "checkpoint" => w.actor \in Actor
BY DEF Work, Simple

LEMMA ChainFields ==
  ASSUME chain \in ChainState
  PROVE  /\ chain.fence \in 0..MaxFence /\ chain.seq \in 0..MaxSequence
         /\ chain.head \in Hash \cup {Genesis} /\ chain.session \in Session \cup {None}
         /\ chain.held \in BOOLEAN /\ chain.wiped \in BOOLEAN
BY DEF ChainState

(* What a step leaves of the chain, whichever of its fields it changes. *)
SameChain ==
  /\ chain'.seq = chain.seq /\ chain'.head = chain.head
  /\ chain.wiped => chain'.wiped

LEMMA ChainReleased ==
  ASSUME chain \in ChainState, chain' = [chain EXCEPT !.held = FALSE]
  PROVE  chain' \in ChainState /\ SameChain
BY DEF ChainState, SameChain

LEMMA ChainAcquired ==
  ASSUME chain \in ChainState, chain.fence < MaxFence,
         chain' = [chain EXCEPT !.fence = @ + 1, !.held = TRUE]
  PROVE  chain' \in ChainState /\ SameChain
<1>1. chain.fence + 1 \in 0..MaxFence
  BY DeviceAssumption DEF ChainState
<1> QED
  BY <1>1 DEF ChainState, SameChain

LEMMA ChainCompleted ==
  ASSUME chain \in ChainState, chain' = [chain EXCEPT !.held = FALSE, !.session = None]
  PROVE  chain' \in ChainState /\ SameChain
BY DEF ChainState, SameChain

LEMMA ChainWiped ==
  ASSUME chain \in ChainState, chain' = [chain EXCEPT !.held = FALSE, !.wiped = TRUE]
  PROVE  chain' \in ChainState /\ SameChain
BY DEF ChainState, SameChain

LEMMA ChainSealed ==
  ASSUME chain \in ChainState, NEW o \in Operation,
         \/ chain' = [chain EXCEPT !.held = FALSE, !.seq = o.seq, !.head = o.hash]
         \/ chain' = [chain EXCEPT !.held = FALSE, !.seq = o.seq, !.head = o.hash,
                                   !.session = o.session]
  PROVE  /\ chain' \in ChainState /\ chain'.seq = o.seq /\ chain'.head = o.hash
         /\ chain'.wiped = chain.wiped
<1>1. o.seq \in 0..MaxSequence /\ o.hash \in Hash /\ o.session \in Session
  BY OperationFields, SequenceAssumption
<1> QED
  BY <1>1 DEF ChainState

-----------------------------------------------------------------------------
(* A tab's next state is written over its previous one. *)
LEMMA TabWritten ==
  ASSUME DeviceInv, NEW t \in Tab, NEW x, TabState(x), tabs' = [tabs EXCEPT ![t] = x]
  PROVE  /\ tabs' = [u \in Tab |-> tabs'[u]]
         /\ \A u \in Tab : TabState(tabs'[u])
         /\ tabs'[t] = x
         /\ \A u \in Tab \ {t} : tabs'[u] = tabs[u]
BY DEF DeviceInv, DeviceTypeOK, TabState

LEMMA TabFields ==
  ASSUME DeviceInv, NEW t \in Tab, tabs[t] # Idle
  PROVE  /\ tabs[t].work \in Work
         /\ tabs[t].at = "leased" => tabs[t].lease \in ChainState
BY DEF DeviceInv, DeviceTypeOK, Idle

LEMMA IdleState == TabState(Idle)
BY DEF TabState

LEMMA WaitingState ==
  ASSUME NEW w \in Work PROVE TabState([at |-> "waiting", work |-> w])
BY DEF TabState

-----------------------------------------------------------------------------
(* The two things a step may do to what was sealed: keep it, with what was *)
(* derived from it kept or dropped, or seal one more operation.            *)

TypedTabs == DeviceTypeOK /\ tabs = [t \in Tab |-> tabs[t]]

KeepsLog ==
  /\ log' = log /\ SameChain
  /\ receipts \subseteq receipts'
  /\ queue' \subseteq queue
  /\ \A o \in queue : o \in queue' \/ Final(o.id)'
  /\ sessions' \subseteq sessions
  /\ \A s \in Session : sessionSeq'[s] \in {sessionSeq[s], 0} /\ cash'[s] \in {cash[s], 0}
  /\ \A r \in sessions' : /\ sessionSeq'[r.session] = sessionSeq[r.session]
                          /\ cash'[r.session] = cash[r.session]
  /\ \/ knowledge' = knowledge
     \/ knowledge' = {} /\ chain'.wiped
     \/ /\ ~ chain.wiped
        /\ \E k \in Knowing :
             /\ k.device = ThisDevice /\ k.seq = chain.seq /\ k.head = chain.head
             /\ \A l \in knowledge : l.target # k.target
             /\ knowledge' = knowledge \cup {k}
  /\ \A c \in closeCheckpoints' :
       \/ c \in closeCheckpoints /\ (c.session \in closing => c.session \in closing')
       \/ c.seq = chain.seq /\ c.head = chain.head /\ c.session \in closing' /\ queue = {}

Seals(o) ==
  /\ o \in Operation
  /\ o.device = ThisDevice /\ o.genuine
  /\ o.seq = chain.seq + 1 /\ o.prev = chain.head
  /\ o.sessionSeq = sessionSeq[o.session] + 1
  /\ Identified(o.actor) /\ o.session \notin closing
  /\ ~ Final(o.id) /\ ~ \E q \in queue : q.id = o.id
  /\ log' = Append(log, o) /\ queue' = queue \cup {o}
  /\ chain'.seq = o.seq /\ chain'.head = o.hash /\ chain'.wiped = chain.wiped
  /\ sessionSeq' = [sessionSeq EXCEPT ![o.session] = o.sessionSeq]
  /\ UNCHANGED <<receipts, knowledge, closing, closeCheckpoints>>
  /\ \/ /\ o.kind = "cash-session-open"
        /\ OfSession(o.session) = {}
        /\ sessions' = sessions \cup {[session |-> o.session, actor |-> o.actor]}
        /\ cash' = [cash EXCEPT ![o.session] = 0]
     \/ /\ o.kind = "sale-confirm"
        /\ [session |-> o.session, actor |-> o.actor] \in sessions
        /\ sessions' = sessions
        /\ cash' = [cash EXCEPT ![o.session] = cash[o.session] + 1]

KeepsOpenings ==
  \A t \in Tab : Opening(t)' => Opening(t) /\ tabs'[t].work = tabs[t].work

DataSame == UNCHANGED <<queue, receipts, sessions, sessionSeq, cash, knowledge, closing,
                        closeCheckpoints, log>>

LEMMA SameDataKeepsLog == ASSUME DataSame, SameChain PROVE KeepsLog
BY DEF DataSame, KeepsLog

LEMMA TypedTabsHold == ASSUME DeviceInv PROVE TypedTabs /\ chain \in ChainState
BY DEF DeviceInv, TypedTabs, DeviceTypeOK

(* Writing Idle over a tab draws no session identifier. *)
LEMMA IdleKeepsOpenings ==
  ASSUME DeviceInv, NEW t \in Tab, tabs' = [tabs EXCEPT ![t] = Idle]
  PROVE  /\ KeepsOpenings
         /\ tabs' = [u \in Tab |-> tabs'[u]]
         /\ \A u \in Tab : TabState(tabs'[u])
<1>1. /\ tabs' = [u \in Tab |-> tabs'[u]]
      /\ \A u \in Tab : TabState(tabs'[u])
      /\ tabs'[t] = Idle
      /\ \A u \in Tab \ {t} : tabs'[u] = tabs[u]
  BY TabWritten, IdleState
<1> QED
  BY <1>1 DEF KeepsOpenings, Opening

LEMMA TabStates ==
  TypedTabs => \A t \in Tab : TabState(tabs[t])
BY DEF TypedTabs, DeviceTypeOK, TabState

LEMMA PrepareSaleKeeps ==
  ASSUME DeviceInv, NEW a \in Actor, NEW s \in Session, NEW i \in Draft, PrepareSale(a, s, i)
  PROVE  TypedTabs' /\ KeepsLog /\ KeepsOpenings
<1>1. TypedTabs'
  BY DEF DeviceInv, TypedTabs, DeviceTypeOK, PrepareSale
<1>2. DataSame /\ SameChain /\ KeepsOpenings
  BY DEF PrepareSale, DataSame, SameChain, KeepsOpenings, Opening
<1> QED
  BY <1>1, <1>2, SameDataKeepsLog

(* A tab that begins, or gives up, and a lease that runs out. *)
LEMMA TabsOnly ==
  ASSUME DeviceInv, chain' \in ChainState,
         tabs' = [u \in Tab |-> tabs'[u]], \A u \in Tab : TabState(tabs'[u]),
         UNCHANGED <<queue, receipts, drafts, sessions, sessionSeq, cash, knowledge, retired,
                     frozen, closing, closeCheckpoints, log>>
  PROVE  TypedTabs' /\ DataSame
<1>1. TypedTabs'
  BY DEF DeviceInv, TypedTabs, DeviceTypeOK, TabState
<1> QED
  BY <1>1 DEF DataSame

LEMMA StartConfirmKeeps ==
  ASSUME DeviceInv, NEW t \in Tab, NEW d \in drafts, StartConfirm(t, d)
  PROVE  TypedTabs' /\ KeepsLog /\ KeepsOpenings
<1> DEFINE w == [do |-> "confirm", draft |-> d, seen |-> cash[d.session]]
<1>1. w \in Work /\ w.do # "open"
  <2>1. d \in [id: Draft, actor: Actor, session: Session]
    BY DEF DeviceInv, DeviceTypeOK
  <2>2. cash[d.session] \in Nat
    BY <2>1, SequenceAssumption DEF DeviceInv, DeviceTypeOK
  <2> QED
    BY <2>1, <2>2 DEF Work
<1> HIDE DEF w
<1>2. tabs' = [tabs EXCEPT ![t] = [at |-> "waiting", work |-> w]]
  BY DEF StartConfirm, w
<1>3. /\ tabs' = [u \in Tab |-> tabs'[u]]
      /\ \A u \in Tab : TabState(tabs'[u])
      /\ tabs'[t] = [at |-> "waiting", work |-> w]
      /\ \A u \in Tab \ {t} : tabs'[u] = tabs[u]
  BY <1>1, <1>2, TabWritten, WaitingState
<1>4. KeepsOpenings
  BY <1>1, <1>3 DEF KeepsOpenings, Opening
<1>5. chain' \in ChainState /\ SameChain
  BY TypedTabsHold DEF StartConfirm, SameChain
<1> QED
  BY <1>3, <1>4, <1>5, TabsOnly, SameDataKeepsLog DEF StartConfirm

LEMMA StartKeeps ==
  ASSUME DeviceInv, NEW t \in Tab, NEW w \in Command, Start(t, w)
  PROVE  TypedTabs' /\ KeepsLog /\ KeepsOpenings
<1>1. w \in Work /\ w.do # "open"
  BY CommandAssumption DEF Work, Simple
<1>3. /\ tabs' = [u \in Tab |-> tabs'[u]]
      /\ \A u \in Tab : TabState(tabs'[u])
      /\ tabs'[t] = [at |-> "waiting", work |-> w]
      /\ \A u \in Tab \ {t} : tabs'[u] = tabs[u]
  BY <1>1, TabWritten, WaitingState DEF Start
<1>4. KeepsOpenings
  BY <1>1, <1>3 DEF KeepsOpenings, Opening
<1>5. chain' \in ChainState /\ SameChain
  BY TypedTabsHold DEF Start, SameChain
<1> QED
  BY <1>3, <1>4, <1>5, TabsOnly, SameDataKeepsLog DEF Start

LEMMA StartOpenKeeps ==
  ASSUME DeviceInv, NEW t \in Tab, NEW a \in Actor, NEW s \in Session, StartOpen(t, a, s)
  PROVE  TypedTabs' /\ KeepsLog /\ OpeningsApart'
<1> DEFINE w == [do |-> "open", actor |-> a, session |-> s]
<1>1. w \in Work /\ w.session = s
  BY DEF Work
<1> HIDE DEF w
<1>2. tabs' = [tabs EXCEPT ![t] = [at |-> "waiting", work |-> w]]
  BY DEF StartOpen, w
<1>3. /\ tabs' = [u \in Tab |-> tabs'[u]]
      /\ \A u \in Tab : TabState(tabs'[u])
      /\ tabs'[t] = [at |-> "waiting", work |-> w]
      /\ \A u \in Tab \ {t} : tabs'[u] = tabs[u]
  BY <1>1, <1>2, TabWritten, WaitingState
<1>4. OpeningsApart'
  <2>1. \A o \in Logged' : o.session # s
    BY DEF StartOpen, Logged
  <2>2. \A u \in Tab \ {t} : Opening(u)' => Opening(u) /\ tabs'[u].work.session # s
    BY <1>3 DEF StartOpen, Opening
  <2>3. Logged' = Logged
    BY DEF StartOpen, Logged
  <2>4. \A u \in Tab \ {t} : Opening(u)' =>
          /\ \A o \in Logged' : o.session # tabs'[u].work.session
          /\ \A v \in Tab : Opening(v)' /\ tabs'[v].work.session = tabs'[u].work.session => v = u
    BY <1>1, <1>3, <2>2, <2>3 DEF DeviceInv, OpeningsApart
  <2>5. tabs'[t].work.session = s
    BY <1>1, <1>3
  <2>6. \A v \in Tab : Opening(v)' /\ tabs'[v].work.session = s => v = t
    BY <2>2
  <2> QED
    BY <2>1, <2>4, <2>5, <2>6 DEF OpeningsApart
<1>5. chain' \in ChainState /\ SameChain
  BY TypedTabsHold DEF StartOpen, SameChain
<1> QED
  BY <1>3, <1>4, <1>5, TabsOnly, SameDataKeepsLog DEF StartOpen

LEMMA AcquireKeeps ==
  ASSUME DeviceInv, NEW t \in Tab, Acquire(t)
  PROVE  TypedTabs' /\ KeepsLog /\ KeepsOpenings
<1>1. chain' \in ChainState /\ SameChain
  BY TypedTabsHold, ChainAcquired DEF Acquire
<1>2. tabs[t] # Idle /\ tabs[t].work \in Work
  BY TabFields DEF Acquire, Idle
<1> DEFINE x == [at |-> "leased", work |-> tabs[t].work, lease |-> chain']
<1>3. TabState(x) /\ x.work = tabs[t].work
  BY <1>1, <1>2 DEF TabState
<1>4. tabs' = [tabs EXCEPT ![t] = x]
  BY DEF Acquire
<1> HIDE DEF x
<1>5. /\ tabs' = [u \in Tab |-> tabs'[u]]
      /\ \A u \in Tab : TabState(tabs'[u])
      /\ tabs'[t] = x
      /\ \A u \in Tab \ {t} : tabs'[u] = tabs[u]
  BY <1>3, <1>4, TabWritten
<1>6. KeepsOpenings
  BY <1>2, <1>3, <1>5 DEF KeepsOpenings, Opening
<1> QED
  BY <1>1, <1>5, <1>6, TabsOnly, SameDataKeepsLog DEF Acquire

LEMMA FailKeeps ==
  ASSUME DeviceInv, NEW t \in Tab, Fail(t) \/ Crash(t)
  PROVE  TypedTabs' /\ KeepsLog /\ KeepsOpenings
<1>1. tabs' = [tabs EXCEPT ![t] = Idle]
  BY DEF Fail, Crash
<1>2. chain' \in ChainState /\ SameChain
  <2>1. chain' = [chain EXCEPT !.held = FALSE] \/ chain' = chain
    BY DEF Fail, Crash
  <2> QED
    BY <2>1, TypedTabsHold, ChainReleased DEF SameChain
<1> QED
  BY <1>1, <1>2, IdleKeepsOpenings, TabsOnly, SameDataKeepsLog DEF Fail, Crash

LEMMA ExpireKeeps ==
  ASSUME DeviceInv, Expire
  PROVE  TypedTabs' /\ KeepsLog /\ KeepsOpenings
<1>1. chain' \in ChainState /\ SameChain
  BY TypedTabsHold, ChainReleased DEF Expire
<1>2. KeepsOpenings /\ tabs' = tabs
  BY DEF Expire, KeepsOpenings, Opening
<1>3. tabs' = [u \in Tab |-> tabs'[u]] /\ \A u \in Tab : TabState(tabs'[u])
  BY <1>2, TypedTabsHold, TabStates DEF TypedTabs
<1> QED
  BY <1>1, <1>2, <1>3, TabsOnly, SameDataKeepsLog DEF Expire

(* What no tab does: resuming, logging out, logging in. *)
LEMMA AsideKeeps ==
  ASSUME DeviceInv, ResumeConfiguration \/ Retire \/ \E a \in Actor : Activate(a)
  PROVE  TypedTabs' /\ KeepsLog /\ KeepsOpenings
<1>1. DataSame /\ SameChain /\ KeepsOpenings
  BY DEF ResumeConfiguration, Retire, Activate, DataSame, SameChain, KeepsOpenings, Opening
<1>2. TypedTabs'
  BY DEF DeviceInv, TypedTabs, DeviceTypeOK, ResumeConfiguration, Retire, Activate
<1> QED
  BY <1>1, <1>2, SameDataKeepsLog

-----------------------------------------------------------------------------
(* The commands that work under the lease. *)
LEMMA LeasedTab ==
  ASSUME DeviceInv, NEW t \in Tab, NEW do, Leased(t, do)
  PROVE  /\ tabs[t].work \in Work /\ tabs[t].work.do = do
         /\ tabs[t].lease.seq = chain.seq /\ tabs[t].lease.head = chain.head
         /\ KeepsOpenings
         /\ tabs' = [u \in Tab |-> tabs'[u]]
         /\ \A u \in Tab : TabState(tabs'[u])
<1>1. tabs[t] # Idle
  BY DEF Leased, Idle
<1> QED
  BY <1>1, TabFields, IdleKeepsOpenings DEF Leased, Holds

LEMMA LearnKeeps ==
  ASSUME DeviceInv, NEW t \in Tab, Learn(t)
  PROVE  TypedTabs' /\ KeepsLog /\ KeepsOpenings
<1>1. Leased(t, "learn")
  BY DEF Learn
<1>2. chain' \in ChainState /\ SameChain
  BY TypedTabsHold, ChainReleased DEF Learn
<1> DEFINE k == [device |-> ThisDevice, target |-> tabs[t].work.target,
                 seq |-> tabs[t].lease.seq, head |-> tabs[t].lease.head]
<1>3. k \in Knowing /\ k.device = ThisDevice /\ k.seq = chain.seq /\ k.head = chain.head
  <2>1. tabs[t].work.target \in Target
    BY <1>1, LeasedTab, WorkFields
  <2>2. tabs[t].lease.seq \in 0..MaxSequence /\ tabs[t].lease.head \in Hash \cup {Genesis}
    BY <1>1, LeasedTab, TypedTabsHold, ChainFields
  <2> QED
    BY <1>1, <2>1, <2>2, LeasedTab, DeviceAssumption DEF Knowing
<1>4. /\ ~ chain.wiped
      /\ \/ knowledge' = knowledge
         \/ knowledge' = knowledge \cup {k} /\ \A l \in knowledge : l.target # k.target
  BY DEF Learn, Leased
<1> HIDE DEF k
<1>5. knowledge' \subseteq Knowing
  BY <1>3, <1>4 DEF DeviceInv, DeviceTypeOK
<1>6. TypedTabs'
  BY <1>1, <1>2, <1>5, LeasedTab DEF DeviceInv, TypedTabs, DeviceTypeOK, TabState, Learn
<1>7. KeepsLog
  BY <1>2, <1>3, <1>4 DEF Learn, KeepsLog
<1> QED
  BY <1>1, <1>6, <1>7, LeasedTab

LEMMA FreezeSessionKeeps ==
  ASSUME DeviceInv, NEW t \in Tab, FreezeSession(t)
  PROVE  TypedTabs' /\ KeepsLog /\ KeepsOpenings
<1>1. Leased(t, "freeze-session")
  BY DEF FreezeSession
<1>2. chain' \in ChainState /\ SameChain
  BY TypedTabsHold, ChainReleased DEF FreezeSession
<1>3. closing' \subseteq Session /\ closing \subseteq closing'
  BY <1>1, LeasedTab, WorkFields DEF DeviceInv, DeviceTypeOK, FreezeSession
<1>6. TypedTabs'
  BY <1>1, <1>2, <1>3, LeasedTab DEF DeviceInv, TypedTabs, DeviceTypeOK, TabState, FreezeSession
<1>7. KeepsLog
  BY <1>2, <1>3 DEF FreezeSession, KeepsLog
<1> QED
  BY <1>1, <1>6, <1>7, LeasedTab

LEMMA KeepCheckpointKeeps ==
  ASSUME DeviceInv, NEW t \in Tab, KeepCheckpoint(t)
  PROVE  TypedTabs' /\ KeepsLog /\ KeepsOpenings
<1>1. Leased(t, "checkpoint")
  BY DEF KeepCheckpoint
<1>2. chain' \in ChainState /\ SameChain
  BY TypedTabsHold, ChainReleased DEF KeepCheckpoint
<1> DEFINE c == [session |-> tabs[t].work.session, actor |-> tabs[t].work.actor,
                 seq |-> tabs[t].lease.seq, head |-> tabs[t].lease.head]
           CC == [session: Session, actor: Actor, seq: 0..MaxSequence, head: Hash \cup {Genesis}]
<1>3. c \in CC /\ c.seq = chain.seq /\ c.head = chain.head /\ c.session \in closing
  <2>1. tabs[t].work.session \in Session /\ tabs[t].work.actor \in Actor
    BY <1>1, LeasedTab, WorkFields
  <2>2. tabs[t].lease.seq \in 0..MaxSequence /\ tabs[t].lease.head \in Hash \cup {Genesis}
    BY <1>1, LeasedTab, TypedTabsHold, ChainFields
  <2> QED
    BY <1>1, <2>1, <2>2, LeasedTab DEF KeepCheckpoint
<1>4. closeCheckpoints' = closeCheckpoints \cup {c} /\ closing' = closing /\ queue = {}
  BY DEF KeepCheckpoint
<1> HIDE DEF c
<1>5. closeCheckpoints' \subseteq CC
  BY <1>3, <1>4 DEF DeviceInv, DeviceTypeOK
<1>6. TypedTabs'
  BY <1>1, <1>2, <1>5, LeasedTab DEF DeviceInv, TypedTabs, DeviceTypeOK, TabState, KeepCheckpoint
<1>7. KeepsLog
  BY <1>2, <1>3, <1>4 DEF KeepCheckpoint, KeepsLog
<1> QED
  BY <1>1, <1>6, <1>7, LeasedTab

LEMMA ReleaseSessionKeeps ==
  ASSUME DeviceInv, NEW t \in Tab, ReleaseSession(t)
  PROVE  TypedTabs' /\ KeepsLog /\ KeepsOpenings
<1>1. Leased(t, "release")
  BY DEF ReleaseSession
<1>2. chain' \in ChainState /\ SameChain
  BY TypedTabsHold, ChainReleased DEF ReleaseSession
<1>3. /\ closing' \subseteq Session /\ closeCheckpoints' \subseteq closeCheckpoints
      /\ \A c \in closeCheckpoints' : c.session \in closing => c.session \in closing'
  BY DEF DeviceInv, DeviceTypeOK, ReleaseSession, WithoutCheckpoints
<1>6. TypedTabs'
  BY <1>1, <1>2, <1>3, LeasedTab DEF DeviceInv, TypedTabs, DeviceTypeOK, TabState, ReleaseSession
<1>7. KeepsLog
  BY <1>2, <1>3 DEF ReleaseSession, KeepsLog
<1> QED
  BY <1>1, <1>6, <1>7, LeasedTab

LEMMA CompleteSessionKeeps ==
  ASSUME DeviceInv, NEW t \in Tab, CompleteSession(t)
  PROVE  TypedTabs' /\ KeepsLog /\ KeepsOpenings
<1>1. Leased(t, "complete")
  BY DEF CompleteSession
<1>2. chain' \in ChainState /\ SameChain
  BY TypedTabsHold, ChainCompleted DEF CompleteSession
<1>3. /\ closing' \subseteq Session /\ closeCheckpoints' \subseteq closeCheckpoints
      /\ closing \subseteq closing'
  BY <1>1, LeasedTab, WorkFields DEF DeviceInv, DeviceTypeOK, CompleteSession, WithoutCheckpoints
<1>6. TypedTabs'
  BY <1>1, <1>2, <1>3, LeasedTab DEF DeviceInv, TypedTabs, DeviceTypeOK, TabState, CompleteSession
<1>7. KeepsLog
  BY <1>2, <1>3 DEF CompleteSession, KeepsLog
<1> QED
  BY <1>1, <1>6, <1>7, LeasedTab

LEMMA FreezeConfigurationKeeps ==
  ASSUME DeviceInv, NEW t \in Tab, FreezeConfiguration(t)
  PROVE  TypedTabs' /\ KeepsLog /\ KeepsOpenings
<1>1. Leased(t, "freeze-configuration")
  BY DEF FreezeConfiguration
<1>2. chain' \in ChainState /\ SameChain
  BY TypedTabsHold, ChainReleased DEF FreezeConfiguration
<1>6. TypedTabs'
  BY <1>1, <1>2, LeasedTab DEF DeviceInv, TypedTabs, DeviceTypeOK, TabState, FreezeConfiguration
<1>7. DataSame
  BY DEF FreezeConfiguration, DataSame
<1> QED
  BY <1>1, <1>2, <1>6, <1>7, LeasedTab, SameDataKeepsLog

-----------------------------------------------------------------------------
(* An answer of the server. *)
LEMMA AcceptAckKeeps ==
  ASSUME DeviceInv, NEW o \in queue, NEW status \in Status, AcceptAck(o, status)
  PROVE  TypedTabs' /\ KeepsLog /\ KeepsOpenings
<1> DEFINE r == [id |-> o.id, status |-> status]
<1>1. /\ queue' = queue \ {o} /\ receipts' = receipts \cup {r} /\ log' = log /\ tabs' = tabs
      /\ r \in [id: Id, status: Status] /\ r.id = o.id
  <2>1. o.id \in Id
    BY OperationFields DEF DeviceInv, DeviceTypeOK
  <2> QED
    BY <2>1 DEF AcceptAck
<1> HIDE DEF r
<1>2. \A q \in queue : q \in queue' \/ Final(q.id)'
  BY <1>1 DEF Final
<1>3. KeepsOpenings
  BY <1>1 DEF KeepsOpenings, Opening
<1>4. /\ queue' \subseteq Operation /\ receipts' \subseteq [id: Id, status: Status]
      /\ receipts \subseteq receipts' /\ log' \in Seq(Operation)
      /\ tabs' = [t \in Tab |-> tabs'[t]] /\ \A t \in Tab : TabState(tabs'[t])
  BY <1>1, TypedTabsHold, TabStates DEF DeviceInv, DeviceTypeOK
<1>w. CASE Wipe
  <2>1. chain' \in ChainState /\ SameChain
    BY <1>w, TypedTabsHold, ChainWiped DEF Wipe
  <2>4. /\ drafts' = {} /\ sessions' = {} /\ knowledge' = {} /\ retired' = {} /\ frozen' = FALSE
        /\ closing' = {} /\ closeCheckpoints' = {}
    BY <1>w DEF Wipe
  <2>5. sessionSeq' \in [Session -> 0..MaxSequence] /\ cash' \in [Session -> 0..MaxSequence]
    BY <1>w, SequenceAssumption DEF Wipe
  <2>2. TypedTabs'
    BY <1>4, <2>1, <2>4, <2>5 DEF TypedTabs, DeviceTypeOK, TabState
  <2>3. KeepsLog
    BY <1>w, <1>1, <1>2, <1>4, <2>1 DEF Wipe, KeepsLog
  <2> QED
    BY <1>3, <2>2, <2>3
<1>p. CASE \E d : Purge(d)
  <2>1. chain' \in ChainState /\ SameChain
    BY <1>p, TypedTabsHold DEF Purge, SameChain
  <2>2. UNCHANGED <<knowledge, retired, frozen, closing, closeCheckpoints>>
    BY <1>p DEF Purge
  <2>3. /\ drafts' \subseteq drafts /\ sessions' \subseteq sessions
        /\ sessionSeq' \in [Session -> 0..MaxSequence] /\ cash' \in [Session -> 0..MaxSequence]
        /\ \A s \in Session : sessionSeq'[s] \in {sessionSeq[s], 0} /\ cash'[s] \in {cash[s], 0}
    BY <1>p, SequenceAssumption DEF Purge, DeviceInv, DeviceTypeOK
  <2>4. TypedTabs'
    BY <1>4, <2>1, <2>2, <2>3 DEF DeviceInv, TypedTabs, DeviceTypeOK, TabState
  <2>5. ASSUME NEW p \in sessions'
        PROVE  sessionSeq'[p.session] = sessionSeq[p.session] /\ cash'[p.session] = cash[p.session]
    <3>1. p \in sessions /\ p.session \in Session /\ ~ \E k \in knowledge : k.target = p.actor
      BY <1>p, <2>5 DEF Purge, DeviceInv, DeviceTypeOK
    <3>2. \A q \in sessions : q.session = p.session => q.actor = p.actor
      BY <3>1 DEF DeviceInv, SessionsFromLog
    <3> QED
      BY <1>p, <3>1, <3>2 DEF Purge
  <2>6. KeepsLog
    BY <1>1, <1>2, <1>4, <2>1, <2>2, <2>3, <2>5 DEF KeepsLog
  <2> QED
    BY <1>3, <2>4, <2>6
<1>n. CASE /\ drafts' \subseteq drafts
           /\ UNCHANGED <<chain, sessions, sessionSeq, cash, knowledge, retired, frozen, closing,
                          closeCheckpoints>>
  <2>1. TypedTabs'
    BY <1>4, <1>n DEF DeviceInv, TypedTabs, DeviceTypeOK, TabState
  <2>2. KeepsLog
    BY <1>1, <1>2, <1>4, <1>n DEF KeepsLog, SameChain
  <2> QED
    BY <1>3, <2>1, <2>2
<1> QED
  BY <1>w, <1>p, <1>n DEF AcceptAck

-----------------------------------------------------------------------------
(* The commit of an operation. *)

(* A lease that still holds describes the end of the chain.                *)
LEMMA HeldLease ==
  ASSUME NEW t, Holds(t)
  PROVE  tabs[t].lease.seq = chain.seq /\ tabs[t].lease.head = chain.head
BY DEF Holds

LEMMA SealedTyped ==
  ASSUME DeviceInv, NEW i \in Id, NEW a \in Actor, NEW s \in Session, NEW k \in Kind,
         chain.seq + 1 <= MaxSequence,
         NEW o, o = [id |-> i, device |-> ThisDevice, actor |-> a, session |-> s, kind |-> k,
                     seq |-> chain.seq + 1, sessionSeq |-> sessionSeq[s] + 1,
                     prev |-> chain.head, hash |-> i, genuine |-> TRUE]
  PROVE  /\ o \in Operation
         /\ o.id = i /\ o.actor = a /\ o.session = s /\ o.kind = k /\ o.hash = i
         /\ o.seq = chain.seq + 1 /\ o.sessionSeq = sessionSeq[s] + 1 /\ o.prev = chain.head
         /\ o.device = ThisDevice /\ o.genuine
<1>1. chain.seq + 1 \in 1..MaxSequence /\ chain.head \in Hash \cup {Genesis}
  BY TypedTabsHold, ChainFields, SequenceAssumption
<1>2. sessionSeq[s] <= chain.seq /\ sessionSeq[s] \in Nat
  BY SequenceAssumption DEF DeviceInv, DeviceTypeOK, SessionsFromLog, ChainMatchesLog
<1>3. sessionSeq[s] + 1 \in 1..MaxSequence
  BY <1>1, <1>2, TypedTabsHold, ChainFields, SequenceAssumption
<1>4. ThisDevice \in Device /\ i \in Hash
  BY DeviceAssumption
<1> QED
  BY <1>1, <1>3, <1>4 DEF Operation

LEMMA CommitTyped ==
  ASSUME DeviceInv, NEW t \in Tab, NEW o \in Operation, Commit(t, o), chain' \in ChainState,
         sessions' \subseteq [session: Session, actor: Actor],
         cash' \in [Session -> 0..MaxSequence]
  PROVE  TypedTabs' /\ KeepsOpenings
<1>1. /\ KeepsOpenings
      /\ tabs' = [u \in Tab |-> tabs'[u]]
      /\ \A u \in Tab : TabState(tabs'[u])
  BY IdleKeepsOpenings DEF Commit
<1>2. log' \in Seq(Operation)
  BY AppendToLog DEF Commit, DeviceInv, DeviceTypeOK
<1>3. sessionSeq' \in [Session -> 0..MaxSequence]
  <2>1. o.sessionSeq \in 0..MaxSequence
    BY OperationFields, SequenceAssumption
  <2> QED
    BY <2>1 DEF Commit, DeviceInv, DeviceTypeOK
<1> QED
  BY <1>1, <1>2, <1>3 DEF Commit, TypedTabs, DeviceTypeOK, TabState, DeviceInv

(* An opening is sealed into a session of its own.                         *)
LEMMA SealOpeningSeals ==
  ASSUME DeviceInv, NEW t \in Tab, SealOpening(t)
  PROVE  TypedTabs' /\ (\E o : Seals(o)) /\ OpeningsApart'
<1> DEFINE w == tabs[t].work
           o == Sealed(w, tabs[t].lease, sessionSeq[w.session])
<1>1. tabs[t] # Idle /\ w \in Work /\ w.do = "open"
  <2>1. tabs[t].at = "leased" /\ tabs[t].work.do = "open"
    BY DEF SealOpening
  <2> QED
    BY <2>1, TabFields DEF Idle
<1>2. w.actor \in Actor /\ w.session \in Session
  BY <1>1, WorkFields
<1>3. /\ Admissible(o, t)
      /\ sessions' = sessions \cup {[session |-> o.session, actor |-> o.actor]}
      /\ cash' = [cash EXCEPT ![o.session] = 0]
      /\ chain' = [chain EXCEPT !.held = FALSE, !.seq = o.seq, !.head = o.hash,
                                !.session = o.session]
      /\ Commit(t, o)
  BY DEF SealOpening
<1>4. /\ o = [id |-> OpeningId[w.session], device |-> ThisDevice, actor |-> w.actor,
              session |-> w.session, kind |-> "cash-session-open",
              seq |-> chain.seq + 1, sessionSeq |-> sessionSeq[w.session] + 1,
              prev |-> chain.head, hash |-> OpeningId[w.session], genuine |-> TRUE]
      /\ o.seq <= MaxSequence
  <2>1. tabs[t].lease.seq = chain.seq /\ tabs[t].lease.head = chain.head /\ o.seq <= MaxSequence
    BY <1>3, HeldLease DEF Admissible
  <2> QED
    BY <1>1, <2>1 DEF Sealed
<1>5. OpeningId[w.session] \in Id /\ "cash-session-open" \in Kind
  BY <1>2, DeviceAssumption DEF Kind
<1> HIDE DEF o
<1>6. chain.seq + 1 <= MaxSequence
  BY <1>4
<1>7. /\ o \in Operation
      /\ o.actor = w.actor /\ o.session = w.session /\ o.kind = "cash-session-open"
      /\ o.seq = chain.seq + 1 /\ o.sessionSeq = sessionSeq[w.session] + 1
      /\ o.prev = chain.head /\ o.device = ThisDevice /\ o.genuine
  BY <1>2, <1>4, <1>5, <1>6, SealedTyped
<1>8. OfSession(o.session) = {}
  BY <1>1, <1>7 DEF DeviceInv, OpeningsApart, Opening, OfSession
<1>9. /\ chain' \in ChainState /\ chain'.seq = o.seq /\ chain'.head = o.hash
      /\ chain'.wiped = chain.wiped
  BY <1>3, <1>7, TypedTabsHold, ChainSealed
<1>10. /\ sessions' \subseteq [session: Session, actor: Actor]
       /\ cash' \in [Session -> 0..MaxSequence]
  BY <1>2, <1>3, <1>7, SequenceAssumption DEF DeviceInv, DeviceTypeOK
<1>11. TypedTabs' /\ KeepsOpenings
  BY <1>3, <1>7, <1>9, <1>10, CommitTyped
<1>12. Seals(o)
  BY <1>3, <1>7, <1>8, <1>9 DEF Seals, Admissible, Commit
<1>13. OpeningsApart'
  <2>1. Logged' = Logged \cup {o} /\ ~ Opening(t)'
    <3>1. tabs'[t] = Idle
      BY <1>3, IdleState, TabWritten DEF Commit
    <3> QED
      BY <1>3, <1>7, <3>1, AppendToLog DEF Commit, DeviceInv, DeviceTypeOK, Opening
  <2>2. Opening(t)
    BY <1>1 DEF Opening
  <2> QED
    BY <1>7, <1>11, <2>1, <2>2 DEF DeviceInv, OpeningsApart, KeepsOpenings
<1> QED
  BY <1>11, <1>12, <1>13

(* A sale is sealed into a session that has its record, and its opening.   *)
LEMMA SealSaleSeals ==
  ASSUME DeviceInv, NEW t \in Tab, SealSale(t)
  PROVE  TypedTabs' /\ (\E o : Seals(o)) /\ OpeningsApart'
<1> DEFINE w == tabs[t].work
           o == Sealed(w, tabs[t].lease, sessionSeq[w.draft.session])
<1>1. tabs[t] # Idle /\ w \in Work /\ w.do = "confirm"
  <2>1. tabs[t].at = "leased" /\ tabs[t].work.do = "confirm"
    BY DEF SealSale
  <2> QED
    BY <2>1, TabFields DEF Idle
<1>2. /\ w.draft.id \in Id /\ w.draft.actor \in Actor /\ w.draft.session \in Session
      /\ w.seen \in Nat
  BY <1>1, WorkFields, DeviceAssumption
<1>3. /\ Admissible(o, t)
      /\ [session |-> o.session, actor |-> o.actor] \in sessions
      /\ cash[o.session] = w.seen
      /\ cash' = [cash EXCEPT ![o.session] = w.seen + 1]
      /\ chain' = [chain EXCEPT !.held = FALSE, !.seq = o.seq, !.head = o.hash]
      /\ sessions' = sessions
      /\ Commit(t, o)
  BY DEF SealSale
<1>4. /\ o = [id |-> w.draft.id, device |-> ThisDevice, actor |-> w.draft.actor,
              session |-> w.draft.session, kind |-> "sale-confirm",
              seq |-> chain.seq + 1, sessionSeq |-> sessionSeq[w.draft.session] + 1,
              prev |-> chain.head, hash |-> w.draft.id, genuine |-> TRUE]
      /\ o.seq <= MaxSequence
  <2>1. tabs[t].lease.seq = chain.seq /\ tabs[t].lease.head = chain.head /\ o.seq <= MaxSequence
    BY <1>3, HeldLease DEF Admissible
  <2> QED
    BY <1>1, <2>1 DEF Sealed
<1>5. "sale-confirm" \in Kind
  BY DEF Kind
<1> HIDE DEF o
<1>6. chain.seq + 1 <= MaxSequence
  BY <1>4
<1>7. /\ o \in Operation
      /\ o.actor = w.draft.actor /\ o.session = w.draft.session /\ o.kind = "sale-confirm"
      /\ o.seq = chain.seq + 1 /\ o.sessionSeq = sessionSeq[w.draft.session] + 1
      /\ o.prev = chain.head /\ o.device = ThisDevice /\ o.genuine
  BY <1>2, <1>4, <1>5, <1>6, SealedTyped
<1>9. /\ chain' \in ChainState /\ chain'.seq = o.seq /\ chain'.head = o.hash
      /\ chain'.wiped = chain.wiped
  BY <1>3, <1>7, TypedTabsHold, ChainSealed
<1>10. /\ sessions' \subseteq [session: Session, actor: Actor]
       /\ cash' \in [Session -> 0..MaxSequence]
  <2>1. cash[o.session] <= chain.seq /\ chain.seq \in Nat
    BY <1>2, <1>7, TypedTabsHold, ChainFields, SequenceAssumption
       DEF DeviceInv, SessionsFromLog, ChainMatchesLog
  <2>2. w.seen + 1 \in 0..MaxSequence
    BY <1>2, <1>3, <1>6, <2>1, SequenceAssumption
  <2> QED
    BY <1>2, <1>3, <1>7, <2>2 DEF DeviceInv, DeviceTypeOK
<1>11. TypedTabs' /\ KeepsOpenings
  BY <1>3, <1>7, <1>9, <1>10, CommitTyped
<1>12. Seals(o)
  BY <1>3, <1>7, <1>9 DEF Seals, Admissible, Commit
<1>13. OpeningsApart'
  <2>1. Logged' = Logged \cup {o}
    BY <1>3, <1>7, AppendToLog DEF Commit, DeviceInv, DeviceTypeOK
  <2>2. PICK p \in Logged : p.session = o.session
    BY <1>3 DEF DeviceInv, SessionsFromLog
  <2> QED
    BY <1>11, <2>1, <2>2 DEF DeviceInv, OpeningsApart, KeepsOpenings
<1> QED
  BY <1>11, <1>12, <1>13

-----------------------------------------------------------------------------
(* The first two kinds of step are all there are.                          *)
LEMMA EveryStep ==
  ASSUME DeviceInv, DeviceNext
  PROVE  /\ TypedTabs'
         /\ OpeningsApart'
         /\ KeepsLog \/ \E o : Seals(o)
<1>k. ASSUME TypedTabs' /\ KeepsLog /\ KeepsOpenings
      PROVE  TypedTabs' /\ OpeningsApart' /\ KeepsLog
  <2>1. log' = log
    BY <1>k DEF KeepsLog
  <2>2. Logged' = Logged
    BY <2>1 DEF Logged
  <2> QED
    BY <1>k, <2>2 DEF DeviceInv, OpeningsApart, KeepsOpenings
<1>1. CASE \E a \in Actor, s \in Session, i \in Draft : PrepareSale(a, s, i)
  BY <1>1, <1>k, PrepareSaleKeeps
<1>2. CASE \E t \in Tab, d \in drafts : StartConfirm(t, d)
  BY <1>2, <1>k, StartConfirmKeeps
<1>3. CASE \E t \in Tab, a \in Actor, s \in Session : StartOpen(t, a, s)
  BY <1>3, StartOpenKeeps
<1>4. CASE \E t \in Tab : Acquire(t)
  BY <1>4, <1>k, AcquireKeeps
<1>5. CASE \E t \in Tab : Fail(t) \/ Crash(t)
  BY <1>5, <1>k, FailKeeps
<1>6. CASE Expire
  BY <1>6, <1>k, ExpireKeeps
<1>7. CASE \E t \in Tab : SealOpening(t)
  BY <1>7, SealOpeningSeals
<1>8. CASE \E t \in Tab : SealSale(t)
  BY <1>8, SealSaleSeals
<1>9. CASE \E t \in Tab : Learn(t)
  BY <1>9, <1>k, LearnKeeps
<1>10. CASE \E t \in Tab : FreezeSession(t)
  BY <1>10, <1>k, FreezeSessionKeeps
<1>11. CASE \E t \in Tab : KeepCheckpoint(t)
  BY <1>11, <1>k, KeepCheckpointKeeps
<1>12. CASE \E t \in Tab : ReleaseSession(t)
  BY <1>12, <1>k, ReleaseSessionKeeps
<1>13. CASE \E t \in Tab : CompleteSession(t)
  BY <1>13, <1>k, CompleteSessionKeeps
<1>14. CASE \E t \in Tab : FreezeConfiguration(t)
  BY <1>14, <1>k, FreezeConfigurationKeeps
<1>15. CASE \E t \in Tab, w \in Command : Start(t, w)
  BY <1>15, <1>k, StartKeeps
<1>16. CASE \E o \in queue, status \in Status : AcceptAck(o, status)
  BY <1>16, <1>k, AcceptAckKeeps
<1>17. CASE ResumeConfiguration \/ Retire \/ \E a \in Actor : Activate(a)
  BY <1>17, <1>k, AsideKeeps
<1> QED
  BY <1>1, <1>2, <1>3, <1>4, <1>5, <1>6, <1>7, <1>8, <1>9, <1>10, <1>11, <1>12, <1>13, <1>14,
     <1>15, <1>16, <1>17 DEF DeviceNext, TabStep, LeaseLost

-----------------------------------------------------------------------------
(* What a step that keeps the log preserves. *)
LEMMA KeepingPreserves ==
  ASSUME DeviceInv, TypedTabs', OpeningsApart', KeepsLog
  PROVE  DeviceInv'
<1>1. Logged' = Logged /\ log' = log /\ Len(log) \in Nat
  <2>1. log' = log
    BY DEF KeepsLog
  <2>2. Logged' = Logged
    BY <2>1 DEF Logged
  <2>3. Len(log) \in Nat
    BY DEF DeviceInv, DeviceTypeOK
  <2> QED
    BY <2>1, <2>2, <2>3
<1>2. \A s : OfSession(s)' = OfSession(s) /\ SalesOf(s)' = SalesOf(s)
  BY <1>1 DEF OfSession, SalesOf
<1>3. \A n : HeadAt(n)' = HeadAt(n)
  BY <1>1 DEF HeadAt
<1>4. ChainMatchesLog'
  BY <1>1, <1>3 DEF DeviceInv, ChainMatchesLog, KeepsLog, SameChain
<1>5. NothingForgotten'
  BY <1>1 DEF DeviceInv, NothingForgotten, KeepsLog, Final
<1>6. (Cardinality({o.id : o \in Logged}) = Len(log))'
  BY <1>1 DEF DeviceInv
<1>7. SessionsFromLog'
  <2>1. \A r \in sessions' : r \in sessions /\ r.session \in Session
    BY DEF KeepsLog, DeviceInv, DeviceTypeOK
  <2>2. \A r \in sessions' : \E o \in Logged' : o.session = r.session /\ o.actor = r.actor
    BY <1>1, <2>1 DEF DeviceInv, SessionsFromLog
  <2>3. \A o, p \in Logged' : o.session = p.session => o.actor = p.actor
    BY <1>1 DEF DeviceInv, SessionsFromLog
  <2>4. \A s \in Session : OfSession(s)' = {} => sessionSeq'[s] = 0
    BY <1>2 DEF DeviceInv, SessionsFromLog, KeepsLog
  <2>5. \A r \in sessions' : /\ sessionSeq'[r.session] = Cardinality(OfSession(r.session)')
                             /\ cash'[r.session] = Cardinality(SalesOf(r.session)')
    BY <1>2, <2>1 DEF DeviceInv, SessionsFromLog, KeepsLog
  <2>6. \A s \in Session : sessionSeq'[s] <= Len(log') /\ cash'[s] <= Len(log')
    BY <1>1 DEF DeviceInv, SessionsFromLog, KeepsLog
  <2> QED
    BY <2>2, <2>3, <2>4, <2>5, <2>6 DEF SessionsFromLog, OfSession, SalesOf
<1>8. SessionsInOrder'
  BY <1>1 DEF DeviceInv, SessionsInOrder
<1>9. chain.seq = Len(log) /\ chain.head = IF chain.seq = 0 THEN Genesis ELSE log[chain.seq].hash
  BY DEF DeviceInv, ChainMatchesLog, HeadAt
<1>10. SignedBehind'
  BY <1>1, <1>9 DEF DeviceInv, SignedBehind, KeepsLog
<1>11. \A o \in Logged : o.seq <= chain.seq
  <2>1. log \in Seq(Operation) /\ \A n \in 1..Len(log) : log[n].seq = n
    BY DEF DeviceInv, DeviceTypeOK, ChainMatchesLog
  <2>2. \A o \in Logged : \E n \in 1..Len(log) : log[n] = o
    BY <2>1, LoggedFinite
  <2> QED
    BY <1>1, <1>9, <2>1, <2>2
<1>12. SilentOnceKnown'
  BY <1>1, <1>9, <1>11 DEF DeviceInv, SilentOnceKnown, KeepsLog
<1>13. CheckpointStillTrue'
  <2> SUFFICES ASSUME NEW c \in closeCheckpoints'
               PROVE  /\ c.head = IF c.seq = 0 THEN Genesis ELSE log[c.seq].hash
                      /\ \A o \in Logged : o.seq <= c.seq => Final(o.id)'
                      /\ \A o \in Logged : o.session = c.session => o.seq <= c.seq
    BY <1>1 DEF CheckpointStillTrue
  <2>1. \A i : Final(i) => Final(i)'
    BY DEF Final, KeepsLog
  <2>2. CASE c \in closeCheckpoints
    BY <2>1, <2>2 DEF DeviceInv, CheckpointStillTrue
  <2>3. CASE c.seq = chain.seq /\ c.head = chain.head /\ queue = {}
    BY <2>1, <2>3, <1>9, <1>11 DEF DeviceInv, NothingForgotten
  <2> QED
    BY <2>2, <2>3 DEF KeepsLog
<1> QED
  BY <1>4, <1>5, <1>6, <1>7, <1>8, <1>10, <1>12, <1>13 DEF DeviceInv, TypedTabs

(* What sealing one more operation preserves.                              *)
LEMMA SealingPreserves ==
  ASSUME DeviceInv, TypedTabs', OpeningsApart', NEW o, Seals(o)
  PROVE  DeviceInv'
<1>1. /\ log \in Seq(Operation) /\ o \in Operation /\ log' = Append(log, o)
      /\ Len(log) \in Nat /\ chain.seq = Len(log) /\ o.seq = Len(log) + 1
      /\ o.session \in Session /\ o.actor \in Actor
  BY OperationFields DEF Seals, DeviceInv, DeviceTypeOK, ChainMatchesLog
<1>2. /\ Len(log') = Len(log) + 1
      /\ \A n \in 1..Len(log) : log'[n] = log[n]
      /\ log'[Len(log) + 1] = o
      /\ Logged' = Logged \cup {o}
  BY <1>1, AppendToLog
<1>3. /\ IsFiniteSet(Logged) /\ IsFiniteSet({p.id : p \in Logged}) /\ Logged \subseteq Operation
      /\ \A p \in Logged : \E n \in 1..Len(log) : log[n] = p
  BY <1>1, LoggedFinite
<1>4. \A p \in Logged : p.seq < o.seq /\ p.seq \in Nat /\ p.seq # 0
  <2>1. \A n \in 1..Len(log) : log[n].seq = n
    BY DEF DeviceInv, ChainMatchesLog
  <2> QED
    BY <1>1, <1>3, <2>1
<1>5. o \notin Logged
  BY <1>1, <1>4
<1>6. \A n \in 0..Len(log) : HeadAt(n)' = HeadAt(n)
  BY <1>1, <1>2 DEF HeadAt
<1>7. ChainMatchesLog'
  <2>1. (chain.seq = Len(log) /\ chain.head = HeadAt(Len(log)))'
    BY <1>1, <1>2 DEF Seals, HeadAt
  <2>2. ASSUME NEW n \in 1..Len(log')
        PROVE  log'[n].seq = n /\ log'[n].prev = HeadAt(n - 1)'
    <3>1. CASE n = Len(log) + 1
      <4>1. o.prev = HeadAt(Len(log))
        BY DEF Seals, DeviceInv, ChainMatchesLog
      <4>2. n - 1 = Len(log) /\ Len(log) \in 0..Len(log)
        BY <3>1, <1>1
      <4> QED
        BY <1>1, <1>2, <1>6, <3>1, <4>1, <4>2
    <3>2. CASE n # Len(log) + 1
      <4>1. n \in 1..Len(log) /\ n - 1 \in 0..Len(log)
        BY <3>2, <1>1, <1>2
      <4>2. log[n].seq = n /\ log[n].prev = HeadAt(n - 1)
        BY <4>1 DEF DeviceInv, ChainMatchesLog
      <4> QED
        BY <1>2, <1>6, <4>1, <4>2
    <3> QED
      BY <3>1, <3>2
  <2> QED
    BY <2>1, <2>2 DEF ChainMatchesLog
<1>8. NothingForgotten'
  BY <1>2 DEF Seals, DeviceInv, NothingForgotten, Final
<1>9. (Cardinality({p.id : p \in Logged}) = Len(log))'
  <2>1. o.id \notin {p.id : p \in Logged}
    BY DEF Seals, DeviceInv, NothingForgotten
  <2>2. {p.id : p \in Logged'} = {p.id : p \in Logged} \cup {o.id}
    BY <1>2
  <2>3. Cardinality({p.id : p \in Logged} \cup {o.id}) = Cardinality({p.id : p \in Logged}) + 1
    BY <1>3, <2>1, FS_AddElement
  <2> QED
    BY <1>2, <2>2, <2>3 DEF DeviceInv
<1>10. \A s : OfSession(s)' = IF s = o.session THEN OfSession(s) \cup {o} ELSE OfSession(s)
  BY <1>2 DEF OfSession
<1>11. \A s : SalesOf(s)' = IF s = o.session /\ o.kind = "sale-confirm"
                           THEN SalesOf(s) \cup {o} ELSE SalesOf(s)
  BY <1>2 DEF SalesOf
<1>12. \A s : /\ IsFiniteSet(OfSession(s)) /\ o \notin OfSession(s)
              /\ IsFiniteSet(SalesOf(s)) /\ o \notin SalesOf(s)
  <2> TAKE s
  <2>1. OfSession(s) \in SUBSET Logged /\ SalesOf(s) \in SUBSET Logged
    BY DEF OfSession, SalesOf
  <2> QED
    BY <1>3, <1>5, <2>1, FS_Subset
<1>13. sessionSeq[o.session] = Cardinality(OfSession(o.session))
  <2>1. CASE OfSession(o.session) = {}
    BY <1>1, <2>1, FS_EmptySet DEF DeviceInv, SessionsFromLog
  <2>2. CASE [session |-> o.session, actor |-> o.actor] \in sessions
    BY <2>2 DEF DeviceInv, SessionsFromLog
  <2> QED
    BY <2>1, <2>2 DEF Seals
<1>14. o.sessionSeq = Cardinality(OfSession(o.session)) + 1
  BY <1>13 DEF Seals
<1>15. /\ Cardinality(OfSession(o.session) \cup {o}) = o.sessionSeq
       /\ Cardinality(SalesOf(o.session) \cup {o}) = Cardinality(SalesOf(o.session)) + 1
       /\ Cardinality(OfSession(o.session)) \in Nat
  BY <1>12, <1>14, FS_AddElement, FS_CardinalityType
<1>16. \A p \in Logged : p.session = o.session => p.actor = o.actor
  <2>1. CASE OfSession(o.session) = {}
    BY <2>1 DEF OfSession
  <2>2. CASE [session |-> o.session, actor |-> o.actor] \in sessions
    <3>1. PICK q \in Logged : q.session = o.session /\ q.actor = o.actor
      BY <2>2 DEF DeviceInv, SessionsFromLog
    <3> QED
      BY <3>1 DEF DeviceInv, SessionsFromLog
  <2> QED
    BY <2>1, <2>2 DEF Seals
<1>17. SessionsFromLog'
  <2>1. \A r \in sessions' : \/ r \in sessions
                            \/ /\ r = [session |-> o.session, actor |-> o.actor]
                               /\ o.kind = "cash-session-open" /\ OfSession(o.session) = {}
    BY DEF Seals
  <2>2. \A r \in sessions' : \E p \in Logged' : p.session = r.session /\ p.actor = r.actor
    BY <1>2, <2>1 DEF DeviceInv, SessionsFromLog
  <2>3. \A p, q \in Logged' : p.session = q.session => p.actor = q.actor
    BY <1>2, <1>16 DEF DeviceInv, SessionsFromLog
  <2>4. \A s \in Session : s # o.session =>
          /\ sessionSeq'[s] = sessionSeq[s] /\ cash'[s] = cash[s]
          /\ OfSession(s)' = OfSession(s) /\ SalesOf(s)' = SalesOf(s)
    BY <1>10, <1>11 DEF Seals, DeviceInv, DeviceTypeOK
  <2>5. /\ sessionSeq'[o.session] = Cardinality(OfSession(o.session)')
        /\ OfSession(o.session)' # {}
    BY <1>1, <1>10, <1>15 DEF Seals, DeviceInv, DeviceTypeOK
  <2>6. cash'[o.session] = Cardinality(SalesOf(o.session)')
    <3>1. CASE /\ o.kind = "cash-session-open" /\ OfSession(o.session) = {}
               /\ cash' = [cash EXCEPT ![o.session] = 0]
      <4>1. SalesOf(o.session)' = {}
        BY <1>11, <3>1 DEF SalesOf, OfSession
      <4> QED
        BY <1>1, <3>1, <4>1, FS_EmptySet DEF DeviceInv, DeviceTypeOK
    <3>2. CASE /\ o.kind = "sale-confirm"
               /\ [session |-> o.session, actor |-> o.actor] \in sessions
               /\ cash' = [cash EXCEPT ![o.session] = cash[o.session] + 1]
      <4>1. cash[o.session] = Cardinality(SalesOf(o.session))
        BY <3>2 DEF DeviceInv, SessionsFromLog
      <4> QED
        BY <1>1, <1>11, <1>15, <3>2, <4>1 DEF DeviceInv, DeviceTypeOK
    <3> QED
      BY <3>1, <3>2 DEF Seals
  <2>7. \A s \in Session : OfSession(s)' = {} => sessionSeq'[s] = 0
    BY <2>4, <2>5 DEF DeviceInv, SessionsFromLog
  <2>8. \A r \in sessions' : r.session \in Session /\ (r \in sessions \/ r.session = o.session)
    BY <1>1, <2>1 DEF DeviceInv, DeviceTypeOK
  <2>9. \A r \in sessions' : /\ sessionSeq'[r.session] = Cardinality(OfSession(r.session)')
                             /\ cash'[r.session] = Cardinality(SalesOf(r.session)')
    BY <2>4, <2>5, <2>6, <2>8 DEF DeviceInv, SessionsFromLog
  <2>10. \A s \in Session : sessionSeq'[s] <= Len(log') /\ cash'[s] <= Len(log')
    <3>1. /\ sessionSeq'[o.session] = sessionSeq[o.session] + 1
          /\ cash'[o.session] \in {0, cash[o.session] + 1}
      BY <1>1 DEF Seals, DeviceInv, DeviceTypeOK
    <3>2. \A s \in Session : /\ sessionSeq[s] \in Nat /\ cash[s] \in Nat
                             /\ sessionSeq[s] <= Len(log) /\ cash[s] <= Len(log)
      BY SequenceAssumption DEF DeviceInv, DeviceTypeOK, SessionsFromLog
    <3> QED
      BY <1>1, <1>2, <2>4, <3>1, <3>2
  <2> QED
    BY <2>2, <2>3, <2>7, <2>9, <2>10 DEF SessionsFromLog, OfSession, SalesOf
<1>18. SessionsInOrder'
  <2>1. ASSUME NEW p \in Logged
        PROVE  /\ {q \in Logged' : q.session = p.session /\ q.seq <= p.seq} =
                    {q \in Logged : q.session = p.session /\ q.seq <= p.seq}
               /\ p.sessionSeq = Cardinality({q \in Logged : q.session = p.session /\ q.seq <= p.seq})
               /\ p.kind = "cash-session-open" <=> p.sessionSeq = 1
    <3>1. ~ (o.seq <= p.seq)
      BY <1>1, <1>4
    <3> QED
      BY <1>2, <3>1 DEF DeviceInv, SessionsInOrder
  <2>2. o.sessionSeq = Cardinality({q \in Logged' : q.session = o.session /\ q.seq <= o.seq})
    <3>1. {q \in Logged' : q.session = o.session /\ q.seq <= o.seq} = OfSession(o.session) \cup {o}
      BY <1>1, <1>2, <1>4 DEF OfSession
    <3> QED
      BY <1>15, <3>1
  <2>3. o.kind = "cash-session-open" <=> o.sessionSeq = 1
    <3>1. CASE OfSession(o.session) = {} /\ o.kind = "cash-session-open"
      BY <1>14, <3>1, FS_EmptySet
    <3>2. CASE /\ [session |-> o.session, actor |-> o.actor] \in sessions
               /\ o.kind = "sale-confirm"
      <4>1. OfSession(o.session) # {}
        BY <3>2 DEF DeviceInv, SessionsFromLog, OfSession
      <4>2. Cardinality(OfSession(o.session)) # 0
        BY <1>12, <4>1, FS_EmptySet
      <4> QED
        BY <1>14, <1>15, <3>2, <4>2
    <3> QED
      BY <3>1, <3>2 DEF Seals
  <2> QED
    BY <1>2, <2>1, <2>2, <2>3 DEF SessionsInOrder
<1>19. SignedBehind'
  BY <1>1, <1>2 DEF Seals, DeviceInv, SignedBehind, DeviceTypeOK, Knowing
<1>20. \A n \in 0..Len(log) : (IF n = 0 THEN Genesis ELSE log'[n].hash) =
                               (IF n = 0 THEN Genesis ELSE log[n].hash)
  BY <1>1, <1>2
<1>21. SilentOnceKnown'
  <2> SUFFICES ASSUME NEW k \in knowledge
               PROVE  /\ k.head = IF k.seq = 0 THEN Genesis ELSE log'[k.seq].hash
                      /\ \A p \in Logged' : k.target \in {"DEVICE", p.actor} => p.seq <= k.seq
    BY DEF SilentOnceKnown, Seals
  <2>1. k.seq \in 0..Len(log)
    BY SequenceAssumption DEF DeviceInv, SignedBehind, DeviceTypeOK, Knowing
  <2>2. k.target \notin {"DEVICE", o.actor}
    BY DEF Seals, Identified, Revoked
  <2> QED
    BY <1>2, <1>20, <2>1, <2>2 DEF DeviceInv, SilentOnceKnown
<1>22. CheckpointStillTrue'
  <2> SUFFICES ASSUME NEW c \in closeCheckpoints
               PROVE  /\ c.head = IF c.seq = 0 THEN Genesis ELSE log'[c.seq].hash
                      /\ \A p \in Logged' : p.seq <= c.seq => Final(p.id)
                      /\ \A p \in Logged' : p.session = c.session => p.seq <= c.seq
    BY DEF CheckpointStillTrue, Seals, Final
  <2>1. c.seq \in 0..Len(log) /\ c.session \in closing
    BY SequenceAssumption DEF DeviceInv, SignedBehind, DeviceTypeOK
  <2>2. c.session # o.session /\ ~ (o.seq <= c.seq)
    BY <1>1, <2>1 DEF Seals
  <2> QED
    BY <1>2, <1>20, <2>1, <2>2 DEF DeviceInv, CheckpointStillTrue
<1> QED
  BY <1>7, <1>8, <1>9, <1>17, <1>18, <1>19, <1>21, <1>22 DEF DeviceInv, TypedTabs

-----------------------------------------------------------------------------
LEMMA DeviceInitInv == DeviceInit => DeviceInv
<1> SUFFICES ASSUME DeviceInit PROVE DeviceInv
  OBVIOUS
<1>1. log = <<>> /\ Len(log) = 0 /\ log \in Seq(Operation)
  BY EmptySeq DEF DeviceInit
<1>2. Logged = {}
  BY <1>1 DEF Logged
<1>3. Cardinality({o.id : o \in Logged}) = Len(log)
  <2>1. {o.id : o \in Logged} = {}
    BY <1>2
  <2> QED
    BY <1>1, <2>1, FS_EmptySet
<1>4. DeviceTypeOK /\ tabs = [t \in Tab |-> tabs[t]]
  <2>1. chain \in ChainState
    BY SequenceAssumption, DeviceAssumption DEF DeviceInit, ChainState
  <2>2. sessionSeq \in [Session -> 0..MaxSequence] /\ cash \in [Session -> 0..MaxSequence]
    BY SequenceAssumption DEF DeviceInit
  <2>3. tabs = [t \in Tab |-> tabs[t]] /\ \A t \in Tab : tabs[t] = Idle
    BY DEF DeviceInit
  <2> QED
    BY <1>1, <2>1, <2>2, <2>3 DEF DeviceInit, DeviceTypeOK
<1>5. ChainMatchesLog /\ NothingForgotten
  BY <1>1, <1>2 DEF DeviceInit, ChainMatchesLog, HeadAt, NothingForgotten
<1>6. SessionsFromLog
  BY <1>1, <1>2 DEF DeviceInit, SessionsFromLog
<1>7. SessionsInOrder /\ OpeningsApart
  BY <1>2 DEF DeviceInit, SessionsInOrder, OpeningsApart, Opening
<1>8. SignedBehind /\ SilentOnceKnown /\ CheckpointStillTrue
  BY DEF DeviceInit, SignedBehind, SilentOnceKnown, CheckpointStillTrue
<1> QED
  BY <1>3, <1>4, <1>5, <1>6, <1>7, <1>8 DEF DeviceInv

LEMMA DeviceStepInv == DeviceInv /\ [DeviceNext]_deviceVars => DeviceInv'
<1> SUFFICES ASSUME DeviceInv, [DeviceNext]_deviceVars PROVE DeviceInv'
  OBVIOUS
<1>1. CASE DeviceNext
  BY <1>1, EveryStep, KeepingPreserves, SealingPreserves
<1>2. CASE UNCHANGED deviceVars
  <2>1. TypedTabs'
    BY <1>2 DEF deviceVars, DeviceInv, TypedTabs, DeviceTypeOK
  <2>3. Logged' = Logged /\ tabs' = tabs
    BY <1>2 DEF deviceVars, Logged
  <2>4. OpeningsApart'
    BY <2>3 DEF DeviceInv, OpeningsApart, Opening
  <2>2. KeepsLog
    BY <1>2, SameDataKeepsLog DEF deviceVars, DataSame, SameChain
  <2> QED
    BY <2>1, <2>2, <2>4, KeepingPreserves
<1> QED
  BY <1>1, <1>2

LEMMA DeviceInvariant == DeviceSpec => []DeviceInv
BY DeviceInitInv, DeviceStepInv, PTL DEF DeviceSpec

(* Every variable of the device keeps its type.  Counters stay within the  *)
(* schema's bound, because the commit refuses to exceed it.                *)
THEOREM DeviceTypeCorrect == DeviceSpec => []DeviceTypeOK
<1>1. DeviceInv => DeviceTypeOK
  BY DEF DeviceInv
<1> QED
  BY <1>1, DeviceInvariant, PTL

(* All tabs together seal one hash chain without gap or fork, and no       *)
(* operation twice (OfflineLease.assert in OfflineSealer.seal).            *)
THEOREM TabsSealOneChain == DeviceSpec => []OneChain
<1>1. ASSUME DeviceInv PROVE OneChain
  <2>1. ASSUME NEW n \in 1..Len(log)
        PROVE  log[n].prev = IF n = 1 THEN Genesis ELSE log[n - 1].hash
    <3>1. log[n].prev = HeadAt(n - 1) /\ (n - 1 = 0 <=> n = 1)
      BY <1>1 DEF DeviceInv, ChainMatchesLog, DeviceTypeOK
    <3> QED
      BY <3>1 DEF HeadAt
  <2> QED
    BY <1>1, <2>1 DEF DeviceInv, ChainMatchesLog, OneChain
<1> QED
  BY <1>1, DeviceInvariant, PTL

(* A sealed operation stays on the device until its definitive answer      *)
(* (acceptAck, with its purge and wipe of revoked identities).             *)
THEOREM NothingIsForgotten == DeviceSpec => []NothingForgotten
<1>1. DeviceInv => NothingForgotten
  BY DEF DeviceInv
<1> QED
  BY <1>1, DeviceInvariant, PTL

(* The operations of a session are numbered in the order of the chain and  *)
(* begin with its opening (the session-chain record).                      *)
THEOREM SessionsAreInOrder == DeviceSpec => []SessionsInOrder
<1>1. DeviceInv => SessionsInOrder
  BY DEF DeviceInv
<1> QED
  BY <1>1, DeviceInvariant, PTL

(* The projected cash counts each sale of the session once (the cash read  *)
(* before the lease is compared in the transaction that seals).            *)
THEOREM CashCountsEverySale == DeviceSpec => []CashCountsSales
<1>1. DeviceInv => CashCountsSales
  BY DEF DeviceInv, SessionsFromLog, SalesOf, CashCountsSales
<1> QED
  BY <1>1, DeviceInvariant, PTL

(* Once a revocation is known, its target seals nothing more               *)
(* (OfflineRevocation.learn and assertOfflineIdentity).                    *)
THEOREM TargetsFallSilent == DeviceSpec => []SilentOnceKnown
<1>1. DeviceInv => SilentOnceKnown
  BY DEF DeviceInv
<1> QED
  BY <1>1, DeviceInvariant, PTL

(* A close checkpoint that is kept stays true (OfflineCloseBarrier).       *)
THEOREM CheckpointsStayTrue == DeviceSpec => []CheckpointStillTrue
<1>1. DeviceInv => CheckpointStillTrue
  BY DEF DeviceInv
<1> QED
  BY <1>1, DeviceInvariant, PTL
=============================================================================
