-------------------------- MODULE Workspace_proofs --------------------------
(***************************************************************************)
(* The back office of an organization: it keeps an owner, an invitation is *)
(* what became of it, no dead token is mailed, in the directories nothing  *)
(* is lost and nothing done twice, and the pages show what they did and    *)
(* act on what they show, however commands, pages, acceptances and workers *)
(* overlap.                                                                *)
(*                                                                         *)
(* All rest on locks.  A change of a membership is staged alone, and       *)
(* nobody joins while it is, so what it has read stays true until it       *)
(* commits (StagedMemberships).  A change of an invitation, and the        *)
(* handler that mails or expires it, hold its row (InvitationLocks), so    *)
(* they find the invitation as they left it (StagedInvitations).  A change *)
(* of a row holds the row, and its code in the unique index (RowsApart).   *)
(* A row only evolves, to a greater version or to its end (Evolves), so    *)
(* what a page has read or asked for still holds or is outdated.           *)
(***************************************************************************)
EXTENDS Pages, TLAPS

Step == {"IDLE", "CLAIMED", "FAILED", "MAILING", "MAILED", "EXPIRING", "HANDLED"}

PeopleTypeOK ==
  /\ seats \in [Seat -> Membership]
  /\ invitations \in [Invitation -> Invited]

WorkersTypeOK ==
  /\ workers = [w \in Worker |-> workers[w]]
  /\ \A w \in Worker :
       workers[w] \in [job: {workers[w].job}, lease: {workers[w].lease}, step: Step]

TransactionsWellFormed ==
  /\ offered \in Agenda
  /\ \A t \in transactions :
       /\ t \in [key: {t.key}, command: {t.command}, step: {"OPEN", "STAGED"}, new: {t.new}]
       /\ WellFormed(t.command)
  /\ \A done \in ledger : done.command.area = "invitation" => done.new \in Invitation

(* What the staged changes have checked still holds.                       *)
Staged(t, area) == t.step = "STAGED" /\ t.command.area = area

StagedMemberships ==
  /\ \A t, u \in transactions : Staged(t, "membership") /\ Staged(u, "membership") => t = u
  /\ \A t \in transactions : Staged(t, "membership") =>
       LET c == t.command IN
       /\ c.on \in Seat
       /\ \/ /\ c.act = "role" /\ seats[c.on].status = "ACTIVE"
             /\ RemainingOwner(c.on, c.value)
          \/ /\ c.act = "revoke" /\ seats[c.on].status = "ACTIVE"
             /\ RemainingOwner(c.on, "EMPLOYEE")
          \/ /\ c.act = "status" /\ seats[c.on].status \in Status
             /\ c.value = "INACTIVE" => RemainingOwner(c.on, "EMPLOYEE")

StagedInvitations ==
  /\ \A t, u \in transactions :
       Staged(t, "invitation") /\ Staged(u, "invitation") /\ t.new = u.new => t = u
  /\ \A t \in transactions : Staged(t, "invitation") =>
       /\ t.new \in Invitation
       /\ \/ t.command.act = "create" /\ invitations[t.new].status = "ABSENT"
          \/ /\ t.command.act = "resend" /\ t.command.on = t.new
             /\ invitations[t.new].status \in {"PENDING", "EXPIRED"}
          \/ /\ t.command.act = "revoke" /\ t.command.on = t.new
             /\ invitations[t.new].status = "PENDING"

(* t has the row of invitation i, from its begin to its end.               *)
HoldsInvitation(t, i) ==
  t.command.area = "invitation" /\ t.command.act # "create" /\ t.command.on = i

(* The worker w has it, and has found it as its job says.                  *)
Taking == {"MAILING", "EXPIRING"}
Takes(w, i) == workers[w].step \in Taking /\ InvitationOf(w) = i

InvitationLocks ==
  \A i \in Invitation :
    /\ \A t, u \in transactions : HoldsInvitation(t, i) /\ HoldsInvitation(u, i) => t = u
    /\ \A v, w \in Worker : Takes(v, i) /\ Takes(w, i) => v = w
    /\ \A t \in transactions, w \in Worker : ~(HoldsInvitation(t, i) /\ Takes(w, i))
    /\ \A w \in Worker : Takes(w, i) => Answers(i, TokenOf(w))

PeopleInv ==
  /\ PeopleTypeOK /\ WorkersTypeOK /\ TransactionsWellFormed
  /\ StagedMemberships /\ StagedInvitations /\ InvitationLocks
  /\ OwnerRemains /\ InvitationHonoured

-----------------------------------------------------------------------------
LEMMA Initially == WorkspaceInit => PeopleInv
<1> SUFFICES ASSUME WorkspaceInit PROVE PeopleInv
  OBVIOUS
<1>1. PeopleTypeOK
  BY WorkspaceAssumption
  DEF WorkspaceInit, PeopleTypeOK, Membership, Invited, NoMembership, NoInvitation, Role, Status,
      Seat
<1>2. WorkersTypeOK
  <2>1. workers = [w \in Worker |-> Resting]
    BY DEF WorkspaceInit, OutboxInit
  <2> QED
    BY <2>1 DEF WorkersTypeOK, Resting, Step
<1>3. TransactionsWellFormed /\ StagedMemberships /\ StagedInvitations
  BY DEF WorkspaceInit, TransactionsWellFormed, StagedMemberships, StagedInvitations
<1>4. InvitationLocks
  BY DEF WorkspaceInit, OutboxInit, InvitationLocks, Takes, Taking, Resting
<1>5. OwnerRemains
  BY WorkspaceAssumption DEF WorkspaceInit, OwnerRemains, Seat
<1>6. InvitationHonoured
  BY WorkspaceAssumption
  DEF WorkspaceInit, InvitationHonoured, Seat, NoMembership, NoInvitation, Status
<1> QED
  BY <1>1, <1>2, <1>3, <1>4, <1>5, <1>6 DEF PeopleInv

-----------------------------------------------------------------------------
(* The transactions.                                                       *)
peopleOnly == <<seats, invitations, workers, offered>>

LEMMA InvitationFree ==
  ASSUME NEW i, <<"invitation", i>> \notin Locked
  PROVE  /\ \A t \in transactions : ~HoldsInvitation(t, i)
         /\ \A w \in Worker : ~Takes(w, i)
<1>1. ASSUME NEW t \in transactions, HoldsInvitation(t, i) PROVE FALSE
  <2>1. <<"invitation", i>> \in LocksOfBegin(t.command)
    BY <1>1 DEF HoldsInvitation, LocksOfBegin
  <2>2. <<"invitation", i>> \in LocksOf(t)
    BY <2>1 DEF LocksOf
  <2> QED
    BY <2>2 DEF Locked
<1>2. ASSUME NEW w \in Worker, Takes(w, i) PROVE FALSE
  <2>1. <<"invitation", i>> \in HandlerLocks(w)
    BY <1>2 DEF Takes, Taking, InvitationOf, TokenOf, Answers, HandlerLocks
  <2>2. <<"invitation", i>> \in UNION {HandlerLocks(v) : v \in Worker}
    BY <2>1
  <2> QED
    BY <2>2 DEF Locked
<1> QED
  BY <1>1, <1>2

(* Nothing changes but rows of other tables.                               *)
LEMMA Elsewhere ==
  ASSUME PeopleInv, UNCHANGED <<peopleOnly, transactions, ledger>>
  PROVE  PeopleInv'
BY DEF PeopleInv, peopleOnly, PeopleTypeOK, WorkersTypeOK, TransactionsWellFormed, StagedMemberships,
       StagedInvitations, InvitationLocks, OwnerRemains, InvitationHonoured, RemainingOwner,
       Takes, InvitationOf, TokenOf, Answers

LEMMA RolledBack ==
  ASSUME PeopleInv, NEW t \in transactions, Rollback(t)
  PROVE  PeopleInv'
<1>1. /\ transactions' \subseteq transactions
      /\ UNCHANGED <<peopleOnly, ledger>>
  BY DEF Rollback, peopleOnly, peopleVars, outboxVars
<1> QED
  BY <1>1 DEF PeopleInv, peopleOnly, PeopleTypeOK, WorkersTypeOK, TransactionsWellFormed,
       StagedMemberships, StagedInvitations, InvitationLocks, OwnerRemains, InvitationHonoured,
       RemainingOwner, Takes, InvitationOf, TokenOf, Answers

(* A command begins: it waits for the row of its invitation.               *)
LEMMA Opened ==
  ASSUME PeopleInv, NEW k, NEW c, WellFormed(c), Open(k, c),
         c.area = "invitation" /\ c.act # "create" => <<"invitation", c.on>> \notin Locked
  PROVE  PeopleInv'
<1> DEFINE r == [key |-> k, command |-> c, step |-> "OPEN", new |-> Nothing]
<1>1. transactions' = transactions \cup {r} /\ UNCHANGED <<peopleOnly, ledger>>
  BY DEF Open, peopleOnly, peopleVars, outboxVars
<1>2. r.command = c /\ r.step = "OPEN"
  OBVIOUS
<1>3. TransactionsWellFormed'
  BY <1>1, <1>2 DEF PeopleInv, TransactionsWellFormed, peopleOnly
<1>4. StagedMemberships' /\ StagedInvitations'
  BY <1>1, <1>2
  DEF PeopleInv, StagedMemberships, StagedInvitations, Staged, RemainingOwner, peopleOnly
<1>5. InvitationLocks'
  <2>1. ASSUME NEW i, HoldsInvitation(r, i)
        PROVE  /\ \A t \in transactions : ~HoldsInvitation(t, i)
               /\ \A w \in Worker : ~Takes(w, i)
    BY <2>1, <1>2, InvitationFree DEF HoldsInvitation
  <2> QED
    BY <1>1, <2>1 DEF PeopleInv, InvitationLocks, peopleOnly, Takes, InvitationOf, TokenOf, Answers
<1> QED
  BY <1>1, <1>3, <1>4, <1>5
  DEF PeopleInv, peopleOnly, PeopleTypeOK, WorkersTypeOK, OwnerRemains, InvitationHonoured

LEMMA Begun ==
  ASSUME PeopleInv, NEW k, NEW c, WellFormed(c), Begin(k, c) \/ BeginUnkeyed(k, c)
  PROVE  PeopleInv'
<1>1. CASE Begin(k, c)
  <2>1. c.area = "invitation" /\ c.act # "create" => <<"invitation", c.on>> \in LocksOfBegin(c)
    BY DEF LocksOfBegin
  <2> QED
    BY <1>1, <2>1, Opened DEF Begin
<1>2. CASE BeginUnkeyed(k, c)
  BY <1>2, Opened DEF BeginUnkeyed, Keyed
<1> QED
  BY <1>1, <1>2

(* What staging a command leaves as it was.                                *)
LEMMA StageKeeps ==
  ASSUME PeopleInv, NEW t \in transactions, NEW n, Stage(t, n), t.step = "OPEN"
  PROVE  \E s : /\ s.step = "STAGED" /\ s.new = n /\ s.command = t.command
                /\ transactions' = (transactions \ {t}) \cup {s}
                /\ UNCHANGED <<peopleOnly, ledger>>
                /\ PeopleTypeOK' /\ WorkersTypeOK' /\ TransactionsWellFormed' /\ InvitationLocks'
                /\ OwnerRemains' /\ InvitationHonoured'
<1> DEFINE s == [t EXCEPT !.step = "STAGED", !.new = n]
<1>1. t \in [key: {t.key}, command: {t.command}, step: {"OPEN", "STAGED"}, new: {t.new}]
  BY DEF PeopleInv, TransactionsWellFormed
<1>2. s \in [key: {t.key}, command: {t.command}, step: {"STAGED"}, new: {n}]
  BY <1>1 DEF s
<1>3. s.step = "STAGED" /\ s.new = n /\ s.command = t.command /\ s.key = t.key
  BY <1>2
<1>4. transactions' = (transactions \ {t}) \cup {s} /\ UNCHANGED <<peopleOnly, ledger>>
  BY DEF Stage, peopleOnly, peopleVars, outboxVars
<1> HIDE DEF s
<1>5. TransactionsWellFormed'
  BY <1>2, <1>3, <1>4 DEF PeopleInv, TransactionsWellFormed, peopleOnly
<1>6. InvitationLocks'
  <2>1. \A i : HoldsInvitation(s, i) <=> HoldsInvitation(t, i)
    BY <1>3 DEF HoldsInvitation
  <2> QED
    BY <1>4, <2>1 DEF PeopleInv, InvitationLocks, peopleOnly, Takes, InvitationOf, TokenOf, Answers
<1>7. PeopleTypeOK' /\ WorkersTypeOK' /\ OwnerRemains' /\ InvitationHonoured'
  BY <1>4 DEF PeopleInv, peopleOnly, PeopleTypeOK, WorkersTypeOK, OwnerRemains, InvitationHonoured
<1> QED
  BY <1>3, <1>4, <1>5, <1>6, <1>7

LEMMA RowStaged ==
  ASSUME PeopleInv, NEW t \in transactions, NEW n, Stage(t, n), t.step = "OPEN",
         t.command.area \in Directory
  PROVE  PeopleInv'
<1>1. PICK s :
        /\ s.step = "STAGED" /\ s.new = n /\ s.command = t.command
        /\ transactions' = (transactions \ {t}) \cup {s}
        /\ UNCHANGED <<peopleOnly, ledger>>
        /\ PeopleTypeOK' /\ WorkersTypeOK' /\ TransactionsWellFormed' /\ InvitationLocks'
        /\ OwnerRemains' /\ InvitationHonoured'
  BY StageKeeps
<1>2. ~Staged(s, "membership") /\ ~Staged(s, "invitation")
  BY <1>1 DEF Staged, Directory
<1> QED
  BY <1>1, <1>2
  DEF PeopleInv, StagedMemberships, StagedInvitations, RemainingOwner, peopleOnly

LEMMA MembershipStaged ==
  ASSUME PeopleInv, NEW t \in transactions, ChangeRole(t) \/ Revoke(t) \/ SetStatus(t)
  PROVE  PeopleInv'
<1> DEFINE c == t.command
<1>1. /\ t.step = "OPEN" /\ c.area = "membership" /\ Stage(t, Nothing)
      /\ \A other \in transactions \ {t} : other.step = "OPEN"
      /\ c.on \in Seat
  BY DEF ChangeRole, Revoke, SetStatus, Runs, Reaches, Administers, AloneInOrganization,
         MayAdminister
<1>2. \/ /\ c.act = "role" /\ seats[c.on].status = "ACTIVE"
         /\ RemainingOwner(c.on, c.value)
      \/ /\ c.act = "revoke" /\ seats[c.on].status = "ACTIVE"
         /\ RemainingOwner(c.on, "EMPLOYEE")
      \/ /\ c.act = "status" /\ seats[c.on].status \in Status
         /\ c.value = "INACTIVE" => RemainingOwner(c.on, "EMPLOYEE")
  BY DEF ChangeRole, Revoke, SetStatus, Runs, Reaches, Administers, MayAdminister
<1>3. PICK s :
        /\ s.step = "STAGED" /\ s.new = Nothing /\ s.command = c
        /\ transactions' = (transactions \ {t}) \cup {s}
        /\ UNCHANGED <<peopleOnly, ledger>>
        /\ PeopleTypeOK' /\ WorkersTypeOK' /\ TransactionsWellFormed' /\ InvitationLocks'
        /\ OwnerRemains' /\ InvitationHonoured'
  BY <1>1, StageKeeps
<1>4. \A u \in transactions' : u.step = "STAGED" => u = s
  BY <1>1, <1>3
<1>5. seats' = seats /\ s \in transactions'
  BY <1>3 DEF peopleOnly
<1> HIDE DEF c
<1>6. StagedMemberships'
  BY <1>1, <1>2, <1>3, <1>4, <1>5 DEF StagedMemberships, Staged, RemainingOwner
<1>7. StagedInvitations'
  BY <1>1, <1>3, <1>4 DEF StagedInvitations, Staged
<1> QED
  BY <1>3, <1>6, <1>7 DEF PeopleInv

LEMMA InvitationStaged ==
  ASSUME PeopleInv, NEW t \in transactions,
         CreateInvitation(t) \/ Resend(t) \/ RevokeInvitation(t)
  PROVE  PeopleInv'
<1> DEFINE c == t.command
<1>1. t.step = "OPEN" /\ c.area = "invitation"
  BY DEF CreateInvitation, Resend, RevokeInvitation, Runs, Reaches
<1>2. PICK i :
        /\ Stage(t, i) /\ i \in Invitation
        /\ \/ /\ c.act = "create" /\ invitations[i].status = "ABSENT"
              /\ ~\E other \in transactions : other.new = i
           \/ /\ c.act = "resend" /\ c.on = i
              /\ invitations[i].status \in {"PENDING", "EXPIRED"}
           \/ /\ c.act = "revoke" /\ c.on = i
              /\ invitations[i].status = "PENDING"
  <2>1. CASE CreateInvitation(t)
    <3>1. offered.invitations \subseteq Invitation
      BY WorkspaceAssumption DEF PeopleInv, TransactionsWellFormed
    <3> QED
      BY <2>1, <3>1 DEF CreateInvitation, Runs, Reaches
  <2>2. CASE Resend(t) \/ RevokeInvitation(t)
    <3>1. c.area = "invitation" /\ c.act \in {"resend", "revoke"} /\ Authorized(c)
      BY <2>2 DEF Resend, RevokeInvitation, Runs, Reaches
    <3>2. c.on \in Invitation
      BY <3>1 DEF Authorized, MayHandle, Directory
    <3> QED
      BY <2>2, <3>2 DEF Resend, RevokeInvitation, Runs, Reaches
  <2> QED
    BY <2>1, <2>2
<1>3. PICK s :
        /\ s.step = "STAGED" /\ s.new = i /\ s.command = c
        /\ transactions' = (transactions \ {t}) \cup {s}
        /\ UNCHANGED <<peopleOnly, ledger>>
        /\ PeopleTypeOK' /\ WorkersTypeOK' /\ TransactionsWellFormed' /\ InvitationLocks'
        /\ OwnerRemains' /\ InvitationHonoured'
  BY <1>1, <1>2, StageKeeps
<1>4. ASSUME NEW u \in transactions, u # t, Staged(u, "invitation") PROVE u.new # i
  <2>1. CASE c.act = "create"
    BY <1>2, <2>1
  <2>2. CASE c.act # "create"
    <3>1. HoldsInvitation(t, i) /\ invitations[i].status # "ABSENT"
      BY <1>1, <1>2, <2>2 DEF HoldsInvitation
    <3>2. ~HoldsInvitation(u, i)
      BY <1>2, <1>4, <3>1 DEF PeopleInv, InvitationLocks
    <3> QED
      BY <1>4, <3>1, <3>2 DEF PeopleInv, StagedInvitations, Staged, HoldsInvitation
  <2> QED
    BY <2>1, <2>2
<1> HIDE DEF c
<1>5. StagedInvitations'
  <2>1. invitations' = invitations
    BY <1>3 DEF peopleOnly
  <2>2. \A u \in transactions' : u = s \/ (u \in transactions /\ u # t)
    BY <1>3
  <2>3. \A u, v \in transactions' :
          Staged(u, "invitation") /\ Staged(v, "invitation") /\ u.new = v.new => u = v
    BY <1>3, <1>4, <2>2 DEF PeopleInv, StagedInvitations
  <2>4. ASSUME NEW u \in transactions', Staged(u, "invitation")
        PROVE  /\ u.new \in Invitation
               /\ \/ u.command.act = "create" /\ invitations'[u.new].status = "ABSENT"
                  \/ /\ u.command.act = "resend" /\ u.command.on = u.new
                     /\ invitations'[u.new].status \in {"PENDING", "EXPIRED"}
                  \/ /\ u.command.act = "revoke" /\ u.command.on = u.new
                     /\ invitations'[u.new].status = "PENDING"
    BY <1>2, <1>3, <2>1, <2>2, <2>4 DEF PeopleInv, StagedInvitations
  <2> QED
    BY <2>3, <2>4 DEF StagedInvitations
<1>6. StagedMemberships'
  BY <1>1, <1>3 DEF PeopleInv, StagedMemberships, Staged, RemainingOwner, peopleOnly
<1> QED
  BY <1>3, <1>5, <1>6 DEF PeopleInv

-----------------------------------------------------------------------------
(* Commits.                                                                *)
Record(t) == [key |-> t.key, command |-> t.command, new |-> t.new]

LEMMA EntryCommitted ==
  ASSUME PeopleInv, NEW t \in transactions, Commit(t), CommitEntry(t)
  PROVE  PeopleInv'
<1>1. /\ transactions' \subseteq transactions /\ UNCHANGED peopleOnly
      /\ ledger' = ledger \cup {Record(t)} /\ t.command.area \in Directory
  BY DEF Commit, CommitEntry, peopleOnly, peopleVars, outboxVars, Record
<1>2. Record(t).command.area # "invitation"
  BY <1>1 DEF Record, Directory
<1>3. InvitationHonoured'
  BY <1>1, <1>2 DEF PeopleInv, InvitationHonoured, peopleOnly
<1>4. TransactionsWellFormed'
  BY <1>1, <1>2 DEF PeopleInv, TransactionsWellFormed, peopleOnly
<1> QED
  BY <1>1, <1>3, <1>4 DEF PeopleInv, peopleOnly, PeopleTypeOK, WorkersTypeOK, TransactionsWellFormed,
       StagedMemberships, StagedInvitations, InvitationLocks, OwnerRemains,
       RemainingOwner, Takes, InvitationOf, TokenOf, Answers

(* What a change of a membership makes of it.                              *)
LEMMA RoleChanged ==
  ASSUME NEW U, NEW R, NEW S, NEW old \in [user: U, role: R, status: S, version: Nat],
         NEW r \in R, NEW n \in Nat, NEW x, x = [old EXCEPT !.role = r, !.version = n]
  PROVE  /\ x \in [user: U, role: R, status: S, version: Nat]
         /\ x.user = old.user /\ x.role = r /\ x.status = old.status /\ x.version = n
OBVIOUS

LEMMA StatusChanged ==
  ASSUME NEW U, NEW R, NEW S, NEW old \in [user: U, role: R, status: S, version: Nat],
         NEW z \in S, NEW n \in Nat, NEW x, x = [old EXCEPT !.status = z, !.version = n]
  PROVE  /\ x \in [user: U, role: R, status: S, version: Nat]
         /\ x.user = old.user /\ x.role = old.role /\ x.status = z /\ x.version = n
OBVIOUS

LEMMA SeatFields ==
  ASSUME NEW c, NEW old \in Membership, c.act \in {"role", "status", "revoke"},
         c.act = "role" => c.value \in Role /\ old.status = "ACTIVE",
         c.act = "status" => c.value \in Status
  PROVE  /\ SeatAfter(c, old) \in Membership
         /\ SeatAfter(c, old).user = old.user
         /\ SeatAfter(c, old).status # "ABSENT"
         /\ SeatAfter(c, old).role = IF c.act = "role" THEN c.value ELSE old.role
         /\ SeatAfter(c, old).status = IF c.act = "role" THEN "ACTIVE"
                                       ELSE IF c.act = "status" THEN c.value ELSE "REVOKED"
         /\ SeatAfter(c, old).version = old.version + 1
<1> DEFINE Statuses == Status \cup {"ABSENT", "REVOKED"}
<1> DEFINE Users == User \cup {Nothing}
<1>1. Membership = [user: Users, role: Role, status: Statuses, version: Nat]
  BY DEF Membership
<1>2. Status \subseteq Statuses /\ "REVOKED" \in Statuses /\ "ABSENT" \notin Status
  BY DEF Status
<1> HIDE DEF Statuses, Users
<1>3. old.version + 1 \in Nat
  BY <1>1
<1>4. CASE c.act = "role"
  <2>1. SeatAfter(c, old) = [old EXCEPT !.role = c.value, !.version = old.version + 1]
    BY <1>4 DEF SeatAfter
  <2> QED
    BY <1>1, <1>3, <1>4, <2>1, RoleChanged
<1>5. CASE c.act = "status"
  <2>1. SeatAfter(c, old) = [old EXCEPT !.status = c.value, !.version = old.version + 1]
    BY <1>5 DEF SeatAfter
  <2>2. /\ old \in [user: Users, role: Role, status: Statuses, version: Nat]
        /\ c.value \in Statuses /\ c.value # "ABSENT"
    BY <1>1, <1>2, <1>5
  <2>3. /\ SeatAfter(c, old) \in [user: Users, role: Role, status: Statuses, version: Nat]
        /\ SeatAfter(c, old).user = old.user /\ SeatAfter(c, old).role = old.role
        /\ SeatAfter(c, old).status = c.value /\ SeatAfter(c, old).version = old.version + 1
    BY <1>3, <2>1, <2>2, StatusChanged
  <2> QED
    BY <1>1, <1>5, <2>2, <2>3
<1>6. CASE c.act = "revoke"
  <2>1. SeatAfter(c, old) = [old EXCEPT !.status = "REVOKED", !.version = old.version + 1]
    BY <1>6 DEF SeatAfter
  <2> QED
    BY <1>1, <1>2, <1>3, <1>6, <2>1, StatusChanged
<1> QED
  BY <1>4, <1>5, <1>6

LEMMA SeatCommitted ==
  ASSUME PeopleInv, NEW t \in transactions, Commit(t), CommitSeat(t)
  PROVE  PeopleInv'
<1> DEFINE c == t.command
<1> DEFINE old == seats[c.on]
<1>1. /\ t.step = "STAGED" /\ c.area = "membership"
      /\ seats' = [seats EXCEPT ![c.on] = SeatAfter(c, old)]
      /\ transactions' = transactions \ {t} /\ ledger' = ledger \cup {Record(t)}
      /\ UNCHANGED <<workers, invitations, offered>>
  BY DEF Commit, CommitSeat, outboxVars, Record
<1>2. /\ c.on \in Seat /\ old \in Membership
      /\ \/ /\ c.act = "role" /\ old.status = "ACTIVE" /\ RemainingOwner(c.on, c.value)
         \/ /\ c.act = "revoke" /\ old.status = "ACTIVE" /\ RemainingOwner(c.on, "EMPLOYEE")
         \/ /\ c.act = "status" /\ old.status \in Status
            /\ c.value = "INACTIVE" => RemainingOwner(c.on, "EMPLOYEE")
  BY <1>1 DEF PeopleInv, StagedMemberships, Staged, PeopleTypeOK
<1>3. /\ c.act = "role" => c.value \in Role
      /\ c.act = "status" => c.value \in Status
  BY <1>1 DEF PeopleInv, TransactionsWellFormed, WellFormed
<1>4. /\ SeatAfter(c, old) \in Membership
      /\ SeatAfter(c, old).user = old.user
      /\ SeatAfter(c, old).status # "ABSENT"
      /\ SeatAfter(c, old).role = IF c.act = "role" THEN c.value ELSE old.role
      /\ SeatAfter(c, old).status = IF c.act = "role" THEN "ACTIVE"
                                    ELSE IF c.act = "status" THEN c.value ELSE "REVOKED"
  BY <1>2, <1>3, SeatFields
<1> DEFINE new == SeatAfter(c, old)
<1>5. /\ seats'[c.on] = new
      /\ \A s \in Seat : s # c.on => seats'[s] = seats[s]
      /\ seats' \in [Seat -> Membership]
  BY <1>1, <1>2, <1>4 DEF PeopleInv, PeopleTypeOK
<1>6. PeopleTypeOK' /\ WorkersTypeOK' /\ TransactionsWellFormed'
  <2>1. Record(t).command.area # "invitation"
    BY <1>1 DEF Record
  <2> QED
    BY <1>1, <1>5, <2>1 DEF PeopleInv, PeopleTypeOK, WorkersTypeOK, TransactionsWellFormed
<1>7. StagedMemberships'
  BY <1>1 DEF PeopleInv, StagedMemberships, Staged
<1>8. StagedInvitations' /\ InvitationLocks'
  BY <1>1
  DEF PeopleInv, StagedInvitations, InvitationLocks, Staged, Takes, InvitationOf, TokenOf, Answers
<1> HIDE DEF new
<1>9. OwnerRemains'
  <2>1. PICK s \in Seat : seats[s].role = "OWNER" /\ seats[s].status = "ACTIVE"
    BY DEF PeopleInv, OwnerRemains
  <2>2. CASE s # c.on
    BY <1>5, <2>1, <2>2 DEF OwnerRemains
  <2>3. CASE s = c.on
    <3>1. CASE new.role = "OWNER" /\ new.status = "ACTIVE"
      BY <1>2, <1>5, <3>1 DEF OwnerRemains
    <3>2. CASE ~(new.role = "OWNER" /\ new.status = "ACTIVE")
      <4>1. \E other \in Seat \ {c.on} :
              seats[other].role = "OWNER" /\ seats[other].status = "ACTIVE"
        BY <1>2, <1>3, <1>4, <2>1, <2>3, <3>2 DEF RemainingOwner, Status, new
      <4> QED
        BY <1>5, <4>1 DEF OwnerRemains
    <3> QED
      BY <3>1, <3>2
  <2> QED
    BY <2>2, <2>3
<1>10. InvitationHonoured'
  <2>1. \A s \in Seat :
          /\ seats'[s].user = seats[s].user
          /\ seats'[s].status = "ABSENT" <=> seats[s].status = "ABSENT"
          /\ seats'[s].status \in Status => seats[s].status \in Status
    BY <1>2, <1>4, <1>5 DEF Status, new
  <2>2. \A i \in Invitation : i \in Seat
    BY DEF Seat
  <2>3. Record(t).command.area # "invitation"
    BY <1>1 DEF Record
  <2> QED
    BY <1>1, <2>1, <2>2, <2>3 DEF PeopleInv, InvitationHonoured
<1> QED
  BY <1>6, <1>7, <1>8, <1>9, <1>10 DEF PeopleInv

-----------------------------------------------------------------------------
(* What becomes of invitations.                                            *)
LEMMA StatusMoved ==
  ASSUME NEW U, NEW R, NEW S, NEW old \in [user: U, role: R, token: Nat, status: S],
         NEW z \in S, NEW x, x = [old EXCEPT !.status = z]
  PROVE  x \in [user: U, role: R, token: Nat, status: S] /\ x.status = z
OBVIOUS

LEMMA InvitationMoved ==
  ASSUME PeopleInv, NEW i \in Invitation, NEW z \in {"ACCEPTED", "EXPIRED"},
         invitations[i].status = "PENDING",
         \A t \in transactions : ~HoldsInvitation(t, i),
         invitations' = [invitations EXCEPT ![i].status = z],
         UNCHANGED <<transactions, ledger, offered>>
  PROVE  /\ invitations' \in [Invitation -> Invited] /\ invitations'[i].status = z
         /\ \A j \in Invitation : j # i => invitations'[j] = invitations[j]
         /\ TransactionsWellFormed' /\ StagedInvitations'
         /\ \A done \in ledger : done.command.area = "invitation" /\ done.command.act = "revoke"
              => invitations'[done.new].status = "REVOKED"
<1> DEFINE new == [invitations[i] EXCEPT !.status = z]
<1>1. new \in Invited /\ new.status = z
  <2> DEFINE Statuses == {"ABSENT", "PENDING", "ACCEPTED", "EXPIRED", "REVOKED"}
  <2> DEFINE Users == User \cup {Nothing}
  <2>1. Invited = [user: Users, role: Role, token: Nat, status: Statuses]
    BY DEF Invited
  <2>2. invitations[i] \in Invited /\ z \in Statuses
    BY DEF PeopleInv, PeopleTypeOK
  <2> HIDE DEF Statuses, Users
  <2> QED
    BY <2>1, <2>2, StatusMoved
<1>2. invitations' = [invitations EXCEPT ![i] = new]
  OBVIOUS
<1> HIDE DEF new
<1>3. /\ invitations' \in [Invitation -> Invited] /\ invitations'[i] = new
      /\ \A j \in Invitation : j # i => invitations'[j] = invitations[j]
  BY <1>1, <1>2 DEF PeopleInv, PeopleTypeOK
<1>4. TransactionsWellFormed'
  BY DEF PeopleInv, TransactionsWellFormed
<1>5. ASSUME NEW t \in transactions, Staged(t, "invitation") PROVE t.new \in Invitation /\ t.new # i
  BY <1>5 DEF PeopleInv, StagedInvitations, Staged, HoldsInvitation
<1>6. StagedInvitations'
  BY <1>3, <1>5 DEF PeopleInv, StagedInvitations, Staged
<1>7. ASSUME NEW done \in ledger,
             done.command.area = "invitation" /\ done.command.act = "revoke"
      PROVE  invitations'[done.new].status = "REVOKED"
  BY <1>3, <1>7 DEF PeopleInv, TransactionsWellFormed, InvitationHonoured
<1> QED
  BY <1>1, <1>3, <1>4, <1>6, <1>7

(* A member of an invitation that is not yet accepted there is none.       *)
LEMMA NoneJoined ==
  ASSUME PeopleInv, NEW i \in Invitation, invitations[i].status # "ACCEPTED"
  PROVE  i \in Seat /\ seats[i].status = "ABSENT"
BY DEF PeopleInv, InvitationHonoured, Seat

LEMMA ExpiredOnUse ==
  ASSUME PeopleInv, NEW i \in Invitation, NEW token, ExpireOnUse(i, token)
  PROVE  PeopleInv'
<1>1. /\ invitations[i].status = "PENDING"
      /\ invitations' = [invitations EXCEPT ![i].status = "EXPIRED"]
      /\ UNCHANGED <<workers, seats, transactions, ledger, offered>>
      /\ \A t \in transactions : ~HoldsInvitation(t, i)
      /\ \A w \in Worker : ~Takes(w, i)
  BY InvitationFree DEF ExpireOnUse, Present, Answers, outboxVars, commandVars
<1>2. /\ invitations' \in [Invitation -> Invited] /\ invitations'[i].status = "EXPIRED"
      /\ \A j \in Invitation : j # i => invitations'[j] = invitations[j]
      /\ TransactionsWellFormed' /\ StagedInvitations'
      /\ \A done \in ledger : done.command.area = "invitation" /\ done.command.act = "revoke"
           => invitations'[done.new].status = "REVOKED"
  BY <1>1, InvitationMoved
<1>3. PeopleTypeOK' /\ WorkersTypeOK' /\ StagedMemberships' /\ OwnerRemains'
  BY <1>1, <1>2
  DEF PeopleInv, PeopleTypeOK, WorkersTypeOK, StagedMemberships, RemainingOwner, OwnerRemains
<1>4. InvitationLocks'
  BY <1>1, <1>2 DEF PeopleInv, InvitationLocks, Takes, InvitationOf, TokenOf, Answers
<1>5. InvitationHonoured'
  BY <1>1, <1>2, NoneJoined DEF PeopleInv, InvitationHonoured
<1> QED
  BY <1>2, <1>3, <1>4, <1>5 DEF PeopleInv

(* Nobody joins while a membership is being changed, nor twice.            *)
LEMMA Joined ==
  ASSUME PeopleInv, NEW i \in Invitation, NEW token,
         AcceptExistingAccount(i, token) \/ AcceptNewAccount(i, token)
  PROVE  PeopleInv'
<1> DEFINE new == [user |-> invitations[i].user, role |-> invitations[i].role,
                   status |-> "ACTIVE", version |-> 1]
<1>1. /\ invitations[i].status = "PENDING" /\ OrganizationFree
      /\ LiveSeats(invitations[i].user) = {}
      /\ seats' = [seats EXCEPT ![i] = new]
      /\ invitations' = [invitations EXCEPT ![i].status = "ACCEPTED"]
      /\ UNCHANGED <<workers, transactions, ledger, offered>>
      /\ \A t \in transactions : ~HoldsInvitation(t, i)
      /\ \A w \in Worker : ~Takes(w, i)
  BY InvitationFree
  DEF AcceptExistingAccount, AcceptNewAccount, Join, Present, Answers, outboxVars, commandVars
<1>2. /\ invitations' \in [Invitation -> Invited] /\ invitations'[i].status = "ACCEPTED"
      /\ \A j \in Invitation : j # i => invitations'[j] = invitations[j]
      /\ TransactionsWellFormed' /\ StagedInvitations'
      /\ \A done \in ledger : done.command.area = "invitation" /\ done.command.act = "revoke"
           => invitations'[done.new].status = "REVOKED"
  BY <1>1, InvitationMoved
<1>3. i \in Seat /\ seats[i].status = "ABSENT"
  BY <1>1, NoneJoined
<1>4. /\ new \in Membership /\ new.status = "ACTIVE" /\ new.user = invitations[i].user
  BY DEF PeopleInv, PeopleTypeOK, Membership, Invited, Status
<1> HIDE DEF new
<1>5. /\ seats' \in [Seat -> Membership] /\ seats'[i] = new
      /\ \A s \in Seat : s # i => seats'[s] = seats[s]
  BY <1>1, <1>3, <1>4 DEF PeopleInv, PeopleTypeOK
<1>6. PeopleTypeOK' /\ WorkersTypeOK'
  BY <1>1, <1>2, <1>5 DEF PeopleInv, PeopleTypeOK, WorkersTypeOK
<1>7. StagedMemberships'
  <2>1. \A t \in transactions : ~Staged(t, "membership")
    BY <1>1 DEF OrganizationFree, LocksOrganization, Staged
  <2> QED
    BY <1>1, <2>1 DEF StagedMemberships, Staged
<1>8. OwnerRemains'
  BY <1>3, <1>5 DEF PeopleInv, OwnerRemains
<1>9. InvitationLocks'
  BY <1>1, <1>2 DEF PeopleInv, InvitationLocks, Takes, InvitationOf, TokenOf, Answers
<1>10. InvitationHonoured'
  <2>1. \A j \in Invitation : invitations'[j].status = "ACCEPTED" <=> seats'[j].status # "ABSENT"
    BY <1>2, <1>3, <1>4, <1>5 DEF PeopleInv, InvitationHonoured, Seat
  <2>2. ASSUME NEW s \in Seat, seats[s].status \in Status PROVE seats[s].user # new.user
    BY <1>1, <1>4, <2>2 DEF LiveSeats, SeatsOf, Status
  <2>3. \A r, s \in Seat :
          /\ seats'[r].status \in Status /\ seats'[s].status \in Status
          /\ seats'[r].user = seats'[s].user
          => r = s
    BY <1>5, <2>2 DEF PeopleInv, InvitationHonoured
  <2> QED
    BY <1>1, <1>2, <2>1, <2>3 DEF InvitationHonoured
<1> QED
  BY <1>2, <1>6, <1>7, <1>8, <1>9, <1>10 DEF PeopleInv

LEMMA Resent ==
  ASSUME NEW U, NEW R, NEW S, NEW old \in [user: U, role: R, token: Nat, status: S],
         NEW z \in S, NEW n \in Nat, NEW x, x = [old EXCEPT !.status = z, !.token = n]
  PROVE  x \in [user: U, role: R, token: Nat, status: S] /\ x.status = z
OBVIOUS

LEMMA InvitationFields ==
  ASSUME NEW c, NEW old \in Invited, c.act \in {"create", "resend", "revoke"},
         c.act = "create" => c.on \in User /\ c.value \in Role
  PROVE  /\ InvitationAfter(c, old) \in Invited
         /\ InvitationAfter(c, old).status = IF c.act = "revoke" THEN "REVOKED" ELSE "PENDING"
<1> DEFINE Statuses == {"ABSENT", "PENDING", "ACCEPTED", "EXPIRED", "REVOKED"}
<1> DEFINE Users == User \cup {Nothing}
<1>1. Invited = [user: Users, role: Role, token: Nat, status: Statuses]
  BY DEF Invited
<1>2. /\ "PENDING" \in Statuses /\ "REVOKED" \in Statuses
      /\ \A u \in User : u \in Users
  OBVIOUS
<1> HIDE DEF Statuses, Users
<1>3. old.token + 1 \in Nat
  BY <1>1
<1>4. CASE c.act = "create"
  <2>1. InvitationAfter(c, old) =
          [user |-> c.on, role |-> c.value, token |-> 1, status |-> "PENDING"]
    BY <1>4 DEF InvitationAfter
  <2> QED
    BY <1>1, <1>2, <1>4, <2>1
<1>5. CASE c.act = "resend"
  <2>1. InvitationAfter(c, old) = [old EXCEPT !.status = "PENDING", !.token = old.token + 1]
    BY <1>5 DEF InvitationAfter
  <2> QED
    BY <1>1, <1>2, <1>3, <1>5, <2>1, Resent
<1>6. CASE c.act = "revoke"
  <2>1. InvitationAfter(c, old) = [old EXCEPT !.status = "REVOKED"]
    BY <1>6 DEF InvitationAfter
  <2> QED
    BY <1>1, <1>2, <1>6, <2>1, StatusMoved
<1> QED
  BY <1>4, <1>5, <1>6

LEMMA InvitationCommitted ==
  ASSUME PeopleInv, NEW t \in transactions, Commit(t), CommitInvitation(t)
  PROVE  PeopleInv'
<1> DEFINE c == t.command
<1> DEFINE i == t.new
<1> DEFINE new == InvitationAfter(c, invitations[i])
<1>1. /\ Staged(t, "invitation") /\ c.area = "invitation"
      /\ invitations' = [invitations EXCEPT ![i] = new]
      /\ transactions' = transactions \ {t} /\ ledger' = ledger \cup {Record(t)}
      /\ UNCHANGED <<workers, seats, offered>>
  BY DEF Commit, CommitInvitation, Staged, Record
<1>2. /\ i \in Invitation /\ invitations[i] \in Invited
      /\ \/ c.act = "create" /\ invitations[i].status = "ABSENT"
         \/ /\ c.act = "resend" /\ HoldsInvitation(t, i)
            /\ invitations[i].status \in {"PENDING", "EXPIRED"}
         \/ /\ c.act = "revoke" /\ HoldsInvitation(t, i)
            /\ invitations[i].status = "PENDING"
  BY <1>1 DEF PeopleInv, StagedInvitations, PeopleTypeOK, HoldsInvitation
<1>3. c.act = "create" => c.on \in User /\ c.value \in Role
  BY <1>1 DEF PeopleInv, TransactionsWellFormed, WellFormed
<1>4. /\ new \in Invited
      /\ new.status = IF c.act = "revoke" THEN "REVOKED" ELSE "PENDING"
  BY <1>2, <1>3, InvitationFields
<1> HIDE DEF new
<1>5. /\ invitations' \in [Invitation -> Invited] /\ invitations'[i] = new
      /\ \A j \in Invitation : j # i => invitations'[j] = invitations[j]
  BY <1>1, <1>2, <1>4 DEF PeopleInv, PeopleTypeOK
<1>6. Record(t).command = c /\ Record(t).new = i
  BY DEF Record
<1>7. ASSUME NEW done \in ledger, done.command.area = "invitation", done.command.act = "revoke"
      PROVE  done.new \in Invitation /\ done.new # i /\ invitations[done.new].status = "REVOKED"
  BY <1>2, <1>7 DEF PeopleInv, TransactionsWellFormed, InvitationHonoured
<1>8. PeopleTypeOK' /\ WorkersTypeOK' /\ OwnerRemains' /\ TransactionsWellFormed'
  BY <1>1, <1>2, <1>5, <1>6
  DEF PeopleInv, PeopleTypeOK, WorkersTypeOK, OwnerRemains, TransactionsWellFormed
<1>9. StagedMemberships'
  BY <1>1 DEF PeopleInv, StagedMemberships, RemainingOwner
<1>10. StagedInvitations'
  <2>1. \A u \in transactions : Staged(u, "invitation") /\ u # t => u.new \in Invitation /\ u.new # i
    BY <1>1 DEF PeopleInv, StagedInvitations
  <2> QED
    BY <1>1, <1>5, <2>1 DEF PeopleInv, StagedInvitations
<1>11. InvitationLocks'
  <2>1. \A w \in Worker : ~Takes(w, i)
    BY <1>2 DEF PeopleInv, InvitationLocks, Answers
  <2> QED
    BY <1>1, <1>5, <2>1 DEF PeopleInv, InvitationLocks, Takes, InvitationOf, TokenOf, Answers
<1>12. InvitationHonoured'
  <2>1. \A j \in Invitation : invitations'[j].status = "ACCEPTED" <=> seats'[j].status # "ABSENT"
    BY <1>1, <1>2, <1>4, <1>5 DEF PeopleInv, InvitationHonoured
  <2>2. \A done \in ledger' :
          done.command.area = "invitation" /\ done.command.act = "revoke"
            => invitations'[done.new].status = "REVOKED"
    BY <1>1, <1>4, <1>5, <1>6, <1>7
  <2> QED
    BY <1>1, <2>1, <2>2 DEF PeopleInv, InvitationHonoured
<1> QED
  BY <1>8, <1>9, <1>10, <1>11, <1>12 DEF PeopleInv

-----------------------------------------------------------------------------
(* The workers.                                                            *)
LEMMA WorkerMoved ==
  ASSUME PeopleInv, NEW w \in Worker, NEW x, workers' = [workers EXCEPT ![w] = x],
         x \in [job: {x.job}, lease: {x.lease}, step: Step]
  PROVE  /\ WorkersTypeOK' /\ workers'[w] = x
         /\ \A v \in Worker : v # w => workers'[v] = workers[v]
BY DEF PeopleInv, WorkersTypeOK

(* What a worker does changes nothing here, unless it takes or expires an  *)
(* invitation.                                                             *)
LEMMA WorkerElsewhere ==
  ASSUME PeopleInv, NEW w \in Worker, NEW x, workers' = [workers EXCEPT ![w] = x],
         x \in [job: {x.job}, lease: {x.lease}, step: Step], x.step \notin Taking,
         UNCHANGED <<seats, invitations, offered, transactions, ledger>>
  PROVE  PeopleInv'
<1>1. /\ WorkersTypeOK' /\ workers'[w] = x
      /\ \A v \in Worker : v # w => workers'[v] = workers[v]
  BY WorkerMoved
<1>2. InvitationLocks'
  BY <1>1 DEF PeopleInv, InvitationLocks, Takes, InvitationOf, TokenOf, Answers
<1> QED
  BY <1>1, <1>2
  DEF PeopleInv, PeopleTypeOK, TransactionsWellFormed, StagedMemberships, StagedInvitations,
      OwnerRemains, InvitationHonoured, RemainingOwner

LEMMA StepMoved ==
  ASSUME NEW old, NEW S, old \in [job: {old.job}, lease: {old.lease}, step: S],
         NEW z \in S, NEW x, x = [old EXCEPT !.step = z]
  PROVE  x \in [job: {x.job}, lease: {x.lease}, step: S] /\ x.step = z /\ x.job = old.job
OBVIOUS

LEMMA MovedTo ==
  ASSUME PeopleInv, NEW w \in Worker, NEW z \in Step, MoveTo(w, z)
  PROVE  \E x : /\ workers' = [workers EXCEPT ![w] = x]
                /\ x \in [job: {x.job}, lease: {x.lease}, step: Step]
                /\ x.step = z /\ x.job = workers[w].job
<1> DEFINE x == [workers[w] EXCEPT !.step = z]
<1>1. workers' = [workers EXCEPT ![w] = x]
  BY DEF MoveTo
<1>2. workers[w] \in [job: {workers[w].job}, lease: {workers[w].lease}, step: Step]
  BY DEF PeopleInv, WorkersTypeOK
<1>3. x \in [job: {x.job}, lease: {x.lease}, step: Step] /\ x.step = z /\ x.job = workers[w].job
  BY <1>2, StepMoved
<1> HIDE DEF x
<1> QED
  BY <1>1, <1>3

LEMMA Moved ==
  ASSUME PeopleInv, NEW w \in Worker, NEW z \in Step \ Taking, MoveTo(w, z),
         UNCHANGED <<seats, invitations, offered, transactions, ledger>>
  PROVE  PeopleInv'
BY MovedTo, WorkerElsewhere

LEMMA Rested ==
  ASSUME PeopleInv, NEW w \in Worker, workers' = [workers EXCEPT ![w] = Resting],
         UNCHANGED <<seats, invitations, offered, transactions, ledger>>
  PROVE  PeopleInv'
<1>1. Resting \in [job: {Resting.job}, lease: {Resting.lease}, step: Step]
      /\ Resting.step \notin Taking
  BY DEF Resting, Step, Taking
<1> QED
  BY <1>1, WorkerElsewhere

LEMMA WorkerStepped ==
  ASSUME PeopleInv, WorkerStep
  PROVE  PeopleInv'
<1>1. UNCHANGED <<seats, invitations, offered, transactions, ledger>>
  BY DEF WorkerStep, peopleVars, commandVars
<1>2. ASSUME NEW w \in Worker, NEW j, Claim(w, j, Due(j)) PROVE PeopleInv'
  <2> DEFINE x == [job |-> j, lease |-> jobs[j].attempts + 1, step |-> "CLAIMED"]
  <2>1. workers' = [workers EXCEPT ![w] = x]
    BY <1>2 DEF Claim
  <2>2. x \in [job: {x.job}, lease: {x.lease}, step: Step] /\ x.step \notin Taking
    BY DEF Step, Taking
  <2> HIDE DEF x
  <2> QED
    BY <1>1, <2>1, <2>2, WorkerElsewhere
<1>3. ASSUME NEW w \in Worker, Unavailable(w) \/ HandlerFails(w) PROVE PeopleInv'
  <2>1. MoveTo(w, "FAILED") /\ "FAILED" \in Step \ Taking
    BY <1>3 DEF Unavailable, HandlerFails, Step, Taking
  <2> QED
    BY <1>1, <2>1, Moved
<1>4. ASSUME NEW w \in Worker, RecordFailure(w) \/ Crash(w) PROVE PeopleInv'
  <2>1. workers' = [workers EXCEPT ![w] = Resting]
    BY <1>4 DEF RecordFailure, Crash
  <2> QED
    BY <1>1, <2>1, Rested
<1>5. ASSUME NEW j, LeaseExpires(j) PROVE PeopleInv'
  BY <1>1, <1>5, Elsewhere DEF LeaseExpires, peopleOnly
<1> QED
  BY <1>2, <1>3, <1>4, <1>5 DEF WorkerStep

LEMMA JobHandled ==
  ASSUME PeopleInv, NEW w \in Worker, HandleEmail(w) \/ HandleExpiration(w)
  PROVE  PeopleInv'
<1>1. UNCHANGED <<seats, invitations, offered, transactions, ledger>>
  BY DEF HandleEmail, HandleExpiration, Handle, peopleVars, commandVars
<1>2. CASE MoveTo(w, "HANDLED")
  <2>1. "HANDLED" \in Step \ Taking
    BY DEF Step, Taking
  <2> QED
    BY <1>1, <1>2, <2>1, Moved
<1>3. ASSUME NEW z \in Taking, MoveTo(w, z), Answers(InvitationOf(w), TokenOf(w)),
             <<"invitation", InvitationOf(w)>> \notin Locked
      PROVE  PeopleInv'
  <2>1. z \in Step
    BY DEF Step, Taking
  <2>2. PICK x : /\ workers' = [workers EXCEPT ![w] = x]
                 /\ x \in [job: {x.job}, lease: {x.lease}, step: Step]
                 /\ x.step = z /\ x.job = workers[w].job
    BY <1>3, <2>1, MovedTo
  <2>3. /\ WorkersTypeOK' /\ workers'[w] = x
        /\ \A v \in Worker : v # w => workers'[v] = workers[v]
    BY <2>2, WorkerMoved
  <2>4. /\ \A t \in transactions : ~HoldsInvitation(t, InvitationOf(w))
        /\ \A v \in Worker : ~Takes(v, InvitationOf(w))
    BY <1>3, InvitationFree
  <2>5. /\ \A i : \A v \in Worker : v # w => (Takes(v, i)' <=> Takes(v, i))
        /\ \A i : Takes(w, i)' <=> InvitationOf(w) = i
    BY <1>3, <2>2, <2>3 DEF Takes, InvitationOf
  <2>6. /\ \A v \in Worker : TokenOf(v)' = TokenOf(v)
        /\ \A i, token : Answers(i, token)' <=> Answers(i, token)
    BY <1>1, <2>2, <2>3 DEF TokenOf, Answers
  <2>7. InvitationLocks'
    BY <1>1, <1>3, <2>4, <2>5, <2>6 DEF PeopleInv, InvitationLocks
  <2> QED
    BY <1>1, <2>3, <2>7
    DEF PeopleInv, PeopleTypeOK, TransactionsWellFormed, StagedMemberships, StagedInvitations,
        OwnerRemains, InvitationHonoured, RemainingOwner
<1> QED
  BY <1>2, <1>3
  DEF HandleEmail, HandleExpiration, Handle, Load, Expirable, Mailable, Taking

LEMMA JobDone ==
  ASSUME PeopleInv, NEW w \in Worker, SendMail(w) \/ FinishJob(w)
  PROVE  PeopleInv'
<1>1. CASE SendMail(w)
  <2>1. MoveTo(w, "MAILED") /\ "MAILED" \in Step \ Taking
    BY <1>1 DEF SendMail, Step, Taking
  <2>2. UNCHANGED <<seats, invitations, offered, transactions, ledger>>
    BY <1>1 DEF SendMail, peopleVars, commandVars
  <2> QED
    BY <2>1, <2>2, Moved
<1>2. CASE FinishJob(w) /\ ~(workers[w].step = "EXPIRING" /\ InvitationOf(w) \in Invitation)
  <2>1. /\ workers' = [workers EXCEPT ![w] = Resting]
        /\ UNCHANGED <<seats, offered, transactions, ledger>>
    BY <1>2 DEF FinishJob, Complete, commandVars
  <2>2. invitations' = invitations
    BY <1>2 DEF FinishJob, PeopleInv, PeopleTypeOK
  <2> QED
    BY <2>1, <2>2, Rested
<1>3. CASE FinishJob(w) /\ workers[w].step = "EXPIRING" /\ InvitationOf(w) \in Invitation
  <2> DEFINE i == InvitationOf(w)
  <2>1. /\ i \in Invitation /\ Takes(w, i)
        /\ invitations' = [invitations EXCEPT ![i].status = "EXPIRED"]
        /\ workers' = [workers EXCEPT ![w] = Resting]
        /\ UNCHANGED <<seats, offered, transactions, ledger>>
    BY <1>3 DEF FinishJob, Complete, commandVars, Takes, Taking
  <2>2. /\ invitations[i].status = "PENDING"
        /\ \A t \in transactions : ~HoldsInvitation(t, i)
        /\ \A v \in Worker : Takes(v, i) => v = w
    BY <2>1 DEF PeopleInv, InvitationLocks, Answers
  <2> HIDE DEF i
  <2>3. /\ invitations' \in [Invitation -> Invited] /\ invitations'[i].status = "EXPIRED"
        /\ \A j \in Invitation : j # i => invitations'[j] = invitations[j]
        /\ TransactionsWellFormed' /\ StagedInvitations'
        /\ \A done \in ledger : done.command.area = "invitation" /\ done.command.act = "revoke"
             => invitations'[done.new].status = "REVOKED"
    BY <2>1, <2>2, InvitationMoved
  <2>4. /\ Resting \in [job: {Resting.job}, lease: {Resting.lease}, step: Step]
        /\ Resting.step = "IDLE"
    BY DEF Resting, Step
  <2>5. /\ WorkersTypeOK' /\ workers'[w] = Resting
        /\ \A v \in Worker : v # w => workers'[v] = workers[v]
    BY <2>1, <2>4, WorkerMoved
  <2>6. PeopleTypeOK' /\ StagedMemberships' /\ OwnerRemains'
    BY <2>1, <2>3 DEF PeopleInv, PeopleTypeOK, StagedMemberships, RemainingOwner, OwnerRemains
  <2>7. \A j : \A v \in Worker : Takes(v, j)' <=> v # w /\ Takes(v, j)
    BY <2>4, <2>5 DEF Takes, Taking, InvitationOf, TokenOf, Answers
  <2>8. InvitationLocks'
    BY <2>1, <2>2, <2>3, <2>7 DEF PeopleInv, InvitationLocks, Answers, TokenOf
  <2>9. InvitationHonoured'
    BY <2>1, <2>2, <2>3, NoneJoined DEF PeopleInv, InvitationHonoured
  <2> QED
    BY <2>3, <2>5, <2>6, <2>8, <2>9 DEF PeopleInv
<1> QED
  BY <1>1, <1>2, <1>3

(* Every change of a row ends in Stage.                                    *)
LEMMA DirectoryStages ==
  ASSUME NEW t, DirectoryService(t)
  PROVE  t.step = "OPEN" /\ t.command.area \in Directory /\ \E n : Stage(t, n)
<1>1. t.step = "OPEN" /\ t.command.area \in Directory
  BY DEF DirectoryService, CreateCustomer, UpdateCustomer, ChangeCustomerStatus, DeleteCustomer,
         CreateSupplier, UpdateSupplier, ChangeSupplierStatus, DeleteSupplier,
         CreateExpenseCategory, ChangeExpenseCategoryStatus, DeleteExpenseCategory,
         CreateCatalogCategory, UpdateCatalogCategory, ChangeCatalogCategoryStatus,
         DeleteCatalogCategory, CreateCatalogItem, EditCatalogItem, SetCatalogPrice,
         ChangeCatalogItemStatus, ChangeCatalogItemStructure, DeleteCatalogItem, CreateBranch,
         CreateRegister, RenameRegister, DeactivateRegister, UpdateProfile, UpdateTimezone,
         ChangeCurrency, Runs, Reaches, Directory
<1>2. \E n : Stage(t, n)
  BY DEF DirectoryService, CreateCustomer, UpdateCustomer, ChangeCustomerStatus, DeleteCustomer,
         CreateSupplier, UpdateSupplier, ChangeSupplierStatus, DeleteSupplier,
         CreateExpenseCategory, ChangeExpenseCategoryStatus, DeleteExpenseCategory,
         CreateCatalogCategory, UpdateCatalogCategory, ChangeCatalogCategoryStatus,
         DeleteCatalogCategory, CreateCatalogItem, EditCatalogItem, SetCatalogPrice,
         ChangeCatalogItemStatus, ChangeCatalogItemStructure, DeleteCatalogItem, CreateBranch,
         CreateRegister, RenameRegister, DeactivateRegister, UpdateProfile, UpdateTimezone,
         ChangeCurrency, Insert, Change
<1> QED
  BY <1>1, <1>2

-----------------------------------------------------------------------------
(* Jobs, workers and letters are about invitations.                        *)
MailTypeOK ==
  /\ \A j \in DOMAIN jobs : j[2] \in Invitation
  /\ \A w \in Worker : workers[w].step # "IDLE" => InvitationOf(w) \in Invitation
  /\ \A m \in mailed : m[1] \in Invitation

LEMMA MailInitially == WorkspaceInit => MailTypeOK
<1> SUFFICES ASSUME WorkspaceInit PROVE MailTypeOK
  OBVIOUS
<1>1. jobs = << >> /\ mailed = {} /\ workers = [w \in Worker |-> Resting]
  BY DEF WorkspaceInit, OutboxInit
<1>2. DOMAIN jobs = {}
  BY <1>1
<1> QED
  BY <1>1, <1>2 DEF MailTypeOK, Resting

LEMMA MailCommitted ==
  ASSUME PeopleInv, MailTypeOK, NEW t \in transactions, Commit(t)
  PROVE  MailTypeOK'
<1>1. mailed' = mailed /\ workers' = workers
  BY DEF Commit, CommitEntry, CommitSeat, CommitInvitation, mailVars, outboxVars
<1>2. CASE jobs' = jobs
  BY <1>1, <1>2 DEF MailTypeOK, InvitationOf
<1>3. ASSUME NEW token,
             CommitInvitation(t), jobs' = WithJobs({"EMAIL", "EXPIRATION"} \X {t.new} \X {token})
      PROVE  MailTypeOK'
  <2>1. t.new \in Invitation
    BY <1>3 DEF Commit, CommitInvitation, PeopleInv, StagedInvitations, Staged
  <2>2. DOMAIN jobs' = DOMAIN jobs \cup ({"EMAIL", "EXPIRATION"} \X {t.new} \X {token})
    BY <1>3 DEF WithJobs
  <2>3. \A j \in {"EMAIL", "EXPIRATION"} \X {t.new} \X {token} : j[2] = t.new
    OBVIOUS
  <2> QED
    BY <1>1, <2>1, <2>2, <2>3 DEF MailTypeOK, InvitationOf
<1> QED
  BY <1>2, <1>3 DEF Commit, CommitEntry, CommitSeat, CommitInvitation, outboxVars

(* A worker that goes on stays with its job, and one that claims takes a   *)
(* job there is.                                                           *)
LEMMA MailWorked ==
  ASSUME PeopleInv, MailTypeOK, NEW w \in Worker, NEW x, workers' = [workers EXCEPT ![w] = x],
         x.step = "IDLE" \/ (x.job = workers[w].job /\ workers[w].step # "IDLE")
           \/ x.job \in DOMAIN jobs,
         DOMAIN jobs' = DOMAIN jobs, mailed' = mailed
  PROVE  MailTypeOK'
<1>1. /\ workers'[w] = x
      /\ \A v \in Worker : v # w => workers'[v] = workers[v]
  BY DEF PeopleInv, WorkersTypeOK
<1>2. \A v \in Worker : workers'[v].step # "IDLE" => workers'[v].job[2] \in Invitation
  BY <1>1 DEF MailTypeOK, InvitationOf
<1> QED
  BY <1>2 DEF MailTypeOK, InvitationOf

LEMMA MailMoved ==
  ASSUME PeopleInv, MailTypeOK, NEW w \in Worker, NEW z \in Step, MoveTo(w, z),
         workers[w].step # "IDLE", jobs' = jobs, mailed' = mailed
  PROVE  MailTypeOK'
BY MovedTo, MailWorked

LEMMA MailRested ==
  ASSUME PeopleInv, MailTypeOK, NEW w \in Worker, workers' = [workers EXCEPT ![w] = Resting],
         DOMAIN jobs' = DOMAIN jobs, mailed' = mailed
  PROVE  MailTypeOK'
BY MailWorked DEF Resting

LEMMA MailStepped ==
  ASSUME PeopleInv, MailTypeOK, WorkspaceNext
  PROVE  MailTypeOK'
<1>1. CASE UNCHANGED <<jobs, workers, mailed>>
  BY <1>1 DEF MailTypeOK, InvitationOf
<1>2. ASSUME NEW t \in transactions, Commit(t) PROVE MailTypeOK'
  BY <1>2, MailCommitted
<1>3. ASSUME NEW w \in Worker, HandleEmail(w) \/ HandleExpiration(w) PROVE MailTypeOK'
  <2>1. PICK z \in {"MAILING", "EXPIRING", "HANDLED"} : Load(w, z) /\ mailed' = mailed
    BY <1>3 DEF HandleEmail, HandleExpiration, Handle, mailVars
  <2> QED
    BY <2>1, MailMoved DEF Load, Step
<1>4. ASSUME NEW w \in Worker, SendMail(w) PROVE MailTypeOK'
  <2>1. /\ "MAILED" \in Step /\ MoveTo(w, "MAILED") /\ workers[w].step = "MAILING"
        /\ mailed' = mailed \cup {<<InvitationOf(w), TokenOf(w)>>} /\ jobs' = jobs
    BY <1>4 DEF SendMail, Step
  <2>2. PICK x : /\ workers' = [workers EXCEPT ![w] = x]
                 /\ x \in [job: {x.job}, lease: {x.lease}, step: Step]
                 /\ x.step = "MAILED" /\ x.job = workers[w].job
    BY <2>1, MovedTo
  <2>3. /\ workers'[w] = x
        /\ \A v \in Worker : v # w => workers'[v] = workers[v]
    BY <2>2, WorkerMoved
  <2>4. InvitationOf(w) \in Invitation
    BY <2>1 DEF MailTypeOK
  <2>5. \A v \in Worker : workers'[v].step # "IDLE" => workers'[v].job[2] \in Invitation
    BY <2>2, <2>3, <2>4 DEF MailTypeOK, InvitationOf
  <2> QED
    BY <2>1, <2>4, <2>5 DEF MailTypeOK, InvitationOf
<1>5. ASSUME NEW w \in Worker, FinishJob(w) PROVE MailTypeOK'
  <2>1. /\ workers' = [workers EXCEPT ![w] = Resting] /\ mailed' = mailed
        /\ DOMAIN jobs' = DOMAIN jobs
    BY <1>5 DEF FinishJob, Complete, mailVars
  <2> QED
    BY <2>1, MailRested
<1>6. CASE WorkerStep
  <2>0. mailed' = mailed
    BY <1>6 DEF WorkerStep, mailVars
  <2>1. ASSUME NEW w \in Worker, NEW j \in DOMAIN jobs, Claim(w, j, Due(j)) PROVE MailTypeOK'
    <3> DEFINE x == [job |-> j, lease |-> jobs[j].attempts + 1, step |-> "CLAIMED"]
    <3>1. workers' = [workers EXCEPT ![w] = x] /\ x.job \in DOMAIN jobs
      BY <2>1 DEF Claim
    <3>2. DOMAIN jobs' = DOMAIN jobs
      BY <2>1 DEF Claim
    <3> HIDE DEF x
    <3> QED
      BY <2>0, <3>1, <3>2, MailWorked
  <2>2. ASSUME NEW w \in Worker, Unavailable(w) \/ HandlerFails(w) PROVE MailTypeOK'
    <3>1. /\ MoveTo(w, "FAILED") /\ "FAILED" \in Step /\ jobs' = jobs
          /\ workers[w].step # "IDLE"
      BY <2>2 DEF Unavailable, HandlerFails, Handling, Outside, Step
    <3> QED
      BY <2>0, <3>1, MailMoved
  <2>3. ASSUME NEW w \in Worker, RecordFailure(w) \/ Crash(w) PROVE MailTypeOK'
    <3>1. workers' = [workers EXCEPT ![w] = Resting] /\ DOMAIN jobs' = DOMAIN jobs
      BY <2>3 DEF RecordFailure, Crash
    <3> QED
      BY <2>0, <3>1, MailRested
  <2>4. ASSUME NEW j \in DOMAIN jobs, LeaseExpires(j) PROVE MailTypeOK'
    <3>1. DOMAIN jobs' = DOMAIN jobs /\ workers' = workers
      BY <2>4 DEF LeaseExpires
    <3> QED
      BY <2>0, <3>1 DEF MailTypeOK, InvitationOf
  <2> QED
    BY <1>6, <2>1, <2>2, <2>3, <2>4 DEF WorkerStep
<1>7. ASSUME NEW k, NEW c, Begin(k, c) \/ BeginUnkeyed(k, c) PROVE MailTypeOK'
  BY <1>1, <1>7 DEF Begin, BeginUnkeyed, Open, outboxVars, mailVars
<1>8. ASSUME NEW t, Service(t) \/ Rollback(t) PROVE MailTypeOK'
  <2>1. CASE Rollback(t)
    BY <1>1, <2>1 DEF Rollback, outboxVars, mailVars
  <2>2. ASSUME NEW n, Stage(t, n) PROVE MailTypeOK'
    BY <1>1, <2>2 DEF Stage, outboxVars, mailVars
  <2> QED
    BY <1>8, <2>1, <2>2, DirectoryStages
    DEF Service, MembershipService, ChangeRole, Revoke, SetStatus, CreateInvitation, Resend,
        RevokeInvitation
<1>9. ASSUME NEW e, SellTo(e) \/ BuyFrom(e) \/ SpendOn(e) PROVE MailTypeOK'
  BY <1>1, <1>9 DEF SellTo, BuyFrom, SpendOn, Refer, outboxVars, mailVars
<1>10. ASSUME NEW i, Lapse(i) PROVE MailTypeOK'
  BY <1>1, <1>10 DEF Lapse, outboxVars
<1>11. ASSUME NEW i, NEW token,
              \/ AcceptExistingAccount(i, token) \/ AcceptNewAccount(i, token)
              \/ ExpireOnUse(i, token)
       PROVE  MailTypeOK'
  BY <1>1, <1>11 DEF AcceptExistingAccount, AcceptNewAccount, ExpireOnUse, outboxVars, mailVars
<1> QED
  BY <1>2, <1>3, <1>4, <1>5, <1>6, <1>7, <1>8, <1>9, <1>10, <1>11 DEF WorkspaceNext

-----------------------------------------------------------------------------
(* A step of the back office.                                              *)
LEMMA WorkspaceStepped ==
  ASSUME PeopleInv, MailTypeOK, WorkspaceNext
  PROVE  PeopleInv'
<1>1. ASSUME NEW k \in Key, NEW c \in offered.commands, Begin(k, c) \/ BeginUnkeyed(k, c)
      PROVE  PeopleInv'
  <2>1. WellFormed(c)
    BY WorkspaceAssumption DEF PeopleInv, TransactionsWellFormed
  <2> QED
    BY <1>1, <2>1, Begun
<1>2. ASSUME NEW t \in transactions, Service(t) PROVE PeopleInv'
  BY <1>2, DirectoryStages, RowStaged, MembershipStaged, InvitationStaged
  DEF Service, MembershipService
<1>3. ASSUME NEW t \in transactions, Commit(t) PROVE PeopleInv'
  BY <1>3, EntryCommitted, SeatCommitted, InvitationCommitted DEF Commit
<1>4. ASSUME NEW t \in transactions, Rollback(t) PROVE PeopleInv'
  BY <1>4, RolledBack
<1>5. ASSUME NEW e, SellTo(e) \/ BuyFrom(e) \/ SpendOn(e) PROVE PeopleInv'
  <2>1. UNCHANGED <<peopleOnly, transactions, ledger>>
    BY <1>5 DEF SellTo, BuyFrom, SpendOn, Refer, outboxVars, peopleVars, commandVars, peopleOnly
  <2> QED
    BY <2>1, Elsewhere
<1>6. ASSUME NEW i, Lapse(i) PROVE PeopleInv'
  <2>1. UNCHANGED <<peopleOnly, transactions, ledger>>
    BY <1>6 DEF Lapse, outboxVars, peopleVars, commandVars, peopleOnly
  <2> QED
    BY <2>1, Elsewhere
<1>7. ASSUME NEW m \in mailed,
             \/ AcceptExistingAccount(m[1], m[2]) \/ AcceptNewAccount(m[1], m[2])
             \/ ExpireOnUse(m[1], m[2])
      PROVE  PeopleInv'
  <2>1. m[1] \in Invitation
    BY DEF MailTypeOK
  <2> QED
    BY <1>7, <2>1, Joined, ExpiredOnUse
<1>8. ASSUME NEW w \in Worker,
             HandleEmail(w) \/ HandleExpiration(w) \/ SendMail(w) \/ FinishJob(w)
      PROVE  PeopleInv'
  BY <1>8, JobHandled, JobDone
<1>9. CASE WorkerStep
  BY <1>9, WorkerStepped
<1> QED
  BY <1>1, <1>2, <1>3, <1>4, <1>5, <1>6, <1>7, <1>8, <1>9 DEF WorkspaceNext

(* A letter goes out from a worker that still has its invitation.          *)
LEMMA MailedLive ==
  ASSUME PeopleInv, MailTypeOK, WorkspaceNext, NEW m \in mailed' \ mailed
  PROVE  Answers(m[1], m[2])
<1>1. PICK w \in Worker : SendMail(w)
  BY DirectoryStages
  DEF WorkspaceNext, Begin, BeginUnkeyed, Open, Service, MembershipService, Stage, ChangeRole,
      Revoke, SetStatus, CreateInvitation, Resend, RevokeInvitation, Commit, Rollback, SellTo,
      BuyFrom, SpendOn, Refer, Lapse, AcceptExistingAccount, AcceptNewAccount, ExpireOnUse,
      HandleEmail, HandleExpiration, Handle, FinishJob, WorkerStep, mailVars
<1>2. /\ workers[w].step = "MAILING" /\ m = <<InvitationOf(w), TokenOf(w)>>
  BY <1>1 DEF SendMail
<1>3. InvitationOf(w) \in Invitation
  BY <1>2 DEF MailTypeOK
<1>4. Answers(InvitationOf(w), TokenOf(w))
  BY <1>2, <1>3 DEF PeopleInv, InvitationLocks, Takes, Taking
<1> QED
  BY <1>2, <1>4

-----------------------------------------------------------------------------
(* The pages send what the server's schemas let through.                   *)
RequestsWellFormed ==
  \A r \in requests :
    /\ r \in [tab: {r.tab}, key: {r.key}, command: {r.command}, filled: {r.filled},
              outcome: {r.outcome}, received: {r.received}]
    /\ WellFormed(r.command)

PagesInv == PeopleInv /\ MailTypeOK /\ RequestsWellFormed

LEMMA Requested ==
  ASSUME RequestsWellFormed, NEW t, NEW k, NEW c, NEW filled, WellFormed(c),
         Request(t, k, c, filled)
  PROVE  RequestsWellFormed'
<1> DEFINE x == [tab |-> t, key |-> k, command |-> c, filled |-> filled,
                 outcome |-> "awaited", received |-> FALSE]
<1>1. /\ x \in [tab: {x.tab}, key: {x.key}, command: {x.command}, filled: {x.filled},
                outcome: {x.outcome}, received: {x.received}]
      /\ x.command = c
  OBVIOUS
<1>2. requests' = requests \cup {x}
  BY DEF Request
<1> HIDE DEF x
<1> QED
  BY <1>1, <1>2 DEF RequestsWellFormed

LEMMA Remarked ==
  ASSUME RequestsWellFormed, NEW r \in requests, NEW x,
         (\E o : x = [r EXCEPT !.outcome = o]) \/ (\E b : x = [r EXCEPT !.received = b]),
         requests' = (requests \ {r}) \cup {x}
  PROVE  RequestsWellFormed'
<1>1. r \in [tab: {r.tab}, key: {r.key}, command: {r.command}, filled: {r.filled},
             outcome: {r.outcome}, received: {r.received}]
  BY DEF RequestsWellFormed
<1>2. /\ x \in [tab: {x.tab}, key: {x.key}, command: {x.command}, filled: {x.filled},
                outcome: {x.outcome}, received: {x.received}]
      /\ x.command = r.command
  <2>1. CASE \E o : x = [r EXCEPT !.outcome = o]
    BY <1>1, <2>1
  <2>2. CASE \E b : x = [r EXCEPT !.received = b]
    BY <1>1, <2>2
  <2> QED
    BY <2>1, <2>2
<1> QED
  BY <1>2 DEF RequestsWellFormed

LEMMA AskedWellFormed ==
  ASSUME NEW t, NEW act, NEW on, NEW value, NEW parent, offered.page # "invitation",
         offered.page = "membership" /\ act = "role" => value \in Role,
         act = "status" => value \in Status,
         parent = Nothing \/ (offered.page = "cash_register" /\ parent \in Entry)
  PROVE  WellFormed(Asks(t, act, on, value, parent))
<1> DEFINE c == Asks(t, act, on, value, parent)
<1>1. c.area = offered.page /\ c.act = act /\ c.value = value /\ c.parent = parent
  BY DEF Asks
<1> HIDE DEF c
<1>2. WellFormed(c)
  BY <1>1 DEF WellFormed, ParentWellFormed
<1> QED
  BY <1>2 DEF c

LEMMA Submitted ==
  ASSUME RequestsWellFormed, NEW t, NEW e, NEW act, NEW value,
         SubmitPage(t, e, act, value) \/ SubmitRow(t, e, act, value),
         offered.page # "invitation",
         offered.page = "membership" /\ act = "role" => value \in Role,
         act = "status" => value \in Status
  PROVE  RequestsWellFormed'
<1>1. WellFormed(Asks(t, act, e, value, Nothing))
  BY AskedWellFormed
<1> QED
  BY <1>1, Requested DEF SubmitPage, SubmitRow

LEMMA Created ==
  ASSUME RequestsWellFormed, NEW t, NEW parent, Create(t, parent),
         offered.page # "invitation", offered.page # "membership",
         parent = Nothing \/ (offered.page = "cash_register" /\ parent \in Entry)
  PROVE  RequestsWellFormed'
<1>1. WellFormed(Asks(t, "create", Nothing, NoCode, parent))
  BY AskedWellFormed
<1> QED
  BY <1>1, Requested DEF Create

LEMMA FormsKeep ==
  ASSUME RequestsWellFormed, NEW t, PageForm(t)
  PROVE  RequestsWellFormed'
<1>1. CASE ReloadUsers(t) \/ ReloadSettings(t)
  BY <1>1 DEF ReloadUsers, ReloadSettings, RequestsWellFormed
<1>2. CASE ~(ReloadUsers(t) \/ ReloadSettings(t))
  <2>1. \E parent : /\ Create(t, parent)
                    /\ parent = Nothing \/ (offered.page = "cash_register" /\ parent \in Entry)
    BY <1>2 DEF PageForm, CustomerPage, SupplierPage, CatalogItemPage, CashRegisterPage,
                CategoryPage, BranchPage
  <2>2. offered.page # "invitation" /\ offered.page # "membership"
    BY <1>2 DEF PageForm, CustomerPage, SupplierPage, CatalogItemPage, CashRegisterPage,
                CategoryPage, BranchPage
  <2> QED
    BY <2>1, <2>2, Created
<1> QED
  BY <1>1, <1>2

LEMMA RowsKeep ==
  ASSUME RequestsWellFormed, NEW t, NEW e, PageRow(t, e)
  PROVE  RequestsWellFormed'
<1>0. "INACTIVE" \in Status /\ \A x : Opposite(x) \in Status
  BY DEF Opposite, Status
<1>1. ASSUME NEW f, NEW open, SetOpen(t, f, open) PROVE RequestsWellFormed'
  BY <1>1 DEF SetOpen, RequestsWellFormed
<1>2. ASSUME NEW act, NEW value, SubmitPage(t, e, act, value) \/ SubmitRow(t, e, act, value),
             offered.page \notin {"membership", "invitation"}, act = "status" => value \in Status
      PROVE  RequestsWellFormed'
  BY <1>2, Submitted
<1>3. ASSUME Remount(t, e) \/ EditItem(t, e) \/ EditCategory(t, e) PROVE RequestsWellFormed'
  BY <1>3 DEF Remount, EditItem, EditCategory, RequestsWellFormed
<1>4. ASSUME NEW f, ConfirmCategory(t, f) PROVE RequestsWellFormed'
  BY <1>4 DEF ConfirmCategory, RequestsWellFormed
<1>5. CASE CustomerItemEditor(t, e)
  BY <1>0, <1>1, <1>2, <1>3, <1>5 DEF CustomerItemEditor, Toggle
<1>6. CASE SupplierItemEditor(t, e)
  BY <1>0, <1>1, <1>2, <1>3, <1>6 DEF SupplierItemEditor, Toggle
<1>7. CASE ItemEditor(t, e)
  BY <1>0, <1>1, <1>2, <1>3, <1>7 DEF ItemEditor, ItemForms, ChooseItemForm
<1>8. CASE CashRegisterItemEditor(t, e)
  BY <1>0, <1>1, <1>2, <1>8 DEF CashRegisterItemEditor, Toggle
<1>9. CASE CatalogCategoryRow(t, e) \/ ExpenseCategoryRow(t, e)
  BY <1>0, <1>1, <1>2, <1>3, <1>4, <1>9
  DEF CatalogCategoryRow, ExpenseCategoryRow, CatalogCategoryManagement, CancelEdition
<1>10. CASE MemberEditor(t, e)
  <2>1. \/ \E role \in Role : SubmitPage(t, e, "role", role)
        \/ SubmitPage(t, e, "revoke", Nothing)
        \/ SubmitPage(t, e, "status", Opposite(lists[t][e].status))
    BY <1>10 DEF MemberEditor
  <2>2. offered.page = "membership"
    BY <1>10 DEF MemberEditor
  <2> QED
    BY <1>0, <2>1, <2>2, Submitted
<1>11. CASE OrganizationSettings(t, e)
  BY <1>2, <1>11 DEF OrganizationSettings, SettingsRequests
<1> QED
  BY <1>5, <1>6, <1>7, <1>8, <1>9, <1>10, <1>11 DEF PageRow

LEMMA RequestsKept ==
  ASSUME RequestsWellFormed, PagesNext
  PROVE  RequestsWellFormed'
<1>1. CASE UNCHANGED pageVars
  BY <1>1 DEF pageVars, RequestsWellFormed
<1>2. ASSUME NEW t, PageStep(t) PROVE RequestsWellFormed'
  <2>1. CASE Ask(t) \/ ServerAnswers(t) \/ Arrives(t) \/ FetchFails(t)
    BY <2>1 DEF Ask, ServerAnswers, Arrives, FetchFails, RequestsWellFormed
  <2> QED
    BY <1>2, <2>1, FormsKeep, RowsKeep DEF PageStep
<1>3. ASSUME NEW r \in requests, Succeeds(r) \/ Fails(r) PROVE RequestsWellFormed'
  BY <1>3, Remarked DEF Succeeds, Fails, Settled
<1>4. ASSUME NEW r \in requests, ServerReceives(r) PROVE RequestsWellFormed'
  BY <1>4, Remarked DEF ServerReceives
<1> QED
  BY <1>1, <1>2, <1>3, <1>4 DEF PagesNext

LEMMA PagesInvPreserved ==
  ASSUME PagesInv, [PagesNext]_<<workspaceVars, pageVars>>
  PROVE  PagesInv'
<1>1. CASE UNCHANGED workspaceVars
  <2>1. UNCHANGED <<peopleOnly, transactions, ledger>> /\ UNCHANGED <<jobs, workers, mailed>>
    BY <1>1 DEF workspaceVars, outboxVars, peopleVars, mailVars, commandVars, peopleOnly
  <2>2. PeopleInv' /\ MailTypeOK'
    BY <2>1, Elsewhere DEF PagesInv, MailTypeOK, InvitationOf
  <2>3. RequestsWellFormed'
    <3>1. CASE UNCHANGED pageVars
      BY <3>1 DEF pageVars, PagesInv, RequestsWellFormed
    <3> QED
      BY <3>1, RequestsKept DEF PagesInv
  <2> QED
    BY <2>2, <2>3 DEF PagesInv
<1>2. CASE WorkspaceNext /\ UNCHANGED pageVars
  BY <1>2, WorkspaceStepped, MailStepped DEF PagesInv, pageVars, RequestsWellFormed
<1>3. ASSUME NEW r \in requests, ServerReceives(r) PROVE PagesInv'
  <2>1. WellFormed(r.command) /\ (Begin(r.key, r.command) \/ BeginUnkeyed(r.key, r.command))
    BY <1>3 DEF ServerReceives, PagesInv, RequestsWellFormed
  <2>2. PeopleInv'
    BY <2>1, Begun DEF PagesInv
  <2>3. MailTypeOK'
    BY <2>1 DEF Begin, BeginUnkeyed, Open, outboxVars, mailVars, PagesInv, MailTypeOK, InvitationOf
  <2>4. RequestsWellFormed'
    BY <1>3, Remarked DEF ServerReceives, PagesInv
  <2> QED
    BY <2>2, <2>3, <2>4 DEF PagesInv
<1> QED
  BY <1>1, <1>2, <1>3 DEF PagesNext

-----------------------------------------------------------------------------
(* The directories: nothing is lost, and nothing is done twice.            *)
(*                                                                         *)
(* A key is inserted before anything else is done, so one command of its   *)
(* scope has it, under way or completed (KeysApart).  A staged change      *)
(* holds the lock of its row and of its code, and the organization if it   *)
(* takes it (RowsApart), so what it has checked stays true until it        *)
(* commits (RowChecked), and what is completed has raised the version of   *)
(* its row or brought it about (LedgerTrue).                               *)
RowIds == Entry \cup {Organization}

RowsTypeOK ==
  /\ entries = [e \in RowIds |-> entries[e]]
  /\ \A e \in RowIds :
       entries[e] \in [directory: {entries[e].directory}, code: {entries[e].code},
                       parent: {entries[e].parent}, status: {entries[e].status}, version: Nat]
  /\ \A e \in RowIds : entries[e].status \in Status \cup {"ABSENT", "DELETED"}
  /\ entries[Organization].directory = "organization"

KeysApart ==
  /\ \A t, u \in transactions : t.key = u.key /\ SameScope(t.command, u.command) => t = u
  /\ \A t \in transactions, done \in ledger :
       Keyed(t.command) /\ t.key = done.key => ~SameScope(t.command, done.command)

(* What an item or a register may refer to, and what history refers to.    *)
Parental(p) ==
  p \in Entry /\ Live(p) /\ entries[p].directory \in {"catalog_category", "branch"}
Referable == {"customer", "supplier", "expense_category", "catalog_item"}

SetsCode(c) == c.act \in {"create", "update"} /\ c.value \in Code
SetsParent(c) == c.act = "create" \/ (c.act = "update" /\ c.area = "catalog_item")

RowChecked(c, e) ==
  /\ c.act \in {"create", "update", "price", "structural", "status", "timezone", "currency",
                "delete"}
  /\ IF c.act = "create"
     THEN e \in Entry /\ entries[e].status = "ABSENT"
     ELSE /\ e \in RowIds /\ Live(e)
          /\ entries[e].directory = c.area /\ entries[e].version = c.version
  /\ SetsCode(c) => CodeFree(c, e)
  /\ SetsParent(c) /\ c.parent # Nothing => Parental(c.parent)
  /\ c.act = "price" => c.area = "catalog_item"
  /\ c.act = "status" /\ c.area = "cash_register" => entries[e].status = "ACTIVE"
  /\ c.act = "delete" =>
       \/ c.area \in Referable /\ e \notin used
       \/ /\ c.area = "catalog_category"
          /\ \A f \in Entry : Live(f) => entries[f].parent # e

RowsChecked == \A t \in StagedRows : RowChecked(t.command, EntryOf(t))

RowsApart ==
  \A t, u \in StagedRows : t # u =>
    /\ EntryOf(t) # EntryOf(u)
    /\ SetsCode(t.command) /\ SetsCode(u.command) /\ t.command.value = u.command.value
         => IndexOf(t.command) # IndexOf(u.command)
    /\ ~LocksOrganization(t.command)

StagedSeats ==
  \A t \in transactions : Staged(t, "membership") =>
    seats[t.command.on].version = t.command.version

(* What a completed command has left behind.                               *)
LeftItsMark(done) ==
  LET c == done.command IN
  /\ c.act = "create" => c.area \in Directory \cup {"invitation"}
  /\ c.act = "create" /\ c.area \in Directory =>
       /\ done.new \in Entry /\ entries[done.new].status # "ABSENT"
       /\ entries[done.new].directory = c.area
  /\ c.act = "create" /\ c.area = "invitation" => invitations[done.new].status # "ABSENT"
  /\ c.act # "create" /\ c.area \in Directory =>
       /\ c.on \in RowIds /\ entries[c.on].status # "ABSENT" /\ c.version \in Nat
       /\ \/ entries[c.on].status = "DELETED"
          \/ c.version < entries[c.on].version /\ c.act \notin {"delete", "revoke"}
  /\ c.area = "membership" =>
       /\ c.on \in Seat /\ seats[c.on].status # "ABSENT"
       /\ c.version \in Nat /\ c.version < seats[c.on].version
       /\ seats[c.on].status = "REVOKED" \/ c.act \notin {"delete", "revoke"}

LedgerTrue == \A done \in ledger : LeftItsMark(done)

(* The parts of NothingLostOrDoubled.                                      *)
KeysDone ==
  \A a, b \in ledger :
    a.key = b.key /\ Keyed(a.command) /\ SameScope(a.command, b.command) => a = b
CreatesApart == \A a, b \in ledger : Creates(a) /\ Creates(b) /\ a.new = b.new => a = b
VersionsApart ==
  \A a, b \in ledger :
    /\ Versioned(a) /\ Versioned(b) /\ a.command.on = b.command.on
    /\ a.command.version = b.command.version
    => a = b
CodesApart ==
  \A e, f \in Entry :
    /\ Live(e) /\ Live(f) /\ entries[e].code \in Code /\ entries[e].code = entries[f].code
    /\ entries[e].directory = entries[f].directory
    /\ entries[e].directory = "cash_register" => entries[e].parent = entries[f].parent
    => e = f
UsedTrue == \A e \in used : e \in RowIds /\ Live(e) /\ entries[e].directory \in Referable
ParentsTrue ==
  \A e \in Entry : Live(e) /\ entries[e].parent # Nothing => Parental(entries[e].parent)

RowsInv == RowsTypeOK /\ CodesApart /\ UsedTrue /\ ParentsTrue
ChangesInv == RowsChecked /\ RowsApart /\ StagedSeats
LedgerInv == KeysApart /\ KeysDone /\ CreatesApart /\ VersionsApart /\ LedgerTrue
DirectoriesInv == RowsInv /\ ChangesInv /\ LedgerInv

LEMMA NothingIsLost == DirectoriesInv => NothingLostOrDoubled
BY DEF DirectoriesInv, RowsInv, LedgerInv, KeysDone, CreatesApart, VersionsApart, CodesApart,
       UsedTrue, ParentsTrue, Parental, NothingLostOrDoubled

LEMMA RowsInitially == WorkspaceInit => DirectoriesInv
<1> SUFFICES ASSUME WorkspaceInit PROVE DirectoriesInv
  OBVIOUS
<1> DEFINE rows == offered.rows
<1>1. /\ entries = [e \in RowIds |->
                     CASE e = Organization -> Provisioned
                       [] e \in DOMAIN rows -> rows[e]
                       [] OTHER -> NoRow]
      /\ used = {} /\ transactions = {} /\ ledger = {}
  BY DEF WorkspaceInit, RowIds
<1>2. /\ DOMAIN rows \subseteq Entry /\ \A e \in DOMAIN rows : rows[e] \in Row
      /\ Consistent(rows) /\ Organization \notin Entry
  BY WorkspaceAssumption DEF WorkspaceInit
<1> HIDE DEF rows
<1>3. /\ Provisioned \in [directory: {"organization"}, code: {NoCode}, parent: {Nothing},
                          status: {"ACTIVE"}, version: Nat]
      /\ NoRow \in [directory: {"none"}, code: {NoCode}, parent: {Nothing},
                    status: {"ABSENT"}, version: Nat]
  BY DEF Provisioned, NoRow
<1>4. /\ entries[Organization] = Provisioned
      /\ \A e \in DOMAIN rows : entries[e] = rows[e] /\ e \in RowIds
      /\ \A e \in Entry \ DOMAIN rows : entries[e] = NoRow
  BY <1>1, <1>2 DEF RowIds
<1>5. RowsTypeOK
  <2>1. ASSUME NEW e \in RowIds
        PROVE  entries[e] \in [directory: {entries[e].directory}, code: {entries[e].code},
                               parent: {entries[e].parent}, status: {entries[e].status}, version: Nat]
    <3>1. CASE e = Organization \/ e \in Entry \ DOMAIN rows
      BY <1>3, <1>4, <3>1
    <3>2. CASE e \in DOMAIN rows
      BY <1>2, <1>4, <3>2 DEF Row
    <3> QED
      BY <3>1, <3>2 DEF RowIds
  <2>2. \A e \in RowIds : entries[e].status \in Status \cup {"ABSENT", "DELETED"}
    BY <1>2, <1>3, <1>4 DEF RowIds, Row, Status
  <2>3. entries[Organization].directory = "organization"
    BY <1>3, <1>4
  <2> QED
    BY <1>1, <2>1, <2>2, <2>3 DEF RowsTypeOK
<1>6. \A e \in Entry : Live(e) => e \in DOMAIN rows /\ entries[e] = rows[e] /\ rows[e].status \in Status
  BY <1>3, <1>4 DEF Live, Status
<1>7. CodesApart
  BY <1>2, <1>6 DEF Consistent, CodesApart
<1>8. ParentsTrue
  BY <1>2, <1>4, <1>6 DEF Consistent, ParentsTrue, Parental, Live
<1> QED
  BY <1>1, <1>5, <1>7, <1>8
  DEF DirectoriesInv, RowsInv, ChangesInv, LedgerInv, UsedTrue, RowsChecked, RowsApart, StagedRows,
      StagedSeats, KeysApart, KeysDone, CreatesApart, VersionsApart, LedgerTrue

(* What concerns rows alone stays true while the rows stay.                *)
LEMMA RowsUntouched ==
  ASSUME DirectoriesInv, UNCHANGED <<entries, used>>, StagedRows' \subseteq StagedRows
  PROVE  RowsInv' /\ RowsChecked' /\ RowsApart'
<1>1. entries' = entries /\ used' = used
  OBVIOUS
<1>2. RowsInv'
  BY <1>1 DEF DirectoriesInv, RowsInv, RowsTypeOK, CodesApart, UsedTrue, ParentsTrue, Parental, Live
<1>3. \A c, e : /\ RowChecked(c, e) => RowChecked(c, e)'
                /\ IndexOf(c)' = IndexOf(c)
  BY <1>1 DEF RowChecked, CodeFree, ParentOf, IndexOf, Parental, Live
<1>4. RowsChecked' /\ RowsApart'
  BY <1>3 DEF DirectoriesInv, ChangesInv, RowsChecked, RowsApart
<1> QED
  BY <1>2, <1>4

(* The rows stay, whoever is under way still is or gives up, and people's  *)
(* rows change only where no change was staged and none was completed.     *)
LEMMA OthersStep ==
  ASSUME PeopleInv, DirectoriesInv, UNCHANGED <<entries, used, ledger>>,
         transactions' \subseteq transactions,
         \A s \in Seat : seats[s].status # "ABSENT" => seats'[s] = seats[s],
         \A i \in Invitation :
           invitations[i].status # "ABSENT" => invitations'[i].status # "ABSENT"
  PROVE  DirectoriesInv'
<1>1. entries' = entries /\ used' = used /\ ledger' = ledger
  OBVIOUS
<1>2. StagedRows' \subseteq StagedRows
  BY DEF StagedRows
<1>3. RowsInv' /\ RowsChecked' /\ RowsApart'
  BY <1>1, <1>2, RowsUntouched
<1>4. StagedSeats'
  BY DEF DirectoriesInv, ChangesInv, StagedSeats, PeopleInv, StagedMemberships, Staged, Status
<1>5. KeysApart' /\ KeysDone' /\ CreatesApart' /\ VersionsApart'
  BY <1>1 DEF DirectoriesInv, LedgerInv, KeysApart, KeysDone, CreatesApart, VersionsApart
<1>6. LedgerTrue'
  <2> SUFFICES ASSUME NEW done \in ledger PROVE LeftItsMark(done)'
    BY <1>1 DEF LedgerTrue
  <2>1. LeftItsMark(done)
    BY DEF DirectoriesInv, LedgerInv, LedgerTrue
  <2>2. done.command.area = "invitation" => done.new \in Invitation
    BY DEF PeopleInv, TransactionsWellFormed
  <2> QED
    BY <1>1, <2>1, <2>2 DEF LeftItsMark
<1> QED
  BY <1>3, <1>4, <1>5, <1>6 DEF DirectoriesInv, ChangesInv, LedgerInv

(* A command begins with a key of its own.                                 *)
LEMMA KeyAcquired ==
  ASSUME DirectoriesInv, NEW k, NEW c, Begin(k, c) \/ BeginUnkeyed(k, c)
  PROVE  DirectoriesInv'
<1> DEFINE r == [key |-> k, command |-> c, step |-> "OPEN", new |-> Nothing]
<1>1. /\ transactions' = transactions \cup {r}
      /\ UNCHANGED <<directoryVars, peopleVars>> /\ ledger' = ledger
  BY DEF Begin, BeginUnkeyed, Open
<1>2. /\ \A t \in transactions : t.key = k => ~SameScope(t.command, c)
      /\ Keyed(c) => \A done \in ledger : done.key = k => ~SameScope(done.command, c)
  BY DEF Begin, BeginUnkeyed, Acquire
<1>3. r.key = k /\ r.command = c /\ r.step = "OPEN"
  OBVIOUS
<1> HIDE DEF r
<1>4. KeysApart'
  BY <1>1, <1>2, <1>3 DEF DirectoriesInv, LedgerInv, KeysApart, SameScope
<1>5. entries' = entries /\ used' = used /\ seats' = seats /\ invitations' = invitations
  BY <1>1 DEF directoryVars, peopleVars
<1>6. StagedRows' = StagedRows
  BY <1>1, <1>3 DEF StagedRows
<1>7. RowsInv' /\ RowsChecked' /\ RowsApart'
  BY <1>5, <1>6, RowsUntouched
<1>8. StagedSeats'
  BY <1>1, <1>3, <1>5 DEF DirectoriesInv, ChangesInv, StagedSeats, Staged
<1>9. KeysDone' /\ CreatesApart' /\ VersionsApart' /\ LedgerTrue'
  BY <1>1, <1>5
  DEF DirectoriesInv, LedgerInv, KeysDone, CreatesApart, VersionsApart, LedgerTrue, LeftItsMark
<1> QED
  BY <1>4, <1>7, <1>8, <1>9 DEF DirectoriesInv, ChangesInv, LedgerInv

-----------------------------------------------------------------------------
(* Changes of rows are staged.                                             *)

(* What no other transaction has when a row is free.                       *)
LEMMA RowFree ==
  ASSUME NEW c, NEW e, Free(c, e), NEW u \in StagedRows
  PROVE  /\ EntryOf(u) # e
         /\ SetsCode(c) /\ SetsCode(u.command) /\ c.value = u.command.value
              => IndexOf(c) # IndexOf(u.command)
         /\ ~LocksOrganization(u.command)
<1>1. u \in transactions /\ u.step = "STAGED"
  BY DEF StagedRows
<1>2. LocksOfRow(u.command, EntryOf(u)) \subseteq Locked
  <2>1. LocksOfRow(u.command, EntryOf(u)) \subseteq LocksOf(u)
    BY DEF LocksOf
  <2>2. LocksOf(u) \subseteq UNION {LocksOf(t) : t \in transactions}
    BY <1>1
  <2> QED
    BY <2>1, <2>2 DEF Locked
<1>3. LocksOfRow(c, e) \cap LocksOfRow(u.command, EntryOf(u)) = {}
  BY <1>2 DEF Free
<1>4. <<"entry", e>> \in LocksOfRow(c, e) /\ <<"entry", EntryOf(u)>> \in LocksOfRow(u.command, EntryOf(u))
  BY DEF LocksOfRow
<1>5. ASSUME SetsCode(c), SetsCode(u.command), c.value = u.command.value,
             IndexOf(c) = IndexOf(u.command)
      PROVE  FALSE
  <2>1. /\ <<"code", IndexOf(c), c.value>> \in LocksOfRow(c, e)
        /\ <<"code", IndexOf(u.command), u.command.value>> \in LocksOfRow(u.command, EntryOf(u))
    BY <1>5 DEF SetsCode, LocksOfRow
  <2> QED
    BY <1>3, <1>5, <2>1
<1>6. ~LocksOrganization(u.command)
  BY <1>1 DEF Free, OrganizationFree
<1> QED
  BY <1>3, <1>4, <1>5, <1>6

(* What the services do, of any list: they create a row, or change one; a  *)
(* new status is asked for the version, and finds another status.          *)
Creating(t) ==
  LET c == t.command IN
  /\ c.act = "create" /\ Insert(t)
  /\ c.area = "catalog_item" => ParentActive(c, "catalog_category")
  /\ c.area = "cash_register" => ParentActive(c, "branch")

Changing(t) ==
  LET c == t.command IN
  /\ c.act \in {"update", "price", "structural", "status", "timezone", "currency", "delete"}
  /\ Current(c) /\ (SetsCode(c) => CodeFree(c, c.on)) /\ Stage(t, Nothing)
  /\ c.area = "catalog_item" /\ c.act = "update" => ParentActive(c, "catalog_category")
  /\ c.act = "price" => c.area = "catalog_item"
  /\ c.act = "status" /\ c.area = "cash_register" => entries[c.on].status = "ACTIVE"
  /\ c.act = "delete" =>
       \/ c.area \in Referable /\ Unreferenced(t)
       \/ /\ c.area = "catalog_category"
          /\ \A f \in Entry : ~(entries[f].parent = c.on /\ entries[f].status \in Status)

LEMMA ServicesCreateOrChange ==
  ASSUME NEW t, DirectoryService(t)
  PROVE  /\ Creating(t) \/ Changing(t)
         /\ LocksOrganization(t.command) => AloneInOrganization(t)
<1>1. CASE \/ CreateCustomer(t) \/ CreateSupplier(t) \/ CreateExpenseCategory(t)
           \/ CreateCatalogCategory(t) \/ CreateCatalogItem(t) \/ CreateBranch(t)
           \/ CreateRegister(t)
  BY <1>1 DEF CreateCustomer, CreateSupplier, CreateExpenseCategory, CreateCatalogCategory,
       CreateCatalogItem, CreateBranch, CreateRegister, Runs, Reaches, Creating, LocksOrganization
<1>2. CASE \/ UpdateCustomer(t) \/ UpdateSupplier(t) \/ UpdateCatalogCategory(t)
           \/ EditCatalogItem(t) \/ RenameRegister(t) \/ UpdateProfile(t)
  BY <1>2 DEF UpdateCustomer, UpdateSupplier, UpdateCatalogCategory, EditCatalogItem,
       RenameRegister, UpdateProfile, Change, Runs, Reaches, Changing, LocksOrganization
<1>3. CASE \/ ChangeCustomerStatus(t) \/ ChangeSupplierStatus(t) \/ ChangeExpenseCategoryStatus(t)
           \/ ChangeCatalogCategoryStatus(t) \/ ChangeCatalogItemStatus(t)
           \/ DeactivateRegister(t)
  BY <1>3 DEF ChangeCustomerStatus, ChangeSupplierStatus, ChangeExpenseCategoryStatus,
       ChangeCatalogCategoryStatus, ChangeCatalogItemStatus, DeactivateRegister, Change, Runs,
       Reaches, Changing, SetsCode, LocksOrganization
<1>4. CASE \/ DeleteCustomer(t) \/ DeleteSupplier(t) \/ DeleteExpenseCategory(t)
           \/ DeleteCatalogCategory(t) \/ DeleteCatalogItem(t)
  BY <1>4 DEF DeleteCustomer, DeleteSupplier, DeleteExpenseCategory, DeleteCatalogCategory,
       DeleteCatalogItem, Change, Runs, Reaches, Changing, SetsCode, Referable, LocksOrganization
<1>5. CASE \/ SetCatalogPrice(t) \/ ChangeCatalogItemStructure(t) \/ UpdateTimezone(t)
           \/ ChangeCurrency(t)
  BY <1>5 DEF SetCatalogPrice, ChangeCatalogItemStructure, UpdateTimezone, ChangeCurrency, Change,
       Runs, Reaches, Changing, SetsCode, LocksOrganization
<1> QED
  BY <1>1, <1>2, <1>3, <1>4, <1>5 DEF DirectoryService

(* A parent that is shared is ACTIVE.                                      *)
LEMMA ParentFound ==
  ASSUME NEW c, NEW d \in {"catalog_category", "branch"}, ParentActive(c, d), Refers(c),
         ParentOf(c) = c.parent, c.parent \in Entry, c.parent # Nothing
  PROVE  Parental(c.parent)
<1>1. <<"entry", c.parent>> \in SharesOfRow(c)
  BY DEF SharesOfRow
<1> QED
  BY <1>1 DEF ParentActive, Parental, Live, Status

(* What a service has checked when it stages a change of row e.            *)
Stages(t, n, e) ==
  /\ t.step = "OPEN" /\ Stage(t, n)
  /\ e = (IF t.command.act = "create" THEN n ELSE t.command.on)
  /\ Free(t.command, e) /\ RowChecked(t.command, e)

LEMMA RowCreated ==
  ASSUME NEW t, Creating(t), t.step = "OPEN", ParentWellFormed(t.command)
  PROVE  \E n, e : Stages(t, n, e)
<1> DEFINE c == t.command
<1>1. PICK e \in Entry :
        entries[e].status = "ABSENT" /\ Free(c, e) /\ CodeFree(c, e) /\ Stage(t, e)
  BY DEF Creating, Insert
<1>2. c.act = "create"
  BY DEF Creating
<1>3. c.parent # Nothing => Parental(c.parent)
  <2>1. SUFFICES ASSUME c.parent # Nothing PROVE Parental(c.parent)
    OBVIOUS
  <2>2. c.parent \in Entry /\ c.area \in {"catalog_item", "cash_register"}
    BY <2>1 DEF ParentWellFormed
  <2>3. Refers(c) /\ ParentOf(c) = c.parent
    BY <1>2, <2>2 DEF Refers, ParentOf
  <2> QED
    BY <2>1, <2>2, <2>3, ParentFound DEF Creating
<1> HIDE DEF c
<1>4. RowChecked(c, e)
  BY <1>1, <1>2, <1>3 DEF RowChecked
<1> QED
  BY <1>1, <1>2, <1>4 DEF Stages, c

LEMMA RowChanged ==
  ASSUME DirectoriesInv, NEW t, Changing(t), t.step = "OPEN", ParentWellFormed(t.command),
         t.command.act = "status" => t.command.value \in Status
  PROVE  \E n, e : Stages(t, n, e)
<1> DEFINE c == t.command
           e == c.on
<1>1. /\ c.act \in {"update", "price", "structural", "status", "timezone", "currency", "delete"}
      /\ Current(c) /\ (SetsCode(c) => CodeFree(c, e)) /\ Stage(t, Nothing)
      /\ c.act = "price" => c.area = "catalog_item"
      /\ c.act = "status" /\ c.area = "cash_register" => entries[e].status = "ACTIVE"
      /\ c.act = "delete" =>
           \/ c.area \in Referable /\ e \notin used
           \/ /\ c.area = "catalog_category"
              /\ \A f \in Entry : ~(entries[f].parent = e /\ entries[f].status \in Status)
  BY DEF Changing, Unreferenced
<1>2. /\ e \in RowIds /\ Live(e) /\ entries[e].directory = c.area /\ entries[e].version = c.version
      /\ Free(c, e)
  BY <1>1 DEF Current, Live, DirectoriesInv, RowsInv, RowsTypeOK
<1>3. ASSUME SetsParent(c), c.parent # Nothing PROVE Parental(c.parent)
  <2>1. c.act = "update" /\ c.area = "catalog_item" /\ c.parent \in Entry
    BY <1>1, <1>3 DEF SetsParent, ParentWellFormed
  <2>2. ParentActive(c, "catalog_category")
    BY <2>1 DEF Changing
  <2>3. CASE c.parent = entries[e].parent
    <3>1. e \in Entry
      BY <1>2, <2>1 DEF RowIds, DirectoriesInv, RowsInv, RowsTypeOK
    <3> QED
      BY <1>2, <1>3, <2>3, <3>1 DEF DirectoriesInv, RowsInv, ParentsTrue
  <2>4. CASE c.parent # entries[e].parent
    <3>1. Refers(c) /\ ParentOf(c) = c.parent
      BY <2>1, <2>4 DEF Refers, ParentOf
    <3> QED
      BY <1>3, <2>1, <2>2, <3>1, ParentFound
  <2> QED
    BY <2>3, <2>4
<1>4. RowChecked(c, e)
  BY <1>1, <1>2, <1>3 DEF RowChecked, Live
<1> QED
  BY <1>1, <1>2, <1>4 DEF Stages

LEMMA RowStages ==
  ASSUME PeopleInv, DirectoriesInv, NEW t \in transactions, DirectoryService(t)
  PROVE  \E n, e : Stages(t, n, e)
<1>1. WellFormed(t.command) /\ t.step = "OPEN"
  BY DirectoryStages DEF PeopleInv, TransactionsWellFormed
<1> QED
  BY <1>1, ServicesCreateOrChange, RowCreated, RowChanged DEF WellFormed

(* What staging makes of a transaction.                                    *)
LEMMA TransactionStaged ==
  ASSUME PeopleInv, NEW t \in transactions, NEW n, Stage(t, n)
  PROVE  \E s : /\ s.step = "STAGED" /\ s.new = n /\ s.command = t.command /\ s.key = t.key
                /\ transactions' = (transactions \ {t}) \cup {s}
                /\ UNCHANGED <<entries, used, seats, invitations, ledger>>
<1> DEFINE s == [t EXCEPT !.step = "STAGED", !.new = n]
<1>1. t \in [key: {t.key}, command: {t.command}, step: {"OPEN", "STAGED"}, new: {t.new}]
  BY DEF PeopleInv, TransactionsWellFormed
<1>2. s.step = "STAGED" /\ s.new = n /\ s.command = t.command /\ s.key = t.key
  BY <1>1
<1>3. /\ transactions' = (transactions \ {t}) \cup {s}
      /\ UNCHANGED <<entries, used, seats, invitations, ledger>>
  BY DEF Stage, directoryVars, peopleVars
<1> QED
  BY <1>2, <1>3

(* What every staging keeps.                                               *)
LEMMA StagingKeeps ==
  ASSUME PeopleInv, DirectoriesInv, NEW t \in transactions, NEW s,
         s.command = t.command, s.key = t.key,
         transactions' = (transactions \ {t}) \cup {s},
         UNCHANGED <<entries, used, seats, invitations, ledger>>
  PROVE  /\ RowsInv' /\ LedgerInv'
         /\ \A c, e : /\ RowChecked(c, e) => RowChecked(c, e)'
                      /\ IndexOf(c)' = IndexOf(c)
<1>1. entries' = entries /\ used' = used /\ ledger' = ledger /\ seats' = seats
      /\ invitations' = invitations
  OBVIOUS
<1>2. RowsInv'
  BY <1>1 DEF DirectoriesInv, RowsInv, RowsTypeOK, CodesApart, UsedTrue, ParentsTrue, Parental, Live
<1>3. \A c, e : /\ RowChecked(c, e) => RowChecked(c, e)'
                /\ IndexOf(c)' = IndexOf(c)
  BY <1>1 DEF RowChecked, CodeFree, ParentOf, IndexOf, Parental, Live
<1>4. KeysApart'
  BY <1>1 DEF DirectoriesInv, LedgerInv, KeysApart
<1>5. KeysDone' /\ CreatesApart' /\ VersionsApart' /\ LedgerTrue'
  BY <1>1
  DEF DirectoriesInv, LedgerInv, KeysDone, CreatesApart, VersionsApart, LedgerTrue, LeftItsMark
<1> QED
  BY <1>2, <1>3, <1>4, <1>5 DEF LedgerInv

LEMMA RowStagedKeeps ==
  ASSUME PeopleInv, DirectoriesInv, NEW t \in transactions, DirectoryService(t)
  PROVE  DirectoriesInv'
<1>1. PICK n, e : Stages(t, n, e)
  BY RowStages
<1>2. PICK s :
        /\ s.step = "STAGED" /\ s.new = n /\ s.command = t.command /\ s.key = t.key
        /\ transactions' = (transactions \ {t}) \cup {s}
        /\ UNCHANGED <<entries, used, seats, invitations, ledger>>
  BY <1>1, TransactionStaged DEF Stages
<1>3. /\ RowsInv' /\ LedgerInv'
      /\ \A c, f : /\ RowChecked(c, f) => RowChecked(c, f)'
                   /\ IndexOf(c)' = IndexOf(c)
  BY <1>2, StagingKeeps
<1>4. EntryOf(s) = e /\ s.command.area \in Directory /\ t.step = "OPEN"
  BY <1>1, <1>2, DirectoryStages DEF Stages, EntryOf
<1>5. StagedRows' = StagedRows \cup {s}
  BY <1>2, <1>4 DEF StagedRows
<1>6. RowsChecked'
  BY <1>1, <1>2, <1>3, <1>4, <1>5 DEF RowsChecked, DirectoriesInv, ChangesInv, Stages
<1>7. ASSUME NEW u \in StagedRows
      PROVE  /\ EntryOf(u) # EntryOf(s)
             /\ SetsCode(s.command) /\ SetsCode(u.command) /\ s.command.value = u.command.value
                  => IndexOf(s.command) # IndexOf(u.command)
             /\ ~LocksOrganization(u.command)
  BY <1>1, <1>2, <1>4, RowFree DEF Stages
<1>8. LocksOrganization(s.command) => StagedRows = {}
  <2>1. LocksOrganization(s.command) => AloneInOrganization(t)
    BY <1>2, ServicesCreateOrChange
  <2> QED
    BY <1>4, <2>1 DEF AloneInOrganization, StagedRows
<1>9. RowsApart'
  BY <1>3, <1>5, <1>7, <1>8 DEF RowsApart, DirectoriesInv, ChangesInv
<1>10. StagedSeats'
  BY <1>2, <1>4 DEF StagedSeats, DirectoriesInv, ChangesInv, Staged, Directory
<1> QED
  BY <1>3, <1>6, <1>9, <1>10 DEF DirectoriesInv, ChangesInv

(* Changes of people are staged.                                           *)
LEMMA PeopleStagedKeeps ==
  ASSUME PeopleInv, DirectoriesInv, NEW t \in transactions, MembershipService(t)
  PROVE  DirectoriesInv'
<1>1. /\ t.step = "OPEN" /\ t.command.area \in {"membership", "invitation"}
      /\ \E n : Stage(t, n)
      /\ t.command.area = "membership" => seats[t.command.on].version = t.command.version
  BY DEF MembershipService, ChangeRole, Revoke, SetStatus, CreateInvitation, Resend,
         RevokeInvitation, Runs, Reaches, Administers
<1>2. PICK n, s :
        /\ s.step = "STAGED" /\ s.new = n /\ s.command = t.command /\ s.key = t.key
        /\ transactions' = (transactions \ {t}) \cup {s}
        /\ UNCHANGED <<entries, used, seats, invitations, ledger>>
  BY <1>1, TransactionStaged
<1>3. /\ RowsInv' /\ LedgerInv'
      /\ \A c, f : /\ RowChecked(c, f) => RowChecked(c, f)'
                   /\ IndexOf(c)' = IndexOf(c)
  BY <1>2, StagingKeeps
<1>4. StagedRows' = StagedRows
  BY <1>1, <1>2 DEF StagedRows, Directory
<1>5. RowsChecked' /\ RowsApart'
  BY <1>3, <1>4 DEF RowsChecked, RowsApart, DirectoriesInv, ChangesInv
<1>6. StagedSeats'
  BY <1>1, <1>2 DEF StagedSeats, DirectoriesInv, ChangesInv, Staged
<1> QED
  BY <1>3, <1>5, <1>6 DEF DirectoriesInv, ChangesInv

-----------------------------------------------------------------------------
(* Commits.                                                                *)
LEMMA KeysCommitted ==
  ASSUME DirectoriesInv, NEW t \in transactions, Commit(t)
  PROVE  KeysApart' /\ KeysDone'
<1>1. /\ transactions' = transactions \ {t} /\ ledger' = ledger \cup {Record(t)}
      /\ Record(t).key = t.key /\ Record(t).command = t.command
  BY DEF Commit, Record
<1>2. \A c, d : SameScope(c, d) => (SameScope(d, c) /\ (Keyed(c) <=> Keyed(d)))
  BY DEF SameScope, Keyed
<1>3. \A u \in transactions : u.key = t.key /\ SameScope(u.command, t.command) => u = t
  BY DEF DirectoriesInv, LedgerInv, KeysApart
<1>4. \A done \in ledger : Keyed(t.command) /\ done.key = t.key =>
                             ~SameScope(t.command, done.command)
  BY DEF DirectoriesInv, LedgerInv, KeysApart
<1> HIDE DEF Record
<1>5. KeysApart'
  BY <1>1, <1>3 DEF DirectoriesInv, LedgerInv, KeysApart
<1>6. KeysDone'
  BY <1>1, <1>2, <1>4 DEF DirectoriesInv, LedgerInv, KeysDone
<1> QED
  BY <1>5, <1>6

(* The row a change leaves behind.                                         *)
Changed(c, old, r) ==
  /\ r \in [directory: {r.directory}, code: {r.code}, parent: {r.parent}, status: {r.status},
            version: Nat]
  /\ IF c.act = "create"
     THEN r.directory = c.area /\ r.code = c.value /\ r.parent = c.parent /\ r.status = "ACTIVE"
     ELSE /\ r.directory = old.directory
          /\ r.code = IF c.act = "update" /\ c.value # Nothing THEN c.value ELSE old.code
          /\ r.parent = IF SetsParent(c) THEN c.parent ELSE old.parent
          /\ IF c.act = "delete"
             THEN r.status = "DELETED" /\ r.version = old.version
             ELSE /\ r.status = (IF c.act = "status" THEN c.value ELSE old.status)
                  /\ r.version = old.version + 1

LEMMA RowRewritten ==
  ASSUME NEW D, NEW C, NEW P, NEW S,
         NEW old \in [directory: D, code: C, parent: P, status: S, version: Nat],
         NEW x \in C, NEW y \in P, NEW n \in Nat, NEW r,
         r = [old EXCEPT !.code = x, !.parent = y, !.version = n]
  PROVE  /\ r \in [directory: D, code: C, parent: P, status: S, version: Nat]
         /\ r.directory = old.directory /\ r.code = x /\ r.parent = y
         /\ r.status = old.status /\ r.version = n
OBVIOUS

LEMMA RowSwitched ==
  ASSUME NEW D, NEW C, NEW P, NEW S,
         NEW old \in [directory: D, code: C, parent: P, status: S, version: Nat],
         NEW z \in S, NEW n \in Nat, NEW r,
         r = [old EXCEPT !.status = z, !.version = n]
  PROVE  /\ r \in [directory: D, code: C, parent: P, status: S, version: Nat]
         /\ r.directory = old.directory /\ r.code = old.code /\ r.parent = old.parent
         /\ r.status = z /\ r.version = n
OBVIOUS

LEMMA RowAfterChanged ==
  ASSUME NEW c, NEW old,
         old \in [directory: {old.directory}, code: {old.code}, parent: {old.parent},
                 status: {old.status}, version: Nat],
         c.act \in {"create", "update", "price", "structural", "status", "timezone", "currency",
                    "delete"}
  PROVE  Changed(c, old, RowAfter(c, old))
<1> DEFINE r == RowAfter(c, old)
<1>1. CASE c.act = "create"
  <2>1. r = [directory |-> c.area, code |-> c.value, parent |-> c.parent, status |-> "ACTIVE",
             version |-> 1]
    BY <1>1 DEF RowAfter
  <2> HIDE DEF r
  <2>2. Changed(c, old, r)
    BY <1>1, <2>1 DEF Changed
  <2> QED
    BY <2>2 DEF r
<1>2. CASE c.act = "update"
  <2>1. PICK x, y :
          /\ x = (IF c.value = Nothing THEN old.code ELSE c.value)
          /\ y = (IF c.area = "catalog_item" THEN c.parent ELSE old.parent)
          /\ r = [old EXCEPT !.code = x, !.parent = y, !.version = old.version + 1]
    BY <1>2 DEF RowAfter
  <2> HIDE DEF r
  <2>2. /\ r \in [directory: {old.directory}, code: {old.code, x}, parent: {old.parent, y},
                  status: {old.status}, version: Nat]
        /\ r.directory = old.directory /\ r.code = x /\ r.parent = y
        /\ r.status = old.status /\ r.version = old.version + 1
    <3>1. /\ old \in [directory: {old.directory}, code: {old.code, x}, parent: {old.parent, y},
                      status: {old.status}, version: Nat]
          /\ x \in {old.code, x} /\ y \in {old.parent, y} /\ old.version + 1 \in Nat
      OBVIOUS
    <3> QED
      BY <2>1, <3>1, RowRewritten
  <2>3. r \in [directory: {r.directory}, code: {r.code}, parent: {r.parent},
               status: {r.status}, version: Nat]
    BY <2>2
  <2>4. Changed(c, old, r)
    BY <1>2, <2>1, <2>2, <2>3 DEF Changed, SetsParent
  <2> QED
    BY <2>4 DEF r
<1>3. CASE c.act = "status"
  <2>1. r = [old EXCEPT !.status = c.value, !.version = old.version + 1]
    BY <1>3 DEF RowAfter
  <2> HIDE DEF r
  <2>2. /\ r \in [directory: {old.directory}, code: {old.code}, parent: {old.parent},
                  status: {old.status, c.value}, version: Nat]
        /\ r.directory = old.directory /\ r.code = old.code /\ r.parent = old.parent
        /\ r.status = c.value /\ r.version = old.version + 1
    <3>1. /\ old \in [directory: {old.directory}, code: {old.code}, parent: {old.parent},
                      status: {old.status, c.value}, version: Nat]
          /\ c.value \in {old.status, c.value} /\ old.version + 1 \in Nat
      OBVIOUS
    <3> QED
      BY <2>1, <3>1, RowSwitched
  <2>3. r \in [directory: {r.directory}, code: {r.code}, parent: {r.parent},
               status: {r.status}, version: Nat]
    BY <2>2
  <2>4. Changed(c, old, r)
    BY <1>3, <2>2, <2>3 DEF Changed, SetsParent
  <2> QED
    BY <2>4 DEF r
<1>4. CASE c.act \in {"price", "structural", "timezone", "currency"}
  <2>1. r = [old EXCEPT !.version = old.version + 1]
    BY <1>4 DEF RowAfter
  <2> HIDE DEF r
  <2>2. Changed(c, old, r)
    BY <1>4, <2>1 DEF Changed, SetsParent
  <2> QED
    BY <2>2 DEF r
<1>5. CASE c.act = "delete"
  <2>1. r = [old EXCEPT !.status = "DELETED"]
    BY <1>5 DEF RowAfter
  <2> HIDE DEF r
  <2>2. Changed(c, old, r)
    BY <1>5, <2>1 DEF Changed, SetsParent
  <2> QED
    BY <2>2 DEF r
<1> QED
  BY <1>1, <1>2, <1>3, <1>4, <1>5

(* What the commit of a row does: only its row changes, in the way its     *)
(* command says, and a price refers to it.                                 *)
RowCommits(t, e) ==
  LET c == t.command IN
  /\ t \in StagedRows /\ e = EntryOf(t) /\ e \in RowIds
  /\ c.act = "status" => c.value \in Status
  /\ RowChecked(c, e)
  /\ Changed(c, entries[e], entries'[e])
  /\ entries' = [f \in RowIds |-> entries'[f]]
  /\ \A f \in RowIds \ {e} : entries'[f] = entries[f]
  /\ used' = used \/ (c.act = "price" /\ used' = used \cup {e})
  /\ \A u \in StagedRows : u # t =>
       /\ EntryOf(u) # e
       /\ SetsCode(c) /\ SetsCode(u.command) /\ c.value = u.command.value
            => IndexOf(c) # IndexOf(u.command)
       /\ ~LocksOrganization(c) /\ ~LocksOrganization(u.command)

LEMMA EntryCommits ==
  ASSUME PeopleInv, DirectoriesInv, NEW t \in transactions, Commit(t), CommitEntry(t)
  PROVE  RowCommits(t, EntryOf(t))
<1> DEFINE c == t.command
           e == EntryOf(t)
<1>1. /\ t \in StagedRows
      /\ entries' = [entries EXCEPT ![e] = RowAfter(c, entries[e])]
      /\ used' = IF c.act = "price" THEN used \cup {c.on} ELSE used
  BY DEF Commit, CommitEntry, StagedRows
<1>2. RowChecked(c, e) /\ (c.act = "status" => c.value \in Status)
  BY <1>1 DEF DirectoriesInv, ChangesInv, RowsChecked, PeopleInv, TransactionsWellFormed, WellFormed
<1>3. e \in RowIds /\ (c.act = "price" => c.on = e)
  BY <1>2 DEF RowChecked, RowIds, EntryOf
<1> HIDE DEF e
<1>4. /\ entries = [f \in RowIds |-> entries[f]]
      /\ entries[e] \in [directory: {entries[e].directory}, code: {entries[e].code},
                         parent: {entries[e].parent}, status: {entries[e].status}, version: Nat]
  BY <1>3 DEF DirectoriesInv, RowsInv, RowsTypeOK
<1>5. /\ entries'[e] = RowAfter(c, entries[e])
      /\ entries' = [f \in RowIds |-> entries'[f]]
      /\ \A f \in RowIds \ {e} : entries'[f] = entries[f]
  <2>1. DOMAIN entries = RowIds
    BY <1>4
  <2> QED
    BY <1>1, <1>3, <2>1
<1>6. Changed(c, entries[e], entries'[e])
  BY <1>2, <1>4, <1>5, RowAfterChanged DEF RowChecked
<1>7. \A u \in StagedRows : u # t =>
        /\ EntryOf(u) # e
        /\ SetsCode(c) /\ SetsCode(u.command) /\ c.value = u.command.value
             => IndexOf(c) # IndexOf(u.command)
        /\ ~LocksOrganization(c) /\ ~LocksOrganization(u.command)
  BY <1>1 DEF DirectoriesInv, ChangesInv, RowsApart, e
<1> QED
  BY <1>1, <1>2, <1>3, <1>5, <1>6, <1>7 DEF RowCommits, e

(* A row that was there is still there, unless it is deleted.              *)
LEMMA StillLive ==
  ASSUME NEW t, NEW e, RowCommits(t, e), NEW f \in RowIds, Live(f)
  PROVE  /\ entries'[f].directory = entries[f].directory
         /\ Live(f)' \/ (f = e /\ t.command.act = "delete")
<1>1. CASE f # e
  BY <1>1 DEF RowCommits, Live
<1>2. CASE f = e
  <2>1. t.command.act # "create"
    BY <1>2 DEF RowCommits, RowChecked, Live, Status
  <2> QED
    BY <1>2, <2>1 DEF RowCommits, Changed, Live
<1> QED
  BY <1>1, <1>2

LEMMA ParentalStays ==
  ASSUME NEW t, NEW e, RowCommits(t, e), NEW p, Parental(p)
  PROVE  Parental(p)' \/ (p = e /\ t.command.act = "delete" /\ t.command.area = "catalog_category")
<1>1. p \in RowIds /\ Live(p)
  BY DEF Parental, RowIds
<1>2. CASE p = e /\ t.command.act = "delete"
  <2>1. entries[e].directory = t.command.area
    BY <1>2 DEF RowCommits, RowChecked
  <2> QED
    BY <1>2, <2>1 DEF RowCommits, RowChecked, Parental, Referable
<1>3. CASE ~(p = e /\ t.command.act = "delete")
  BY <1>1, <1>3, StillLive DEF Parental
<1> QED
  BY <1>2, <1>3

LEMMA RowsCommitted ==
  ASSUME DirectoriesInv, NEW t, NEW e, RowCommits(t, e)
  PROVE  RowsInv'
<1> DEFINE c == t.command
<1>1. RowsTypeOK'
  <2>1. ASSUME NEW f \in RowIds
        PROVE  entries'[f] \in [directory: {entries'[f].directory}, code: {entries'[f].code},
                                parent: {entries'[f].parent}, status: {entries'[f].status},
                                version: Nat]
    <3>1. CASE f = e
      BY <3>1 DEF RowCommits, Changed
    <3>2. CASE f # e
      BY <2>1, <3>2 DEF RowCommits, DirectoriesInv, RowsInv, RowsTypeOK
    <3> QED
      BY <3>1, <3>2
  <2>2. entries'[Organization].directory = "organization"
    <3>1. CASE Organization = e
      <4>1. c.act # "create"
        BY <3>1, WorkspaceAssumption DEF RowCommits, RowChecked
      <4> QED
        BY <3>1, <4>1 DEF RowCommits, Changed, DirectoriesInv, RowsInv, RowsTypeOK
    <3>2. CASE Organization # e
      BY <3>2 DEF RowCommits, RowIds, DirectoriesInv, RowsInv, RowsTypeOK
    <3> QED
      BY <3>1, <3>2
  <2>3. entries' = [f \in RowIds |-> entries'[f]]
    BY DEF RowCommits
  <2>4. ASSUME NEW f \in RowIds PROVE entries'[f].status \in Status \cup {"ABSENT", "DELETED"}
    <3>1. CASE f = e
      BY <3>1 DEF RowCommits, Changed, DirectoriesInv, RowsInv, RowsTypeOK, Status
    <3>2. CASE f # e
      BY <3>2 DEF RowCommits, DirectoriesInv, RowsInv, RowsTypeOK
    <3> QED
      BY <3>1, <3>2
  <2> QED
    BY <2>1, <2>2, <2>3, <2>4 DEF RowsTypeOK
<1>2. CodesApart'
  <2>1. ASSUME NEW f \in Entry, f # e, e \in Entry, Live(f), Live(e)',
               entries'[e].code \in Code, entries'[e].code = entries[f].code,
               entries'[e].directory = entries[f].directory,
               entries'[e].directory = "cash_register" => entries'[e].parent = entries[f].parent
        PROVE  FALSE
    <3>1. CASE c.act = "create" \/ (c.act = "update" /\ c.value # Nothing)
      <4>1. /\ entries'[e].code = c.value /\ entries'[e].directory = c.area
            /\ SetsCode(c)
        BY <2>1, <3>1 DEF RowCommits, RowChecked, Changed, SetsCode
      <4>2. c.area = "cash_register" => entries'[e].parent = ParentOf(c)
        BY <3>1 DEF RowCommits, RowChecked, Changed, SetsParent, ParentOf, EntryOf
      <4>3. CodeFree(c, e)
        BY <4>1 DEF RowCommits, RowChecked
      <4> QED
        BY <2>1, <4>1, <4>2, <4>3 DEF CodeFree, Live
    <3>2. CASE ~(c.act = "create" \/ (c.act = "update" /\ c.value # Nothing))
      <4>1. /\ Live(e) /\ entries'[e].code = entries[e].code
            /\ entries'[e].directory = entries[e].directory
            /\ entries[e].directory = c.area
            /\ c.area = "cash_register" => entries'[e].parent = entries[e].parent
        BY <3>2 DEF RowCommits, RowChecked, Changed, SetsParent
      <4> QED
        BY <2>1, <4>1 DEF DirectoriesInv, RowsInv, CodesApart
    <3> QED
      BY <3>1, <3>2
  <2>2. \A f \in Entry : f # e => entries'[f] = entries[f] /\ (Live(f)' <=> Live(f))
    BY DEF RowCommits, RowIds, Live
  <2>3. ASSUME NEW f \in Entry, NEW g \in Entry, f # g, Live(f)', Live(g)',
               entries'[f].code \in Code, entries'[f].code = entries'[g].code,
               entries'[f].directory = entries'[g].directory,
               entries'[f].directory = "cash_register" => entries'[f].parent = entries'[g].parent
        PROVE  FALSE
    <3>1. CASE f = e
      BY <2>1, <2>2, <2>3, <3>1
    <3>2. CASE g = e
      BY <2>1, <2>2, <2>3, <3>2
    <3>3. CASE f # e /\ g # e
      BY <2>2, <2>3, <3>3 DEF DirectoriesInv, RowsInv, CodesApart
    <3> QED
      BY <3>1, <3>2, <3>3
  <2> QED
    BY <2>3 DEF CodesApart
<1>3. UsedTrue'
  <2> SUFFICES ASSUME NEW x \in used' PROVE x \in RowIds /\ Live(x)' /\ entries'[x].directory \in Referable
    BY DEF UsedTrue
  <2>1. CASE x \in used
    <3>1. x \in RowIds /\ Live(x) /\ entries[x].directory \in Referable
      BY <2>1 DEF DirectoriesInv, RowsInv, UsedTrue
    <3>2. ~(x = e /\ c.act = "delete")
      BY <2>1, <3>1 DEF RowCommits, RowChecked, Referable
    <3> QED
      BY <3>1, <3>2, StillLive
  <2>2. CASE x \notin used
    <3>1. x = e /\ c.act = "price"
      BY <2>2 DEF RowCommits
    <3>2. x \in RowIds /\ Live(x) /\ entries[x].directory \in Referable
      BY <3>1 DEF RowCommits, RowChecked, Referable
    <3> QED
      BY <3>1, <3>2, StillLive
  <2> QED
    BY <2>1, <2>2
<1>4. ParentsTrue'
  <2>1. ASSUME NEW f \in Entry, NEW p, Live(f)', entries'[f].parent = p, p # Nothing
        PROVE  Parental(p)'
    <3>1. CASE f # e
      <4>1. entries'[f] = entries[f] /\ Live(f) /\ Parental(p)
        BY <2>1, <3>1 DEF RowCommits, RowIds, Live, DirectoriesInv, RowsInv, ParentsTrue
      <4>2. ~(p = e /\ c.act = "delete" /\ c.area = "catalog_category")
        BY <2>1, <4>1 DEF RowCommits, RowChecked, Referable
      <4> QED
        BY <4>1, <4>2, ParentalStays
    <3>2. CASE f = e
      <4>1. c.act # "delete"
        BY <2>1, <3>2 DEF RowCommits, RowChecked, Changed, Live, Status
      <4>2. Parental(p)
        <5>1. CASE SetsParent(c)
          BY <2>1, <3>2, <5>1 DEF RowCommits, RowChecked, Changed
        <5>2. CASE ~SetsParent(c)
          BY <2>1, <3>2, <5>2
          DEF RowCommits, RowChecked, Changed, SetsParent, DirectoriesInv, RowsInv, ParentsTrue
        <5> QED
          BY <5>1, <5>2
      <4> QED
        BY <4>1, <4>2, ParentalStays
    <3> QED
      BY <3>1, <3>2
  <2> SUFFICES ASSUME NEW f \in Entry, Live(f)', entries'[f].parent # Nothing
               PROVE  (Parental(entries[f].parent))'
    BY DEF ParentsTrue
  <2>2. PICK p : p = entries'[f].parent
    OBVIOUS
  <2>3. Parental(p)'
    BY <2>1, <2>2
  <2> QED
    BY <2>2, <2>3 DEF Parental, Live
<1> QED
  BY <1>1, <1>2, <1>3, <1>4 DEF RowsInv

(* What the others have checked is not disturbed: they have other rows,    *)
(* and other codes.                                                        *)
LEMMA OthersUndisturbed ==
  ASSUME DirectoriesInv, NEW t, NEW e, RowCommits(t, e), NEW u \in StagedRows, u # t
  PROVE  RowChecked(u.command, EntryOf(u))' /\ IndexOf(u.command)' = IndexOf(u.command)
<1> DEFINE c == t.command
           d == u.command
           f == EntryOf(u)
<1>1. RowChecked(d, f) /\ f \in RowIds /\ f # e
  BY DEF DirectoriesInv, ChangesInv, RowsChecked, RowCommits, RowChecked, RowIds
<1>2. entries'[f] = entries[f] /\ EntryOf(u)' = f
  BY <1>1 DEF RowCommits, EntryOf
<1>3. ParentOf(d)' = ParentOf(d) /\ IndexOf(d)' = IndexOf(d)
  <2>1. d.act # "create" => f = d.on
    BY DEF EntryOf
  <2> QED
    BY <1>2, <2>1 DEF ParentOf, IndexOf
<1>4. ~LocksOrganization(c) /\ ~LocksOrganization(d)
  BY DEF RowCommits
<1> HIDE DEF f
<1>5. IF d.act = "create"
      THEN f \in Entry /\ entries'[f].status = "ABSENT"
      ELSE /\ f \in RowIds /\ Live(f)'
           /\ entries'[f].directory = d.area /\ entries'[f].version = d.version
  BY <1>1, <1>2 DEF RowChecked, Live
<1>6. ASSUME SetsCode(d), NEW other \in Entry \ {f},
             entries'[other].directory = d.area, entries'[other].code = d.value,
             d.area = "cash_register" => entries'[other].parent = ParentOf(d),
             entries'[other].status \in Status
      PROVE  FALSE
  <2>1. CodeFree(d, f) /\ d.value \in Code
    BY <1>1, <1>6 DEF RowChecked, SetsCode
  <2>2. CASE other # e
    BY <1>6, <2>1, <2>2 DEF RowCommits, RowIds, CodeFree
  <2>3. CASE other = e
    <3>1. CASE c.act = "create" \/ (c.act = "update" /\ c.value # Nothing)
      <4>1. c.value = d.value /\ c.area = d.area /\ SetsCode(c)
        BY <1>6, <2>1, <2>3, <3>1 DEF RowCommits, RowChecked, Changed, SetsCode
      <4>2. c.area = "cash_register" => ParentOf(c) = ParentOf(d)
        BY <1>6, <2>3, <3>1, <4>1
        DEF RowCommits, RowChecked, Changed, SetsParent, ParentOf, EntryOf
      <4>3. IndexOf(c) = IndexOf(d)
        BY <4>1, <4>2 DEF IndexOf
      <4> QED
        BY <1>6, <4>1, <4>3 DEF RowCommits
    <3>2. CASE ~(c.act = "create" \/ (c.act = "update" /\ c.value # Nothing))
      <4>1. /\ Live(e) /\ entries'[e].code = entries[e].code
            /\ entries'[e].directory = entries[e].directory
            /\ entries[e].directory = c.area
            /\ c.area = "cash_register" => entries'[e].parent = entries[e].parent
        BY <3>2 DEF RowCommits, RowChecked, Changed, SetsParent
      <4> QED
        BY <1>6, <2>1, <2>3, <4>1 DEF CodeFree, Live
    <3> QED
      BY <3>1, <3>2
  <2> QED
    BY <2>2, <2>3
<1>7. SetsCode(d) => CodeFree(d, f)'
  BY <1>3, <1>6 DEF CodeFree
<1>8. SetsParent(d) /\ d.parent # Nothing => Parental(d.parent)'
  <2>1. ~(c.act = "delete" /\ c.area = "catalog_category")
    BY <1>4 DEF LocksOrganization
  <2>2. PICK p : p = d.parent
    OBVIOUS
  <2>3. Parental(p) => Parental(p)'
    BY <2>1, ParentalStays
  <2> QED
    BY <1>1, <2>2, <2>3 DEF RowChecked
<1>9. d.act = "delete" => d.area \in Referable /\ f \notin used'
  <2>1. ~(d.act = "delete" /\ d.area = "catalog_category")
    BY <1>4 DEF LocksOrganization
  <2> QED
    BY <1>1, <2>1 DEF RowChecked, RowCommits
<1>10. RowChecked(d, f)'
  BY <1>1, <1>2, <1>5, <1>7, <1>8, <1>9 DEF RowChecked
<1> QED
  BY <1>2, <1>3, <1>10

LEMMA EntryChangesKept ==
  ASSUME DirectoriesInv, NEW t \in transactions, NEW e, RowCommits(t, e),
         transactions' = transactions \ {t}, seats' = seats
  PROVE  ChangesInv'
<1>1. StagedRows' = StagedRows \ {t}
  BY DEF StagedRows
<1>2. RowsChecked' /\ RowsApart'
  <2>1. ASSUME NEW u \in StagedRows'
        PROVE  RowChecked(u.command, EntryOf(u))'
    BY <1>1, <2>1, OthersUndisturbed
  <2>2. ASSUME NEW u \in StagedRows', NEW v \in StagedRows', u # v
        PROVE  /\ EntryOf(u) # EntryOf(v)
               /\ SetsCode(u.command) /\ SetsCode(v.command) /\ u.command.value = v.command.value
                    => IndexOf(u.command)' # IndexOf(v.command)'
               /\ ~LocksOrganization(u.command)
    BY <1>1, <2>2, OthersUndisturbed DEF DirectoriesInv, ChangesInv, RowsApart
  <2> QED
    BY <2>1, <2>2 DEF RowsChecked, RowsApart, EntryOf, SetsCode, LocksOrganization
<1>3. StagedSeats'
  BY DEF DirectoriesInv, ChangesInv, StagedSeats, Staged
<1> QED
  BY <1>2, <1>3 DEF ChangesInv

LEMMA EntryLedgerKept ==
  ASSUME PeopleInv, DirectoriesInv, NEW t \in transactions, NEW e, RowCommits(t, e), Commit(t),
         seats' = seats, invitations' = invitations
  PROVE  LedgerInv'
<1> DEFINE c == t.command
           r == Record(t)
<1>1. /\ ledger' = ledger \cup {r}
      /\ r.command = c /\ r.new = t.new
  BY DEF Commit, Record
<1> HIDE DEF r
<1>2. KeysApart' /\ KeysDone'
  BY KeysCommitted
<1>3. c.area \in Directory /\ RowChecked(c, e) /\ Changed(c, entries[e], entries'[e])
      /\ e = (IF c.act = "create" THEN t.new ELSE c.on)
      /\ entries[e].version \in Nat
  BY DEF RowCommits, StagedRows, EntryOf, DirectoriesInv, RowsInv, RowsTypeOK
<1>4. ASSUME NEW done \in ledger PROVE LeftItsMark(done)
  BY DEF DirectoriesInv, LedgerInv, LedgerTrue
<1>5. "membership" \notin Directory /\ "invitation" \notin Directory
  BY DEF Directory
<1>6. CreatesApart'
  <2> SUFFICES ASSUME NEW done \in ledger, Creates(done), Creates(r), done.new = r.new PROVE FALSE
    BY <1>1 DEF CreatesApart, DirectoriesInv, LedgerInv, Creates
  <2>1. t.new \in Entry /\ entries[t.new].status = "ABSENT"
    BY <1>1, <1>3 DEF RowChecked, Creates
  <2>2. done.command.area = "invitation" => done.new \in Invitation
    BY DEF PeopleInv, TransactionsWellFormed
  <2>3. Invitation \cap Entry = {}
    BY WorkspaceAssumption
  <2> QED
    BY <1>1, <1>4, <2>1, <2>2, <2>3 DEF LeftItsMark, Creates
<1>7. VersionsApart'
  <2> SUFFICES ASSUME NEW done \in ledger, Versioned(done), Versioned(r),
                      done.command.on = c.on, done.command.version = c.version
               PROVE  FALSE
    BY <1>1 DEF VersionsApart, DirectoriesInv, LedgerInv, Versioned
  <2>1. /\ c.act # "create" /\ e = c.on /\ e \in RowIds /\ Live(e)
        /\ entries[e].version = c.version
    BY <1>1, <1>3, <1>5 DEF RowChecked, Versioned
  <2>2. Seat \cap RowIds = {}
    BY WorkspaceAssumption DEF Seat, RowIds
  <2>3. done.command.area \in Directory /\ done.command.act # "create"
    BY <1>4, <2>1, <2>2 DEF LeftItsMark, Versioned
  <2>4. done.command.version < entries[e].version
    BY <1>4, <2>1, <2>3 DEF LeftItsMark, Live, Status
  <2> QED
    BY <1>3, <2>1, <2>4
<1>8. \A f \in RowIds : entries[f].status # "ABSENT" =>
        /\ entries'[f].status # "ABSENT" /\ entries'[f].directory = entries[f].directory
        /\ entries[f].status = "DELETED" => entries'[f].status = "DELETED"
        /\ entries'[f].status = "DELETED" \/ entries'[f].version >= entries[f].version
  <2>1. ASSUME NEW f \in RowIds, f # e PROVE entries'[f] = entries[f] /\ entries[f].version \in Nat
    BY <2>1 DEF RowCommits, DirectoriesInv, RowsInv, RowsTypeOK
  <2>2. entries[e].status # "ABSENT" =>
          /\ Live(e) /\ (entries'[e].status = "DELETED" \/ Live(e)')
          /\ entries'[e].directory = entries[e].directory
          /\ entries'[e].status = "DELETED" \/ entries'[e].version >= entries[e].version
    <3>1. /\ RowChecked(c, e) /\ Changed(c, entries[e], entries'[e])
          /\ c.act = "status" => c.value \in Status
      BY DEF RowCommits
    <3> HIDE DEF c
    <3>2. entries[e].status # "ABSENT" => c.act # "create" /\ Live(e)
      BY <3>1 DEF RowChecked
    <3>3. c.act # "create" =>
            /\ entries'[e].directory = entries[e].directory
            /\ \/ entries'[e].status = "DELETED"
               \/ /\ entries'[e].status = (IF c.act = "status" THEN c.value ELSE entries[e].status)
                  /\ entries'[e].version = entries[e].version + 1
      BY <3>1 DEF Changed
    <3>4. entries[e].version \in Nat
      BY DEF RowCommits, DirectoriesInv, RowsInv, RowsTypeOK
    <3> QED
      BY <3>1, <3>2, <3>3, <3>4 DEF Live, Status
  <2> QED
    BY <2>1, <2>2 DEF Live, Status
<1>9. ASSUME NEW done \in ledger PROVE LeftItsMark(done)'
  <2>1. \A f \in RowIds : entries[f].version \in Nat /\ entries'[f].version \in Nat
    BY DEF RowCommits, Changed, DirectoriesInv, RowsInv, RowsTypeOK
  <2>2. LeftItsMark(done) /\ Entry \subseteq RowIds
    BY <1>4 DEF RowIds
  <2>3. done.command.act # "create" /\ done.command.area \in Directory =>
          LET f == done.command.on IN
          /\ f \in RowIds /\ entries'[f].status # "ABSENT" /\ done.command.version \in Nat
          /\ \/ entries'[f].status = "DELETED"
             \/ /\ done.command.version < entries'[f].version
                /\ done.command.act \notin {"delete", "revoke"}
    BY <1>8, <2>1, <2>2 DEF LeftItsMark
  <2> QED
    BY <1>8, <2>2, <2>3 DEF LeftItsMark
<1>10. LeftItsMark(r)'
  <2>1. CASE c.act = "create"
    BY <1>1, <1>3, <1>5, <2>1 DEF LeftItsMark, RowChecked, Changed
  <2>2. CASE c.act # "create"
    <3>1. /\ c.on = e /\ e \in RowIds /\ c.version \in Nat /\ c.version = entries[e].version
          /\ \/ entries'[e].status = "DELETED"
             \/ /\ Live(e)' /\ entries'[e].version = c.version + 1
                /\ c.act \notin {"delete", "revoke"}
      BY <1>3, <2>2 DEF RowCommits, RowChecked, Changed, Live
    <3> QED
      BY <1>1, <1>3, <1>5, <2>2, <3>1 DEF LeftItsMark, Live, Status
  <2> QED
    BY <2>1, <2>2
<1>11. LedgerTrue'
  BY <1>1, <1>9, <1>10 DEF LedgerTrue
<1> QED
  BY <1>2, <1>6, <1>7, <1>11 DEF LedgerInv

LEMMA EntryCommittedKeeps ==
  ASSUME PeopleInv, DirectoriesInv, NEW t \in transactions, Commit(t), CommitEntry(t)
  PROVE  DirectoriesInv'
<1>1. RowCommits(t, EntryOf(t))
  BY EntryCommits
<1>2. transactions' = transactions \ {t} /\ seats' = seats /\ invitations' = invitations
  BY DEF Commit, CommitEntry, peopleVars
<1> QED
  BY <1>1, <1>2, RowsCommitted, EntryChangesKept, EntryLedgerKept DEF DirectoriesInv


(* A change of a membership replaces its version.                          *)
LEMMA SeatCommittedKeeps ==
  ASSUME PeopleInv, DirectoriesInv, NEW t \in transactions, Commit(t), CommitSeat(t)
  PROVE  DirectoriesInv'
<1> DEFINE c == t.command
           s == c.on
           r == Record(t)
<1>1. /\ Staged(t, "membership")
      /\ seats' = [seats EXCEPT ![s] = SeatAfter(c, seats[s])]
      /\ transactions' = transactions \ {t} /\ ledger' = ledger \cup {r}
      /\ UNCHANGED <<entries, used, invitations>>
  BY DEF Commit, CommitSeat, directoryVars, Record, Staged
<1>2. /\ c.area = "membership" /\ c.act # "create" /\ s \in Seat
      /\ r.command = c /\ r.new = t.new
  BY <1>1 DEF PeopleInv, StagedMemberships, Staged, Record
<1>3. /\ seats[s] \in Membership /\ seats[s].version = c.version
      /\ c.act \in {"role", "status", "revoke"} /\ seats[s].status # "REVOKED"
      /\ c.act = "role" => c.value \in Role /\ seats[s].status = "ACTIVE"
      /\ c.act = "status" => c.value \in Status
  BY <1>1, <1>2
  DEF PeopleInv, PeopleTypeOK, StagedMemberships, TransactionsWellFormed, WellFormed,
      DirectoriesInv, ChangesInv, StagedSeats, Status
<1>4. /\ SeatAfter(c, seats[s]).status # "ABSENT"
      /\ c.act = "revoke" => SeatAfter(c, seats[s]).status = "REVOKED"
      /\ SeatAfter(c, seats[s]).version = seats[s].version + 1
  BY <1>3, SeatFields
<1>5. /\ c.version \in Nat /\ seats'[s].status # "ABSENT" /\ seats'[s].version = c.version + 1
      /\ c.act = "revoke" => seats'[s].status = "REVOKED"
      /\ \A q \in Seat : q # s => seats'[q] = seats[q]
  BY <1>1, <1>2, <1>3, <1>4 DEF PeopleInv, PeopleTypeOK, Membership
<1> HIDE DEF c, r
<1>6. RowsInv' /\ RowsChecked' /\ RowsApart'
  BY <1>1, RowsUntouched DEF StagedRows
<1>7. StagedSeats'
  BY <1>1 DEF PeopleInv, StagedMemberships, StagedSeats, Staged
<1>8. KeysApart' /\ KeysDone'
  BY KeysCommitted
<1>9. CreatesApart'
  BY <1>1, <1>2 DEF DirectoriesInv, LedgerInv, CreatesApart, Creates
<1>10. ASSUME NEW done \in ledger PROVE LeftItsMark(done)
  BY DEF DirectoriesInv, LedgerInv, LedgerTrue
<1>11. VersionsApart'
  <2> SUFFICES ASSUME NEW done \in ledger, Versioned(done),
                      done.command.on = s, done.command.version = c.version
               PROVE  FALSE
    BY <1>1, <1>2 DEF VersionsApart, DirectoriesInv, LedgerInv, Versioned
  <2>1. Seat \cap RowIds = {}
    BY WorkspaceAssumption DEF Seat, RowIds
  <2>2. done.command.area = "membership"
    BY <1>2, <1>10, <2>1 DEF LeftItsMark, Versioned
  <2> QED
    BY <1>3, <1>5, <1>10, <2>2 DEF LeftItsMark
<1>12. ASSUME NEW done \in ledger PROVE LeftItsMark(done)'
  <2>1. LeftItsMark(done)
    BY <1>10
  <2>2. done.command.area = "membership" =>
          LET q == done.command.on IN
          /\ q \in Seat /\ seats'[q].status # "ABSENT"
          /\ done.command.version \in Nat /\ done.command.version < seats'[q].version
          /\ seats'[q].status = "REVOKED" \/ done.command.act \notin {"delete", "revoke"}
    BY <1>3, <1>5, <2>1 DEF LeftItsMark
  <2> QED
    BY <1>1, <2>1, <2>2 DEF LeftItsMark
<1>13. LeftItsMark(r)'
  BY <1>2, <1>3, <1>5 DEF LeftItsMark, Directory
<1>14. LedgerTrue'
  BY <1>1, <1>12, <1>13 DEF LedgerTrue
<1> QED
  BY <1>6, <1>7, <1>8, <1>9, <1>11, <1>14 DEF DirectoriesInv, ChangesInv, LedgerInv

(* An invitation is there from the commit of its creation.                 *)
LEMMA InvitationCommittedKeeps ==
  ASSUME PeopleInv, DirectoriesInv, NEW t \in transactions, Commit(t), CommitInvitation(t)
  PROVE  DirectoriesInv'
<1> DEFINE c == t.command
           i == t.new
           r == Record(t)
<1>1. /\ Staged(t, "invitation")
      /\ invitations' = [invitations EXCEPT ![i] = InvitationAfter(c, invitations[i])]
      /\ transactions' = transactions \ {t} /\ ledger' = ledger \cup {r}
      /\ UNCHANGED <<entries, used, seats>>
  BY DEF Commit, CommitInvitation, directoryVars, Record, Staged
<1>2. /\ c.area = "invitation" /\ i \in Invitation /\ r.command = c /\ r.new = i
      /\ c.act = "create" => invitations[i].status = "ABSENT"
  BY <1>1 DEF PeopleInv, StagedInvitations, Staged, Record
<1>3. /\ invitations[i] \in Invited /\ c.act \in {"create", "resend", "revoke"}
      /\ c.act = "create" => c.on \in User /\ c.value \in Role
  BY <1>1, <1>2
  DEF PeopleInv, PeopleTypeOK, StagedInvitations, TransactionsWellFormed, WellFormed
<1>4. InvitationAfter(c, invitations[i]).status # "ABSENT"
  BY <1>3, InvitationFields
<1>5. /\ invitations'[i].status # "ABSENT"
      /\ \A j \in Invitation : j # i => invitations'[j] = invitations[j]
  BY <1>1, <1>2, <1>4 DEF PeopleInv, PeopleTypeOK
<1> HIDE DEF c, i, r
<1>6. RowsInv' /\ RowsChecked' /\ RowsApart'
  BY <1>1, RowsUntouched DEF StagedRows
<1>7. StagedSeats'
  BY <1>1 DEF DirectoriesInv, ChangesInv, StagedSeats, Staged
<1>8. KeysApart' /\ KeysDone'
  BY KeysCommitted
<1>9. ASSUME NEW done \in ledger
      PROVE  /\ LeftItsMark(done)
             /\ done.command.area = "invitation" => done.new \in Invitation
  BY DEF DirectoriesInv, LedgerInv, LedgerTrue, PeopleInv, TransactionsWellFormed
<1>10. CreatesApart'
  <2> SUFFICES ASSUME NEW done \in ledger, Creates(done), c.act = "create", done.new = i PROVE FALSE
    BY <1>1, <1>2 DEF CreatesApart, DirectoriesInv, LedgerInv, Creates
  <2>1. Invitation \cap Entry = {}
    BY WorkspaceAssumption
  <2> QED
    BY <1>2, <1>9, <2>1 DEF LeftItsMark, Creates
<1>11. VersionsApart'
  <2>1. ~Versioned(r)
    BY <1>2 DEF Versioned, Directory
  <2> QED
    BY <1>1, <2>1 DEF DirectoriesInv, LedgerInv, VersionsApart, Versioned
<1>12. ASSUME NEW done \in ledger PROVE LeftItsMark(done)'
  BY <1>1, <1>5, <1>9 DEF LeftItsMark
<1>13. LeftItsMark(r)'
  BY <1>2, <1>5 DEF LeftItsMark, Directory
<1>14. LedgerTrue'
  BY <1>1, <1>12, <1>13 DEF LedgerTrue
<1> QED
  BY <1>6, <1>7, <1>8, <1>10, <1>11, <1>14 DEF DirectoriesInv, ChangesInv, LedgerInv

-----------------------------------------------------------------------------
(* The other steps.                                                        *)

(* A document refers to a row that nobody is deleting.                     *)
LEMMA ReferredKeeps ==
  ASSUME DirectoriesInv, NEW e \in Entry, SellTo(e) \/ BuyFrom(e) \/ SpendOn(e)
  PROVE  DirectoriesInv'
<1>1. /\ Live(e) /\ entries[e].directory \in Referable
      /\ <<"entry", e>> \notin Locked /\ used' = used \cup {e}
      /\ UNCHANGED <<entries, seats, invitations, transactions, ledger>>
  BY DEF SellTo, BuyFrom, SpendOn, Refer, Live, Status, Referable, peopleVars, commandVars
<1>2. entries' = entries /\ StagedRows' = StagedRows
  BY <1>1 DEF StagedRows
<1>3. RowsInv'
  <2>1. UsedTrue'
    BY <1>1, <1>2 DEF DirectoriesInv, RowsInv, UsedTrue, RowIds, Live
  <2> QED
    BY <1>2, <2>1
    DEF DirectoriesInv, RowsInv, RowsTypeOK, CodesApart, ParentsTrue, Parental, Live
<1>4. ASSUME NEW u \in StagedRows PROVE EntryOf(u) # e
  <2>1. <<"entry", EntryOf(u)>> \in LocksOf(u) /\ u \in transactions
    BY DEF LocksOf, LocksOfRow, StagedRows
  <2> QED
    BY <1>1, <2>1 DEF Locked
<1>5. RowsChecked'
  <2> SUFFICES ASSUME NEW u \in StagedRows PROVE RowChecked(u.command, EntryOf(u))'
    BY <1>2 DEF RowsChecked
  <2>1. PICK c, f : c = u.command /\ f = EntryOf(u)
    OBVIOUS
  <2>2. RowChecked(c, f) /\ f # e
    BY <1>4, <2>1 DEF DirectoriesInv, ChangesInv, RowsChecked
  <2>3. RowChecked(c, f)'
    BY <1>1, <1>2, <2>2 DEF RowChecked, CodeFree, ParentOf, Parental, Live
  <2> QED
    BY <2>1, <2>3 DEF EntryOf
<1>6. RowsApart'
  BY <1>2 DEF DirectoriesInv, ChangesInv, RowsApart, IndexOf, ParentOf
<1>7. StagedSeats' /\ LedgerInv'
  BY <1>1, <1>2
  DEF DirectoriesInv, ChangesInv, LedgerInv, StagedSeats, Staged, KeysApart, KeysDone,
      CreatesApart, VersionsApart, LedgerTrue, LeftItsMark
<1> QED
  BY <1>3, <1>5, <1>6, <1>7 DEF DirectoriesInv, ChangesInv

(* Whoever joins has a membership that was not there, and an invitation    *)
(* that is accepted or expired is still there.                             *)
LEMMA JoinedKeeps ==
  ASSUME PeopleInv, DirectoriesInv, NEW i \in Invitation, NEW token,
         \/ AcceptExistingAccount(i, token) \/ AcceptNewAccount(i, token)
         \/ ExpireOnUse(i, token)
  PROVE  DirectoriesInv'
<1>1. /\ UNCHANGED <<entries, used, ledger, transactions>>
      /\ invitations[i].status = "PENDING"
      /\ seats' = seats \/ \E x : seats' = [seats EXCEPT ![i] = x]
      /\ \E z \in {"ACCEPTED", "EXPIRED"} : invitations' = [invitations EXCEPT ![i].status = z]
  BY DEF AcceptExistingAccount, AcceptNewAccount, ExpireOnUse, Join, Present, Answers,
         directoryVars, commandVars
<1>2. seats[i].status = "ABSENT"
  BY <1>1, NoneJoined
<1>3. \A s \in Seat : seats[s].status # "ABSENT" => seats'[s] = seats[s]
  BY <1>1, <1>2 DEF PeopleInv, PeopleTypeOK
<1>4. \A j \in Invitation :
        invitations[j].status # "ABSENT" => invitations'[j].status # "ABSENT"
  BY <1>1 DEF PeopleInv, PeopleTypeOK, Invited
<1> QED
  BY <1>1, <1>3, <1>4, OthersStep

LEMMA WorkersKeep ==
  ASSUME PeopleInv, DirectoriesInv, NEW w \in Worker,
         HandleEmail(w) \/ HandleExpiration(w) \/ SendMail(w) \/ FinishJob(w)
  PROVE  DirectoriesInv'
<1>1. /\ UNCHANGED <<entries, used, ledger, transactions, seats>>
      /\ \/ invitations' = invitations
         \/ invitations' = [invitations EXCEPT ![InvitationOf(w)].status = "EXPIRED"]
  BY DEF HandleEmail, HandleExpiration, Handle, SendMail, FinishJob, directoryVars, peopleVars,
         commandVars
<1>2. \A j \in Invitation :
        invitations[j].status # "ABSENT" => invitations'[j].status # "ABSENT"
  BY <1>1 DEF PeopleInv, PeopleTypeOK, Invited
<1> QED
  BY <1>1, <1>2, OthersStep

LEMMA DirectoriesStepped ==
  ASSUME PeopleInv, MailTypeOK, DirectoriesInv, WorkspaceNext
  PROVE  DirectoriesInv'
<1>1. ASSUME NEW k, NEW c, Begin(k, c) \/ BeginUnkeyed(k, c) PROVE DirectoriesInv'
  BY <1>1, KeyAcquired
<1>2. ASSUME NEW t \in transactions, Service(t) PROVE DirectoriesInv'
  BY <1>2, RowStagedKeeps, PeopleStagedKeeps DEF Service
<1>3. ASSUME NEW t \in transactions, Commit(t) PROVE DirectoriesInv'
  BY <1>3, EntryCommittedKeeps, SeatCommittedKeeps, InvitationCommittedKeeps DEF Commit
<1>4. ASSUME NEW t \in transactions, Rollback(t) PROVE DirectoriesInv'
  <2>1. /\ UNCHANGED <<entries, used, ledger, seats, invitations>>
        /\ transactions' \subseteq transactions
    BY <1>4 DEF Rollback, directoryVars, peopleVars
  <2> QED
    BY <2>1, OthersStep
<1>5. ASSUME NEW e \in Entry, SellTo(e) \/ BuyFrom(e) \/ SpendOn(e) PROVE DirectoriesInv'
  BY <1>5, ReferredKeeps
<1>6. ASSUME (\E i : Lapse(i)) \/ WorkerStep PROVE DirectoriesInv'
  <2>1. UNCHANGED <<entries, used, ledger, seats, invitations, transactions>>
    BY <1>6 DEF Lapse, WorkerStep, directoryVars, peopleVars, commandVars
  <2> QED
    BY <2>1, OthersStep
<1>7. ASSUME NEW m \in mailed,
             \/ AcceptExistingAccount(m[1], m[2]) \/ AcceptNewAccount(m[1], m[2])
             \/ ExpireOnUse(m[1], m[2])
      PROVE  DirectoriesInv'
  <2>1. m[1] \in Invitation
    BY DEF MailTypeOK
  <2> QED
    BY <1>7, <2>1, JoinedKeeps
<1>8. ASSUME NEW w \in Worker,
             HandleEmail(w) \/ HandleExpiration(w) \/ SendMail(w) \/ FinishJob(w)
      PROVE  DirectoriesInv'
  BY <1>8, WorkersKeep
<1> QED
  BY <1>1, <1>2, <1>3, <1>4, <1>5, <1>6, <1>7, <1>8 DEF WorkspaceNext

(* The pages reach the server with commands only.                          *)
LEMMA DirectoriesKept ==
  ASSUME PagesInv, DirectoriesInv, [PagesNext]_<<workspaceVars, pageVars>>
  PROVE  DirectoriesInv'
<1>1. CASE UNCHANGED workspaceVars
  <2>1. UNCHANGED <<entries, used, ledger, seats, invitations, transactions>>
    BY <1>1 DEF workspaceVars, directoryVars, peopleVars, commandVars
  <2> QED
    BY <2>1, OthersStep DEF PagesInv
<1>2. CASE WorkspaceNext
  BY <1>2, DirectoriesStepped DEF PagesInv
<1>3. ASSUME NEW r, ServerReceives(r) PROVE DirectoriesInv'
  BY <1>3, KeyAcquired DEF ServerReceives
<1> QED
  BY <1>1, <1>2, <1>3 DEF PagesNext
-----------------------------------------------------------------------------
(* What the pages see of the rows.                                         *)
(*                                                                         *)
(* A row that is there stays there, a deleted one stays deleted, and what  *)
(* changes gets a greater version or is deleted (Evolves).  So what a page *)
(* has read of a row, or has asked for on the ground of it, is either      *)
(* still so or outdated, and the version it sends tells which.             *)
RowNow(e) == IF e \in Seat THEN seats[e] ELSE entries[e]

Follows(row, old) ==
  /\ row.status # "ABSENT"
  /\ \/ row = old
     \/ row.version > old.version
     \/ row.version = old.version /\ row.status = "DELETED"

Evolves ==
  /\ ledger \subseteq ledger' /\ offered' = offered
  /\ \A e \in Seat \cup RowIds : RowNow(e).status # "ABSENT" => Follows(RowNow(e)', RowNow(e))
  /\ \A e \in RowIds : entries[e].status = "DELETED" => entries'[e].status = "DELETED"

LEMMA RowsOfTables == \A e : (e \in Seat => e \notin RowIds) /\ (e \in RowIds => e \notin Seat)
BY WorkspaceAssumption DEF Seat, RowIds

LEMMA NothingEvolves ==
  ASSUME UNCHANGED <<entries, seats, ledger, offered>>
  PROVE  Evolves
BY DEF Evolves, Follows, RowNow

LEMMA EntryEvolves ==
  ASSUME PeopleInv, DirectoriesInv, NEW t \in transactions, Commit(t), CommitEntry(t)
  PROVE  Evolves
<1>1. PICK e : RowCommits(t, e)
  BY EntryCommits
<1>2. /\ ledger \subseteq ledger' /\ offered' = offered /\ seats' = seats
  BY DEF Commit, CommitEntry, peopleVars
<1>3. entries[e].version \in Nat
  BY <1>1 DEF RowCommits, DirectoriesInv, RowsInv, RowsTypeOK
<1>4. entries[e].status # "ABSENT" => Live(e) /\ Follows(entries'[e], entries[e])
  <2> DEFINE c == t.command
  <2>1. /\ RowChecked(c, e) /\ Changed(c, entries[e], entries'[e])
        /\ c.act = "status" => c.value \in Status
    BY <1>1 DEF RowCommits
  <2> HIDE DEF c
  <2>2. CASE c.act = "create"
    BY <2>1, <2>2 DEF RowChecked
  <2>3. CASE c.act # "create"
    <3>1. Live(e) /\ entries[e].status # "ABSENT"
      BY <2>1, <2>3 DEF RowChecked, Live, Status
    <3>2. CASE c.act = "delete"
      <4>1. entries'[e].status = "DELETED" /\ entries'[e].version = entries[e].version
        BY <2>1, <2>3, <3>2 DEF Changed
      <4> QED
        BY <3>1, <4>1 DEF Follows
    <3>3. CASE c.act # "delete"
      <4>1. /\ entries'[e].status = (IF c.act = "status" THEN c.value ELSE entries[e].status)
            /\ entries'[e].version = entries[e].version + 1
        BY <2>1, <2>3, <3>3 DEF Changed
      <4>2. entries'[e].status # "ABSENT" /\ entries'[e].version > entries[e].version
        BY <1>3, <2>1, <3>1, <4>1 DEF Status
      <4> QED
        BY <3>1, <4>2 DEF Follows
    <3> QED
      BY <3>2, <3>3
  <2> QED
    BY <2>2, <2>3
<1>5. \A f \in RowIds : f # e => entries'[f] = entries[f]
  BY <1>1 DEF RowCommits
<1>6. \A f \in RowIds : entries[f].status # "ABSENT" => Follows(entries'[f], entries[f])
  BY <1>4, <1>5 DEF Follows
<1>7. \A f \in RowIds : entries[f].status = "DELETED" => entries'[f].status = "DELETED"
  BY <1>4, <1>5 DEF Live, Status
<1>8. \A f \in Seat : RowNow(f).status # "ABSENT" => Follows(RowNow(f)', RowNow(f))
  BY <1>2 DEF RowNow, Follows
<1> QED
  BY <1>2, <1>6, <1>7, <1>8, RowsOfTables DEF Evolves, RowNow

LEMMA SeatEvolves ==
  ASSUME PeopleInv, DirectoriesInv, NEW t \in transactions, Commit(t), CommitSeat(t)
  PROVE  Evolves
<1> DEFINE c == t.command
           s == c.on
<1>1. /\ Staged(t, "membership")
      /\ seats' = [seats EXCEPT ![s] = SeatAfter(c, seats[s])]
      /\ ledger \subseteq ledger' /\ offered' = offered /\ entries' = entries
  BY DEF Commit, CommitSeat, directoryVars, Staged
<1>2. /\ s \in Seat /\ seats[s] \in Membership
      /\ c.act \in {"role", "status", "revoke"}
      /\ c.act = "role" => c.value \in Role /\ seats[s].status = "ACTIVE"
      /\ c.act = "status" => c.value \in Status
  BY <1>1
  DEF PeopleInv, PeopleTypeOK, StagedMemberships, Staged, TransactionsWellFormed, WellFormed
<1>3. /\ SeatAfter(c, seats[s]).status # "ABSENT"
      /\ SeatAfter(c, seats[s]).version = seats[s].version + 1
      /\ seats[s].version \in Nat
  BY <1>2, SeatFields DEF Membership
<1>4. \A q \in Seat : q # s => seats'[q] = seats[q]
  BY <1>1 DEF PeopleInv, PeopleTypeOK
<1>5. seats'[s] = SeatAfter(c, seats[s])
  BY <1>1, <1>2 DEF PeopleInv, PeopleTypeOK
<1> HIDE DEF c, s
<1>6. \A q \in Seat : seats[q].status # "ABSENT" => Follows(seats'[q], seats[q])
  BY <1>3, <1>4, <1>5 DEF Follows
<1> QED
  BY <1>1, <1>6, RowsOfTables DEF Evolves, RowNow, Follows

LEMMA JoinEvolves ==
  ASSUME PeopleInv, NEW i \in Invitation, NEW token,
         \/ AcceptExistingAccount(i, token) \/ AcceptNewAccount(i, token)
         \/ ExpireOnUse(i, token)
  PROVE  Evolves
<1>1. /\ UNCHANGED <<entries, ledger, offered>>
      /\ invitations[i].status = "PENDING"
      /\ seats' = seats \/ \E x : seats' = [seats EXCEPT ![i] = x]
  BY DEF AcceptExistingAccount, AcceptNewAccount, ExpireOnUse, Join, Present, Answers,
         directoryVars, commandVars
<1>2. seats[i].status = "ABSENT"
  BY <1>1, NoneJoined
<1>3. \A s \in Seat : seats[s].status # "ABSENT" => seats'[s] = seats[s]
  BY <1>1, <1>2 DEF PeopleInv, PeopleTypeOK
<1> QED
  BY <1>1, <1>3 DEF Evolves, RowNow, Follows

LEMMA StepEvolves ==
  ASSUME PeopleInv, MailTypeOK, DirectoriesInv, WorkspaceNext
  PROVE  Evolves
<1>1. ASSUME NEW k, NEW c, Begin(k, c) \/ BeginUnkeyed(k, c) PROVE Evolves
  BY <1>1, NothingEvolves DEF Begin, BeginUnkeyed, Open, directoryVars, peopleVars
<1>2. ASSUME NEW t \in transactions, Service(t) \/ Rollback(t) PROVE Evolves
  <2>1. (\E n : Stage(t, n)) \/ Rollback(t)
    BY <1>2, DirectoryStages
    DEF Service, MembershipService, ChangeRole, Revoke, SetStatus, CreateInvitation, Resend,
        RevokeInvitation
  <2> QED
    BY <2>1, NothingEvolves DEF Stage, Rollback, directoryVars, peopleVars
<1>3. ASSUME NEW t \in transactions, Commit(t) PROVE Evolves
  <2>1. CASE CommitInvitation(t)
    BY <1>3, <2>1 DEF Commit, CommitInvitation, directoryVars, Evolves, RowNow, Follows
  <2> QED
    BY <1>3, <2>1, EntryEvolves, SeatEvolves DEF Commit
<1>4. ASSUME NEW e, SellTo(e) \/ BuyFrom(e) \/ SpendOn(e) PROVE Evolves
  BY <1>4, NothingEvolves DEF SellTo, BuyFrom, SpendOn, Refer, peopleVars, commandVars
<1>5. ASSUME (\E i : Lapse(i)) \/ WorkerStep PROVE Evolves
  BY <1>5, NothingEvolves DEF Lapse, WorkerStep, directoryVars, peopleVars, commandVars
<1>6. ASSUME NEW m \in mailed,
             \/ AcceptExistingAccount(m[1], m[2]) \/ AcceptNewAccount(m[1], m[2])
             \/ ExpireOnUse(m[1], m[2])
      PROVE  Evolves
  <2>1. m[1] \in Invitation
    BY DEF MailTypeOK
  <2> QED
    BY <1>6, <2>1, JoinEvolves
<1>7. ASSUME NEW w, HandleEmail(w) \/ HandleExpiration(w) \/ SendMail(w) \/ FinishJob(w)
      PROVE  Evolves
  BY <1>7, NothingEvolves
  DEF HandleEmail, HandleExpiration, Handle, SendMail, FinishJob, directoryVars, peopleVars,
      commandVars
<1> QED
  BY <1>1, <1>2, <1>3, <1>4, <1>5, <1>6, <1>7 DEF WorkspaceNext

-----------------------------------------------------------------------------
(* The pages.                                                              *)

(* A row that was read is still so, or deleted, or outdated.               *)
Seen(e, row) ==
  /\ e \in Seat \cup RowIds /\ RowNow(e).status # "ABSENT" /\ row.version \in Nat
  /\ \/ row.version < RowNow(e).version
     \/ row.version = RowNow(e).version /\ RowNow(e).status \in {row.status, "DELETED"}
ListSeen(list) == \A e \in DOMAIN list : Seen(e, list[e])

(* A request for a new status is about a row that has another, or it is    *)
(* outdated.                                                               *)
Switches(c) ==
  /\ c.on \in Seat \cup RowIds /\ RowNow(c.on).status # "ABSENT"
  /\ c.value \in Status /\ c.version \in Nat
  /\ \/ c.version < RowNow(c.on).version
     \/ c.version = RowNow(c.on).version /\ RowNow(c.on).status # c.value

(* The pages whose forms are sent with the version that filled them.       *)
Careful == {"organization", "membership"}

RequestTrue(r) ==
  LET c == r.command IN
  /\ r.tab \in Tab /\ r.key # Nothing
  /\ c.area = offered.page /\ c.area \in Directory \cup {"membership"}
  /\ c.act = "create" => c.area \notin Careful
  /\ IF c.area \in Careful THEN r.filled = c.version /\ c.version \in Nat ELSE c.act # "role"
  /\ c.act = "status" => IF c.area = "cash_register" THEN c.value = "INACTIVE" ELSE Switches(c)

PageShapes ==
  /\ lists = [t \in Tab |-> lists[t]] /\ fetches = [t \in Tab |-> fetches[t]]
  /\ editors = [t \in Tab |-> editors[t]] /\ occupied = [t \in Tab |-> occupied[t]]

RequestsTrue == \A r \in requests : RequestTrue(r)

ListsTrue ==
  offered.page # "organization" =>
    \A t \in Tab :
      /\ lists[t] # Nothing => ListSeen(lists[t])
      /\ fetches[t].step = "ANSWERED" => ListSeen(fetches[t].rows)

(* Where a change was answered, the list at rest shows it, and so will the *)
(* one that is coming.                                                     *)
ChangesShown ==
  offered.page # "organization" =>
    \A r \in requests : r.outcome = "done" =>
      /\ \E done \in ledger : Carries(done, r)
      /\ lists[r.tab] # Nothing /\ fetches[r.tab].step = "IDLE" => ShowsItsChange(r, lists[r.tab])
      /\ fetches[r.tab].step = "ANSWERED" => ShowsItsChange(r, fetches[r.tab].rows)

(* The forms of users and settings are filled from the row that is shown.  *)
Form(x) == x \in [open: {x.open}, filled: {x.filled}, waiting: {x.waiting}]

UsersTrue ==
  offered.page = "membership" =>
    \A t \in Tab :
      /\ \A e \in DOMAIN editors[t] : Form(editors[t][e])
      /\ lists[t] # Nothing =>
           /\ DOMAIN editors[t] = DOMAIN lists[t]
           /\ \A e \in DOMAIN lists[t] : editors[t][e].filled = lists[t][e].version

SettingsRow == [status: Status \cup {"ABSENT", "DELETED"}, version: Nat]
SettingsList == [{Organization} -> SettingsRow]

SettingsTrue ==
  offered.page = "organization" =>
    \A t \in Tab :
      /\ fetches[t].step = "ANSWERED" => fetches[t].rows \in SettingsList
      /\ IF lists[t] = Nothing
         THEN DOMAIN editors[t] = {} /\ occupied[t] = Nothing
         ELSE /\ lists[t] \in SettingsList /\ DOMAIN editors[t] = {Organization}
              /\ Form(editors[t][Organization])
              /\ editors[t][Organization].filled = lists[t][Organization].version

FormsInv ==
  /\ PageShapes /\ RequestsTrue /\ ListsTrue /\ ChangesShown /\ UsersTrue /\ SettingsTrue

LEMMA FormsInitially == PagesInit => FormsInv
<1> SUFFICES ASSUME PagesInit PROVE FormsInv
  OBVIOUS
<1>1. /\ \A t \in Tab : lists[t] = Nothing /\ occupied[t] = Nothing /\ DOMAIN editors[t] = {}
      /\ \A t \in Tab : fetches[t].step # "ANSWERED"
      /\ requests = {} /\ PageShapes
  BY DEF PagesInit, PageShapes, Idle, Asked
<1> QED
  BY <1>1 DEF FormsInv, RequestsTrue, ListsTrue, ChangesShown, UsersTrue, SettingsTrue

LEMMA VersionsNatural ==
  ASSUME PeopleInv, DirectoriesInv
  PROVE  \A e \in Seat \cup RowIds : RowNow(e).version \in Nat
BY DEF PeopleInv, PeopleTypeOK, Membership, DirectoriesInv, RowsInv, RowsTypeOK, RowNow

LEMMA VersionsStayNatural ==
  ASSUME PeopleInv', DirectoriesInv'
  PROVE  \A e \in Seat \cup RowIds : RowNow(e)'.version \in Nat
BY DEF PeopleInv, PeopleTypeOK, Membership, DirectoriesInv, RowsInv, RowsTypeOK, RowNow

-----------------------------------------------------------------------------
(* A step of the server, under a page that stays as it is.                 *)
LEMMA SeenStays ==
  ASSUME Evolves, NEW e, NEW row, Seen(e, row),
         \A f \in Seat \cup RowIds : RowNow(f).version \in Nat /\ RowNow(f)'.version \in Nat
  PROVE  Seen(e, row)'
<1> DEFINE old == RowNow(e)
           new == RowNow(e)'
<1>1. /\ e \in Seat \cup RowIds /\ row.version \in Nat /\ old.version \in Nat /\ new.version \in Nat
      /\ Follows(new, old)
      /\ \/ row.version < old.version
         \/ row.version = old.version /\ old.status \in {row.status, "DELETED"}
  BY DEF Seen, Evolves
<1>2. /\ new.status # "ABSENT"
      /\ \/ row.version < new.version
         \/ row.version = new.version /\ new.status \in {row.status, "DELETED"}
  BY <1>1 DEF Follows
<1> QED
  BY <1>1, <1>2 DEF Seen

LEMMA SwitchStays ==
  ASSUME Evolves, NEW c, Switches(c),
         \A f \in Seat \cup RowIds : RowNow(f).version \in Nat /\ RowNow(f)'.version \in Nat
  PROVE  Switches(c)'
<1> DEFINE old == RowNow(c.on)
           new == RowNow(c.on)'
<1>1. /\ c.on \in Seat \cup RowIds /\ c.version \in Nat /\ old.version \in Nat
      /\ new.version \in Nat /\ Follows(new, old) /\ c.value \in Status
      /\ \/ c.version < old.version
         \/ c.version = old.version /\ old.status # c.value
  BY DEF Switches, Evolves
<1>2. /\ new.status # "ABSENT"
      /\ \/ c.version < new.version
         \/ c.version = new.version /\ new.status # c.value
  BY <1>1 DEF Follows, Status
<1> QED
  BY <1>1, <1>2 DEF Switches

LEMMA ShownStays ==
  ASSUME DirectoriesInv, Evolves, NEW r, RequestTrue(r), NEW list, ShowsItsChange(r, list)
  PROVE  ShowsItsChange(r, list)'
<1>1. CASE r.command.act # "create"
  BY <1>1 DEF ShowsItsChange
<1>2. CASE r.command.act = "create"
  <2>1. PICK done \in ledger : Carries(done, r) /\ (done.new \in DOMAIN list \/ ~Live(done.new))
    BY <1>2 DEF ShowsItsChange
  <2>2. done.command.act = "create" /\ done.command.area \in Directory
    BY <1>2, <2>1 DEF Carries, RequestTrue, Careful
  <2>3. done.new \in RowIds /\ entries[done.new].status # "ABSENT"
    BY <2>2 DEF DirectoriesInv, LedgerInv, LedgerTrue, LeftItsMark, RowIds
  <2>4. ~Live(done.new) => entries[done.new].status = "DELETED"
    BY <2>3 DEF DirectoriesInv, RowsInv, RowsTypeOK, Live
  <2>5. ~Live(done.new) => ~Live(done.new)'
    BY <2>3, <2>4 DEF Evolves, Live, Status
  <2>6. done \in ledger' /\ Carries(done, r)'
    BY <2>1 DEF Evolves, Carries
  <2> QED
    BY <1>2, <2>1, <2>5, <2>6 DEF ShowsItsChange
<1> QED
  BY <1>1, <1>2

LEMMA ServerMoves ==
  ASSUME FormsInv, DirectoriesInv, Evolves,
         \A e \in Seat \cup RowIds : RowNow(e).version \in Nat /\ RowNow(e)'.version \in Nat,
         UNCHANGED <<lists, fetches, editors, occupied>>,
         \A x \in requests' : \E r \in requests :
           /\ x.tab = r.tab /\ x.key = r.key /\ x.command = r.command /\ x.filled = r.filled
           /\ x.outcome = r.outcome
  PROVE  FormsInv'
<1>1. offered' = offered
  BY DEF Evolves
<1>2. PageShapes' /\ UsersTrue' /\ SettingsTrue'
  BY <1>1 DEF FormsInv, PageShapes, UsersTrue, SettingsTrue
<1>3. ListsTrue'
  <2>1. \A list : ListSeen(list) => ListSeen(list)'
    BY SeenStays DEF ListSeen
  <2> QED
    BY <1>1, <2>1 DEF FormsInv, ListsTrue
<1>4. RequestsTrue'
  <2> SUFFICES ASSUME NEW x \in requests' PROVE RequestTrue(x)'
    BY DEF RequestsTrue
  <2>1. PICK r \in requests :
          x.tab = r.tab /\ x.key = r.key /\ x.command = r.command /\ x.filled = r.filled
    OBVIOUS
  <2>2. RequestTrue(r)
    BY DEF FormsInv, RequestsTrue
  <2>3. Switches(r.command) => Switches(r.command)'
    BY SwitchStays
  <2> QED
    BY <1>1, <2>1, <2>2, <2>3 DEF RequestTrue
<1>5. ChangesShown'
  <2> SUFFICES ASSUME offered.page # "organization", NEW x \in requests', x.outcome = "done"
               PROVE  /\ \E done \in ledger' : Carries(done, x)
                      /\ lists[x.tab] # Nothing /\ fetches[x.tab].step = "IDLE"
                           => ShowsItsChange(x, lists[x.tab])'
                      /\ fetches[x.tab].step = "ANSWERED"
                           => ShowsItsChange(x, fetches[x.tab].rows)'
    BY <1>1 DEF ChangesShown, ShowsItsChange, Carries
  <2>1. PICK r \in requests :
          x.tab = r.tab /\ x.key = r.key /\ x.command = r.command /\ x.outcome = r.outcome
    OBVIOUS
  <2>2. /\ RequestTrue(r)
        /\ \E done \in ledger : Carries(done, r)
        /\ lists[r.tab] # Nothing /\ fetches[r.tab].step = "IDLE"
             => ShowsItsChange(r, lists[r.tab])
        /\ fetches[r.tab].step = "ANSWERED" => ShowsItsChange(r, fetches[r.tab].rows)
    BY <2>1 DEF FormsInv, RequestsTrue, ChangesShown
  <2>3. \A list : ShowsItsChange(r, list) => ShowsItsChange(r, list)'
    BY <2>2, ShownStays
  <2>4. \A list : ShowsItsChange(r, list)' => ShowsItsChange(x, list)'
    BY <2>1 DEF ShowsItsChange, Carries
  <2>5. \E done \in ledger' : Carries(done, x)
    BY <2>1, <2>2 DEF Carries, Evolves
  <2> QED
    BY <2>1, <2>2, <2>3, <2>4, <2>5
<1> QED
  BY <1>2, <1>3, <1>4, <1>5 DEF FormsInv

-----------------------------------------------------------------------------
(* The page sends, or opens and closes its forms.                          *)
SameServer == UNCHANGED <<entries, seats, ledger, offered>>

LEMMA ServerStill ==
  ASSUME SameServer
  PROVE  /\ \A list : ListSeen(list) <=> ListSeen(list)'
         /\ \A c : Switches(c) <=> Switches(c)'
         /\ \A r : RequestTrue(r) <=> RequestTrue(r)'
         /\ \A r, list : ShowsItsChange(r, list) <=> ShowsItsChange(r, list)'
BY DEF SameServer, ListSeen, Seen, Switches, RequestTrue, ShowsItsChange, RowNow, Carries, Live

(* It may have new requests that are true, and forms that are not of users *)
(* and settings may have changed.                                          *)
LEMMA PageMoves ==
  ASSUME FormsInv, SameServer, UNCHANGED <<lists, fetches>>, PageShapes',
         \A x \in requests' : x \in requests \/ (RequestTrue(x) /\ x.outcome = "awaited"),
         offered.page \in Careful => editors' = editors,
         \A t \in Tab : lists[t] = Nothing => occupied'[t] = occupied[t]
  PROVE  FormsInv'
<1>1. offered' = offered /\ ledger' = ledger /\ lists' = lists /\ fetches' = fetches
  BY DEF SameServer
<1>2. RequestsTrue'
  BY ServerStill DEF FormsInv, RequestsTrue
<1>3. ListsTrue'
  BY <1>1, ServerStill DEF FormsInv, ListsTrue
<1>4. ChangesShown'
  <2> SUFFICES ASSUME offered.page # "organization", NEW r \in requests', r.outcome = "done"
               PROVE  /\ \E done \in ledger : Carries(done, r)
                      /\ lists[r.tab] # Nothing /\ fetches[r.tab].step = "IDLE"
                           => ShowsItsChange(r, lists[r.tab])
                      /\ fetches[r.tab].step = "ANSWERED"
                           => ShowsItsChange(r, fetches[r.tab].rows)
    BY <1>1, ServerStill DEF ChangesShown, Carries
  <2>1. r \in requests
    OBVIOUS
  <2> QED
    BY <2>1 DEF FormsInv, ChangesShown
<1>5. UsersTrue'
  BY <1>1 DEF FormsInv, UsersTrue, Careful
<1>6. SettingsTrue'
  BY <1>1 DEF FormsInv, SettingsTrue, Careful
<1> QED
  BY <1>2, <1>3, <1>4, <1>5, <1>6 DEF FormsInv

(* What a row of a page may ask for.                                       *)
Offers(t, e, act, value) ==
  /\ offered.page \in Directory \cup {"membership"} /\ act # "create"
  /\ act = "role" => offered.page = "membership"
  /\ act = "status" =>
       /\ offered.page # "organization"
       /\ value = IF offered.page = "cash_register" THEN "INACTIVE" ELSE Opposite(lists[t][e].status)

LEMMA RowShown ==
  ASSUME FormsInv, NEW t \in Tab, NEW e \in Shown(t)
  PROVE  /\ lists[t] # Nothing /\ e \in DOMAIN lists[t] /\ e # Nothing
         /\ offered.page # "organization" => Seen(e, lists[t][e])
<1>1. lists[t] # Nothing /\ e \in DOMAIN lists[t]
  BY DEF Shown
<1>2. CASE offered.page = "organization"
  <2>1. e = Organization
    BY <1>1, <1>2 DEF FormsInv, SettingsTrue, SettingsList
  <2> QED
    BY <1>1, <1>2, <2>1, WorkspaceAssumption
<1>3. CASE offered.page # "organization"
  <2>1. Seen(e, lists[t][e])
    BY <1>1, <1>3 DEF FormsInv, ListsTrue, ListSeen
  <2>2. e \in Seat \cup RowIds
    BY <2>1 DEF Seen
  <2> QED
    BY <1>1, <2>1, <2>2, WorkspaceAssumption DEF Seat, RowIds
<1> QED
  BY <1>2, <1>3

LEMMA RowAsks ==
  ASSUME FormsInv, NEW t \in Tab, NEW e \in Shown(t), NEW act, NEW value, NEW k \in Key,
         Offers(t, e, act, value), NEW x,
         x = [tab |-> t, key |-> k, command |-> Asks(t, act, e, value, Nothing),
              filled |-> editors[t][e].filled, outcome |-> "awaited", received |-> FALSE]
  PROVE  RequestTrue(x) /\ x.outcome = "awaited"
<1> DEFINE c == Asks(t, act, e, value, Nothing)
<1>1. /\ x.tab = t /\ x.key = k /\ x.command = c /\ x.filled = editors[t][e].filled
      /\ x.outcome = "awaited"
  OBVIOUS
<1>2. /\ lists[t] # Nothing /\ e \in DOMAIN lists[t] /\ e # Nothing
      /\ offered.page # "organization" => Seen(e, lists[t][e])
  BY RowShown
<1>3. /\ c.area = offered.page /\ c.act = act /\ c.on = e /\ c.value = value
      /\ c.version = lists[t][e].version
  BY <1>2 DEF Asks
<1>4. k # Nothing
  BY WorkspaceAssumption
<1> HIDE DEF c
<1>5. offered.page \in Careful =>
        /\ editors[t][e].filled = lists[t][e].version /\ lists[t][e].version \in Nat
  <2>1. CASE offered.page = "membership"
    BY <1>2, <2>1 DEF FormsInv, UsersTrue, Seen
  <2>2. CASE offered.page = "organization"
    BY <1>2, <2>2 DEF FormsInv, SettingsTrue, SettingsList, SettingsRow
  <2> QED
    BY <2>1, <2>2 DEF Careful
<1>6. act = "status" /\ offered.page # "cash_register" => Switches(c)
  <2> SUFFICES ASSUME act = "status", offered.page # "cash_register" PROVE Switches(c)
    OBVIOUS
  <2>1. Seen(e, lists[t][e]) /\ value = Opposite(lists[t][e].status)
    BY <1>2 DEF Offers
  <2>2. value \in Status /\ value # lists[t][e].status /\ value # "DELETED"
    BY <2>1 DEF Opposite, Status
  <2> QED
    BY <1>3, <2>1, <2>2 DEF Seen, Switches
<1>7. act = "status" /\ offered.page = "cash_register" => value = "INACTIVE"
  BY DEF Offers
<1> QED
  BY <1>1, <1>3, <1>4, <1>5, <1>6, <1>7 DEF RequestTrue, Offers, Careful

LEMMA RowSends ==
  ASSUME FormsInv, SameServer, NEW t \in Tab, NEW e \in Shown(t), NEW act, NEW value,
         Offers(t, e, act, value),
         SubmitPage(t, e, act, value) \/ (offered.page \notin Careful /\ SubmitRow(t, e, act, value))
  PROVE  FormsInv'
<1> DEFINE c == Asks(t, act, e, value, Nothing)
           Sent(k) == [tab |-> t, key |-> k, command |-> c, filled |-> editors[t][e].filled,
                       outcome |-> "awaited", received |-> FALSE]
<1>1. PICK k \in Key :
        /\ requests' = requests \cup {Sent(k)}
        /\ UNCHANGED <<lists, fetches>>
        /\ \/ occupied' = [occupied EXCEPT ![t] = k] /\ editors' = editors
           \/ /\ editors' = [editors EXCEPT ![t][e].waiting = k] /\ occupied' = occupied
              /\ offered.page \notin Careful
  BY DEF SubmitPage, SubmitRow, Request
<1>2. RequestTrue(Sent(k)) /\ Sent(k).outcome = "awaited"
  BY RowAsks
<1>3. lists[t] # Nothing
  BY RowShown
<1> HIDE DEF Sent
<1>4. PageShapes'
  BY <1>1 DEF FormsInv, PageShapes
<1>5. \A u \in Tab : lists[u] = Nothing => occupied'[u] = occupied[u]
  BY <1>1, <1>3 DEF FormsInv, PageShapes
<1> QED
  BY <1>1, <1>2, <1>4, <1>5, PageMoves

LEMMA FormsMove ==
  ASSUME FormsInv, SameServer, UNCHANGED <<lists, fetches, occupied, requests>>,
         offered.page \notin Careful, NEW t, NEW x, editors' = [editors EXCEPT ![t] = x]
  PROVE  FormsInv'
<1>1. PageShapes'
  BY DEF FormsInv, PageShapes
<1> QED
  BY <1>1, PageMoves

LEMMA RowMoves ==
  ASSUME FormsInv, SameServer, NEW t \in Tab, NEW e \in Shown(t), PageRow(t, e)
  PROVE  FormsInv'
<1>1. ASSUME NEW f, NEW open, SetOpen(t, f, open), offered.page \notin Careful PROVE FormsInv'
  BY <1>1, FormsMove DEF SetOpen
<1>2. ASSUME NEW act, NEW value, Offers(t, e, act, value),
             SubmitPage(t, e, act, value) \/ (offered.page \notin Careful /\ SubmitRow(t, e, act, value))
      PROVE  FormsInv'
  BY <1>2, RowSends
<1>3. ASSUME Remount(t, e) \/ EditItem(t, e) \/ EditCategory(t, e), offered.page \notin Careful
      PROVE  FormsInv'
  BY <1>3, FormsMove DEF Remount, EditItem, EditCategory
<1>4. ASSUME NEW f, ConfirmCategory(t, f), offered.page \notin Careful PROVE FormsInv'
  BY <1>4, FormsMove DEF ConfirmCategory
<1>5. CASE CustomerItemEditor(t, e)
  <2>1. offered.page = "customer" /\ "customer" \notin Careful
    BY <1>5 DEF CustomerItemEditor, Careful
  <2>2. /\ Offers(t, e, "status", Opposite(lists[t][e].status))
        /\ \A form \in CustomerRequests \ {"create", "status"} : Offers(t, e, form, Nothing)
    BY <2>1 DEF Offers, Directory, CustomerRequests
  <2> QED
    BY <1>1, <1>2, <1>3, <1>5, <2>1, <2>2 DEF CustomerItemEditor, Toggle
<1>6. CASE SupplierItemEditor(t, e)
  <2>1. offered.page = "supplier" /\ "supplier" \notin Careful
    BY <1>6 DEF SupplierItemEditor, Careful
  <2>2. /\ Offers(t, e, "status", Opposite(lists[t][e].status))
        /\ \A form \in SupplierRequests \ {"create", "status"} : Offers(t, e, form, Nothing)
    BY <2>1 DEF Offers, Directory, SupplierRequests, CustomerRequests
  <2> QED
    BY <1>1, <1>2, <1>3, <1>6, <2>1, <2>2 DEF SupplierItemEditor, Toggle
<1>7. CASE ItemEditor(t, e)
  <2>1. offered.page = "catalog_item" /\ "catalog_item" \notin Careful
    BY <1>7 DEF ItemEditor, Careful
  <2>2. /\ Offers(t, e, "status", Opposite(lists[t][e].status))
        /\ \A form \in ItemRequests \ {"create", "status"} : Offers(t, e, form, Nothing)
    BY <2>1 DEF Offers, Directory, ItemRequests, CustomerRequests
  <2> QED
    BY <1>1, <1>2, <1>3, <1>7, <2>1, <2>2 DEF ItemEditor, ItemForms, ChooseItemForm
<1>8. CASE CashRegisterItemEditor(t, e)
  <2>1. offered.page = "cash_register" /\ "cash_register" \notin Careful
    BY <1>8 DEF CashRegisterItemEditor, Careful
  <2>2. \A form \in RegisterRequests \ {"create"} :
          Offers(t, e, form, IF form = "status" THEN "INACTIVE" ELSE Nothing)
    BY <2>1 DEF Offers, Directory, RegisterRequests
  <2> QED
    BY <1>1, <1>2, <1>8, <2>1, <2>2 DEF CashRegisterItemEditor, Toggle
<1>9. CASE CatalogCategoryRow(t, e) \/ ExpenseCategoryRow(t, e)
  <2>1. /\ offered.page \in {"catalog_category", "expense_category"}
        /\ offered.page \notin Careful
    BY <1>9 DEF CatalogCategoryRow, ExpenseCategoryRow, Careful
  <2>2. /\ Offers(t, e, "status", Opposite(lists[t][e].status))
        /\ Offers(t, e, "update", Nothing) /\ Offers(t, e, "delete", Nothing)
    BY <2>1 DEF Offers, Directory
  <2> QED
    BY <1>1, <1>2, <1>3, <1>4, <1>9, <2>1, <2>2
    DEF CatalogCategoryRow, ExpenseCategoryRow, CatalogCategoryManagement, CancelEdition
<1>10. CASE MemberEditor(t, e)
  <2>1. offered.page = "membership"
    BY <1>10 DEF MemberEditor
  <2>2. /\ Offers(t, e, "status", Opposite(lists[t][e].status)) /\ Offers(t, e, "revoke", Nothing)
        /\ \A role : Offers(t, e, "role", role)
    BY <2>1 DEF Offers
  <2> QED
    BY <1>2, <1>10, <2>2 DEF MemberEditor
<1>11. CASE OrganizationSettings(t, e)
  <2>1. \A act \in SettingsRequests : Offers(t, e, act, Nothing)
    BY <1>11 DEF OrganizationSettings, Offers, Directory, SettingsRequests
  <2> QED
    BY <1>2, <1>11, <2>1 DEF OrganizationSettings
<1> QED
  BY <1>5, <1>6, <1>7, <1>8, <1>9, <1>10, <1>11 DEF PageRow

LEMMA CreationSent ==
  ASSUME FormsInv, SameServer, NEW t \in Tab, NEW parent, Create(t, parent),
         offered.page \in Directory \ Careful
  PROVE  FormsInv'
<1> DEFINE c == Asks(t, "create", Nothing, NoCode, parent)
           Sent(k) == [tab |-> t, key |-> k, command |-> c, filled |-> 0,
                       outcome |-> "awaited", received |-> FALSE]
<1>1. PICK k \in Key :
        /\ requests' = requests \cup {Sent(k)}
        /\ lists[t] # Nothing /\ occupied' = [occupied EXCEPT ![t] = k]
        /\ UNCHANGED <<lists, fetches, editors>>
  BY DEF Create, Request
<1>2. RequestTrue(Sent(k)) /\ Sent(k).outcome = "awaited"
  <2>1. c.area = offered.page /\ c.act = "create"
    BY DEF Asks
  <2>2. k # Nothing
    BY WorkspaceAssumption
  <2>3. /\ Sent(k).tab = t /\ Sent(k).key = k /\ Sent(k).command = c
        /\ Sent(k).outcome = "awaited"
    OBVIOUS
  <2> HIDE DEF Sent, c
  <2> QED
    BY <2>1, <2>2, <2>3 DEF RequestTrue
<1> HIDE DEF Sent
<1>3. PageShapes'
  BY <1>1 DEF FormsInv, PageShapes
<1>4. \A u \in Tab : lists[u] = Nothing => occupied'[u] = occupied[u]
  BY <1>1 DEF FormsInv, PageShapes
<1> QED
  BY <1>1, <1>2, <1>3, <1>4, PageMoves

-----------------------------------------------------------------------------
(* The list is asked for, answered, and shown.                             *)
LEMMA AnswerOf ==
  ASSUME NEW u
  PROVE  /\ offered.page \in Directory \ {"organization"} =>
              Answer(u) = Listed(In(offered.page))
         /\ offered.page = "organization" => Answer(u) = Listed({Organization})
         /\ offered.page \notin Directory => Answer(u) = ReadUsers(u)
<1>1. ASSUME offered.page \in Directory \ {"organization"} PROVE Answer(u) = Listed(In(offered.page))
  BY <1>1
  DEF Directory, Answer, ListCustomers, ListSuppliers, ListExpenseCategories,
      ReadManagedCategories, ReadManagedItems, ListRegisters, ListBranches
<1>2. ASSUME offered.page = "organization" PROVE Answer(u) = Listed({Organization})
  BY <1>2 DEF Answer, ReadSettings
<1>3. ASSUME offered.page \notin Directory PROVE Answer(u) = ReadUsers(u)
  BY <1>3 DEF Directory, Answer
<1> QED
  BY <1>1, <1>2, <1>3

LEMMA AnswerSeen ==
  ASSUME PeopleInv, DirectoriesInv, NEW u, offered.page # "organization"
  PROVE  ListSeen(Answer(u))
<1>0. \A f \in Seat \cup RowIds : RowNow(f).version \in Nat
  BY VersionsNatural
<1>1. CASE offered.page \in Directory
  <2>1. Answer(u) = Listed(In(offered.page))
    BY <1>1, AnswerOf
  <2> SUFFICES ASSUME NEW e \in In(offered.page) PROVE Seen(e, Listed(In(offered.page))[e])
    BY <2>1 DEF ListSeen, Listed
  <2>2. /\ e \in RowIds /\ entries[e].status \in Status
        /\ RowNow(e) = entries[e]
    BY RowsOfTables DEF In, RowIds, RowNow
  <2>3. /\ Listed(In(offered.page))[e].status = entries[e].status
        /\ Listed(In(offered.page))[e].version = entries[e].version
    BY DEF Listed
  <2> QED
    BY <1>0, <2>2, <2>3 DEF Seen, Status
<1>2. CASE offered.page \notin Directory
  <2>1. Answer(u) = ReadUsers(u)
    BY <1>2, AnswerOf
  <2> SUFFICES ASSUME NEW e \in Visible(u) PROVE Seen(e, ReadUsers(u)[e])
    BY <2>1 DEF ListSeen, ReadUsers
  <2>2. e \in Seat /\ seats[e].status \in Status /\ RowNow(e) = seats[e]
    BY DEF Visible, RowNow
  <2>3. ReadUsers(u)[e].status = seats[e].status /\ ReadUsers(u)[e].version = seats[e].version
    BY DEF ReadUsers
  <2> QED
    BY <1>0, <2>2, <2>3 DEF Seen, Status
<1> QED
  BY <1>1, <1>2

(* What was done before the answer shows in the answer.                    *)
LEMMA AnswerShows ==
  ASSUME DirectoriesInv, NEW u, offered.page # "organization",
         NEW r, RequestTrue(r), NEW done \in ledger, Carries(done, r)
  PROVE  ShowsItsChange(r, Answer(u))
<1> DEFINE c == r.command
<1>1. LeftItsMark(done) /\ done.command = c
  BY DEF DirectoriesInv, LedgerInv, LedgerTrue, Carries
<1>2. CASE offered.page \in Directory
  <2>1. Answer(u) = Listed(In(offered.page)) /\ c.area = offered.page /\ c.area \in Directory
    BY <1>2, AnswerOf DEF RequestTrue
  <2>2. /\ DOMAIN Answer(u) = In(offered.page)
        /\ \A e \in In(offered.page) : Answer(u)[e].version = entries[e].version
    BY <2>1 DEF Listed
  <2>3. CASE c.act = "create"
    <3>1. done.new \in Entry /\ entries[done.new].directory = offered.page
      BY <1>1, <2>1, <2>3 DEF LeftItsMark
    <3>2. done.new \in DOMAIN Answer(u) \/ ~Live(done.new)
      BY <2>2, <3>1 DEF In, Live
    <3> QED
      BY <2>3, <3>2 DEF ShowsItsChange
  <2>4. CASE c.act # "create"
    <3>1. /\ c.version \in Nat
          /\ \/ entries[c.on].status = "DELETED"
             \/ c.version < entries[c.on].version /\ c.act \notin {"delete", "revoke"}
      BY <1>1, <2>1, <2>4 DEF LeftItsMark
    <3>2. entries[c.on].status = "DELETED" => c.on \notin In(offered.page)
      BY DEF In, Status
    <3>3. ASSUME c.on \in DOMAIN Answer(u)
          PROVE  c.act \notin {"delete", "revoke"} /\ Answer(u)[c.on].version > c.version
      BY <2>2, <3>1, <3>2, <3>3
    <3> QED
      BY <2>4, <3>3 DEF ShowsItsChange
  <2> QED
    BY <2>3, <2>4
<1>3. CASE offered.page \notin Directory
  <2>1. Answer(u) = ReadUsers(u) /\ c.area = "membership" /\ c.act # "create"
    BY <1>3, AnswerOf DEF RequestTrue, Careful
  <2>2. /\ c.version \in Nat /\ c.version < seats[c.on].version
        /\ seats[c.on].status = "REVOKED" \/ c.act \notin {"delete", "revoke"}
    BY <1>1, <2>1 DEF LeftItsMark
  <2>3. ASSUME c.on \in DOMAIN ReadUsers(u)
        PROVE  /\ c.act \notin {"delete", "revoke"}
               /\ ReadUsers(u)[c.on].version > c.version
    <3>1. c.on \in Visible(u) /\ ReadUsers(u)[c.on].version = seats[c.on].version
      BY <2>3 DEF ReadUsers
    <3>2. seats[c.on].status # "REVOKED"
      BY <3>1 DEF Visible, Status
    <3> QED
      BY <2>2, <3>1, <3>2
  <2> QED
    BY <2>1, <2>3 DEF ShowsItsChange
<1> QED
  BY <1>2, <1>3

LEMMA SettingsRead ==
  ASSUME DirectoriesInv, NEW u, offered.page = "organization"
  PROVE  Answer(u) \in SettingsList
<1>1. Answer(u) = [e \in {Organization} |->
                    [status |-> entries[e].status, version |-> entries[e].version]]
  BY AnswerOf DEF Listed
<1>2. /\ entries[Organization].status \in Status \cup {"ABSENT", "DELETED"}
      /\ entries[Organization].version \in Nat
  BY DEF DirectoriesInv, RowsInv, RowsTypeOK, RowIds
<1>3. [status |-> entries[Organization].status, version |-> entries[Organization].version]
        \in SettingsRow
  BY <1>2 DEF SettingsRow
<1> QED
  BY <1>1, <1>3 DEF SettingsList

(* The query moves on: the list, the forms and what is asked for change    *)
(* in one tab, and no request does.                                        *)
LEMMA QueryMoves ==
  ASSUME FormsInv, SameServer, requests' = requests, PageShapes', NEW t \in Tab,
         \A u \in Tab \ {t} :
           /\ lists'[u] = lists[u] /\ fetches'[u] = fetches[u] /\ editors'[u] = editors[u]
           /\ occupied'[u] = occupied[u],
         offered.page # "organization" =>
           /\ lists'[t] # Nothing => ListSeen(lists'[t])
           /\ fetches'[t].step = "ANSWERED" => ListSeen(fetches'[t].rows)
           /\ \A r \in requests : r.tab = t /\ r.outcome = "done" =>
                /\ lists'[t] # Nothing /\ fetches'[t].step = "IDLE"
                     => ShowsItsChange(r, lists'[t])
                /\ fetches'[t].step = "ANSWERED" => ShowsItsChange(r, fetches'[t].rows),
         offered.page = "membership" =>
           /\ \A e \in DOMAIN editors'[t] : Form(editors'[t][e])
           /\ lists'[t] # Nothing =>
                /\ DOMAIN editors'[t] = DOMAIN lists'[t]
                /\ \A e \in DOMAIN lists'[t] : editors'[t][e].filled = lists'[t][e].version,
         offered.page = "organization" =>
           /\ fetches'[t].step = "ANSWERED" => fetches'[t].rows \in SettingsList
           /\ IF lists'[t] = Nothing
              THEN DOMAIN editors'[t] = {} /\ occupied'[t] = Nothing
              ELSE /\ lists'[t] \in SettingsList /\ DOMAIN editors'[t] = {Organization}
                   /\ Form(editors'[t][Organization])
                   /\ editors'[t][Organization].filled = lists'[t][Organization].version
  PROVE  FormsInv'
<1>1. offered' = offered /\ ledger' = ledger
  BY DEF SameServer
<1>2. RequestsTrue'
  BY ServerStill DEF FormsInv, RequestsTrue
<1>3. ListsTrue'
  <2> SUFFICES ASSUME offered.page # "organization", NEW u \in Tab
               PROVE  /\ lists'[u] # Nothing => ListSeen(lists'[u])
                      /\ fetches'[u].step = "ANSWERED" => ListSeen(fetches'[u].rows)
    BY <1>1 DEF ListsTrue, SameServer, ListSeen, Seen, RowNow
  <2>1. CASE u = t
    BY <2>1
  <2>2. CASE u # t
    BY <2>2 DEF FormsInv, ListsTrue
  <2> QED
    BY <2>1, <2>2
<1>4. ChangesShown'
  <2> SUFFICES ASSUME offered.page # "organization", NEW r \in requests, r.outcome = "done"
               PROVE  /\ \E done \in ledger : Carries(done, r)
                      /\ lists'[r.tab] # Nothing /\ fetches'[r.tab].step = "IDLE"
                           => ShowsItsChange(r, lists'[r.tab])
                      /\ fetches'[r.tab].step = "ANSWERED"
                           => ShowsItsChange(r, fetches'[r.tab].rows)
    BY <1>1 DEF ChangesShown, Carries, ShowsItsChange, SameServer, Live
  <2>1. r.tab \in Tab /\ \E done \in ledger : Carries(done, r)
    BY DEF FormsInv, RequestsTrue, RequestTrue, ChangesShown
  <2>2. CASE r.tab = t
    BY <2>1, <2>2
  <2>3. CASE r.tab # t
    BY <2>1, <2>3 DEF FormsInv, ChangesShown
  <2> QED
    BY <2>1, <2>2, <2>3
<1>5. UsersTrue'
  BY <1>1 DEF FormsInv, UsersTrue, Form
<1>6. SettingsTrue'
  BY <1>1 DEF FormsInv, SettingsTrue, Form
<1> QED
  BY <1>2, <1>3, <1>4, <1>5, <1>6 DEF FormsInv

LEMMA QueryAsked ==
  ASSUME FormsInv, SameServer, NEW t \in Tab, UNCHANGED <<lists, editors, occupied, requests>>,
         fetches' = [fetches EXCEPT ![t] = Asked]
  PROVE  FormsInv'
<1>1. /\ PageShapes' /\ fetches'[t].step = "ASKED"
      /\ \A u \in Tab \ {t} : fetches'[u] = fetches[u]
  BY DEF FormsInv, PageShapes, Asked
<1>2. lists'[t] = lists[t] /\ editors'[t] = editors[t] /\ occupied'[t] = occupied[t]
  OBVIOUS
<1>3. /\ offered.page # "organization" /\ lists[t] # Nothing => ListSeen(lists[t])
      /\ offered.page = "membership" =>
           /\ \A e \in DOMAIN editors[t] : Form(editors[t][e])
           /\ lists[t] # Nothing =>
                /\ DOMAIN editors[t] = DOMAIN lists[t]
                /\ \A e \in DOMAIN lists[t] : editors[t][e].filled = lists[t][e].version
      /\ offered.page = "organization" =>
           IF lists[t] = Nothing
           THEN DOMAIN editors[t] = {} /\ occupied[t] = Nothing
           ELSE /\ lists[t] \in SettingsList /\ DOMAIN editors[t] = {Organization}
                /\ Form(editors[t][Organization])
                /\ editors[t][Organization].filled = lists[t][Organization].version
  BY DEF FormsInv, ListsTrue, UsersTrue, SettingsTrue
<1> QED
  BY <1>1, <1>2, <1>3, QueryMoves

LEMMA QueryAnswered ==
  ASSUME PeopleInv, DirectoriesInv, FormsInv, SameServer, NEW t \in Tab, ServerAnswers(t)
  PROVE  FormsInv'
<1> DEFINE rows == Answer(UserAt[t])
<1>0. /\ UNCHANGED <<lists, editors, occupied, requests>>
      /\ fetches' = [fetches EXCEPT ![t] = [step |-> "ANSWERED", rows |-> rows]]
  BY DEF ServerAnswers
<1>1. /\ offered.page # "organization" => ListSeen(rows)
      /\ offered.page = "organization" => rows \in SettingsList
  BY AnswerSeen, SettingsRead
<1>2. ASSUME NEW r \in requests, r.outcome = "done", offered.page # "organization"
      PROVE  ShowsItsChange(r, rows)
  <2>1. RequestTrue(r) /\ \E done \in ledger : Carries(done, r)
    BY <1>2 DEF FormsInv, RequestsTrue, ChangesShown
  <2> QED
    BY <1>2, <2>1, AnswerShows
<1> HIDE DEF rows
<1>3. /\ PageShapes' /\ fetches'[t].step = "ANSWERED" /\ fetches'[t].rows = rows
      /\ \A u \in Tab \ {t} : fetches'[u] = fetches[u]
  BY <1>0 DEF FormsInv, PageShapes
<1>4. lists'[t] = lists[t] /\ editors'[t] = editors[t] /\ occupied'[t] = occupied[t]
  BY <1>0
<1>5. /\ offered.page # "organization" /\ lists[t] # Nothing => ListSeen(lists[t])
      /\ offered.page = "membership" =>
           /\ \A e \in DOMAIN editors[t] : Form(editors[t][e])
           /\ lists[t] # Nothing =>
                /\ DOMAIN editors[t] = DOMAIN lists[t]
                /\ \A e \in DOMAIN lists[t] : editors[t][e].filled = lists[t][e].version
      /\ offered.page = "organization" =>
           IF lists[t] = Nothing
           THEN DOMAIN editors[t] = {} /\ occupied[t] = Nothing
           ELSE /\ lists[t] \in SettingsList /\ DOMAIN editors[t] = {Organization}
                /\ Form(editors[t][Organization])
                /\ editors[t][Organization].filled = lists[t][Organization].version
  BY DEF FormsInv, ListsTrue, UsersTrue, SettingsTrue
<1> QED
  BY <1>0, <1>1, <1>2, <1>3, <1>4, <1>5, QueryMoves

(* The page gives way to an error, or is loaded again.                     *)
LEMMA PageGone ==
  ASSUME FormsInv, SameServer, NEW t \in Tab, requests' = requests,
         lists' = [lists EXCEPT ![t] = Nothing], editors' = [editors EXCEPT ![t] = <<>>],
         occupied' = [occupied EXCEPT ![t] = Nothing],
         fetches' = [fetches EXCEPT ![t] = Idle] \/ fetches' = [fetches EXCEPT ![t] = Asked]
  PROVE  FormsInv'
<1>0. PICK idle, none :
        /\ idle.step # "ANSWERED" /\ DOMAIN none = {}
        /\ fetches' = [fetches EXCEPT ![t] = idle] /\ editors' = [editors EXCEPT ![t] = none]
  <2>1. Idle.step # "ANSWERED" /\ Asked.step # "ANSWERED"
    BY DEF Asked, Idle
  <2>2. DOMAIN <<>> = {}
    OBVIOUS
  <2> QED
    BY <2>1, <2>2
<1>1. /\ PageShapes' /\ fetches'[t].step # "ANSWERED" /\ lists'[t] = Nothing
      /\ DOMAIN editors'[t] = {} /\ occupied'[t] = Nothing
      /\ \A u \in Tab \ {t} :
           /\ lists'[u] = lists[u] /\ fetches'[u] = fetches[u] /\ editors'[u] = editors[u]
           /\ occupied'[u] = occupied[u]
  BY <1>0 DEF FormsInv, PageShapes
<1> QED
  BY <1>1, QueryMoves

LEMMA ListArrives ==
  ASSUME FormsInv, SameServer, NEW t \in Tab, Arrives(t)
  PROVE  FormsInv'
<1> DEFINE rows == fetches[t].rows
<1>0. /\ fetches[t].step = "ANSWERED" /\ fetches' = [fetches EXCEPT ![t] = Idle]
      /\ UNCHANGED <<occupied, requests>>
  BY DEF Arrives
<1>1. /\ offered.page # "organization" => ListSeen(rows)
      /\ offered.page = "organization" => rows \in SettingsList
      /\ \A r \in requests : r.outcome = "done" /\ r.tab = t /\ offered.page # "organization" =>
           ShowsItsChange(r, rows)
  BY <1>0 DEF FormsInv, ListsTrue, SettingsTrue, ChangesShown
<1>2. CASE offered.page = "organization" /\ lists[t] # Nothing
  <2>1. /\ PageShapes' /\ fetches'[t].step = "IDLE"
        /\ \A u \in Tab \ {t} : fetches'[u] = fetches[u]
        /\ UNCHANGED <<lists, editors>>
    BY <1>0, <1>2 DEF Arrives, FormsInv, PageShapes, Idle
  <2>2. /\ lists[t] \in SettingsList /\ DOMAIN editors[t] = {Organization}
        /\ Form(editors[t][Organization])
        /\ editors[t][Organization].filled = lists[t][Organization].version
    BY <1>2 DEF FormsInv, SettingsTrue
  <2>3. offered.page # "membership"
    BY <1>2
  <2> QED
    BY <1>0, <1>2, <2>1, <2>2, <2>3, QueryMoves
<1>3. CASE ~(offered.page = "organization" /\ lists[t] # Nothing)
  <2>1. /\ lists' = [lists EXCEPT ![t] = rows]
        /\ editors' = [editors EXCEPT ![t] =
             [e \in DOMAIN rows |->
                IF KeepsEditor(t, e, rows[e]) THEN editors[t][e] ELSE Fresh(rows[e])]]
    BY <1>3 DEF Arrives
  <2>2. /\ lists'[t] = rows /\ DOMAIN editors'[t] = DOMAIN rows /\ fetches'[t].step = "IDLE"
        /\ \A e \in DOMAIN rows :
             editors'[t][e] = IF KeepsEditor(t, e, rows[e]) THEN editors[t][e] ELSE Fresh(rows[e])
        /\ PageShapes'
        /\ \A u \in Tab \ {t} :
             lists'[u] = lists[u] /\ fetches'[u] = fetches[u] /\ editors'[u] = editors[u]
    BY <1>0, <2>1 DEF FormsInv, PageShapes, Idle
  <2> HIDE DEF rows
  <2>3. \A row : Form(Fresh(row)) /\ Fresh(row).filled = row.version
    BY DEF Form, Fresh
  <2>4. offered.page = "membership" =>
          \A e \in DOMAIN rows : Form(editors'[t][e]) /\ editors'[t][e].filled = rows[e].version
    BY <2>2, <2>3 DEF FormsInv, UsersTrue, KeepsEditor
  <2>5. offered.page = "organization" =>
          /\ rows # Nothing /\ DOMAIN rows = {Organization}
          /\ Form(editors'[t][Organization])
          /\ editors'[t][Organization].filled = rows[Organization].version
    <3> SUFFICES ASSUME offered.page = "organization"
                 PROVE  /\ rows # Nothing /\ DOMAIN rows = {Organization}
                        /\ Form(editors'[t][Organization])
                        /\ editors'[t][Organization].filled = rows[Organization].version
      OBVIOUS
    <3>1. rows # Nothing /\ DOMAIN rows = {Organization}
      BY <1>1, PagesAssumption DEF SettingsList, SettingsRow
    <3>2. lists[t] = Nothing /\ DOMAIN editors[t] = {}
      BY <1>3 DEF FormsInv, SettingsTrue
    <3>3. editors'[t][Organization] = Fresh(rows[Organization])
      BY <2>2, <3>1, <3>2 DEF KeepsEditor
    <3> QED
      BY <2>3, <3>1, <3>3
  <2> QED
    BY <1>0, <1>1, <2>2, <2>4, <2>5, QueryMoves
<1> QED
  BY <1>2, <1>3

-----------------------------------------------------------------------------
(* An answer arrives.                                                      *)
LEMMA FormRefilled ==
  ASSUME NEW old, Form(old), NEW v, NEW x, x = [old EXCEPT !.filled = v]
  PROVE  Form(x) /\ x.filled = v
BY DEF Form

Touched(old, x) ==
  \/ \E open, waiting : x = [old EXCEPT !.open = open, !.waiting = waiting]
  \/ \E waiting : x = [old EXCEPT !.waiting = waiting]

LEMMA FormTouched ==
  ASSUME NEW old, Form(old), NEW x, Touched(old, x)
  PROVE  Form(x) /\ x.filled = old.filled
<1>1. CASE \E open, waiting : x = [old EXCEPT !.open = open, !.waiting = waiting]
  <2>1. PICK open, waiting : x = [old EXCEPT !.open = open, !.waiting = waiting]
    BY <1>1
  <2> QED
    BY <2>1 DEF Form
<1>2. CASE \E waiting : x = [old EXCEPT !.waiting = waiting]
  <2>1. PICK waiting : x = [old EXCEPT !.waiting = waiting]
    BY <1>2
  <2> QED
    BY <2>1 DEF Form
<1> QED
  BY <1>1, <1>2 DEF Touched

(* A request is settled, and with it the forms of its tab.                 *)
LEMMA RequestSettles ==
  ASSUME FormsInv, SameServer, NEW r \in requests, NEW x, requests' = (requests \ {r}) \cup {x},
         x.tab = r.tab, x.key = r.key, x.command = r.command, x.filled = r.filled,
         x.outcome = "done" =>
           /\ \E done \in ledger : Carries(done, r)
           /\ offered.page # "organization" => fetches'[r.tab].step = "ASKED",
         PageShapes',
         \A u \in Tab \ {r.tab} :
           /\ lists'[u] = lists[u] /\ fetches'[u] = fetches[u] /\ editors'[u] = editors[u]
           /\ occupied'[u] = occupied[u],
         fetches'[r.tab] = fetches[r.tab] \/ fetches'[r.tab].step = "ASKED",
         offered.page # "organization" => lists'[r.tab] = lists[r.tab],
         offered.page = "membership" =>
           /\ DOMAIN editors'[r.tab] = DOMAIN editors[r.tab]
           /\ \A e \in DOMAIN editors[r.tab] :
                /\ Form(editors'[r.tab][e])
                /\ editors'[r.tab][e].filled = editors[r.tab][e].filled,
         offered.page = "organization" =>
           IF lists[r.tab] = Nothing
           THEN lists'[r.tab] = Nothing /\ DOMAIN editors'[r.tab] = {} /\ occupied'[r.tab] = Nothing
           ELSE /\ lists'[r.tab] \in SettingsList /\ DOMAIN editors'[r.tab] = {Organization}
                /\ Form(editors'[r.tab][Organization])
                /\ editors'[r.tab][Organization].filled = lists'[r.tab][Organization].version
  PROVE  FormsInv'
<1>0. offered' = offered /\ ledger' = ledger
  BY DEF SameServer
<1> DEFINE t == r.tab
<1>1. RequestTrue(r) /\ t \in Tab
  BY DEF FormsInv, RequestsTrue, RequestTrue
<1>2. RequestsTrue'
  <2>1. RequestTrue(x)
    BY <1>1 DEF RequestTrue
  <2> QED
    BY <2>1, ServerStill DEF FormsInv, RequestsTrue
<1>3. ListsTrue'
  <2> SUFFICES ASSUME offered.page # "organization", NEW u \in Tab
               PROVE  /\ lists'[u] # Nothing => ListSeen(lists'[u])
                      /\ fetches'[u].step = "ANSWERED" => ListSeen(fetches'[u].rows)
    BY <1>0 DEF ListsTrue, SameServer, ListSeen, Seen, RowNow
  <2>1. lists'[u] = lists[u] /\ (fetches'[u] = fetches[u] \/ fetches'[u].step = "ASKED")
    BY <1>1
  <2> QED
    BY <2>1 DEF FormsInv, ListsTrue
<1>4. ChangesShown'
  <2> SUFFICES ASSUME offered.page # "organization", NEW y \in requests', y.outcome = "done"
               PROVE  /\ \E done \in ledger : Carries(done, y)
                      /\ lists'[y.tab] # Nothing /\ fetches'[y.tab].step = "IDLE"
                           => ShowsItsChange(y, lists'[y.tab])
                      /\ fetches'[y.tab].step = "ANSWERED"
                           => ShowsItsChange(y, fetches'[y.tab].rows)
    BY <1>0 DEF ChangesShown, Carries, ShowsItsChange, SameServer, Live
  <2>1. CASE y = x
    BY <2>1 DEF Carries
  <2>2. CASE y \in requests
    <3>1. /\ RequestTrue(y) /\ \E done \in ledger : Carries(done, y)
          /\ lists[y.tab] # Nothing /\ fetches[y.tab].step = "IDLE"
               => ShowsItsChange(y, lists[y.tab])
          /\ fetches[y.tab].step = "ANSWERED" => ShowsItsChange(y, fetches[y.tab].rows)
      BY <2>2 DEF FormsInv, RequestsTrue, ChangesShown
    <3>2. /\ lists'[y.tab] = lists[y.tab]
          /\ fetches'[y.tab] = fetches[y.tab] \/ fetches'[y.tab].step = "ASKED"
      BY <1>1, <3>1 DEF RequestTrue
    <3> QED
      BY <3>1, <3>2
  <2> QED
    BY <2>1, <2>2
<1>5. UsersTrue'
  <2> SUFFICES ASSUME offered.page = "membership", NEW u \in Tab
               PROVE  /\ \A e \in DOMAIN editors'[u] : Form(editors'[u][e])
                      /\ lists'[u] # Nothing =>
                           /\ DOMAIN editors'[u] = DOMAIN lists'[u]
                           /\ \A e \in DOMAIN lists'[u] : editors'[u][e].filled = lists'[u][e].version
    BY <1>0 DEF UsersTrue, Form
  <2>1. /\ \A e \in DOMAIN editors[u] : Form(editors[u][e])
        /\ lists[u] # Nothing =>
             /\ DOMAIN editors[u] = DOMAIN lists[u]
             /\ \A e \in DOMAIN lists[u] : editors[u][e].filled = lists[u][e].version
    BY DEF FormsInv, UsersTrue
  <2>2. CASE u # t
    BY <2>1, <2>2
  <2>3. CASE u = t
    BY <2>1, <2>3
  <2> QED
    BY <2>2, <2>3
<1>6. SettingsTrue'
  <2> SUFFICES ASSUME offered.page = "organization", NEW u \in Tab
               PROVE  /\ fetches'[u].step = "ANSWERED" => fetches'[u].rows \in SettingsList
                      /\ IF lists'[u] = Nothing
                         THEN DOMAIN editors'[u] = {} /\ occupied'[u] = Nothing
                         ELSE /\ lists'[u] \in SettingsList /\ DOMAIN editors'[u] = {Organization}
                              /\ Form(editors'[u][Organization])
                              /\ editors'[u][Organization].filled = lists'[u][Organization].version
    BY <1>0 DEF SettingsTrue, Form
  <2>1. /\ fetches[u].step = "ANSWERED" => fetches[u].rows \in SettingsList
        /\ IF lists[u] = Nothing
           THEN DOMAIN editors[u] = {} /\ occupied[u] = Nothing
           ELSE /\ lists[u] \in SettingsList /\ DOMAIN editors[u] = {Organization}
                /\ Form(editors[u][Organization])
                /\ editors[u][Organization].filled = lists[u][Organization].version
    BY DEF FormsInv, SettingsTrue
  <2>2. CASE u # t
    BY <2>1, <2>2
  <2>3. CASE u = t
    <3>1. lists'[t] \in SettingsList => lists'[t] # Nothing
      BY PagesAssumption DEF SettingsList, SettingsRow
    <3> QED
      BY <2>1, <2>3, <3>1
  <2> QED
    BY <2>2, <2>3
<1> QED
  BY <1>2, <1>3, <1>4, <1>5, <1>6 DEF FormsInv

LEMMA SavedOrRefused ==
  ASSUME RequestsWellFormed, FormsInv, SameServer, NEW r \in requests, Succeeds(r) \/ Fails(r)
  PROVE  FormsInv'
<1> DEFINE t == r.tab
<1>1. RequestTrue(r) /\ t \in Tab /\ r.key # Nothing
  BY DEF FormsInv, RequestsTrue, RequestTrue
<1>2. PICK o \in {"done", "failed"} :
        /\ Settled(r, o)
        /\ o = "done" =>
             /\ \E done \in ledger : Carries(done, r)
             /\ IF offered.page = "organization" THEN SettingsSaved(r) ELSE Saved(r)
        /\ o = "failed" => Fails(r)
  BY DEF Succeeds, Fails
<1>3. PICK x :
        /\ requests' = (requests \ {r}) \cup {x}
        /\ x.tab = t /\ x.key = r.key /\ x.command = r.command /\ x.filled = r.filled
        /\ x.outcome = o
  <2>1. r \in [tab: {r.tab}, key: {r.key}, command: {r.command}, filled: {r.filled},
               outcome: {r.outcome}, received: {r.received}]
    BY DEF RequestsWellFormed
  <2>2. requests' = (requests \ {r}) \cup {[r EXCEPT !.outcome = o]}
    BY <1>2 DEF Settled
  <2>3. PICK x : x = [r EXCEPT !.outcome = o]
    OBVIOUS
  <2>4. /\ x.tab = t /\ x.key = r.key /\ x.command = r.command /\ x.filled = r.filled
        /\ x.outcome = o
    BY <2>1, <2>3
  <2> QED
    BY <2>2, <2>3, <2>4
<1>4. /\ occupied' = [occupied EXCEPT ![t] = IF occupied[t] = r.key THEN Nothing ELSE occupied[t]]
      /\ occupied = [u \in Tab |-> occupied[u]] /\ editors = [u \in Tab |-> editors[u]]
      /\ lists = [u \in Tab |-> lists[u]] /\ fetches = [u \in Tab |-> fetches[u]]
  BY <1>2 DEF Settled, FormsInv, PageShapes
<1> HIDE DEF t
<1>5. /\ occupied' = [u \in Tab |-> occupied'[u]]
      /\ \A u \in Tab \ {t} : occupied'[u] = occupied[u]
      /\ occupied[t] = Nothing => occupied'[t] = Nothing
  BY <1>1, <1>4
<1>6. CASE offered.page = "organization" /\ o = "done"
  <2>1. SettingsSaved(r) /\ fetches' = fetches
    BY <1>2, <1>6 DEF SettingsSaved
  <2>2. CASE occupied[t] = r.key
    <3>1. /\ lists[t] \in SettingsList /\ DOMAIN editors[t] = {Organization}
          /\ Form(editors[t][Organization]) /\ lists[t] # Nothing
      BY <1>1, <1>6, <2>2 DEF FormsInv, SettingsTrue
    <3>2. r.command.version + 1 \in Nat
      BY <1>1, <1>6 DEF RequestTrue, Careful
    <3>3. PICK v \in Nat :
            /\ lists' = [lists EXCEPT ![t][Organization].version = v]
            /\ editors' = [editors EXCEPT ![t][Organization].filled = v]
      BY <2>1, <2>2, <3>2 DEF SettingsSaved, t
    <3>4. PICK row, form :
            /\ row = [lists[t][Organization] EXCEPT !.version = v]
            /\ form = [editors[t][Organization] EXCEPT !.filled = v]
      OBVIOUS
    <3>5. /\ lists' = [lists EXCEPT ![t] = [lists[t] EXCEPT ![Organization] = row]]
          /\ editors' = [editors EXCEPT ![t] = [editors[t] EXCEPT ![Organization] = form]]
      BY <3>3, <3>4
    <3>6. row \in SettingsRow /\ row.version = v
      BY <3>1, <3>4 DEF SettingsList, SettingsRow
    <3>7. Form(form) /\ form.filled = v
      BY <3>1, <3>4, FormRefilled
    <3>8. /\ lists'[t] = [lists[t] EXCEPT ![Organization] = row]
          /\ editors'[t] = [editors[t] EXCEPT ![Organization] = form]
          /\ lists' = [u \in Tab |-> lists'[u]] /\ editors' = [u \in Tab |-> editors'[u]]
          /\ \A u \in Tab \ {t} : lists'[u] = lists[u] /\ editors'[u] = editors[u]
      BY <1>1, <1>4, <3>5
    <3>9. /\ lists'[t] \in SettingsList /\ lists'[t][Organization] = row
          /\ DOMAIN editors'[t] = {Organization} /\ editors'[t][Organization] = form
      BY <3>1, <3>6, <3>8 DEF SettingsList
    <3>10. PageShapes'
      BY <1>4, <1>5, <2>1, <3>8 DEF PageShapes
    <3>11. offered.page = "organization" =>
             IF lists[t] = Nothing
             THEN lists'[t] = Nothing /\ DOMAIN editors'[t] = {} /\ occupied'[t] = Nothing
             ELSE /\ lists'[t] \in SettingsList /\ DOMAIN editors'[t] = {Organization}
                  /\ Form(editors'[t][Organization])
                  /\ editors'[t][Organization].filled = lists'[t][Organization].version
      BY <3>1, <3>6, <3>7, <3>9
    <3>12. \A u \in Tab \ {t} :
             /\ lists'[u] = lists[u] /\ fetches'[u] = fetches[u] /\ editors'[u] = editors[u]
             /\ occupied'[u] = occupied[u]
      BY <1>5, <2>1, <3>8
    <3>13. offered.page # "membership" /\ fetches'[t] = fetches[t]
      BY <1>6, <2>1
    <3> QED
      BY <1>2, <1>3, <1>6, <3>10, <3>11, <3>12, <3>13, RequestSettles DEF t
  <2>3. CASE occupied[t] # r.key
    <3>1. lists' = lists /\ editors' = editors
      BY <2>1, <2>3 DEF SettingsSaved, t
    <3>2. PageShapes'
      BY <1>4, <1>5, <2>1, <3>1 DEF PageShapes
    <3>3. IF lists[t] = Nothing
          THEN DOMAIN editors[t] = {} /\ occupied[t] = Nothing
          ELSE /\ lists[t] \in SettingsList /\ DOMAIN editors[t] = {Organization}
               /\ Form(editors[t][Organization])
               /\ editors[t][Organization].filled = lists[t][Organization].version
      BY <1>1, <1>6 DEF FormsInv, SettingsTrue
    <3> QED
      BY <1>1, <1>2, <1>3, <1>5, <1>6, <2>1, <3>1, <3>2, <3>3, RequestSettles DEF t
  <2> QED
    BY <2>2, <2>3
<1>7. CASE ~(offered.page = "organization" /\ o = "done")
  <2>1. /\ lists' = lists
        /\ \/ o = "done" /\ Saved(r)
           \/ o = "failed" /\ Fails(r) /\ fetches' = fetches
    BY <1>2, <1>7 DEF Saved, Fails
  <2>2. PICK forms :
          /\ editors' = [editors EXCEPT ![t] = [e \in DOMAIN editors[t] |-> forms[e]]]
          /\ \A e \in DOMAIN editors[t] : Touched(editors[t][e], forms[e])
    <3>1. PICK saved, failed :
            /\ saved = [e \in DOMAIN editors[t] |->
                          [editors[t][e] EXCEPT !.open = Closed(r, e),
                             !.waiting = IF editors[t][e].waiting = r.key THEN Nothing
                                         ELSE editors[t][e].waiting]]
            /\ failed = [e \in DOMAIN editors[t] |->
                           [editors[t][e] EXCEPT
                              !.waiting = IF editors[t][e].waiting = r.key THEN Nothing
                                          ELSE editors[t][e].waiting]]
      OBVIOUS
    <3>2. CASE o = "done"
      <4>1. editors' = [editors EXCEPT ![t] = saved]
        BY <2>1, <3>1, <3>2 DEF Saved, t
      <4>2. saved = [e \in DOMAIN editors[t] |-> saved[e]]
        BY <3>1
      <4>3. \A e \in DOMAIN editors[t] : Touched(editors[t][e], saved[e])
        BY <3>1 DEF Touched
      <4> QED
        BY <4>1, <4>2, <4>3
    <3>3. CASE o # "done"
      <4>1. editors' = [editors EXCEPT ![t] = failed]
        BY <2>1, <3>1, <3>3 DEF Fails, t
      <4>2. failed = [e \in DOMAIN editors[t] |-> failed[e]]
        BY <3>1
      <4>3. \A e \in DOMAIN editors[t] : Touched(editors[t][e], failed[e])
        BY <3>1 DEF Touched
      <4> QED
        BY <4>1, <4>2, <4>3
    <3> QED
      BY <3>2, <3>3
  <2>3. /\ editors' = [u \in Tab |-> editors'[u]]
        /\ \A u \in Tab \ {t} : editors'[u] = editors[u]
        /\ DOMAIN editors'[t] = DOMAIN editors[t]
        /\ \A e \in DOMAIN editors[t] : editors'[t][e] = forms[e]
    BY <1>1, <1>4, <2>2
  <2>4. ASSUME NEW e \in DOMAIN editors[t], Form(editors[t][e])
        PROVE  Form(editors'[t][e]) /\ editors'[t][e].filled = editors[t][e].filled
    <3>1. PICK old, form : old = editors[t][e] /\ form = editors'[t][e]
      OBVIOUS
    <3>2. Form(old) /\ Touched(old, form)
      BY <2>2, <2>3, <2>4, <3>1
    <3>3. Form(form) /\ form.filled = old.filled
      BY <3>2, FormTouched
    <3> QED
      BY <3>1, <3>3
  <2>5. /\ fetches' = [u \in Tab |-> fetches'[u]]
        /\ \A u \in Tab \ {t} : fetches'[u] = fetches[u]
        /\ fetches'[t] = fetches[t] \/ fetches'[t].step = "ASKED"
        /\ o = "done" => fetches'[t].step = "ASKED"
    <3>1. CASE o = "done"
      <4>1. PICK asked : asked.step = "ASKED" /\ fetches' = [fetches EXCEPT ![t] = asked]
        <5>1. Asked.step = "ASKED"
          BY DEF Asked
        <5> QED
          BY <2>1, <3>1, <5>1 DEF Saved, Refetched, t
      <4> QED
        BY <1>1, <1>4, <4>1
    <3>2. CASE o # "done"
      BY <1>1, <1>4, <2>1, <3>2
    <3> QED
      BY <3>1, <3>2
  <2>6. PageShapes'
    BY <1>4, <1>5, <2>1, <2>3, <2>5 DEF PageShapes
  <2>7. offered.page = "membership" =>
          \A e \in DOMAIN editors[t] :
            Form(editors'[t][e]) /\ editors'[t][e].filled = editors[t][e].filled
    BY <1>1, <2>4 DEF FormsInv, UsersTrue
  <2>8. offered.page = "organization" =>
          IF lists[t] = Nothing
          THEN DOMAIN editors'[t] = {} /\ occupied'[t] = Nothing
          ELSE /\ lists'[t] \in SettingsList /\ DOMAIN editors'[t] = {Organization}
               /\ Form(editors'[t][Organization])
               /\ editors'[t][Organization].filled = lists'[t][Organization].version
    BY <1>1, <1>5, <2>1, <2>3, <2>4 DEF FormsInv, SettingsTrue
  <2> QED
    BY <1>1, <1>2, <1>3, <1>5, <1>7, <2>1, <2>3, <2>5, <2>6, <2>7, <2>8, RequestSettles DEF t
<1> QED
  BY <1>6, <1>7

-----------------------------------------------------------------------------
(* Every step.                                                             *)
LEMMA TabMoves ==
  ASSUME PeopleInv, DirectoriesInv, FormsInv, SameServer, NEW t \in Tab, PageStep(t)
  PROVE  FormsInv'
<1>1. CASE Ask(t) \/ ReloadUsers(t)
  BY <1>1, QueryAsked DEF Ask, ReloadUsers, Refetched
<1>2. CASE FetchFails(t) \/ ReloadSettings(t)
  BY <1>2, PageGone DEF FetchFails, ReloadSettings
<1>3. CASE PageForm(t) /\ ~(ReloadUsers(t) \/ ReloadSettings(t))
  <2>1. offered.page \in Directory \ Careful /\ \E parent : Create(t, parent)
    BY <1>3
    DEF PageForm, CustomerPage, SupplierPage, CatalogItemPage, CashRegisterPage, CategoryPage,
        BranchPage, Directory, Careful
  <2> QED
    BY <2>1, CreationSent
<1> QED
  BY <1>1, <1>2, <1>3, QueryAnswered, ListArrives, RowMoves DEF PageStep

LEMMA PagesEvolve ==
  ASSUME PagesInv, DirectoriesInv, [PagesNext]_<<workspaceVars, pageVars>>
  PROVE  Evolves
<1>1. CASE UNCHANGED workspaceVars
  BY <1>1, NothingEvolves DEF workspaceVars, directoryVars, peopleVars, commandVars
<1>2. CASE WorkspaceNext
  BY <1>2, StepEvolves DEF PagesInv
<1>3. ASSUME NEW r, ServerReceives(r) PROVE Evolves
  BY <1>3, NothingEvolves
  DEF ServerReceives, Begin, BeginUnkeyed, Open, directoryVars, peopleVars
<1> QED
  BY <1>1, <1>2, <1>3 DEF PagesNext

LEMMA FormsKept ==
  ASSUME PagesInv, DirectoriesInv, FormsInv, PagesInv', DirectoriesInv',
         [PagesNext]_<<workspaceVars, pageVars>>
  PROVE  FormsInv'
<1>1. Evolves
  BY PagesEvolve
<1>2. \A e \in Seat \cup RowIds : RowNow(e).version \in Nat /\ RowNow(e)'.version \in Nat
  BY VersionsNatural, VersionsStayNatural DEF PagesInv
<1>3. CASE UNCHANGED pageVars
  <2>1. UNCHANGED <<lists, fetches, editors, occupied>> /\ requests' = requests
    BY <1>3 DEF pageVars
  <2> QED
    BY <1>1, <1>2, <2>1, ServerMoves
<1>4. ASSUME NEW r \in requests, ServerReceives(r) PROVE FormsInv'
  <2>1. r \in [tab: {r.tab}, key: {r.key}, command: {r.command}, filled: {r.filled},
               outcome: {r.outcome}, received: {r.received}]
    BY DEF PagesInv, RequestsWellFormed
  <2>2. PICK x : x = [r EXCEPT !.received = TRUE]
    OBVIOUS
  <2>3. /\ x.tab = r.tab /\ x.key = r.key /\ x.command = r.command /\ x.filled = r.filled
        /\ x.outcome = r.outcome
    BY <2>1, <2>2
  <2>4. /\ requests' = (requests \ {r}) \cup {x}
        /\ UNCHANGED <<lists, fetches, editors, occupied>>
    BY <1>4, <2>2 DEF ServerReceives
  <2> QED
    BY <1>1, <1>2, <2>3, <2>4, ServerMoves
<1>5. ASSUME UNCHANGED workspaceVars PROVE SameServer
  BY <1>5 DEF workspaceVars, directoryVars, peopleVars, commandVars, SameServer
<1>6. ASSUME NEW t \in Tab, PageStep(t), UNCHANGED workspaceVars PROVE FormsInv'
  BY <1>5, <1>6, TabMoves DEF PagesInv
<1>7. ASSUME NEW r \in requests, Succeeds(r) \/ Fails(r), UNCHANGED workspaceVars PROVE FormsInv'
  BY <1>5, <1>7, SavedOrRefused DEF PagesInv
<1> QED
  BY <1>3, <1>4, <1>6, <1>7 DEF PagesNext

LEMMA ShownIsDone == FormsInv => ShowsWhatItDid
BY DEF FormsInv, ChangesShown, ShowsWhatItDid

(* A command that commits found its row in the version it names.           *)
LEMMA FindsItsVersion ==
  ASSUME PagesInv, DirectoriesInv, NEW t \in transactions, Commit(t),
         t.command.area \in Directory \cup {"membership"}, t.command.act # "create"
  PROVE  /\ VersionOf(t.command) = t.command.version
         /\ StatusOf(t.command) = RowNow(t.command.on).status
         /\ VersionOf(t.command) = RowNow(t.command.on).version
         /\ t.command.act = "status" /\ t.command.area = "cash_register"
              => StatusOf(t.command) = "ACTIVE"
<1> DEFINE c == t.command
<1>1. /\ StatusOf(c) = RowNow(c.on).status /\ VersionOf(c) = RowNow(c.on).version
  BY DEF StatusOf, VersionOf, RowNow
<1>2. CASE c.area \in Directory
  <2>1. t \in StagedRows /\ EntryOf(t) = c.on
    BY <1>2 DEF Commit, StagedRows, EntryOf
  <2>2. RowChecked(c, c.on)
    BY <2>1 DEF DirectoriesInv, ChangesInv, RowsChecked
  <2>3. /\ c.on \in RowIds /\ entries[c.on].version = c.version
        /\ c.act = "status" /\ c.area = "cash_register" => entries[c.on].status = "ACTIVE"
    BY <2>2 DEF RowChecked
  <2> QED
    BY <1>1, <2>3, RowsOfTables DEF RowNow
<1>3. CASE c.area = "membership"
  <2>1. Staged(t, "membership")
    BY <1>3 DEF Commit, Staged
  <2>2. c.on \in Seat /\ seats[c.on].version = c.version
    BY <2>1 DEF PagesInv, PeopleInv, StagedMemberships, DirectoriesInv, ChangesInv, StagedSeats
  <2> QED
    BY <1>1, <1>3, <2>2 DEF RowNow
<1> QED
  BY <1>2, <1>3

LEMMA ActsAsShown ==
  ASSUME PagesInv, DirectoriesInv, FormsInv, [PagesNext]_<<workspaceVars, pageVars>>,
         NEW done \in ledger' \ ledger, NEW r \in requests, Carries(done, r)
  PROVE  /\ r.command.act = "status" => StatusOf(r.command) # r.command.value
         /\ r.command.act = "role" \/ r.command.area = "organization"
              => VersionOf(r.command) = r.filled
<1> DEFINE c == r.command
<1>1. PICK t \in transactions : Commit(t) /\ done = Record(t)
  <2>1. CASE WorkspaceNext
    <3>1. PICK t \in transactions : Commit(t)
      BY <2>1, DirectoryStages
      DEF WorkspaceNext, Begin, BeginUnkeyed, Open, Service, MembershipService, Stage, ChangeRole,
          Revoke, SetStatus, CreateInvitation, Resend, RevokeInvitation, Rollback, SellTo,
          BuyFrom, SpendOn, Refer, Lapse, AcceptExistingAccount, AcceptNewAccount, ExpireOnUse,
          HandleEmail, HandleExpiration, Handle, SendMail, FinishJob, WorkerStep, commandVars
    <3> QED
      BY <3>1 DEF Commit, Record
  <2>2. ASSUME NEW x, ServerReceives(x) PROVE ledger' = ledger
    BY <2>2 DEF ServerReceives, Begin, BeginUnkeyed, Open
  <2>3. CASE UNCHANGED workspaceVars
    BY <2>3 DEF workspaceVars, commandVars
  <2> QED
    BY <2>1, <2>2, <2>3 DEF PagesNext
<1>2. t.command = c
  BY <1>1 DEF Record, Carries
<1>3. RequestTrue(r)
  BY DEF FormsInv, RequestsTrue
<1>4. c.area \in Directory \cup {"membership"}
  BY <1>3 DEF RequestTrue
<1>5. c.act # "create" =>
        /\ VersionOf(c) = c.version /\ StatusOf(c) = RowNow(c.on).status
        /\ VersionOf(c) = RowNow(c.on).version
        /\ c.act = "status" /\ c.area = "cash_register" => StatusOf(c) = "ACTIVE"
  BY <1>1, <1>2, <1>4, FindsItsVersion
<1>6. ASSUME c.act = "status" PROVE StatusOf(c) # c.value
  <2>1. CASE c.area = "cash_register"
    BY <1>3, <1>5, <1>6, <2>1 DEF RequestTrue
  <2>2. CASE c.area # "cash_register"
    <3>1. Switches(c)
      BY <1>3, <1>6, <2>2 DEF RequestTrue
    <3>2. RowNow(c.on).version = c.version /\ c.version \in Nat
      BY <1>5, <1>6, <3>1 DEF Switches
    <3> QED
      BY <1>5, <1>6, <3>1, <3>2 DEF Switches
  <2> QED
    BY <2>1, <2>2
<1>7. ASSUME c.act = "role" \/ c.area = "organization" PROVE VersionOf(c) = r.filled
  <2>1. c.area \in Careful /\ c.act # "create"
    BY <1>3, <1>7 DEF RequestTrue, Careful
  <2> QED
    BY <1>3, <1>5, <2>1 DEF RequestTrue
<1> QED
  BY <1>6, <1>7

-----------------------------------------------------------------------------
(* What the locks keep true (PeopleInv), that jobs and letters are about   *)
(* invitations, and that pages send what the schemas let through hold of   *)
(* every state, whatever users send, workers retry and processes die.      *)
THEOREM PagesInvariant == PagesSpec => []PagesInv
<1>1. PagesInit => PagesInv
  BY Initially, MailInitially DEF PagesInit, PagesInv, RequestsWellFormed
<1> QED
  BY <1>1, PagesInvPreserved, PTL DEF PagesSpec

(* The organization never loses its last active OWNER                      *)
(* (requireRemainingOwner and lockOrganization of                             *)
(* membership-administration.service.ts), for any users, commands, open    *)
(* pages and workers.                                                      *)
THEOREM OwnerAlwaysRemains == PagesSpec => []OwnerRemains
<1>1. PagesInv => OwnerRemains
  BY DEF PagesInv, PeopleInv
<1> QED
  BY <1>1, PagesInvariant, PTL

(* A membership comes of an invitation exactly when that was accepted, an  *)
(* answered revocation stands, and nobody has two live memberships.        *)
THEOREM InvitationsHonoured == PagesSpec => []InvitationHonoured
<1>1. PagesInv => InvitationHonoured
  BY DEF PagesInv, PeopleInv
<1> QED
  BY <1>1, PagesInvariant, PTL

(* "A revoked, expired or superseded token must never be mailed on a       *)
(* retry" (runtime-worker.ts): what is sent is the last token of an        *)
(* invitation still pending, however often jobs are retried, workers die   *)
(* and leases run out.                                                     *)
THEOREM NoDeadTokenMailed == PagesSpec => NeverMailsDeadToken
<1>1. ASSUME PagesInv, [PagesNext]_<<workspaceVars, pageVars>>
      PROVE  [\A m \in mailed' \ mailed : Answers(m[1], m[2])]_workspaceVars
  <2>1. CASE mailed' = mailed
    BY <2>1
  <2>2. CASE WorkspaceNext
    BY <1>1, <2>2, MailedLive DEF PagesInv
  <2>3. ASSUME NEW r, ServerReceives(r) PROVE mailed' = mailed
    BY <2>3 DEF ServerReceives, Begin, BeginUnkeyed, Open, mailVars
  <2> QED
    BY <1>1, <2>1, <2>2, <2>3 DEF PagesNext, workspaceVars, mailVars
<1> QED
  BY <1>1, PagesInvariant, PTL DEF PagesSpec, NeverMailsDeadToken

(* What the keys, the locks of rows and the versions keep true of the      *)
(* directories and of the records of completed commands.                   *)
THEOREM DirectoriesHold == PagesSpec => [](PagesInv /\ DirectoriesInv)
<1>1. PagesInit => DirectoriesInv
  BY RowsInitially DEF PagesInit
<1>2. PagesInv /\ DirectoriesInv /\ [PagesNext]_<<workspaceVars, pageVars>>
        => DirectoriesInv'
  BY DirectoriesKept
<1> QED
  BY <1>1, <1>2, PagesInvariant, PTL DEF PagesSpec

(* No command takes effect twice under one key, no two changes replace the *)
(* same version of a row, nothing that history refers to is deleted, codes *)
(* stay unique and nothing is in a category or branch that is gone         *)
(* (acquireIdempotencyKey, the FOR UPDATE of each service, the unique      *)
(* indexes and the foreign keys), for any users, commands, retries, open   *)
(* pages and workers.                                                      *)
THEOREM NothingIsLostOrDoubled == PagesSpec => []NothingLostOrDoubled
<1>1. PagesInv /\ DirectoriesInv => NothingLostOrDoubled
  BY NothingIsLost
<1> QED
  BY <1>1, DirectoriesHold, PTL

(* What the pages keep true of their lists, forms and requests.            *)
THEOREM FormsHold == PagesSpec => [](PagesInv /\ DirectoriesInv /\ FormsInv)
<1>1. PagesInit => FormsInv
  BY FormsInitially
<1>2. /\ PagesInv /\ DirectoriesInv /\ FormsInv /\ PagesInv' /\ DirectoriesInv'
      /\ [PagesNext]_<<workspaceVars, pageVars>>
      => FormsInv'
  BY FormsKept
<1> QED
  BY <1>1, <1>2, DirectoriesHold, PTL DEF PagesSpec

(* Once a page has announced a change and its list is at rest, the list    *)
(* shows the change or a later one (onReload of workspace.tsx, invalidate  *)
(* of the pages), however fetches, answers and the changes of others       *)
(* overtake each other.                                                    *)
THEOREM PagesShowWhatTheyDid == PagesSpec => []ShowsWhatItDid
<1>1. PagesInv /\ DirectoriesInv /\ FormsInv => ShowsWhatItDid
  BY ShownIsDone
<1> QED
  BY <1>1, FormsHold, PTL

(* A button does what it said: a new status never commits on a row that    *)
(* has it, and a role or the settings replace the version their form was   *)
(* filled from (user-management.tsx, organization-settings.tsx), whatever  *)
(* others have changed since.                                              *)
THEOREM PagesActOnWhatTheyShow == PagesSpec => ActsOnWhatItShows
<1>1. ASSUME PagesInv, DirectoriesInv, FormsInv, [PagesNext]_<<workspaceVars, pageVars>>
      PROVE  [\A done \in ledger' \ ledger, r \in requests :
                Carries(done, r) =>
                  /\ r.command.act = "status" => StatusOf(r.command) # r.command.value
                  /\ r.command.act = "role" \/ r.command.area = "organization"
                       => VersionOf(r.command) = r.filled]_<<workspaceVars, pageVars>>
  BY <1>1, ActsAsShown
<1> QED
  BY <1>1, FormsHold, PTL DEF PagesSpec, ActsOnWhatItShows
=============================================================================
