------------------------------ MODULE Commands ------------------------------
(***************************************************************************)
(* How a command of the back office is carried out: an HTTP request that   *)
(* is one transaction of READ COMMITTED PostgreSQL.  Begin authorizes it,  *)
(* with the row locks that takes, and inserts its idempotency key; the     *)
(* action of its service (Directories, Memberships) takes the other locks, *)
(* checks what it finds committed and decides; Commit makes it visible.  A *)
(* refusal, a crash, a lost connection and the victim of a deadlock are a  *)
(* Rollback.  A retry after the commit is answered from the stored         *)
(* response, or refused to another actor or payload, and writes nothing,   *)
(* so it is no step here.                                                  *)
(*                                                                         *)
(* The organization is ACTIVE and has one branch, which every role but     *)
(* OWNER is assigned to: the branch scope of an ADMIN never refuses.       *)
(***************************************************************************)
EXTENDS Outbox

CONSTANTS
  Nothing,
  User,          \* people, each with one e-mail address
  Founder,       \* the memberships there are at the start: an OWNER each
  UserOf,        \* and whose they are
  Invitation,    \* ids of invitations
  Entry,         \* ids of the rows of the directories
  Organization,  \* the row of organizations
  Code, NoCode,  \* tax ids, SKUs and names that must be unique, and any other
  Key,           \* idempotency keys; of a command that has none, the request
  Agenda,        \* bound: of one execution, the commands, the invitations, the rows
                 \* there are at its start and, for Pages, the page that is open
                 \* and how many requests it sends
  MaxOpen,       \* bound: commands under way at once
  MaxToken       \* bound: tokens of one invitation

VARIABLES
  offered,       \* the agenda of this execution
  transactions,  \* commands under way, none of their writes visible
  ledger,        \* commands completed: with a key, idempotency_records
  entries,       \* the rows of the directories
  used,          \* entries that sales, purchases or expenses refer to
  seats,         \* memberships; an invitation's is named after it
  accounts,      \* people with a row in users
  invitations,
  lapsed,        \* the tokens of an invitation whose expires_at has passed
  mailed         \* <<invitation, token>>: what has been sent

directoryVars == <<entries, used>>
peopleVars == <<seats, accounts, invitations>>
mailVars == <<lapsed, mailed>>
commandVars == <<offered, transactions, ledger>>
workspaceVars == <<outboxVars, directoryVars, peopleVars, mailVars, commandVars>>

Seat == Founder \cup Invitation
Role == {"OWNER", "ADMIN", "CASHIER", "EMPLOYEE"}
Managers == {"OWNER", "ADMIN"}
Status == {"ACTIVE", "INACTIVE"}

Membership ==
  [user: User \cup {Nothing}, role: Role, status: Status \cup {"ABSENT", "REVOKED"},
   version: Nat]
NoMembership == [user |-> Nothing, role |-> "EMPLOYEE", status |-> "ABSENT", version |-> 0]

Invited ==
  [user: User \cup {Nothing}, role: Role, token: Nat,
   status: {"ABSENT", "PENDING", "ACCEPTED", "EXPIRED", "REVOKED"}]
NoInvitation == [user |-> Nothing, role |-> "EMPLOYEE", token |-> 0, status |-> "ABSENT"]

(* parent: the category of an item, the branch of a register.              *)
Directory ==
  {"customer", "supplier", "expense_category", "catalog_category", "catalog_item",
   "branch", "cash_register", "organization"}
Row ==
  [directory: Directory \cup {"none"}, code: Code \cup {NoCode}, parent: Entry \cup {Nothing},
   status: Status \cup {"ABSENT", "DELETED"}, version: Nat]
NoRow == [directory |-> "none", code |-> NoCode, parent |-> Nothing, status |-> "ABSENT",
          version |-> 0]

(* A command: its idempotency scope, area.act; who sends it, on what, to   *)
(* which value, and the version its sender has read.                       *)
Area == Directory \cup {"membership", "invitation"}
Act ==
  {"create", "update", "price", "structural", "status", "timezone", "currency", "delete",
   "role", "revoke", "resend"}

Command ==
  [area: Area, act: Act, by: User, on: Entry \cup Seat \cup User \cup {Organization, Nothing},
   value: Role \cup Status \cup Code \cup {NoCode, Nothing}, parent: Entry \cup {Nothing},
   version: Nat]
Transaction ==
  [key: Key, command: Command, step: {"OPEN", "STAGED"},
   new: Entry \cup Invitation \cup {Nothing}]  \* the id it has given to a new row
Completed == [key: Key, command: Command, new: Entry \cup Invitation \cup {Nothing}]

(* What the schemas of the controllers let through.  Only an item and a    *)
(* register refer to another row.                                          *)
ParentWellFormed(c) ==
  c.parent # Nothing => c.parent \in Entry /\ c.area \in {"catalog_item", "cash_register"}

WellFormed(c) ==
  /\ c.area = "membership" /\ c.act = "role" => c.value \in Role
  /\ c.act = "status" => c.value \in Status
  /\ c.area = "invitation" /\ c.act = "create" => c.on \in User /\ c.value \in Role
  /\ ParentWellFormed(c)

(* What the indexes and the foreign keys of the tables ensure.             *)
Consistent(rows) ==
  LET live == {e \in DOMAIN rows : rows[e].status \in Status} IN
  /\ \A e, f \in live :
       /\ rows[e].code \in Code /\ rows[e].code = rows[f].code
       /\ rows[e].directory = rows[f].directory
       /\ rows[e].directory = "cash_register" => rows[e].parent = rows[f].parent
       => e = f
  /\ \A e \in live : rows[e].parent # Nothing =>
       rows[e].parent \in live /\ rows[rows[e].parent].directory \in {"catalog_category", "branch"}

ASSUME WorkspaceAssumption ==
  /\ Founder \cap Invitation = {} /\ Founder # {}
  /\ (Founder \cup Invitation) \cap (Entry \cup {Organization}) = {}
  /\ UserOf \in [Founder -> User]
  /\ \A a, b \in Founder : UserOf[a] = UserOf[b] => a = b
  /\ Nothing \notin User \cup Founder \cup Invitation \cup Entry \cup {Organization} \cup Key
  /\ Organization \notin Entry
  /\ \A a \in Agenda :
       /\ a.commands \subseteq Command /\ \A c \in a.commands : WellFormed(c)
       /\ a.invitations \subseteq Invitation
       /\ DOMAIN a.rows \subseteq Entry /\ \A e \in DOMAIN a.rows : a.rows[e] \in Row
       /\ Consistent(a.rows)
  /\ NoJob \notin {"EMAIL", "EXPIRATION"} \X Invitation \X Nat

WorkspaceTypeOK ==
  /\ offered \in Agenda
  /\ transactions \subseteq Transaction
  /\ ledger \subseteq Completed
  /\ entries \in [Entry \cup {Organization} -> Row] /\ used \subseteq Entry
  /\ seats \in [Seat -> Membership] /\ accounts \subseteq User
  /\ invitations \in [Invitation -> Invited]
  /\ lapsed \in [Invitation -> Nat] /\ mailed \subseteq Invitation \X Nat

Provisioned ==
  [NoRow EXCEPT !.directory = "organization", !.status = "ACTIVE", !.version = 1]

WorkspaceInit ==
  /\ OutboxInit
  /\ offered \in Agenda /\ transactions = {} /\ ledger = {}
  /\ entries = [e \in Entry \cup {Organization} |->
                  CASE e = Organization -> Provisioned
                    [] e \in DOMAIN offered.rows -> offered.rows[e]
                    [] OTHER -> NoRow]
  /\ used = {}
  /\ seats = [s \in Seat |->
               IF s \in Founder
               THEN [user |-> UserOf[s], role |-> "OWNER", status |-> "ACTIVE", version |-> 1]
               ELSE NoMembership]
  /\ accounts = {UserOf[f] : f \in Founder}
  /\ invitations = [i \in Invitation |-> NoInvitation]
  /\ lapsed = [i \in Invitation |-> 0] /\ mailed = {}

-----------------------------------------------------------------------------
(* Who may do what.  revoked_at is set on a REVOKED membership only; a     *)
(* person invited again keeps the old one beside the new.                  *)
SeatsOf(u) == {s \in Seat : seats[s].user = u /\ seats[s].status # "ABSENT"}
LiveSeats(u) == {s \in SeatsOf(u) : seats[s].status # "REVOKED"}
ActiveSeats(u) == {s \in SeatsOf(u) : seats[s].status = "ACTIVE"}

Holds(u, roles) == \E s \in ActiveSeats(u) : seats[s].role \in roles

MayManage(actor, target, resulting) ==
  /\ seats[actor].role \in Managers
  /\ seats[actor].role = "OWNER" \/ (seats[target].role # "OWNER" /\ resulting # "OWNER")

Resulting(c) == IF c.act = "role" THEN c.value ELSE seats[c.on].role

(* The actor is found by user_id among all the rows of that user.          *)
MayAdminister(c, statuses) ==
  /\ c.on \in Seat /\ seats[c.on].status \in statuses
  /\ \E actor \in ActiveSeats(c.by) : MayManage(actor, c.on, Resulting(c))

MayInvite(c) ==
  /\ Holds(c.by, Managers)
  /\ c.value = "OWNER" => Holds(c.by, {"OWNER"})

MayHandle(c) ==
  /\ c.on \in Invitation /\ invitations[c.on].status # "ABSENT"
  /\ \/ Holds(c.by, {"OWNER"})
     \/ Holds(c.by, {"ADMIN"}) /\ invitations[c.on].role # "OWNER"

CustomerWriters == {"OWNER", "ADMIN", "CASHIER"}

WriterRoles(c) ==
  CASE c.area = "customer" /\ c.act \in {"create", "update"} -> CustomerWriters
    [] c.area = "branch" \/ c.act \in {"timezone", "currency"} -> {"OWNER"}
    [] OTHER -> Managers

Authorized(c) ==
  \/ c.area \in Directory /\ Holds(c.by, WriterRoles(c))
  \/ c.area = "membership" /\ MayAdminister(c, {"ACTIVE", "INACTIVE", "REVOKED"})
  \/ c.area = "invitation" /\ c.act = "create" /\ MayInvite(c)
  \/ c.area = "invitation" /\ c.act # "create" /\ MayHandle(c)

-----------------------------------------------------------------------------
(* Locks.  What a transaction writes or takes FOR UPDATE, and a code in    *)
(* its unique index, it has alone to its end; FOR SHARE keeps writers out. *)
LocksOfBegin(c) ==
  CASE c.area = "membership" -> {<<"seat", s>> : s \in SeatsOf(c.by) \cup {c.on}}
    [] c.area = "invitation" /\ c.act = "create" -> {<<"seat", s>> : s \in LiveSeats(c.by)}
    [] c.area = "invitation" /\ c.act # "create" -> {<<"invitation", c.on>>}
    [] OTHER -> {}

(* Commands without an idempotency key lock the membership of their actor. *)
Keyed(c) == c.area \notin {"cash_register", "organization"} \/ c.act = "currency"
LocksOfActor(c) == IF Keyed(c) THEN {} ELSE {<<"seat", s>> : s \in ActiveSeats(c.by)}

ParentOf(c) ==
  IF c.area = "cash_register" /\ c.act # "create" THEN entries[c.on].parent ELSE c.parent

(* The name of a register is unique in its branch, the rest everywhere.    *)
IndexOf(c) == IF c.area = "cash_register" THEN <<c.area, ParentOf(c)>> ELSE <<c.area, Nothing>>

LocksOfRow(c, e) ==
  {<<"entry", e>>} \cup LocksOfActor(c) \cup
  IF c.act \in {"create", "update"} /\ c.value \in Code
  THEN {<<"code", IndexOf(c), c.value>>} ELSE {}

(* An item refers to its new category, a register to its branch.           *)
Refers(c) ==
  \/ c.area = "cash_register"
  \/ c.area = "catalog_item" /\ c.act = "create"
  \/ c.area = "catalog_item" /\ c.act = "update" /\ c.parent # entries[c.on].parent

SharesOfRow(c) == IF Refers(c) THEN {<<"entry", ParentOf(c)>>} \ {<<"entry", Nothing>>} ELSE {}

EntryOf(t) == IF t.command.act = "create" THEN t.new ELSE t.command.on

StagedRows == {t \in transactions : t.step = "STAGED" /\ t.command.area \in Directory}

LocksOf(t) ==
  LocksOfBegin(t.command) \cup
  IF t \in StagedRows THEN LocksOfRow(t.command, EntryOf(t)) ELSE {}

(* Mutated form: the handler reads the invitation without FOR UPDATE.      *)
HandlerLocksUnheld(w) ==
  IF workers[w].step = "EXPIRING" THEN {<<"invitation", workers[w].job[2]>>} ELSE {}

(* The handlers of invitation jobs hold the invitation.                    *)
HandlerLocks(w) ==
  IF workers[w].step \in {"MAILING", "MAILED", "EXPIRING"}
  THEN {<<"invitation", workers[w].job[2]>>} ELSE {}

Locked ==
  (UNION {LocksOf(t) : t \in transactions}) \cup (UNION {HandlerLocks(w) : w \in Worker})
Shared == UNION {SharesOfRow(t.command) : t \in StagedRows}

(* A row that refers to the organization takes its key share, and so do    *)
(* the record of a key and the audit event every command ends with: what   *)
(* takes the organization FOR UPDATE waits for every other transaction and *)
(* makes every other wait.  Two such commands that have both inserted      *)
(* their keys wait for each other, until the deadlock detector rolls one   *)
(* back.                                                                   *)
LocksOrganization(c) ==
  \/ c.area \in {"membership", "catalog_category", "branch"}
  \/ c.area = "catalog_item" /\ c.act # "update"
  \/ c.act = "currency"

OrganizationFree ==
  ~\E t \in transactions : t.step = "STAGED" /\ LocksOrganization(t.command)

(* Mutated form: the organization is read without FOR UPDATE.              *)
AloneUnlocked(t) == t \in transactions

AloneInOrganization(t) ==
  \A other \in transactions \ {t} : other.step = "OPEN" /\ ~Keyed(other.command)

-----------------------------------------------------------------------------
(* A command begins, and ends.                                             *)

SameScope(c, d) == c.area = d.area /\ c.act = d.act

(* Mutated form: the key is looked up first and recorded on completion.    *)
AcquireRecorded(k, c) ==
  ~\E done \in ledger : done.key = k /\ SameScope(done.command, c)

(* INSERT ... ON CONFLICT waits for the transaction that holds the key and *)
(* finds its record, unless it was rolled back.                            *)
Acquire(k, c) ==
  /\ ~\E done \in ledger : done.key = k /\ SameScope(done.command, c)
  /\ ~\E t \in transactions : t.key = k /\ SameScope(t.command, c)

Open(k, c) ==
  /\ Cardinality(transactions) < MaxOpen
  /\ transactions' = transactions \cup
       {[key |-> k, command |-> c, step |-> "OPEN", new |-> Nothing]}
  /\ UNCHANGED <<outboxVars, directoryVars, peopleVars, mailVars, offered, ledger>>

Begin(k, c) ==
  /\ Keyed(c) /\ Authorized(c)
  /\ LocksOfBegin(c) \cap Locked = {}
  /\ OrganizationFree
  /\ Acquire(k, c)
  /\ Open(k, c)

BeginUnkeyed(k, c) ==
  /\ ~Keyed(c) /\ ~\E t \in transactions : t.key = k
  /\ Open(k, c)

Rollback(t) ==
  /\ transactions' = transactions \ {t}
  /\ UNCHANGED <<outboxVars, directoryVars, peopleVars, mailVars, offered, ledger>>

(* The service has the command; some authorize it once more.               *)
Reaches(t, area, act) ==
  /\ t.step = "OPEN"
  /\ t.command.area = area /\ t.command.act = act

Runs(t, area, act) == Reaches(t, area, act) /\ Authorized(t.command)

Stage(t, new) ==
  /\ transactions' = (transactions \ {t}) \cup {[t EXCEPT !.step = "STAGED", !.new = new]}
  /\ UNCHANGED <<outboxVars, directoryVars, peopleVars, mailVars, offered, ledger>>
=============================================================================
