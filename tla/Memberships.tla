---------------------------- MODULE Memberships ----------------------------
(***************************************************************************)
(* Memberships, the invitations that bring new ones, and the jobs that     *)
(* mail and expire invitations.                                            *)
(***************************************************************************)
EXTENDS Commands

RemainingOwner(target, resulting) ==
  (seats[target].role = "OWNER" /\ resulting # "OWNER") =>
    \E s \in Seat \ {target} : seats[s].role = "OWNER" /\ seats[s].status = "ACTIVE"

(* lockOrganization, then everything is read again.                        *)
Administers(t, statuses) ==
  /\ AloneInOrganization(t)
  /\ MayAdminister(t.command, statuses)
  /\ seats[t.command.on].version = t.command.version

ChangeRole(t) ==
  /\ Runs(t, "membership", "role") /\ Administers(t, {"ACTIVE"})
  /\ RemainingOwner(t.command.on, t.command.value)
  /\ Stage(t, Nothing)

Revoke(t) ==
  /\ Runs(t, "membership", "revoke") /\ Administers(t, {"ACTIVE"})
  /\ RemainingOwner(t.command.on, "EMPLOYEE")
  /\ Stage(t, Nothing)

SetStatus(t) ==
  /\ Runs(t, "membership", "status")
  /\ Administers(t, Status \ {t.command.value})
  /\ t.command.value = "INACTIVE" => RemainingOwner(t.command.on, "EMPLOYEE")
  /\ Stage(t, Nothing)

SeatAfter(c, old) ==
  CASE c.act = "role" -> [old EXCEPT !.role = c.value, !.version = old.version + 1]
    [] c.act = "status" -> [old EXCEPT !.status = c.value, !.version = old.version + 1]
    [] OTHER -> [old EXCEPT !.status = "REVOKED", !.version = old.version + 1]

CommitSeat(t) ==
  /\ t.command.area = "membership"
  /\ seats' = [seats EXCEPT ![t.command.on] = SeatAfter(t.command, seats[t.command.on])]
  /\ UNCHANGED <<outboxVars, directoryVars, accounts, invitations>>

-----------------------------------------------------------------------------
(* Invitations.                                                            *)
CreateInvitation(t) ==
  /\ Runs(t, "invitation", "create")
  /\ \E i \in offered.invitations :
       /\ invitations[i].status = "ABSENT" /\ ~\E other \in transactions : other.new = i
       /\ Stage(t, i)

Resend(t) ==
  /\ Runs(t, "invitation", "resend")
  /\ invitations[t.command.on].status \in {"PENDING", "EXPIRED"}
  /\ invitations[t.command.on].token < MaxToken
  /\ Stage(t, t.command.on)

RevokeInvitation(t) ==
  /\ Runs(t, "invitation", "revoke")
  /\ invitations[t.command.on].status = "PENDING"
  /\ Stage(t, t.command.on)

InvitationAfter(c, old) ==
  CASE c.act = "create" ->
         [user |-> c.on, role |-> c.value, token |-> 1, status |-> "PENDING"]
    [] c.act = "resend" -> [old EXCEPT !.status = "PENDING", !.token = old.token + 1]
    [] OTHER -> [old EXCEPT !.status = "REVOKED"]

CommitInvitation(t) ==
  LET i == t.new IN
  /\ t.command.area = "invitation"
  /\ invitations' = [invitations EXCEPT ![i] = InvitationAfter(t.command, invitations[i])]
  /\ jobs' = IF t.command.act = "revoke" THEN jobs
             ELSE WithJobs({"EMAIL", "EXPIRATION"} \X {i} \X {invitations'[i].token})
  /\ UNCHANGED <<workers, directoryVars, seats, accounts>>

(* A token answers to the invitation only while it is its last one.        *)
Answers(i, token) == invitations[i].status = "PENDING" /\ invitations[i].token = token

Join(i) ==
  /\ LiveSeats(invitations[i].user) = {}
  /\ seats' = [seats EXCEPT ![i] = [user |-> invitations[i].user,
                  role |-> invitations[i].role, status |-> "ACTIVE", version |-> 1]]
  /\ accounts' = accounts \cup {invitations[i].user}
  /\ invitations' = [invitations EXCEPT ![i].status = "ACCEPTED"]

(* Mutated form: the invitation is read without FOR UPDATE.                *)
PresentUnlocked(i, token) ==
  /\ <<i, token>> \in mailed /\ OrganizationFree
  /\ Answers(i, token)

(* Whoever was mailed the token presents it: resolve_..._invitation takes  *)
(* the invitation FOR UPDATE.                                              *)
Present(i, token) ==
  /\ <<i, token>> \in mailed /\ OrganizationFree
  /\ <<"invitation", i>> \notin Locked
  /\ Answers(i, token)

AcceptExistingAccount(i, token) ==
  /\ Present(i, token) /\ lapsed[i] < token
  /\ invitations[i].user \in accounts /\ Join(i)
  /\ UNCHANGED <<outboxVars, directoryVars, mailVars, commandVars>>

AcceptNewAccount(i, token) ==
  /\ Present(i, token) /\ lapsed[i] < token
  /\ invitations[i].user \notin accounts /\ Join(i)
  /\ UNCHANGED <<outboxVars, directoryVars, mailVars, commandVars>>

ExpireOnUse(i, token) ==
  /\ Present(i, token) /\ lapsed[i] >= token
  /\ invitations' = [invitations EXCEPT ![i].status = "EXPIRED"]
  /\ UNCHANGED <<outboxVars, directoryVars, seats, accounts, mailVars, commandVars>>

(* Time: the tokens of an invitation expire in the order they were issued. *)
Lapse(i) ==
  /\ lapsed[i] < invitations[i].token
  /\ lapsed' = [lapsed EXCEPT ![i] = @ + 1]
  /\ UNCHANGED <<outboxVars, directoryVars, peopleVars, mailed, commandVars>>

-----------------------------------------------------------------------------
(* The handlers of invitation jobs, each in the transaction of its worker. *)
JobType(w) == workers[w].job[1]
InvitationOf(w) == workers[w].job[2]
TokenOf(w) == workers[w].job[3]

Due(j) == j[1] = "EXPIRATION" => lapsed[j[2]] >= j[3]

Mailable(i, token) == Answers(i, token) /\ lapsed[i] < token
Expirable(i, token) == Answers(i, token) /\ lapsed[i] >= token

(* The handler takes the invitation if it is still as its payload says.    *)
Handle(w, type, wanted, step) ==
  /\ workers[w].step = "CLAIMED" /\ JobType(w) = type
  /\ IF wanted
     THEN <<"invitation", InvitationOf(w)>> \notin Locked /\ Load(w, step)
     ELSE Load(w, "HANDLED")
  /\ UNCHANGED <<directoryVars, peopleVars, mailVars, commandVars>>

HandleEmail(w) ==
  Handle(w, "EMAIL", Mailable(InvitationOf(w), TokenOf(w)), "MAILING")
HandleExpiration(w) ==
  Handle(w, "EXPIRATION", Expirable(InvitationOf(w), TokenOf(w)), "EXPIRING")

SendMail(w) ==
  /\ workers[w].step = "MAILING"
  /\ mailed' = mailed \cup {<<InvitationOf(w), TokenOf(w)>>}
  /\ MoveTo(w, "MAILED")
  /\ UNCHANGED <<jobs, directoryVars, peopleVars, lapsed, commandVars>>

FinishJob(w) ==
  /\ workers[w].step \in {"MAILED", "EXPIRING", "HANDLED"} /\ OrganizationFree
  /\ invitations' = IF workers[w].step = "EXPIRING"
                    THEN [invitations EXCEPT ![InvitationOf(w)].status = "EXPIRED"]
                    ELSE invitations
  /\ Complete(w)
  /\ UNCHANGED <<directoryVars, seats, accounts, mailVars, commandVars>>

WorkerStep ==
  /\ \/ \E w \in Worker :
         \/ \E j \in DOMAIN jobs : Claim(w, j, Due(j))
         \/ Unavailable(w) \/ HandlerFails(w) \/ RecordFailure(w) \/ Crash(w)
     \/ \E j \in DOMAIN jobs : LeaseExpires(j)
  /\ UNCHANGED <<directoryVars, peopleVars, mailVars, commandVars>>

MembershipService(t) ==
  \/ ChangeRole(t) \/ Revoke(t) \/ SetStatus(t)
  \/ CreateInvitation(t) \/ Resend(t) \/ RevokeInvitation(t)

-----------------------------------------------------------------------------
(* The organization never loses its last active OWNER, however the         *)
(* commands that demote, deactivate and revoke owners overlap.             *)
OwnerRemains == \E s \in Seat : seats[s].role = "OWNER" /\ seats[s].status = "ACTIVE"

(* A membership comes of an invitation exactly when that was accepted, an  *)
(* invitation whose revocation was answered stays revoked, and nobody has  *)
(* two live memberships.                                                   *)
InvitationHonoured ==
  /\ \A i \in Invitation :
       invitations[i].status = "ACCEPTED" <=> seats[i].status # "ABSENT"
  /\ \A done \in ledger :
       done.command.area = "invitation" /\ done.command.act = "revoke"
         => invitations[done.new].status = "REVOKED"
  /\ \A r, s \in Seat :
       /\ seats[r].status \in Status /\ seats[s].status \in Status
       /\ seats[r].user = seats[s].user
       => r = s

(* "A revoked, expired or superseded token must never be mailed on a       *)
(* retry" (runtime-worker.ts): a token that is sent is the last one of an  *)
(* invitation still pending at that moment.                                *)
NeverMailsDeadToken ==
  [][\A m \in mailed' \ mailed : Answers(m[1], m[2])]_workspaceVars
=============================================================================
