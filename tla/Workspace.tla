----------------------------- MODULE Workspace -----------------------------
(***************************************************************************)
(* The back office of an organization: its people and its directories,     *)
(* under the commands of several users and the workers of the outbox.      *)
(***************************************************************************)
EXTENDS Directories, Memberships

Commit(t) ==
  /\ t.step = "STAGED"
  /\ CommitEntry(t) \/ CommitSeat(t) \/ CommitInvitation(t)
  /\ transactions' = transactions \ {t}
  /\ ledger' = ledger \cup {[key |-> t.key, command |-> t.command, new |-> t.new]}
  /\ UNCHANGED <<mailVars, offered>>

Service(t) == DirectoryService(t) \/ MembershipService(t)

WorkspaceNext ==
  \/ \E k \in Key, c \in offered.commands : Begin(k, c) \/ BeginUnkeyed(k, c)
  \/ \E t \in transactions : Service(t) \/ Commit(t) \/ Rollback(t)
  \/ \E e \in Entry : SellTo(e) \/ BuyFrom(e) \/ SpendOn(e)
  \/ \E i \in Invitation : Lapse(i)
  \/ \E m \in mailed :
       AcceptExistingAccount(m[1], m[2]) \/ AcceptNewAccount(m[1], m[2])
         \/ ExpireOnUse(m[1], m[2])
  \/ \E w \in Worker : HandleEmail(w) \/ HandleExpiration(w) \/ SendMail(w) \/ FinishJob(w)
  \/ WorkerStep

WorkspaceSpec == WorkspaceInit /\ [][WorkspaceNext]_workspaceVars
=============================================================================
