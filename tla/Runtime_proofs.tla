-------------------------- MODULE Runtime_proofs --------------------------
(***************************************************************************)
(* Exports, their files and the recovery of passwords, for any number of   *)
(* workers, exports, accounts and sign-ins, and however many processes die.*)
(*                                                                         *)
(* The exports rest on leases.  The lease of a job is the number of its    *)
(* claim, so no two claims of it are alike (ClaimsApart), and a handler    *)
(* holds the row of its job from the moment it has found the lease to be   *)
(* its own: nobody settles the job under its hands.  So what it has found  *)
(* and done stays true (HandlersTrue), the state of a job says what became *)
(* of its export (OutcomeTrue), and an export is never rendered again once *)
(* its file may be deleted.                                                *)
(*                                                                         *)
(* The sign-ins rest on the hash: it grows with every change, so one that  *)
(* is as it was when the password was checked stands for that password     *)
(* (SignInsTrue).                                                          *)
(***************************************************************************)
EXTENDS Runtime, TLAPS

ReportSteps == {"REVOKING", "RENDERING", "STORED", "PUBLISHING"}
CleanupSteps == {"DELETING", "DELETED"}
ClaimStep == {"CLAIMED", "FAILED"} \cup ReportSteps \cup CleanupSteps

(* The rows of outbox_jobs; the lease of one being processed is the number *)
(* of its claim.                                                           *)
JobsTypeOK ==
  /\ jobs \in [DOMAIN jobs -> Job]
  /\ DOMAIN jobs \subseteq {ReportOf(x) : x \in Export} \cup {CleanupOf(x) : x \in Export}
  /\ \A j \in DOMAIN jobs : jobs[j].status = "PROCESSING" => jobs[j].lease = jobs[j].attempts

(* A worker rests, or holds a claim; a lease it once had may be over.      *)
Busy(w) == workers[w].step # "IDLE"

ClaimsTypeOK ==
  /\ workers = [w \in Worker |-> workers[w]]
  /\ \A w \in Worker :
       \/ workers[w] = Resting
       \/ /\ workers[w] \in [job: DOMAIN jobs, lease: Nat \ {0}, step: ClaimStep]
          /\ workers[w].lease <= jobs[workers[w].job].attempts

ClaimsApart ==
  /\ \A v, w \in Worker :
       Busy(v) /\ Busy(w) /\ workers[v].job = workers[w].job /\ workers[v].lease = workers[w].lease
         => v = w
  /\ \A w \in Worker : Handling(w) => StillLeased(w)

(* What a handler has found and done.                                      *)
HandlerTrue(w) ==
  LET x == Subject(w) IN
  /\ workers[w].step \in ReportSteps => workers[w].job = ReportOf(x)
  /\ workers[w].step \in {"STORED", "PUBLISHING"} => x \in stored
  /\ workers[w].step \in CleanupSteps => workers[w].job = CleanupOf(x) /\ x \in aged
  /\ workers[w].step = "DELETED" => x \notin stored

HandlersTrue == \A w \in Worker : HandlerTrue(w)

(* What the jobs of an export say of it and of its file.                   *)
OutcomeTrue(x) ==
  /\ ReportOf(x) \in DOMAIN jobs <=> exports[x] # "ABSENT"
  /\ IsStatus(ReportOf(x), {"PENDING", "PROCESSING"}) => exports[x] = "QUEUED"
  /\ IsStatus(ReportOf(x), {"COMPLETED"}) => Settled(x)
  /\ IsStatus(ReportOf(x), {"DEAD_LETTER"}) => exports[x] = "FAILED"
  /\ CleanupOf(x) \in DOMAIN jobs <=> x \in files
  /\ x \in files <=> exports[x] \in {"READY", "EXPIRED"}
  /\ x \in files \ aged => x \in stored
  /\ IsStatus(CleanupOf(x), {"COMPLETED"}) => x \notin stored

ExportsTrue ==
  /\ exports \in [Export -> {"ABSENT", "QUEUED", "READY", "FAILED", "EXPIRED"}]
  /\ files \subseteq Export /\ \A x \in Export : OutcomeTrue(x)

ExportsInv == JobsTypeOK /\ ClaimsTypeOK /\ ClaimsApart /\ HandlersTrue /\ ExportsTrue

(* The hash a sign-in has checked is still the account's only if the       *)
(* password is.                                                            *)
SignInsTrue ==
  /\ secrets \in [Account -> Secret]
  /\ sessions \in [DOMAIN sessions -> SignIn]
  /\ \A s \in DOMAIN sessions :
       LET now == secrets[sessions[s].account] IN
       /\ sessions[s].hash <= now.hash
       /\ sessions[s].hash = now.hash => sessions[s].password = now.password

LettersTrue ==
  /\ DOMAIN letters = DOMAIN resets
  /\ resets \in [DOMAIN resets -> ResetToken]

AccessInv == SignInsTrue /\ LettersTrue /\ NoSessionOutlivesReset

RuntimeInv == ExportsInv /\ AccessInv

-----------------------------------------------------------------------------
LEMMA JobKeys ==
  /\ \A x, y : ReportOf(x) # CleanupOf(y)
  /\ \A x, y : ReportOf(x) = ReportOf(y) => x = y
  /\ \A x, y : CleanupOf(x) = CleanupOf(y) => x = y
  /\ \A x : /\ ReportOf(x)[1] = "REPORT_PDF" /\ ReportOf(x)[2] = x
            /\ CleanupOf(x)[1] = "OBJECT_FILE_CLEANUP" /\ CleanupOf(x)[2] = x
BY DEF ReportOf, CleanupOf

(* What a job is about is an export.                                       *)
LEMMA Subjects ==
  ASSUME ExportsInv, NEW w \in Worker, Busy(w)
  PROVE  /\ Subject(w) \in Export
         /\ workers[w].job \in DOMAIN jobs
         /\ workers[w].job = ReportOf(Subject(w)) \/ workers[w].job = CleanupOf(Subject(w))
         /\ workers[w].job[1] = "REPORT_PDF" => workers[w].job = ReportOf(Subject(w))
         /\ workers[w].job[1] = "OBJECT_FILE_CLEANUP" => workers[w].job = CleanupOf(Subject(w))
<1>1. workers[w].job \in DOMAIN jobs
  BY DEF ExportsInv, ClaimsTypeOK, Busy, Resting
<1>2. PICK x \in Export : workers[w].job = ReportOf(x) \/ workers[w].job = CleanupOf(x)
  BY <1>1 DEF ExportsInv, JobsTypeOK
<1> QED
  BY <1>1, <1>2, JobKeys DEF Subject

LEMMA ExportsInitially == RuntimeInit => ExportsInv
<1> SUFFICES ASSUME RuntimeInit PROVE ExportsInv
  OBVIOUS
<1>1. jobs = << >> /\ DOMAIN jobs = {}
  BY DEF RuntimeInit, OutboxInit
<1>2. /\ workers = [w \in Worker |-> Resting]
      /\ exports = [x \in Export |-> "ABSENT"] /\ stored = {} /\ files = {} /\ aged = {}
  BY DEF RuntimeInit, OutboxInit, ExportsInit
<1>3. JobsTypeOK
  BY <1>1 DEF JobsTypeOK
<1>4. ClaimsTypeOK /\ ClaimsApart /\ HandlersTrue
  BY <1>2 DEF ClaimsTypeOK, ClaimsApart, HandlersTrue, HandlerTrue, Resting, Busy, Handling, Outside, ReportSteps,
              CleanupSteps
<1>5. ExportsTrue
  BY <1>1, <1>2 DEF ExportsTrue, OutcomeTrue, IsStatus
<1> QED
  BY <1>3, <1>4, <1>5 DEF ExportsInv

-----------------------------------------------------------------------------
(* The workers.  One goes on with its job, and keeps its row.              *)
LEMMA Moved ==
  ASSUME ExportsInv, NEW w \in Worker, Busy(w), NEW step \in ClaimStep, MoveTo(w, step),
         UNCHANGED jobs, step \notin Outside => StillLeased(w)
  PROVE  /\ JobsTypeOK' /\ ClaimsTypeOK' /\ ClaimsApart'
         /\ workers'[w].job = workers[w].job /\ workers'[w].step = step
         /\ \A v \in Worker \ {w} : workers'[v] = workers[v]
<1>1. /\ workers' = [workers EXCEPT ![w].step = step]
      /\ workers = [v \in Worker |-> workers[v]]
      /\ workers[w] \in [job: DOMAIN jobs, lease: Nat \ {0}, step: ClaimStep]
      /\ workers[w].lease <= jobs[workers[w].job].attempts
  BY DEF MoveTo, ExportsInv, ClaimsTypeOK, Busy, Resting
<1>2. /\ workers'[w].job = workers[w].job /\ workers'[w].lease = workers[w].lease
      /\ workers'[w].step = step
      /\ workers'[w] \in [job: DOMAIN jobs, lease: Nat \ {0}, step: ClaimStep]
      /\ \A v \in Worker \ {w} : workers'[v] = workers[v]
      /\ workers' = [v \in Worker |-> workers'[v]]
  BY <1>1
<1>3. JobsTypeOK'
  BY DEF ExportsInv, JobsTypeOK
<1>4. ClaimsTypeOK'
  BY <1>1, <1>2 DEF ExportsInv, ClaimsTypeOK
<1>5. \A v \in Worker : /\ workers'[v].job = workers[v].job /\ workers'[v].lease = workers[v].lease
                        /\ Busy(v)' => Busy(v)
  BY <1>2 DEF Busy
<1>6. \A v \in Worker : Handling(v)' => StillLeased(v)
  BY <1>2 DEF ExportsInv, ClaimsApart, Handling
<1>7. ClaimsApart'
  BY <1>5, <1>6 DEF ExportsInv, ClaimsApart, StillLeased
<1> QED
  BY <1>2, <1>3, <1>4, <1>7

(* One has done with its job, or has died.  It may have changed that job,  *)
(* and queued another.                                                     *)
LEMMA Ended ==
  ASSUME ExportsInv, NEW w \in Worker, workers' = [workers EXCEPT ![w] = Resting],
         JobsTypeOK', DOMAIN jobs \subseteq DOMAIN jobs',
         \A j \in DOMAIN jobs : jobs'[j].attempts = jobs[j].attempts,
         \A v \in Worker \ {w} : Handling(v) => jobs'[workers[v].job] = jobs[workers[v].job]
  PROVE  /\ ClaimsTypeOK' /\ ClaimsApart'
         /\ workers'[w] = Resting /\ \A v \in Worker \ {w} : workers'[v] = workers[v]
<1>1. /\ workers = [v \in Worker |-> workers[v]]
      /\ workers'[w] = Resting /\ \A v \in Worker \ {w} : workers'[v] = workers[v]
      /\ workers' = [v \in Worker |-> workers'[v]]
  BY DEF ExportsInv, ClaimsTypeOK
<1>2. ASSUME NEW v \in Worker \ {w}, workers[v] # Resting
      PROVE  /\ workers[v] \in [job: DOMAIN jobs', lease: Nat \ {0}, step: ClaimStep]
             /\ workers[v].lease <= jobs'[workers[v].job].attempts
  BY <1>2 DEF ExportsInv, ClaimsTypeOK
<1>3. ClaimsTypeOK'
  BY <1>1, <1>2 DEF ClaimsTypeOK
<1>4. ~Busy(w)' /\ ~Handling(w)'
  BY <1>1 DEF Busy, Handling, Resting, Outside
<1>5. ClaimsApart'
  BY <1>1, <1>4 DEF ExportsInv, ClaimsApart, Busy, Handling, StillLeased
<1> QED
  BY <1>1, <1>3, <1>5

(* No one handles the job of another handler.                              *)
LEMMA OneHandler ==
  ASSUME ExportsInv, NEW v \in Worker, NEW w \in Worker, v # w, Handling(v),
         StillLeased(w), Busy(w)
  PROVE  workers[v].job # workers[w].job
<1>1. StillLeased(v) /\ Busy(v)
  BY DEF ExportsInv, ClaimsApart, Handling, Busy, Outside
<1> QED
  BY <1>1 DEF ExportsInv, ClaimsApart, StillLeased

LEMMA OutcomeKept ==
  ASSUME NEW x \in Export, OutcomeTrue(x),
         \A j \in {ReportOf(x), CleanupOf(x)} :
           /\ j \in DOMAIN jobs' <=> j \in DOMAIN jobs
           /\ j \in DOMAIN jobs => \/ jobs'[j].status = jobs[j].status
                                   \/ /\ jobs'[j].status \in {"PENDING", "PROCESSING"}
                                      /\ jobs[j].status \in {"PENDING", "PROCESSING"},
         exports'[x] = exports[x],
         x \in files' <=> x \in files, x \in aged => x \in aged',
         x \in stored' <=> x \in stored
  PROVE  OutcomeTrue(x)'
BY DEF OutcomeTrue, IsStatus, Settled

(* A handler of an export finds it queued, and one that deletes its file   *)
(* finds the file registered.                                              *)
LEMMA HandlerFinds ==
  ASSUME ExportsInv, NEW w \in Worker
  PROVE  /\ workers[w].step \in ReportSteps =>
              /\ Subject(w) \in Export /\ exports[Subject(w)] = "QUEUED"
              /\ Subject(w) \notin files /\ CleanupOf(Subject(w)) \notin DOMAIN jobs
              /\ workers[w].job = ReportOf(Subject(w)) /\ StillLeased(w) /\ Busy(w)
         /\ workers[w].step \in CleanupSteps =>
              /\ Subject(w) \in Export /\ exports[Subject(w)] \in {"READY", "EXPIRED"}
              /\ Subject(w) \in aged
              /\ workers[w].job = CleanupOf(Subject(w)) /\ StillLeased(w) /\ Busy(w)
<1>1. ASSUME workers[w].step \in ReportSteps \cup CleanupSteps
      PROVE  Busy(w) /\ StillLeased(w) /\ Subject(w) \in Export /\ workers[w].job \in DOMAIN jobs
  <2>1. Busy(w) /\ Handling(w)
    BY <1>1 DEF Busy, Handling, Outside, ReportSteps, CleanupSteps
  <2> QED
    BY <2>1, Subjects DEF ExportsInv, ClaimsApart
<1>2. CASE workers[w].step \in ReportSteps
  <2>1. workers[w].job = ReportOf(Subject(w))
    BY <1>2 DEF ExportsInv, HandlersTrue, HandlerTrue
  <2>2. OutcomeTrue(Subject(w)) /\ IsStatus(ReportOf(Subject(w)), {"PENDING", "PROCESSING"})
    BY <1>1, <1>2, <2>1 DEF ExportsInv, ExportsTrue, IsStatus, StillLeased
  <2>3. exports[Subject(w)] = "QUEUED" /\ Subject(w) \notin files
        /\ CleanupOf(Subject(w)) \notin DOMAIN jobs
    BY <2>2 DEF OutcomeTrue
  <2> QED
    BY <1>1, <1>2, <2>1, <2>3 DEF ReportSteps, CleanupSteps
<1>3. CASE workers[w].step \in CleanupSteps
  <2>1. workers[w].job = CleanupOf(Subject(w)) /\ Subject(w) \in aged
    BY <1>3 DEF ExportsInv, HandlersTrue, HandlerTrue
  <2>2. OutcomeTrue(Subject(w))
    BY <1>1, <1>3 DEF ExportsInv, ExportsTrue
  <2>3. exports[Subject(w)] \in {"READY", "EXPIRED"}
    BY <1>1, <1>3, <2>1, <2>2 DEF OutcomeTrue
  <2> QED
    BY <1>1, <1>3, <2>1, <2>3 DEF ReportSteps, CleanupSteps
<1> QED
  BY <1>2, <1>3

-----------------------------------------------------------------------------
exportsKept == <<exports, stored, files, aged>>

LEMMA HandlersKept ==
  ASSUME ExportsInv, UNCHANGED <<stored, aged>>, NEW w \in Worker, HandlerTrue(w)',
         \A v \in Worker \ {w} : workers'[v] = workers[v]
  PROVE  HandlersTrue'
BY DEF ExportsInv, HandlersTrue, HandlerTrue, Subject

LEMMA RestingTrue ==
  ASSUME NEW w \in Worker, workers'[w] = Resting
  PROVE  HandlerTrue(w)'
BY DEF HandlerTrue, Resting, ReportSteps, CleanupSteps

(* A worker goes on, and nothing else happens.                             *)
LEMMA MovedOn ==
  ASSUME ExportsInv, NEW w \in Worker, Busy(w), NEW step \in ClaimStep, MoveTo(w, step),
         UNCHANGED <<jobs, exportsKept>>, step \notin Outside => StillLeased(w), HandlerTrue(w)'
  PROVE  ExportsInv'
<1>1. /\ JobsTypeOK' /\ ClaimsTypeOK' /\ ClaimsApart'
      /\ \A v \in Worker \ {w} : workers'[v] = workers[v]
  BY Moved
<1>2. HandlersTrue'
  BY <1>1, HandlersKept DEF exportsKept
<1>3. ExportsTrue'
  BY DEF ExportsInv, ExportsTrue, OutcomeTrue, IsStatus, Settled, exportsKept
<1> QED
  BY <1>1, <1>2, <1>3 DEF ExportsInv

LEMMA ClaimKeeps ==
  ASSUME ExportsInv, NEW w \in Worker, ClaimJob(w)
  PROVE  ExportsInv'
<1>1. PICK j \in DOMAIN jobs : Claim(w, j, Due(j))
  BY DEF ClaimJob
<1> DEFINE lease == jobs[j].attempts + 1
           row == [status |-> "PROCESSING", attempts |-> lease, lease |-> lease, expired |-> FALSE]
           claim == [job |-> j, lease |-> lease, step |-> "CLAIMED"]
<1>2. /\ workers[w] = Resting /\ j \notin Handled
      /\ jobs[j].status \in {"PENDING", "PROCESSING"}
      /\ jobs' = [jobs EXCEPT ![j] = row]
      /\ workers' = [workers EXCEPT ![w] = claim]
      /\ UNCHANGED exportVars
  BY <1>1 DEF Claim, ClaimJob
<1>3. /\ jobs \in [DOMAIN jobs -> Job] /\ jobs[j] \in Job /\ jobs[j].attempts \in Nat
      /\ workers = [v \in Worker |-> workers[v]]
  BY DEF ExportsInv, JobsTypeOK, ClaimsTypeOK, Job
<1>4. lease \in Nat \ {0} /\ lease > jobs[j].attempts
  BY <1>3
<1>5. row \in Job /\ row.status = "PROCESSING" /\ row.lease = lease /\ row.attempts = lease
  BY <1>4 DEF Job
<1>6. claim.job = j /\ claim.lease = lease /\ claim.step = "CLAIMED"
      /\ claim \in [job: DOMAIN jobs, lease: Nat \ {0}, step: ClaimStep]
  BY <1>4 DEF ClaimStep
<1> HIDE DEF row, claim, lease
<1>7. /\ DOMAIN jobs' = DOMAIN jobs /\ jobs'[j] = row
      /\ \A i \in DOMAIN jobs \ {j} : jobs'[i] = jobs[i]
      /\ jobs' \in [DOMAIN jobs -> Job]
  BY <1>2, <1>3, <1>5
<1>8. /\ workers'[w] = claim /\ \A v \in Worker \ {w} : workers'[v] = workers[v]
      /\ workers' = [v \in Worker |-> workers'[v]]
  BY <1>2, <1>3
<1>9. JobsTypeOK'
  BY <1>5, <1>7 DEF ExportsInv, JobsTypeOK
<1>10. ASSUME NEW v \in Worker \ {w}, workers[v] # Resting
       PROVE  /\ workers[v] \in [job: DOMAIN jobs, lease: Nat \ {0}, step: ClaimStep]
              /\ workers[v].lease <= jobs'[workers[v].job].attempts
              /\ workers[v].job = j => workers[v].lease < lease
  <2>1. /\ workers[v] \in [job: DOMAIN jobs, lease: Nat \ {0}, step: ClaimStep]
        /\ workers[v].lease <= jobs[workers[v].job].attempts
    BY <1>10 DEF ExportsInv, ClaimsTypeOK
  <2>2. workers[v].job \in DOMAIN jobs /\ workers[v].lease \in Nat
    BY <2>1
  <2>3. CASE workers[v].job = j
    BY <2>1, <2>2, <2>3, <1>3, <1>4, <1>5, <1>7
  <2>4. CASE workers[v].job # j
    BY <2>1, <2>2, <2>4, <1>7
  <2> QED
    BY <2>1, <2>3, <2>4
<1>11. ClaimsTypeOK'
  <2>1. workers'[w].lease <= jobs'[workers'[w].job].attempts
    BY <1>4, <1>5, <1>6, <1>7, <1>8
  <2> QED
    BY <2>1, <1>6, <1>7, <1>8, <1>10 DEF ClaimsTypeOK
<1>12. \A v \in Worker \ {w} : Handling(v) => StillLeased(v)'
  <2>1. ASSUME NEW v \in Worker \ {w}, Handling(v) PROVE workers[v].job # j
    BY <2>1, <1>2 DEF Handled
  <2>2. ASSUME NEW v \in Worker \ {w}, Handling(v)
        PROVE  workers[v].job \in DOMAIN jobs /\ StillLeased(v)
    BY <2>2, Subjects DEF ExportsInv, ClaimsApart, Handling, Busy, Outside
  <2> QED
    BY <2>1, <2>2, <1>7, <1>8 DEF StillLeased
<1>13. \A v \in Worker \ {w} : Busy(v) => workers[v] # Resting
  BY DEF Busy, Resting
<1>14. \A v \in Worker \ {w} :
         Busy(v) /\ workers[v].job = claim.job => workers[v].lease # claim.lease
  <2>1. ASSUME NEW v \in Worker \ {w}, Busy(v), workers[v].job = j PROVE workers[v].lease # lease
    <3>1. workers[v].lease \in Nat /\ workers[v].lease < lease
      BY <2>1, <1>10, <1>13
    <3> QED
      BY <3>1, <1>4
  <2> QED
    BY <2>1, <1>6
<1>15. ClaimsApart'
  <2>1. ~Handling(w)'
    BY <1>6, <1>8 DEF Handling, Outside
  <2>2. \A v \in Worker : Handling(v)' => StillLeased(v)'
    BY <2>1, <1>8, <1>12 DEF Handling
  <2> QED
    BY <2>2, <1>8, <1>14 DEF ExportsInv, ClaimsApart, Busy
<1>16. HandlersTrue'
  <2>1. HandlerTrue(w)'
    BY <1>6, <1>8 DEF HandlerTrue, ReportSteps, CleanupSteps
  <2> QED
    BY <2>1, <1>2, <1>8, HandlersKept DEF exportVars
<1>17. ExportsTrue'
  <2>1. \A i : /\ i \in DOMAIN jobs' <=> i \in DOMAIN jobs
               /\ i \in DOMAIN jobs => \/ jobs'[i].status = jobs[i].status
                                       \/ /\ jobs'[i].status \in {"PENDING", "PROCESSING"}
                                          /\ jobs[i].status \in {"PENDING", "PROCESSING"}
    BY <1>2, <1>5, <1>7
  <2>2. \A x \in Export : OutcomeTrue(x)'
    BY <2>1, <1>2, OutcomeKept DEF ExportsInv, ExportsTrue, exportVars
  <2> QED
    BY <2>2, <1>2 DEF ExportsInv, ExportsTrue, exportVars
<1> QED
  BY <1>9, <1>11, <1>15, <1>16, <1>17 DEF ExportsInv

(* A lease runs out.                                                       *)
LEMMA LeaseKeeps ==
  ASSUME ExportsInv, NEW j \in DOMAIN jobs, LeaseExpires(j), UNCHANGED exportsKept
  PROVE  ExportsInv'
<1> DEFINE row == [jobs[j] EXCEPT !.expired = TRUE]
<1>1. jobs \in [DOMAIN jobs -> Job] /\ jobs[j] \in Job
  BY DEF ExportsInv, JobsTypeOK
<1>2. /\ row \in Job /\ row.status = jobs[j].status /\ row.lease = jobs[j].lease
      /\ row.attempts = jobs[j].attempts
  BY <1>1 DEF Job
<1>3. jobs' = [jobs EXCEPT ![j] = row] /\ UNCHANGED workers
  BY DEF LeaseExpires
<1> HIDE DEF row
<1>4. /\ DOMAIN jobs' = DOMAIN jobs
      /\ jobs' \in [DOMAIN jobs -> Job]
      /\ \A i \in DOMAIN jobs : /\ jobs'[i].status = jobs[i].status
                                /\ jobs'[i].lease = jobs[i].lease
                                /\ jobs'[i].attempts = jobs[i].attempts
  BY <1>1, <1>2, <1>3
<1>5. JobsTypeOK'
  BY <1>4 DEF ExportsInv, JobsTypeOK
<1>6. ASSUME NEW w \in Worker, workers[w] # Resting
      PROVE  /\ workers[w] \in [job: DOMAIN jobs, lease: Nat \ {0}, step: ClaimStep]
             /\ workers[w].job \in DOMAIN jobs
             /\ workers[w].lease <= jobs'[workers[w].job].attempts
  BY <1>4, <1>6 DEF ExportsInv, ClaimsTypeOK
<1>7. ClaimsTypeOK'
  BY <1>3, <1>4, <1>6 DEF ExportsInv, ClaimsTypeOK
<1>8. \A w \in Worker : Handling(w) => workers[w].job \in DOMAIN jobs
  BY Subjects DEF Handling, Busy, Outside
<1>9. ClaimsApart'
  BY <1>3, <1>4, <1>8 DEF ExportsInv, ClaimsApart, Busy, Handling, StillLeased
<1>10. HandlersTrue'
  BY <1>3 DEF ExportsInv, HandlersTrue, HandlerTrue, Subject, exportsKept
<1>11. \A x \in Export : OutcomeTrue(x)'
  BY <1>4, OutcomeKept DEF ExportsInv, ExportsTrue, exportsKept
<1> QED
  BY <1>5, <1>7, <1>9, <1>10, <1>11 DEF ExportsInv, ExportsTrue, exportsKept

-----------------------------------------------------------------------------
(* A worker has done with its job, which it still holds, and may queue new *)
(* ones in the same transaction.                                           *)
Given(w, st) == [jobs[workers[w].job] EXCEPT !.status = st, !.lease = 0]

GivesUp(w, st, new) ==
  /\ workers' = [workers EXCEPT ![w] = Resting]
  /\ jobs' = [i \in DOMAIN jobs \cup new |->
                IF i = workers[w].job THEN Given(w, st)
                ELSE IF i \in DOMAIN jobs THEN jobs[i] ELSE Queued]

LEMMA Settles ==
  ASSUME ExportsInv, NEW w \in Worker, Busy(w), StillLeased(w),
         \A v \in Worker \ {w} : Handling(v) => workers[v].job # workers[w].job,
         NEW st \in {"PENDING", "COMPLETED", "DEAD_LETTER"},
         NEW new \in SUBSET {CleanupOf(x) : x \in Export}, GivesUp(w, st, new),
         UNCHANGED <<stored, aged>>
  PROVE  /\ JobsTypeOK' /\ ClaimsTypeOK' /\ ClaimsApart' /\ HandlersTrue'
         /\ DOMAIN jobs' = DOMAIN jobs \cup new
         /\ jobs'[workers[w].job].status = st
         /\ \A i \in DOMAIN jobs \ {workers[w].job} : jobs'[i] = jobs[i]
         /\ \A i \in new \ DOMAIN jobs : jobs'[i] = Queued
<1> DEFINE j == workers[w].job
           row == Given(w, st)
<1>1. /\ jobs \in [DOMAIN jobs -> Job] /\ j \in DOMAIN jobs /\ jobs[j] \in Job
      /\ jobs[j].status = "PROCESSING"
  BY Subjects DEF ExportsInv, JobsTypeOK, StillLeased
<1>2. /\ row \in Job /\ row.status = st /\ row.attempts = jobs[j].attempts
  BY <1>1 DEF Job, Given
<1>3. Queued \in Job /\ Queued.status = "PENDING"
  BY DEF Queued, Job
<1>4. /\ workers' = [workers EXCEPT ![w] = Resting]
      /\ jobs' = [i \in DOMAIN jobs \cup new |->
                    IF i = j THEN row ELSE IF i \in DOMAIN jobs THEN jobs[i] ELSE Queued]
  BY DEF GivesUp
<1> HIDE DEF row
<1>5. /\ DOMAIN jobs' = DOMAIN jobs \cup new
      /\ jobs'[j] = row
      /\ \A i \in DOMAIN jobs \ {j} : jobs'[i] = jobs[i]
      /\ \A i \in new \ DOMAIN jobs : jobs'[i] = Queued
  BY <1>1, <1>4
<1>6. jobs' \in [DOMAIN jobs' -> Job]
  <2>1. jobs' = [i \in DOMAIN jobs' |-> jobs'[i]]
    BY <1>4
  <2>2. \A i \in DOMAIN jobs' : jobs'[i] \in Job
    BY <1>1, <1>2, <1>3, <1>5
  <2> QED
    BY <2>1, <2>2
<1>7. JobsTypeOK'
  <2>1. DOMAIN jobs' \subseteq {ReportOf(x) : x \in Export} \cup {CleanupOf(x) : x \in Export}
    BY <1>5 DEF ExportsInv, JobsTypeOK
  <2>2. \A i \in DOMAIN jobs' : jobs'[i].status = "PROCESSING" => jobs'[i].lease = jobs'[i].attempts
    BY <1>2, <1>3, <1>5 DEF ExportsInv, JobsTypeOK
  <2> QED
    BY <1>6, <2>1, <2>2 DEF JobsTypeOK
<1>8. \A i \in DOMAIN jobs : jobs'[i].attempts = jobs[i].attempts
  BY <1>2, <1>5
<1>9. \A v \in Worker \ {w} : Handling(v) => jobs'[workers[v].job] = jobs[workers[v].job]
  <2>1. \A v \in Worker : Handling(v) => workers[v].job \in DOMAIN jobs
    BY Subjects DEF Handling, Busy, Outside
  <2> QED
    BY <2>1, <1>5
<1>10. /\ ClaimsTypeOK' /\ ClaimsApart'
       /\ workers'[w] = Resting /\ \A v \in Worker \ {w} : workers'[v] = workers[v]
  BY <1>4, <1>5, <1>7, <1>8, <1>9, Ended
<1>11. HandlersTrue'
  BY <1>10, RestingTrue, HandlersKept
<1> QED
  BY <1>2, <1>5, <1>7, <1>10, <1>11

(* What has happened to the exports but the one of the job.                *)
LEMMA OthersKept ==
  ASSUME ExportsInv, NEW x \in Export,
         \A y \in Export \ {x} : exports'[y] = exports[y] /\ (y \in files' <=> y \in files),
         \A i : i \notin {ReportOf(x), CleanupOf(x)} =>
           /\ i \in DOMAIN jobs' <=> i \in DOMAIN jobs
           /\ i \in DOMAIN jobs => jobs'[i] = jobs[i],
         UNCHANGED <<stored, aged>>
  PROVE  \A y \in Export \ {x} : OutcomeTrue(y)'
<1> SUFFICES ASSUME NEW y \in Export \ {x} PROVE OutcomeTrue(y)'
  OBVIOUS
<1>1. \A i \in {ReportOf(y), CleanupOf(y)} : i \notin {ReportOf(x), CleanupOf(x)}
  BY JobKeys
<1>2. OutcomeTrue(y)
  BY DEF ExportsInv, ExportsTrue
<1> QED
  BY <1>1, <1>2, OutcomeKept

LEMMA HandlerAlone ==
  ASSUME ExportsInv, NEW w \in Worker, Handling(w)
  PROVE  \A v \in Worker \ {w} : Handling(v) => workers[v].job # workers[w].job
BY OneHandler DEF ExportsInv, ClaimsApart, Handling, Busy, Outside

LEMMA Completed ==
  ASSUME ExportsInv, NEW w \in Worker, Busy(w), Complete(w)
  PROVE  GivesUp(w, "COMPLETED", {})
<1>1. jobs = [i \in DOMAIN jobs |-> jobs[i]] /\ workers[w].job \in DOMAIN jobs
  BY Subjects DEF ExportsInv, JobsTypeOK
<1>2. DOMAIN jobs \cup {} = DOMAIN jobs
  OBVIOUS
<1> QED
  BY <1>1, <1>2 DEF Complete, GivesUp, Given

LEMMA RevokeKeeps ==
  ASSUME ExportsInv, NEW w \in Worker, RevokeReport(w)
  PROVE  ExportsInv'
<1>0. PICK x \in Export : x = Subject(w)
  BY HandlerFinds DEF RevokeReport, ReportSteps
<1>1. /\ workers[w].step = "REVOKING" /\ Complete(w) /\ exports' = [exports EXCEPT ![x] = "FAILED"]
      /\ UNCHANGED <<stored, files, aged>>
  BY <1>0 DEF RevokeReport
<1>2. /\ x \in Export /\ exports[x] = "QUEUED" /\ x \notin files /\ CleanupOf(x) \notin DOMAIN jobs
      /\ workers[w].job = ReportOf(x) /\ StillLeased(w) /\ Busy(w) /\ Handling(w)
  BY <1>0, <1>1, HandlerFinds DEF ReportSteps, Handling, Outside
<1>3. GivesUp(w, "COMPLETED", {})
  BY <1>1, <1>2, Completed
<1>4. /\ JobsTypeOK' /\ ClaimsTypeOK' /\ ClaimsApart' /\ HandlersTrue'
      /\ DOMAIN jobs' = DOMAIN jobs \cup {}
      /\ jobs'[ReportOf(x)].status = "COMPLETED"
      /\ \A i \in DOMAIN jobs \ {ReportOf(x)} : jobs'[i] = jobs[i]
  BY <1>1, <1>2, <1>3, Settles, HandlerAlone
<1>5. exports \in [Export -> {"ABSENT", "QUEUED", "READY", "FAILED", "EXPIRED"}]
  BY DEF ExportsInv, ExportsTrue
<1>6. /\ exports' \in [Export -> {"ABSENT", "QUEUED", "READY", "FAILED", "EXPIRED"}]
      /\ exports'[x] = "FAILED" /\ \A y \in Export \ {x} : exports'[y] = exports[y]
  BY <1>1, <1>2, <1>5
<1>7. OutcomeTrue(x)'
  <2>1. OutcomeTrue(x) /\ ReportOf(x) \in DOMAIN jobs
    BY <1>2 DEF ExportsInv, ExportsTrue, OutcomeTrue
  <2> QED
    BY <2>1, <1>1, <1>2, <1>4, <1>6 DEF OutcomeTrue, IsStatus, Settled
<1>8. \A y \in Export \ {x} : OutcomeTrue(y)'
  BY <1>1, <1>2, <1>4, <1>6, OthersKept
<1>9. ExportsTrue'
  BY <1>1, <1>6, <1>7, <1>8 DEF ExportsInv, ExportsTrue
<1> QED
  BY <1>4, <1>9 DEF ExportsInv

LEMMA ExpireKeeps ==
  ASSUME ExportsInv, NEW w \in Worker, ExpireExport(w)
  PROVE  ExportsInv'
<1>0. PICK x \in Export : x = Subject(w)
  BY HandlerFinds DEF ExpireExport, CleanupSteps
<1>1. /\ workers[w].step = "DELETED" /\ Complete(w)
      /\ exports' = [exports EXCEPT ![x] = IF @ = "READY" THEN "EXPIRED" ELSE @]
      /\ UNCHANGED <<stored, files, aged>>
  BY <1>0 DEF ExpireExport
<1>2. /\ x \in Export /\ exports[x] \in {"READY", "EXPIRED"} /\ x \in aged
      /\ workers[w].job = CleanupOf(x) /\ StillLeased(w) /\ Busy(w) /\ Handling(w)
  BY <1>0, <1>1, HandlerFinds DEF CleanupSteps, Handling, Outside
<1>3. GivesUp(w, "COMPLETED", {})
  BY <1>1, <1>2, Completed
<1>4. /\ JobsTypeOK' /\ ClaimsTypeOK' /\ ClaimsApart' /\ HandlersTrue'
      /\ DOMAIN jobs' = DOMAIN jobs \cup {}
      /\ jobs'[CleanupOf(x)].status = "COMPLETED"
      /\ \A i \in DOMAIN jobs \ {CleanupOf(x)} : jobs'[i] = jobs[i]
  BY <1>1, <1>2, <1>3, Settles, HandlerAlone
<1>5. x \notin stored
  BY <1>0, <1>1 DEF ExportsInv, HandlersTrue, HandlerTrue
<1>6. exports \in [Export -> {"ABSENT", "QUEUED", "READY", "FAILED", "EXPIRED"}]
  BY DEF ExportsInv, ExportsTrue
<1>7. /\ exports' \in [Export -> {"ABSENT", "QUEUED", "READY", "FAILED", "EXPIRED"}]
      /\ exports'[x] = "EXPIRED" /\ \A y \in Export \ {x} : exports'[y] = exports[y]
  BY <1>1, <1>2, <1>6
<1>8. OutcomeTrue(x)'
  <2>1. OutcomeTrue(x)
    BY <1>2 DEF ExportsInv, ExportsTrue
  <2>2. ReportOf(x) # CleanupOf(x)
    BY JobKeys
  <2> QED
    BY <2>1, <2>2, <1>1, <1>2, <1>4, <1>5, <1>7 DEF OutcomeTrue, IsStatus, Settled
<1>9. \A y \in Export \ {x} : OutcomeTrue(y)'
  BY <1>1, <1>2, <1>4, <1>7, OthersKept
<1>10. ExportsTrue'
  BY <1>1, <1>7, <1>8, <1>9 DEF ExportsInv, ExportsTrue
<1> QED
  BY <1>4, <1>10 DEF ExportsInv

LEMMA PublishKeeps ==
  ASSUME ExportsInv, NEW w \in Worker, PublishReport(w)
  PROVE  ExportsInv'
<1>0. PICK x \in Export : x = Subject(w)
  BY HandlerFinds DEF PublishReport, ReportSteps
<1> DEFINE new == {CleanupOf(x)}
<1>1. /\ workers[w].step = "PUBLISHING"
      /\ exports' = [exports EXCEPT ![x] = "READY"] /\ files' = files \cup {x}
      /\ jobs' = [WithJobs(new \ DOMAIN jobs) EXCEPT ![ReportOf(x)].status = "COMPLETED",
                                                    ![ReportOf(x)].lease = 0]
      /\ workers' = [workers EXCEPT ![w] = Resting]
      /\ UNCHANGED <<stored, aged>>
  BY <1>0 DEF PublishReport
<1>2. /\ x \in Export /\ exports[x] = "QUEUED" /\ x \notin files /\ CleanupOf(x) \notin DOMAIN jobs
      /\ workers[w].job = ReportOf(x) /\ StillLeased(w) /\ Busy(w) /\ Handling(w)
      /\ ReportOf(x) \in DOMAIN jobs
  BY <1>0, <1>1, HandlerFinds, Subjects DEF ReportSteps, Handling, Outside
<1>3. x \in stored
  BY <1>0, <1>1 DEF ExportsInv, HandlersTrue, HandlerTrue
<1>4. GivesUp(w, "COMPLETED", new)
  <2>1. new \ DOMAIN jobs = new
    BY <1>2
  <2> DEFINE both == WithJobs(new)
  <2>2. both = [i \in DOMAIN jobs \cup new |-> IF i \in DOMAIN jobs THEN jobs[i] ELSE Queued]
    BY <1>2 DEF WithJobs
  <2>3. both[ReportOf(x)] = jobs[ReportOf(x)]
    BY <2>2, <1>2
  <2>4. jobs' = [both EXCEPT ![ReportOf(x)].status = "COMPLETED", ![ReportOf(x)].lease = 0]
    BY <2>1, <1>1
  <2> HIDE DEF both
  <2>5. jobs' = [both EXCEPT ![ReportOf(x)] = Given(w, "COMPLETED")]
    BY <2>2, <2>3, <2>4, <1>2 DEF Given
  <2>6. jobs' = [i \in DOMAIN jobs \cup new |->
                   IF i = ReportOf(x) THEN Given(w, "COMPLETED")
                   ELSE IF i \in DOMAIN jobs THEN jobs[i] ELSE Queued]
    BY <2>2, <2>5, <1>2
  <2> QED
    BY <2>6, <1>1, <1>2 DEF GivesUp
<1>5. new \in SUBSET {CleanupOf(y) : y \in Export}
  BY <1>2
<1>6. /\ JobsTypeOK' /\ ClaimsTypeOK' /\ ClaimsApart' /\ HandlersTrue'
      /\ DOMAIN jobs' = DOMAIN jobs \cup new
      /\ jobs'[ReportOf(x)].status = "COMPLETED"
      /\ \A i \in DOMAIN jobs \ {ReportOf(x)} : jobs'[i] = jobs[i]
      /\ jobs'[CleanupOf(x)] = Queued
  BY ZenonT(30), <1>1, <1>2, <1>4, <1>5, Settles, HandlerAlone
<1>7. exports \in [Export -> {"ABSENT", "QUEUED", "READY", "FAILED", "EXPIRED"}] /\ files \subseteq Export
  BY DEF ExportsInv, ExportsTrue
<1>8. /\ exports' \in [Export -> {"ABSENT", "QUEUED", "READY", "FAILED", "EXPIRED"}]
      /\ exports'[x] = "READY" /\ \A y \in Export \ {x} : exports'[y] = exports[y]
      /\ files' \subseteq Export
  BY <1>1, <1>2, <1>7
<1>9. OutcomeTrue(x)'
  <2>1. x \in files' /\ x \in stored' /\ CleanupOf(x) \in DOMAIN jobs' /\ ReportOf(x) \in DOMAIN jobs'
    BY <1>1, <1>2, <1>3, <1>6
  <2>2. jobs'[CleanupOf(x)].status = "PENDING"
    BY <1>6 DEF Queued
  <2> QED
    BY <2>1, <2>2, <1>6, <1>8 DEF OutcomeTrue, IsStatus, Settled
<1>10. \A y \in Export \ {x} : OutcomeTrue(y)'
  BY <1>1, <1>2, <1>6, <1>8, OthersKept
<1>11. ExportsTrue'
  BY <1>8, <1>9, <1>10 DEF ExportsTrue
<1> QED
  BY <1>6, <1>11 DEF ExportsInv

-----------------------------------------------------------------------------
(* A claim that fails is recorded, unless its lease is no longer its own.  *)
LEMMA FailureKeeps ==
  ASSUME ExportsInv, NEW w \in Worker, RecordExportFailure(w)
  PROVE  ExportsInv'
<1>1. /\ workers[w].step = "FAILED" /\ workers[w].job \notin Handled
      /\ workers' = [workers EXCEPT ![w] = Resting]
      /\ UNCHANGED <<stored, files, aged>>
  BY DEF RecordExportFailure, RecordFailure
<1>2. Busy(w) /\ \A v \in Worker \ {w} : Handling(v) => workers[v].job # workers[w].job
  BY <1>1 DEF Busy, Handled
<1>3. CASE ~StillLeased(w)
  <2>1. UNCHANGED <<jobs, exports>>
    BY <1>3 DEF RecordExportFailure, RecordFailure
  <2>2. JobsTypeOK'
    BY <2>1 DEF ExportsInv, JobsTypeOK
  <2>3. /\ ClaimsTypeOK' /\ ClaimsApart'
        /\ workers'[w] = Resting /\ \A v \in Worker \ {w} : workers'[v] = workers[v]
    BY <2>1, <2>2, <1>1, Ended
  <2>4. HandlersTrue'
    BY <2>3, <1>1, RestingTrue, HandlersKept
  <2>5. ExportsTrue'
    BY <2>1, <1>1 DEF ExportsInv, ExportsTrue, OutcomeTrue, IsStatus, Settled
  <2> QED
    BY <2>2, <2>3, <2>4, <2>5 DEF ExportsInv
<1>4. CASE StillLeased(w)
  <2>0. PICK x \in Export : x = Subject(w)
    BY <1>2, Subjects
  <2>1. PICK i, st : /\ i = workers[w].job /\ st \in {"PENDING", "DEAD_LETTER"}
                     /\ st = IF jobs[i].attempts >= MaxAttempts THEN "DEAD_LETTER" ELSE "PENDING"
    <3>1. PICK i : i = workers[w].job
      OBVIOUS
    <3>2. CASE jobs[i].attempts >= MaxAttempts
      BY <3>1, <3>2
    <3>3. CASE ~(jobs[i].attempts >= MaxAttempts)
      BY <3>1, <3>3
    <3> QED
      BY <3>2, <3>3
  <2>2. /\ i \in DOMAIN jobs /\ (i = ReportOf(x) \/ i = CleanupOf(x))
        /\ i[1] = "REPORT_PDF" <=> i = ReportOf(x)
        /\ i[2] = x
    BY <2>0, <2>1, <1>2, Subjects, JobKeys DEF Subject
  <2>3. jobs[i].status = "PROCESSING"
    BY <2>1, <1>4 DEF StillLeased
  <2>4. jobs' = [jobs EXCEPT ![i].status = st, ![i].lease = 0]
    BY <2>1, <1>4 DEF RecordExportFailure, RecordFailure
  <2>5. exports' = IF i = ReportOf(x) /\ exports[x] = "QUEUED" /\ st = "DEAD_LETTER"
                   THEN [exports EXCEPT ![x] = "FAILED"] ELSE exports
    BY <2>1, <2>2, <1>4 DEF RecordExportFailure
  <2>6. GivesUp(w, st, {})
    <3>1. jobs = [k \in DOMAIN jobs |-> jobs[k]] /\ DOMAIN jobs \cup {} = DOMAIN jobs
      BY DEF ExportsInv, JobsTypeOK
    <3> QED
      BY <3>1, <2>1, <2>2, <2>4, <1>1 DEF GivesUp, Given
  <2>7. /\ JobsTypeOK' /\ ClaimsTypeOK' /\ ClaimsApart' /\ HandlersTrue'
        /\ DOMAIN jobs' = DOMAIN jobs
        /\ jobs'[i].status = st
        /\ \A k \in DOMAIN jobs \ {i} : jobs'[k] = jobs[k]
    <3>1. /\ JobsTypeOK' /\ ClaimsTypeOK' /\ ClaimsApart' /\ HandlersTrue'
          /\ DOMAIN jobs' = DOMAIN jobs \cup {}
          /\ jobs'[workers[w].job].status = st
          /\ \A k \in DOMAIN jobs \ {workers[w].job} : jobs'[k] = jobs[k]
      <4>1. {} \in SUBSET {CleanupOf(y) : y \in Export} /\ st \in {"PENDING", "COMPLETED", "DEAD_LETTER"}
        BY <2>1
      <4>2. UNCHANGED <<stored, aged>>
        BY <1>1
      <4> QED
        BY <4>1, <4>2, <2>6, <1>2, <1>4, Settles
    <3> QED
      BY <3>1, <2>1
  <2>8. exports \in [Export -> {"ABSENT", "QUEUED", "READY", "FAILED", "EXPIRED"}]
    BY DEF ExportsInv, ExportsTrue
  <2>9. OutcomeTrue(x)
    BY DEF ExportsInv, ExportsTrue
  <2>10. /\ exports' \in [Export -> {"ABSENT", "QUEUED", "READY", "FAILED", "EXPIRED"}]
         /\ \A y \in Export \ {x} : exports'[y] = exports[y]
         /\ i = ReportOf(x) /\ st = "DEAD_LETTER" => exports'[x] = "FAILED"
         /\ i = CleanupOf(x) \/ st = "PENDING" => exports'[x] = exports[x]
    <3>1. i = ReportOf(x) => exports[x] = "QUEUED"
      BY <2>2, <2>3, <2>9 DEF OutcomeTrue, IsStatus
    <3>2. ReportOf(x) # CleanupOf(x)
      BY JobKeys
    <3> QED
      BY <3>1, <3>2, <2>5, <2>8
  <2>11. OutcomeTrue(x)'
    <3>1. ReportOf(x) # CleanupOf(x)
      BY JobKeys
    <3>2. CASE i = ReportOf(x) /\ st = "DEAD_LETTER"
      <4>1. CleanupOf(x) \in DOMAIN jobs => jobs'[CleanupOf(x)] = jobs[CleanupOf(x)]
        BY <3>1, <3>2, <2>7
      <4>2. exports[x] = "QUEUED" /\ x \notin files /\ CleanupOf(x) \notin DOMAIN jobs
        BY <3>2, <2>2, <2>3, <2>9 DEF OutcomeTrue, IsStatus
      <4> QED
        BY <4>1, <4>2, <3>2, <2>2, <2>7, <2>10, <1>1 DEF OutcomeTrue, IsStatus
    <3>3. CASE i = ReportOf(x) /\ st = "PENDING"
      <4>1. \A k \in {ReportOf(x), CleanupOf(x)} : k \in DOMAIN jobs =>
              \/ jobs'[k].status = jobs[k].status
              \/ /\ jobs'[k].status \in {"PENDING", "PROCESSING"}
                 /\ jobs[k].status \in {"PENDING", "PROCESSING"}
        BY <3>1, <3>3, <2>3, <2>7
      <4> QED
        BY <4>1, <3>3, <2>7, <2>9, <2>10, <1>1, OutcomeKept
    <3>4. CASE i = CleanupOf(x)
      <4>1. ReportOf(x) \in DOMAIN jobs => jobs'[ReportOf(x)] = jobs[ReportOf(x)]
        BY <3>1, <3>4, <2>7
      <4> QED
        BY <4>1, <3>4, <2>1, <2>7, <2>9, <2>10, <1>1 DEF OutcomeTrue, IsStatus, Settled
    <3> QED
      BY <3>2, <3>3, <3>4, <2>1, <2>2
  <2>12. \A y \in Export \ {x} : OutcomeTrue(y)'
    <3>1. \A k : k \notin {ReportOf(x), CleanupOf(x)} =>
            /\ k \in DOMAIN jobs' <=> k \in DOMAIN jobs
            /\ k \in DOMAIN jobs => jobs'[k] = jobs[k]
      BY <2>2, <2>7
    <3> QED
      BY <3>1, <2>10, <1>1, OthersKept
  <2>13. ExportsTrue'
    BY <2>10, <2>11, <2>12, <1>1 DEF ExportsInv, ExportsTrue
  <2> QED
    BY <2>7, <2>13 DEF ExportsInv
<1> QED
  BY <1>3, <1>4

(* The process dies.                                                       *)
LEMMA DeathKeeps ==
  ASSUME ExportsInv, NEW w \in Worker, workers' = [workers EXCEPT ![w] = Resting],
         UNCHANGED <<jobs, exportsKept>>
  PROVE  ExportsInv'
<1>1. JobsTypeOK'
  BY DEF ExportsInv, JobsTypeOK
<1>2. /\ ClaimsTypeOK' /\ ClaimsApart'
      /\ workers'[w] = Resting /\ \A v \in Worker \ {w} : workers'[v] = workers[v]
  BY <1>1, Ended
<1>3. HandlersTrue'
  BY <1>2, RestingTrue, HandlersKept DEF exportsKept
<1>4. ExportsTrue'
  BY DEF ExportsInv, ExportsTrue, OutcomeTrue, IsStatus, Settled, exportsKept
<1> QED
  BY <1>1, <1>2, <1>3, <1>4 DEF ExportsInv

-----------------------------------------------------------------------------
(* The file of an export is put, or deleted: no other worker has it.       *)
LEMMA StoreKeeps ==
  ASSUME ExportsInv, NEW w \in Worker, StoreReport(w)
  PROVE  ExportsInv'
<1>1. PICK x \in Export : x = Subject(w)
  BY HandlerFinds DEF StoreReport, ReportSteps
<1>2. /\ workers[w].step = "RENDERING" /\ MoveTo(w, "STORED") /\ stored' = stored \cup {x}
      /\ UNCHANGED <<jobs, exports, files, aged>>
  BY <1>1 DEF StoreReport
<1>3. /\ x \notin files /\ workers[w].job = ReportOf(x) /\ StillLeased(w) /\ Busy(w)
      /\ exports[x] = "QUEUED"
  BY <1>1, <1>2, HandlerFinds DEF ReportSteps
<1>4. /\ JobsTypeOK' /\ ClaimsTypeOK' /\ ClaimsApart'
      /\ workers'[w].job = workers[w].job /\ workers'[w].step = "STORED"
      /\ \A v \in Worker \ {w} : workers'[v] = workers[v]
  BY <1>2, <1>3, Moved DEF ClaimStep, ReportSteps
<1>5. HandlerTrue(w)'
  <2>1. Subject(w)' = x
    BY <1>1, <1>4 DEF Subject
  <2> QED
    BY <2>1, <1>2, <1>3, <1>4 DEF HandlerTrue, ReportSteps, CleanupSteps
<1>6. ASSUME NEW v \in Worker \ {w} PROVE HandlerTrue(v)'
  <2>1. workers[v].step = "DELETED" => Subject(v) # x
    BY <1>3, HandlerFinds DEF CleanupSteps
  <2>2. HandlerTrue(v) /\ Subject(v)' = Subject(v)
    BY <1>4 DEF ExportsInv, HandlersTrue, Subject
  <2> QED
    BY <2>1, <2>2, <1>2, <1>4 DEF HandlerTrue
<1>7. ASSUME NEW y \in Export PROVE OutcomeTrue(y)'
  <2>1. OutcomeTrue(y)
    BY DEF ExportsInv, ExportsTrue
  <2>2. CASE y # x
    BY <2>1, <2>2, <1>2, OutcomeKept
  <2>3. CASE y = x
    BY <2>1, <2>3, <1>2, <1>3 DEF OutcomeTrue, IsStatus, Settled
  <2> QED
    BY <2>2, <2>3
<1> QED
  BY <1>2, <1>4, <1>5, <1>6, <1>7 DEF ExportsInv, HandlersTrue, ExportsTrue

LEMMA DeleteKeeps ==
  ASSUME ExportsInv, NEW w \in Worker, DeleteObject(w)
  PROVE  ExportsInv'
<1>1. PICK x \in Export : x = Subject(w)
  BY HandlerFinds DEF DeleteObject, CleanupSteps
<1>2. /\ workers[w].step = "DELETING" /\ MoveTo(w, "DELETED") /\ stored' = stored \ {x}
      /\ UNCHANGED <<jobs, exports, files, aged>>
  BY <1>1 DEF DeleteObject
<1>3. /\ x \in aged /\ workers[w].job = CleanupOf(x) /\ StillLeased(w) /\ Busy(w)
      /\ exports[x] \in {"READY", "EXPIRED"}
  BY <1>1, <1>2, HandlerFinds DEF CleanupSteps
<1>4. /\ JobsTypeOK' /\ ClaimsTypeOK' /\ ClaimsApart'
      /\ workers'[w].job = workers[w].job /\ workers'[w].step = "DELETED"
      /\ \A v \in Worker \ {w} : workers'[v] = workers[v]
  BY <1>2, <1>3, Moved DEF ClaimStep, CleanupSteps
<1>5. HandlerTrue(w)'
  <2>1. Subject(w)' = x
    BY <1>1, <1>4 DEF Subject
  <2> QED
    BY <2>1, <1>2, <1>3, <1>4 DEF HandlerTrue, ReportSteps, CleanupSteps
<1>6. ASSUME NEW v \in Worker \ {w} PROVE HandlerTrue(v)'
  <2>1. workers[v].step \in {"STORED", "PUBLISHING"} => Subject(v) # x
    BY <1>3, HandlerFinds DEF ReportSteps
  <2>2. HandlerTrue(v) /\ Subject(v)' = Subject(v)
    BY <1>4 DEF ExportsInv, HandlersTrue, Subject
  <2> QED
    BY <2>1, <2>2, <1>2, <1>4 DEF HandlerTrue
<1>7. ASSUME NEW y \in Export PROVE OutcomeTrue(y)'
  <2>1. OutcomeTrue(y)
    BY DEF ExportsInv, ExportsTrue
  <2>2. CASE y # x
    BY <2>1, <2>2, <1>2, OutcomeKept
  <2>3. CASE y = x
    BY <2>1, <2>3, <1>2, <1>3 DEF OutcomeTrue, IsStatus, Settled
  <2> QED
    BY <2>2, <2>3
<1> QED
  BY <1>2, <1>4, <1>5, <1>6, <1>7 DEF ExportsInv, HandlersTrue, ExportsTrue

(* The steps of a handler that only lead it on.                            *)
LEMMA HandlerMoves ==
  ASSUME ExportsInv, NEW w \in Worker,
         \/ HandleReport(w) \/ AuthorizeReport(w) \/ HandleCleanup(w) \/ HandlerStops(w)
  PROVE  ExportsInv'
<1>1. CASE HandleReport(w)
  <2>1. /\ workers[w].step = "CLAIMED" /\ workers[w].job[1] = "REPORT_PDF"
        /\ StillLeased(w) /\ UNCHANGED <<jobs, exportsKept>> /\ Busy(w)
    BY <1>1 DEF HandleReport, Takes, Load, exportVars, exportsKept, Busy
  <2>2. Subject(w) \in Export /\ workers[w].job = ReportOf(Subject(w)) /\ workers[w].job \in DOMAIN jobs
    BY <2>1, Subjects
  <2>3. ~Settled(Subject(w))
    <3>1. OutcomeTrue(Subject(w))
      BY <2>2 DEF ExportsInv, ExportsTrue
    <3> QED
      BY <3>1, <2>1, <2>2 DEF OutcomeTrue, IsStatus, StillLeased, Settled
  <2>4. PICK step \in {"REVOKING", "RENDERING"} : MoveTo(w, step)
    BY <1>1, <2>3 DEF HandleReport, Load
  <2>5. step \in ClaimStep
    BY DEF ClaimStep, ReportSteps
  <2>6. workers'[w].job = workers[w].job /\ workers'[w].step = step
    BY <2>1, <2>4, <2>5, Moved
  <2>7. HandlerTrue(w)'
    BY <2>2, <2>6 DEF HandlerTrue, Subject, CleanupSteps
  <2> QED
    BY <2>1, <2>4, <2>5, <2>7, MovedOn
<1>2. CASE AuthorizeReport(w)
  <2>1. /\ workers[w].step = "STORED" /\ MoveTo(w, "PUBLISHING")
        /\ UNCHANGED <<jobs, exportsKept>>
    BY <1>2 DEF AuthorizeReport, exportVars, exportsKept
  <2>2. StillLeased(w) /\ Busy(w) /\ workers[w].job = ReportOf(Subject(w))
    BY <2>1, HandlerFinds DEF ReportSteps
  <2>3. Subject(w) \in stored
    BY <2>1 DEF ExportsInv, HandlersTrue, HandlerTrue
  <2>4. "PUBLISHING" \in ClaimStep
    BY DEF ClaimStep, ReportSteps
  <2>5. workers'[w].job = workers[w].job /\ workers'[w].step = "PUBLISHING"
    BY <2>1, <2>2, <2>4, Moved
  <2>6. HandlerTrue(w)'
    BY <2>1, <2>2, <2>3, <2>5 DEF HandlerTrue, Subject, CleanupSteps, exportsKept
  <2> QED
    BY <2>1, <2>2, <2>4, <2>6, MovedOn
<1>3. CASE HandleCleanup(w)
  <2>1. /\ workers[w].step = "CLAIMED" /\ workers[w].job[1] = "OBJECT_FILE_CLEANUP"
        /\ StillLeased(w) /\ UNCHANGED <<jobs, exportsKept>> /\ Busy(w)
        /\ MoveTo(w, "DELETING") /\ Subject(w) \in aged
    BY <1>3 DEF HandleCleanup, Takes, Load, exportVars, exportsKept, Busy
  <2>2. workers[w].job = CleanupOf(Subject(w))
    BY <2>1, Subjects
  <2>3. "DELETING" \in ClaimStep
    BY DEF ClaimStep, CleanupSteps
  <2>4. workers'[w].job = workers[w].job /\ workers'[w].step = "DELETING"
    BY <2>1, <2>3, Moved
  <2>5. HandlerTrue(w)'
    BY <2>1, <2>2, <2>4 DEF HandlerTrue, Subject, ReportSteps, exportsKept
  <2> QED
    BY <2>1, <2>3, <2>5, MovedOn
<1>4. CASE HandlerStops(w)
  <2>1. /\ MoveTo(w, "FAILED") /\ UNCHANGED <<jobs, exportsKept>> /\ Busy(w)
    BY <1>4
    DEF HandlerStops, Unavailable, HandlerFails, Handling, Outside, exportVars, exportsKept, Busy
  <2>2. "FAILED" \in ClaimStep /\ "FAILED" \in Outside
    BY DEF ClaimStep, Outside
  <2>3. workers'[w].step = "FAILED"
    BY <2>1, <2>2, Moved
  <2>4. HandlerTrue(w)'
    BY <2>3 DEF HandlerTrue, ReportSteps, CleanupSteps
  <2> QED
    BY <2>1, <2>2, <2>4, MovedOn
<1> QED
  BY <1>1, <1>2, <1>3, <1>4

(* No handler finds its export settled.                                    *)
LEMMA NeverHandled ==
  ASSUME ExportsInv, NEW w \in Worker
  PROVE  ~FinishHandled(w)
<1>1. workers[w].step # "HANDLED"
  BY DEF ExportsInv, ClaimsTypeOK, Resting, ClaimStep, ReportSteps, CleanupSteps
<1> QED
  BY <1>1 DEF FinishHandled

LEMMA ProgressKeeps ==
  ASSUME ExportsInv, NEW w \in Worker, ExportProgress(w)
  PROVE  ExportsInv'
BY ClaimKeeps, FailureKeeps, HandlerMoves, StoreKeeps, PublishKeeps, RevokeKeeps, NeverHandled,
   DeleteKeeps, ExpireKeeps DEF ExportProgress

-----------------------------------------------------------------------------
(* What users and clocks do.                                               *)
LEMMA QueueKeeps ==
  ASSUME ExportsInv, NEW x \in Export, Queue(x)
  PROVE  ExportsInv'
<1>1. /\ exports[x] = "ABSENT" /\ exports' = [exports EXCEPT ![x] = "QUEUED"]
      /\ jobs' = [i \in DOMAIN jobs \cup {ReportOf(x)} |-> IF i \in {ReportOf(x)} THEN Queued ELSE jobs[i]]
      /\ UNCHANGED <<workers, stored, files, aged>>
  BY DEF Queue, WithJobs
<1>2. ReportOf(x) \notin DOMAIN jobs
  BY <1>1 DEF ExportsInv, ExportsTrue, OutcomeTrue
<1>3. jobs \in [DOMAIN jobs -> Job]
  BY DEF ExportsInv, JobsTypeOK
<1>4. Queued \in Job /\ Queued.status = "PENDING"
  BY DEF Queued, Job
<1>5. /\ DOMAIN jobs' = DOMAIN jobs \cup {ReportOf(x)} /\ jobs'[ReportOf(x)] = Queued
      /\ \A i \in DOMAIN jobs : jobs'[i] = jobs[i]
      /\ jobs' \in [DOMAIN jobs' -> Job]
  BY <1>1, <1>2, <1>3, <1>4
<1>6. JobsTypeOK'
  BY <1>4, <1>5 DEF ExportsInv, JobsTypeOK
<1>7. ClaimsTypeOK'
  <2>1. ASSUME NEW w \in Worker, workers[w] # Resting
        PROVE  /\ workers[w] \in [job: DOMAIN jobs', lease: Nat \ {0}, step: ClaimStep]
               /\ workers[w].lease <= jobs'[workers[w].job].attempts
    BY <2>1, <1>5 DEF ExportsInv, ClaimsTypeOK
  <2> QED
    BY <2>1, <1>1 DEF ExportsInv, ClaimsTypeOK
<1>8. ClaimsApart'
  <2>1. \A w \in Worker : Handling(w) => workers[w].job \in DOMAIN jobs
    BY Subjects DEF Handling, Busy, Outside
  <2> QED
    BY <2>1, <1>1, <1>5 DEF ExportsInv, ClaimsApart, Handling, StillLeased, Busy
<1>9. HandlersTrue'
  BY <1>1 DEF ExportsInv, HandlersTrue, HandlerTrue, Subject
<1>10. /\ exports' \in [Export -> {"ABSENT", "QUEUED", "READY", "FAILED", "EXPIRED"}]
       /\ exports'[x] = "QUEUED" /\ \A y \in Export \ {x} : exports'[y] = exports[y]
  BY <1>1 DEF ExportsInv, ExportsTrue
<1>11. OutcomeTrue(x)'
  <2>1. OutcomeTrue(x) /\ x \notin files /\ CleanupOf(x) \notin DOMAIN jobs
    BY <1>1 DEF ExportsInv, ExportsTrue, OutcomeTrue
  <2>2. CleanupOf(x) \notin DOMAIN jobs'
    BY <2>1, <1>5, JobKeys
  <2> QED
    BY <2>1, <2>2, <1>1, <1>4, <1>5, <1>10 DEF OutcomeTrue, IsStatus
<1>12. \A y \in Export \ {x} : OutcomeTrue(y)'
  <2>1. \A k : k \notin {ReportOf(x), CleanupOf(x)} =>
          /\ k \in DOMAIN jobs' <=> k \in DOMAIN jobs
          /\ k \in DOMAIN jobs => jobs'[k] = jobs[k]
    BY <1>5
  <2> QED
    BY <2>1, <1>1, <1>10, OthersKept
<1> QED
  BY <1>1, <1>6, <1>7, <1>8, <1>9, <1>10, <1>11, <1>12 DEF ExportsInv, ExportsTrue

LEMMA ElsewhereKeeps ==
  ASSUME ExportsInv, UNCHANGED <<jobs, workers, exports, stored, files>>, aged \subseteq aged'
  PROVE  ExportsInv'
<1>1. JobsTypeOK' /\ ClaimsTypeOK' /\ ClaimsApart'
  BY DEF ExportsInv, JobsTypeOK, ClaimsTypeOK, ClaimsApart, Busy, Handling, StillLeased
<1>2. HandlersTrue'
  BY DEF ExportsInv, HandlersTrue, HandlerTrue, Subject
<1>3. \A x \in Export : OutcomeTrue(x)'
  BY OutcomeKept DEF ExportsInv, ExportsTrue
<1> QED
  BY <1>1, <1>2, <1>3 DEF ExportsInv, ExportsTrue

LEMMA ExportsStep ==
  ASSUME ExportsInv, [RuntimeNext]_runtimeVars
  PROVE  ExportsInv'
<1>1. CASE UNCHANGED runtimeVars
  BY <1>1, ElsewhereKeeps DEF runtimeVars, outboxVars, exportVars
<1>2. CASE Requests
  <2>1. CASE ExportRequests
    <3>1. ASSUME NEW x \in Export, LoseScope(x) \/ RegainScope(x) PROVE ExportsInv'
      BY <3>1, ElsewhereKeeps DEF LoseScope, RegainScope, outboxVars
    <3> QED
      BY <2>1, <3>1, QueueKeeps DEF ExportRequests
  <2>2. CASE UNCHANGED <<outboxVars, exportVars>>
    BY <2>2, ElsewhereKeeps DEF outboxVars, exportVars
  <2> QED
    BY <1>2, <2>1, <2>2 DEF Requests
<1>3. CASE LeasesRunOut
  <2>1. ASSUME NEW j \in DOMAIN jobs, JobLeaseRunsOut(j) PROVE ExportsInv'
    BY <2>1, LeaseKeeps DEF JobLeaseRunsOut, exportVars, exportsKept
  <2>2. ASSUME NEW r \in DOMAIN letters, LetterLeaseRunsOut(r) PROVE ExportsInv'
    BY <2>2, ElsewhereKeeps DEF LetterLeaseRunsOut, outboxVars, exportVars
  <2> QED
    BY <1>3, <2>1, <2>2 DEF LeasesRunOut
<1>4. CASE FilesAge
  BY <1>4, ElsewhereKeeps DEF FilesAge, FileAges, outboxVars
<1>5. ASSUME NEW w \in Worker, Works(w) PROVE ExportsInv'
  <2>1. CASE UNCHANGED <<outboxVars, exportVars>>
    BY <2>1, ElsewhereKeeps DEF outboxVars, exportVars
  <2> QED
    BY <1>5, <2>1, ProgressKeeps DEF Works
<1>6. ASSUME NEW w \in Worker, Dies(w) PROVE ExportsInv'
  BY <1>6, DeathKeeps DEF Dies, exportVars, exportsKept
<1> QED
  BY <1>1, <1>2, <1>3, <1>4, <1>5, <1>6 DEF RuntimeNext

-----------------------------------------------------------------------------
(* Sign-ins and recoveries.                                                *)
LEMMA AccessInitially == RuntimeInit => AccessInv
<1> SUFFICES ASSUME RuntimeInit PROVE AccessInv
  OBVIOUS
<1>1. /\ secrets \in [Account -> [password: {0}, hash: {0}, current: BOOLEAN]]
      /\ sessions = << >> /\ resets = << >> /\ letters = << >>
  BY DEF RuntimeInit, AccessInit
<1>2. secrets \in [Account -> Secret]
  BY <1>1 DEF Secret
<1> QED
  BY <1>1, <1>2 DEF AccessInv, SignInsTrue, LettersTrue, NoSessionOutlivesReset

LEMMA AccessKept ==
  ASSUME AccessInv, UNCHANGED <<secrets, sessions, resets>>, DOMAIN letters' = DOMAIN letters
  PROVE  AccessInv'
BY DEF AccessInv, SignInsTrue, LettersTrue, NoSessionOutlivesReset

(* What becomes of one sign-in.                                            *)
LEMMA Rewritten ==
  ASSUME AccessInv, NEW s \in DOMAIN sessions,
         NEW status \in {"CHECKED", "REFUSED", "LIVE", "EXPIRED", "REVOKED"}, NEW fresh \in BOOLEAN,
         sessions' = [sessions EXCEPT ![s] = [@ EXCEPT !.status = status, !.fresh = fresh]],
         UNCHANGED <<secrets, resets, letters>>,
         status = "LIVE" =>
           sessions[s].status = "LIVE" \/ sessions[s].hash = secrets[sessions[s].account].hash
  PROVE  AccessInv'
<1> DEFINE r == [sessions[s] EXCEPT !.status = status, !.fresh = fresh]
<1>1. sessions \in [DOMAIN sessions -> SignIn] /\ sessions[s] \in SignIn
  BY DEF AccessInv, SignInsTrue
<1>2. /\ r \in SignIn /\ r.status = status /\ r.account = sessions[s].account
      /\ r.password = sessions[s].password /\ r.hash = sessions[s].hash
  BY <1>1 DEF SignIn
<1>3. sessions' = [sessions EXCEPT ![s] = r]
  OBVIOUS
<1> HIDE DEF r
<1>4. /\ DOMAIN sessions' = DOMAIN sessions /\ sessions' \in [DOMAIN sessions -> SignIn]
      /\ sessions'[s] = r
      /\ \A u \in DOMAIN sessions \ {s} : sessions'[u] = sessions[u]
  BY <1>1, <1>2, <1>3
<1>5. SignInsTrue'
  BY <1>2, <1>4 DEF AccessInv, SignInsTrue
<1>6. NoSessionOutlivesReset'
  BY <1>2, <1>4 DEF AccessInv, SignInsTrue, NoSessionOutlivesReset
<1> QED
  BY <1>5, <1>6 DEF AccessInv, LettersTrue

LEMMA CheckKeeps ==
  ASSUME AccessInv, NEW s \in Session, NEW a \in Account, CheckPassword(s, a)
  PROVE  AccessInv'
<1> DEFINE r == [account |-> a, password |-> secrets[a].password, hash |-> secrets[a].hash,
                 fresh |-> TRUE, status |-> "CHECKED"]
<1>1. /\ sessions \in [DOMAIN sessions -> SignIn]
      /\ secrets \in [Account -> Secret] /\ secrets[a] \in Secret
  BY DEF AccessInv, SignInsTrue
<1>2. /\ s \notin DOMAIN sessions
      /\ sessions' = [u \in DOMAIN sessions \cup {s} |-> IF u = s THEN r ELSE sessions[u]]
      /\ UNCHANGED <<secrets, resets, letters>>
  BY DEF CheckPassword, Adding
<1>3. /\ r \in SignIn /\ r.account = a /\ r.password = secrets[a].password
      /\ r.hash = secrets[a].hash /\ r.status = "CHECKED" /\ r.hash <= secrets[a].hash
  BY <1>1 DEF SignIn, Secret
<1> HIDE DEF r
<1>4. /\ DOMAIN sessions' = DOMAIN sessions \cup {s}
      /\ sessions' \in [DOMAIN sessions' -> SignIn]
      /\ sessions'[s] = r
      /\ \A u \in DOMAIN sessions : sessions'[u] = sessions[u]
  BY <1>1, <1>2, <1>3
<1>5. SignInsTrue'
  BY <1>2, <1>3, <1>4 DEF AccessInv, SignInsTrue
<1>6. NoSessionOutlivesReset'
  BY <1>2, <1>3, <1>4 DEF AccessInv, NoSessionOutlivesReset
<1> QED
  BY <1>2, <1>5, <1>6 DEF AccessInv, LettersTrue

(* A password that is hashed anew has another hash than before, and is the *)
(* same password; a reset gives the account another one.                   *)
LEMMA OpenKeeps ==
  ASSUME AccessInv, NEW s \in DOMAIN sessions, OpenSession(s)
  PROVE  AccessInv'
<1> DEFINE a == sessions[s].account
           old == secrets[a]
           opened == [sessions[s] EXCEPT !.status = "LIVE"]
           rehashed == [old EXCEPT !.hash = old.hash + 1, !.current = TRUE]
<1>1. /\ sessions \in [DOMAIN sessions -> SignIn] /\ sessions[s] \in SignIn /\ a \in Account
      /\ secrets \in [Account -> Secret] /\ old \in Secret
  BY DEF AccessInv, SignInsTrue, SignIn
<1>2. /\ opened \in SignIn /\ opened.account = a /\ opened.status = "LIVE"
      /\ opened.password = sessions[s].password /\ opened.hash = sessions[s].hash
  BY <1>1 DEF SignIn
<1>3. rehashed \in Secret /\ rehashed.hash = old.hash + 1 /\ rehashed.password = old.password
  <2>1. PICK row \in Secret : row = old
    BY <1>1
  <2>2. row.hash \in Nat
    BY DEF Secret
  <2>3. PICK h \in Nat : h = row.hash + 1
    BY <2>2
  <2>4. LET n == [row EXCEPT !.hash = h, !.current = TRUE] IN
        n \in Secret /\ n.hash = h /\ n.password = row.password
    BY DEF Secret
  <2> QED
    BY <2>1, <2>3, <2>4
<1>4. PICK now \in Secret :
        /\ secrets' = [secrets EXCEPT ![a] = now]
        /\ now.password = old.password
        /\ now = old \/ now.hash = old.hash + 1
  <2>1. secrets' = [secrets EXCEPT ![a] = IF old.current THEN old ELSE rehashed]
    BY DEF OpenSession, Opened
  <2>2. CASE old.current
    BY <2>1, <2>2, <1>1
  <2>3. CASE ~old.current
    BY <2>1, <2>3, <1>3
  <2> QED
    BY <2>2, <2>3
<1>5. /\ sessions' = [sessions EXCEPT ![s] = opened] /\ old.hash = sessions[s].hash
      /\ UNCHANGED <<resets, letters>>
  BY DEF OpenSession, Opened, Unchanged
<1>6. /\ old.hash \in Nat /\ now.hash \in Nat
      /\ \A u \in DOMAIN sessions : sessions[u].hash \in Nat /\ sessions[u].account \in Account
      /\ \A b \in Account : secrets[b].hash \in Nat
  BY <1>1 DEF Secret, SignIn
<1> HIDE DEF opened, rehashed
<1>7. /\ DOMAIN sessions' = DOMAIN sessions /\ sessions' \in [DOMAIN sessions -> SignIn]
      /\ sessions'[s] = opened /\ \A u \in DOMAIN sessions \ {s} : sessions'[u] = sessions[u]
  BY <1>1, <1>2, <1>5
<1>8. /\ secrets' \in [Account -> Secret]
      /\ secrets'[a] = now /\ \A b \in Account \ {a} : secrets'[b] = secrets[b]
  BY <1>1, <1>4
<1>9. ASSUME NEW u \in DOMAIN sessions
      PROVE  LET then == secrets'[sessions[u].account] IN
             /\ sessions[u].hash <= then.hash
             /\ sessions[u].hash = then.hash => sessions[u].password = then.password
             /\ sessions[u].status = "LIVE" => sessions[u].password = then.password
  <2>1. LET was == secrets[sessions[u].account] IN
        /\ sessions[u].hash <= was.hash
        /\ sessions[u].hash = was.hash => sessions[u].password = was.password
        /\ sessions[u].status = "LIVE" => sessions[u].password = was.password
    BY DEF AccessInv, SignInsTrue, NoSessionOutlivesReset
  <2>2. CASE sessions[u].account = a
    <3>1. now.hash \in {old.hash, old.hash + 1} /\ now.hash = old.hash => now.password = old.password
      BY <1>4
    <3>2. sessions[u].hash <= old.hash /\ (sessions[u].hash = now.hash => sessions[u].hash = old.hash)
      BY <2>1, <2>2, <3>1, <1>4, <1>6
    <3>3. sessions[u].hash <= now.hash
      BY <3>2, <1>4, <1>6
    <3> QED
      BY <2>1, <2>2, <3>2, <3>3, <1>4, <1>8
  <2>3. CASE sessions[u].account # a
    BY <2>1, <2>3, <1>6, <1>8
  <2> QED
    BY <2>2, <2>3
<1>10. sessions[s].password = now.password
  BY <1>4, <1>5 DEF AccessInv, SignInsTrue
<1>11. \A u \in DOMAIN sessions :
         /\ sessions'[u].account = sessions[u].account /\ sessions'[u].hash = sessions[u].hash
         /\ sessions'[u].password = sessions[u].password
         /\ u # s => sessions'[u].status = sessions[u].status
  BY <1>2, <1>7
<1>12. SignInsTrue'
  BY <1>7, <1>8, <1>9, <1>11 DEF SignInsTrue
<1>13. NoSessionOutlivesReset'
  BY <1>7, <1>8, <1>9, <1>10, <1>11 DEF NoSessionOutlivesReset
<1> QED
  BY <1>5, <1>12, <1>13 DEF AccessInv, LettersTrue

LEMMA ResetKeeps ==
  ASSUME AccessInv, NEW r \in DOMAIN resets, ConsumeReset(r)
  PROVE  AccessInv'
<1> DEFINE a == resets[r].account
           old == secrets[a]
           now == [password |-> old.password + 1, hash |-> old.hash + 1, current |-> TRUE]
<1>1. /\ sessions \in [DOMAIN sessions -> SignIn] /\ a \in Account
      /\ secrets \in [Account -> Secret] /\ old \in Secret
  BY DEF AccessInv, SignInsTrue, LettersTrue, ResetToken
<1>2. /\ now \in Secret /\ now.hash = old.hash + 1 /\ old.hash \in Nat
  BY <1>1 DEF Secret
<1>3. /\ secrets' = [secrets EXCEPT ![a] = now]
      /\ resets' = [resets EXCEPT ![r].status = "USED"]
      /\ sessions' = [s \in DOMAIN sessions |->
           IF sessions[s].account = a /\ sessions[s].status = "LIVE"
           THEN [sessions[s] EXCEPT !.status = "REVOKED"] ELSE sessions[s]]
      /\ UNCHANGED letters
  BY DEF ConsumeReset
<1>4. ASSUME NEW s \in DOMAIN sessions
      PROVE  /\ sessions'[s] \in SignIn
             /\ sessions'[s].account = sessions[s].account
             /\ sessions'[s].hash = sessions[s].hash /\ sessions'[s].hash \in Nat
             /\ sessions'[s].password = sessions[s].password
             /\ sessions'[s].status = "LIVE" => sessions[s].status = "LIVE" /\ sessions[s].account # a
  BY <1>1, <1>3 DEF SignIn
<1>5. /\ secrets' \in [Account -> Secret]
      /\ secrets'[a] = now /\ \A b \in Account \ {a} : secrets'[b] = secrets[b]
  BY <1>1, <1>2, <1>3
<1>6. sessions' \in [DOMAIN sessions -> SignIn] /\ DOMAIN sessions' = DOMAIN sessions
  BY <1>3, <1>4
<1>7. \A s \in DOMAIN sessions : sessions[s].account \in Account
  BY <1>1 DEF SignIn
<1> HIDE DEF now
<1>8. ASSUME NEW s \in DOMAIN sessions
      PROVE  LET then == secrets'[sessions[s].account] IN
             /\ sessions[s].hash <= then.hash
             /\ sessions[s].hash = then.hash => sessions[s].password = then.password
  <2>1. LET was == secrets[sessions[s].account] IN
        /\ sessions[s].hash <= was.hash
        /\ sessions[s].hash = was.hash => sessions[s].password = was.password
    BY DEF AccessInv, SignInsTrue
  <2>2. CASE sessions[s].account = a
    BY <2>1, <2>2, <1>2, <1>4, <1>5
  <2>3. CASE sessions[s].account # a
    BY <2>1, <2>3, <1>5, <1>7
  <2> QED
    BY <2>2, <2>3
<1>9. SignInsTrue'
  BY <1>4, <1>5, <1>6, <1>8 DEF SignInsTrue
<1>10. NoSessionOutlivesReset'
  <2>1. ASSUME NEW s \in DOMAIN sessions, sessions'[s].status = "LIVE"
        PROVE  sessions'[s].password = secrets'[sessions'[s].account].password
    <3>1. sessions[s].password = secrets[sessions[s].account].password
      BY <2>1, <1>4 DEF AccessInv, NoSessionOutlivesReset
    <3> QED
      BY <2>1, <3>1, <1>4, <1>5, <1>7
  <2> QED
    BY <2>1, <1>6 DEF NoSessionOutlivesReset
<1>11. LettersTrue'
  BY <1>3 DEF AccessInv, LettersTrue, ResetToken
<1> QED
  BY <1>9, <1>10, <1>11 DEF AccessInv

LEMMA IssueKeeps ==
  ASSUME AccessInv, NEW r \in Reset, NEW a \in Account, RequestReset(r, a)
  PROVE  AccessInv'
<1> DEFINE token == [account |-> a, status |-> "ISSUED"]
<1>1. /\ resets' = [x \in DOMAIN resets \cup {r} |-> IF x = r THEN token ELSE resets[x]]
      /\ DOMAIN letters' = DOMAIN letters \cup {r}
      /\ UNCHANGED <<secrets, sessions>>
  BY DEF RequestReset, Adding
<1>2. token \in ResetToken
  BY DEF ResetToken
<1>3. LettersTrue'
  BY <1>1, <1>2 DEF AccessInv, LettersTrue
<1> QED
  BY <1>1, <1>3 DEF AccessInv, SignInsTrue, NoSessionOutlivesReset

LEMMA SessionKeeps ==
  ASSUME AccessInv, NEW s \in DOMAIN sessions,
         RefuseSession(s) \/ RevokeToken(s) \/ TimePasses(s) \/ Refresh(s)
  PROVE  AccessInv'
<1>1. sessions[s] \in SignIn
  BY DEF AccessInv, SignInsTrue
<1>2. \A status, fresh :
        /\ [sessions[s] EXCEPT !.status = status]
             = [sessions[s] EXCEPT !.status = status, !.fresh = sessions[s].fresh]
        /\ [sessions[s] EXCEPT !.fresh = fresh]
             = [sessions[s] EXCEPT !.status = sessions[s].status, !.fresh = fresh]
  BY <1>1 DEF SignIn
<1>3. /\ sessions[s].fresh \in BOOLEAN
      /\ sessions[s].status \in {"CHECKED", "REFUSED", "LIVE", "EXPIRED", "REVOKED"}
  BY <1>1 DEF SignIn
<1>4. UNCHANGED <<secrets, resets, letters>>
  BY DEF RefuseSession, RevokeToken, TimePasses, Refresh
<1>5. ASSUME NEW status \in {"REFUSED", "REVOKED", "EXPIRED"},
             sessions' = [sessions EXCEPT ![s].status = status]
      PROVE  AccessInv'
  <2>1. sessions' = [sessions EXCEPT ![s] =
                       [@ EXCEPT !.status = status, !.fresh = sessions[s].fresh]]
    BY <1>2, <1>5
  <2> QED
    BY <2>1, <1>3, <1>4, Rewritten
<1>6. ASSUME NEW fresh \in BOOLEAN, sessions' = [sessions EXCEPT ![s].fresh = fresh]
      PROVE  AccessInv'
  <2>1. sessions' = [sessions EXCEPT ![s] =
                       [@ EXCEPT !.status = sessions[s].status, !.fresh = fresh]]
    BY <1>2, <1>6
  <2> QED
    BY <2>1, <1>3, <1>4, Rewritten
<1> QED
  BY <1>5, <1>6 DEF RefuseSession, RevokeToken, TimePasses, Refresh

LEMMA LettersKeep ==
  ASSUME AccessInv, NEW w \in Worker, LetterProgress(w)
  PROVE  AccessInv'
<1>1. UNCHANGED <<secrets, sessions, resets>>
  BY DEF LetterProgress, ClaimLetters, SendLetter, FinishLetter
<1>2. DOMAIN letters' = DOMAIN letters
  BY DEF LetterProgress, ClaimLetters, SendLetter, FinishLetter
<1> QED
  BY <1>1, <1>2, AccessKept

LEMMA AccessStep ==
  ASSUME AccessInv, [RuntimeNext]_runtimeVars
  PROVE  AccessInv'
<1>1. CASE UNCHANGED accessVars
  BY <1>1, AccessKept DEF accessVars
<1>2. CASE AccessRequests
  <2>1. ASSUME NEW r \in DOMAIN resets, ResetLapses(r) PROVE AccessInv'
    <3>1. /\ resets' = [resets EXCEPT ![r].status = "LAPSED"]
          /\ UNCHANGED <<secrets, sessions, letters>>
      BY <2>1 DEF ResetLapses
    <3>2. LettersTrue'
      BY <3>1 DEF AccessInv, LettersTrue, ResetToken
    <3> QED
      BY <3>1, <3>2 DEF AccessInv, SignInsTrue, NoSessionOutlivesReset
  <2> QED
    BY <1>2, <2>1, CheckKeeps, OpenKeeps, SessionKeeps, IssueKeeps, ResetKeeps
    DEF AccessRequests, Authenticate, VerifyCsrf, IssueCsrf
<1>3. ASSUME NEW w \in Worker, Dies(w) PROVE AccessInv'
  BY <1>3, AccessKept DEF Dies
<1>4. ASSUME NEW r \in DOMAIN letters, LetterLeaseRunsOut(r) PROVE AccessInv'
  BY <1>4, AccessKept DEF LetterLeaseRunsOut, LetterLeaseExpires
<1> QED
  BY <1>1, <1>2, <1>3, <1>4, LettersKeep
  DEF RuntimeNext, runtimeVars, Requests, Works, LeasesRunOut, JobLeaseRunsOut, FilesAge

-----------------------------------------------------------------------------
(* What is over stays over.                                                *)
LEMMA JobsStayOver ==
  ASSUME ExportsInv, [RuntimeNext]_runtimeVars, NEW j \in DOMAIN jobs, jobs[j].status \in Over
  PROVE  jobs'[j] = jobs[j]
<1>1. jobs[j].status # "PENDING" /\ jobs[j].status # "PROCESSING"
  BY DEF Over
<1>2. ASSUME NEW w \in Worker, Complete(w), workers[w].step \in ReportSteps \cup CleanupSteps
      PROVE  jobs'[j] = jobs[j]
  <2>1. StillLeased(w)
    BY <1>2, HandlerFinds
  <2> QED
    BY <1>1, <1>2, <2>1 DEF Complete, StillLeased
<1>3. ASSUME NEW w \in Worker, ExportProgress(w) PROVE jobs'[j] = jobs[j]
  <2>1. CASE ClaimJob(w)
    BY <1>1, <2>1 DEF ClaimJob, Claim
  <2>2. CASE RecordExportFailure(w)
    BY <1>1, <2>2 DEF RecordExportFailure, RecordFailure, StillLeased
  <2>3. CASE RevokeReport(w) \/ ExpireExport(w)
    BY <1>2, <2>3 DEF RevokeReport, ExpireExport, ReportSteps, CleanupSteps
  <2>4. CASE PublishReport(w)
    <3>1. StillLeased(w) /\ workers[w].job = ReportOf(Subject(w))
      BY <2>4, HandlerFinds DEF PublishReport, ReportSteps
    <3>2. PICK new : jobs' = [WithJobs(new \ DOMAIN jobs)
                                EXCEPT ![ReportOf(Subject(w))].status = "COMPLETED",
                                       ![ReportOf(Subject(w))].lease = 0]
      BY <2>4 DEF PublishReport
    <3>3. j # ReportOf(Subject(w))
      BY <1>1, <3>1 DEF StillLeased
    <3>4. jobs'[j] = WithJobs(new \ DOMAIN jobs)[j]
      BY <3>2, <3>3 DEF WithJobs
    <3> QED
      BY <3>4 DEF WithJobs
  <2>5. CASE UNCHANGED jobs
    BY <2>5
  <2> QED
    BY <1>3, <2>1, <2>2, <2>3, <2>4, <2>5, NeverHandled
    DEF ExportProgress, HandlerStops, Unavailable, HandlerFails, HandleReport, Load, StoreReport,
        AuthorizeReport, HandleCleanup, DeleteObject
<1>4. ASSUME NEW x \in Export, Queue(x) PROVE jobs'[j] = jobs[j]
  <2>1. ReportOf(x) \notin DOMAIN jobs
    BY <1>4 DEF Queue, ExportsInv, ExportsTrue, OutcomeTrue
  <2> QED
    BY <1>4, <2>1 DEF Queue, WithJobs
<1>5. ASSUME NEW i \in DOMAIN jobs, JobLeaseRunsOut(i) PROVE jobs'[j] = jobs[j]
  BY <1>1, <1>5 DEF JobLeaseRunsOut, LeaseExpires
<1> QED
  BY <1>3, <1>4, <1>5
  DEF RuntimeNext, runtimeVars, outboxVars, Requests, ExportRequests, LoseScope, RegainScope, Works,
      Dies, LeasesRunOut, LetterLeaseRunsOut, FilesAge, FileAges

LEMMA LettersStayOver ==
  ASSUME AccessInv, [RuntimeNext]_runtimeVars, NEW r \in DOMAIN letters, letters[r].status \in Over
  PROVE  letters'[r] = letters[r]
<1>1. letters[r].status # "PENDING" /\ letters[r].status # "PROCESSING"
  BY DEF Over
<1>2. ASSUME NEW w \in Worker, LetterProgress(w) PROVE letters'[r] = letters[r]
  <2>1. CASE ClaimLetters(w)
    <3>1. r \notin ClaimableLetters
      BY <1>1 DEF ClaimableLetters
    <3> QED
      BY <2>1, <3>1 DEF ClaimLetters
  <2>2. ASSUME NEW c \in batches[w], FinishLetter(w, c) PROVE letters'[r] = letters[r]
    BY <1>1, <2>2 DEF FinishLetter, LeaseHolds
  <2>3. ASSUME NEW c \in batches[w], SendLetter(w, c) PROVE letters'[r] = letters[r]
    BY <2>3 DEF SendLetter
  <2> QED
    BY <1>2, <2>1, <2>2, <2>3 DEF LetterProgress
<1>3. ASSUME NEW x \in Reset, NEW a \in Account, RequestReset(x, a) PROVE letters'[r] = letters[r]
  <2>1. r # x
    BY <1>3 DEF RequestReset, AccessInv, LettersTrue
  <2> QED
    BY <1>3, <2>1 DEF RequestReset, Adding
<1>4. ASSUME NEW x \in DOMAIN letters, LetterLeaseRunsOut(x) PROVE letters'[r] = letters[r]
  BY <1>1, <1>4 DEF LetterLeaseRunsOut, LetterLeaseExpires
<1>5. CASE AccessRequests
  BY <1>3, <1>5
  DEF AccessRequests, CheckPassword, OpenSession, Opened, RefuseSession, RevokeToken, TimePasses,
      Authenticate, VerifyCsrf, IssueCsrf, Refresh, ConsumeReset, ResetLapses
<1>6. CASE UNCHANGED accessVars
  BY <1>6 DEF accessVars
<1> QED
  BY <1>2, <1>4, <1>5, <1>6
  DEF RuntimeNext, runtimeVars, accessVars, Requests, Works, Dies, LeasesRunOut, JobLeaseRunsOut,
      FilesAge

-----------------------------------------------------------------------------
LEMMA Accounted == ExportsInv => ExportsAccounted
<1> SUFFICES ASSUME ExportsInv, NEW x \in Export
    PROVE  /\ Downloadable(x) => x \in stored
           /\ IsStatus(ReportOf(x), {"COMPLETED"}) => Settled(x)
           /\ IsStatus(ReportOf(x), {"DEAD_LETTER"}) => exports[x] = "FAILED"
           /\ x \in stored /\ Settled(x) /\ exports[x] # "FAILED"
                => IsStatus(CleanupOf(x), {"PENDING", "PROCESSING", "DEAD_LETTER"})
  BY DEF ExportsAccounted
<1>1. OutcomeTrue(x)
  BY DEF ExportsInv, ExportsTrue
<1>2. CleanupOf(x) \in DOMAIN jobs =>
        jobs[CleanupOf(x)].status \in {"PENDING", "PROCESSING", "COMPLETED", "DEAD_LETTER"}
  BY DEF ExportsInv, JobsTypeOK, Job
<1> QED
  BY <1>1, <1>2 DEF OutcomeTrue, Downloadable, Settled, IsStatus

(* Fairness is not needed.                                                 *)
LEMMA RuntimeSafety == RuntimeSpec => RuntimeInit /\ [][RuntimeNext]_runtimeVars
BY PTL DEF RuntimeSpec

(* What holds of the worker processes and of the sign-ins in every state.  *)
THEOREM RuntimeInvariant == RuntimeSpec => []RuntimeInv
<1>1. RuntimeInit => RuntimeInv
  BY ExportsInitially, AccessInitially DEF RuntimeInv
<1>2. RuntimeInv /\ [RuntimeNext]_runtimeVars => RuntimeInv'
  BY ExportsStep, AccessStep DEF RuntimeInv
<1> QED
  BY <1>1, <1>2, RuntimeSafety, PTL

(* A file that can be downloaded is stored, a job that is over has left an *)
(* outcome, and a stored file of an export that is over waits for the job  *)
(* that deletes it, through failures of report-export.service.ts and       *)
(* object-file-cleanup.handler.ts at every step.                           *)
THEOREM ExportsAreAccounted == RuntimeSpec => []ExportsAccounted
<1>1. RuntimeInv => ExportsAccounted
  BY Accounted DEF RuntimeInv
<1> QED
  BY <1>1, RuntimeInvariant, PTL

(* A session that can be used was opened with the password the account has *)
(* now: the hash is read again under the lock of the account               *)
(* (login.service.ts), and a reset revokes what is open.                   *)
THEOREM NoSessionSurvivesReset == RuntimeSpec => []NoSessionOutlivesReset
<1>1. RuntimeInv => NoSessionOutlivesReset
  BY DEF RuntimeInv, AccessInv
<1> QED
  BY <1>1, RuntimeInvariant, PTL

(* A job or a letter that is done or given up is never taken up again, by  *)
(* whichever worker comes back with an outcome after its lease.            *)
THEOREM WhatIsOverStays == RuntimeSpec => OverForGood
<1>1. RuntimeInv /\ [RuntimeNext]_runtimeVars =>
        [/\ \A j \in DOMAIN jobs : jobs[j].status \in Over => jobs'[j] = jobs[j]
         /\ \A r \in DOMAIN letters : letters[r].status \in Over => letters'[r] = letters[r]
        ]_runtimeVars
  BY JobsStayOver, LettersStayOver DEF RuntimeInv
<1> QED
  BY <1>1, RuntimeInvariant, RuntimeSafety, PTL DEF OverForGood
=============================================================================
