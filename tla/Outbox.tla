------------------------------- MODULE Outbox -------------------------------
(***************************************************************************)
(* outbox_jobs and the workers that take them.  A job is claimed under a   *)
(* lease and its handler runs in one transaction, which holds the row of   *)
(* the job and completes it only if the lease is still its own.  What the  *)
(* handlers do is for the module that uses this one.                       *)
(*                                                                         *)
(* A worker here is one claim being processed: a process that has claimed  *)
(* a batch is several of them.  The back-off of a retry is left out: a     *)
(* failed job may be claimed at once.                                      *)
(***************************************************************************)
EXTENDS Integers, FiniteSetsExt

CONSTANTS
  Worker,
  NoJob,
  MaxAttempts,   \* maxAttempts of the worker: 5 in runtime-worker.ts
  MaxClaims      \* bound: claims of all jobs together

VARIABLES
  jobs,          \* outbox_jobs by job_key
  workers        \* the claim each worker is processing

outboxVars == <<jobs, workers>>

(* lease: lease_id, 0 when NULL; every claim of a job brings a new one.    *)
Job ==
  [status: {"PENDING", "PROCESSING", "COMPLETED", "DEAD_LETTER"},
   attempts: Nat, lease: Nat, expired: BOOLEAN]
Queued == [status |-> "PENDING", attempts |-> 0, lease |-> 0, expired |-> FALSE]

Resting == [job |-> NoJob, lease |-> 0, step |-> "IDLE"]
Outside == {"IDLE", "CLAIMED", "FAILED"}  \* no transaction on the job is open

OutboxInit == jobs = << >> /\ workers = [w \in Worker |-> Resting]

WithJobs(new) == [j \in DOMAIN jobs \cup new |-> IF j \in new THEN Queued ELSE jobs[j]]

Handling(w) == workers[w].step \notin Outside
Handled == {workers[w].job : w \in {v \in Worker : Handling(v)}}

MoveTo(w, step) == workers' = [workers EXCEPT ![w].step = step]

(* claim_outbox_jobs passes over the rows a handler holds (SKIP LOCKED);   *)
(* due: available_at has passed.                                           *)
Claim(w, j, due) ==
  /\ workers[w] = Resting /\ due
  /\ j \in DOMAIN jobs \ Handled
  /\ \/ jobs[j].status = "PENDING"
     \/ jobs[j].status = "PROCESSING" /\ jobs[j].expired
  /\ MapThenSumSet(LAMBDA i : jobs[i].attempts, DOMAIN jobs) < MaxClaims
  /\ LET lease == jobs[j].attempts + 1 IN
     /\ jobs' = [jobs EXCEPT ![j] = [status |-> "PROCESSING", attempts |-> lease,
                                     lease |-> lease, expired |-> FALSE]]
     /\ workers' = [workers EXCEPT ![w] = [job |-> j, lease |-> lease, step |-> "CLAIMED"]]

StillLeased(w) ==
  /\ jobs[workers[w].job].status = "PROCESSING"
  /\ jobs[workers[w].job].lease = workers[w].lease

(* The handler takes the row of the job and goes on to its first step.     *)
Load(w, step) ==
  /\ workers[w].step = "CLAIMED" /\ StillLeased(w)
  /\ MoveTo(w, step)
  /\ UNCHANGED jobs

Unavailable(w) ==
  /\ workers[w].step = "CLAIMED" /\ ~StillLeased(w)
  /\ MoveTo(w, "FAILED")
  /\ UNCHANGED jobs

Complete(w) ==
  /\ jobs' = [jobs EXCEPT ![workers[w].job].status = "COMPLETED",
                          ![workers[w].job].lease = 0]
  /\ workers' = [workers EXCEPT ![w] = Resting]

HandlerFails(w) ==
  /\ Handling(w)
  /\ MoveTo(w, "FAILED")
  /\ UNCHANGED jobs

(* A claim that has lost its lease has nothing to record: it throws.       *)
RecordFailure(w) ==
  LET j == workers[w].job IN
  /\ workers[w].step = "FAILED" /\ j \notin Handled
  /\ jobs' = IF StillLeased(w)
             THEN [jobs EXCEPT
                     ![j].status = IF jobs[j].attempts >= MaxAttempts
                                   THEN "DEAD_LETTER" ELSE "PENDING",
                     ![j].lease = 0]
             ELSE jobs
  /\ workers' = [workers EXCEPT ![w] = Resting]

(* The process of a worker dies; its transaction, if any, is rolled back.  *)
Crash(w) ==
  /\ workers[w] # Resting
  /\ workers' = [workers EXCEPT ![w] = Resting]
  /\ UNCHANGED jobs

LeaseExpires(j) ==
  /\ jobs[j].status = "PROCESSING" /\ ~jobs[j].expired
  /\ jobs' = [jobs EXCEPT ![j].expired = TRUE]
  /\ UNCHANGED workers
=============================================================================
