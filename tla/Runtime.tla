------------------------------ MODULE Runtime ------------------------------
(***************************************************************************)
(* The processes of worker.ts, which handle the jobs of the outbox and the *)
(* letters of Access in turn and are started again when they end, beside   *)
(* the users who ask for exports, sign in and recover their passwords.     *)
(***************************************************************************)
EXTENDS Exports, Access

CONSTANTS
  Agenda,     \* bound: the exports, sign-ins and resets of one execution
  MaxFaults   \* bound: processes that die and leases that run out too soon

VARIABLES offered, faults

runtimeVars == <<outboxVars, exportVars, accessVars, offered, faults>>

RuntimeInit ==
  /\ OutboxInit /\ ExportsInit /\ AccessInit
  /\ offered \in Agenda /\ faults = 0

Requests ==
  /\ \/ ExportRequests /\ DOMAIN jobs' \subseteq offered.jobs /\ UNCHANGED accessVars
     \/ /\ AccessRequests /\ UNCHANGED <<outboxVars, exportVars>>
        /\ DOMAIN sessions' \subseteq offered.sessions /\ DOMAIN resets' \subseteq offered.resets
  /\ UNCHANGED <<offered, faults>>

(* processAvailable of the one, then of the other.                         *)
Works(w) ==
  /\ \/ batches[w] = {} /\ ExportProgress(w) /\ UNCHANGED accessVars
     \/ workers[w] = Resting /\ LetterProgress(w) /\ UNCHANGED <<outboxVars, exportVars>>
  /\ UNCHANGED <<offered, faults>>

Dies(w) ==
  /\ faults < MaxFaults /\ faults' = faults + 1
  /\ workers[w] # Resting \/ batches[w] # {}
  /\ workers' = [workers EXCEPT ![w] = Resting] /\ batches' = [batches EXCEPT ![w] = {}]
  /\ UNCHANGED <<jobs, exportVars, secrets, sessions, resets, letters, delivered, offered>>

HeldJob(j) == \E w \in Worker : workers[w].job = j /\ workers[w].lease = jobs[j].lease
HeldLetter(r) ==
  \E w \in Worker : \E c \in batches[w] : c.letter = r /\ c.lease = letters[r].lease

Faulty(held) ==
  IF held THEN faults < MaxFaults /\ faults' = faults + 1 ELSE UNCHANGED faults

JobLeaseRunsOut(j) ==
  LeaseExpires(j) /\ Faulty(HeldJob(j)) /\ UNCHANGED <<exportVars, accessVars, offered>>
LetterLeaseRunsOut(r) ==
  /\ LetterLeaseExpires(r) /\ Faulty(HeldLetter(r))
  /\ UNCHANGED <<outboxVars, exportVars, offered>>

LeasesRunOut ==
  \/ \E j \in DOMAIN jobs : JobLeaseRunsOut(j)
  \/ \E r \in DOMAIN letters : LetterLeaseRunsOut(r)

FilesAge == (\E x \in Export : FileAges(x)) /\ UNCHANGED <<accessVars, offered, faults>>

RuntimeNext ==
  \/ Requests \/ LeasesRunOut \/ FilesAge
  \/ \E w \in Worker : Works(w) \/ Dies(w)

(* Processes are restarted (restart: unless-stopped) and loop for ever;    *)
(* clocks go on.                                                           *)
RuntimeSpec ==
  /\ RuntimeInit /\ [][RuntimeNext]_runtimeVars
  /\ \A w \in Worker : WF_runtimeVars(Works(w))
  /\ WF_runtimeVars(LeasesRunOut) /\ WF_runtimeVars(FilesAge)

-----------------------------------------------------------------------------
Over == {"COMPLETED", "DEAD_LETTER"}

(* A job or a letter that is over stays so, whichever worker comes back    *)
(* with an outcome after its lease.                                        *)
OverForGood ==
  [][/\ \A j \in DOMAIN jobs : jobs[j].status \in Over => jobs'[j] = jobs[j]
     /\ \A r \in DOMAIN letters : letters[r].status \in Over => letters'[r] = letters[r]
    ]_runtimeVars

(* Every job and every letter ends, whatever dies: done or given up.       *)
EverythingEnds ==
  /\ \A x \in Export : \A j \in {ReportOf(x), CleanupOf(x)} :
       j \in DOMAIN jobs ~> IsStatus(j, Over)
  /\ \A r \in Reset :
       r \in DOMAIN letters ~> (r \in DOMAIN letters /\ letters[r].status \in Over)
=============================================================================
