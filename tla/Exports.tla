------------------------------ MODULE Exports ------------------------------
(***************************************************************************)
(* PDF exports of reports.  A request queues an export and its job; the    *)
(* handler of the job checks the scope of its actor again, reads the       *)
(* pages, puts the file in object storage, which no transaction covers,    *)
(* and commits the metadata, the READY export and a job that deletes the   *)
(* file when it has expired.                                               *)
(*                                                                         *)
(* RUNNING is written and overwritten in one transaction, so nobody ever   *)
(* sees it; the pages and the PDF are data.                                *)
(***************************************************************************)
EXTENDS Outbox

CONSTANTS Export

VARIABLES
  exports,   \* report_exports: the status of each
  entitled,  \* exports whose actor has the role and the branches they need
  stored,    \* keys in object storage: one for each export
  files,     \* rows of object_files
  aged       \* those whose expires_at has passed

exportVars == <<exports, entitled, stored, files, aged>>

ReportOf(x) == <<"REPORT_PDF", x>>
CleanupOf(x) == <<"OBJECT_FILE_CLEANUP", x>>

ExportsTypeOK ==
  /\ exports \in [Export -> {"ABSENT", "QUEUED", "READY", "FAILED", "EXPIRED"}]
  /\ entitled \subseteq Export /\ stored \subseteq Export
  /\ files \subseteq Export /\ aged \subseteq files
  /\ DOMAIN jobs \subseteq {ReportOf(x) : x \in Export} \cup {CleanupOf(x) : x \in Export}

ExportsInit ==
  /\ exports = [x \in Export |-> "ABSENT"]
  /\ entitled = Export /\ stored = {} /\ files = {} /\ aged = {}

Queue(x) ==
  /\ exports[x] = "ABSENT" /\ x \in entitled
  /\ exports' = [exports EXCEPT ![x] = "QUEUED"]
  /\ jobs' = WithJobs({ReportOf(x)})
  /\ UNCHANGED <<workers, entitled, stored, files, aged>>

(* The membership of the actor is changed, revoked or restored.            *)
LoseScope(x) ==
  /\ x \in entitled /\ entitled' = entitled \ {x}
  /\ UNCHANGED <<outboxVars, exports, stored, files, aged>>
RegainScope(x) ==
  /\ x \notin entitled /\ entitled' = entitled \cup {x}
  /\ UNCHANGED <<outboxVars, exports, stored, files, aged>>

FileAges(x) ==
  /\ x \in files \ aged /\ aged' = aged \cup {x}
  /\ UNCHANGED <<outboxVars, exports, entitled, stored, files>>

Due(j) == j[1] = "OBJECT_FILE_CLEANUP" => j[2] \in aged

ClaimJob(w) == (\E j \in DOMAIN jobs : Claim(w, j, Due(j))) /\ UNCHANGED exportVars

Subject(w) == workers[w].job[2]
Takes(w, type) == workers[w].step = "CLAIMED" /\ workers[w].job[1] = type

Settled(x) == exports[x] \in {"READY", "FAILED", "EXPIRED"}

HandleReport(w) ==
  /\ Takes(w, "REPORT_PDF")
  /\ Load(w, IF Settled(Subject(w)) THEN "HANDLED"
             ELSE IF Subject(w) \notin entitled THEN "REVOKING" ELSE "RENDERING")
  /\ UNCHANGED exportVars

StoreReport(w) ==
  /\ workers[w].step = "RENDERING" /\ Subject(w) \in entitled
  /\ stored' = stored \cup {Subject(w)} /\ MoveTo(w, "STORED")
  /\ UNCHANGED <<jobs, exports, entitled, files, aged>>

AuthorizeReport(w) ==
  /\ workers[w].step = "STORED" /\ Subject(w) \in entitled
  /\ MoveTo(w, "PUBLISHING")
  /\ UNCHANGED <<jobs, exportVars>>

(* ON CONFLICT DO NOTHING keeps the file and the job there are.            *)
PublishReport(w) ==
  LET x == Subject(w)
      settled == [WithJobs({CleanupOf(x)} \ DOMAIN jobs)
                    EXCEPT ![ReportOf(x)].status = "COMPLETED", ![ReportOf(x)].lease = 0] IN
  /\ workers[w].step = "PUBLISHING"
  /\ exports' = [exports EXCEPT ![x] = "READY"] /\ files' = files \cup {x}
  /\ jobs' = settled /\ workers' = [workers EXCEPT ![w] = Resting]
  /\ UNCHANGED <<entitled, stored, aged>>

RevokeReport(w) ==
  /\ workers[w].step = "REVOKING"
  /\ exports' = [exports EXCEPT ![Subject(w)] = "FAILED"] /\ Complete(w)
  /\ UNCHANGED <<entitled, stored, files, aged>>

FinishHandled(w) == workers[w].step = "HANDLED" /\ Complete(w) /\ UNCHANGED exportVars

HandleCleanup(w) ==
  /\ Takes(w, "OBJECT_FILE_CLEANUP") /\ Subject(w) \in aged /\ Load(w, "DELETING")
  /\ UNCHANGED exportVars

DeleteObject(w) ==
  /\ workers[w].step = "DELETING"
  /\ stored' = stored \ {Subject(w)} /\ MoveTo(w, "DELETED")
  /\ UNCHANGED <<jobs, exports, entitled, files, aged>>

ExpireExport(w) ==
  /\ workers[w].step = "DELETED"
  /\ exports' = [exports EXCEPT ![Subject(w)] = IF @ = "READY" THEN "EXPIRED" ELSE @]
  /\ Complete(w)
  /\ UNCHANGED <<entitled, stored, files, aged>>

(* Mutated form: the export of a dead letter is left as it is.             *)
RecordFailureOnly(w) == RecordFailure(w) /\ UNCHANGED exportVars

(* onDeadLetter: the export of a job that is given up has failed.          *)
RecordExportFailure(w) ==
  LET j == workers[w].job IN
  /\ RecordFailure(w)
  /\ exports' = IF /\ j[1] = "REPORT_PDF" /\ exports[j[2]] = "QUEUED"
                   /\ StillLeased(w) /\ jobs[j].attempts >= MaxAttempts
                THEN [exports EXCEPT ![j[2]] = "FAILED"] ELSE exports
  /\ UNCHANGED <<entitled, stored, files, aged>>

HandlerStops(w) == (Unavailable(w) \/ HandlerFails(w)) /\ UNCHANGED exportVars

ExportProgress(w) ==
  \/ ClaimJob(w) \/ HandlerStops(w) \/ RecordExportFailure(w)
  \/ HandleReport(w) \/ StoreReport(w) \/ AuthorizeReport(w) \/ PublishReport(w)
  \/ RevokeReport(w) \/ FinishHandled(w)
  \/ HandleCleanup(w) \/ DeleteObject(w) \/ ExpireExport(w)

ExportRequests ==
  \E x \in Export : Queue(x) \/ LoseScope(x) \/ RegainScope(x)

-----------------------------------------------------------------------------
(* What its actor is given a signed URL for.                               *)
Downloadable(x) == exports[x] = "READY" /\ x \in files \ aged

IsStatus(j, statuses) == j \in DOMAIN jobs /\ jobs[j].status \in statuses

(* Through failures at every step and leases that run out: a file that can *)
(* be downloaded is stored, an export whose job is over has its outcome,   *)
(* and a stored file of an export that is over has a job to delete it,     *)
(* except where the export failed after the file was put.                  *)
ExportsAccounted ==
  \A x \in Export :
    /\ Downloadable(x) => x \in stored
    /\ IsStatus(ReportOf(x), {"COMPLETED"}) => Settled(x)
    /\ IsStatus(ReportOf(x), {"DEAD_LETTER"}) => exports[x] = "FAILED"
    /\ x \in stored /\ Settled(x) /\ exports[x] # "FAILED"
         => IsStatus(CleanupOf(x), {"PENDING", "PROCESSING", "DEAD_LETTER"})
=============================================================================
