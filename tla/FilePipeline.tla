----------------------------- MODULE FilePipeline -----------------------------
(***************************************************************************)
(* From an upload session to an available file: completeUpload, the file   *)
(* jobs and the FileProcessingWorker processes that validate and reconcile *)
(* them, and the QuarantineCleanupWorker.                                  *)
(*                                                                         *)
(* A database transaction is one step, except that completeUpload keeps    *)
(* the session and file rows locked while it talks to the object store.    *)
(* Calls of the store and of the scanner are steps between transactions.   *)
(* Time is abstracted: a retry falls due whenever a worker finds it, and   *)
(* late says that expires_at has passed.                                   *)
(***************************************************************************)
EXTENDS Naturals, FiniteSets

CONSTANTS
  Files,        \* file_objects rows that uploads may create
  Procs,        \* worker processes
  NameOf,       \* VINOPS_WORKER_NAME of each process; names may coincide
  Nobody,       \* claimed_by IS NULL
  MaxAttempts,  \* attempts after which retryAt gives up (5 in the code)
  MaxFaults     \* bound: crashes and database errors in a behaviour

ASSUME FileAssumption ==
  /\ Nobody \notin { NameOf[p] : p \in Procs }
  /\ MaxAttempts \in Nat \ {0}
  /\ MaxFaults \in Nat

VARIABLES
  file,       \* file_objects.status; "Absent" before the insert
  session,    \* upload_sessions.status
  late,       \* sessions whose expires_at has passed
  request,    \* where the completeUpload that holds the row locks stands
  object,     \* the object under the quarantine key
  copied,     \* the object under the available key
  job,        \* file_processing_jobs.status; "Absent" before the insert
  claimedBy,  \* file_processing_jobs.claimed_by
  attempts,   \* file_processing_jobs.attempts, saturated above MaxAttempts
  batch,      \* claimed jobs runOnce has not come to yet, per process
  current,    \* the job process is at, or NoJob
  pc,         \* where process stands with it
  verdict,    \* what it will write
  sweep,      \* how far the cleanup has come with each of its candidates
  faults      \* crashes and database errors so far

uploadVars == <<session, late, request>>
storeVars  == <<object, copied>>
jobVars    == <<job, claimedBy, attempts>>
procVars   == <<batch, current, pc, verdict>>
vars == <<file, uploadVars, storeVars, jobVars, procVars, sweep, faults>>

Names == { NameOf[p] : p \in Procs }
Jobs  == Files \X {"validate", "reconcile"}
NoJob == <<Nobody, "none">>
FileOf(j) == j[1]
TypeOf(j) == j[2]
Validation(f)     == <<f, "validate">>
Reconciliation(f) == <<f, "reconcile">>

\* What a client can have uploaded: as declared; as declared, and infected; of
\* the declared size with another checksum or signature; of another size; empty.
Contents    == {"clean", "infected", "altered", "short", "empty"}
RightSize   == {"clean", "infected", "altered"}
FileStates  == {"Absent", "Uploading", "Validating", "Quarantined", "Available",
                "Rejected", "Purged"}

Init ==
  /\ file      = [f \in Files |-> "Absent"]
  /\ session   = [f \in Files |-> "Absent"]
  /\ late      = {}
  /\ request   = [f \in Files |-> "none"]
  /\ object    = [f \in Files |-> "none"]
  /\ copied    = [f \in Files |-> "none"]
  /\ job       = [j \in Jobs |-> "Absent"]
  /\ claimedBy = [j \in Jobs |-> Nobody]
  /\ attempts  = [j \in Jobs |-> 0]
  /\ batch     = [p \in Procs |-> {}]
  /\ current   = [p \in Procs |-> NoJob]
  /\ pc        = [p \in Procs |-> "idle"]
  /\ verdict   = [p \in Procs |-> "none"]
  /\ sweep     = [f \in Files |-> "no"]
  /\ faults    = 0

Set(f, state) == file' = [file EXCEPT ![f] = state]

-----------------------------------------------------------------------------
(* Upload sessions *)

\* The row locks of the session and the file, SELECT ... FOR UPDATE OF both.
Unlocked(f) == request[f] = "none"

Goes(f, step) == request' = [request EXCEPT ![f] = step]

\* createRevision opens a multipart upload and inserts the file and its session.
CreateFile(f) ==
  /\ file[f] = "Absent"
  /\ Set(f, "Uploading")
  /\ session' = [session EXCEPT ![f] = "Open"]
  /\ UNCHANGED <<late, request, storeVars, jobVars, procVars, sweep, faults>>

ExpiresAtPasses(f) ==
  /\ session[f] # "Absent"
  /\ f \notin late
  /\ late' = late \union {f}
  /\ UNCHANGED <<file, session, request, storeVars, jobVars, procVars, sweep, faults>>

\* completeUpload takes the locks.  A late session is refused; the update to
\* 'Expired' before that throw is rolled back with it.
CompleteUpload(f) ==
  /\ session[f] = "Open"
  /\ f \notin late
  /\ Unlocked(f)
  /\ Goes(f, "storing")
  /\ UNCHANGED <<file, session, late, storeVars, jobVars, procVars, sweep, faults>>

\* The client completes with another size or checksum than it declared.
DeclarationMismatch(f) ==
  /\ request[f] = "storing"
  /\ Set(f, "Quarantined")
  /\ session' = [session EXCEPT ![f] = "Completed"]
  /\ Goes(f, "none")
  /\ UNCHANGED <<late, storeVars, jobVars, procVars, sweep, faults>>

\* completeMultipartUpload; an upload can be completed once.
StoreUpload(f) ==
  /\ request[f] = "storing"
  /\ object[f] = "none"
  /\ \E c \in Contents : object' = [object EXCEPT ![f] = c]
  /\ Goes(f, "stored")
  /\ UNCHANGED <<file, session, late, copied, jobVars, procVars, sweep, faults>>

\* headObject shows another size: the session stays open.  The update of an
\* empty object's size fails its CHECK (see UploadFails).
UploadIncomplete(f) ==
  /\ request[f] = "stored"
  /\ object[f] = "short"
  /\ Set(f, "Quarantined")
  /\ Goes(f, "none")
  /\ UNCHANGED <<session, late, storeVars, jobVars, procVars, sweep, faults>>

\* The upload is complete; ON CONFLICT keeps a validation job that exists.
UploadCompleted(f) ==
  /\ request[f] = "stored"
  /\ object[f] \in RightSize
  /\ Set(f, "Validating")
  /\ session' = [session EXCEPT ![f] = "Completed"]
  /\ job' = [job EXCEPT ![Validation(f)] = IF @ = "Absent" THEN "Pending" ELSE @]
  /\ Goes(f, "none")
  /\ UNCHANGED <<late, storeVars, claimedBy, attempts, procVars, sweep, faults>>

\* Rollback, before or after the object store has assembled the object.
UploadFails(f) ==
  /\ request[f] # "none"
  /\ Goes(f, "none")
  /\ UNCHANGED <<file, session, late, storeVars, jobVars, procVars, sweep, faults>>

\* Somebody inserts the reconciliation job; nothing in the program does.
RequestReconciliation(f) ==
  /\ file[f] # "Absent"
  /\ job[Reconciliation(f)] = "Absent"
  /\ job' = [job EXCEPT ![Reconciliation(f)] = "Pending"]
  /\ UNCHANGED <<file, uploadVars, storeVars, claimedBy, attempts, procVars, sweep, faults>>

-----------------------------------------------------------------------------
(* claim_file_processing_jobs *)

Claimable_AlsoFailed == { j \in Jobs : job[j] \in {"Pending", "Retry", "Failed"} }

Claimable_PendingOnly == { j \in Jobs : job[j] = "Pending" }

Claimable == { j \in Jobs : job[j] \in {"Pending", "Retry"} }

CountAttempt(n) == IF n <= MaxAttempts THEN n + 1 ELSE n

ClaimRows(p, S) ==
  /\ job'       = [j \in Jobs |-> IF j \in S THEN "Claimed" ELSE job[j]]
  /\ claimedBy' = [j \in Jobs |-> IF j \in S THEN NameOf[p] ELSE claimedBy[j]]
  /\ attempts'  = [j \in Jobs |-> IF j \in S THEN CountAttempt(attempts[j]) ELSE attempts[j]]

\* Any of the claimable jobs may have fallen due.
Claim(p) ==
  /\ pc[p] = "idle"
  /\ batch[p] = {}
  /\ \E S \in SUBSET Claimable \ {{}} :
       /\ ClaimRows(p, S)
       /\ batch' = [batch EXCEPT ![p] = S]
  /\ UNCHANGED <<file, uploadVars, storeVars, current, pc, verdict, sweep, faults>>

\* The claim commits but its answer is lost: the jobs stay claimed.
ClaimAnswerLost(p) ==
  /\ pc[p] = "idle"
  /\ batch[p] = {}
  /\ faults < MaxFaults
  /\ faults' = faults + 1
  /\ \E S \in SUBSET Claimable \ {{}} : ClaimRows(p, S)
  /\ UNCHANGED <<file, uploadVars, storeVars, procVars, sweep>>

-----------------------------------------------------------------------------
(* FileProcessingWorker.process and reconcile *)

At(p, step) == pc' = [pc EXCEPT ![p] = step]

Take(p) ==
  /\ pc[p] = "idle"
  /\ \E j \in batch[p] :
       /\ batch'   = [batch EXCEPT ![p] = @ \ {j}]
       /\ current' = [current EXCEPT ![p] = j]
  /\ At(p, "read")
  /\ UNCHANGED <<file, uploadVars, storeVars, jobVars, verdict, sweep, faults>>

Verdicts_ScanOnly(content) ==
  IF content = "infected" THEN {"Rejected"} ELSE {"Available"}

\* The policy checks and the scan of the bytes; a scanner that cannot answer
\* quarantines the file.
Verdicts(content) ==
  CASE content = "clean"    -> {"Available", "Quarantined"}
    [] content = "infected" -> {"Rejected", "Quarantined"}
    [] content = "empty"    -> {"Unstorable"}
    [] OTHER                -> {"Quarantined"}

\* getObject and what process makes of the bytes.
Validate(p) ==
  LET f == FileOf(current[p])
  IN  /\ pc[p] = "read"
      /\ TypeOf(current[p]) = "validate"
      /\ object[f] \in Contents
      /\ \E v \in Verdicts(object[f]) :
           /\ verdict' = [verdict EXCEPT ![p] = v]
           /\ At(p, IF v = "Available" THEN "copy" ELSE "complete")
      /\ UNCHANGED <<file, uploadVars, storeVars, jobVars, batch, current, sweep, faults>>

\* reconcile reads the object, which may be missing.
Inspect(p) ==
  LET f == FileOf(current[p])
  IN  /\ pc[p] = "read"
      /\ TypeOf(current[p]) = "reconcile"
      /\ verdict' = [verdict EXCEPT ![p] =
                       IF object[f] = "empty" THEN "Unstorable" ELSE "Quarantined"]
      /\ At(p, "complete")
      /\ UNCHANGED <<file, uploadVars, storeVars, jobVars, batch, current, sweep, faults>>

\* copyObject to the available key and then to the preview key.
CopyObject(p) ==
  LET f == FileOf(current[p])
  IN  /\ pc[p] = "copy"
      /\ object[f] \in Contents
      /\ copied' = [copied EXCEPT ![f] = object[f]]
      /\ At(p, "complete") \/ At(p, "retry")
      /\ UNCHANGED <<file, uploadVars, object, jobVars, batch, current, verdict, sweep, faults>>

\* The object is not there, or the store does not answer.
StorageErrs(p) ==
  /\ pc[p] \in {"read", "copy"}
  /\ At(p, "retry")
  /\ UNCHANGED <<file, uploadVars, storeVars, jobVars, batch, current, verdict, sweep, faults>>

Owns(p, j) == job[j] = "Claimed" /\ claimedBy[j] = NameOf[p]

RecordVerdict_PromotesOnly(p, f) ==
  file' = IF verdict[p] = "Available" THEN [file EXCEPT ![f] = "Available"] ELSE file

\* complete_file_processing: the verdict replaces whatever status the file has.
RecordVerdict(p, f) == verdict[p] # "Unstorable" /\ Set(f, verdict[p])

\* complete_file_reconciliation: an available file stays available.
RecordInspection(p, f) ==
  \/ file[f] = "Available" /\ UNCHANGED file
  \/ file[f] # "Available" /\ verdict[p] # "Unstorable" /\ Set(f, "Quarantined")

\* The UPDATEs of both functions.
Record(p, j) ==
  /\ Owns(p, j)
  /\ \/ TypeOf(j) = "validate"  /\ RecordVerdict(p, FileOf(j))
     \/ TypeOf(j) = "reconcile" /\ RecordInspection(p, FileOf(j))
  /\ job' = [job EXCEPT ![j] = "Completed"]
  /\ UNCHANGED <<claimedBy, attempts>>

Done_KeepsJob(p) == verdict' = [verdict EXCEPT ![p] = "none"] /\ At(p, "idle") /\ UNCHANGED current

Done(p) ==
  /\ current' = [current EXCEPT ![p] = NoJob]
  /\ verdict' = [verdict EXCEPT ![p] = "none"]
  /\ At(p, "idle")

Complete(p) ==
  /\ pc[p] = "complete"
  /\ Unlocked(FileOf(current[p]))
  /\ Record(p, current[p])
  /\ Done(p)
  /\ UNCHANGED <<uploadVars, storeVars, batch, sweep, faults>>

\* The update of a file to an empty object violates CHECK (actual_size_bytes > 0).
Unstorable(p, j) ==
  verdict[p] = "Unstorable" /\ ~(TypeOf(j) = "reconcile" /\ file[FileOf(j)] = "Available")

\* The function raises FILE_JOB_NOT_CLAIMED, or the update fails.
CompleteRefused(p) ==
  /\ pc[p] = "complete"
  /\ Unlocked(FileOf(current[p]))
  /\ ~Owns(p, current[p]) \/ Unstorable(p, current[p])
  /\ At(p, "retry")
  /\ UNCHANGED <<file, uploadVars, storeVars, jobVars, batch, current, verdict, sweep, faults>>

\* The database call fails, before or after its commit.
CompleteErrs(p) ==
  /\ pc[p] = "complete"
  /\ Unlocked(FileOf(current[p]))
  /\ faults < MaxFaults
  /\ faults' = faults + 1
  /\ Record(p, current[p]) \/ UNCHANGED <<file, jobVars>>
  /\ At(p, "retry")
  /\ UNCHANGED <<uploadVars, storeVars, batch, current, verdict, sweep>>

\* retryAt(claim.attempts) is null.
Exhausted(j) == attempts[j] >= MaxAttempts

\* retry_file_processing_job
Reschedule(j) ==
  /\ job'       = [job EXCEPT ![j] = IF Exhausted(j) THEN "Failed" ELSE "Retry"]
  /\ claimedBy' = [claimedBy EXCEPT ![j] = Nobody]
  /\ UNCHANGED attempts

Retry(p) ==
  /\ pc[p] = "retry"
  /\ Owns(p, current[p])
  /\ Reschedule(current[p])
  /\ Done(p)
  /\ UNCHANGED <<file, uploadVars, storeVars, batch, sweep, faults>>

\* process throws out of the loop of runOnce: the rest of the batch is forgotten.
AbandonBatch(p) ==
  /\ batch' = [batch EXCEPT ![p] = {}]
  /\ Done(p)

RetryRefused(p) ==
  /\ pc[p] = "retry"
  /\ ~Owns(p, current[p])
  /\ AbandonBatch(p)
  /\ UNCHANGED <<file, uploadVars, storeVars, jobVars, sweep, faults>>

RetryErrs(p) ==
  /\ pc[p] = "retry"
  /\ faults < MaxFaults
  /\ faults' = faults + 1
  /\ \/ Owns(p, current[p]) /\ Reschedule(current[p])
     \/ UNCHANGED jobVars
  /\ AbandonBatch(p)
  /\ UNCHANGED <<file, uploadVars, storeVars, sweep>>

\* The process dies anywhere and is started again under the same name.
Crash(p) ==
  /\ faults < MaxFaults
  /\ faults' = faults + 1
  /\ AbandonBatch(p)
  /\ UNCHANGED <<file, uploadVars, storeVars, jobVars, sweep>>

-----------------------------------------------------------------------------
(* QuarantineCleanupWorker.runOnce *)

\* cleanup_expired_upload_sessions and claim_expired_quarantine_files: the
\* candidates are selected, not claimed.  No request lasts the many hours
\* between expires_at and the cutoff.
Sweep ==
  /\ \A f \in Files : sweep[f] = "no"
  /\ \A f \in late : Unlocked(f)
  /\ session' = [f \in Files |-> IF session[f] = "Open" /\ f \in late
                                   THEN "Expired" ELSE session[f]]
  /\ \E S \in SUBSET { f \in late : file[f] \in {"Quarantined", "Rejected"} } :
       sweep' = [f \in Files |-> IF f \in S THEN "selected" ELSE "no"]
  /\ session' # session \/ sweep' # sweep
  /\ UNCHANGED <<file, late, request, storeVars, jobVars, procVars, faults>>

\* deleteObject; a failure is logged and ignored.
DeleteObject(f) ==
  /\ sweep[f] = "selected"
  /\ \A g \in Files : sweep[g] # "deleted"
  /\ \/ object[f] \in Contents /\ object' = [object EXCEPT ![f] = "deleted"]
     \/ UNCHANGED object
  /\ sweep' = [sweep EXCEPT ![f] = "deleted"]
  /\ UNCHANGED <<file, uploadVars, copied, jobVars, procVars, faults>>

Purgeable_Unchecked(f) == TRUE

\* The WHERE clause of purge_quarantine_file.
Purgeable(f) == file[f] # "Available"

Purge(f) ==
  /\ sweep[f] = "deleted"
  /\ Unlocked(f)
  /\ file' = IF Purgeable(f) THEN [file EXCEPT ![f] = "Purged"] ELSE file
  /\ sweep' = [sweep EXCEPT ![f] = "no"]
  /\ UNCHANGED <<uploadVars, storeVars, jobVars, procVars, faults>>

\* The purge fails and is left to a later run, or the process dies.
SweepEnds ==
  /\ faults < MaxFaults
  /\ faults' = faults + 1
  /\ \E f \in Files : sweep[f] # "no"
  /\ sweep' = [f \in Files |-> "no"]
  /\ UNCHANGED <<file, uploadVars, storeVars, jobVars, procVars>>

-----------------------------------------------------------------------------

Upload(f) ==
  \/ DeclarationMismatch(f) \/ StoreUpload(f)
  \/ UploadIncomplete(f) \/ UploadCompleted(f) \/ UploadFails(f)
Work(p) ==
  \/ Claim(p) \/ Take(p) \/ Validate(p) \/ Inspect(p) \/ CopyObject(p) \/ StorageErrs(p)
  \/ Complete(p) \/ CompleteRefused(p) \/ Retry(p) \/ RetryRefused(p)
Fault(p) ==
  \/ ClaimAnswerLost(p) \/ CompleteErrs(p) \/ RetryErrs(p) \/ Crash(p)
Cleanup == Sweep \/ SweepEnds \/ \E f \in Files : DeleteObject(f) \/ Purge(f)

Next ==
  \/ \E f \in Files :
       \/ CreateFile(f) \/ ExpiresAtPasses(f) \/ CompleteUpload(f) \/ Upload(f)
       \/ RequestReconciliation(f)
  \/ \E p \in Procs : Work(p) \/ Fault(p)
  \/ Cleanup

Spec == Init /\ [][Next]_vars

\* The file poller re-arms itself in a finally block; a request that holds the
\* row locks commits or is rolled back; and PostgreSQL queues the waiters of a
\* row lock, so requests that take it again and again do not keep a worker out.
Fairness ==
  /\ \A p \in Procs : WF_vars(Work(p)) /\ SF_vars(Complete(p) \/ CompleteRefused(p))
  /\ \A f \in Files : WF_vars(Upload(f))

FairSpec == Spec /\ Fairness

-----------------------------------------------------------------------------
(* Properties *)

\* Every variable has its type, and a process has a job in hand exactly while
\* it is at a step of it.
TypeOK ==
  /\ file      \in [Files -> FileStates]
  /\ session   \in [Files -> {"Absent", "Open", "Completed", "Expired"}]
  /\ late      \in SUBSET Files
  /\ request   \in [Files -> {"none", "storing", "stored"}]
  /\ object    \in [Files -> Contents \union {"none", "deleted"}]
  /\ copied    \in [Files -> Contents \union {"none"}]
  /\ job       \in [Jobs -> {"Absent", "Pending", "Claimed", "Retry", "Completed", "Failed"}]
  /\ claimedBy \in [Jobs -> Names \union {Nobody}]
  /\ attempts  \in [Jobs -> 0..(MaxAttempts + 1)]
  /\ batch     \in [Procs -> SUBSET Jobs]
  /\ current   \in [Procs -> Jobs \union {NoJob}]
  /\ pc        \in [Procs -> {"idle", "read", "copy", "complete", "retry"}]
  /\ verdict   \in [Procs -> {"none", "Available", "Rejected", "Quarantined", "Unstorable"}]
  /\ sweep     \in [Files -> {"no", "selected", "deleted"}]
  /\ faults    \in 0..MaxFaults
  /\ \A p \in Procs : pc[p] = "idle" <=> current[p] \notin Jobs

\* What is offered as available is a copy of an object that passed the scan,
\* and it is there, whatever reconciliation, retries and the cleanup do to the
\* quarantined original in between.
AvailableWasScanned ==
  \A f \in Files : file[f] = "Available" => copied[f] = "clean"

\* An available file stays available and its object unchanged: revisions that
\* were submitted or published on it depend on that.
AvailableIsFinal ==
  [][\A f \in Files : file[f] = "Available" =>
        file'[f] = "Available" /\ copied'[f] = copied[f]]_vars

\* A file under validation has a job that is going to decide it or has given
\* up: it is never left behind by a job that counts as done.
ValidatingHasJob ==
  \A f \in Files : file[f] = "Validating" =>
    job[Validation(f)] \in {"Pending", "Claimed", "Retry", "Failed"}

\* retryAt bounds the attempts, across processes, lost answers and crashes.
AttemptsBounded == \A j \in Jobs : attempts[j] <= MaxAttempts

\* The jobs process p may still act on in this runOnce.
Holding(p) == batch[p] \union ({current[p]} \intersect Jobs)

\* No two processes work on one job, whatever answers get lost and even under
\* one worker name: two validations of a file do not copy and promote over each
\* other.
OneWorkerPerJob ==
  \A p, q \in Procs : p # q => Holding(p) \intersect Holding(q) = {}

\* There is no lease: only a crash or a database error leaves a claimed job that
\* nobody works on.  In particular complete_file_processing's refusals and
\* objects that are missing or empty never do.
ClaimedIsHeld ==
  faults = 0 => \A j \in Jobs : job[j] = "Claimed" => \E p \in Procs : j \in Holding(p)

\* Without crashes and database errors every completed upload is decided in
\* the end, or its job gives up.  So does a reconciliation: also that of an empty
\* object, which no attempt can record.
UploadSettles ==
  [](faults = 0) =>
    /\ \A f \in Files :
         file[f] = "Validating" ~> file[f] # "Validating" \/ job[Validation(f)] = "Failed"
    /\ \A j \in Jobs : job[j] # "Absent" ~> job[j] \in {"Completed", "Failed"}

=============================================================================
