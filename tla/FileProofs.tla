----------------------------- MODULE FileProofs -----------------------------
(***************************************************************************)
(* Safety of the file pipeline for every set of files and processes, any   *)
(* names, any number of attempts and any number of faults.                 *)
(***************************************************************************)
EXTENDS FilePipeline, TLAPS

\* Only scanned objects are ever copied to the available key.
CopiedWasClean == \A f \in Files : copied[f] \in {"none", "clean"}

\* A process copies what it has read and found clean, and promotes what it copied.
VerdictIsFounded ==
  \A p \in Procs :
    /\ pc[p] = "copy" =>
         /\ TypeOf(current[p]) = "validate"
         /\ verdict[p] = "Available"
         /\ object[FileOf(current[p])] \in {"clean", "deleted"}
    /\ pc[p] = "complete" =>
         /\ verdict[p] # "none"
         /\ verdict[p] = "Available" =>
              TypeOf(current[p]) = "validate" /\ copied[FileOf(current[p])] = "clean"

\* The session of a file is open while a request works on it, and completed
\* once it has a validation job.
SessionFollowsFile ==
  \A f \in Files :
    /\ request[f] # "none" => session[f] = "Open"
    /\ file[f] = "Absent" => session[f] = "Absent"
    /\ job[Validation(f)] # "Absent" => session[f] = "Completed"
    /\ file[f] = "Available" => job[Validation(f)] = "Completed"

\* A job that can still be claimed has attempts left.
AttemptsLeft ==
  \A j \in Jobs :
    /\ attempts[j] <= MaxAttempts
    /\ job[j] \in {"Absent", "Pending", "Retry"} => attempts[j] < MaxAttempts

IInv ==
  /\ TypeOK
  /\ AvailableWasScanned
  /\ CopiedWasClean
  /\ VerdictIsFounded
  /\ SessionFollowsFile
  /\ ValidatingHasJob
  /\ AttemptsLeft

-----------------------------------------------------------------------------
(* Jobs and their parts *)

\* A job is determined by its file and its type, and NoJob is none.
LEMMA JobParts ==
  /\ \A j \in Jobs : FileOf(j) \in Files /\ TypeOf(j) \in {"validate", "reconcile"}
  /\ \A f \in Files : /\ Validation(f) \in Jobs
                      /\ Reconciliation(f) \in Jobs
                      /\ FileOf(Validation(f)) = f
                      /\ TypeOf(Validation(f)) = "validate"
                      /\ TypeOf(Reconciliation(f)) = "reconcile"
  /\ \A j \in Jobs : TypeOf(j) = "validate" => j = Validation(FileOf(j))
  /\ \A f, g \in Files : Validation(f) # Reconciliation(g)
  /\ \A f, g \in Files : Validation(f) = Validation(g) => f = g
  /\ NoJob \notin Jobs
  BY DEF Jobs, FileOf, TypeOf, NoJob, Validation, Reconciliation

\* While a process is at a step it has a job.
LEMMA AtWork ==
  ASSUME TypeOK, NEW p \in Procs, pc[p] # "idle"
  PROVE  current[p] \in Jobs /\ FileOf(current[p]) \in Files
  BY JobParts DEF TypeOK

LEMMA InitIInv == Init => IInv
<1> SUFFICES ASSUME Init PROVE IInv
  OBVIOUS
<1>1. TypeOK
  BY FileAssumption, JobParts DEF Init, TypeOK, FileStates
<1>2. AvailableWasScanned /\ CopiedWasClean /\ VerdictIsFounded /\ ValidatingHasJob
  BY DEF Init, AvailableWasScanned, CopiedWasClean, VerdictIsFounded, ValidatingHasJob
<1>3. SessionFollowsFile
  BY JobParts DEF Init, SessionFollowsFile
<1>4. AttemptsLeft
  BY FileAssumption DEF Init, AttemptsLeft
<1> QED BY <1>1, <1>2, <1>3, <1>4 DEF IInv

-----------------------------------------------------------------------------
(* Uploads *)

LEMMA CreateFileStep ==
  ASSUME IInv, NEW f \in Files, CreateFile(f) PROVE IInv'
<1>1. TypeOK'
  BY DEF IInv, TypeOK, CreateFile, Set, FileStates, storeVars, jobVars, procVars
<1>2. SessionFollowsFile'
  BY DEF IInv, TypeOK, SessionFollowsFile, CreateFile, Set, jobVars
<1>3. AvailableWasScanned' /\ ValidatingHasJob'
  BY DEF IInv, TypeOK, AvailableWasScanned, ValidatingHasJob, CreateFile, Set, storeVars, jobVars
<1>4. CopiedWasClean' /\ VerdictIsFounded' /\ AttemptsLeft'
  BY DEF IInv, CopiedWasClean, VerdictIsFounded, AttemptsLeft, CreateFile, storeVars,
         jobVars, procVars
<1> QED BY <1>1, <1>2, <1>3, <1>4 DEF IInv

LEMMA QuietUploadStep ==
  ASSUME IInv, NEW f \in Files,
         ExpiresAtPasses(f) \/ CompleteUpload(f) \/ UploadFails(f)
  PROVE  IInv'
<1>1. TypeOK'
  BY DEF IInv, TypeOK, ExpiresAtPasses, CompleteUpload, UploadFails, Goes, storeVars,
         jobVars, procVars
<1>2. SessionFollowsFile'
  BY DEF IInv, TypeOK, SessionFollowsFile, ExpiresAtPasses, CompleteUpload, UploadFails,
         Goes, jobVars
<1>3. UNCHANGED <<file, storeVars, jobVars, procVars>>
  BY DEF ExpiresAtPasses, CompleteUpload, UploadFails
<1> QED
  BY <1>1, <1>2, <1>3 DEF IInv, AvailableWasScanned, CopiedWasClean, VerdictIsFounded,
     ValidatingHasJob, AttemptsLeft, storeVars, jobVars, procVars

LEMMA StoreUploadStep ==
  ASSUME IInv, NEW f \in Files, StoreUpload(f) PROVE IInv'
<1>1. TypeOK'
  BY DEF IInv, TypeOK, StoreUpload, Goes, jobVars, procVars
<1>2. SessionFollowsFile'
  BY DEF IInv, TypeOK, SessionFollowsFile, StoreUpload, Goes, jobVars
<1>3. VerdictIsFounded'
  BY AtWork DEF IInv, TypeOK, VerdictIsFounded, StoreUpload, procVars
<1>4. UNCHANGED <<file, copied, jobVars>>
  BY DEF StoreUpload
<1> QED
  BY <1>1, <1>2, <1>3, <1>4 DEF IInv, AvailableWasScanned, CopiedWasClean,
     ValidatingHasJob, AttemptsLeft, jobVars

LEMMA QuarantinedUploadStep ==
  ASSUME IInv, NEW f \in Files, DeclarationMismatch(f) \/ UploadIncomplete(f) PROVE IInv'
<1>1. TypeOK'
  BY DEF IInv, TypeOK, DeclarationMismatch, UploadIncomplete, Set, Goes, FileStates,
         storeVars, jobVars, procVars
<1>2. SessionFollowsFile'
  BY DEF IInv, TypeOK, SessionFollowsFile, DeclarationMismatch, UploadIncomplete, Set, Goes,
         jobVars
<1>3. AvailableWasScanned' /\ ValidatingHasJob'
  BY DEF IInv, TypeOK, AvailableWasScanned, ValidatingHasJob, DeclarationMismatch,
         UploadIncomplete, Set, storeVars, jobVars
<1>4. UNCHANGED <<storeVars, jobVars, procVars>>
  BY DEF DeclarationMismatch, UploadIncomplete
<1> QED
  BY <1>1, <1>2, <1>3, <1>4 DEF IInv, CopiedWasClean, VerdictIsFounded, AttemptsLeft,
     storeVars, jobVars, procVars

\* The session is open, so the file has no validation job before this step.
LEMMA UploadCompletedStep ==
  ASSUME IInv, NEW f \in Files, UploadCompleted(f) PROVE IInv'
<1> DEFINE j == Validation(f)
<1>1. session[f] = "Open" /\ job[j] = "Absent" /\ j \in Jobs
  BY JobParts DEF IInv, UploadCompleted, SessionFollowsFile
<1>2. /\ file' = [file EXCEPT ![f] = "Validating"]
      /\ session' = [session EXCEPT ![f] = "Completed"]
      /\ job' = [job EXCEPT ![j] = "Pending"]
      /\ request' = [request EXCEPT ![f] = "none"]
      /\ UNCHANGED <<late, storeVars, claimedBy, attempts, procVars, sweep, faults>>
  BY <1>1 DEF UploadCompleted, Set, Goes, IInv, TypeOK
<1>3. TypeOK'
  BY <1>1, <1>2 DEF IInv, TypeOK, FileStates, storeVars, procVars
<1>4. SessionFollowsFile'
  BY <1>1, <1>2, JobParts DEF IInv, TypeOK, SessionFollowsFile
<1>5. AvailableWasScanned' /\ ValidatingHasJob'
  BY <1>1, <1>2, JobParts DEF IInv, TypeOK, AvailableWasScanned, ValidatingHasJob, storeVars
<1>6. AttemptsLeft'
  BY <1>1, <1>2 DEF IInv, TypeOK, AttemptsLeft
<1> QED
  BY <1>2, <1>3, <1>4, <1>5, <1>6 DEF IInv, CopiedWasClean, VerdictIsFounded, storeVars, procVars

LEMMA RequestReconciliationStep ==
  ASSUME IInv, NEW f \in Files, RequestReconciliation(f) PROVE IInv'
<1> DEFINE j == Reconciliation(f)
<1>1. /\ job[j] = "Absent" /\ j \in Jobs
      /\ job' = [job EXCEPT ![j] = "Pending"]
      /\ UNCHANGED <<file, uploadVars, storeVars, claimedBy, attempts, procVars, sweep, faults>>
  BY JobParts DEF RequestReconciliation
<1>2. TypeOK'
  BY <1>1 DEF IInv, TypeOK, uploadVars, storeVars, procVars
<1>3. \A g \in Files : job'[Validation(g)] = job[Validation(g)]
  BY <1>1, JobParts DEF IInv, TypeOK
<1>4. AttemptsLeft'
  BY <1>1 DEF IInv, TypeOK, AttemptsLeft
<1> QED
  BY <1>1, <1>2, <1>3, <1>4 DEF IInv, AvailableWasScanned, CopiedWasClean, VerdictIsFounded,
     SessionFollowsFile, ValidatingHasJob, uploadVars, storeVars, procVars

-----------------------------------------------------------------------------
(* Claims *)

\* A claim touches only jobs that may be claimed, and each has an attempt left.
LEMMA ClaimKeepsJobs ==
  ASSUME IInv, NEW p \in Procs, NEW S \in SUBSET Claimable, ClaimRows(p, S),
         UNCHANGED <<file, session, request>>
  PROVE  /\ job' \in [Jobs -> {"Absent", "Pending", "Claimed", "Retry", "Completed", "Failed"}]
         /\ claimedBy' \in [Jobs -> Names \union {Nobody}]
         /\ attempts' \in [Jobs -> 0..(MaxAttempts + 1)]
         /\ SessionFollowsFile' /\ ValidatingHasJob' /\ AttemptsLeft'
<1>1. \A j \in S : j \in Jobs /\ job[j] \in {"Pending", "Retry"}
  BY DEF Claimable
<1>2. attempts' \in [Jobs -> 0..(MaxAttempts + 1)] /\ AttemptsLeft'
  BY <1>1, FileAssumption DEF IInv, TypeOK, AttemptsLeft, ClaimRows, CountAttempt
<1>3. /\ job' \in [Jobs -> {"Absent", "Pending", "Claimed", "Retry", "Completed", "Failed"}]
      /\ claimedBy' \in [Jobs -> Names \union {Nobody}]
  BY DEF IInv, TypeOK, ClaimRows, Names
<1>4. SessionFollowsFile' /\ ValidatingHasJob'
  BY <1>1, JobParts DEF IInv, TypeOK, SessionFollowsFile, ValidatingHasJob, ClaimRows
<1> QED BY <1>2, <1>3, <1>4

LEMMA ClaimStep ==
  ASSUME IInv, NEW p \in Procs, Claim(p) \/ ClaimAnswerLost(p) PROVE IInv'
<1>1. PICK S \in SUBSET Claimable : ClaimRows(p, S)
  BY DEF Claim, ClaimAnswerLost
<1>2. /\ UNCHANGED <<file, uploadVars, storeVars, current, pc, verdict, sweep>>
      /\ batch' \in [Procs -> SUBSET Jobs]
      /\ faults' \in 0..MaxFaults
  BY FileAssumption DEF Claim, ClaimAnswerLost, procVars, IInv, TypeOK, Claimable
<1>3. UNCHANGED <<file, session, request, object, copied>>
  BY <1>2 DEF uploadVars, storeVars
<1>4. TypeOK'
  BY <1>1, <1>2, <1>3, ClaimKeepsJobs DEF IInv, TypeOK, uploadVars
<1> QED
  BY <1>1, <1>2, <1>3, <1>4, ClaimKeepsJobs DEF IInv, AvailableWasScanned, CopiedWasClean,
     VerdictIsFounded

-----------------------------------------------------------------------------
(* Steps that leave the files and the jobs alone *)

\* What such a step must keep.
LEMMA ProcessOnly ==
  ASSUME IInv, TypeOK', VerdictIsFounded', UNCHANGED <<file, uploadVars, copied, jobVars>>
  PROVE  IInv'
  BY DEF IInv, AvailableWasScanned, CopiedWasClean, SessionFollowsFile, ValidatingHasJob,
     AttemptsLeft, uploadVars, jobVars

LEMMA TakeStep ==
  ASSUME IInv, NEW p \in Procs, Take(p) PROVE IInv'
<1>1. TypeOK'
  BY DEF IInv, TypeOK, Take, At, uploadVars, storeVars, jobVars
<1>2. VerdictIsFounded'
  BY DEF IInv, TypeOK, VerdictIsFounded, Take, At, storeVars
<1> QED BY <1>1, <1>2, ProcessOnly DEF Take, storeVars

LEMMA ValidateStep ==
  ASSUME IInv, NEW p \in Procs, Validate(p) PROVE IInv'
<1> DEFINE f == FileOf(current[p])
<1>1. PICK v \in Verdicts(object[f]) :
        /\ verdict' = [verdict EXCEPT ![p] = v]
        /\ pc' = [pc EXCEPT ![p] = IF v = "Available" THEN "copy" ELSE "complete"]
  BY DEF Validate, At
<1>2. /\ TypeOf(current[p]) = "validate"
      /\ object[f] \in Contents
      /\ pc[p] # "idle"
      /\ UNCHANGED <<file, uploadVars, storeVars, jobVars, batch, current, sweep, faults>>
  BY DEF Validate
<1>3. /\ v \in {"Available", "Rejected", "Quarantined", "Unstorable"}
      /\ v = "Available" => object[f] = "clean"
  BY <1>1, <1>2 DEF Verdicts, Contents
<1>4. TypeOK'
  BY <1>1, <1>2, <1>3 DEF IInv, TypeOK, uploadVars, storeVars, jobVars
<1>5. VerdictIsFounded'
  BY <1>1, <1>2, <1>3 DEF IInv, TypeOK, VerdictIsFounded, storeVars
<1> QED BY <1>2, <1>4, <1>5, ProcessOnly DEF storeVars

LEMMA InspectStep ==
  ASSUME IInv, NEW p \in Procs, Inspect(p) PROVE IInv'
<1>1. TypeOK'
  BY DEF IInv, TypeOK, Inspect, At, uploadVars, storeVars, jobVars
<1>2. VerdictIsFounded'
  BY DEF IInv, TypeOK, VerdictIsFounded, Inspect, At, storeVars
<1> QED BY <1>1, <1>2, ProcessOnly DEF Inspect, storeVars

LEMMA ErrorStep ==
  ASSUME IInv, NEW p \in Procs, StorageErrs(p) \/ CompleteRefused(p) PROVE IInv'
<1>1. TypeOK'
  BY AtWork DEF IInv, TypeOK, StorageErrs, CompleteRefused, At, uploadVars, storeVars, jobVars
<1>2. VerdictIsFounded'
  BY DEF IInv, TypeOK, VerdictIsFounded, StorageErrs, CompleteRefused, At, storeVars
<1> QED BY <1>1, <1>2, ProcessOnly DEF StorageErrs, CompleteRefused, storeVars

\* The object that is copied was found clean when it was read, and objects do not
\* change except by being deleted.
LEMMA CopyObjectStep ==
  ASSUME IInv, NEW p \in Procs, CopyObject(p) PROVE IInv'
<1> DEFINE f == FileOf(current[p])
<1>1. f \in Files
  BY AtWork DEF IInv, CopyObject
<1>2. object[f] = "clean" /\ TypeOf(current[p]) = "validate" /\ verdict[p] = "Available"
  BY DEF IInv, VerdictIsFounded, CopyObject, Contents
<1>3. /\ copied' = [copied EXCEPT ![f] = "clean"]
      /\ \A g \in Files : copied'[g] = IF g = f THEN "clean" ELSE copied[g]
      /\ pc' \in {[pc EXCEPT ![p] = "complete"], [pc EXCEPT ![p] = "retry"]}
      /\ UNCHANGED <<file, uploadVars, object, jobVars, batch, current, verdict, sweep, faults>>
  BY <1>1, <1>2 DEF CopyObject, At, IInv, TypeOK
<1>4. TypeOK'
  BY <1>1, <1>3, AtWork DEF CopyObject, IInv, TypeOK, Contents, uploadVars, jobVars
<1>5. AvailableWasScanned' /\ CopiedWasClean'
  BY <1>3 DEF IInv, AvailableWasScanned, CopiedWasClean
<1>6. VerdictIsFounded'
  BY <1>1, <1>2, <1>3, AtWork DEF IInv, TypeOK, VerdictIsFounded
<1> QED
  BY <1>3, <1>4, <1>5, <1>6 DEF IInv, SessionFollowsFile, ValidatingHasJob, AttemptsLeft,
     uploadVars, jobVars

-----------------------------------------------------------------------------
(* Writing the verdict *)

\* What complete_file_processing and complete_file_reconciliation leave behind.
LEMMA RecordKeeps ==
  ASSUME IInv, NEW p \in Procs, pc[p] = "complete", Record(p, current[p]),
         UNCHANGED <<session, request, copied>>
  PROVE  /\ file' \in [Files -> FileStates]
         /\ job' \in [Jobs -> {"Absent", "Pending", "Claimed", "Retry", "Completed", "Failed"}]
         /\ AvailableWasScanned' /\ SessionFollowsFile' /\ ValidatingHasJob' /\ AttemptsLeft'
<1> DEFINE j == current[p]
           f == FileOf(j)
<1>1. /\ j \in Jobs /\ f \in Files /\ job[j] = "Claimed"
      /\ job' = [job EXCEPT ![j] = "Completed"]
      /\ UNCHANGED <<claimedBy, attempts>>
  BY AtWork DEF IInv, Record, Owns
<1>2. /\ job' \in [Jobs -> {"Absent", "Pending", "Claimed", "Retry", "Completed", "Failed"}]
      /\ AttemptsLeft'
  BY <1>1 DEF IInv, TypeOK, AttemptsLeft
<1>3. CASE TypeOf(j) = "validate" /\ RecordVerdict(p, f)
  <2>1. /\ j = Validation(f)
        /\ verdict[p] \in {"Available", "Rejected", "Quarantined"}
        /\ verdict[p] = "Available" => copied[f] = "clean"
        /\ file' = [file EXCEPT ![f] = verdict[p]]
    BY <1>1, <1>3, JobParts DEF IInv, TypeOK, VerdictIsFounded, RecordVerdict, Set
  <2>2. \A g \in Files : g # f =>
           file'[g] = file[g] /\ job'[Validation(g)] = job[Validation(g)]
    BY <1>1, <2>1, JobParts DEF IInv, TypeOK
  <2>3. file'[f] = verdict[p] /\ job'[Validation(f)] = "Completed"
    BY <1>1, <2>1 DEF IInv, TypeOK
  <2>4. file' \in [Files -> FileStates] /\ AvailableWasScanned' /\ ValidatingHasJob'
    BY <2>1, <2>2, <2>3 DEF IInv, TypeOK, AvailableWasScanned, ValidatingHasJob, FileStates
  <2>5. SessionFollowsFile'
    BY <1>1, <2>1, <2>2, <2>3 DEF IInv, SessionFollowsFile
  <2> QED BY <1>2, <2>4, <2>5
<1>4. CASE TypeOf(j) = "reconcile" /\ RecordInspection(p, f)
  <2>1. \A g \in Files : job'[Validation(g)] = job[Validation(g)]
    BY <1>1, <1>4, JobParts DEF IInv, TypeOK
  <2>2. /\ file' \in [Files -> FileStates]
        /\ \A g \in Files : \/ file'[g] = file[g]
                            \/ g = f /\ file'[g] = "Quarantined" /\ file[g] # "Available"
    BY <1>1, <1>4 DEF IInv, TypeOK, RecordInspection, Set, FileStates
  <2>3. AvailableWasScanned' /\ ValidatingHasJob' /\ SessionFollowsFile'
    BY <2>1, <2>2 DEF IInv, AvailableWasScanned, ValidatingHasJob, SessionFollowsFile
  <2> QED BY <1>2, <2>2, <2>3
<1> QED BY <1>3, <1>4 DEF Record

LEMMA CompleteStep ==
  ASSUME IInv, NEW p \in Procs, Complete(p) PROVE IInv'
<1>1. /\ pc[p] = "complete" /\ Record(p, current[p]) /\ Done(p)
      /\ UNCHANGED <<uploadVars, storeVars, batch, sweep, faults, claimedBy, attempts>>
  BY DEF Complete, Record
<1>2. UNCHANGED <<session, request, copied, object>>
  BY <1>1 DEF uploadVars, storeVars
<1>3. TypeOK'
  BY <1>1, <1>2, RecordKeeps, JobParts DEF IInv, TypeOK, Done, At, uploadVars
<1>4. VerdictIsFounded' /\ CopiedWasClean'
  BY <1>1, <1>2 DEF IInv, TypeOK, VerdictIsFounded, CopiedWasClean, Done, At
<1> QED BY <1>1, <1>2, <1>3, <1>4, RecordKeeps DEF IInv

LEMMA CompleteErrsStep ==
  ASSUME IInv, NEW p \in Procs, CompleteErrs(p) PROVE IInv'
<1>1. /\ pc[p] = "complete" /\ pc' = [pc EXCEPT ![p] = "retry"]
      /\ UNCHANGED <<uploadVars, storeVars, batch, current, verdict, sweep>>
      /\ faults' \in 0..MaxFaults
  BY FileAssumption DEF CompleteErrs, At, IInv, TypeOK
<1>2. UNCHANGED <<session, request, copied, object>>
  BY <1>1 DEF uploadVars, storeVars
<1>3. VerdictIsFounded' /\ CopiedWasClean'
  BY <1>1, <1>2 DEF IInv, TypeOK, VerdictIsFounded, CopiedWasClean
<1>4. CASE Record(p, current[p])
  <2>1. file' \in [Files -> FileStates] /\ UNCHANGED <<claimedBy, attempts, late>>
    BY <1>1, <1>2, <1>4, RecordKeeps DEF Record, uploadVars
  <2>2. /\ pc' \in [Procs -> {"idle", "read", "copy", "complete", "retry"}]
        /\ \A q \in Procs : pc'[q] = "idle" <=> current'[q] \notin Jobs
    BY <1>1, AtWork DEF IInv, TypeOK
  <2>3. TypeOK'
    BY <1>1, <1>2, <1>4, <2>1, <2>2, RecordKeeps DEF IInv, TypeOK
  <2> QED BY <1>1, <1>2, <1>3, <1>4, <2>3, RecordKeeps DEF IInv
<1>5. CASE UNCHANGED <<file, jobVars>>
  <2>1. TypeOK'
    BY <1>1, <1>2, <1>5, AtWork DEF IInv, TypeOK, uploadVars, jobVars
  <2> QED
    BY <1>1, <1>2, <1>3, <1>5, <2>1 DEF IInv, AvailableWasScanned, SessionFollowsFile,
       ValidatingHasJob, AttemptsLeft, jobVars
<1> QED BY <1>4, <1>5 DEF CompleteErrs

-----------------------------------------------------------------------------
(* Retries and crashes *)

\* retry_file_processing_job reschedules a job only while it has an attempt left.
LEMMA RescheduleKeeps ==
  ASSUME IInv, NEW j \in Jobs, job[j] = "Claimed", Reschedule(j),
         UNCHANGED <<file, session, request>>
  PROVE  /\ job' \in [Jobs -> {"Absent", "Pending", "Claimed", "Retry", "Completed", "Failed"}]
         /\ claimedBy' \in [Jobs -> Names \union {Nobody}]
         /\ UNCHANGED attempts
         /\ SessionFollowsFile' /\ ValidatingHasJob' /\ AttemptsLeft'
<1>1. /\ job' \in [Jobs -> {"Absent", "Pending", "Claimed", "Retry", "Completed", "Failed"}]
      /\ claimedBy' \in [Jobs -> Names \union {Nobody}]
      /\ UNCHANGED attempts
  BY DEF IInv, TypeOK, Reschedule
<1>2. AttemptsLeft'
  BY FileAssumption DEF IInv, TypeOK, AttemptsLeft, Reschedule, Exhausted
<1>3. SessionFollowsFile' /\ ValidatingHasJob'
  BY JobParts DEF IInv, TypeOK, SessionFollowsFile, ValidatingHasJob, Reschedule
<1> QED BY <1>1, <1>2, <1>3

\* The process lets go of its job, and perhaps of its batch.
LEMMA LettingGo ==
  ASSUME IInv, NEW p \in Procs, Done(p), UNCHANGED <<object, copied>>
  PROVE  /\ current' \in [Procs -> Jobs \union {NoJob}]
         /\ pc' \in [Procs -> {"idle", "read", "copy", "complete", "retry"}]
         /\ verdict' \in [Procs -> {"none", "Available", "Rejected", "Quarantined", "Unstorable"}]
         /\ \A q \in Procs : pc'[q] = "idle" <=> current'[q] \notin Jobs
         /\ VerdictIsFounded' /\ CopiedWasClean'
  BY JobParts DEF IInv, TypeOK, VerdictIsFounded, CopiedWasClean, Done, At

LEMMA RetryStep ==
  ASSUME IInv, NEW p \in Procs, Retry(p) PROVE IInv'
<1>1. /\ current[p] \in Jobs /\ job[current[p]] = "Claimed"
      /\ Reschedule(current[p]) /\ Done(p)
      /\ UNCHANGED <<file, session, request, late, object, copied, batch, sweep, faults>>
  BY AtWork DEF IInv, Retry, Owns, uploadVars, storeVars
<1>2. TypeOK'
  BY <1>1, RescheduleKeeps, LettingGo DEF IInv, TypeOK
<1>3. AvailableWasScanned'
  BY <1>1 DEF IInv, AvailableWasScanned
<1> QED BY <1>1, <1>2, <1>3, RescheduleKeeps, LettingGo DEF IInv

LEMMA AbandonStep ==
  ASSUME IInv, NEW p \in Procs, RetryRefused(p) \/ Crash(p) PROVE IInv'
<1>1. /\ Done(p) /\ batch' = [batch EXCEPT ![p] = {}]
      /\ faults' \in 0..MaxFaults
      /\ UNCHANGED <<file, uploadVars, storeVars, jobVars, sweep>>
  BY FileAssumption DEF RetryRefused, Crash, AbandonBatch, IInv, TypeOK
<1>2. UNCHANGED <<object, copied>>
  BY <1>1 DEF storeVars
<1>3. TypeOK'
  BY <1>1, <1>2, LettingGo DEF IInv, TypeOK, uploadVars, jobVars
<1> QED BY <1>1, <1>2, <1>3, LettingGo, ProcessOnly DEF storeVars

LEMMA RetryErrsStep ==
  ASSUME IInv, NEW p \in Procs, RetryErrs(p) PROVE IInv'
<1>1. /\ pc[p] = "retry" /\ Done(p) /\ batch' = [batch EXCEPT ![p] = {}]
      /\ faults' \in 0..MaxFaults
      /\ UNCHANGED <<file, session, request, late, object, copied, sweep>>
  BY FileAssumption DEF RetryErrs, AbandonBatch, IInv, TypeOK, uploadVars, storeVars
<1>2. AvailableWasScanned'
  BY <1>1 DEF IInv, AvailableWasScanned
<1>3. CASE Owns(p, current[p]) /\ Reschedule(current[p])
  <2>1. current[p] \in Jobs /\ job[current[p]] = "Claimed"
    BY <1>1, <1>3, AtWork DEF IInv, Owns
  <2>2. TypeOK'
    BY <1>1, <1>3, <2>1, RescheduleKeeps, LettingGo DEF IInv, TypeOK
  <2> QED BY <1>1, <1>2, <1>3, <2>1, <2>2, RescheduleKeeps, LettingGo DEF IInv
<1>4. CASE UNCHANGED jobVars
  <2>1. TypeOK'
    BY <1>1, <1>4, LettingGo DEF IInv, TypeOK, jobVars
  <2> QED BY <1>1, <1>4, <2>1, LettingGo, ProcessOnly DEF uploadVars
<1> QED BY <1>3, <1>4 DEF RetryErrs

-----------------------------------------------------------------------------
(* The cleanup *)

LEMMA SweepStep ==
  ASSUME IInv, Sweep PROVE IInv'
<1>1. /\ session' \in [Files -> {"Absent", "Open", "Completed", "Expired"}]
      /\ \A f \in Files : session'[f] = session[f] \/ (session[f] = "Open" /\ request[f] = "none")
      /\ sweep' \in [Files -> {"no", "selected", "deleted"}]
      /\ UNCHANGED <<file, late, request, storeVars, jobVars, procVars, faults>>
  BY DEF Sweep, Unlocked, IInv, TypeOK
<1>2. TypeOK'
  BY <1>1 DEF IInv, TypeOK, storeVars, jobVars, procVars
<1>3. SessionFollowsFile'
  BY <1>1 DEF IInv, SessionFollowsFile, jobVars
<1> QED
  BY <1>1, <1>2, <1>3 DEF IInv, AvailableWasScanned, CopiedWasClean, VerdictIsFounded,
     ValidatingHasJob, AttemptsLeft, storeVars, jobVars, procVars

LEMMA DeleteObjectStep ==
  ASSUME IInv, NEW f \in Files, DeleteObject(f) PROVE IInv'
<1>1. TypeOK'
  BY DEF IInv, TypeOK, DeleteObject, uploadVars, jobVars, procVars
<1>2. VerdictIsFounded'
  BY AtWork DEF IInv, TypeOK, VerdictIsFounded, DeleteObject, procVars
<1> QED BY <1>1, <1>2, ProcessOnly DEF DeleteObject

LEMMA PurgeStep ==
  ASSUME IInv, NEW f \in Files, Purge(f) PROVE IInv'
<1>1. /\ file' \in [Files -> FileStates]
      /\ \A g \in Files : file'[g] = file[g] \/ (file'[g] = "Purged" /\ file[g] # "Available")
  BY DEF IInv, TypeOK, Purge, Purgeable, FileStates
<1>2. TypeOK'
  BY <1>1 DEF IInv, TypeOK, Purge, uploadVars, storeVars, jobVars, procVars
<1>3. AvailableWasScanned' /\ SessionFollowsFile' /\ ValidatingHasJob'
  BY <1>1 DEF IInv, AvailableWasScanned, SessionFollowsFile, ValidatingHasJob, Purge,
     uploadVars, storeVars, jobVars
<1> QED
  BY <1>2, <1>3 DEF IInv, CopiedWasClean, VerdictIsFounded, AttemptsLeft, Purge, storeVars,
     jobVars, procVars

LEMMA SweepEndsStep ==
  ASSUME IInv, SweepEnds PROVE IInv'
<1>1. TypeOK'
  BY FileAssumption DEF IInv, TypeOK, SweepEnds, uploadVars, storeVars, jobVars, procVars
<1> QED
  BY <1>1 DEF IInv, AvailableWasScanned, CopiedWasClean, VerdictIsFounded, SessionFollowsFile,
     ValidatingHasJob, AttemptsLeft, SweepEnds, uploadVars, storeVars, jobVars, procVars

-----------------------------------------------------------------------------
(* The theorems *)

LEMMA NextKeepsIInv == IInv /\ [Next]_vars => IInv'
<1> SUFFICES ASSUME IInv, [Next]_vars PROVE IInv'
  OBVIOUS
<1>1. CASE UNCHANGED vars
  BY <1>1 DEF vars, IInv, TypeOK, AvailableWasScanned, CopiedWasClean, VerdictIsFounded,
     SessionFollowsFile, ValidatingHasJob, AttemptsLeft, uploadVars, storeVars, jobVars, procVars
<1>2. ASSUME NEW f \in Files,
             \/ CreateFile(f) \/ ExpiresAtPasses(f) \/ CompleteUpload(f) \/ Upload(f)
             \/ RequestReconciliation(f)
      PROVE  IInv'
  BY <1>2, CreateFileStep, QuietUploadStep, StoreUploadStep, QuarantinedUploadStep,
     UploadCompletedStep, RequestReconciliationStep DEF Upload
<1>3. ASSUME NEW p \in Procs, Work(p) PROVE IInv'
  BY <1>3, ClaimStep, TakeStep, ValidateStep, InspectStep, CopyObjectStep, ErrorStep,
     CompleteStep, RetryStep, AbandonStep DEF Work
<1>4. ASSUME NEW p \in Procs, Fault(p) PROVE IInv'
  BY <1>4, ClaimStep, CompleteErrsStep, RetryErrsStep, AbandonStep DEF Fault
<1>5. CASE Cleanup
  BY <1>5, SweepStep, SweepEndsStep, DeleteObjectStep, PurgeStep DEF Cleanup
<1> QED BY <1>1, <1>2, <1>3, <1>4, <1>5 DEF Next

\* The inductive invariant holds in every behaviour of the pipeline.
THEOREM FileInductive == Spec => []IInv
  BY InitIInv, NextKeepsIInv, PTL DEF Spec

\* Every variable of the tables, the object store and the processes keeps its type.
THEOREM FileTypeOK == Spec => []TypeOK
<1>1. IInv => TypeOK BY DEF IInv
<1> QED BY <1>1, FileInductive, PTL

\* What the API offers as available is a scanned copy, although complete_file_processing
\* looks at the job's claim only and never at the status of the file it promotes.
THEOREM FileAvailableWasScanned == Spec => []AvailableWasScanned
<1>1. IInv => AvailableWasScanned BY DEF IInv
<1> QED BY <1>1, FileInductive, PTL

\* The validation job of a file under validation is open or has given up.
THEOREM FileValidatingHasJob == Spec => []ValidatingHasJob
<1>1. IInv => ValidatingHasJob BY DEF IInv
<1> QED BY <1>1, FileInductive, PTL

\* No job is attempted more than MaxAttempts times.
THEOREM FileAttemptsBounded == Spec => []AttemptsBounded
<1>1. IInv => AttemptsBounded BY DEF IInv, AttemptsLeft, AttemptsBounded
<1> QED BY <1>1, FileInductive, PTL

\* A step takes no available file back and leaves its object alone.
LEMMA StepKeepsAvailable ==
  ASSUME IInv, Next, NEW f \in Files, file[f] = "Available"
  PROVE  file'[f] = "Available" /\ copied'[f] = copied[f]
<1> DEFINE Kept == file'[f] = "Available" /\ copied'[f] = copied[f]
<1>1. /\ request[f] = "none" /\ copied[f] = "clean"
      /\ job[Validation(f)] = "Completed"
  BY DEF IInv, TypeOK, SessionFollowsFile, AvailableWasScanned
<1>2. ASSUME NEW g \in Files,
             \/ CreateFile(g) \/ ExpiresAtPasses(g) \/ CompleteUpload(g) \/ Upload(g)
             \/ RequestReconciliation(g)
      PROVE  Kept
  BY <1>1, <1>2 DEF CreateFile, ExpiresAtPasses, CompleteUpload, Upload, DeclarationMismatch,
     StoreUpload, UploadIncomplete, UploadCompleted, UploadFails, RequestReconciliation, Set,
     storeVars, IInv, TypeOK
<1>3. ASSUME NEW p \in Procs, pc[p] = "complete", Record(p, current[p]) PROVE file'[f] = "Available"
  <2>1. current[p] \in Jobs /\ job[current[p]] = "Claimed"
    BY <1>3, AtWork DEF IInv, Record, Owns
  <2>2. TypeOf(current[p]) = "validate" => FileOf(current[p]) # f
    BY <1>1, <2>1, JobParts
  <2> QED
    BY <1>3, <2>1, <2>2, JobParts DEF Record, RecordVerdict, RecordInspection, Set, IInv, TypeOK
<1>4. ASSUME NEW p \in Procs, CopyObject(p) PROVE Kept
  <2>1. FileOf(current[p]) \in Files /\ object[FileOf(current[p])] = "clean"
    BY <1>4, AtWork DEF IInv, VerdictIsFounded, CopyObject, Contents
  <2> QED BY <1>1, <1>4, <2>1 DEF CopyObject, IInv, TypeOK
<1>5. ASSUME NEW p \in Procs, Work(p) PROVE Kept
  <2>1. CASE Complete(p)
    BY <2>1, <1>3 DEF Complete, storeVars
  <2>2. CASE Claim(p) \/ Take(p) \/ Validate(p) \/ Inspect(p) \/ StorageErrs(p)
    BY <2>2 DEF Claim, Take, Validate, Inspect, StorageErrs, storeVars
  <2>3. CASE CompleteRefused(p) \/ Retry(p) \/ RetryRefused(p)
    BY <2>3 DEF CompleteRefused, Retry, RetryRefused, storeVars
  <2> QED BY <1>4, <1>5, <2>1, <2>2, <2>3 DEF Work
<1>6. ASSUME NEW p \in Procs, Fault(p) PROVE Kept
  <2>1. CASE CompleteErrs(p)
    BY <2>1, <1>3 DEF CompleteErrs, storeVars
  <2>2. CASE ClaimAnswerLost(p) \/ RetryErrs(p) \/ Crash(p)
    BY <2>2 DEF ClaimAnswerLost, RetryErrs, Crash, storeVars
  <2> QED BY <1>6, <2>1, <2>2 DEF Fault
<1>7. CASE Cleanup
  BY <1>7 DEF Cleanup, Sweep, SweepEnds, DeleteObject, Purge, Purgeable, storeVars, IInv, TypeOK
<1> QED BY <1>2, <1>5, <1>6, <1>7 DEF Next

\* Once available, a file stays available with the object it was scanned with.
THEOREM FileAvailableIsFinal == Spec => AvailableIsFinal
<1>1. IInv /\ [Next]_vars =>
        [\A f \in Files : file[f] = "Available" =>
            file'[f] = "Available" /\ copied'[f] = copied[f]]_vars
  BY StepKeepsAvailable
<1> QED BY <1>1, FileInductive, PTL DEF Spec, AvailableIsFinal

-----------------------------------------------------------------------------
(* Who works on a job *)

\* A process works under its claims only; a job that is not its own any more is
\* one it has completed without learning so.
HoldsItsClaims ==
  \A p \in Procs :
    /\ \A j \in batch[p] : Owns(p, j)
    /\ current[p] \notin batch[p]
    /\ pc[p] \in {"read", "copy", "complete"} => Owns(p, current[p])
    /\ pc[p] = "retry" =>
         \/ Owns(p, current[p])
         \/ faults > 0 /\ job[current[p]] = "Completed"

HInv == IInv /\ HoldsItsClaims /\ OneWorkerPerJob /\ ClaimedIsHeld

LEMMA InitHInv == Init => HInv
<1> SUFFICES ASSUME Init PROVE HInv
  OBVIOUS
<1>1. HoldsItsClaims /\ OneWorkerPerJob /\ ClaimedIsHeld
  BY JobParts DEF Init, HoldsItsClaims, OneWorkerPerJob, ClaimedIsHeld, Holding
<1> QED BY <1>1, InitIInv DEF HInv

\* What is held is claimed or completed, so no claim takes it.
LEMMA HeldIsNotClaimable ==
  ASSUME HInv, NEW p \in Procs
  PROVE  /\ Holding(p) \intersect Claimable = {}
         /\ Holding(p) \subseteq Jobs
<1>1. \A j \in batch[p] : j \in Jobs /\ job[j] = "Claimed"
  BY DEF HInv, HoldsItsClaims, Owns, IInv, TypeOK
<1>2. current[p] \in Jobs => job[current[p]] \in {"Claimed", "Completed"}
  BY DEF HInv, HoldsItsClaims, Owns, IInv, TypeOK
<1> QED BY <1>1, <1>2 DEF Holding, Claimable

\* Steps of requests, of the cleanup, and within a job.
SameClaims ==
  /\ UNCHANGED <<claimedBy, batch, current>>
  /\ faults' \in Nat /\ faults' >= faults
  /\ \A j \in Jobs : job'[j] = job[j] \/ (job[j] = "Absent" /\ job'[j] = "Pending")
  /\ \A p \in Procs : \/ pc'[p] = pc[p]
                      \/ pc[p] \in {"read", "copy", "complete"} /\ pc'[p] # "idle"

LEMMA SameClaimsStep ==
  ASSUME HInv, IInv', SameClaims PROVE HInv'
<1>1. ASSUME NEW p \in Procs, NEW j \in Jobs
      PROVE  /\ Owns(p, j) => Owns(p, j)'
             /\ job[j] = "Completed" => job'[j] = "Completed"
             /\ job'[j] = "Claimed" => job[j] = "Claimed"
  BY DEF SameClaims, Owns
<1>2. HoldsItsClaims'
  <2>1. faults \in Nat /\ faults' \in Nat /\ faults' >= faults
    BY FileAssumption DEF SameClaims, HInv, IInv, TypeOK
  <2>2. ASSUME NEW p \in Procs
        PROVE  /\ \A j \in batch'[p] : Owns(p, j)'
               /\ current'[p] \notin batch'[p]
    BY <1>1 DEF SameClaims, HInv, IInv, TypeOK, HoldsItsClaims
  <2>3. ASSUME NEW p \in Procs, pc'[p] # "idle"
        PROVE  /\ pc'[p] \in {"read", "copy", "complete"} => Owns(p, current[p])'
               /\ pc'[p] = "retry" => \/ Owns(p, current[p])'
                                      \/ faults' > 0 /\ job'[current'[p]] = "Completed"
    <3>1. pc[p] # "idle"
      BY <2>3 DEF SameClaims
    <3>2. current[p] \in Jobs
      BY <3>1, AtWork DEF HInv, IInv
    <3>3. pc[p] \in {"read", "copy", "complete", "retry"} /\ current'[p] = current[p]
      BY <3>1 DEF HInv, IInv, TypeOK, SameClaims
    <3>4. \/ Owns(p, current[p])
          \/ pc[p] = "retry" /\ faults > 0 /\ job[current[p]] = "Completed"
      BY <3>3 DEF HInv, HoldsItsClaims
    <3>5. Owns(p, current[p]) => Owns(p, current[p])'
      BY <3>2, <3>3 DEF SameClaims, Owns
    <3> QED BY <1>1, <2>1, <3>2, <3>3, <3>4, <3>5 DEF SameClaims
  <2> QED BY <2>2, <2>3 DEF HoldsItsClaims
<1>3. OneWorkerPerJob'
  BY DEF HInv, OneWorkerPerJob, Holding, SameClaims
<1>4. ClaimedIsHeld'
  BY <1>1, FileAssumption DEF HInv, IInv, TypeOK, ClaimedIsHeld, Holding, SameClaims
<1> QED BY <1>2, <1>3, <1>4 DEF HInv

LEMMA QuietHolding ==
  ASSUME HInv,
         \/ \E f \in Files :
              \/ CreateFile(f) \/ ExpiresAtPasses(f) \/ CompleteUpload(f) \/ Upload(f)
              \/ RequestReconciliation(f)
         \/ Cleanup
         \/ \E p \in Procs :
              \/ Validate(p) \/ Inspect(p) \/ CopyObject(p) \/ StorageErrs(p) \/ CompleteRefused(p)
              \/ CompleteErrs(p) /\ UNCHANGED jobVars
  PROVE  SameClaims
<1>0. faults \in Nat
  BY FileAssumption DEF HInv, IInv, TypeOK
<1>1. ASSUME NEW f \in Files, UploadCompleted(f) \/ RequestReconciliation(f) PROVE SameClaims
  <2>1. /\ UNCHANGED <<claimedBy, batch, current, pc, faults>>
        /\ \E j \in Jobs :
             job' = [job EXCEPT ![j] = IF job[j] = "Absent" THEN "Pending" ELSE job[j]]
    BY <1>1, JobParts DEF UploadCompleted, RequestReconciliation, procVars
  <2> QED BY <1>0, <2>1 DEF SameClaims, HInv, IInv, TypeOK
<1>2. ASSUME NEW f \in Files,
             \/ CreateFile(f) \/ ExpiresAtPasses(f) \/ CompleteUpload(f)
             \/ DeclarationMismatch(f) \/ StoreUpload(f) \/ UploadIncomplete(f) \/ UploadFails(f)
      PROVE  SameClaims
  BY <1>0, <1>2 DEF SameClaims, CreateFile, ExpiresAtPasses, CompleteUpload, DeclarationMismatch,
     StoreUpload, UploadIncomplete, UploadFails, jobVars, procVars
<1>3. CASE Cleanup
  BY <1>0, <1>3 DEF SameClaims, Cleanup, Sweep, SweepEnds, DeleteObject, Purge, jobVars, procVars
<1>4. ASSUME NEW p \in Procs,
             \/ Validate(p) \/ Inspect(p) \/ CopyObject(p) \/ StorageErrs(p) \/ CompleteRefused(p)
             \/ CompleteErrs(p) /\ UNCHANGED jobVars
      PROVE  SameClaims
  <2>1. /\ UNCHANGED <<claimedBy, batch, current, job>>
        /\ faults' = faults \/ faults' = faults + 1
        /\ pc[p] \in {"read", "copy", "complete"}
    BY <1>4 DEF Validate, Inspect, CopyObject, StorageErrs, CompleteRefused, CompleteErrs, jobVars
  <2>2. \E step \in {"copy", "complete", "retry"} : pc' = [pc EXCEPT ![p] = step]
    BY <1>4 DEF Validate, Inspect, CopyObject, StorageErrs, CompleteRefused, CompleteErrs, At
  <2> QED BY <1>0, <2>1, <2>2 DEF SameClaims, HInv, IInv, TypeOK
<1> QED BY <1>1, <1>2, <1>3, <1>4 DEF Upload

\* FOR UPDATE SKIP LOCKED: a claim takes jobs that nobody holds.
LEMMA ClaimHolding ==
  ASSUME HInv, IInv', NEW p \in Procs, Claim(p) \/ ClaimAnswerLost(p) PROVE HInv'
<1>1. PICK S \in SUBSET Claimable :
        /\ ClaimRows(p, S)
        /\ \/ batch' = [batch EXCEPT ![p] = S] /\ UNCHANGED faults
           \/ UNCHANGED batch /\ faults' = faults + 1
  BY DEF Claim, ClaimAnswerLost, procVars
<1>2. /\ pc[p] = "idle" /\ batch[p] = {} /\ current[p] \notin Jobs
      /\ UNCHANGED <<current, pc>>
      /\ faults \in Nat
  BY FileAssumption DEF Claim, ClaimAnswerLost, procVars, HInv, IInv, TypeOK
<1>3. ASSUME NEW j \in Jobs
      PROVE  /\ j \in S => job'[j] = "Claimed" /\ claimedBy'[j] = NameOf[p]
             /\ j \notin S => job'[j] = job[j] /\ claimedBy'[j] = claimedBy[j]
  BY <1>1 DEF ClaimRows
<1>4. \A q \in Procs : Holding(q) \intersect S = {} /\ Holding(q) \subseteq Jobs
  BY <1>1, HeldIsNotClaimable
<1>5. /\ \A q \in Procs \ {p} : Holding(q)' = Holding(q)
      /\ Holding(p)' = S \/ (Holding(p)' = Holding(p) /\ faults' > 0)
  BY <1>1, <1>2 DEF Holding, HInv, IInv, TypeOK
<1>6. HoldsItsClaims'
  <2>1. ASSUME NEW q \in Procs, NEW j \in Holding(q), Owns(q, j) \/ job[j] = "Completed"
        PROVE  (Owns(q, j) => Owns(q, j)') /\ (job[j] = "Completed" => job'[j] = "Completed")
    BY <1>3, <1>4, <2>1 DEF Owns
  <2>2. ASSUME NEW q \in Procs
        PROVE  (\A j \in batch'[q] : Owns(q, j)') /\ current'[q] \notin batch'[q]
    <3>1. CASE batch'[q] = batch[q]
      BY <1>2, <2>1, <3>1 DEF HInv, HoldsItsClaims, Holding
    <3>2. CASE batch'[q] # batch[q]
      <4>1. q = p /\ batch'[q] = S
        BY <1>1, <3>2 DEF HInv, IInv, TypeOK
      <4>2. S \subseteq Jobs
        BY DEF Claimable
      <4> QED BY <1>2, <1>3, <4>1, <4>2 DEF Owns
    <3> QED BY <3>1, <3>2
  <2>3. ASSUME NEW q \in Procs, pc'[q] # "idle"
        PROVE  /\ pc'[q] \in {"read", "copy", "complete"} => Owns(q, current[q])'
               /\ pc'[q] = "retry" => \/ Owns(q, current[q])'
                                      \/ faults' > 0 /\ job'[current'[q]] = "Completed"
    <3>1. current[q] \in Holding(q) /\ pc[q] \in {"read", "copy", "complete", "retry"}
      BY <1>2, <2>3, AtWork DEF HInv, IInv, TypeOK, Holding
    <3>2. \/ Owns(q, current[q])
          \/ pc[q] = "retry" /\ faults > 0 /\ job[current[q]] = "Completed"
      BY <3>1 DEF HInv, HoldsItsClaims
    <3>3. Owns(q, current[q]) => Owns(q, current[q])'
      BY <1>2, <2>1, <3>1 DEF Owns
    <3> QED BY <1>1, <1>2, <2>1, <3>1, <3>2, <3>3
  <2> QED BY <2>2, <2>3 DEF HoldsItsClaims
<1>7. OneWorkerPerJob'
  BY <1>4, <1>5 DEF HInv, OneWorkerPerJob
<1>8. ClaimedIsHeld'
  <2> SUFFICES ASSUME faults' = 0, NEW j \in Jobs, job'[j] = "Claimed"
               PROVE  \E q \in Procs : j \in Holding(q)'
    BY DEF ClaimedIsHeld
  <2>1. faults = 0 /\ Holding(p)' = S
    BY <1>1, <1>2, <1>5
  <2>2. CASE j \notin S
    <3>1. PICK q \in Procs : j \in Holding(q)
      BY <1>3, <2>1, <2>2 DEF HInv, ClaimedIsHeld
    <3>2. q # p
      BY <1>2, <3>1 DEF Holding
    <3> QED BY <1>5, <3>1, <3>2
  <2> QED BY <2>1, <2>2
<1> QED BY <1>6, <1>7, <1>8 DEF HInv

LEMMA TakeHolding ==
  ASSUME HInv, IInv', NEW p \in Procs, Take(p) PROVE HInv'
<1>1. PICK j \in batch[p] :
        /\ batch'   = [batch EXCEPT ![p] = @ \ {j}]
        /\ current' = [current EXCEPT ![p] = j]
  BY DEF Take
<1>2. /\ pc[p] = "idle" /\ pc' = [pc EXCEPT ![p] = "read"]
      /\ current[p] \notin Jobs /\ j \in Jobs
      /\ UNCHANGED <<job, claimedBy, faults>>
  BY DEF Take, At, jobVars, HInv, IInv, TypeOK
<1>3. \A q \in Procs : Holding(q)' = Holding(q)
  BY <1>1, <1>2 DEF Holding, HInv, IInv, TypeOK
<1>4. HoldsItsClaims'
  BY <1>1, <1>2 DEF HInv, IInv, TypeOK, HoldsItsClaims, Owns
<1>5. OneWorkerPerJob' /\ ClaimedIsHeld'
  BY <1>2, <1>3 DEF HInv, OneWorkerPerJob, ClaimedIsHeld
<1> QED BY <1>4, <1>5 DEF HInv

\* A process lets go of its job; the rest of its batch too, but only after a fault.
LEMMA DropHolding ==
  ASSUME HInv, IInv', NEW p \in Procs, Done(p),
         batch' \in {batch, [batch EXCEPT ![p] = {}]},
         \A j \in Jobs : j # current[p] => job'[j] = job[j] /\ claimedBy'[j] = claimedBy[j],
         faults' >= faults,
         faults' = 0 => batch' = batch /\ (current[p] \in Jobs => job'[current[p]] # "Claimed")
  PROVE  HInv'
<1>1. /\ pc' = [pc EXCEPT ![p] = "idle"] /\ current' = [current EXCEPT ![p] = NoJob]
      /\ NoJob \notin Jobs /\ current[p] \notin batch[p]
      /\ faults \in Nat /\ faults' \in Nat
  BY JobParts, FileAssumption DEF Done, At, HInv, HoldsItsClaims, IInv, TypeOK
<1>2. /\ \A q \in Procs \ {p} : /\ Holding(q)' = Holding(q) /\ batch'[q] = batch[q]
                               /\ current'[q] = current[q] /\ pc'[q] = pc[q]
      /\ Holding(p)' = batch'[p] /\ batch'[p] \subseteq batch[p]
      /\ batch[p] \subseteq Holding(p)
  BY <1>1 DEF HInv, IInv, TypeOK, Holding
<1>3. \A q \in Procs : Holding(q) \subseteq Jobs
  BY HeldIsNotClaimable
<1>4. ASSUME NEW q \in Procs, NEW j \in Holding(q), j # current[p]
      PROVE  Owns(q, j)' <=> Owns(q, j)
  BY <1>3, <1>4 DEF Owns
<1>5. \A q \in Procs \ {p} : current[p] \notin Holding(q)
  BY <1>3 DEF HInv, OneWorkerPerJob, Holding
<1>6. HoldsItsClaims'
  <2>1. ASSUME NEW q \in Procs
        PROVE  (\A j \in batch'[q] : Owns(q, j)') /\ current'[q] \notin batch'[q]
    <3>1. batch'[q] \subseteq batch[q] /\ current[p] \notin batch'[q] /\ batch[q] \subseteq Holding(q)
      BY <1>1, <1>2, <1>5 DEF Holding
    <3>2. \A j \in batch'[q] : Owns(q, j)'
      BY <1>4, <3>1 DEF HInv, HoldsItsClaims
    <3>3. batch'[q] \subseteq Jobs
      BY <1>3, <3>1
    <3> QED BY <1>1, <1>2, <3>2, <3>3 DEF HInv, HoldsItsClaims, IInv, TypeOK
  <2>2. ASSUME NEW q \in Procs, pc'[q] # "idle"
        PROVE  /\ pc'[q] \in {"read", "copy", "complete"} => Owns(q, current[q])'
               /\ pc'[q] = "retry" => \/ Owns(q, current[q])'
                                      \/ faults' > 0 /\ job'[current'[q]] = "Completed"
    <3>1. q # p /\ pc'[q] = pc[q] /\ current'[q] = current[q]
      BY <1>1, <1>2, <2>2 DEF HInv, IInv, TypeOK
    <3>2. current[q] \in Jobs /\ current[q] \in Holding(q)
      BY <2>2, <3>1, AtWork DEF HInv, IInv, Holding
    <3>3. current[q] # current[p] /\ job'[current[q]] = job[current[q]]
      BY <1>5, <3>1, <3>2
    <3>4. Owns(q, current[q]) => Owns(q, current[q])'
      BY <3>1, <3>2, <3>3 DEF Owns
    <3> QED BY <1>1, <2>2, <3>1, <3>3, <3>4 DEF HInv, HoldsItsClaims
  <2> QED BY <2>1, <2>2 DEF HoldsItsClaims
<1>7. OneWorkerPerJob'
  BY <1>2 DEF HInv, OneWorkerPerJob
<1>8. ClaimedIsHeld'
  <2> SUFFICES ASSUME faults' = 0, NEW j \in Jobs, job'[j] = "Claimed"
               PROVE  \E q \in Procs : j \in Holding(q)'
    BY DEF ClaimedIsHeld
  <2>1. faults = 0 /\ batch' = batch /\ j # current[p]
    BY <1>1
  <2>2. PICK q \in Procs : j \in Holding(q)
    BY <2>1 DEF HInv, ClaimedIsHeld
  <2>3. CASE q = p
    BY <1>2, <2>1, <2>2, <2>3 DEF Holding
  <2> QED BY <1>2, <2>2, <2>3
<1> QED BY <1>6, <1>7, <1>8 DEF HInv

LEMMA CompleteHolding ==
  ASSUME HInv, IInv', NEW p \in Procs, Complete(p) PROVE HInv'
<1>1. /\ current[p] \in Jobs /\ Done(p) /\ UNCHANGED <<batch, faults, claimedBy>>
      /\ job' = [job EXCEPT ![current[p]] = "Completed"]
  BY AtWork DEF Complete, Record, HInv, IInv
<1>2. faults \in Nat
  BY FileAssumption DEF HInv, IInv, TypeOK
<1> QED BY <1>1, <1>2, DropHolding DEF HInv, IInv, TypeOK

LEMMA RetryHolding ==
  ASSUME HInv, IInv', NEW p \in Procs, Retry(p) PROVE HInv'
<1>1. /\ current[p] \in Jobs /\ Done(p) /\ UNCHANGED <<batch, faults>>
      /\ Reschedule(current[p])
  BY AtWork DEF Retry, HInv, IInv
<1>2. /\ job'[current[p]] # "Claimed" /\ faults \in Nat
      /\ \A j \in Jobs : j # current[p] => job'[j] = job[j] /\ claimedBy'[j] = claimedBy[j]
  BY <1>1, FileAssumption DEF Reschedule, HInv, IInv, TypeOK
<1> QED BY <1>1, <1>2, DropHolding

\* A refused retry follows a completion whose answer was lost.
LEMMA AbandonHolding ==
  ASSUME HInv, IInv', NEW p \in Procs, RetryRefused(p) \/ RetryErrs(p) \/ Crash(p) PROVE HInv'
<1>1. Done(p) /\ batch' = [batch EXCEPT ![p] = {}]
  BY DEF RetryRefused, RetryErrs, Crash, AbandonBatch
<1>2. faults \in Nat /\ faults' >= faults /\ faults' # 0
  <2>1. faults \in Nat
    BY FileAssumption DEF HInv, IInv, TypeOK
  <2>2. CASE RetryRefused(p)
    BY <2>1, <2>2 DEF RetryRefused, HInv, HoldsItsClaims
  <2> QED BY <2>1, <2>2 DEF RetryErrs, Crash
<1>3. \A j \in Jobs : j # current[p] => job'[j] = job[j] /\ claimedBy'[j] = claimedBy[j]
  BY DEF RetryRefused, RetryErrs, Crash, Reschedule, jobVars, HInv, IInv, TypeOK
<1> QED BY <1>1, <1>2, <1>3, DropHolding

\* The completion commits and its answer is lost: the job stays in hand, completed.
LEMMA AnswerLostHolding ==
  ASSUME HInv, IInv', NEW p \in Procs, CompleteErrs(p), Record(p, current[p]) PROVE HInv'
<1>1. /\ current[p] \in Jobs
      /\ job' = [job EXCEPT ![current[p]] = "Completed"]
      /\ pc' = [pc EXCEPT ![p] = "retry"]
      /\ UNCHANGED <<batch, current, claimedBy>>
      /\ faults' > 0
  BY AtWork, FileAssumption DEF CompleteErrs, At, Record, HInv, IInv, TypeOK
<1>2. \A q \in Procs : /\ Holding(q)' = Holding(q) /\ batch[q] \subseteq Holding(q)
                       /\ Holding(q) \subseteq Jobs
  BY <1>1, HeldIsNotClaimable DEF Holding
<1>3. /\ current[p] \notin batch[p] /\ current[p] \in Holding(p)
      /\ \A q \in Procs \ {p} : current[p] \notin Holding(q)
  BY <1>1 DEF HInv, HoldsItsClaims, OneWorkerPerJob, Holding
<1>4. \A j \in Jobs : j # current[p] => job'[j] = job[j]
  BY <1>1 DEF HInv, IInv, TypeOK
<1>5. HoldsItsClaims'
  <2>1. ASSUME NEW q \in Procs
        PROVE  (\A j \in batch'[q] : Owns(q, j)') /\ current'[q] \notin batch'[q]
    <3>1. \A j \in batch[q] : j \in Jobs /\ j # current[p]
      BY <1>2, <1>3
    <3> QED BY <1>1, <1>4, <3>1 DEF Owns, HInv, HoldsItsClaims
  <2>2. ASSUME NEW q \in Procs, pc'[q] # "idle"
        PROVE  /\ pc'[q] \in {"read", "copy", "complete"} => Owns(q, current[q])'
               /\ pc'[q] = "retry" => \/ Owns(q, current[q])'
                                      \/ faults' > 0 /\ job'[current'[q]] = "Completed"
    <3>1. CASE q = p
      BY <1>1, <3>1 DEF HInv, IInv, TypeOK
    <3>2. CASE q # p
      <4>1. pc'[q] = pc[q] /\ current'[q] = current[q] /\ current[q] \in Jobs
        BY <1>1, <2>2, <3>2, AtWork DEF HInv, IInv, TypeOK
      <4>2. job'[current[q]] = job[current[q]]
        BY <1>3, <1>4, <3>2, <4>1 DEF Holding
      <4>3. Owns(q, current[q]) => Owns(q, current[q])'
        BY <1>1, <4>1, <4>2 DEF Owns
      <4> QED BY <1>1, <2>2, <4>1, <4>2, <4>3 DEF HInv, HoldsItsClaims
    <3> QED BY <3>1, <3>2
  <2> QED BY <2>1, <2>2 DEF HoldsItsClaims
<1>6. OneWorkerPerJob' /\ ClaimedIsHeld'
  BY <1>1, <1>2 DEF HInv, OneWorkerPerJob, ClaimedIsHeld
<1> QED BY <1>5, <1>6 DEF HInv

LEMMA NextKeepsHInv == HInv /\ [Next]_vars => HInv'
<1> SUFFICES ASSUME HInv, [Next]_vars PROVE HInv'
  OBVIOUS
<1>0. IInv'
  BY NextKeepsIInv DEF HInv
<1>1. CASE UNCHANGED vars
  <2>1. SameClaims
    BY <1>1, FileAssumption DEF SameClaims, vars, jobVars, procVars, HInv, IInv, TypeOK
  <2> QED BY <1>0, <2>1, SameClaimsStep
<1>2. CASE \/ Cleanup
           \/ \E f \in Files :
                \/ CreateFile(f) \/ ExpiresAtPasses(f) \/ CompleteUpload(f) \/ Upload(f)
                \/ RequestReconciliation(f)
  BY <1>0, <1>2, QuietHolding, SameClaimsStep
<1>3. ASSUME NEW p \in Procs, Work(p) PROVE HInv'
  <2>1. CASE \/ Validate(p) \/ Inspect(p) \/ CopyObject(p) \/ StorageErrs(p) \/ CompleteRefused(p)
    BY <1>0, <2>1, QuietHolding, SameClaimsStep
  <2> QED BY <1>0, <1>3, <2>1, ClaimHolding, TakeHolding, CompleteHolding, RetryHolding,
             AbandonHolding DEF Work
<1>4. ASSUME NEW p \in Procs, Fault(p) PROVE HInv'
  <2>1. CASE CompleteErrs(p)
    BY <1>0, <2>1, QuietHolding, SameClaimsStep, AnswerLostHolding DEF CompleteErrs
  <2> QED BY <1>0, <1>4, <2>1, ClaimHolding, AbandonHolding DEF Fault
<1> QED BY <1>1, <1>2, <1>3, <1>4 DEF Next

LEMMA FileHolding == Spec => []HInv
  BY InitHInv, NextKeepsHInv, PTL DEF Spec

\* For any number of workers, under any names: a job is never in two hands.
THEOREM FileOneWorkerPerJob == Spec => []OneWorkerPerJob
<1>1. HInv => OneWorkerPerJob BY DEF HInv
<1> QED BY <1>1, FileHolding, PTL

\* Without crashes and database errors every claimed job is in some process's hands,
\* whatever the objects, the scanner and the store do.
THEOREM FileClaimedIsHeld == Spec => []ClaimedIsHeld
<1>1. HInv => ClaimedIsHeld BY DEF HInv
<1> QED BY <1>1, FileHolding, PTL

=============================================================================
