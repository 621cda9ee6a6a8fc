# VinOps in TLA+

VinOps is a construction-operations platform: a NestJS API (`apps/api`), a worker
(`apps/worker`), a React client (`apps/web`), shared packages (`packages/*`) and a PostgreSQL
schema whose functions carry part of the logic (`packages/database/migrations`). This directory
holds TLA+ models of its concurrent core, the TLC configurations that check them on small
instances, and proofs for every instance checked by TLAPS. Paths below are relative to `src/`.

## 1. The system: inventory

Every API mutation is one PostgreSQL transaction at READ COMMITTED (`VinopsDatabase.withTransaction`):
it authorises the caller, reads (with or without a row lock), writes, appends an audit row, inserts
an outbox event, and stores its answer in an idempotency record. The worker polls the tables the API
fills. Components meet only in the database, in Redis and in the object store.

| component | state | operations | what is hard | what makes it correct |
|---|---|---|---|---|
| **Outbox** (`worker/src/outbox-*.ts`, `002_tenant_rls.sql`) | rows of `outbox_events` (status, claim, attempts, available_at); per process: the batch in hand, the publisher's set of published ids | enqueue, claim, publish to handlers, mark published, mark failed, poll | several processes, shared worker names, crash or lost answer between any two statements, retries, poisoned events | one process per event, Published means handled and is final, no redelivery within a process, every event gets out |
| **Review route rules** (`domain/src/document-control.ts`) | none (pure) | evaluate a route, check a decision, check a publication | sequential and quorum modes, two thresholds | order of decisions, a route that is open has somebody to decide |
| **Document control** (`document.service.ts`, `007`, `008`) | revisions (status, version, file), routes and decisions, comments and dispositions, the pointer to the current revision of each context | create, submit, decide, withdraw, comment, dispose, publish | unlocked reads followed by writes, three row locks in one function, first publication without a row to lock, stale clients | one current revision per context, only reviewed revisions are published, decisions are final, publications end |
| **Uploads and file jobs** (`document.service.ts`, `file-processing-worker.ts`, `007`, `009`, `010`) | upload sessions, parts, file status, jobs | initiate, authorise part, complete, claim job, scan, complete job, retry, reconcile, expire | object store outside the transaction, crash of a worker, two job types on one file | only a validated object becomes Available; a session ends |
| **Quarantine cleanup** (`quarantine-cleanup-worker.ts`, `013`) | quarantined files | select, delete object, purge row | races with validation | an available file keeps its object |
| **Idempotency** (`document.service.ts`, `platform.service.ts`) | (actor, operation, key) -> answer | insert, replay, conflict | a retry concurrent with the first request, a retry after the row has moved on | one execution per key, every answer is that execution's |
| **Sessions** (`platform.service.ts`, `001`, `006`) | refresh-token families, sessions, the user's versions, a reset credential | login, rotate, reuse detection, revoke one or all, suspend, reset | a credential used twice, a revocation of two statements with a login in between, a lookup before and a rotation after a revocation | one chain of credentials per family, a revoked family stays revoked |
| **Web client session** (`web/src/api.ts`) | access and CSRF token in memory, credential in a cookie, the refresh in flight | send, refresh once for all, repeat once, sign in, sign out | lost answers, requests older than the session, a sign-out in the middle | one tab never presents a credential twice, cookie and memory fit the API |
| **Projects, members, invitations, break-glass, import** (`platform.service.ts`, `004`) | project status and version, context entities, CSV imports, an invitation, a membership, emergency access | transition, create, preview, commit, invite, revoke, accept, update, request, approve, start | two clients with one version, repeated commands | one command per version of a row, transitions form one path |
| **Remote signing, direct signing** (`pki/signing.service.ts`, `quality.service.ts`) | signing sessions, acceptance records | create, sign, reject, expire, seal | signers act in any order on one record, a provider called inside the transaction | order of signatures, a rejected record is not signed |
| **As-built dossiers** (`pki/signing.service.ts`, `017`) | a dossier, its items, its hash chain | create, add items, seal | a time stamp awaited between reading the items and writing their chain | the chain covers the items |
| **RFIs, submittals, field issues** (`rfx.service.ts`, `issue.service.ts`, `012`) | status, parties, ball in court, the RFI of an issue | create, transition, respond, review, escalate | five handlers that each write status and ball, repeated escalations | the ball is where the status says, one RFI per issue |
| **Quality findings** (`quality.service.ts`) | finding, corrective action | correct, verify, close, waive, reject | the independence check reads without a lock | who corrects does not verify |
| **Daily logs, weather worker** (`daily-log.service.ts`, `weather-ingestion-worker.ts`, `014`) | log, child rows, two signatures | create, edit, sign, ingest weather | both signatures at once, a worker that does not lock the log | signed twice is Confirmed, Confirmed is frozen |
| **Offline sync** (`offline-sync.service.ts`, `offline-storage-engine.ts`) | client queue, batches, conflicts | enqueue, flush, ingest | lost answers, several tabs, an operation that fails inside one transaction | what leaves the queue has been taken in |
| **BIM, GIS and drone imagery, AI copilot** | models, layers, suggestions | upload, process, review | jobs behind the outbox | - |
| **Realtime** (`realtime/*`) | sockets, rooms, Redis subscription | join, leave, dispatch | subscription races, revoked members | members of a room get its events, others do not |
| **Notifications, SLA monitor** | devices, or nothing | send, scan | repeated sweeps | - |

`PROJECT.json` lists every component with its sources and, under `hazards`, the places where they bite.

## 2. Modules

| module | models | extends |
|---|---|---|
| `Outbox` | the outbox table, its SQL functions and the worker processes | refines `Delivery` |
| `Delivery` | abstract promise: each event delivered once, with all effects, by the one that took it | - |
| `MCOutbox`, `OutboxProofs` | instances; theorems | `Outbox` |
| `ReviewRoute` | the pure rules of a review route | - |
| `DocumentControl` | revisions, routes, comments, publication | `ReviewRoute`, refines `Distribution` |
| `Distribution` | abstract promise: one current revision per context | - |
| `MCDocumentControl` | instances | `DocumentControl` |
| `DocumentProofs` | theorems on publication and on review | `DocumentControl` |
| `FilePipeline` | upload sessions, file jobs, their workers, the object store, the quarantine cleanup | - |
| `MCFilePipeline`, `FileProofs` | an instance; theorems | `FilePipeline` |
| `SigningWorkflow` | the signature sessions and the direct signatures of an acceptance record | - |
| `MCSigningWorkflow`, `SigningProofs` | an instance; theorems | `SigningWorkflow` |
| `Sessions` | login, rotating refresh credentials, revocation and password reset in the API | - |
| `WebSession` | one browser tab in front of them: composes the API client with `Sessions` | `Sessions` |
| `SessionProofs` | theorems on both | `WebSession` |
| `ProjectCommands`, `CommandProofs` | commands on a project under idempotency keys; theorems | - |
| `Rfx` | RFIs, submittals, an issue and its escalation | - |
| `DailyLog` | a daily log, its signatories, the weather worker | - |
| `OfflineSync` | the queue of a browser and the API that takes its batches | - |
| `Dossiers` | the assembly and the sealing of a dossier | - |
| `FieldProofs` | theorems on the last four | `Rfx`, `DailyLog`, `OfflineSync`, `Dossiers` |
| `Findings` | a finding, its correction and its verification | - |
| `MCServices` | one instance of everything from `SigningWorkflow` to `Dossiers` | these |
| `ServicesProofs` | theorems on their composition | `MCServices` and the four proof modules of its services |

### Outbox

State: the columns of `outbox_events` (`status`, `claimedBy`, `attempts`; `available_at` as the set
`due` of events whose time has come, and their order `ahead`), and per process the local state of
`runOnce` (`batch`, `current`, `pc`, `nextHandler`) and of the publisher (`published`). Each SQL
function is one transaction, so one action: `Claim` (`claim_outbox_events`: due Pending or Failed
rows in the order of available_at, skipping nothing but locked rows, at most `ClaimLimit`),
`MarkPublished`, `MarkFailed` (with the schedule of `scheduleOutboxRetry`). Between them a process
awaits handlers (`HandlerResolves`, `HandlerThrows`), loses an answer (`ClaimAnswerLost`,
`MarkPublishedErrs`, `MarkFailedErrs`, each before or after the commit) or dies (`Crash`: memory is
lost, the rows stay). `handled` is a history variable: the handlers that took effect on an event.

`Delivery` is what the outbox promises, without names, attempts, due times, memories or faults: an event
is waiting, taken or delivered; a process that has it in hand lets it have effects, delivers it when it
has had all, gives it back or drops it. `Promise` maps waiting to the 'Pending' and 'Failed' rows, taken
to 'Claimed', delivered to 'Published', hands to `Holding` and effects to `handled`. A row that was
published by a commit whose answer was lost stays in its process's hands for a while, which is why
`Deliver` may keep it there; that nothing can happen to it any more is part of the promise.

### DocumentControl

State: `status` and `version` of each revision, its `route`, `routeStatus` and `decision`s, the
comments (`about`) and their dispositions (`disposed`), the pointer of each context (`current`,
`currentVersion`), and per user the request in progress (`pc`, `view`, `remark`, `old`) with the row
locks it holds. Submit, decide and withdraw start with `SELECT ... FOR UPDATE` and are one step each.
A comment and a disposition read without a lock and insert later (two steps); their insert's foreign
key waits for the locks of a publication. `publish` checks without locks (`RequestPublish`), and
`publish_document_revision` takes three locks one after the other, each a step (`LockRevision`,
`LockDocument`, then the old revision's row in `WritePublish`). `DeadlockAbort` is PostgreSQL's
deadlock detector. `Look` is what the client does before it acts: the versions it then sends are
those it was shown.

Left out: role checks (every user may do everything, which only adds behaviours), audit rows, texts,
reasons, due dates, transmittals, annotations and archive. The idempotency record around each mutation
is in `ProjectCommands`: the two services have the same function.

### FilePipeline

State: `file` and `session` are the status columns of `file_objects` and `upload_sessions`; `job`,
`claimedBy` and `attempts` are the columns of `file_processing_jobs`, a job being a pair of a file and
a type (`UNIQUE (file_id, job_type)`); `object` and `copied` are what lies in the object store under the
quarantine and the available key. `request` is where the `completeUpload` that holds the two row locks
stands: it calls the store inside its transaction, so `CompleteUpload` (locks), `StoreUpload` (the
store's answer), and `UploadCompleted`, `UploadIncomplete`, `DeclarationMismatch` or `UploadFails`
(commit or rollback) are steps of their own, and other writers of the file row wait (`Unlocked`). A
rollback does not take the store's effect back. Per process, `batch`, `current`, `pc` and `verdict` are
the local state of `runOnce` and `process`: read and check (`Validate`, `Inspect`), `CopyObject`, then
the SQL function (`Complete`), or the catch block (`Retry`). `sweep` is the loop of the cleanup.

Abstractions: what a client uploads is one of five `Contents`, told apart by the checks in the code
(size, checksum or signature, scan, and the CHECK constraint that refuses empty files). Checksum and
signature checks are assumed to find what they look for; the scanner either answers truthfully or
not at all. Time is `late` (has `expires_at` passed) and the freedom of `Claim` to take any
claimable jobs. Preview objects follow the copy. Two things are modelled although nothing in
this commit starts them: the cleanup worker, which no bootstrap wires up, and reconciliation jobs,
which the worker handles and nobody inserts (`RequestReconciliation`, external).

The code lets a validation that was in progress turn a 'Purged' or 'Quarantined' file into
'Available': `complete_file_processing` checks the claim of the job only. No document forbids it, so
it is a behaviour of the model and not a finding; `AvailableWasScanned` says what holds nevertheless.

### SigningWorkflow

State: `session` is `signature_sessions.status` by `signing_order` (unique per record), `fits` says
whose role is the one `ORDER_TO_ROLE` has for the order, `late` whose `expires_at` has passed; `record`
and `signedBy` are the status and the `*_signed_by` columns of the acceptance record; `request` is the
transaction that holds a session's row. `signSession` locks and checks (`StartSigning`), awaits the
provider and the time stamp, and writes (`CompleteSigning`); `rejectSession` locks its session
(`StartRejection`), and its update of the later sessions waits for their locks (`CompleteRejection`).
`RequestFails` is any rollback, also the one by which PostgreSQL breaks a deadlock of two
rejections. `InitSessions` may be called again for orders that do not exist yet, which the code
does not refuse. `SignAcceptance` is `QualityService.signAcceptance*`, which signs the same record by
its status alone. Who the signer is, the provider's transaction and the PDF are left out: the
identity check is one comparison with a column that never changes. No code sets a session
'expired'; its time only closes the door on `StartSigning`.

### Sessions and WebSession

State: the status columns of `auth_sessions` and `refresh_token_families` (`sess`, `family`), which of
their expiries has passed, the credentials of a family numbered in the order of issue with those not yet
consumed (`issued`, `unused`), the credential that came with the stored CSRF secret (`csrf`), the user's
versions, the reset credential, and per handler what its lookup saw (`calls`). `refresh` looks a
credential up without a lock (`LookupRefresh`) and acts on what it saw: `Rotate`, `DetectReuse` or
`RefuseRefresh`. A rotation is one step, since it locks the family before it reads the user and a
revocation locks the families last. A revocation is two (`StartRevocation`, `CommitRevocation`): its
statements have a snapshot each, and a login can commit in between; the rows of the first are locked
until the commit (`Locked`). `RevokeSession` is logout of one session. `CallFails` is a deadlock or a
lost connection. `ended` is a history variable. Password hashes and the rate limiter are left out.

`WebSession` puts `VinopsApiClient` in front: `mem` is its `session`, `cookie` what the browser keeps,
`flight` the call behind `refreshInFlight`, `entry` and `exit` those behind a login and a sign-out, `wire`
the answers on their way, `page` where each request is (sent, refused, waiting for the refresh; `again`
is the one repetition). Answers can be lost; a cookie of a lost answer may have been stored
(`RefreshFails`, `LoginFails`), and the call may still be running. Two tabs that share the cookie are
outside of this model: they would present a credential twice, and the API would end their family.

### ProjectCommands

An attempt is a request that reached the API: `Begin` has inserted the key (waiting for another
transaction that holds it, `Held`) and done the reads without a lock, `Execute` locks, checks, writes and
commits, `RollBack` is a refusal or failure, which takes the key with it, and `Replay` serves a stored
answer or refuses another payload. `journal` is `idempotency_keys` in commit order. The commands are
the bodies of `PlatformService`: project transitions, context entities, CSV preview and commit,
invitations (create, revoke, accept, which has no key), memberships, break-glass. Versioned rows compare
`expected_version` under the row lock. The project's status is read without one (`saw`), so a command may
commit after a suspension that it has not seen; no document says otherwise. Not among the commands are
`createDelegation` (section 6) and what only reads (`listMembers`, `projectContext`).

### Rfx, DailyLog, OfflineSync, Dossiers, Findings

`Rfx`: each handler locks its row, so each is a step; `RespondRfi` and the checker's `ReviewSubmittal`
set the status without asking the state machine, as the code does. `DailyLog`: an API command locks the
row (`Lock`) and writes (`CommitEdit`, `CommitSign`) as two steps; the weather worker lists, passes a
trigger, writes and commits as four. `trusted` says whether the worker's system user may see the project,
which with the shipped settings it may not. `OfflineSync`: an engine's call up to its await and from
its answer on are steps; a batch is a transaction; a batch that the client gave up is an orphan and may
still be executed; other users log the same day or edit a log that was synchronised. What a clock
decides (`resolveOfflineConflict`) is a free choice. The operations are creations and updates of daily logs
with a fixed `base_version`: 'delete' and the other entity types, which `ingestBatch` records as applied
and does nothing about, are left out. `Dossiers`: `StartSeal` locks the dossier, reads
its items and links them, `CompleteSeal` writes after the time stamp. `Findings`: `StartTransition` is the
check, `CommitTransition` the write of `transitionFinding`.

### MCServices

These services meet only in the database and share no rows, so their product has no interleaving that one
of them does not have alone. `MCServices` therefore runs them in one model, in which a behaviour picks
an `area` and stays in it: each area is explored completely, and the invariants of all are checked. `ServicesProofs` proves that this loses nothing:
the invariants hold together, whichever area a behaviour is in.

## 3. Runs

| run | instance | shows |
|---|---|---|
| `outbox_safety` | 2 processes of one name, 2 events, 2 handlers, `MaxAttempts` 2, 2 faults | types, no concurrent handling, Published is final, no redelivery in a process, refinement of `Delivery` (so a row is Published only after every handler, by the process that claimed it) |
| `outbox_live` | 3 events, one poisoned, 1 handler, `ClaimLimit` 2, `MaxAttempts` 2 | with fair pollers every healthy event is published |
| `outbox_attempts` | 1 event, `MaxAttempts` 2 | **violation**: an exhausted event is attempted again |
| `outbox_crash` | 1 event, 1 fault | **violation**: a claim survives its process for ever |
| `doc_review` | 1 revision, 3 users, every quorum and sequential policy over 2 reviewers (also thresholds that can both be missed), 1 comment | types and locks, quorum, order, an open review can be decided or, when all have decided under such thresholds, withdrawn, final decisions, no action on an unseen state, comments settled |
| `doc_publish` | 2 revisions, 2 contexts, 3 users | published = current, a publication replaces what was seen, refinement of `Distribution` |
| `doc_live` | 2 revisions, 1 context, 3 users | every publication ends, although two may deadlock |
| `doc_comment` | 1 revision, 1 comment, the first of two reviewers decides | **violation**: an open mandatory comment on a published revision |
| `files` | 1 file with both its jobs, 2 processes of one name, the cleanup, `MaxAttempts` 2, 2 faults | types, available files were scanned and stay, no file under validation without a job, bounded attempts, every upload is decided and every job completes or fails, also that of an empty object |
| `signing_stop` | 1 record, orders 1 and 2 | **violation**: a rejected record is signed |
| `services` | signing with orders 1 to 4; 2 calls, 2 families and 3 credentials, with and without a tab of 2 requests; 2 attempts and 2 keys over three menus of commands; 2 items; 2 commands on a log; 2 tabs, logs and days; 2 sealers, papers and 3 places | types; signatures in order and kept, statuses have their signatures; credentials form a chain, revocations last, a tab never reuses and is current; a key executes once, answers are the execution's, a version wins once; the ball follows the status, an issue is escalated once; twice signed is Confirmed and frozen, but for the weather pass of a trusted worker that was let through before; what left the queue was applied; a seal covers the items |
| `finding_race` | 1 High finding, 2 officers | **violation**: an officer verifies his own correction |

**Bounds.** Two processes and two events are enough for every pairwise race of claims, and one more
event (`outbox_live`) for a poisoned one in front of two others. `MaxFaults` 2 lets a process fail and
its successor fail again. `AttemptCap` saturates the attempt counter one above `MaxAttempts`, the only
comparison the code makes (`outbox_live` stops counting at `MaxAttempts`, which is as far as the
schedule looks). `MaxAttempts` 2 lets the first failure schedule a retry and the second one exhaust it. Two revisions are enough to exchange the current one, two contexts to move
a revision between them, three users for a maker, a decider and somebody who interferes. Versions of
documents need no bound: they grow with state changes, of which there are finitely many.
`files` has one file because files share nothing but a worker's batch, and its two jobs already meet
in one batch or in two processes; the proofs hold for any number. The signing area of `services` has
the three steps a record knows and a fourth order, which the API accepts and no role may sign.

The bounds of `services` (about 1.4 million distinct states) are chosen area by area. Sessions:
`MaxCredentials` 3 over two families is a rotation whose answer is lost and one more, or one each;
`MaxVersion` 1 is one suspension or reset. Commands: two attempts under two keys give a retry beside
its first request and a second client; `MaxCommits` 3 and `MaxRowVersion` 2 let a row move, move on and be
asked again for its first version. `Menus` names the operations that share a row, so that a behaviour
spends its three commits on them. Offline: two queued operations are a log and its edit or two logs of one
day, two orphans the late batches of both tabs. Dossiers: three places are a first request, a second one
and one that collides. `MaxLate` 1 lets one signature session expire. The names of the instances are
interchangeable (`Alike`), and the run has no liveness property, so the symmetry is sound. The
proofs hold without these bounds, or for every value of them.

**Deadlock.** The outbox runs set `CHECK_DEADLOCK FALSE`: when everything is published the pollers
find nothing, which is an idle loop in the code. The same holds of `files` once
every file and job is decided, and of `signing_stop`, `services` and `finding_race`, where a record
that is completed, a row at its last version or a finding nobody touches is left alone. The document
runs check it.

**Fairness.** `createOutboxPoller` re-arms its timer in a `finally` block, so each process keeps
polling (`WF` of `RunOnce`); retries fall due as time passes (`WF`); a handler that is started on an
event again and again resolves sometimes, which is what "not poisoned" means (`SF`). For publications:
PostgreSQL queues the waiters of a row lock, so a lock that is released again and again is granted,
and a statement that waits for nothing finishes (`SF` of `Publication`). No fairness is assumed of
users. For files: the poller re-arms itself like that of the outbox (`WF` of `Work`), a request
ends (`WF` of `Upload`), and a worker that waits for the file's row gets it although other
requests may take it again and again (`SF` of `Complete` and `CompleteRefused`). `UploadSettles` speaks
of both kinds of job: also the reconciliation of an empty object, which the CHECK on its size lets no
attempt record, ends as 'Failed'. It is stated for behaviours without faults: like the outbox, file jobs are claimed without a lease, so
one crash may leave a job claimed for ever (`outbox_crash` shows it for the outbox).

**Starvation.** `outbox_live` needs fewer poisoned events than `ClaimLimit`: an exhausted event keeps
its old `available_at`, so it is at the head of every later claim. With `ClaimLimit` poisoned events the
outbox would stop for good.

## 4. What the runs found

1. `outbox_attempts`: "stops retrying after the bounded maximum attempt count"
   (`apps/worker/test/outbox.test.ts:39`) holds of `scheduleOutboxRetry` and not of the outbox:
   `claim_outbox_events` takes 'Failed' rows.
2. `outbox_crash`: "recovers from worker crash midway without losing pending outbox events"
   (`tests/worker-fault-injection.spec.ts:104`) does not hold of rows that were already claimed.
3. `doc_comment`: "All mandatory review comments require a disposition before publication."
   (`packages/domain/src/document-control.ts:218`) can be evaded by a comment whose status check ran
   before the last decision; afterwards the comment can no longer be disposed.
4. `signing_stop`: "Nếu bất kỳ bên nào từ chối (Reject), luồng ký dừng lập tức" (if any party rejects,
   the signing stops at once; `docs/adr/ADR-015-LEGAL-PKI-REMOTE-SIGNING.md:32`) does not hold when a
   later party rejects first: an earlier one still signs, and the record is 'Contractor Signed' again.

5. `finding_race`: "Performer cannot self-verify/close High or Critical findings."
   (`packages/domain/src/quality/quality-standards.ts:99`) is checked against a correction that is read
   without a lock: an officer whose correction commits between the check and the write of his own closing
   has verified himself.

Noticed while modelling, and part of the models where these reach. No document or test states the
opposite plainly enough for a finding:

- Sessions: two tabs share the cookie but not the refresh in flight, so honest use of both can end a family
  for reuse. Accepting an invitation as a member whose membership is 'Ended' answers 'Active' and leaves it
  'Ended'. The update of an invitation to 'Expired' is rolled back by the RAISE that follows it.
- Projects: `complete_archive` is always refused, and no command writes the plans that `start_archive` and
  `restore` ask for (`planned`).
- RFIs: `createRfiResponse` and the checker's review do not ask the state machines, so a closed RFI is
  reopened by an answer and a closed submittal by a review (`rfx.service.ts:720`; `assertRfiMutable` has no
  caller). Without a responding party, `createRfi` leaves the ball with the requester and `escalateToRfi`
  with nobody. None of these handlers takes an idempotency key.
- Findings: a second correction always fails, because `attempt_no` is always 1 and unique; 'waive' has no
  independence check.
- Daily logs: if the worker's system user were a member of the project, weather could be written after
  the second signature, because the trigger reads the status without a lock. `ConfirmedIsFrozen` therefore
  says two things. With the shipped settings (`~trusted`) a confirmed log does not change at all. A trusted
  worker may still commit the pass that its trigger had let through before that signature (`PastTrigger`),
  no later one, and never touches the status or the signatures.
- Offline: the client posts to `offline-sync/batches` and the controller serves `sync/batches`, and the
  client's ids are not UUIDs, so the shipped page does not get through; an update is recorded and answered
  as applied and changes nothing; one operation that aborts its transaction blocks the whole queue, as
  every retry sends it again; two tabs that change the queue at the same moment could overwrite each
  other (the model takes an access of localStorage to be atomic).
- Dossiers: sealing does not ask for the status, so an empty dossier can be sealed and a sealed one
  again (with the same hash). The links are hashed over concatenated fields without a separator.
- Documents: `setDocumentArchived` sets a column that only the list of documents filters by.

A plain 'Approved' revision is exempt from the disposition check in the code
(`document-control.ts:215`), so the properties on comments are stated for 'Approved with Comments'.

## 5. Proofs

All theorems are `Spec => ...` for every value of the constants that satisfies the named assumptions
`OutboxAssumption`, `DocumentAssumption`, `FileAssumption`, `SigningAssumption`, `SessionBounds`,
`CallsAreNamed` and `RfxItems` (NULL is no row, bounds are numbers, thresholds are positive, routes are what
`evaluateReviewRoute` accepts; sets of events, processes, users, revisions, calls, requests, attempts, keys,
items and tabs need not be finite). Eight modules hold them: one inductive invariant per component, and one
of the services together.

- `OutboxProofs`. `NoConcurrentHandling` is not inductive: nothing in it keeps another process from
  claiming the row in a process's hands. The inductive invariant `IInv` adds that every row of a batch,
  and the one being handled or marked, is Claimed under the process's name; that in the catch block it
  may also be Published already (the commit whose answer was lost); that the publisher remembers only
  events every handler saw; and how far the handlers of the current event have got. A held row is then
  never claimable, and no mark of one process can touch a row in the hands of another, whatever their
  names. `OutboxInductive` proves it by one lemma per action; the safety properties follow from it (with
  `PublishedWasHandled`, a conjunct of `IInv`), and `PublishedIsFinal` from it and the shape of the steps.
  `OutboxImplementsDelivery` is the refinement: every action is one of `Delivery`'s or a stutter. Its
  steps rest on lemmas that say what a change of one row means to the four sets (`RowsTaken`,
  `RowServed`, `RowReturned`, `EventLetGo`), and on `IInv` for the guards: that what is marked is taken,
  in hand and has all its effects. `OutboxClaimedIsHeld` is the other side of `outbox_crash`: without a fault every claimed row
  is in somebody's hands (`CaughtIsOwned` is its strengthening), so crashes and lost answers are the
  only source of rows that are left behind.
- `DocumentProofs`, publication. `PInv` joins the types (with "a request holds exactly the locks of its
  step"), `PublishedIsCurrent`, and `WriterIsReady`: the conditions checked by `CheckPublish` still hold when
  `WritePublish` runs, because every action that could disturb them needs one of the two locks. From it
  follow `PublishedIsCurrent`, `ReplacesWhatWasSeen`, `CommentsSettledAtPublication` and the refinement:
  `WritePublish` is `Distribution!Publish` of one context, all other actions are stuttering.
  `DocumentSomebodyMoves` is the safe half of `PublicationEnds`, for any number of publications: while
  some are under way, one has what it waits for, or is the victim the deadlock detector takes. Who holds a
  revision waits for the document or owns it; the owner of the document waits for one revision at most,
  and if somebody holds that one, he waits for the owner and is the victim.
- `DocumentProofs`, review. `ReviewFacts` relates status, route and decisions; `PublishedWasReviewed` and
  `OpenReviewIsActionable` follow. The second needs that a pending set of a finite route that is not
  empty has a member with the least sequence, and that a decisive route without an outcome has a
  pending reviewer: both are counting lemmas on finite sets. Under other thresholds everybody may have
  decided; then it needs that a revision under review is current nowhere, so that it can be withdrawn. `DecidedInOrder` is inductive together with
  these facts, since only the reviewer with the least open sequence is actionable, and
  `DecisionsAreFinal` is one lemma per action. `ActsOnSeenStatus` needs to know that views are views of
  the past (`ViewsArePast`), that a version grows with every change of status, and that a writer's row
  lock keeps the version it has compared.
- `FileProofs`. `AvailableWasScanned` says nothing of what a process is about to write. The inductive
  invariant adds that a process that copies has read a clean object, and one that promotes has made the
  copy (`VerdictIsFounded`); that whatever was copied was clean (`CopiedWasClean`), which holds because
  an object is assembled once and afterwards only deleted; that a request that holds the locks works on an
  open session, that a session with a validation job is completed, so no request can return an available
  file to validation, and that an available file's job is completed (`SessionFollowsFile`); and that a
  claimable job has attempts left (`AttemptsLeft`). None of these properties needs to know whose claim a
  job is under: `complete_file_processing` checks it when it writes. `AvailableIsFinal` follows from the same
  invariant by one lemma per kind of step.
  `FileOneWorkerPerJob` does need to know. Its invariant `HInv` says that what a process has in hand is
  claimed under its name (`HoldsItsClaims`), or was completed by a commit whose answer it missed, and is in no other hands: a
  shared name is harmless because a claimed job is not claimable. `FileClaimedIsHeld` says, as for the outbox, that only a fault
  leaves a job claimed that nobody works on.
- `SigningProofs`. `SignedInOrder` and `SignatureIsKept` carry each other: the previous session is read
  without a lock, which is sound because a signed session stays signed, and the sweep of a rejection
  spares signed sessions because those come before the one that is rejected. The invariant adds that
  a signature in progress is still in turn and that a signed session has left its column
  (`SigningIsFounded`), from which the two invariants on the record follow for both services.
  `SigningRejectionInTurnStops` is what is left of the promise that `signing_stop` refutes: if all parties
  before the one that rejects had signed, the record is Rejected for good, and nobody signs any more,
  remotely or directly.
- `SessionProofs`. `SessionInv` adds to `CredentialChain` and `RevocationLasts` that the calls under way
  name families that exist (`CallsAreFounded`) and that a family, its session and its first credential
  come together (`OpenedTogether`); a rotation cannot revive a family because it leaves the status alone,
  and a credential that only one rotation consumes makes the chain. `SessionsNothingComesBack` says both
  of every step. `WebInv` adds what makes a tab safe:
  each family's newest credential is in one place only, in the cookie, in a refresh under way
  (`RefreshesAreNew`) or in an answer on its way (`AnswersAreHeld`); a lost answer takes it out of the
  world rather than giving it to two. `WebImplementsSessions` ties the two modules together: a tab in
  front of the API is a client of the API, each of its steps one of `Sessions` or a stutter, so that
  all that is proved of the API for arbitrary clients holds with the tab. It needs that a family never has more
  credentials than the bound admits (`CredentialsBounded`), so that what a tab presents is something any
  client may present.
- `CommandProofs`. The keys that attempts hold and those of the journal are disjoint (`HeldApart`,
  `HeldIsNew`), which gives one execution per key; answers are taken from the journal, which is never
  rewritten; and the versions in the journal stay below the row's (`VersionsPassed`), with the last
  transition's answer being the row itself (`LastMove`), which gives `VersionWinsOnce`. `RowsInv` adds the types
  and the history of the emergency access (`GlassFollows`): its status says which of its columns are
  set, and by whom. `CommandsTwoForBreakGlass` follows: who has a session has asked for it, and somebody
  else has approved.
- `FieldProofs`. `RfxInv` is the conjunction of the two properties with the types. `DailyInv` adds that
  one command at a time holds the row (`OneEditor`) and that what it read still stands (`ReadsHold`), so that
  the second of two signatures sees the first, and no command changes a confirmed log; what the weather
  worker may do follows from its steps (`KeepsConfirmed`). `OfflineInv` adds that what an engine was told was applied
  is recorded, and that a recorded creation has its log. `DossierInv` adds that whoever awaits a time
  stamp holds the chain of the items that are there; a second seal therefore writes what is there already,
  and `DossierSealIsFinal` follows.
- `ServicesProofs`. The composition `MCServices` that the run `services` checks. `ServicesInv` puts the
  invariants of all areas together; `AreasMove` shows that a step of the composition is a step or a
  stutter of every service, so `ServicesStep` needs no lemma on a service that the service's own proof
  does not have. `Sessions` is in it twice, with a tab and without one: `TabIsAClient` (the lemma under
  `WebImplementsSessions`) makes the first case an instance of the second. Types, all invariants of the
  run and its action properties follow for the composed specification.

Some of the theorems state properties that no run lists (`OneWorkerPerJob`, both `ClaimedIsHeld`,
`SomebodyMoves`, `RejectionInTurnStops`, `TwoForBreakGlass`, `NothingComesBack`, `SealIsFinal`): they add
to the properties beside them, and TLC finds no violation of any of them on the instance of the
module's run either.

Only model-checked: the liveness properties (`EveryEventPublished`, `PublicationEnds`, `UploadSettles`),
because fairness and ENABLED are beyond the prover. What of them is safety is proved: that no publication
waits in a cycle, and that no event or job is lost without a fault. The violations are counterexamples
and need no proof. `Findings` has no theorem, because its one property is violated.

## 6. Not modelled, and why

- **AI copilot, GIS**: `submitVisionAnalysis` (`ai-copilot.service.ts:107`) and `registerDroneOrthophoto`
  (`gis.service.ts:508`) insert an outbox event with status 'pending', which the CHECK of
  `001_platform_foundation.sql:525` refuses: both always roll back, and nothing behind them can run. Their
  other operations are single statements, model calls, geometry and floating-point projections.
- **BIM**: the handler is started without object storage (`bootstrap.ts:79`), selects a column
  `storage_key` that does not exist, and swallows its errors; each model has one revision. What is left is
  parsing. `createModel` inserts its file as 'Available' without a validation; `FilePipeline` speaks of
  files that are uploaded.
- **Realtime**: its parts are not connected. The handshake is verified without a database and yields no
  projects, `attachHttpServer` has no caller, `removeUserFromProject` and the broadcasts are called by tests
  only, `RealtimeEventPublisher` is not started.
- **Notifications and SLA monitor**: upserts of single rows, and a read-only sweep that looks for statuses
  RFIs do not have and keeps no record of what it reported.
- **Cryptography**: certificates, CMS, PDF signatures, password hashes. In the models a signature or a time
  stamp is an await that succeeds or fails, and a hash chain is the sequence that is hashed.
- **Single inserts and updates beside the modelled machines**: transmittals (which read revisions without
  locks, harmless because 'Published' and 'Superseded' are never left), annotations, archive, file access
  grants, inspections and check lists, issue comments and attachments, delegations and organisations.
- **Row-level security and roles**: the models let everybody do everything, which only adds behaviours;
  where a property depends on who may act, the rule is in the model (maker and decider, requester and
  approver, performer and verifier, the weather worker's user).
- **`SealDossierPackageJob`, `as-built-dossier-bundler.ts`**: the first has no handler registered and
  selects columns that do not exist, the second has no caller.
- **Web views, generated types, copies**: user interface, `contracts/src/generated`, and the tree under
  `evidence/`, which repeats parts of the source.

## 7. Plan

Done: `Outbox`, `ReviewRoute`, `DocumentControl` with `Distribution`, `FilePipeline`, `SigningWorkflow`,
`Sessions`, `WebSession`, `ProjectCommands`, `Rfx`, `DailyLog`, `OfflineSync`, `Dossiers` and `Findings`, each
with its run, and all of them except `Findings`, whose one property is violated, with proofs; the refinements
of `Delivery`, `Distribution` and, by the tab, `Sessions`; the composition of the services.

Left: abstract specifications of the file pipeline (an object is admitted once, after its scan) and of
`ProjectCommands` (a key has one effect and one answer), refined as `Delivery` is; two tabs in `WebSession`,
once the client coordinates them; transmittals and annotations, if their operations come to depend on each other;
BIM, AI and realtime, once their parts run.
