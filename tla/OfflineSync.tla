------------------------------ MODULE OfflineSync ------------------------------
(***************************************************************************)
(* The offline queue of a browser (OfflineStorageEngine) and the API that  *)
(* takes its batches in (OfflineSyncService.ingestBatch).  The queue is in *)
(* the localStorage that all tabs share; each tab has an engine of its own *)
(* with a flag isSyncing, so two tabs may send the same operations.  A     *)
(* batch that the client has given up may still be executed later.         *)
(*                                                                         *)
(* A call of the engine up to its await, and from its answer on, is one    *)
(* step.  A batch is one transaction and one step: rows are only inserted, *)
(* under unique keys, and a log is never deleted.                          *)
(***************************************************************************)
EXTENDS Naturals, FiniteSets

CONSTANTS Tabs,
          Logs, Days,    \* bounds: ids and dates of daily logs
          MaxQueued,     \* bound: operations ever queued
          MaxOrphans     \* bound: batches that may still be executed

VARIABLES queue,     \* localStorage, vinops_offline_queue
          enqueued,  \* all operations that were ever queued
          engine,    \* flushSyncQueue in each tab, at its await or at rest
          orphans,   \* batches the client no longer waits for
          recorded,  \* operations with a row 'applied' in sync_operations
          diary      \* daily_logs: day and version of each id

offlineVars == <<queue, enqueued, engine, orphans, recorded, diary>>

NoDay == "none"
Operations == [command : {"create", "update"}, log : Logs, day : Days]
NotSyncing == [at |-> "Rest", batch |-> {}, applied |-> {}]
NoRow == [day |-> NoDay, version |-> 0]

OfflineInit ==
    /\ queue = {} /\ enqueued = {}
    /\ engine = [t \in Tabs |-> NotSyncing]
    /\ orphans = {}
    /\ recorded = {}
    /\ diary = [l \in Logs |-> NoRow]

-----------------------------------------------------------------------------
\* enqueueOperation: an id is made up for one new log.
EnqueueOperation(o) ==
    /\ Cardinality(enqueued) < MaxQueued
    /\ \A p \in enqueued : p.log = o.log => p.command # o.command
    /\ queue' = queue \cup {o}
    /\ enqueued' = enqueued \cup {o}
    /\ UNCHANGED <<engine, orphans, recorded, diary>>

\* flushSyncQueue, up to its await: everything that is queued now.
FlushSyncQueue(t) ==
    /\ engine[t] = NotSyncing /\ queue # {}
    /\ engine' = [engine EXCEPT ![t] = [at |-> "Sent", batch |-> queue, applied |-> {}]]
    /\ UNCHANGED <<queue, enqueued, orphans, recorded, diary>>

-----------------------------------------------------------------------------
HasRow(l) == diary[l] # NoRow

\* resolveOfflineConflict: an unknown log or the expected version applies, a
\* version that has moved on is a matter of two clocks.
AppliesClean(o) == ~HasRow(o.log) \/ diary[o.log].version = 1
Resolutions(batch) ==
    {applied \in SUBSET batch : {o \in batch : AppliesClean(o)} \subseteq applied}

\* INSERT ... ON CONFLICT (id) DO NOTHING
Inserted(applied) == {o \in applied : o.command = "create" /\ ~HasRow(o.log)}

\* UNIQUE (project_id, contract_package_id, log_date): the error is caught, but
\* the transaction is lost, with the operations that were applied before it.
Aborts(applied) ==
    \E o \in Inserted(applied) :
        \/ \E l \in Logs : diary[l].day = o.day
        \/ \E p \in Inserted(applied) : p # o /\ p.day = o.day

\* ingestBatch, when it commits.  An update is recorded and answered as applied,
\* and changes nothing else.
Ingest(batch, applied) ==
    /\ applied \in Resolutions(batch)
    /\ ~Aborts(applied)
    /\ diary' = [l \in Logs |->
                   IF \E o \in Inserted(applied) : o.log = l
                   THEN [day |-> (CHOOSE o \in Inserted(applied) : o.log = l).day, version |-> 1]
                   ELSE diary[l]]
    /\ recorded' = recorded \cup applied

IngestBatch(t) ==
    /\ engine[t].at = "Sent"
    /\ \E applied \in Resolutions(engine[t].batch) :
        /\ Ingest(engine[t].batch, applied)
        /\ engine' = [engine EXCEPT ![t].at = "Done", ![t].applied = applied]
    /\ UNCHANGED <<queue, enqueued, orphans>>

IngestOrphan(batch) ==
    /\ batch \in orphans
    /\ \E applied \in Resolutions(batch) : Ingest(batch, applied)
    /\ orphans' = orphans \ {batch}
    /\ UNCHANGED <<queue, enqueued, engine>>

-----------------------------------------------------------------------------
\* flushSyncQueue, from the answer on: removeOperations reads the queue again.
Removable_Batch(e) == e.batch
Removable(e) == e.applied

BatchAnswered(t) ==
    /\ engine[t].at = "Done"
    /\ queue' = queue \ Removable(engine[t])
    /\ engine' = [engine EXCEPT ![t] = NotSyncing]
    /\ UNCHANGED <<enqueued, orphans, recorded, diary>>

\* An error, or no answer: nothing is removed.  The batch may be under way.
BatchFails(t) ==
    /\ engine[t].at # "Rest"
    /\ orphans' \in {orphans} \cup
                    IF engine[t].at = "Sent" /\ Cardinality(orphans) < MaxOrphans
                    THEN {orphans \cup {engine[t].batch}} ELSE {}
    /\ engine' = [engine EXCEPT ![t] = NotSyncing]
    /\ UNCHANGED <<queue, enqueued, recorded, diary>>

\* Somebody else's log of a day, and an edit of a log that was synchronised.
LogOfOthers(l, day) ==
    /\ ~HasRow(l) /\ \A o \in enqueued : o.log # l
    /\ \A m \in Logs : diary[m].day # day
    /\ diary' = [diary EXCEPT ![l] = [day |-> day, version |-> 1]]
    /\ UNCHANGED <<queue, enqueued, engine, orphans, recorded>>

EditLog(l) ==
    /\ HasRow(l) /\ diary[l].version = 1   \* bound: one edit
    /\ diary' = [diary EXCEPT ![l].version = 2]
    /\ UNCHANGED <<queue, enqueued, engine, orphans, recorded>>

OfflineNext ==
    \/ \E o \in Operations : EnqueueOperation(o)
    \/ \E t \in Tabs : FlushSyncQueue(t) \/ IngestBatch(t) \/ BatchAnswered(t) \/ BatchFails(t)
    \/ \E batch \in orphans : IngestOrphan(batch)
    \/ \E l \in Logs : EditLog(l) \/ \E day \in Days : LogOfOthers(l, day)

OfflineSpec == OfflineInit /\ [][OfflineNext]_offlineVars

-----------------------------------------------------------------------------
\* The types of the queue, of the engines and of the tables.
OfflineTypeOK ==
    /\ queue \subseteq enqueued /\ enqueued \subseteq Operations
    /\ recorded \subseteq enqueued
    /\ engine \in [Tabs -> [at : {"Rest", "Sent", "Done"}, batch : SUBSET Operations,
                            applied : SUBSET Operations]]
    /\ orphans \subseteq SUBSET Operations
    /\ diary \in [Logs -> {NoRow} \cup [day : Days, version : {1, 2}]]

\* An operation leaves the queue only once it has been taken in (flushSyncQueue,
\* ingestBatch): whatever answers are lost, operations of its batch fail, and
\* other tabs and late batches do, its record is committed, and so is the log
\* that it was to create.
RemovedIsApplied ==
    \A o \in enqueued \ queue :
        o \in recorded /\ (o.command = "create" => HasRow(o.log))
=============================================================================
