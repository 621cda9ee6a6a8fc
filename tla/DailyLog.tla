-------------------------------- MODULE DailyLog --------------------------------
(***************************************************************************)
(* One daily log of a site: its editors and its two signatories in the API *)
(* (DailyLogService), the weather worker, and the triggers of migration    *)
(* 014 that freeze a log once it is Confirmed.                             *)
(*                                                                         *)
(* Each API command locks the log's row and keeps it to its commit, so it  *)
(* is a step that locks and reads and a step that writes.  The worker does *)
(* not lock the row: it lists the open logs in one transaction, and in     *)
(* another one writes the log's weather, where a trigger reads the log's   *)
(* status again.                                                           *)
(***************************************************************************)
EXTENDS Naturals

CONSTANT LogCommands   \* bound: API commands under way at once

VARIABLES log,      \* the row of daily_logs, and what the triggers freeze
          command,  \* what each command does and has read
          crawl,    \* how far the weather worker is
          trusted   \* the worker's system user is a member of the project

dailyVars == <<log, command, crawl, trusted>>

Signatories == {"manager", "supervisor"}
NoLog == [status |-> "None", content |-> 0, signed |-> {}]
NoCommand == [op |-> "Idle", saw |-> NoLog]

DailyInit ==
    /\ log = NoLog
    /\ command = [c \in LogCommands |-> NoCommand]
    /\ crawl = "Rest"
    /\ trusted \in BOOLEAN

-----------------------------------------------------------------------------
\* createDailyLog, or a synchronised one.  One log per package and date.
CreateDailyLog ==
    /\ log.status = "None"
    /\ log' = [log EXCEPT !.status = "Draft"]
    /\ UNCHANGED <<command, crawl, trusted>>

\* SELECT ... FOR UPDATE waits for another command, and for the foreign key
\* check of a weather row that the worker has inserted and not yet committed.
RowIsFree_Always == TRUE
RowIsFree == (\A c \in LogCommands : command[c] = NoCommand) /\ crawl # "Inserted"

\* assertDailyLogMutable
MayChange(status) == status # "Confirmed"

Lock(c, op) ==
    /\ command[c] = NoCommand /\ log.status # "None"
    /\ RowIsFree
    /\ MayChange(log.status)
    /\ command' = [command EXCEPT ![c] = [op |-> op, saw |-> log]]
    /\ UNCHANGED <<log, crawl, trusted>>

Other(signatory) == Signatories \ {signatory}
StatusSigned(saw, signatory) ==
    IF Other(signatory) \subseteq saw.signed THEN "Confirmed" ELSE "Submitted"

\* A change of the content is a change of its value, whichever it is.
Changed(row) == [row EXCEPT !.content = 1 - @]

\* updateDailyLog, saveManpower, saveEquipment, saveWeather, crawlWeatherByGps.
CommitEdit(c) ==
    /\ command[c].op = "edit"
    /\ log' = Changed(log)
    /\ command' = [command EXCEPT ![c] = NoCommand]
    /\ UNCHANGED <<crawl, trusted>>

\* signSiteManager, signSupervisor: the status comes from what was read.
CommitSign(c) ==
    /\ command[c].op \in Signatories
    /\ log' = [log EXCEPT !.signed = @ \cup {command[c].op},
                          !.status = StatusSigned(command[c].saw, command[c].op)]
    /\ command' = [command EXCEPT ![c] = NoCommand]
    /\ UNCHANGED <<crawl, trusted>>

FailCommand(c) ==
    /\ command[c] # NoCommand
    /\ command' = [command EXCEPT ![c] = NoCommand]
    /\ UNCHANGED <<log, crawl, trusted>>

-----------------------------------------------------------------------------
\* WeatherIngestionWorker.runOnce.  Row level security shows the worker the
\* logs of projects its system user is a member of, and no others.
ListOpenLogs ==
    /\ crawl = "Rest" /\ trusted
    /\ log.status \in {"Draft", "Submitted"}
    /\ crawl' = "Listed"
    /\ UNCHANGED <<log, command, trusted>>

\* prevent_child_log_mutation_when_frozen, of the first weather row: it reads the
\* log's status without a lock.
ChildMayChange_Always(status) == TRUE
ChildMayChange(status) == status # "Confirmed"

TriggerPasses ==
    /\ crawl = "Listed"
    /\ ChildMayChange(log.status)
    /\ crawl' = "Passed"
    /\ UNCHANGED <<log, command, trusted>>

TriggerRaises ==
    /\ crawl = "Listed" /\ ~ChildMayChange(log.status)
    /\ crawl' = "Rest"
    /\ UNCHANGED <<log, command, trusted>>

\* A row that is new is checked against the log: the check waits for a command
\* that holds the log's row.  A row that exists is updated without that.
InsertWeather ==
    /\ crawl = "Passed"
    /\ \A c \in LogCommands : command[c] = NoCommand
    /\ crawl' = "Inserted"
    /\ UNCHANGED <<log, command, trusted>>

UpdateWeather ==
    /\ crawl = "Passed"
    /\ crawl' = "Updated"
    /\ UNCHANGED <<log, command, trusted>>

CommitWeather ==
    /\ crawl \in {"Inserted", "Updated"}
    /\ log' = Changed(log)
    /\ crawl' = "Rest"
    /\ UNCHANGED <<command, trusted>>

\* The pass ends with an error; the poller starts another one later.
PassFails ==
    /\ crawl # "Rest"
    /\ crawl' = "Rest"
    /\ UNCHANGED <<log, command, trusted>>

DailyNext ==
    \/ CreateDailyLog
    \/ \E c \in LogCommands :
        \/ \E op \in {"edit"} \cup Signatories : Lock(c, op)
        \/ CommitEdit(c) \/ CommitSign(c) \/ FailCommand(c)
    \/ ListOpenLogs \/ TriggerPasses \/ TriggerRaises
    \/ InsertWeather \/ UpdateWeather \/ CommitWeather \/ PassFails

DailySpec == DailyInit /\ [][DailyNext]_dailyVars

-----------------------------------------------------------------------------
LogRows == [status : {"None", "Draft", "Submitted", "Confirmed"}, content : {0, 1},
            signed : SUBSET Signatories]

\* The row's columns, and who waits for what.
DailyTypeOK ==
    /\ log \in LogRows
    /\ command \in [LogCommands -> [op : {"Idle", "edit"} \cup Signatories, saw : LogRows]]
    /\ crawl \in {"Rest", "Listed", "Passed", "Inserted", "Updated"}
    /\ trusted \in BOOLEAN

\* A log is Confirmed exactly when both have signed (assertDailyLogConfirmation),
\* though both may sign at the same moment, each deciding from what it has read.
SignedIsConfirmed == log.signed = Signatories <=> log.status = "Confirmed"

\* A weather pass that its trigger has let through, and what such a pass may
\* still do to a confirmed log.
PastTrigger == crawl \in {"Passed", "Inserted", "Updated"}

KeepsConfirmed ==
    log.status = "Confirmed" =>
        /\ log'.status = "Confirmed" /\ log'.signed = log.signed
        /\ ~trusted => log' = log
        /\ ~PastTrigger => log' = log /\ ~PastTrigger'

\* What both have signed stays as it is (assertDailyLogMutable): no command that
\* was under way when the second signature came changes the log after it.  The
\* trigger reads without a lock, so a worker that may see the log can still commit
\* the pass that its trigger let through before that signature; no pass after it
\* gets so far, and none takes the confirmation back.
ConfirmedIsFrozen == [][KeepsConfirmed]_dailyVars
=============================================================================
