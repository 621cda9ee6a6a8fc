------------------------------ MODULE FieldProofs ------------------------------
(***************************************************************************)
(* Safety of the records of a site for any number of items, commands,      *)
(* tabs, logs and days: RFIs and submittals (Rfx), a daily log (DailyLog), *)
(* the offline queue (OfflineSync), and a dossier of any size (Dossiers).  *)
(***************************************************************************)
EXTENDS Rfx, DailyLog, OfflineSync, Dossiers, TLAPS

-----------------------------------------------------------------------------
(* RFIs, submittals and the issue *)

\* Rows have the fields of their kind, and the issue points to an item or none.
ItemRows == {Absent} \cup Rfis \cup Submittals
Pointers == [status : {"None"} \cup {t[1] : t \in IssueTransitions}, rfi : Items \cup {NoItem}]

RfxInv == RfxTypeOK /\ BallFollowsStatus /\ EscalatedOnce

LEMMA RowFields ==
  ASSUME RfxTypeOK, NEW i \in Items
  PROVE  /\ item[i] \in ItemRows
         /\ Exists(i, "rfi") => item[i] \in Rfis
         /\ Exists(i, "submittal") => item[i] \in Submittals
         /\ Exists(i, "None") => item[i] = Absent
<1>1. item[i] \in ItemRows
  BY DEF RfxTypeOK, ItemRows
<1>2. /\ Absent.kind = "None"
      /\ \A row \in Rfis : row.kind = "rfi"
      /\ \A row \in Submittals : row.kind = "submittal"
  BY DEF Absent, Rfis, Submittals
<1> QED BY <1>1, <1>2 DEF ItemRows, Exists

LEMMA Balls ==
  /\ \A s \in RfiStatuses, P \in SUBSET {"responding"} :
       RfiBall(s, P) \in {"", "requesting", "responding"}
  /\ \A s \in SubmittalStatuses, P \in SUBSET {"lead", "consultant"} :
       SubmittalBall(s, P) \in {"", "maker", "lead", "consultant"}
  BY DEF RfiStatuses, SubmittalStatuses, Decisions, RfiBall, SubmittalBall, IfNamed

LEMMA Targets ==
  /\ \A t \in RfiTransitions : t[3] \in RfiStatuses
  /\ \A t \in SubmittalTransitions : t[3] \in SubmittalStatuses
  /\ \A t \in IssueTransitions : t[1] # "None" /\ t[3] \in {u[1] : u \in IssueTransitions}
  /\ \A type \in DOMAIN StatusAfter : StatusAfter[type] \in RfiStatuses
  /\ \A d \in Decisions : CheckerStatus(d) \in SubmittalStatuses
<1>1. \A t \in RfiTransitions : t[3] \in RfiStatuses
  BY DEF RfiTransitions, RfiStatuses
<1>2. \A t \in SubmittalTransitions : t[3] \in SubmittalStatuses
  BY DEF SubmittalTransitions, SubmittalStatuses, Decisions
<1>3. \A t \in IssueTransitions : t[1] # "None" /\ \E u \in IssueTransitions : t[3] = u[1]
  BY DEF IssueTransitions
<1>4. \A type \in DOMAIN StatusAfter : StatusAfter[type] \in RfiStatuses
  BY DEF StatusAfter, RfiStatuses
<1>5. \A d \in Decisions : CheckerStatus(d) \in SubmittalStatuses
  BY DEF CheckerStatus, SubmittalStatuses, Decisions
<1> QED BY <1>1, <1>2, <1>3, <1>4, <1>5

\* What BallFollowsStatus says of one row: a step is judged by the row it writes.
BallIsRight(row) ==
    /\ row.kind = "rfi" =>
        \/ row.ball = RfiBall(row.status, row.parties)
        \/ /\ row.status = "Submitted" /\ row.parties = {}
           /\ row.event = "created" /\ row.ball = "requesting"
    /\ row.kind = "submittal" => row.ball = SubmittalBall(row.status, row.parties)

LEMMA BallStep ==
  ASSUME BallFollowsStatus, NEW i \in Items, BallIsRight(item'[i]),
         \A j \in Items \ {i} : item'[j] = item[j]
  PROVE  BallFollowsStatus'
<1>1. \A j \in Items : BallIsRight(item[j])
  BY DEF BallFollowsStatus, BallIsRight, Exists
<1>2. \A j \in Items : BallIsRight(item'[j])
  BY <1>1
<1> QED BY <1>2 DEF BallFollowsStatus, BallIsRight, Exists

\* A handler that writes a status and the ball it computes keeps the invariant.
LEMMA WriteRfi ==
  ASSUME RfxInv, NEW i \in Items, Exists(i, "rfi"), NEW s \in RfiStatuses,
         Write(i, s, RfiBall(s, item[i].parties)), UNCHANGED issue
  PROVE  RfxInv'
<1>1. item[i] \in Rfis /\ RfiBall(s, item[i].parties) \in {"", "requesting", "responding"}
  BY RowFields, Balls DEF RfxInv, Rfis
<1>2. /\ item' \in [Items -> ItemRows]
      /\ item'[i] \in Rfis /\ item'[i].status = s
      /\ item'[i].ball = RfiBall(s, item'[i].parties)
      /\ item'[i].event = item[i].event
      /\ \A j \in Items \ {i} : item'[j] = item[j]
  BY <1>1 DEF RfxInv, RfxTypeOK, Write, Rfis, ItemRows
<1>3. RfxTypeOK'
  BY <1>2 DEF RfxInv, RfxTypeOK, ItemRows
<1>4. item'[i].kind = "rfi" /\ "rfi" # "submittal"
  BY <1>2 DEF Rfis
<1>5. BallFollowsStatus'
  BY <1>2, <1>4, BallStep DEF RfxInv, BallIsRight
<1>6. EscalatedOnce'
  BY <1>2 DEF RfxInv, EscalatedOnce
<1> QED BY <1>3, <1>5, <1>6 DEF RfxInv

LEMMA WriteSubmittal ==
  ASSUME RfxInv, NEW i \in Items, Exists(i, "submittal"), NEW s \in SubmittalStatuses,
         Write(i, s, SubmittalBall(s, item[i].parties)), UNCHANGED issue
  PROVE  RfxInv'
<1>1. /\ item[i] \in Submittals
      /\ SubmittalBall(s, item[i].parties) \in {"", "maker", "lead", "consultant"}
  BY RowFields, Balls DEF RfxInv, Submittals
<1>2. /\ item' \in [Items -> ItemRows]
      /\ item'[i] \in Submittals /\ item'[i].status = s
      /\ item'[i].ball = SubmittalBall(s, item'[i].parties)
      /\ item'[i].event = item[i].event
      /\ \A j \in Items \ {i} : item'[j] = item[j]
  BY <1>1 DEF RfxInv, RfxTypeOK, Write, Submittals, ItemRows
<1>3. RfxTypeOK'
  BY <1>2 DEF RfxInv, RfxTypeOK, ItemRows
<1>4. item'[i].kind = "submittal" /\ "rfi" # "submittal"
  BY <1>2 DEF Submittals
<1>5. BallFollowsStatus'
  BY <1>2, <1>4, BallStep DEF RfxInv, BallIsRight
<1>6. EscalatedOnce'
  BY <1>2 DEF RfxInv, EscalatedOnce
<1> QED BY <1>3, <1>5, <1>6 DEF RfxInv

\* A new row, whose ball its handler has computed on its own.
LEMMA CreateSteps ==
  ASSUME RfxInv, NEW i \in Items,
         \/ \E parties \in SUBSET {"responding"} : CreateRfi(i, parties)
         \/ \E parties \in SUBSET {"lead", "consultant"} : CreateSubmittal(i, parties)
  PROVE  RfxInv'
<1>1. item[i] = Absent
  BY RowFields DEF RfxInv, CreateRfi, CreateSubmittal
<1>2. PICK row \in Rfis \cup Submittals :
        /\ item' = [item EXCEPT ![i] = row] /\ UNCHANGED issue
        /\ row.event = "created"
        /\ row \in Rfis =>
             \/ row.ball = RfiBall(row.status, row.parties)
             \/ row.status = "Submitted" /\ row.parties = {} /\ row.ball = "requesting"
        /\ row \in Submittals => row.ball = SubmittalBall(row.status, row.parties)
  <2>1. CASE \E parties \in SUBSET {"responding"} : CreateRfi(i, parties)
    <3>1. PICK parties \in SUBSET {"responding"} : CreateRfi(i, parties)
      BY <2>1
    <3> DEFINE row == [kind |-> "rfi", status |-> "Submitted",
                       ball |-> IfNamed("responding", parties, "requesting"),
                       parties |-> parties, event |-> "created"]
    <3>2. row \in Rfis /\ row \notin Submittals
      BY DEF Rfis, Submittals, RfiStatuses, IfNamed
    <3>3. parties = {} \/ parties = {"responding"}
      OBVIOUS
    <3> QED BY <3>1, <3>2, <3>3 DEF CreateRfi, Insert, RfiBall, IfNamed
  <2>2. CASE \E parties \in SUBSET {"lead", "consultant"} : CreateSubmittal(i, parties)
    <3>1. PICK parties \in SUBSET {"lead", "consultant"} : CreateSubmittal(i, parties)
      BY <2>2
    <3> DEFINE row == [kind |-> "submittal", status |-> "Submitted",
                       ball |-> IfNamed("lead", parties, IfNamed("consultant", parties, "")),
                       parties |-> parties, event |-> "created"]
    <3>2. row \in Submittals /\ row \notin Rfis
      BY DEF Rfis, Submittals, SubmittalStatuses, IfNamed
    <3>3. row.event = "created" /\ row.ball = SubmittalBall(row.status, row.parties)
      BY DEF SubmittalBall
    <3>4. item' = [item EXCEPT ![i] = row] /\ UNCHANGED issue
      BY <3>1 DEF CreateSubmittal, Insert
    <3> HIDE DEF row
    <3> QED BY <3>2, <3>3, <3>4
  <2> QED BY <2>1, <2>2
<1>3. RfxTypeOK'
  BY <1>2 DEF RfxInv, RfxTypeOK
<1>4. BallFollowsStatus'
  <2>1. /\ row \in Rfis => row.kind = "rfi" /\ row.kind # "submittal"
        /\ row \in Submittals => row.kind = "submittal" /\ row.kind # "rfi"
    BY DEF Rfis, Submittals
  <2>2. BallIsRight(row)
    BY <1>2, <2>1 DEF BallIsRight
  <2> QED BY <1>2, <2>2, BallStep DEF RfxInv, RfxTypeOK
<1>5. EscalatedOnce'
  <2>1. item[i].event # "escalated"
    <3>1. Absent.event # "escalated"
      BY DEF Absent
    <3> QED BY <1>1, <3>1
  <2>2. item'[i] = row /\ \A j \in Items \ {i} : item'[j] = item[j]
    BY <1>2 DEF RfxInv, RfxTypeOK
  <2>3. \A j \in Items : item'[j].event = "escalated" <=> item[j].event = "escalated"
    BY <1>2, <2>1, <2>2
  <2> QED BY <1>2, <2>3 DEF RfxInv, EscalatedOnce
<1> QED BY <1>3, <1>4, <1>5 DEF RfxInv

LEMMA EscalateStep ==
  ASSUME RfxInv, NEW i \in Items, NEW parties \in SUBSET {"responding"},
         EscalateToRfi(i, parties)
  PROVE  RfxInv'
<1> DEFINE row == [kind |-> "rfi", status |-> "Submitted",
                   ball |-> IfNamed("responding", parties, ""),
                   parties |-> parties, event |-> "escalated"]
<1>1. row \in Rfis /\ row.ball = RfiBall("Submitted", parties)
  BY DEF Rfis, RfiStatuses, IfNamed, RfiBall
<1>2. /\ item' = [item EXCEPT ![i] = row] /\ issue' = [issue EXCEPT !.rfi = i]
      /\ issue.rfi = NoItem
  BY DEF EscalateToRfi, Insert, MayEscalate
<1>3. RfxTypeOK'
  BY <1>1, <1>2 DEF RfxInv, RfxTypeOK
<1>4. BallFollowsStatus'
  <2>1. BallIsRight(row)
    BY <1>1 DEF BallIsRight
  <2> QED BY <1>2, <2>1, BallStep DEF RfxInv, RfxTypeOK
<1>5. \A j \in Items : item[j].event # "escalated"
  BY <1>2, RfxItems DEF RfxInv, EscalatedOnce
<1>6. EscalatedOnce'
  BY <1>2, <1>5 DEF RfxInv, RfxTypeOK, EscalatedOnce
<1> QED BY <1>3, <1>4, <1>6 DEF RfxInv

LEMMA IssueSteps ==
  ASSUME RfxInv, QuickCreateIssue \/ \E t \in IssueTransitions : TransitionIssue(t[2])
  PROVE  RfxInv'
<1>1. PICK s \in {"None"} \cup {t[1] : t \in IssueTransitions} :
        issue' = [issue EXCEPT !.status = s] /\ UNCHANGED item
  <2>1. "Open" \in {t[1] : t \in IssueTransitions}
    BY Zenon DEF IssueTransitions
  <2> QED BY <2>1, Targets DEF QuickCreateIssue, TransitionIssue
<1>2. RfxTypeOK' /\ issue'.rfi = issue.rfi
  BY <1>1 DEF RfxInv, RfxTypeOK
<1>3. BallFollowsStatus' /\ EscalatedOnce'
  BY <1>1, <1>2 DEF RfxInv, BallFollowsStatus, EscalatedOnce, Exists
<1> QED BY <1>2, <1>3 DEF RfxInv

LEMMA RfiStep ==
  ASSUME RfxInv, NEW i \in Items, NextRfi(i)
  PROVE  RfxInv'
<1>1. CASE \E t \in RfiTransitions : TransitionRfi(i, t[2])
  BY <1>1, Targets, WriteRfi DEF TransitionRfi
<1>2. CASE \E type \in DOMAIN StatusAfter : RespondRfi(i, type)
  <2>1. PICK type \in DOMAIN StatusAfter : RespondRfi(i, type)
    BY <1>2
  <2>2. CASE StatusAfter[type] = item[i].status
    BY <2>1, <2>2 DEF RespondRfi, RfxInv, RfxTypeOK, BallFollowsStatus, EscalatedOnce, Exists
  <2>3. CASE StatusAfter[type] # item[i].status
    BY <2>1, <2>3, Targets, WriteRfi DEF RespondRfi, BallAfterResponse
  <2> QED BY <2>2, <2>3
<1>3. CASE \E parties \in SUBSET {"responding"} : CreateRfi(i, parties)
  BY <1>3, CreateSteps
<1>4. CASE \E parties \in SUBSET {"responding"} : EscalateToRfi(i, parties)
  BY <1>4, EscalateStep
<1> QED BY <1>1, <1>2, <1>3, <1>4 DEF NextRfi

LEMMA SubmittalStep ==
  ASSUME RfxInv, NEW i \in Items, NextSubmittal(i)
  PROVE  RfxInv'
<1>1. ASSUME NEW action, Exists(i, "submittal"), MoveSubmittal(i, action), UNCHANGED issue
      PROVE  RfxInv'
  BY <1>1, Targets, WriteSubmittal DEF MoveSubmittal
<1>2. CASE \E t \in SubmittalTransitions : TransitionSubmittal(i, t[2])
  BY <1>1, <1>2 DEF TransitionSubmittal
<1>3. ASSUME NEW stage, NEW d \in Decisions, ReviewSubmittal(i, stage, d) PROVE RfxInv'
  BY <1>1, <1>3, Targets, WriteSubmittal DEF ReviewSubmittal
<1>4. CASE \E parties \in SUBSET {"lead", "consultant"} : CreateSubmittal(i, parties)
  BY <1>4, CreateSteps
<1> QED BY <1>2, <1>3, <1>4 DEF NextSubmittal

LEMMA RfxStart == RfxInit => RfxInv
<1> SUFFICES ASSUME RfxInit PROVE RfxInv
  OBVIOUS
<1>1. RfxTypeOK
  BY DEF RfxInit, RfxTypeOK
<1>2. \A i \in Items : item[i].kind = "None" /\ item[i].event = ""
  BY DEF RfxInit, Absent
<1>3. BallFollowsStatus
  BY <1>2 DEF BallFollowsStatus, Exists
<1>4. EscalatedOnce
  BY <1>2, RfxItems DEF RfxInit, EscalatedOnce
<1> QED BY <1>1, <1>3, <1>4 DEF RfxInv

LEMMA RfxStep == RfxInv /\ [RfxNext]_rfxVars => RfxInv'
<1> SUFFICES ASSUME RfxInv, [RfxNext]_rfxVars PROVE RfxInv'
  OBVIOUS
<1>1. CASE UNCHANGED rfxVars
  BY <1>1 DEF rfxVars, RfxInv, RfxTypeOK, BallFollowsStatus, EscalatedOnce, Exists
<1> QED BY <1>1, RfiStep, SubmittalStep, IssueSteps DEF RfxNext

\* Types, the ball in court and the RFI of the issue, whatever handler of
\* RfxService or IssueService comes next.
THEOREM RfxInductive == RfxSpec => []RfxInv
BY RfxStart, RfxStep, PTL DEF RfxSpec

\* The ball is where the status says, whichever handlers have moved the item.
THEOREM RfxBallFollowsStatus == RfxSpec => []BallFollowsStatus
<1>1. RfxInv => BallFollowsStatus
  BY DEF RfxInv
<1> QED BY <1>1, RfxInductive, PTL

\* An issue is escalated to one RFI for good (escalateToRfi).
THEOREM RfxEscalatedOnce == RfxSpec => []EscalatedOnce
<1>1. RfxInv => EscalatedOnce
  BY DEF RfxInv
<1> QED BY <1>1, RfxInductive, PTL

-----------------------------------------------------------------------------
(* The daily log *)

\* At most one command is under way, on a log that is still open and as it was
\* when it was read, and the worker of an untrusted user sees no log.
OneEditor ==
  \A c, d \in LogCommands : command[c] # NoCommand /\ command[d] # NoCommand => c = d

ReadsHold ==
  \A c \in LogCommands : command[c] # NoCommand =>
      command[c].saw.signed = log.signed /\ log.status \notin {"Confirmed", "None"}

DailyInv ==
  /\ DailyTypeOK /\ SignedIsConfirmed
  /\ OneEditor /\ ReadsHold
  /\ ~trusted => crawl = "Rest"

LEMMA Idle == NoCommand.op = "Idle"
  BY DEF NoCommand

LEMMA LogRowFields ==
  ASSUME DailyInv
  PROVE  /\ log.status \in {"None", "Draft", "Submitted", "Confirmed"}
         /\ log.content \in {0, 1} /\ log.signed \in SUBSET Signatories
  BY DEF DailyInv, DailyTypeOK, LogRows

LEMMA DailyStart == DailyInit => DailyInv
<1> SUFFICES ASSUME DailyInit PROVE DailyInv
  OBVIOUS
<1>1. DailyTypeOK
  BY DEF DailyInit, DailyTypeOK, NoCommand, NoLog, LogRows, Signatories
<1>2. SignedIsConfirmed
  BY DEF DailyInit, SignedIsConfirmed, NoLog, Signatories
<1>3. OneEditor /\ ReadsHold
  BY DEF DailyInit, OneEditor, ReadsHold
<1> QED BY <1>1, <1>2, <1>3 DEF DailyInv, DailyInit

\* A command that ends has the row to itself: the others are all idle.
LEMMA CommandEnds ==
  ASSUME DailyInv, NEW c \in LogCommands, command[c] # NoCommand,
         command' = [command EXCEPT ![c] = NoCommand]
  PROVE  /\ command' \in [LogCommands -> [op : {"Idle", "edit"} \cup Signatories, saw : LogRows]]
         /\ \A d \in LogCommands : command'[d] = NoCommand
<1>1. NoCommand \in [op : {"Idle", "edit"} \cup Signatories, saw : LogRows]
  BY DEF NoCommand, NoLog, LogRows, Signatories
<1> QED BY <1>1 DEF DailyInv, DailyTypeOK, OneEditor

LEMMA DailyLock ==
  ASSUME DailyInv, NEW c \in LogCommands, NEW op \in {"edit"} \cup Signatories, Lock(c, op)
  PROVE  DailyInv'
<1>1. /\ command' = [command EXCEPT ![c] = [op |-> op, saw |-> log]]
      /\ log' = log /\ crawl' = crawl /\ trusted' = trusted
      /\ \A d \in LogCommands : command[d] = NoCommand
      /\ log.status \notin {"Confirmed", "None"}
  BY DEF Lock, RowIsFree, MayChange
<1>2. DailyTypeOK'
  BY <1>1 DEF DailyInv, DailyTypeOK
<1>3. OneEditor' /\ ReadsHold'
  BY <1>1 DEF DailyInv, DailyTypeOK, OneEditor, ReadsHold
<1> QED BY <1>1, <1>2, <1>3 DEF DailyInv, SignedIsConfirmed

LEMMA DailyCommit ==
  ASSUME DailyInv, NEW c \in LogCommands, CommitEdit(c) \/ CommitSign(c) \/ FailCommand(c)
  PROVE  DailyInv'
<1>1. command[c] # NoCommand /\ command' = [command EXCEPT ![c] = NoCommand]
  BY Idle DEF CommitEdit, CommitSign, FailCommand, Signatories
<1>2. UNCHANGED <<crawl, trusted>>
  BY DEF CommitEdit, CommitSign, FailCommand
<1>3. OneEditor' /\ ReadsHold'
  BY <1>1, CommandEnds DEF OneEditor, ReadsHold
<1>4. log' \in LogRows /\ SignedIsConfirmed'
  <2>1. CASE CommitEdit(c)
    BY <2>1, LogRowFields
       DEF CommitEdit, Changed, DailyInv, DailyTypeOK, LogRows, SignedIsConfirmed
  <2>2. CASE CommitSign(c)
    <3>1. log.signed = command[c].saw.signed /\ command[c].op \in Signatories
      BY <1>1, <2>2 DEF CommitSign, DailyInv, ReadsHold
    <3>2. /\ log'.signed = log.signed \cup {command[c].op}
          /\ log'.status = StatusSigned(command[c].saw, command[c].op)
          /\ log'.content = log.content
      BY <2>2 DEF CommitSign, DailyInv, DailyTypeOK, LogRows
    <3>3. log'.status = "Confirmed" <=> Signatories \ {command[c].op} \subseteq log.signed
      BY <3>1, <3>2 DEF StatusSigned, Other
    <3>4. log'.signed = Signatories <=> Signatories \ {command[c].op} \subseteq log.signed
      BY <3>1, <3>2, LogRowFields
    <3>5. log' \in LogRows
      <4>1. log' = [log EXCEPT !.signed = log.signed \cup {command[c].op},
                               !.status = StatusSigned(command[c].saw, command[c].op)]
        BY <2>2 DEF CommitSign
      <4>2. StatusSigned(command[c].saw, command[c].op) \in {"Confirmed", "Submitted"}
        BY DEF StatusSigned
      <4> QED BY <3>1, <4>1, <4>2, LogRowFields DEF DailyInv, DailyTypeOK, LogRows
    <3> QED BY <3>3, <3>4, <3>5 DEF SignedIsConfirmed
  <2>3. CASE FailCommand(c)
    BY <2>3 DEF FailCommand, DailyInv, DailyTypeOK, SignedIsConfirmed
  <2> QED BY <2>1, <2>2, <2>3
<1>5. DailyTypeOK'
  BY <1>1, <1>2, <1>4, CommandEnds DEF DailyInv, DailyTypeOK
<1> QED BY <1>2, <1>3, <1>4, <1>5 DEF DailyInv

\* Creating the log, and the worker, which never touches signatures or status.
LEMMA DailyOther ==
  ASSUME DailyInv,
         \/ CreateDailyLog
         \/ ListOpenLogs \/ TriggerPasses \/ TriggerRaises
         \/ InsertWeather \/ UpdateWeather \/ CommitWeather \/ PassFails
  PROVE  DailyInv'
<1>1. /\ command' = command /\ trusted' = trusted
      /\ crawl' \in {"Rest", "Listed", "Passed", "Inserted", "Updated"}
      /\ ~trusted => crawl' = "Rest"
  BY DEF DailyInv, DailyTypeOK, CreateDailyLog, ListOpenLogs, TriggerPasses, TriggerRaises,
         InsertWeather, UpdateWeather, CommitWeather, PassFails
<1>2. /\ log' \in LogRows /\ log'.signed = log.signed
      /\ \/ log'.status = log.status
         \/ log.status = "None" /\ log'.status = "Draft"
  <2>1. CASE CreateDailyLog
    <3>1. log.status = "None" /\ log' = [log EXCEPT !.status = "Draft"]
      BY <2>1 DEF CreateDailyLog
    <3>2. log' \in LogRows
      BY <3>1 DEF DailyInv, DailyTypeOK, LogRows
    <3> QED BY <3>1, <3>2 DEF DailyInv, DailyTypeOK, LogRows
  <2>2. CASE CommitWeather
    <3>1. log' = [log EXCEPT !.content = 1 - log.content]
      BY <2>2 DEF CommitWeather, Changed
    <3>2. log' \in LogRows
      BY <3>1, LogRowFields DEF DailyInv, DailyTypeOK, LogRows
    <3> QED BY <3>1, <3>2 DEF DailyInv, DailyTypeOK, LogRows
  <2>3. CASE UNCHANGED log
    BY <2>3 DEF DailyInv, DailyTypeOK
  <2> QED BY <2>1, <2>2, <2>3 DEF ListOpenLogs, TriggerPasses, TriggerRaises,
                                 InsertWeather, UpdateWeather, PassFails
<1>3. DailyTypeOK' /\ OneEditor' /\ SignedIsConfirmed'
  BY <1>1, <1>2 DEF DailyInv, DailyTypeOK, OneEditor, SignedIsConfirmed
<1>4. ReadsHold'
  BY <1>1, <1>2 DEF DailyInv, ReadsHold
<1> QED BY <1>1, <1>3, <1>4 DEF DailyInv

LEMMA DailyStep == DailyInv /\ [DailyNext]_dailyVars => DailyInv'
<1> SUFFICES ASSUME DailyInv, [DailyNext]_dailyVars PROVE DailyInv'
  OBVIOUS
<1>1. CASE UNCHANGED dailyVars
  BY <1>1 DEF dailyVars, DailyInv, DailyTypeOK, SignedIsConfirmed, OneEditor, ReadsHold
<1> QED BY <1>1, DailyLock, DailyCommit, DailyOther DEF DailyNext

\* One command holds the daily log, and what it has read still stands
\* (the FOR UPDATE of DailyLogService).
THEOREM DailyInductive == DailySpec => []DailyInv
BY DailyStart, DailyStep, PTL DEF DailySpec

\* A log is Confirmed exactly when both have signed, though each signature
\* decides from what it has read (signSiteManager, signSupervisor).
THEOREM DailySignedIsConfirmed == DailySpec => []SignedIsConfirmed
<1>1. DailyInv => SignedIsConfirmed
  BY DEF DailyInv
<1> QED BY <1>1, DailyInductive, PTL

\* No command is under way on a confirmed log; what the weather worker may still
\* write is the pass its trigger has let through.
LEMMA ConfirmedStays == DailyInv /\ [DailyNext]_dailyVars => [KeepsConfirmed]_dailyVars
<1> SUFFICES ASSUME DailyInv, [DailyNext]_dailyVars, log.status = "Confirmed"
             PROVE  /\ log'.status = "Confirmed" /\ log'.signed = log.signed
                    /\ ~trusted => log' = log
                    /\ ~PastTrigger => log' = log /\ ~PastTrigger'
  BY DEF KeepsConfirmed
<1>1. /\ \A c \in LogCommands : command[c] = NoCommand
      /\ ~trusted => crawl = "Rest"
  BY DEF DailyInv, ReadsHold
<1>2. \A c \in LogCommands : ~CommitEdit(c) /\ ~CommitSign(c)
  BY <1>1, Idle DEF CommitEdit, CommitSign, Signatories
<1>3. CASE CommitWeather
  <2>1. log' = [log EXCEPT !.content = 1 - log.content] /\ crawl \in {"Inserted", "Updated"}
    BY <1>3 DEF CommitWeather, Changed
  <2>2. log'.status = log.status /\ log'.signed = log.signed
    BY <2>1 DEF DailyInv, DailyTypeOK, LogRows
  <2> QED BY <1>1, <2>1, <2>2 DEF PastTrigger
<1>4. CASE ~CommitWeather
  <2>1. log' = log /\ (~PastTrigger => ~PastTrigger')
    BY <1>2, <1>4 DEF DailyNext, dailyVars, CreateDailyLog, Lock, FailCommand, ListOpenLogs,
       TriggerPasses, ChildMayChange, TriggerRaises, InsertWeather, UpdateWeather, PassFails,
       PastTrigger
  <2> QED BY <2>1
<1> QED BY <1>3, <1>4

\* No command changes what both have signed (assertDailyLogMutable), and of the
\* worker's passes only the one that was past its trigger.
THEOREM DailyConfirmedIsFrozen == DailySpec => ConfirmedIsFrozen
BY DailyInductive, ConfirmedStays, PTL DEF DailySpec, ConfirmedIsFrozen

-----------------------------------------------------------------------------
(* Offline synchronisation *)

\* What has left the queue is recorded, what is recorded is done, and so is
\* what an engine has been told; batches hold operations that were queued.
OfflineInv ==
  /\ OfflineTypeOK
  /\ enqueued \ queue \subseteq recorded
  /\ \A o \in recorded : o.command = "create" => HasRow(o.log)
  /\ \A t \in Tabs : /\ engine[t].batch \subseteq enqueued
                     /\ engine[t].at = "Done" => engine[t].applied \subseteq recorded
  /\ \A batch \in orphans : batch \subseteq enqueued

Engines == [at : {"Rest", "Sent", "Done"}, batch : SUBSET Operations, applied : SUBSET Operations]
Diaries == [Logs -> {NoRow} \cup [day : Days, version : {1, 2}]]

LEMMA RowIsNoRow == \A row \in [day : Days, version : {1, 2}] : row # NoRow
<1>1. NoRow.version = 0
  BY DEF NoRow
<1> QED BY <1>1

LEMMA OfflineStart == OfflineInit => OfflineInv
<1> SUFFICES ASSUME OfflineInit PROVE OfflineInv
  OBVIOUS
<1>1. NotSyncing \in Engines /\ NotSyncing.at = "Rest" /\ NotSyncing.batch = {}
  BY DEF NotSyncing, Engines
<1>2. OfflineTypeOK
  BY <1>1 DEF OfflineInit, OfflineTypeOK, Engines
<1> QED BY <1>1, <1>2 DEF OfflineInit, OfflineInv

\* A batch that commits records what it applies, and every log that an
\* operation of it was to create is there; logs that were there stay.
LEMMA IngestKeeps ==
  ASSUME OfflineInv, NEW batch, batch \subseteq enqueued, NEW applied, Ingest(batch, applied)
  PROVE  /\ applied \subseteq batch
         /\ recorded' = recorded \cup applied
         /\ diary' \in Diaries
         /\ \A o \in recorded' : o.command = "create" => HasRow(o.log)'
<1>1. applied \subseteq batch /\ recorded' = recorded \cup applied
  BY DEF Ingest, Resolutions
<1> DEFINE Creators(l) == {o \in Inserted(applied) : o.log = l}
           Creator(l) == CHOOSE o \in Inserted(applied) : o.log = l
<1>2. \A l \in Logs : Creators(l) # {} => Creator(l) \in Inserted(applied)
  OBVIOUS
<1>3. \A o \in Inserted(applied) : o \in Operations /\ o.day \in Days /\ o.log \in Logs
  BY <1>1 DEF OfflineInv, OfflineTypeOK, Operations, Inserted
<1>4. diary' = [l \in Logs |-> IF Creators(l) # {}
                               THEN [day |-> Creator(l).day, version |-> 1] ELSE diary[l]]
  BY DEF Ingest
<1>5. \A l \in Logs : Creators(l) # {} =>
        [day |-> Creator(l).day, version |-> 1] \in [day : Days, version : {1, 2}]
  BY <1>2, <1>3
<1>6. diary' \in Diaries
  <2>1. diary \in Diaries
    BY DEF OfflineInv, OfflineTypeOK, Diaries
  <2> HIDE DEF Creators, Creator
  <2> QED BY <1>4, <1>5, <2>1 DEF Diaries
<1>7. \A l \in Logs : Creators(l) # {} \/ HasRow(l) => HasRow(l)'
  <2> HIDE DEF Creators, Creator
  <2> QED BY <1>4, <1>5, RowIsNoRow DEF HasRow
<1>8. ASSUME NEW o \in recorded', o.command = "create" PROVE HasRow(o.log)'
  <2>1. o \in Operations /\ o.log \in Logs
    BY <1>1, <1>8 DEF OfflineInv, OfflineTypeOK, Operations
  <2>2. HasRow(o.log) \/ o \in Creators(o.log)
    BY <1>1, <1>8 DEF OfflineInv, Inserted
  <2> QED BY <1>7, <2>1, <2>2
<1> QED BY <1>1, <1>6, <1>8

LEMMA IngestBatchStep ==
  ASSUME OfflineInv, NEW t \in Tabs, IngestBatch(t)
  PROVE  OfflineInv'
<1>1. PICK applied :
        /\ Ingest(engine[t].batch, applied)
        /\ engine' = [engine EXCEPT ![t].at = "Done", ![t].applied = applied]
  BY DEF IngestBatch
<1>2. /\ applied \subseteq engine[t].batch
      /\ recorded' = recorded \cup applied
      /\ diary' \in Diaries
      /\ \A o \in recorded' : o.command = "create" => HasRow(o.log)'
  BY <1>1, IngestKeeps DEF OfflineInv
<1>3. UNCHANGED <<queue, enqueued, orphans>>
  BY DEF IngestBatch
<1>4. /\ engine' \in [Tabs -> Engines]
      /\ engine'[t].batch = engine[t].batch /\ engine'[t].applied = applied
      /\ \A u \in Tabs \ {t} : engine'[u] = engine[u]
  BY <1>1, <1>2 DEF OfflineInv, OfflineTypeOK, Engines
<1>5. OfflineTypeOK'
  BY <1>2, <1>3, <1>4 DEF OfflineInv, OfflineTypeOK, Engines, Diaries
<1> QED BY <1>2, <1>3, <1>4, <1>5 DEF OfflineInv

LEMMA IngestOrphanStep ==
  ASSUME OfflineInv, NEW batch \in orphans, IngestOrphan(batch)
  PROVE  OfflineInv'
<1>1. PICK applied : Ingest(batch, applied)
  BY DEF IngestOrphan
<1>2. /\ applied \subseteq batch
      /\ recorded' = recorded \cup applied
      /\ diary' \in Diaries
      /\ \A o \in recorded' : o.command = "create" => HasRow(o.log)'
  BY <1>1, IngestKeeps DEF OfflineInv
<1>3. UNCHANGED <<queue, enqueued, engine>> /\ orphans' = orphans \ {batch}
  BY DEF IngestOrphan
<1>4. OfflineTypeOK'
  BY <1>2, <1>3 DEF OfflineInv, OfflineTypeOK, Diaries
<1> QED BY <1>2, <1>3, <1>4 DEF OfflineInv

\* A step of the browser that leaves the tables alone.
LEMMA BrowserStep ==
  ASSUME OfflineInv,
         \/ \E o \in Operations : EnqueueOperation(o)
         \/ \E t \in Tabs : FlushSyncQueue(t) \/ BatchAnswered(t) \/ BatchFails(t)
  PROVE  OfflineInv'
<1>1. UNCHANGED <<recorded, diary>>
  BY DEF EnqueueOperation, FlushSyncQueue, BatchAnswered, BatchFails
<1>2. \A o \in recorded : o.command = "create" => HasRow(o.log)'
  BY <1>1 DEF OfflineInv, HasRow
<1>3. /\ NotSyncing \in Engines /\ NotSyncing.at = "Rest" /\ NotSyncing.batch = {}
      /\ \A t \in Tabs : engine[t] \in Engines
  BY DEF OfflineInv, OfflineTypeOK, NotSyncing, Engines
<1>4. CASE \E o \in Operations : EnqueueOperation(o)
  <2>1. UNCHANGED <<engine, orphans>>
    BY <1>4 DEF EnqueueOperation
  <2>2. enqueued \subseteq enqueued' /\ enqueued' \subseteq Operations
        /\ queue' \subseteq enqueued' /\ enqueued' \ queue' \subseteq enqueued \ queue
    BY <1>4 DEF EnqueueOperation, OfflineInv, OfflineTypeOK
  <2>3. OfflineTypeOK'
    BY <1>1, <2>1, <2>2 DEF OfflineInv, OfflineTypeOK
  <2> QED BY <1>1, <1>2, <2>1, <2>2, <2>3 DEF OfflineInv
<1>5. ASSUME NEW t \in Tabs, FlushSyncQueue(t) PROVE OfflineInv'
  <2> DEFINE e == [at |-> "Sent", batch |-> queue, applied |-> {}]
  <2>1. engine' = [engine EXCEPT ![t] = e] /\ UNCHANGED <<queue, enqueued, orphans>>
    BY <1>5 DEF FlushSyncQueue
  <2>2. e \in Engines /\ e.at # "Done" /\ e.batch \subseteq enqueued
    BY DEF OfflineInv, OfflineTypeOK, Engines
  <2> HIDE DEF e
  <2>3. OfflineTypeOK'
    BY <1>1, <2>1, <2>2 DEF OfflineInv, OfflineTypeOK, Engines
  <2> QED BY <1>1, <1>2, <2>1, <2>2, <2>3 DEF OfflineInv, OfflineTypeOK
<1>6. ASSUME NEW t \in Tabs, BatchAnswered(t) PROVE OfflineInv'
  <2>1. /\ engine' = [engine EXCEPT ![t] = NotSyncing] /\ UNCHANGED <<enqueued, orphans>>
        /\ queue' = queue \ engine[t].applied /\ engine[t].applied \subseteq recorded
    BY <1>6 DEF BatchAnswered, Removable, OfflineInv
  <2>2. OfflineTypeOK'
    BY <1>1, <1>3, <2>1 DEF OfflineInv, OfflineTypeOK, Engines
  <2> QED BY <1>1, <1>2, <1>3, <2>1, <2>2 DEF OfflineInv, OfflineTypeOK
<1>7. ASSUME NEW t \in Tabs, BatchFails(t) PROVE OfflineInv'
  <2>1. /\ engine' = [engine EXCEPT ![t] = NotSyncing] /\ UNCHANGED <<queue, enqueued>>
        /\ orphans' \subseteq orphans \cup {engine[t].batch}
    BY <1>7 DEF BatchFails
  <2>2. engine[t].batch \subseteq enqueued /\ engine[t].batch \in SUBSET Operations
    BY <1>3 DEF OfflineInv, Engines
  <2>3. OfflineTypeOK'
    BY <1>1, <1>3, <2>1, <2>2 DEF OfflineInv, OfflineTypeOK, Engines
  <2> QED BY <1>1, <1>2, <1>3, <2>1, <2>2, <2>3 DEF OfflineInv, OfflineTypeOK
<1> QED BY <1>4, <1>5, <1>6, <1>7

\* Somebody else's log and edits: a row is added or moves on, none disappears.
LEMMA OthersStep ==
  ASSUME OfflineInv, NEW l \in Logs, EditLog(l) \/ \E day \in Days : LogOfOthers(l, day)
  PROVE  OfflineInv'
<1>1. UNCHANGED <<queue, enqueued, engine, orphans, recorded>>
  BY DEF EditLog, LogOfOthers
<1>2. \A m \in Logs \ {l} : diary'[m] = diary[m]
  BY DEF EditLog, LogOfOthers, OfflineInv, OfflineTypeOK
<1>3. diary' \in Diaries /\ diary'[l] \in [day : Days, version : {1, 2}]
  <2>1. CASE EditLog(l)
    <3>1. diary[l] \in [day : Days, version : {1, 2}]
      BY <2>1 DEF EditLog, HasRow, OfflineInv, OfflineTypeOK
    <3>2. diary' = [diary EXCEPT ![l] = [diary[l] EXCEPT !.version = 2]]
      BY <2>1 DEF EditLog
    <3>3. [diary[l] EXCEPT !.version = 2] \in [day : Days, version : {1, 2}]
      BY <3>1
    <3> QED BY <3>2, <3>3 DEF OfflineInv, OfflineTypeOK, Diaries
  <2>2. CASE \E day \in Days : LogOfOthers(l, day)
    BY <2>2 DEF LogOfOthers, OfflineInv, OfflineTypeOK, Diaries
  <2> QED BY <2>1, <2>2
<1>4. \A m \in Logs : HasRow(m) => HasRow(m)'
  BY <1>2, <1>3, RowIsNoRow DEF HasRow
<1>5. OfflineTypeOK'
  BY <1>1, <1>3 DEF OfflineInv, OfflineTypeOK, Diaries
<1>6. \A o \in recorded : o.command = "create" => HasRow(o.log)'
  BY <1>4 DEF OfflineInv, OfflineTypeOK, Operations
<1> QED BY <1>1, <1>5, <1>6 DEF OfflineInv

LEMMA OfflineStep == OfflineInv /\ [OfflineNext]_offlineVars => OfflineInv'
<1> SUFFICES ASSUME OfflineInv, [OfflineNext]_offlineVars PROVE OfflineInv'
  OBVIOUS
<1>1. CASE UNCHANGED offlineVars
  BY <1>1 DEF offlineVars, OfflineInv, OfflineTypeOK, HasRow
<1> QED BY <1>1, BrowserStep, IngestBatchStep, IngestOrphanStep, OthersStep DEF OfflineNext

\* What an engine was told is what ingest has recorded, and a recorded creation
\* has its log (OfflineSyncService, OfflineStorageEngine.flush).
THEOREM OfflineInductive == OfflineSpec => []OfflineInv
BY OfflineStart, OfflineStep, PTL DEF OfflineSpec

\* An operation leaves the queue only once the API has it for good.
THEOREM OfflineRemovedIsApplied == OfflineSpec => []RemovedIsApplied
<1>1. OfflineInv => RemovedIsApplied
  BY DEF OfflineInv, RemovedIsApplied
<1> QED BY <1>1, OfflineInductive, PTL

-----------------------------------------------------------------------------
(* A dossier *)

\* Whatever waits for its time stamp has the chain of the items of now: they
\* cannot change before it writes.
DossierInv ==
    /\ DossiersTypeOK
    /\ SealCoversItems
    /\ \A s \in Sealers : sealing[s] # NotSealing => sealing[s].chain = Chain(contents)

LEMMA DossierStart == DossiersInit => DossierInv
<1> SUFFICES ASSUME DossiersInit PROVE DossierInv
  OBVIOUS
<1>1. NoChain \in Chains /\ NotSealing \in [at : {"Idle", "Stamping"}, chain : Chains]
  BY DEF Chains, NotSealing
<1>2. NoPapers \in [{} -> Papers] /\ {} \in SUBSET Places
  BY DEF NoPapers
<1>3. DossiersTypeOK
  BY <1>1, <1>2 DEF DossiersInit, DossiersTypeOK, Contents
<1> QED BY <1>3 DEF DossiersInit, DossierInv, SealCoversItems

\* Items come only while the row is free and the dossier is not sealed.
LEMMA AddStep ==
  ASSUME DossierInv, NEW papers \in Contents, AddDossierItems(papers)
  PROVE  DossierInv'
<1>1. contents' \in Contents
  <2>1. PICK S \in SUBSET Places : contents \in [S -> Papers]
    BY DEF DossierInv, DossiersTypeOK, Contents
  <2>2. PICK T \in SUBSET Places : papers \in [T -> Papers]
    BY DEF Contents
  <2>3. contents' \in [S \cup T -> Papers] /\ S \cup T \in SUBSET Places
    BY <2>1, <2>2 DEF AddDossierItems
  <2> QED BY <2>3 DEF Contents
<1>2. /\ UNCHANGED <<dossier, sealing>> /\ dossier.status = "assembling"
      /\ \A s \in Sealers : sealing[s] = NotSealing
  BY DEF AddDossierItems, RowIsHeld, MayAdd
<1> QED BY <1>1, <1>2 DEF DossierInv, DossiersTypeOK, SealCoversItems

LEMMA SealSteps ==
  ASSUME DossierInv, NEW s \in Sealers, StartSeal(s) \/ CompleteSeal(s) \/ SealFails(s)
  PROVE  DossierInv'
<1>1. NotSealing \in [at : {"Idle", "Stamping"}, chain : Chains] /\ UNCHANGED contents
  BY DEF Chains, NotSealing, StartSeal, CompleteSeal, SealFails
<1>2. CASE StartSeal(s)
  <2> DEFINE stamping == [at |-> "Stamping", chain |-> Chain(contents)]
  <2>1. Chain(contents) \in Chains
    BY DEF DossierInv, DossiersTypeOK, Chains
  <2>2. stamping \in [at : {"Idle", "Stamping"}, chain : Chains]
    BY <2>1
  <2>3. sealing' = [sealing EXCEPT ![s] = stamping] /\ UNCHANGED dossier
    BY <1>2 DEF StartSeal
  <2>4. DossiersTypeOK'
    BY <1>1, <2>2, <2>3 DEF DossierInv, DossiersTypeOK
  <2> QED BY <1>1, <2>3, <2>4 DEF DossierInv, DossiersTypeOK, SealCoversItems
<1>3. CASE CompleteSeal(s)
  <2>1. /\ dossier' = [status |-> "sealed", chain |-> Chain(contents)]
        /\ sealing' = [sealing EXCEPT ![s] = NotSealing] /\ Chain(contents) \in Chains
    BY <1>3 DEF CompleteSeal, DossierInv, DossiersTypeOK, Chains
  <2>2. DossiersTypeOK'
    BY <1>1, <2>1 DEF DossierInv, DossiersTypeOK
  <2> QED BY <1>1, <2>1, <2>2 DEF DossierInv, DossiersTypeOK, SealCoversItems
<1>4. CASE SealFails(s)
  <2>1. sealing' = [sealing EXCEPT ![s] = NotSealing] /\ UNCHANGED dossier
    BY <1>4 DEF SealFails
  <2>2. DossiersTypeOK'
    BY <1>1, <2>1 DEF DossierInv, DossiersTypeOK
  <2> QED BY <1>1, <2>1, <2>2 DEF DossierInv, DossiersTypeOK, SealCoversItems
<1> QED BY <1>2, <1>3, <1>4

LEMMA DossierStep == DossierInv /\ [DossiersNext]_dossierVars => DossierInv'
<1> SUFFICES ASSUME DossierInv, [DossiersNext]_dossierVars PROVE DossierInv'
  OBVIOUS
<1>1. CASE UNCHANGED dossierVars
  BY <1>1 DEF dossierVars, DossierInv, DossiersTypeOK, SealCoversItems
<1>2. CASE CreateDossier
  <2>1. DossiersTypeOK'
    BY <1>2 DEF CreateDossier, DossierInv, DossiersTypeOK
  <2> QED BY <1>2, <2>1 DEF CreateDossier, DossierInv, DossiersTypeOK, SealCoversItems
<1> QED BY <1>1, <1>2, AddStep, SealSteps DEF DossiersNext

\* The invariant of dossiers holds for any number of requests, papers and places.
THEOREM DossierInductive == DossiersSpec => []DossierInv
BY DossierStart, DossierStep, PTL DEF DossiersSpec

\* A sealed dossier's chain is that of all its items, for good (sealDossier).
THEOREM DossierSealCoversItems == DossiersSpec => []SealCoversItems
<1>1. DossierInv => SealCoversItems
  BY DEF DossierInv
<1> QED BY <1>1, DossierInductive, PTL

LEMMA SealStays ==
  DossierInv /\ [DossiersNext]_dossierVars
    => [dossier.status = "sealed" => UNCHANGED <<dossier, contents>>]_dossierVars
<1> SUFFICES ASSUME DossierInv, DossiersNext, dossier.status = "sealed"
             PROVE  UNCHANGED <<dossier, contents>>
  OBVIOUS
<1>1. ASSUME NEW s \in Sealers, CompleteSeal(s) PROVE dossier' = dossier
  <2>1. dossier' = [status |-> "sealed", chain |-> Chain(contents)]
    BY <1>1 DEF CompleteSeal, DossierInv
  <2>2. dossier = [status |-> dossier.status, chain |-> dossier.chain]
    BY DEF DossierInv, DossiersTypeOK
  <2>3. dossier.chain = Chain(contents)
    BY DEF DossierInv, SealCoversItems
  <2> QED BY <2>1, <2>2, <2>3
<1> QED BY <1>1 DEF DossiersNext, CreateDossier, AddDossierItems, MayAdd, StartSeal, CompleteSeal,
           SealFails

\* Neither the items nor the chain of a sealed dossier change, though it may be
\* sealed again (sealDossier, addDossierItems).
THEOREM DossierSealIsFinal == DossiersSpec => SealIsFinal
BY DossierInductive, SealStays, PTL DEF DossiersSpec, SealIsFinal
=============================================================================
