---------------------------------- MODULE Rfx ----------------------------------
(***************************************************************************)
(* RFIs, submittals and one field issue: RfxService and IssueService over  *)
(* the tables of migration 012.  Five handlers write the status of an item *)
(* and each writes the organization that has to act next, the ball in      *)
(* court, on its own; not all of them ask the state machine.               *)
(*                                                                         *)
(* Every handler locks the row it changes (SELECT ... FOR UPDATE), so each *)
(* is one step.  None takes a version or an idempotency key: a client that *)
(* lost an answer repeats the command and it is executed again.            *)
(* Statuses are written without their blanks.                              *)
(***************************************************************************)
EXTENDS Naturals

CONSTANTS Items,   \* bound: rows of rfi_requests and submittals
          NoItem

ASSUME RfxItems == NoItem \notin Items

VARIABLES item,    \* the RFI or the submittal under each id
          issue    \* the field issue: its status and escalated_to_rfi_id

rfxVars == <<item, issue>>

\* <<status, action, next status>>
RfiTransitions ==
    {<<"Draft", "submit", "Submitted">>,
     <<"Submitted", "start_review", "UnderReview">>,
     <<"Submitted", "request_clarification", "ClarificationRequired">>,
     <<"Submitted", "answer_official", "OfficialAnswered">>,
     <<"UnderReview", "request_clarification", "ClarificationRequired">>,
     <<"UnderReview", "answer_official", "OfficialAnswered">>,
     <<"ClarificationRequired", "provide_clarification", "UnderReview">>,
     <<"OfficialAnswered", "close", "Closed">>,
     <<"OfficialAnswered", "reopen", "UnderReview">>,
     <<"Closed", "reopen", "UnderReview">>}

Decisions == {"Approved", "ApprovedWithComments", "ReviseAndResubmit", "Rejected"}

\* An action of a reviewer is named by the decision it stands for
\* (reviewDecisionToSubmittalAction).
SubmittalTransitions ==
    {<<"Draft", "submit", "Submitted">>,
     <<"Submitted", "start_review", "UnderReview">>,
     <<"Approved", "close", "Closed">>,
     <<"ApprovedWithComments", "close", "Closed">>,
     <<"ReviseAndResubmit", "resubmit", "Submitted">>,
     <<"Rejected", "resubmit", "Submitted">>,
     <<"Rejected", "close", "Closed">>}
    \cup {<<s, d, d>> : s \in {"Submitted", "UnderReview"}, d \in Decisions}

IssueTransitions ==
    {<<"Open", "triage", "UnderTriage">>,
     <<"Open", "assign", "Assigned">>,
     <<"UnderTriage", "assign", "Assigned">>,
     <<"Assigned", "start_progress", "InProgress">>,
     <<"Assigned", "assign", "Assigned">>,
     <<"InProgress", "resolve", "Resolved">>,
     <<"InProgress", "assign", "Assigned">>,
     <<"Resolved", "close", "Closed">>,
     <<"Resolved", "reopen", "Open">>,
     <<"Closed", "reopen", "Open">>}

-----------------------------------------------------------------------------
\* Whose turn it is; "" where the code writes NULL.  An RFI always has a
\* requesting party and a submittal a maker; the other parties may be missing.
IfNamed(party, parties, otherwise) == IF party \in parties THEN party ELSE otherwise

RfiBall(status, parties) ==
    CASE status \in {"Draft", "ClarificationRequired", "OfficialAnswered"} -> "requesting"
      [] status \in {"Submitted", "UnderReview"} -> IfNamed("responding", parties, "")
      [] status = "Closed" -> ""

SubmittalBall(status, parties) ==
    CASE status \in {"Draft", "ReviseAndResubmit", "Rejected"} -> "maker"
      [] status = "Submitted" -> IfNamed("lead", parties, IfNamed("consultant", parties, ""))
      [] status = "UnderReview" -> IfNamed("consultant", parties, "")
      [] status \in {"Approved", "ApprovedWithComments"} -> IfNamed("lead", parties, "")
      [] status = "Closed" -> ""

Absent == [kind |-> "None", status |-> "", ball |-> "", parties |-> {}, event |-> ""]

RfxInit ==
    /\ item = [i \in Items |-> Absent]
    /\ issue = [status |-> "None", rfi |-> NoItem]

Exists(i, kind) == item[i].kind = kind

Insert(i, kind, ball, parties, event) ==
    item' = [item EXCEPT ![i] = [kind |-> kind, status |-> "Submitted", ball |-> ball,
                                 parties |-> parties, event |-> event]]
Write(i, status, ball) ==
    item' = [item EXCEPT ![i].status = status, ![i].ball = ball]

-----------------------------------------------------------------------------
\* createRfi computes the first ball itself: without a responding party it
\* stays with the requesting one.  It may name an issue, and does not link it.
CreateRfi(i, parties) ==
    /\ Exists(i, "None")
    /\ Insert(i, "rfi", IfNamed("responding", parties, "requesting"), parties, "created")
    /\ UNCHANGED issue

TransitionRfi(i, action) ==
    /\ Exists(i, "rfi")
    /\ \E t \in RfiTransitions :
        /\ t[1] = item[i].status /\ t[2] = action
        /\ Write(i, t[3], RfiBall(t[3], item[i].parties))
    /\ UNCHANGED issue

\* createRfiResponse moves the RFI without the state machine, whatever its
\* status, and touches neither status nor ball if the status stays the same.
StatusAfter ==
    [official_answer |-> "OfficialAnswered",
     clarification_request |-> "ClarificationRequired",
     clarification_answer |-> "UnderReview"]

BallAfterResponse_Kept(i, status) == item[i].ball
BallAfterResponse(i, status) == RfiBall(status, item[i].parties)

RespondRfi(i, type) ==
    /\ Exists(i, "rfi")
    /\ IF StatusAfter[type] = item[i].status
       THEN UNCHANGED item
       ELSE Write(i, StatusAfter[type], BallAfterResponse(i, StatusAfter[type]))
    /\ UNCHANGED issue

-----------------------------------------------------------------------------
CreateSubmittal(i, parties) ==
    /\ Exists(i, "None")
    /\ Insert(i, "submittal", IfNamed("lead", parties, IfNamed("consultant", parties, "")),
              parties, "created")
    /\ UNCHANGED issue

MoveSubmittal(i, action) ==
    \E t \in SubmittalTransitions :
        /\ t[1] = item[i].status /\ t[2] = action
        /\ Write(i, t[3], SubmittalBall(t[3], item[i].parties))

TransitionSubmittal(i, action) ==
    /\ Exists(i, "submittal")
    /\ MoveSubmittal(i, action)
    /\ UNCHANGED issue

\* The checker's review sets the status whatever it was; the consultant's and
\* the owner's go through the state machine.
CheckerStatus(decision) == IF decision = "Rejected" THEN "Rejected" ELSE "UnderReview"

ReviewSubmittal(i, stage, decision) ==
    /\ Exists(i, "submittal")
    /\ IF stage = "checker"
       THEN Write(i, CheckerStatus(decision),
                  SubmittalBall(CheckerStatus(decision), item[i].parties))
       ELSE MoveSubmittal(i, decision)
    /\ UNCHANGED issue

-----------------------------------------------------------------------------
QuickCreateIssue ==
    /\ issue.status = "None"   \* bound: one issue
    /\ issue' = [issue EXCEPT !.status = "Open"]
    /\ UNCHANGED item

TransitionIssue(action) ==
    /\ \E t \in IssueTransitions :
        /\ t[1] = issue.status /\ t[2] = action
        /\ issue' = [issue EXCEPT !.status = t[3]]
    /\ UNCHANGED item

\* assertIssueMutable, ALREADY_ESCALATED
MayEscalate_Again == issue.status \notin {"None", "Closed"}
MayEscalate == issue.status \notin {"None", "Closed"} /\ issue.rfi = NoItem

EscalateToRfi(i, parties) ==
    /\ MayEscalate
    /\ Exists(i, "None")
    /\ Insert(i, "rfi", IfNamed("responding", parties, ""), parties, "escalated")
    /\ issue' = [issue EXCEPT !.rfi = i]

-----------------------------------------------------------------------------
NextRfi(i) ==
    \/ \E parties \in SUBSET {"responding"} : CreateRfi(i, parties) \/ EscalateToRfi(i, parties)
    \/ \E t \in RfiTransitions : TransitionRfi(i, t[2])
    \/ \E type \in DOMAIN StatusAfter : RespondRfi(i, type)

NextSubmittal(i) ==
    \/ \E parties \in SUBSET {"lead", "consultant"} : CreateSubmittal(i, parties)
    \/ \E t \in SubmittalTransitions : TransitionSubmittal(i, t[2])
    \/ \E stage \in {"checker", "consultant_lead", "owner_final"}, d \in Decisions :
        ReviewSubmittal(i, stage, d)

RfxNext ==
    \/ \E i \in Items : NextRfi(i) \/ NextSubmittal(i)
    \/ QuickCreateIssue
    \/ \E t \in IssueTransitions : TransitionIssue(t[2])

RfxSpec == RfxInit /\ [][RfxNext]_rfxVars

-----------------------------------------------------------------------------
RfiStatuses == {"Draft", "Submitted", "UnderReview", "ClarificationRequired",
                "OfficialAnswered", "Closed"}
SubmittalStatuses == {"Draft", "Submitted", "UnderReview", "Closed"} \cup Decisions
Rfis == [kind : {"rfi"}, status : RfiStatuses, ball : {"", "requesting", "responding"},
         parties : SUBSET {"responding"}, event : {"created", "escalated"}]
Submittals == [kind : {"submittal"}, status : SubmittalStatuses,
               ball : {"", "maker", "lead", "consultant"},
               parties : SUBSET {"lead", "consultant"}, event : {"created"}]

\* The CHECK constraints of migration 012, and whose the ball can be.
RfxTypeOK ==
    /\ item \in [Items -> {Absent} \cup Rfis \cup Submittals]
    /\ issue \in [status : {"None"} \cup {t[1] : t \in IssueTransitions},
                  rfi : Items \cup {NoItem}]

\* Whatever the handlers, their order and their repetitions, the ball is where
\* the status says (computeRfiBallInCourt, computeSubmittalBallInCourt): nobody
\* waits for an organization that is not asked.  The one exception is an RFI
\* that createRfi opened without a responding party and nobody has moved yet.
BallFollowsStatus ==
    \A i \in Items :
        /\ Exists(i, "rfi") =>
            \/ item[i].ball = RfiBall(item[i].status, item[i].parties)
            \/ /\ item[i].status = "Submitted" /\ item[i].parties = {}
               /\ item[i].event = "created" /\ item[i].ball = "requesting"
        /\ Exists(i, "submittal") =>
            item[i].ball = SubmittalBall(item[i].status, item[i].parties)

\* An issue is escalated to one RFI for good (escalateToRfi), though the command
\* is repeated, and the issue closed and reopened, while that RFI takes its
\* course: the RFI it points to is the only one that an escalation has opened.
EscalatedOnce ==
    \A i \in Items : item[i].event = "escalated" <=> issue.rfi = i
=============================================================================
