--------------------------- MODULE DocumentControl ---------------------------
(***************************************************************************)
(* Revisions of one controlled document: submission, review, comments,     *)
(* withdrawal and publication, as DocumentService runs them in PostgreSQL  *)
(* transactions at READ COMMITTED.                                         *)
(*                                                                         *)
(* transitionRevision takes the revision's row lock with its first read,   *)
(* so submit, decide and withdraw are one step each, enabled when no       *)
(* publication holds that lock.  Comments and dispositions read without a  *)
(* lock and insert later; the insert's foreign key waits for the lock of   *)
(* the revision.  A publication checks without locks and then runs         *)
(* publish_document_revision, which locks the revision, the document and   *)
(* finally the row of the revision it supersedes: one step per lock.       *)
(*                                                                         *)
(* Clients first look at a revision and later act on what they saw, with   *)
(* the versions they were shown.  Every user is allowed every action: the  *)
(* role checks restrict who acts, not what acting does.                    *)
(***************************************************************************)
EXTENDS ReviewRoute

CONSTANTS
  Revisions,  \* revisions of the document
  Users,      \* makers, reviewers and publishers
  Contexts,   \* distribution contexts
  Comments,   \* mandatory review comments that may be written
  Routes,     \* the review routes a submission may ask for
  MakerOf,    \* created_by of each revision
  None        \* NULL

ASSUME DocumentAssumption ==
  /\ None \notin Revisions \union Users \union Contexts \union Comments
  /\ MakerOf \in [Revisions -> Users]
  /\ \A rt \in Routes : IsRoute(rt, Users)
  /\ None \notin Routes

VARIABLES
  status,         \* document_revisions.status; "Absent" before the insert
  version,        \* document_revisions.version
  available,      \* revisions whose current file is 'Available'
  route,          \* the revision's review route, or None
  routeStatus,    \* revision_review_routes.status
  decision,       \* review_decisions of each revision
  about,          \* the revision a comment is on, None before the insert
  disposed,       \* comments with a disposition
  current,        \* document_current_revisions.revision_id, or None
  currentVersion, \* document_current_revisions.version, 0 without a row
  publishedBy,    \* actor of the 'publish' history row, or None
  pc,             \* where each user's request stands
  view,           \* what the client was shown and now acts on
  remark,         \* the comment a request is about, or None
  old,            \* old_revision_id of publish_document_revision
  rowLock,        \* publication that holds the revision's row lock, or None
  docLock         \* publication that holds the document's row lock, or None

revisionVars == <<status, version, available, route, routeStatus, decision>>
commentVars  == <<about, disposed>>
pointerVars  == <<current, currentVersion, publishedBy>>
requestVars  == <<pc, view, remark, old>>
lockVars     == <<rowLock, docLock>>
vars == <<revisionVars, commentVars, pointerVars, requestVars, lockVars>>

States == {"Absent", "Draft", "Under Review", "Approved", "Approved with Comments",
           "Rejected", "Published", "Superseded", "Withdrawn"}
Publishable == {"Approved", "Approved with Comments"}
Locking     == {"revision", "document", "write"}
Steps       == {"idle", "looked", "comment", "dispose", "publish"} \union Locking
NoView == [rev |-> None, version |-> 0, status |-> "Absent", context |-> None, current |-> 0]

Init ==
  /\ status         = [r \in Revisions |-> "Absent"]
  /\ version        = [r \in Revisions |-> 0]
  /\ available      = {}
  /\ route          = [r \in Revisions |-> None]
  /\ routeStatus    = [r \in Revisions |-> "Pending"]
  /\ decision       = [r \in Revisions |-> [u \in Users |-> Undecided]]
  /\ about          = [k \in Comments |-> None]
  /\ disposed       = {}
  /\ current        = [c \in Contexts |-> None]
  /\ currentVersion = [c \in Contexts |-> 0]
  /\ publishedBy    = [r \in Revisions |-> None]
  /\ pc             = [u \in Users |-> "idle"]
  /\ view           = [u \in Users |-> NoView]
  /\ remark         = [u \in Users |-> None]
  /\ old            = [u \in Users |-> None]
  /\ rowLock        = [r \in Revisions |-> None]
  /\ docLock        = None

-----------------------------------------------------------------------------
(* Requests *)

Unlocked(r) == rowLock[r] = None

Goto(u, step) == pc' = [pc EXCEPT ![u] = step]

End_KeepsDocLock(u) ==
  /\ Goto(u, "idle")
  /\ view'    = [view EXCEPT ![u] = NoView]
  /\ remark'  = [remark EXCEPT ![u] = None]
  /\ old'     = [old EXCEPT ![u] = None]
  /\ rowLock' = [r \in Revisions |-> IF rowLock[r] = u THEN None ELSE rowLock[r]]
  /\ UNCHANGED docLock

\* The request is over, by commit or by rollback: its locks are released.
End(u) ==
  /\ Goto(u, "idle")
  /\ view'    = [view EXCEPT ![u] = NoView]
  /\ remark'  = [remark EXCEPT ![u] = None]
  /\ old'     = [old EXCEPT ![u] = None]
  /\ rowLock' = [r \in Revisions |-> IF rowLock[r] = u THEN None ELSE rowLock[r]]
  /\ docLock' = IF docLock = u THEN None ELSE docLock

\* The client reads a revision and the version of a context's current pointer.
Look(u, r, c) ==
  /\ pc[u] = "idle"
  /\ status[r] # "Absent"
  /\ view' = [view EXCEPT ![u] = [rev |-> r, version |-> version[r], status |-> status[r],
                                  context |-> c, current |-> currentVersion[c]]]
  /\ Goto(u, "looked")
  /\ UNCHANGED <<revisionVars, commentVars, pointerVars, remark, old, lockVars>>

\* A failed check, a lost connection or a client that goes away: rollback.
GiveUp(u) ==
  /\ pc[u] # "idle"
  /\ End(u)
  /\ UNCHANGED <<revisionVars, commentVars, pointerVars>>

-----------------------------------------------------------------------------
(* Revision creation and its file *)

\* The insert's foreign key waits for the lock of the document.
CreateRevision(r) ==
  /\ status[r] = "Absent"
  /\ docLock = None
  /\ status'  = [status EXCEPT ![r] = "Draft"]
  /\ version' = [version EXCEPT ![r] = 1]
  /\ UNCHANGED <<available, route, routeStatus, decision, commentVars, pointerVars,
                 requestVars, lockVars>>

\* complete_file_processing promotes the uploaded file.
FileBecomesAvailable(r) ==
  /\ status[r] # "Absent"
  /\ r \notin available
  /\ available' = available \union {r}
  /\ UNCHANGED <<status, version, route, routeStatus, decision, commentVars, pointerVars,
                 requestVars, lockVars>>

-----------------------------------------------------------------------------
(* transitionRevision: submit_review, the three decisions, withdraw *)

Fresh_Unchecked(u) == TRUE

\* revision.version = expectedVersion
Fresh(u) == version[view[u].rev] = view[u].version

\* Enters a transition of r under its row lock with an up-to-date version.
Transition(u, r) ==
  /\ pc[u] = "looked"
  /\ r = view[u].rev
  /\ Unlocked(r)
  /\ Fresh(u)

\* changeRevisionState; the trigger increments the version.
ChangeState(r, target) ==
  /\ status'  = [status EXCEPT ![r] = target]
  /\ version' = [version EXCEPT ![r] = @ + 1]

SubmitReview(u, r, rt) ==
  /\ Transition(u, r)
  /\ status[r] = "Draft"
  /\ r \in available
  /\ MakerOf[r] \notin rt.reviewers
  /\ route' = [route EXCEPT ![r] = rt]
  /\ ChangeState(r, "Under Review")
  /\ End(u)
  /\ UNCHANGED <<available, routeStatus, decision, commentVars, pointerVars>>

InReview_Ever(r) == route[r] # None

InReview(r) == status[r] = "Under Review"

TargetOf(outcome) ==
  CASE outcome = "rejected"               -> "Rejected"
    [] outcome = "approved_with_comments" -> "Approved with Comments"
    [] outcome = "approved"               -> "Approved"

\* decideReview: an intermediate decision leaves the revision as it is.
Decide(u, r, choice) ==
  LET after   == [decision[r] EXCEPT ![u] = choice]
      outcome == Outcome(route[r], after)
  IN  /\ Transition(u, r)
      /\ InReview(r)
      /\ u # MakerOf[r]
      /\ u \in Actionable(route[r], decision[r])
      /\ decision' = [decision EXCEPT ![r] = after]
      /\ IF outcome = "pending"
           THEN UNCHANGED <<status, version, routeStatus>>
           ELSE /\ routeStatus' = [routeStatus EXCEPT ![r] =
                                     IF outcome = "rejected" THEN "Rejected" ELSE "Complete"]
                /\ ChangeState(r, TargetOf(outcome))
      /\ End(u)
      /\ UNCHANGED <<available, route, commentVars, pointerVars>>

Withdraw(u, r) ==
  /\ Transition(u, r)
  /\ status[r] \in {"Draft", "Under Review"}
  /\ \A c \in Contexts : current[c] # r
  /\ ChangeState(r, "Withdrawn")
  /\ End(u)
  /\ UNCHANGED <<available, route, routeStatus, decision, commentVars, pointerVars>>

-----------------------------------------------------------------------------
(* Comments and dispositions: an unlocked read, then an insert *)

OpenComments(r) == { k \in Comments : about[k] = r } \ disposed

\* Neither request carries a version.
Begin(u, step, r, k) ==
  /\ Goto(u, step)
  /\ view'   = [view EXCEPT ![u] = [NoView EXCEPT !.rev = r]]
  /\ remark' = [remark EXCEPT ![u] = k]
  /\ UNCHANGED <<revisionVars, commentVars, pointerVars, old, lockVars>>

\* addReviewComment reads the status and the caller's assignment.
ReadForComment(u, r, k) ==
  /\ pc[u] = "looked"
  /\ r = view[u].rev
  /\ status[r] = "Under Review"
  /\ u \in route[r].reviewers
  /\ about[k] = None
  /\ \A v \in Users : remark[v] # k
  /\ Begin(u, "comment", r, k)

InsertComment(u) ==
  /\ pc[u] = "comment"
  /\ Unlocked(view[u].rev)
  /\ about' = [about EXCEPT ![remark[u]] = view[u].rev]
  /\ End(u)
  /\ UNCHANGED <<revisionVars, disposed, pointerVars>>

\* disposeReviewComment reads the comment joined with its revision.
ReadForDisposition(u, r, k) ==
  /\ pc[u] = "looked"
  /\ r = view[u].rev
  /\ about[k] = r
  /\ status[r] \in {"Under Review", "Approved with Comments"}
  /\ Begin(u, "dispose", r, k)

\* comment_id is UNIQUE: a second disposition fails (GiveUp).
InsertDisposition(u) ==
  /\ pc[u] = "dispose"
  /\ Unlocked(view[u].rev)
  /\ remark[u] \notin disposed
  /\ disposed' = disposed \union {remark[u]}
  /\ End(u)
  /\ UNCHANGED <<revisionVars, about, pointerVars>>

-----------------------------------------------------------------------------
(* publish and publish_document_revision *)

\* assertPublishAllowed, and the same conditions inside the SQL function.
CommentsSettled(r) == status[r] = "Approved with Comments" => OpenComments(r) = {}

PublishAllowed(u, r) ==
  /\ status[r] \in Publishable
  /\ u # MakerOf[r]
  /\ routeStatus[r] = "Complete"
  /\ CommentsSettled(r)
  /\ r \in available

\* The checks publish makes on rows it has not locked.
RequestPublish(u, r) ==
  /\ pc[u] = "looked"
  /\ r = view[u].rev
  /\ PublishAllowed(u, r)
  /\ Goto(u, "publish")
  /\ UNCHANGED <<revisionVars, commentVars, pointerVars, view, remark, old, lockVars>>

\* SELECT ... FROM document_revisions ... FOR UPDATE
LockRevision(u) ==
  /\ pc[u] = "publish"
  /\ Unlocked(view[u].rev)
  /\ rowLock' = [rowLock EXCEPT ![view[u].rev] = u]
  /\ Goto(u, "revision")
  /\ UNCHANGED <<revisionVars, commentVars, pointerVars, view, remark, old, docLock>>

LockDocument_Omitted(u) ==
  /\ pc[u] = "revision"
  /\ Goto(u, "document")
  /\ UNCHANGED <<revisionVars, commentVars, pointerVars, view, remark, old, lockVars>>

\* PERFORM 1 FROM documents ... FOR UPDATE
LockDocument(u) ==
  /\ pc[u] = "revision"
  /\ docLock = None
  /\ docLock' = u
  /\ Goto(u, "document")
  /\ UNCHANGED <<revisionVars, commentVars, pointerVars, view, remark, old, rowLock>>

CurrentAsSeen_Unchecked(u) == TRUE

\* pointer.version = p_expected_current_version, 0 when there is no pointer
CurrentAsSeen(u) == currentVersion[view[u].context] = view[u].current

CheckedAgain_StatusOnly(u, r) ==
  status[r] \in Publishable /\ u # MakerOf[r] /\ Fresh(u) /\ CurrentAsSeen(u)

CheckedAgain(u, r) == PublishAllowed(u, r) /\ Fresh(u) /\ CurrentAsSeen(u)

\* The checks under the locks and the read of the pointer; RAISE rolls back.
CheckPublish(u) ==
  /\ pc[u] = "document"
  /\ IF CheckedAgain(u, view[u].rev)
       THEN /\ old' = [old EXCEPT ![u] = current[view[u].context]]
            /\ Goto(u, "write")
            /\ UNCHANGED <<view, remark, lockVars>>
       ELSE End(u)
  /\ UNCHANGED <<revisionVars, commentVars, pointerVars>>

Supersedes_Never(r, s) == FALSE

\* WHERE id = old_revision_id AND status = 'Published', old_revision_id <> candidate
Supersedes(r, s) == s # None /\ s # r /\ status[s] = "Published"

\* The updates of both revisions and the upsert of the pointer; the update of
\* the old revision waits for its row lock.
WritePublish(u) ==
  LET r == view[u].rev
      c == view[u].context
      s == old[u]
  IN  /\ pc[u] = "write"
      /\ s # None => Unlocked(s)
      /\ status' = [x \in Revisions |-> IF x = r THEN "Published"
                                        ELSE IF x = s /\ Supersedes(r, s) THEN "Superseded"
                                        ELSE status[x]]
      /\ version' = [x \in Revisions |-> IF x = r \/ (x = s /\ Supersedes(r, s))
                                           THEN version[x] + 1 ELSE version[x]]
      /\ current'        = [current EXCEPT ![c] = r]
      /\ currentVersion' = [currentVersion EXCEPT ![c] = @ + 1]
      /\ publishedBy'    = [publishedBy EXCEPT ![r] = u]
      /\ End(u)
      /\ UNCHANGED <<available, route, routeStatus, decision, commentVars>>

\* u waits for the document while its owner waits for the revision u has locked.
Deadlocked(u) ==
  /\ pc[u] = "revision"
  /\ \E v \in Users : docLock = v /\ pc[v] = "write" /\ old[v] # None /\ rowLock[old[v]] = u

\* PostgreSQL's deadlock detector aborts a transaction of the cycle.
DeadlockAbort(u) ==
  /\ Deadlocked(u)
  /\ End(u)
  /\ UNCHANGED <<revisionVars, commentVars, pointerVars>>

Publication(u) ==
  \/ LockRevision(u) \/ LockDocument(u) \/ CheckPublish(u) \/ WritePublish(u)
  \/ DeadlockAbort(u)

Next ==
  \/ \E r \in Revisions : CreateRevision(r) \/ FileBecomesAvailable(r)
  \/ \E u \in Users :
       \/ GiveUp(u) \/ InsertComment(u) \/ InsertDisposition(u) \/ Publication(u)
       \/ \E r \in Revisions :
            \/ \E c \in Contexts : Look(u, r, c)
            \/ \E rt \in Routes : SubmitReview(u, r, rt)
            \/ \E choice \in Decisions : Decide(u, r, choice)
            \/ Withdraw(u, r)
            \/ \E k \in Comments : ReadForComment(u, r, k) \/ ReadForDisposition(u, r, k)
            \/ RequestPublish(u, r)

Spec == Init /\ [][Next]_vars

\* PostgreSQL queues the waiters of a row lock, so a lock that is released again
\* and again is granted in the end; a statement that is not waiting finishes.
\* At each step of a publication at most one of the locks is being waited for.
Fairness == \A u \in Users : SF_vars(Publication(u))

FairSpec == Spec /\ Fairness

-----------------------------------------------------------------------------
(* Properties *)

Views == [rev : Revisions \union {None}, version : Nat, status : States,
          context : Contexts \union {None}, current : Nat]

TableTypes ==
  /\ status         \in [Revisions -> States]
  /\ version        \in [Revisions -> Nat]
  /\ available      \in SUBSET Revisions
  /\ route          \in [Revisions -> Routes \union {None}]
  /\ routeStatus    \in [Revisions -> {"Pending", "Complete", "Rejected"}]
  /\ decision       \in [Revisions -> [Users -> Decisions \union {Undecided}]]
  /\ about          \in [Comments -> Revisions \union {None}]
  /\ disposed       \in SUBSET Comments
  /\ current        \in [Contexts -> Revisions \union {None}]
  /\ currentVersion \in [Contexts -> Nat]
  /\ publishedBy    \in [Revisions -> Users \union {None}]

RequestTypes ==
  /\ pc      \in [Users -> Steps]
  /\ view    \in [Users -> Views]
  /\ remark  \in [Users -> Comments \union {None}]
  /\ old     \in [Users -> Revisions \union {None}]
  /\ rowLock \in [Revisions -> Users \union {None}]
  /\ docLock \in Users \union {None}
  /\ \A u \in Users :
       /\ pc[u] # "idle" => view[u].rev \in Revisions
       /\ pc[u] \in {"comment", "dispose"} => remark[u] \in Comments
       /\ pc[u] \in {"looked", "publish"} \union Locking => view[u].context \in Contexts

LocksMatchSteps ==
  /\ \A u \in Users, r \in Revisions :
       rowLock[r] = u <=> pc[u] \in Locking /\ view[u].rev = r
  /\ \A u \in Users : docLock = u <=> pc[u] \in {"document", "write"}

\* Every variable has its type, and a request holds exactly the locks of the
\* step it is at: no rollback or commit leaves a row locked.
TypeOK == TableTypes /\ RequestTypes /\ LocksMatchSteps

\* The distribution promise of publish_document_revision: a revision is
\* 'Published' exactly if it is the current one of a context, and of one only.
\* Concurrent first publications, when there is no pointer row to lock, are
\* what could leave a second published revision behind.
PublishedIsCurrent ==
  /\ \A r \in Revisions :
       status[r] = "Published" <=> \E c \in Contexts : current[c] = r
  /\ \A c, d \in Contexts : c # d /\ current[c] # None => current[c] # current[d]

\* Every revision that is or was published was approved by as many reviewers
\* as its route asks for, rejected by fewer than its threshold, decided by no
\* maker, and published by somebody who did not make it.
PublishedWasReviewed ==
  \A r \in Revisions :
    status[r] \in Publishable \union {"Published", "Superseded"} =>
      /\ Cardinality(Approvals(route[r], decision[r])) >= route[r].requiredApprovals
      /\ Cardinality(Rejects(route[r], decision[r])) < route[r].rejectThreshold
      /\ decision[r][MakerOf[r]] = Undecided
      /\ publishedBy[r] # MakerOf[r]

\* A sequential route is decided in its order: nobody decides before a reviewer
\* with a smaller sequence has decided.
DecidedInOrder ==
  \A r \in Revisions :
    route[r] # None =>
      (route[r].mode = "sequential" =>
         \A u, v \in route[r].reviewers :
           decision[r][u] # Undecided /\ route[r].order[v] < route[r].order[u]
             => decision[r][v] # Undecided)

\* A decision is never edited, and none is added once the revision has left
\* review, by the outcome of the route or by withdrawal.
DecisionsAreFinal ==
  [][\A r \in Revisions, u \in Users :
       decision'[r][u] # decision[r][u] =>
         decision[r][u] = Undecided /\ status[r] = "Under Review"]_vars

\* While a review is open somebody can decide, under every route the code takes:
\* it does not get stuck on reviewers who are not actionable.  The exception are
\* thresholds that can both be missed (evaluateReviewRoute bounds each of them by
\* itself; the default ones are decisive): then all have decided, the outcome is
\* still pending, and what is left is to withdraw, which nothing forbids.
OpenReviewIsActionable ==
  \A r \in Revisions :
    status[r] = "Under Review" =>
      \/ Actionable(route[r], decision[r]) # {}
      \/ /\ Pending(route[r], decision[r]) = {}
         /\ ~Decisive(route[r])
         /\ \A c \in Contexts : current[c] # r

\* Who moves a revision out of a state was shown it in that state: an approval
\* or withdrawal sent for an older state is refused.  (The revision that a
\* publication supersedes is not the one its publisher acted on.)
ActsOnSeenStatus ==
  [][\A u \in Users :
       LET r == view[u].rev
       IN  (pc[u] # "idle" /\ pc'[u] = "idle" /\ status'[r] # status[r])
             => status[r] = view[u].status]_vars

\* A publication replaces the current revision its client was shown, and not
\* one that another publication put there meanwhile.
ReplacesWhatWasSeen ==
  [][\A c \in Contexts :
       current'[c] # current[c] =>
         \E u \in Users : /\ pc[u] = "write" /\ pc'[u] = "idle"
                          /\ view[u].context = c
                          /\ view[u].current = currentVersion[c]
                          /\ old[u] = current[c]]_vars

\* No revision approved with comments is published while a mandatory comment
\* on it has no disposition, also when the comment arrives between publish's
\* first check and the lock.
CommentsSettledAtPublication ==
  [][\A r \in Revisions :
       status[r] = "Approved with Comments" /\ status'[r] = "Published" =>
         OpenComments(r) = {}]_vars

\* Every publication that starts ends, by commit or rollback, although two of
\* them may wait for each other's locks.
PublicationEnds == \A u \in Users : pc[u] = "publish" ~> pc[u] = "idle"

\* What the publication of u waits for at its step is there: the guards of the
\* five steps of Publication.
MayMove(u) ==
  \/ pc[u] = "publish" /\ Unlocked(view[u].rev)
  \/ pc[u] = "revision" /\ docLock = None
  \/ pc[u] = "document"
  \/ pc[u] = "write" /\ (old[u] # None => Unlocked(old[u]))
  \/ Deadlocked(u)

\* The publications under way never all wait for one another: the locks of the
\* revision, the document and the superseded revision are taken in an order that
\* leaves no cycle but the one the deadlock detector resolves.
SomebodyMoves ==
  (\E u \in Users : pc[u] \in {"publish"} \union Locking) => \E u \in Users : MayMove(u)

\* The document refines the abstract distribution of one current revision.
Promise == INSTANCE Distribution WITH
  shown   <- { r \in Revisions : status[r] = "Published" },
  retired <- { r \in Revisions : status[r] = "Superseded" }
ImplementsDistribution == Promise!Spec

\* What the domain error of assertPublishAllowed says ("All mandatory review
\* comments require a disposition before publication."), of the revisions
\* that were approved with comments.
NoOpenCommentOnPublished ==
  \A r \in Revisions :
    status[r] = "Published"
      /\ (\E u \in Users : decision[r][u] = "approve_with_comments") => OpenComments(r) = {}

=============================================================================
