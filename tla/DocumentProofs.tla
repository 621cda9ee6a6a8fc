--------------------------- MODULE DocumentProofs ---------------------------
(***************************************************************************)
(* Safety of document control for every set of revisions, users, contexts  *)
(* and comments and every set of review routes: first publication and its  *)
(* locks, then the review that comes before it.                            *)
(***************************************************************************)
EXTENDS DocumentControl, FiniteSetTheorems, WellFoundedInduction, TLAPS

-----------------------------------------------------------------------------
(* Types and locks *)

LEMMA NoViewType == NoView \in Views
  BY DEF NoView, Views, States

\* Ending a request keeps the request types and gives back its locks.
LEMMA EndStep ==
  ASSUME TypeOK, NEW u \in Users, End(u)
  PROVE  RequestTypes' /\ LocksMatchSteps'
<1>1. /\ pc'     \in [Users -> Steps]
      /\ remark' \in [Users -> Comments \union {None}]
      /\ old'    \in [Users -> Revisions \union {None}]
      /\ docLock' \in Users \union {None}
  BY DEF End, Goto, TypeOK, RequestTypes, Steps
<1>2. view' \in [Users -> Views]
  BY NoViewType DEF End, TypeOK, RequestTypes
<1>3. rowLock' \in [Revisions -> Users \union {None}]
  BY DEF End, TypeOK, RequestTypes
<1>4. ASSUME NEW v \in Users, v # u
      PROVE  pc'[v] = pc[v] /\ view'[v] = view[v] /\ remark'[v] = remark[v]
  BY <1>4 DEF End, Goto, TypeOK, RequestTypes
<1>5. pc'[u] = "idle"
  BY DEF End, Goto, TypeOK, RequestTypes
<1>6. RequestTypes'
  <2>1. ASSUME NEW v \in Users
        PROVE  /\ pc'[v] # "idle" => view'[v].rev \in Revisions
               /\ pc'[v] \in {"comment", "dispose"} => remark'[v] \in Comments
               /\ pc'[v] \in {"looked", "publish"} \union Locking
                    => view'[v].context \in Contexts
    BY <1>4, <1>5, <2>1 DEF TypeOK, RequestTypes, Locking
  <2> QED BY <1>1, <1>2, <1>3, <2>1 DEF RequestTypes
<1>7. ASSUME NEW v \in Users, NEW r \in Revisions
      PROVE  rowLock'[r] = v <=> pc'[v] \in Locking /\ view'[v].rev = r
  <2>1. rowLock'[r] = IF rowLock[r] = u THEN None ELSE rowLock[r]
    BY DEF End
  <2>2. CASE v = u
    BY <1>5, <2>1, <2>2, DocumentAssumption DEF Locking
  <2>3. CASE v # u
    BY <1>4, <2>1, <2>3, DocumentAssumption DEF TypeOK, LocksMatchSteps
  <2> QED BY <2>2, <2>3
<1>8. ASSUME NEW v \in Users
      PROVE  docLock' = v <=> pc'[v] \in {"document", "write"}
  <2>1. docLock' = IF docLock = u THEN None ELSE docLock
    BY DEF End
  <2>2. CASE v = u
    BY <1>5, <2>1, <2>2, DocumentAssumption
  <2>3. CASE v # u
    BY <1>4, <2>1, <2>3, DocumentAssumption DEF TypeOK, LocksMatchSteps
  <2> QED BY <2>2, <2>3
<1> QED BY <1>6, <1>7, <1>8 DEF LocksMatchSteps

LEMMA InitTypeOK == Init => TypeOK
<1> SUFFICES ASSUME Init PROVE TypeOK
  OBVIOUS
<1>1. TableTypes
  BY DEF Init, TableTypes, States
<1>2. RequestTypes
  BY NoViewType DEF Init, RequestTypes, Steps, Locking
<1>3. LocksMatchSteps
  BY DocumentAssumption DEF Init, LocksMatchSteps, Locking
<1> QED BY <1>1, <1>2, <1>3 DEF TypeOK

\* The steps that touch the tables only, or end a request having done so.
LEMMA CreateRevisionType ==
  ASSUME TypeOK, NEW r \in Revisions, CreateRevision(r) PROVE TypeOK'
<1>1. TableTypes'
  BY DEF TypeOK, TableTypes, CreateRevision, commentVars, pointerVars, States
<1> QED BY <1>1 DEF TypeOK, RequestTypes, LocksMatchSteps, CreateRevision, requestVars, lockVars

LEMMA FileBecomesAvailableType ==
  ASSUME TypeOK, NEW r \in Revisions, FileBecomesAvailable(r) PROVE TypeOK'
<1>1. TableTypes'
  BY DEF TypeOK, TableTypes, FileBecomesAvailable, commentVars, pointerVars
<1> QED
  BY <1>1 DEF TypeOK, RequestTypes, LocksMatchSteps, FileBecomesAvailable, requestVars, lockVars

LEMMA GiveUpType ==
  ASSUME TypeOK, NEW u \in Users, GiveUp(u) PROVE TypeOK'
<1>1. TableTypes'
  BY DEF TypeOK, TableTypes, GiveUp, revisionVars, commentVars, pointerVars
<1> QED BY <1>1, EndStep DEF TypeOK, GiveUp

LEMMA LookType ==
  ASSUME TypeOK, NEW u \in Users, NEW r \in Revisions, NEW c \in Contexts, Look(u, r, c)
  PROVE  TypeOK'
<1>1. TableTypes'
  BY DEF TypeOK, TableTypes, Look, revisionVars, commentVars, pointerVars
<1>2. /\ pc[u] = "idle"
      /\ pc' = [pc EXCEPT ![u] = "looked"]
      /\ view' = [view EXCEPT ![u] = [rev |-> r, version |-> version[r], status |-> status[r],
                                      context |-> c, current |-> currentVersion[c]]]
      /\ UNCHANGED <<remark, old, rowLock, docLock>>
  BY DEF Look, Goto, lockVars
<1>3. view' \in [Users -> Views]
  BY <1>2 DEF TypeOK, TableTypes, RequestTypes, Views
<1>4. view'[u].rev = r /\ view'[u].context = c /\ pc'[u] = "looked"
  BY <1>2 DEF TypeOK, RequestTypes
<1>5. \A v \in Users : v # u => pc'[v] = pc[v] /\ view'[v] = view[v]
  BY <1>2 DEF TypeOK, RequestTypes
<1>6. RequestTypes'
  BY <1>2, <1>3, <1>4, <1>5 DEF TypeOK, RequestTypes, Steps, Locking
<1>7. LocksMatchSteps'
  BY <1>2, <1>4, <1>5 DEF TypeOK, LocksMatchSteps, Locking
<1> QED BY <1>1, <1>6, <1>7 DEF TypeOK

LEMMA ChangeStateType ==
  ASSUME TypeOK, NEW r \in Revisions, NEW target \in States, ChangeState(r, target)
  PROVE  status' \in [Revisions -> States] /\ version' \in [Revisions -> Nat]
<1>1. status' = [status EXCEPT ![r] = target] /\ version' = [version EXCEPT ![r] = @ + 1]
  BY DEF ChangeState
<1> QED BY <1>1 DEF TypeOK, TableTypes

LEMMA SubmitReviewType ==
  ASSUME TypeOK, NEW u \in Users, NEW r \in Revisions, NEW rt \in Routes, SubmitReview(u, r, rt)
  PROVE  TypeOK'
<1>1. status' \in [Revisions -> States] /\ version' \in [Revisions -> Nat]
  BY ChangeStateType DEF SubmitReview, States
<1>2. route' \in [Revisions -> Routes \union {None}]
  BY DEF TypeOK, TableTypes, SubmitReview
<1>3. UNCHANGED <<available, routeStatus, decision, about, disposed, current,
                  currentVersion, publishedBy>>
  BY DEF SubmitReview, commentVars, pointerVars
<1>4. TableTypes'
  BY <1>1, <1>2, <1>3 DEF TypeOK, TableTypes
<1> QED BY <1>4, EndStep DEF TypeOK, SubmitReview

LEMMA TargetOfType ==
  ASSUME NEW rt, NEW d, Outcome(rt, d) # "pending"
  PROVE  TargetOf(Outcome(rt, d)) \in {"Rejected", "Approved", "Approved with Comments"}
  BY DEF Outcome, TargetOf

LEMMA DecideType ==
  ASSUME TypeOK, NEW u \in Users, NEW r \in Revisions, NEW choice \in Decisions,
         Decide(u, r, choice)
  PROVE  TypeOK'
<1> DEFINE after == [decision[r] EXCEPT ![u] = choice]
<1>1. decision' \in [Revisions -> [Users -> Decisions \union {Undecided}]]
  <2>1. after \in [Users -> Decisions \union {Undecided}]
    BY DEF TypeOK, TableTypes
  <2>2. decision' = [decision EXCEPT ![r] = after]
    BY DEF Decide
  <2> QED BY <2>1, <2>2 DEF TypeOK, TableTypes
<1>2. /\ status' \in [Revisions -> States]
      /\ version' \in [Revisions -> Nat]
      /\ routeStatus' \in [Revisions -> {"Pending", "Complete", "Rejected"}]
  <2>1. CASE Outcome(route[r], after) = "pending"
    BY <2>1 DEF Decide, TypeOK, TableTypes
  <2>2. CASE Outcome(route[r], after) # "pending"
    <3>1. ChangeState(r, TargetOf(Outcome(route[r], after)))
      BY <2>2 DEF Decide
    <3>2. TargetOf(Outcome(route[r], after)) \in States
      BY <2>2, TargetOfType DEF States
    <3>3. routeStatus' \in [Revisions -> {"Pending", "Complete", "Rejected"}]
      BY <2>2 DEF Decide, TypeOK, TableTypes
    <3> QED BY <3>1, <3>2, <3>3, ChangeStateType
  <2> QED BY <2>1, <2>2
<1>3. UNCHANGED <<available, route, about, disposed, current, currentVersion, publishedBy>>
  BY DEF Decide, commentVars, pointerVars
<1>4. TableTypes'
  BY <1>1, <1>2, <1>3 DEF TypeOK, TableTypes
<1> QED BY <1>4, EndStep DEF TypeOK, Decide

LEMMA WithdrawType ==
  ASSUME TypeOK, NEW u \in Users, NEW r \in Revisions, Withdraw(u, r) PROVE TypeOK'
<1>1. status' \in [Revisions -> States] /\ version' \in [Revisions -> Nat]
  BY ChangeStateType DEF Withdraw, States
<1>2. UNCHANGED <<available, route, routeStatus, decision, about, disposed, current,
                  currentVersion, publishedBy>>
  BY DEF Withdraw, commentVars, pointerVars
<1>3. TableTypes'
  BY <1>1, <1>2 DEF TypeOK, TableTypes
<1> QED BY <1>3, EndStep DEF TypeOK, Withdraw

\* A comment or disposition takes up a request that holds no lock.
LEMMA BeginType ==
  ASSUME TypeOK, NEW u \in Users, NEW r \in Revisions, NEW k \in Comments,
         NEW step \in {"comment", "dispose"}, pc[u] = "looked", Begin(u, step, r, k)
  PROVE  TypeOK'
<1>1. TableTypes'
  BY DEF TypeOK, TableTypes, Begin, revisionVars, commentVars, pointerVars
<1>2. /\ pc' = [pc EXCEPT ![u] = step]
      /\ view' = [view EXCEPT ![u] = [NoView EXCEPT !.rev = r]]
      /\ remark' = [remark EXCEPT ![u] = k]
      /\ UNCHANGED <<old, rowLock, docLock>>
  BY DEF Begin, Goto, lockVars
<1>3. [NoView EXCEPT !.rev = r] \in Views /\ [NoView EXCEPT !.rev = r].rev = r
  BY DEF NoView, Views, States
<1>4. /\ view'[u].rev = r /\ pc'[u] = step /\ remark'[u] = k
      /\ view' \in [Users -> Views]
  BY <1>2, <1>3 DEF TypeOK, RequestTypes
<1>5. \A v \in Users : v # u => pc'[v] = pc[v] /\ view'[v] = view[v] /\ remark'[v] = remark[v]
  BY <1>2 DEF TypeOK, RequestTypes
<1>6. RequestTypes'
  BY <1>2, <1>4, <1>5 DEF TypeOK, RequestTypes, Steps, Locking
<1>7. LocksMatchSteps'
  BY <1>2, <1>4, <1>5 DEF TypeOK, LocksMatchSteps, Locking
<1> QED BY <1>1, <1>6, <1>7 DEF TypeOK

LEMMA InsertCommentType ==
  ASSUME TypeOK, NEW u \in Users, InsertComment(u) PROVE TypeOK'
<1>1. about' \in [Comments -> Revisions \union {None}]
  BY DEF TypeOK, TableTypes, RequestTypes, InsertComment
<1>2. TableTypes'
  BY <1>1 DEF TypeOK, TableTypes, InsertComment, revisionVars, pointerVars
<1> QED BY <1>2, EndStep DEF TypeOK, InsertComment

LEMMA InsertDispositionType ==
  ASSUME TypeOK, NEW u \in Users, InsertDisposition(u) PROVE TypeOK'
<1>1. disposed' \in SUBSET Comments
  BY DEF TypeOK, TableTypes, RequestTypes, InsertDisposition
<1>2. TableTypes'
  BY <1>1 DEF TypeOK, TableTypes, InsertDisposition, revisionVars, pointerVars
<1> QED BY <1>2, EndStep DEF TypeOK, InsertDisposition

LEMMA RequestPublishType ==
  ASSUME TypeOK, NEW u \in Users, NEW r \in Revisions, RequestPublish(u, r) PROVE TypeOK'
<1>1. TableTypes'
  BY DEF TypeOK, TableTypes, RequestPublish, revisionVars, commentVars, pointerVars
<1>2. /\ pc[u] = "looked"
      /\ pc' = [pc EXCEPT ![u] = "publish"]
      /\ UNCHANGED <<view, remark, old, rowLock, docLock>>
  BY DEF RequestPublish, Goto, lockVars
<1>3. RequestTypes'
  BY <1>2 DEF TypeOK, RequestTypes, Steps, Locking
<1>4. LocksMatchSteps'
  BY <1>2 DEF TypeOK, RequestTypes, LocksMatchSteps, Locking
<1> QED BY <1>1, <1>3, <1>4 DEF TypeOK

LEMMA LockRevisionType ==
  ASSUME TypeOK, NEW u \in Users, LockRevision(u) PROVE TypeOK'
<1>1. TableTypes'
  BY DEF TypeOK, TableTypes, LockRevision, revisionVars, commentVars, pointerVars
<1>2. /\ pc[u] = "publish"
      /\ view[u].rev \in Revisions
      /\ rowLock[view[u].rev] = None
      /\ rowLock' = [rowLock EXCEPT ![view[u].rev] = u]
      /\ pc' = [pc EXCEPT ![u] = "revision"]
      /\ UNCHANGED <<view, remark, old, docLock>>
  BY DEF LockRevision, Unlocked, Goto, TypeOK, RequestTypes
<1>3. RequestTypes'
  BY <1>2 DEF TypeOK, RequestTypes, Steps, Locking
<1>4. ASSUME NEW v \in Users, NEW r \in Revisions
      PROVE  rowLock'[r] = v <=> pc'[v] \in Locking /\ view'[v].rev = r
  <2>1. rowLock[r] = v <=> pc[v] \in Locking /\ view[v].rev = r
    BY DEF TypeOK, LocksMatchSteps
  <2>2. CASE v = u
    BY <1>2, <2>1, <2>2, DocumentAssumption DEF TypeOK, RequestTypes, Locking
  <2>3. CASE v # u
    BY <1>2, <2>1, <2>3, DocumentAssumption DEF TypeOK, RequestTypes, Locking
  <2> QED BY <2>2, <2>3
<1>5. \A v \in Users : docLock' = v <=> pc'[v] \in {"document", "write"}
  BY <1>2 DEF TypeOK, RequestTypes, LocksMatchSteps
<1> QED BY <1>1, <1>3, <1>4, <1>5 DEF TypeOK, LocksMatchSteps

LEMMA LockDocumentType ==
  ASSUME TypeOK, NEW u \in Users, LockDocument(u) PROVE TypeOK'
<1>1. TableTypes'
  BY DEF TypeOK, TableTypes, LockDocument, revisionVars, commentVars, pointerVars
<1>2. /\ pc[u] = "revision"
      /\ docLock = None
      /\ docLock' = u
      /\ pc' = [pc EXCEPT ![u] = "document"]
      /\ UNCHANGED <<view, remark, old, rowLock>>
  BY DEF LockDocument, Goto
<1>3. RequestTypes'
  BY <1>2 DEF TypeOK, RequestTypes, Steps, Locking
<1>4. \A v \in Users, r \in Revisions :
        rowLock'[r] = v <=> pc'[v] \in Locking /\ view'[v].rev = r
  BY <1>2 DEF TypeOK, RequestTypes, LocksMatchSteps, Locking
<1>5. \A v \in Users : docLock' = v <=> pc'[v] \in {"document", "write"}
  BY <1>2, DocumentAssumption DEF TypeOK, RequestTypes, LocksMatchSteps
<1> QED BY <1>1, <1>3, <1>4, <1>5 DEF TypeOK, LocksMatchSteps

LEMMA CheckPublishType ==
  ASSUME TypeOK, NEW u \in Users, CheckPublish(u) PROVE TypeOK'
<1>1. TableTypes'
  BY DEF TypeOK, TableTypes, CheckPublish, revisionVars, commentVars, pointerVars
<1>2. CASE CheckedAgain(u, view[u].rev)
  <2>1. /\ pc[u] = "document"
        /\ view[u].context \in Contexts
        /\ old' = [old EXCEPT ![u] = current[view[u].context]]
        /\ pc' = [pc EXCEPT ![u] = "write"]
        /\ UNCHANGED <<view, remark, rowLock, docLock>>
    BY <1>2 DEF CheckPublish, Goto, TypeOK, RequestTypes, lockVars, Locking
  <2>2. old' \in [Users -> Revisions \union {None}]
    BY <2>1 DEF TypeOK, TableTypes, RequestTypes
  <2>3. RequestTypes'
    BY <2>1, <2>2 DEF TypeOK, RequestTypes, Steps, Locking
  <2>4. LocksMatchSteps'
    BY <2>1 DEF TypeOK, RequestTypes, LocksMatchSteps, Locking
  <2> QED BY <1>1, <2>3, <2>4 DEF TypeOK
<1>3. CASE ~CheckedAgain(u, view[u].rev)
  BY <1>1, <1>3, EndStep DEF TypeOK, CheckPublish
<1> QED BY <1>2, <1>3

LEMMA WritePublishType ==
  ASSUME TypeOK, NEW u \in Users, WritePublish(u) PROVE TypeOK'
<1>1. view[u].rev \in Revisions /\ view[u].context \in Contexts
  BY DEF WritePublish, TypeOK, RequestTypes, Locking
<1>2. status' \in [Revisions -> States]
  BY DEF WritePublish, TypeOK, TableTypes, States
<1>3. version' \in [Revisions -> Nat]
  BY DEF WritePublish, TypeOK, TableTypes
<1>4. /\ current' \in [Contexts -> Revisions \union {None}]
      /\ currentVersion' \in [Contexts -> Nat]
      /\ publishedBy' \in [Revisions -> Users \union {None}]
  BY <1>1 DEF WritePublish, TypeOK, TableTypes
<1>5. UNCHANGED <<available, route, routeStatus, decision, about, disposed>>
  BY DEF WritePublish, commentVars
<1>6. TableTypes'
  BY <1>2, <1>3, <1>4, <1>5 DEF TypeOK, TableTypes
<1> QED BY <1>6, EndStep DEF TypeOK, WritePublish

LEMMA DeadlockAbortType ==
  ASSUME TypeOK, NEW u \in Users, DeadlockAbort(u) PROVE TypeOK'
<1>1. TableTypes'
  BY DEF TypeOK, TableTypes, DeadlockAbort, revisionVars, commentVars, pointerVars
<1> QED BY <1>1, EndStep DEF TypeOK, DeadlockAbort

LEMMA NextKeepsTypeOK == TypeOK /\ [Next]_vars => TypeOK'
<1> SUFFICES ASSUME TypeOK, [Next]_vars PROVE TypeOK'
  OBVIOUS
<1>1. CASE UNCHANGED vars
  BY <1>1 DEF TypeOK, TableTypes, RequestTypes, LocksMatchSteps, vars, revisionVars,
              commentVars, pointerVars, requestVars, lockVars
<1>2. CASE \E r \in Revisions : CreateRevision(r) \/ FileBecomesAvailable(r)
  BY <1>2, CreateRevisionType, FileBecomesAvailableType
<1>3. ASSUME NEW u \in Users, GiveUp(u) \/ InsertComment(u) \/ InsertDisposition(u)
      PROVE  TypeOK'
  BY <1>3, GiveUpType, InsertCommentType, InsertDispositionType
<1>4. ASSUME NEW u \in Users, Publication(u) PROVE TypeOK'
  BY <1>4, LockRevisionType, LockDocumentType, CheckPublishType, WritePublishType,
     DeadlockAbortType DEF Publication
<1>5. ASSUME NEW u \in Users, NEW r \in Revisions,
             \/ \E c \in Contexts : Look(u, r, c)
             \/ \E rt \in Routes : SubmitReview(u, r, rt)
             \/ \E choice \in Decisions : Decide(u, r, choice)
             \/ Withdraw(u, r)
      PROVE  TypeOK'
  BY <1>5, LookType, SubmitReviewType, DecideType, WithdrawType
<1>6. ASSUME NEW u \in Users, NEW r \in Revisions, NEW k \in Comments,
             ReadForComment(u, r, k) \/ ReadForDisposition(u, r, k)
      PROVE  TypeOK'
  BY <1>6, BeginType DEF ReadForComment, ReadForDisposition
<1>7. ASSUME NEW u \in Users, NEW r \in Revisions, RequestPublish(u, r) PROVE TypeOK'
  BY <1>7, RequestPublishType
<1> QED BY <1>1, <1>2, <1>3, <1>4, <1>5, <1>6, <1>7 DEF Next

\* Every reachable state is well typed, and the locks held are exactly those of
\* the publications under way: no commit, rollback or deadlock victim leaves a
\* row locked.
THEOREM DocumentTypeOK == Spec => []TypeOK
BY InitTypeOK, NextKeepsTypeOK, PTL DEF Spec

-----------------------------------------------------------------------------
(* One current revision per context *)

\* What a publication has established when it comes to its updates: under the
\* locks it holds nothing of it can change any more.
WriterIsReady ==
  \A u \in Users : pc[u] = "write" =>
    /\ old[u] = current[view[u].context]
    /\ view[u].current = currentVersion[view[u].context]
    /\ status[view[u].rev] \in Publishable
    /\ u # MakerOf[view[u].rev]
    /\ CommentsSettled(view[u].rev)

PInv == TypeOK /\ PublishedIsCurrent /\ WriterIsReady

LEMMA InitPInv == Init => PInv
<1> SUFFICES ASSUME Init PROVE PInv
  OBVIOUS
<1>1. PublishedIsCurrent
  BY DocumentAssumption DEF Init, PublishedIsCurrent
<1>2. WriterIsReady
  BY DEF Init, WriterIsReady
<1> QED BY InitTypeOK, <1>1, <1>2 DEF PInv

\* A step is quiet if it leaves the pointers alone, moves only unlocked
\* or new revisions, none of them into or out of distribution, adds no open comment to
\* a locked one, and brings nobody to the updates.
Quiet ==
  /\ UNCHANGED <<current, currentVersion>>
  /\ \A x \in Revisions :
       \/ status'[x] = status[x]
       \/ /\ Unlocked(x) \/ status[x] = "Absent"
          /\ status[x]  \notin {"Published", "Superseded"}
          /\ status'[x] \notin {"Published", "Superseded"}
  /\ \A x \in Revisions : Unlocked(x) \/ OpenComments(x)' \subseteq OpenComments(x)
  /\ \A v \in Users : pc'[v] = "write" =>
       pc[v] = "write" /\ view'[v] = view[v] /\ old'[v] = old[v]

LEMMA QuietStep == ASSUME PInv, TypeOK', Quiet PROVE PInv'
<1>1. PublishedIsCurrent'
  BY DEF PInv, PublishedIsCurrent, Quiet
<1>2. ASSUME NEW v \in Users, pc'[v] = "write"
      PROVE  /\ old'[v] = current'[view'[v].context]
             /\ view'[v].current = currentVersion'[view'[v].context]
             /\ status'[view'[v].rev] \in Publishable
             /\ v # MakerOf[view'[v].rev]
             /\ CommentsSettled(view[v].rev)'
  <2>1. pc[v] = "write" /\ view'[v] = view[v] /\ old'[v] = old[v]
    BY <1>2 DEF Quiet
  <2>2. PICK r \in Revisions : r = view[v].rev
    BY <2>1 DEF PInv, TypeOK, RequestTypes, Locking
  <2>3. ~Unlocked(r)
    BY <2>1, <2>2, DocumentAssumption DEF PInv, TypeOK, LocksMatchSteps, Locking, Unlocked
  <2>4. /\ old[v] = current[view[v].context]
        /\ view[v].current = currentVersion[view[v].context]
        /\ status[r] \in Publishable
        /\ v # MakerOf[r]
        /\ CommentsSettled(r)
    BY <2>1, <2>2 DEF PInv, WriterIsReady
  <2>5. /\ status'[r] = status[r]
        /\ OpenComments(r)' \subseteq OpenComments(r)
    BY <2>3, <2>4 DEF Quiet, Publishable
  <2>6. CommentsSettled(r)'
    BY <2>4, <2>5 DEF CommentsSettled
  <2>7. CommentsSettled(view[v].rev)'
    BY <2>1, <2>2, <2>6 DEF CommentsSettled, OpenComments
  <2> QED BY <2>1, <2>2, <2>4, <2>5, <2>7 DEF Quiet
<1> QED BY <1>1, <1>2 DEF PInv, WriterIsReady

LEMMA EndLeavesOthers ==
  ASSUME TypeOK, NEW u \in Users, End(u)
  PROVE  \A v \in Users : pc'[v] = "write" =>
           v # u /\ pc[v] = "write" /\ view'[v] = view[v] /\ old'[v] = old[v]
BY DEF End, Goto, TypeOK, RequestTypes

\* Every step but the last two of a publication is quiet.
LEMMA EndingIsQuiet ==
  ASSUME TypeOK, NEW u \in Users, End(u), UNCHANGED <<status, about, disposed, pointerVars>>
  PROVE  Quiet
BY EndLeavesOthers DEF Quiet, OpenComments, pointerVars

LEMMA MovingOnIsQuiet ==
  ASSUME TypeOK, NEW u \in Users, NEW step \in Steps \ {"write"}, Goto(u, step),
         \A v \in Users : v # u => view'[v] = view[v],
         UNCHANGED <<old, status, about, disposed, pointerVars>>
  PROVE  Quiet
<1>1. \A v \in Users : pc'[v] = "write" => v # u /\ pc[v] = "write"
  BY DEF Goto, TypeOK, RequestTypes
<1> QED BY <1>1 DEF Quiet, OpenComments, pointerVars

LEMMA ChangeStateIsQuiet ==
  ASSUME TypeOK, NEW u \in Users, NEW r \in Revisions, NEW target \in States,
         Unlocked(r), status[r] \notin {"Published", "Superseded"},
         target \notin {"Published", "Superseded"},
         ChangeState(r, target), End(u), UNCHANGED <<about, disposed, pointerVars>>
  PROVE  Quiet
<1>1. \A x \in Revisions : status'[x] = IF x = r THEN target ELSE status[x]
  BY DEF ChangeState, TypeOK, TableTypes
<1> QED BY <1>1, EndLeavesOthers DEF Quiet, OpenComments, pointerVars

LEMMA TransitionsAreQuiet ==
  ASSUME TypeOK, NEW u \in Users, NEW r \in Revisions,
         \/ \E rt \in Routes : SubmitReview(u, r, rt)
         \/ \E choice \in Decisions : Decide(u, r, choice)
         \/ Withdraw(u, r)
  PROVE  Quiet
<1>1. ASSUME NEW rt \in Routes, SubmitReview(u, r, rt) PROVE Quiet
  BY <1>1, ChangeStateIsQuiet DEF SubmitReview, Transition, States, commentVars
<1>2. ASSUME NEW choice \in Decisions, Decide(u, r, choice) PROVE Quiet
  <2> DEFINE outcome == Outcome(route[r], [decision[r] EXCEPT ![u] = choice])
  <2>1. CASE outcome = "pending"
    BY <1>2, <2>1, EndingIsQuiet DEF Decide, commentVars
  <2>2. CASE outcome # "pending"
    <3>1. TargetOf(outcome) \in {"Rejected", "Approved", "Approved with Comments"}
      BY <2>2, TargetOfType
    <3>2. /\ Unlocked(r) /\ status[r] = "Under Review"
          /\ ChangeState(r, TargetOf(outcome)) /\ End(u)
          /\ UNCHANGED <<about, disposed, pointerVars>>
      BY <1>2, <2>2 DEF Decide, Transition, InReview, commentVars
    <3> HIDE DEF outcome
    <3> QED BY <3>1, <3>2, ChangeStateIsQuiet DEF States
  <2> QED BY <2>1, <2>2
<1>3. CASE Withdraw(u, r)
  BY <1>3, ChangeStateIsQuiet DEF Withdraw, Transition, States, commentVars
<1> QED BY <1>1, <1>2, <1>3

LEMMA CreationIsQuiet ==
  ASSUME TypeOK, NEW r \in Revisions, CreateRevision(r) \/ FileBecomesAvailable(r)
  PROVE  Quiet
<1>1. CASE CreateRevision(r)
  <2>1. \A x \in Revisions : status'[x] = IF x = r THEN "Draft" ELSE status[x]
    BY <1>1 DEF CreateRevision, TypeOK, TableTypes
  <2>2. status[r] = "Absent"
    BY <1>1 DEF CreateRevision
  <2>3. UNCHANGED <<current, currentVersion, about, disposed, pc, view, old>>
    BY <1>1 DEF CreateRevision, commentVars, pointerVars, requestVars
  <2> QED BY <2>1, <2>2, <2>3 DEF Quiet, OpenComments
<1>2. CASE FileBecomesAvailable(r)
  BY <1>2 DEF Quiet, FileBecomesAvailable, OpenComments, commentVars, pointerVars, requestVars
<1> QED BY <1>1, <1>2

LEMMA RequestIsQuiet ==
  ASSUME TypeOK, NEW u \in Users,
         \/ GiveUp(u) \/ InsertComment(u) \/ InsertDisposition(u)
         \/ LockRevision(u) \/ LockDocument(u) \/ DeadlockAbort(u)
         \/ CheckPublish(u) /\ ~CheckedAgain(u, view[u].rev)
  PROVE  Quiet
<1>1. CASE GiveUp(u) \/ DeadlockAbort(u) \/ (CheckPublish(u) /\ ~CheckedAgain(u, view[u].rev))
  BY <1>1, EndingIsQuiet
     DEF GiveUp, DeadlockAbort, CheckPublish, revisionVars, commentVars
<1>2. CASE InsertComment(u)
  <2>1. /\ Unlocked(view[u].rev) /\ End(u)
        /\ view[u].rev \in Revisions /\ remark[u] \in Comments
        /\ about' = [about EXCEPT ![remark[u]] = view[u].rev]
        /\ UNCHANGED <<status, disposed, pointerVars>>
    BY <1>2 DEF InsertComment, TypeOK, RequestTypes, revisionVars
  <2>2. ASSUME NEW x \in Revisions, ~Unlocked(x)
        PROVE  OpenComments(x)' \subseteq OpenComments(x)
    BY <2>1, <2>2 DEF OpenComments, TypeOK, TableTypes
  <2> QED BY <2>1, <2>2, EndLeavesOthers DEF Quiet, pointerVars
<1>3. CASE InsertDisposition(u)
  <2>1. /\ End(u) /\ disposed \subseteq disposed'
        /\ UNCHANGED <<status, about, pointerVars>>
    BY <1>3 DEF InsertDisposition, revisionVars
  <2> QED BY <2>1, EndLeavesOthers DEF Quiet, OpenComments, pointerVars
<1>4. CASE LockRevision(u)
  BY <1>4, MovingOnIsQuiet DEF LockRevision, revisionVars, commentVars, Steps, Locking
<1>5. CASE LockDocument(u)
  BY <1>5, MovingOnIsQuiet DEF LockDocument, revisionVars, commentVars, Steps, Locking
<1> QED BY <1>1, <1>2, <1>3, <1>4, <1>5

LEMMA ReadingIsQuiet ==
  ASSUME TypeOK, NEW u \in Users, NEW r \in Revisions,
         \/ \E c \in Contexts : Look(u, r, c)
         \/ \E k \in Comments : ReadForComment(u, r, k) \/ ReadForDisposition(u, r, k)
         \/ RequestPublish(u, r)
  PROVE  Quiet
<1>1. ASSUME NEW c \in Contexts, Look(u, r, c) PROVE Quiet
  <2>1. \A v \in Users : v # u => view'[v] = view[v]
    BY <1>1 DEF Look, TypeOK, RequestTypes
  <2> QED BY <1>1, <2>1, MovingOnIsQuiet DEF Look, revisionVars, commentVars, Steps
<1>2. ASSUME NEW k \in Comments, NEW step \in {"comment", "dispose"}, Begin(u, step, r, k)
      PROVE  Quiet
  <2>1. \A v \in Users : v # u => view'[v] = view[v]
    BY <1>2 DEF Begin, TypeOK, RequestTypes
  <2>2. step \in Steps \ {"write"}
    BY DEF Steps
  <2> QED BY <1>2, <2>1, <2>2, MovingOnIsQuiet DEF Begin, revisionVars, commentVars
<1>3. CASE RequestPublish(u, r)
  BY <1>3, MovingOnIsQuiet DEF RequestPublish, revisionVars, commentVars, Steps
<1> QED BY <1>1, <1>2, <1>3 DEF ReadForComment, ReadForDisposition

\* A publication whose checks succeed has read the pointer under the document's
\* lock and knows its own revision under that revision's lock.
LEMMA CheckPublishStep ==
  ASSUME PInv, TypeOK', NEW u \in Users, CheckPublish(u), CheckedAgain(u, view[u].rev)
  PROVE  PInv'
<1>1. /\ old' = [old EXCEPT ![u] = current[view[u].context]]
      /\ pc' = [pc EXCEPT ![u] = "write"]
      /\ UNCHANGED <<view, status, about, disposed, current, currentVersion>>
  BY DEF CheckPublish, Goto, revisionVars, commentVars, pointerVars
<1>2. PublishedIsCurrent'
  BY <1>1 DEF PInv, PublishedIsCurrent
<1>3. ASSUME NEW v \in Users, pc'[v] = "write"
      PROVE  /\ old'[v] = current'[view'[v].context]
             /\ view'[v].current = currentVersion'[view'[v].context]
             /\ status'[view'[v].rev] \in Publishable
             /\ v # MakerOf[view'[v].rev]
             /\ CommentsSettled(view[v].rev)'
  <2>1. CommentsSettled(view[v].rev)' <=> CommentsSettled(view[v].rev)
    BY <1>1 DEF CommentsSettled, OpenComments
  <2>2. CASE v = u
    <3>1. old'[v] = current[view[v].context]
      BY <1>1, <2>2 DEF PInv, TypeOK, RequestTypes
    <3> QED BY <1>1, <2>1, <2>2, <3>1 DEF CheckedAgain, PublishAllowed, CurrentAsSeen
  <2>3. CASE v # u
    <3>1. pc[v] = "write" /\ old'[v] = old[v]
      BY <1>1, <1>3, <2>3 DEF PInv, TypeOK, RequestTypes
    <3> QED BY <1>1, <2>1, <3>1 DEF PInv, WriterIsReady
  <2> QED BY <2>2, <2>3
<1> QED BY <1>2, <1>3 DEF PInv, WriterIsReady

\* What the updates of a publication do to the distribution: its revision takes
\* the place of the current one, which is retired.
LEMMA WritePublishEffect ==
  ASSUME PInv, NEW u \in Users, WritePublish(u),
         NEW r \in Revisions, r = view[u].rev, NEW c \in Contexts, c = view[u].context
  PROVE  /\ status[r] \in Publishable
         /\ current' = [current EXCEPT ![c] = r]
         /\ \A x \in Revisions : status'[x] = IF x = r THEN "Published"
                                               ELSE IF x = current[c] THEN "Superseded"
                                               ELSE status[x]
         /\ \A d \in Contexts : current[d] # r
<1>1. pc[u] = "write" /\ old[u] = current[c] /\ status[r] \in Publishable
  BY DEF WritePublish, PInv, WriterIsReady
<1>2. \A d \in Contexts : current[d] # r
  BY <1>1 DEF PInv, PublishedIsCurrent, Publishable
<1>3. ASSUME NEW x \in Revisions, x # r
      PROVE  x = current[c] <=> x = old[u] /\ Supersedes(r, old[u])
  BY <1>1, <1>3, DocumentAssumption DEF Supersedes, PInv, PublishedIsCurrent
<1>4. status' = [x \in Revisions |-> IF x = r THEN "Published"
                                      ELSE IF x = old[u] /\ Supersedes(r, old[u])
                                      THEN "Superseded" ELSE status[x]]
  BY DEF WritePublish
<1> QED BY <1>1, <1>2, <1>3, <1>4 DEF WritePublish

LEMMA WritePublishStep ==
  ASSUME PInv, TypeOK', NEW u \in Users, WritePublish(u) PROVE PInv'
<1>1. PICK r \in Revisions, c \in Contexts : r = view[u].rev /\ c = view[u].context
  BY DEF WritePublish, PInv, TypeOK, RequestTypes, Locking
<1>2. /\ status[r] \in Publishable
      /\ current' = [current EXCEPT ![c] = r]
      /\ \A x \in Revisions : status'[x] = IF x = r THEN "Published"
                                            ELSE IF x = current[c] THEN "Superseded"
                                            ELSE status[x]
      /\ \A d \in Contexts : current[d] # r
  BY <1>1, WritePublishEffect
<1>3. current'[c] = r /\ \A d \in Contexts : d # c => current'[d] = current[d]
  BY <1>2 DEF PInv, TypeOK, TableTypes
<1>4. /\ \A x \in Revisions : status[x] = "Published" <=> \E d \in Contexts : current[d] = x
      /\ \A d, e \in Contexts : d # e /\ current[d] # None => current[d] # current[e]
  BY DEF PInv, PublishedIsCurrent
<1>5. ASSUME NEW x \in Revisions
      PROVE  status'[x] = "Published" <=> \E d \in Contexts : current'[d] = x
  <2>1. CASE x = r
    BY <1>2, <1>3, <2>1
  <2>2. CASE x # r /\ x = current[c]
    <3>1. \A d \in Contexts : d # c => current[d] # x
      BY <1>4, <2>2, DocumentAssumption
    <3> QED BY <1>2, <1>3, <2>2, <3>1
  <2>3. CASE x # r /\ x # current[c]
    BY <1>2, <1>3, <1>4, <2>3
  <2> QED BY <2>1, <2>2, <2>3
<1>6. \A d, e \in Contexts : d # e /\ current'[d] # None => current'[d] # current'[e]
  BY <1>2, <1>3, <1>4
<1>7. \A v \in Users : pc'[v] # "write"
  <2>1. docLock = u
    BY DEF WritePublish, PInv, TypeOK, LocksMatchSteps
  <2>2. \A v \in Users : v # u => pc[v] # "write"
    BY <2>1 DEF PInv, TypeOK, LocksMatchSteps
  <2> QED BY <2>2, EndLeavesOthers DEF WritePublish, PInv
<1> QED BY <1>5, <1>6, <1>7 DEF PInv, PublishedIsCurrent, WriterIsReady

\* Every step is quiet, or one of the last two of a publication.
LEMMA StepCases ==
  ASSUME TypeOK, [Next]_vars
  PROVE  \/ UNCHANGED vars
         \/ Quiet
         \/ \E u \in Users : CheckPublish(u) /\ CheckedAgain(u, view[u].rev)
         \/ \E u \in Users : WritePublish(u)
BY CreationIsQuiet, RequestIsQuiet, ReadingIsQuiet, TransitionsAreQuiet DEF Next, Publication

LEMMA NextKeepsPInv == PInv /\ [Next]_vars => PInv'
<1> SUFFICES ASSUME PInv, [Next]_vars PROVE PInv'
  OBVIOUS
<1>1. TypeOK /\ TypeOK'
  BY NextKeepsTypeOK DEF PInv
<1>2. CASE UNCHANGED vars
  BY <1>1, <1>2 DEF PInv, PublishedIsCurrent, WriterIsReady, CommentsSettled, OpenComments,
     vars, revisionVars, commentVars, pointerVars, requestVars
<1>3. CASE Quiet
  BY <1>1, <1>3, QuietStep
<1>4. ASSUME NEW u \in Users, CheckPublish(u), CheckedAgain(u, view[u].rev) PROVE PInv'
  BY <1>1, <1>4, CheckPublishStep
<1>5. ASSUME NEW u \in Users, WritePublish(u) PROVE PInv'
  BY <1>1, <1>5, WritePublishStep
<1> QED BY <1>1, <1>2, <1>3, <1>4, <1>5, StepCases

\* Types and locks, one current revision per context, and a writer whose checks
\* still hold: the invariant of publish_document_revision under any interleaving.
THEOREM DocumentInductive == Spec => []PInv
BY InitPInv, NextKeepsPInv, PTL DEF Spec

\* For any number of revisions, contexts and concurrent publications: the
\* published revisions are exactly the current ones, one per context.
THEOREM DocumentPublishedIsCurrent == Spec => []PublishedIsCurrent
<1>1. PInv => PublishedIsCurrent
  BY DEF PInv
<1> QED BY <1>1, DocumentInductive, PTL

-----------------------------------------------------------------------------
(* What one step may do *)

\* Only the updates of a publication change the distribution or the pointers.
LEMMA OnlyWritePublishDistributes ==
  ASSUME PInv, [Next]_vars, \A u \in Users : ~WritePublish(u)
  PROVE  /\ UNCHANGED <<current, currentVersion>>
         /\ \A x \in Revisions :
              /\ status'[x] = "Published"  <=> status[x] = "Published"
              /\ status'[x] = "Superseded" <=> status[x] = "Superseded"
<1>1. CASE UNCHANGED vars
  BY <1>1 DEF vars, revisionVars, pointerVars
<1>2. CASE Quiet
  BY <1>2 DEF Quiet
<1>3. ASSUME NEW u \in Users, CheckPublish(u)
      PROVE UNCHANGED <<current, currentVersion, status>>
  BY <1>3 DEF CheckPublish, revisionVars, pointerVars
<1> QED BY <1>1, <1>2, <1>3, StepCases DEF PInv

LEMMA WritePublishKnows ==
  ASSUME PInv, NEW u \in Users, WritePublish(u)
  PROVE  /\ view[u].rev \in Revisions /\ view[u].context \in Contexts
         /\ pc[u] = "write" /\ pc'[u] = "idle"
         /\ old[u] = current[view[u].context]
         /\ view[u].current = currentVersion[view[u].context]
         /\ CommentsSettled(view[u].rev)
BY DEF WritePublish, End, Goto, PInv, TypeOK, RequestTypes, WriterIsReady, Locking

\* A publication replaces the pointer its client was shown, whoever else
\* publishes to the same context meanwhile.
THEOREM DocumentReplacesWhatWasSeen == Spec => ReplacesWhatWasSeen
<1> DEFINE A == \A c \in Contexts :
                  current'[c] # current[c] =>
                    \E u \in Users : /\ pc[u] = "write" /\ pc'[u] = "idle"
                                     /\ view[u].context = c
                                     /\ view[u].current = currentVersion[c]
                                     /\ old[u] = current[c]
<1>1. ASSUME PInv, [Next]_vars PROVE A
  <2>1. CASE \A u \in Users : ~WritePublish(u)
    BY <1>1, <2>1, OnlyWritePublishDistributes
  <2>2. ASSUME NEW u \in Users, WritePublish(u), NEW c \in Contexts, current'[c] # current[c]
        PROVE  view[u].context = c
    <3>1. current' = [current EXCEPT ![view[u].context] = view[u].rev]
      BY <2>2 DEF WritePublish
    <3> QED BY <1>1, <2>2, <3>1 DEF PInv, TypeOK, TableTypes
  <2> QED BY <1>1, <2>1, <2>2, WritePublishKnows
<1>2. PInv /\ [Next]_vars => [A]_vars
  BY <1>1
<1>3. Spec => [][A]_vars
  BY <1>2, DocumentInductive, PTL DEF Spec
<1> QED BY <1>3 DEF ReplacesWhatWasSeen

\* A revision approved with comments is published only with every mandatory
\* comment disposed of, whenever the comments arrive.
THEOREM DocumentCommentsSettledAtPublication == Spec => CommentsSettledAtPublication
<1> DEFINE A == \A r \in Revisions :
                  status[r] = "Approved with Comments" /\ status'[r] = "Published" =>
                    OpenComments(r) = {}
<1>1. ASSUME PInv, [Next]_vars PROVE A
  <2>1. CASE \A u \in Users : ~WritePublish(u)
    BY <1>1, <2>1, OnlyWritePublishDistributes
  <2>2. ASSUME NEW u \in Users, WritePublish(u), NEW r \in Revisions,
               status[r] = "Approved with Comments", status'[r] = "Published"
        PROVE  OpenComments(r) = {}
    <3>1. PICK x \in Revisions, c \in Contexts : x = view[u].rev /\ c = view[u].context
      BY <1>1, <2>2, WritePublishKnows
    <3>2. PInv /\ WritePublish(u)
      BY <1>1, <2>2
    <3>3. \A y \in Revisions : status'[y] = IF y = x THEN "Published"
                                            ELSE IF y = current[c] THEN "Superseded"
                                            ELSE status[y]
      BY <3>1, <3>2, WritePublishEffect
    <3>4. r = view[u].rev
      BY <2>2, <3>1, <3>3
    <3> QED BY <1>1, <2>2, <3>4, WritePublishKnows DEF CommentsSettled
  <2> QED BY <2>1, <2>2
<1>2. PInv /\ [Next]_vars => [A]_vars
  BY <1>1
<1>3. Spec => [][A]_vars
  BY <1>2, DocumentInductive, PTL DEF Spec
<1> QED BY <1>3 DEF CommentsSettledAtPublication

-----------------------------------------------------------------------------
(* Waiting *)

\* Who waits for a revision waits for somebody at a later step.
LEMMA RevisionIsHeld ==
  ASSUME TypeOK, NEW r \in Revisions, ~Unlocked(r)
  PROVE  \E w \in Users : rowLock[r] = w /\ pc[w] \in Locking /\ view[w].rev = r
BY DEF Unlocked, TypeOK, RequestTypes, LocksMatchSteps

LEMMA DocumentIsHeld ==
  ASSUME TypeOK, docLock # None
  PROVE  \E v \in Users : docLock = v /\ pc[v] \in {"document", "write"}
BY DEF TypeOK, RequestTypes, LocksMatchSteps

\* A writer supersedes a published revision, and its own is only publishable.
LEMMA SupersededIsOther ==
  ASSUME PInv, NEW v \in Users, pc[v] = "write", old[v] # None
  PROVE  old[v] \in Revisions /\ old[v] # view[v].rev
<1>1. /\ old[v] = current[view[v].context]
      /\ status[view[v].rev] \in Publishable
      /\ view[v].context \in Contexts
      /\ old[v] \in Revisions
  BY DocumentAssumption DEF PInv, WriterIsReady, TypeOK, RequestTypes, Locking
<1>2. status[old[v]] = "Published"
  BY <1>1 DEF PInv, PublishedIsCurrent
<1> QED BY <1>1, <1>2 DEF Publishable

\* The owner of the document goes on, or the publication that locked the revision
\* it wants to supersede is waiting for the document: that one is the victim.
LEMMA OwnerOrVictimMoves ==
  ASSUME PInv, NEW v \in Users, docLock = v
  PROVE  \E u \in Users : MayMove(u)
<1>1. pc[v] \in {"document", "write"}
  BY DEF PInv, TypeOK, LocksMatchSteps
<1>2. CASE pc[v] = "document" \/ (old[v] # None => Unlocked(old[v]))
  BY <1>1, <1>2 DEF MayMove
<1>3. CASE pc[v] = "write" /\ old[v] # None /\ ~Unlocked(old[v])
  <2>1. old[v] \in Revisions /\ old[v] # view[v].rev
    BY <1>3, SupersededIsOther
  <2>2. PICK w \in Users : rowLock[old[v]] = w /\ pc[w] \in Locking /\ view[w].rev = old[v]
    BY <1>3, <2>1, RevisionIsHeld DEF PInv
  <2>3. w # v
    BY <2>1, <2>2
  <2>4. pc[w] \notin {"document", "write"}
    BY <2>3 DEF PInv, TypeOK, LocksMatchSteps
  <2>5. pc[w] = "revision"
    BY <2>2, <2>4 DEF Locking
  <2>6. Deadlocked(w)
    BY <1>3, <2>2, <2>5 DEF Deadlocked
  <2> QED BY <2>6 DEF MayMove
<1> QED BY <1>1, <1>2, <1>3

\* For any number of publications in any contexts: while there are some under
\* way, one of them has what it waits for or is the victim of a deadlock.
THEOREM DocumentSomebodyMoves == Spec => []SomebodyMoves
<1>1. ASSUME PInv PROVE SomebodyMoves
  <2> SUFFICES ASSUME NEW u \in Users, pc[u] \in {"publish"} \union Locking
               PROVE  \E w \in Users : MayMove(w)
    BY DEF SomebodyMoves
  <2>1. CASE docLock # None
    BY <1>1, <2>1, DocumentIsHeld, OwnerOrVictimMoves DEF PInv
  <2>2. CASE docLock = None
    <3>1. ASSUME NEW w \in Users, pc[w] \in Locking PROVE MayMove(w)
      <4>1. pc[w] \notin {"document", "write"}
        BY <1>1, <2>2, DocumentAssumption DEF PInv, TypeOK, LocksMatchSteps
      <4> QED BY <2>2, <3>1, <4>1 DEF Locking, MayMove
    <3>2. CASE pc[u] = "publish" /\ ~Unlocked(view[u].rev)
      <4>1. view[u].rev \in Revisions
        BY <1>1, <3>2 DEF PInv, TypeOK, RequestTypes
      <4> QED BY <1>1, <3>1, <3>2, <4>1, RevisionIsHeld DEF PInv
    <3> QED BY <3>1, <3>2 DEF MayMove
  <2> QED BY <2>1, <2>2
<1>2. PInv => SomebodyMoves
  BY <1>1
<1> QED BY <1>2, DocumentInductive, PTL

-----------------------------------------------------------------------------
(* Refinement *)

Shown   == { r \in Revisions : status[r] = "Published" }
Retired == { r \in Revisions : status[r] = "Superseded" }

LEMMA InitDistribution == Init => Promise!Init
BY DEF Init, Promise!Init

LEMMA StepDistribution ==
  ASSUME PInv, [Next]_vars
  PROVE  [Promise!Next]_<<current, Shown, Retired>>
<1>1. CASE \A u \in Users : ~WritePublish(u)
  BY <1>1, OnlyWritePublishDistributes DEF Shown, Retired
<1>2. ASSUME NEW u \in Users, WritePublish(u) PROVE Promise!Next
  <2>1. PICK r \in Revisions, c \in Contexts : r = view[u].rev /\ c = view[u].context
    BY <1>2, WritePublishKnows
  <2>2. /\ status[r] \in Publishable
        /\ current' = [current EXCEPT ![c] = r]
        /\ \A x \in Revisions : status'[x] = IF x = r THEN "Published"
                                              ELSE IF x = current[c] THEN "Superseded"
                                              ELSE status[x]
        /\ \A d \in Contexts : current[d] # r
    BY <1>2, <2>1, WritePublishEffect
  <2>3. r \notin Shown \union Retired
    BY <2>2 DEF Shown, Retired, Publishable
  <2>4. Shown' = (Shown \ {current[c]}) \union {r}
    BY <2>2 DEF Shown
  <2>5. Retired' = Retired \union ({current[c]} \ {None})
    <3>1. current[c] \in Revisions \union {None}
      BY DEF PInv, TypeOK, TableTypes
    <3>2. ASSUME NEW x \in Revisions
          PROVE  status'[x] = "Superseded" <=> status[x] = "Superseded" \/ x = current[c]
      BY <2>2 DEF Publishable
    <3> QED BY <3>1, <3>2, DocumentAssumption DEF Retired
  <2>6. Promise!Publish(c, r)
    BY <2>2, <2>3, <2>4, <2>5 DEF Promise!Publish, Shown, Retired
  <2> QED BY <2>6 DEF Promise!Next
<1> QED BY <1>1, <1>2

\* Document control implements the abstract distribution: each publication is
\* one atomic replacement of a context's current revision, everything else
\* stutters.
THEOREM DocumentImplementsDistribution == Spec => ImplementsDistribution
<1>1. PInv /\ [Next]_vars => [Promise!Next]_<<current, Shown, Retired>>
  BY StepDistribution
<1>2. Spec => Promise!Init /\ [][Promise!Next]_<<current, Shown, Retired>>
  BY <1>1, InitDistribution, DocumentInductive, PTL DEF Spec
<1> QED BY <1>2, PTL DEF ImplementsDistribution, Promise!Spec, Shown, Retired

-----------------------------------------------------------------------------
(* Review: what evaluateReviewRoute's outcome means, that a decisive route does *)
(* not get stuck, and that nothing unreviewed is ever published.                *)

AnyDecision(Us) == [Us -> Decisions \union {Undecided}]

-----------------------------------------------------------------------------
(* Routes *)

LEMMA RouteCounts ==
  ASSUME NEW Us, NEW rt, IsRoute(rt, Us), NEW d
  PROVE  /\ Cardinality(rt.reviewers) \in Nat
         /\ IsFiniteSet(Rejects(rt, d))   /\ Cardinality(Rejects(rt, d)) \in Nat
         /\ IsFiniteSet(Approvals(rt, d)) /\ Cardinality(Approvals(rt, d)) \in Nat
         /\ rt.requiredApprovals \in Nat \ {0}
         /\ rt.rejectThreshold \in Nat \ {0}
<1>1. IsFiniteSet(rt.reviewers) /\ Cardinality(rt.reviewers) \in Nat
  BY FS_CardinalityType DEF IsRoute
<1>2. /\ Rejects(rt, d) \in SUBSET rt.reviewers
      /\ Approvals(rt, d) \in SUBSET rt.reviewers
  BY DEF Rejects, Approvals
<1>3. IsFiniteSet(Rejects(rt, d)) /\ IsFiniteSet(Approvals(rt, d))
  BY <1>1, <1>2, FS_Subset
<1> QED BY <1>1, <1>3, FS_CardinalityType DEF IsRoute

\* An approving outcome means enough approvals and too few rejections.
LEMMA ApprovedMeans ==
  ASSUME NEW Us, NEW rt, IsRoute(rt, Us), NEW d,
         Outcome(rt, d) \in {"approved", "approved_with_comments"}
  PROVE  /\ Cardinality(Approvals(rt, d)) >= rt.requiredApprovals
         /\ Cardinality(Rejects(rt, d)) < rt.rejectThreshold
BY RouteCounts DEF Outcome

LEMMA NoDecisionIsPending ==
  ASSUME NEW Us, NEW rt, IsRoute(rt, Us), NEW d, \A u \in Us : d[u] = Undecided
  PROVE  Outcome(rt, d) = "pending"
<1>1. Rejects(rt, d) = {} /\ Approvals(rt, d) = {}
  BY DEF Rejects, Approvals, Undecided, IsRoute
<1>2. Cardinality({}) = 0
  BY FS_EmptySet
<1> QED BY <1>1, <1>2, RouteCounts DEF Outcome

\* Every nonempty set of naturals has a least element: a smallest one among its
\* initial segments ends there.
LEMMA LeastOf ==
  ASSUME NEW S \in SUBSET Nat, S # {}
  PROVE  \E m \in S : \A n \in S : m <= n
<1> DEFINE upTo(m)  == { n \in S : n <= m }
           segments == { upTo(m) : m \in S }
<1>1. \A m \in S : upTo(m) \in FiniteSubsetsOf(Nat)
  <2>1. ASSUME NEW m \in S PROVE IsFiniteSet(upTo(m))
    <3>1. upTo(m) \in SUBSET Nat /\ m \in Nat /\ \A n \in upTo(m) : n <= m
      OBVIOUS
    <3> QED BY <3>1, FS_BoundedSetOfNaturals
  <2> QED BY <2>1 DEF FiniteSubsetsOf
<1>2. segments \subseteq FiniteSubsetsOf(Nat) /\ segments # {}
  BY <1>1
<1>3. PICK X \in segments : \A Y \in segments : ~(<<Y, X>> \in StrictSubsetOrdering(Nat))
  <2> HIDE DEF segments
  <2> QED BY <1>2, FS_StrictSubsetOrderingWellFounded, WFMin
<1>4. PICK m \in S : X = upTo(m)
  BY <1>3
<1>5. ASSUME NEW n \in S, ~(m <= n) PROVE FALSE
  <2>1. n \in Nat /\ m \in Nat /\ n < m
    BY <1>5
  <2>2. \A k \in S : k <= n => k <= m
    BY <2>1
  <2>3. upTo(n) \subseteq upTo(m)
    BY <2>2
  <2>4. m \in upTo(m) /\ m \notin upTo(n)
    BY <2>1
  <2>5. upTo(n) \in segments
    OBVIOUS
  <2>6. <<upTo(n), upTo(m)>> \in StrictSubsetOrdering(Nat)
    BY <2>3, <2>4 DEF StrictSubsetOrdering
  <2> QED BY <1>3, <1>4, <2>5, <2>6
<1> QED BY <1>5

\* An open decisive route has a pending reviewer: otherwise its approvals and
\* rejections, each below its threshold, would make up all the reviewers.
LEMMA OpenRouteHasPending ==
  ASSUME NEW Us, NEW rt, IsRoute(rt, Us), NEW d \in AnyDecision(Us),
         Decisive(rt), Outcome(rt, d) = "pending"
  PROVE  Pending(rt, d) # {}
<1> SUFFICES ASSUME Pending(rt, d) = {} PROVE FALSE
  OBVIOUS
<1>1. rt.reviewers = Approvals(rt, d) \union Rejects(rt, d)
  BY DEF Pending, Approvals, Rejects, AnyDecision, Decisions, Undecided, IsRoute
<1>2. Approvals(rt, d) \intersect Rejects(rt, d) = {}
  BY DEF Approvals, Rejects
<1>3. Cardinality(rt.reviewers)
        = Cardinality(Approvals(rt, d)) + Cardinality(Rejects(rt, d)) - Cardinality({})
  BY <1>1, <1>2, RouteCounts, FS_Union
<1>4. Cardinality(Rejects(rt, d)) < rt.rejectThreshold
      /\ Cardinality(Approvals(rt, d)) < rt.requiredApprovals
  BY RouteCounts DEF Outcome
<1> QED BY <1>3, <1>4, RouteCounts, FS_EmptySet DEF Decisive

\* Of the pending reviewers of an open route, decisive or not, one is actionable.
LEMMA OpenRouteIsActionable ==
  ASSUME NEW Us, NEW rt, IsRoute(rt, Us), NEW d \in AnyDecision(Us),
         Pending(rt, d) # {}, Outcome(rt, d) = "pending"
  PROVE  Actionable(rt, d) # {}
<1>1. Pending(rt, d) # {}
  OBVIOUS
<1>2. CASE rt.mode = "quorum"
  BY <1>1, <1>2 DEF Actionable
<1>3. CASE rt.mode # "quorum"
  <2> DEFINE S == { rt.order[u] : u \in Pending(rt, d) }
  <2>1. S \in SUBSET Nat /\ S # {}
    BY <1>1 DEF Pending, IsRoute
  <2>2. PICK m \in S : \A n \in S : m <= n
    <3> HIDE DEF S
    <3> QED BY <2>1, LeastOf
  <2>3. PICK u \in Pending(rt, d) : m = rt.order[u]
    BY <2>2
  <2>4. u \in NextInOrder(rt, d)
    BY <2>2, <2>3 DEF NextInOrder
  <2> QED BY <1>3, <2>4 DEF Actionable
<1> QED BY <1>2, <1>3

-----------------------------------------------------------------------------
(* Reviews *)

Reviewed == Publishable \union {"Published", "Superseded"}

\* What the tables say of one revision's review.
ReviewOf(r) ==
  /\ status[r] \in {"Absent", "Draft"} => \A u \in Users : decision[r][u] = Undecided
  /\ status[r] = "Under Review" =>
       route[r] \in Routes /\ Outcome(route[r], decision[r]) = "pending"
  /\ status[r] \in Reviewed =>
       /\ route[r] \in Routes
       /\ Outcome(route[r], decision[r]) \in {"approved", "approved_with_comments"}
  /\ decision[r][MakerOf[r]] = Undecided
  /\ publishedBy[r] # MakerOf[r]

ReviewFacts == \A r \in Revisions : ReviewOf(r)

LEMMA InitReviewFacts == Init => ReviewFacts
BY DocumentAssumption DEF Init, ReviewFacts, ReviewOf, Reviewed, Publishable

LEMMA UntouchedReview ==
  ASSUME NEW x \in Revisions, ReviewOf(x), status'[x] = status[x], route'[x] = route[x],
         decision'[x] = decision[x], publishedBy'[x] = publishedBy[x]
  PROVE  ReviewOf(x)'
BY DEF ReviewOf

\* A step that leaves the reviews alone, whatever it does to the requests.
LEMMA BystanderKeepsReviews ==
  ASSUME ReviewFacts, UNCHANGED <<status, route, decision, publishedBy>>
  PROVE  ReviewFacts'
BY UntouchedReview DEF ReviewFacts

LEMMA CreateKeepsReviews ==
  ASSUME TypeOK, ReviewFacts, NEW r \in Revisions, CreateRevision(r) PROVE ReviewFacts'
<1>1. \A x \in Revisions : status'[x] = IF x = r THEN "Draft" ELSE status[x]
  BY DEF CreateRevision, TypeOK, TableTypes
<1>2. status[r] = "Absent" /\ UNCHANGED <<route, decision, publishedBy>>
  BY DEF CreateRevision, pointerVars
<1>3. ReviewOf(r)'
  BY <1>1, <1>2 DEF ReviewFacts, ReviewOf, Reviewed, Publishable
<1>4. \A x \in Revisions : x # r => ReviewOf(x)'
  BY <1>1, <1>2, UntouchedReview DEF ReviewFacts
<1> QED BY <1>3, <1>4 DEF ReviewFacts

LEMMA SubmitKeepsReviews ==
  ASSUME TypeOK, ReviewFacts, NEW u \in Users, NEW r \in Revisions, NEW rt \in Routes,
         SubmitReview(u, r, rt)
  PROVE  ReviewFacts'
<1>1. /\ \A x \in Revisions : status'[x] = IF x = r THEN "Under Review" ELSE status[x]
      /\ \A x \in Revisions : route'[x] = IF x = r THEN rt ELSE route[x]
  BY DEF SubmitReview, ChangeState, TypeOK, TableTypes
<1>2. status[r] = "Draft" /\ UNCHANGED <<decision, publishedBy>>
  BY DEF SubmitReview, pointerVars
<1>3. Outcome(rt, decision[r]) = "pending"
  <2>1. \A v \in Users : decision[r][v] = Undecided
    BY <1>2 DEF ReviewFacts, ReviewOf
  <2>2. IsRoute(rt, Users)
    BY DocumentAssumption
  <2> QED BY <2>1, <2>2, NoDecisionIsPending
<1>4. ReviewOf(r)'
  BY <1>1, <1>2, <1>3 DEF ReviewFacts, ReviewOf, Reviewed, Publishable
<1>5. \A x \in Revisions : x # r => ReviewOf(x)'
  BY <1>1, <1>2, UntouchedReview DEF ReviewFacts
<1> QED BY <1>4, <1>5 DEF ReviewFacts

LEMMA DecideKeepsReviews ==
  ASSUME TypeOK, ReviewFacts, NEW u \in Users, NEW r \in Revisions, NEW choice \in Decisions,
         Decide(u, r, choice)
  PROVE  ReviewFacts'
<1> DEFINE after == [decision[r] EXCEPT ![u] = choice]
           outcome == Outcome(route[r], after)
<1>1. /\ status[r] = "Under Review" /\ u # MakerOf[r] /\ route[r] \in Routes
      /\ UNCHANGED <<route, publishedBy>>
  BY DEF Decide, InReview, pointerVars, ReviewFacts, ReviewOf
<1>2. \A x \in Revisions : decision'[x] = IF x = r THEN after ELSE decision[x]
  BY DEF Decide, TypeOK, TableTypes
<1>3. after[MakerOf[r]] = Undecided
  <2>1. after[MakerOf[r]] = decision[r][MakerOf[r]]
    BY <1>1, DocumentAssumption DEF TypeOK, TableTypes
  <2> QED BY <2>1 DEF ReviewFacts, ReviewOf
<1>4. CASE outcome = "pending"
  <2>1. status' = status
    BY <1>4 DEF Decide
  <2>2. ReviewOf(r)'
    BY <1>1, <1>2, <1>3, <1>4, <2>1 DEF ReviewFacts, ReviewOf, Reviewed, Publishable
  <2>3. \A x \in Revisions : x # r => ReviewOf(x)'
    BY <1>1, <1>2, <2>1, UntouchedReview DEF ReviewFacts
  <2> QED BY <2>2, <2>3 DEF ReviewFacts
<1>5. CASE outcome # "pending"
  <2>1. ChangeState(r, TargetOf(outcome))
    BY <1>5 DEF Decide
  <2>2. \A x \in Revisions : status'[x] = IF x = r THEN TargetOf(outcome) ELSE status[x]
    <3> HIDE DEF outcome
    <3> QED BY <2>1 DEF ChangeState, TypeOK, TableTypes
  <2>3. /\ TargetOf(outcome) \in {"Rejected", "Approved", "Approved with Comments"}
        /\ TargetOf(outcome) \in Reviewed =>
             outcome \in {"approved", "approved_with_comments"}
    <3>1. outcome \in {"rejected", "approved", "approved_with_comments"}
      BY <1>5 DEF Outcome
    <3> HIDE DEF outcome
    <3> QED BY <3>1 DEF TargetOf, Reviewed, Publishable
  <2>4. ReviewOf(r)'
    <3>1. status'[r] = TargetOf(outcome) /\ decision'[r] = after /\ route'[r] = route[r]
      BY <1>1, <1>2, <2>2
    <3>2. Outcome(route'[r], decision'[r]) = outcome
      BY <3>1
    <3> HIDE DEF outcome, after
    <3> QED BY <1>1, <1>3, <2>3, <3>1, <3>2 DEF ReviewFacts, ReviewOf
  <2>5. \A x \in Revisions : x # r => ReviewOf(x)'
    BY <1>1, <1>2, <2>2, UntouchedReview DEF ReviewFacts
  <2> QED BY <2>4, <2>5 DEF ReviewFacts
<1> QED BY <1>4, <1>5

LEMMA WithdrawKeepsReviews ==
  ASSUME TypeOK, ReviewFacts, NEW u \in Users, NEW r \in Revisions, Withdraw(u, r)
  PROVE  ReviewFacts'
<1>1. \A x \in Revisions : status'[x] = IF x = r THEN "Withdrawn" ELSE status[x]
  BY DEF Withdraw, ChangeState, TypeOK, TableTypes
<1>2. UNCHANGED <<route, decision, publishedBy>>
  BY DEF Withdraw, pointerVars
<1>3. ReviewOf(r)'
  BY <1>1, <1>2 DEF ReviewFacts, ReviewOf, Reviewed, Publishable
<1>4. \A x \in Revisions : x # r => ReviewOf(x)'
  BY <1>1, <1>2, UntouchedReview DEF ReviewFacts
<1> QED BY <1>3, <1>4 DEF ReviewFacts

LEMMA WritePublishKeepsReviews ==
  ASSUME PInv, ReviewFacts, NEW u \in Users, WritePublish(u) PROVE ReviewFacts'
<1>1. PICK r \in Revisions, c \in Contexts : r = view[u].rev /\ c = view[u].context
  BY WritePublishKnows
<1>2. /\ status[r] \in Publishable
      /\ \A x \in Revisions : status'[x] = IF x = r THEN "Published"
                                            ELSE IF x = current[c] THEN "Superseded"
                                            ELSE status[x]
  BY <1>1, WritePublishEffect
<1>3. /\ UNCHANGED <<route, decision>>
      /\ \A x \in Revisions : publishedBy'[x] = IF x = r THEN u ELSE publishedBy[x]
  BY <1>1 DEF WritePublish, PInv, TypeOK, TableTypes
<1>4. u # MakerOf[r]
  BY <1>1 DEF WritePublish, PInv, WriterIsReady
<1>5. ASSUME NEW x \in Revisions PROVE ReviewOf(x)'
  <2>1. CASE x = r
    BY <1>2, <1>3, <1>4, <2>1 DEF ReviewFacts, ReviewOf, Reviewed, Publishable
  <2>2. CASE x # r /\ x = current[c]
    <3>1. status[x] = "Published"
      BY <2>2 DEF PInv, PublishedIsCurrent
    <3> QED BY <1>2, <1>3, <2>2, <3>1 DEF ReviewFacts, ReviewOf, Reviewed
  <2>3. CASE x # r /\ x # current[c]
    BY <1>2, <1>3, <2>3, UntouchedReview DEF ReviewFacts
  <2> QED BY <2>1, <2>2, <2>3
<1> QED BY <1>5 DEF ReviewFacts

LEMMA NextKeepsReviews == PInv /\ ReviewFacts /\ [Next]_vars => ReviewFacts'
<1> SUFFICES ASSUME PInv, ReviewFacts, [Next]_vars PROVE ReviewFacts'
  OBVIOUS
<1>1. CASE UNCHANGED vars
  BY <1>1, BystanderKeepsReviews DEF vars, revisionVars, pointerVars
<1>2. ASSUME NEW r \in Revisions, CreateRevision(r) \/ FileBecomesAvailable(r)
      PROVE  ReviewFacts'
  BY <1>2, CreateKeepsReviews, BystanderKeepsReviews DEF FileBecomesAvailable, pointerVars, PInv
<1>3. ASSUME NEW u \in Users,
             \/ GiveUp(u) \/ InsertComment(u) \/ InsertDisposition(u)
             \/ LockRevision(u) \/ LockDocument(u) \/ CheckPublish(u) \/ DeadlockAbort(u)
      PROVE  ReviewFacts'
  <2>1. UNCHANGED <<status, route, decision, publishedBy>>
    BY <1>3 DEF GiveUp, InsertComment, InsertDisposition, LockRevision, LockDocument,
                CheckPublish, DeadlockAbort, revisionVars, pointerVars
  <2> QED BY <2>1, BystanderKeepsReviews
<1>4. ASSUME NEW u \in Users, NEW r \in Revisions,
             \/ \E c \in Contexts : Look(u, r, c)
             \/ \E k \in Comments : ReadForComment(u, r, k) \/ ReadForDisposition(u, r, k)
             \/ RequestPublish(u, r)
      PROVE  ReviewFacts'
  <2>1. UNCHANGED <<status, route, decision, publishedBy>>
    BY <1>4 DEF Look, ReadForComment, ReadForDisposition, Begin, RequestPublish,
                revisionVars, pointerVars
  <2> QED BY <2>1, BystanderKeepsReviews
<1>5. ASSUME NEW u \in Users, NEW r \in Revisions,
             \/ \E rt \in Routes : SubmitReview(u, r, rt)
             \/ \E choice \in Decisions : Decide(u, r, choice)
             \/ Withdraw(u, r)
      PROVE  ReviewFacts'
  BY <1>5, SubmitKeepsReviews, DecideKeepsReviews, WithdrawKeepsReviews DEF PInv
<1>6. ASSUME NEW u \in Users, WritePublish(u) PROVE ReviewFacts'
  BY <1>6, WritePublishKeepsReviews
<1> QED BY <1>1, <1>2, <1>3, <1>4, <1>5, <1>6 DEF Next, Publication

\* Status, route and decisions of every revision fit each other (submitReview,
\* decideReview and withdraw under the lock of the revision).
THEOREM ReviewInductive == Spec => []ReviewFacts
BY InitReviewFacts, NextKeepsReviews, DocumentInductive, PTL DEF Spec

\* Nothing is approved, published or superseded without the approvals its route
\* asks for, and its maker neither decided nor published it.
THEOREM DocumentPublishedWasReviewed == Spec => []PublishedWasReviewed
<1>1. ReviewFacts => PublishedWasReviewed
  <2>1. ASSUME ReviewFacts, NEW r \in Revisions,
               status[r] \in Publishable \union {"Published", "Superseded"}
        PROVE  /\ Cardinality(Approvals(route[r], decision[r])) >= route[r].requiredApprovals
               /\ Cardinality(Rejects(route[r], decision[r])) < route[r].rejectThreshold
               /\ decision[r][MakerOf[r]] = Undecided
               /\ publishedBy[r] # MakerOf[r]
    <3>1. /\ IsRoute(route[r], Users)
          /\ Outcome(route[r], decision[r]) \in {"approved", "approved_with_comments"}
          /\ decision[r][MakerOf[r]] = Undecided /\ publishedBy[r] # MakerOf[r]
      BY <2>1, DocumentAssumption DEF ReviewFacts, ReviewOf, Reviewed
    <3> QED BY <3>1, ApprovedMeans
  <2> QED BY <2>1 DEF PublishedWasReviewed
<1> QED BY <1>1, ReviewInductive, PTL

\* An open review always has a reviewer who can decide, except when all have
\* decided under thresholds that are not decisive; such a one can be withdrawn.
THEOREM DocumentOpenReviewIsActionable == Spec => []OpenReviewIsActionable
<1>1. PInv /\ ReviewFacts => OpenReviewIsActionable
  <2>1. ASSUME PInv, ReviewFacts, NEW r \in Revisions, status[r] = "Under Review"
        PROVE  \/ Actionable(route[r], decision[r]) # {}
               \/ /\ Pending(route[r], decision[r]) = {}
                  /\ ~Decisive(route[r])
                  /\ \A c \in Contexts : current[c] # r
    <3>1. /\ IsRoute(route[r], Users) /\ decision[r] \in AnyDecision(Users)
          /\ Outcome(route[r], decision[r]) = "pending"
      BY <2>1, DocumentAssumption
         DEF PInv, ReviewFacts, ReviewOf, TypeOK, TableTypes, AnyDecision
    <3>2. \A c \in Contexts : current[c] # r
      BY <2>1, DocumentAssumption DEF PInv, PublishedIsCurrent
    <3>3. CASE Pending(route[r], decision[r]) # {}
      BY <3>1, <3>3, OpenRouteIsActionable
    <3>4. CASE Pending(route[r], decision[r]) = {}
      BY <3>1, <3>2, <3>4, OpenRouteHasPending
    <3> QED BY <3>3, <3>4
  <2> QED BY <2>1 DEF OpenReviewIsActionable
<1> QED BY <1>1, ReviewInductive, DocumentInductive, PTL

-----------------------------------------------------------------------------
(* The order and the finality of decisions *)

\* Only a submission and a decision touch the routes and the decisions.
LEMMA RouteStep ==
  ASSUME [Next]_vars
  PROVE  \/ UNCHANGED <<route, decision>>
         \/ \E u \in Users, r \in Revisions, rt \in Routes : SubmitReview(u, r, rt)
         \/ \E u \in Users, r \in Revisions, choice \in Decisions : Decide(u, r, choice)
<1>1. CASE UNCHANGED vars
  BY <1>1 DEF vars, revisionVars
<1>2. ASSUME NEW r \in Revisions, CreateRevision(r) \/ FileBecomesAvailable(r)
      PROVE  UNCHANGED <<route, decision>>
  BY <1>2 DEF CreateRevision, FileBecomesAvailable
<1>3. ASSUME NEW u \in Users,
             GiveUp(u) \/ InsertComment(u) \/ InsertDisposition(u) \/ Publication(u)
      PROVE  UNCHANGED <<route, decision>>
  BY <1>3 DEF GiveUp, InsertComment, InsertDisposition, Publication, LockRevision,
              LockDocument, CheckPublish, WritePublish, DeadlockAbort, revisionVars
<1>4. ASSUME NEW u \in Users, NEW r \in Revisions,
             \/ \E c \in Contexts : Look(u, r, c)
             \/ Withdraw(u, r)
             \/ \E k \in Comments : ReadForComment(u, r, k) \/ ReadForDisposition(u, r, k)
             \/ RequestPublish(u, r)
      PROVE  UNCHANGED <<route, decision>>
  BY <1>4 DEF Look, Withdraw, Begin, ReadForComment, ReadForDisposition, RequestPublish,
              revisionVars
<1> QED BY <1>1, <1>2, <1>3, <1>4 DEF Next

InOrder(rt, d) ==
  rt # None =>
    (rt.mode = "sequential" =>
       \A u, v \in rt.reviewers :
         d[u] # Undecided /\ rt.order[v] < rt.order[u] => d[v] # Undecided)

LEMMA SubmitKeepsOrder ==
  ASSUME TypeOK, ReviewFacts, DecidedInOrder, NEW u \in Users, NEW r \in Revisions,
         NEW rt \in Routes, SubmitReview(u, r, rt)
  PROVE  DecidedInOrder'
<1>1. /\ \A x \in Revisions : route'[x] = IF x = r THEN rt ELSE route[x]
      /\ status[r] = "Draft" /\ UNCHANGED decision
  BY DEF SubmitReview, TypeOK, TableTypes
<1>2. \A v \in Users : decision[r][v] = Undecided
  BY <1>1 DEF ReviewFacts, ReviewOf
<1>3. rt.reviewers \subseteq Users
  BY DocumentAssumption DEF IsRoute
<1>4. InOrder(rt, decision[r])
  BY <1>2, <1>3 DEF InOrder
<1>5. ASSUME NEW x \in Revisions PROVE InOrder(route'[x], decision'[x])
  BY <1>1, <1>4 DEF DecidedInOrder, InOrder
<1> QED BY <1>5 DEF DecidedInOrder, InOrder

\* Nobody who is actionable in a sequential route has a pending predecessor.
LEMMA ActionableIsNext ==
  ASSUME NEW Us, NEW rt, IsRoute(rt, Us), NEW d, rt.mode = "sequential",
         NEW u \in Actionable(rt, d), NEW v \in rt.reviewers, rt.order[v] < rt.order[u]
  PROVE  d[v] # Undecided
<1>1. u \in NextInOrder(rt, d)
  BY DEF Actionable
<1>2. rt.order[u] \in Nat /\ rt.order[v] \in Nat
  BY <1>1 DEF NextInOrder, Pending, IsRoute
<1> QED BY <1>1, <1>2 DEF NextInOrder, Pending

LEMMA DecideKeepsOrder ==
  ASSUME TypeOK, ReviewFacts, DecidedInOrder, NEW u \in Users, NEW r \in Revisions,
         NEW choice \in Decisions, Decide(u, r, choice)
  PROVE  DecidedInOrder'
<1> DEFINE rt == route[r]
           d  == decision[r]
<1>1. /\ rt \in Routes /\ u \in Actionable(rt, d)
      /\ UNCHANGED route
  BY DEF Decide, InReview, ReviewFacts, ReviewOf
<1>2. \A x \in Revisions \ {r} : decision'[x] = decision[x]
  BY DEF Decide, TypeOK, TableTypes
<1>3. \A v \in Users : decision'[r][v] = IF v = u THEN choice ELSE d[v]
  BY DEF Decide, TypeOK, TableTypes
<1>4. IsRoute(rt, Users) /\ rt.reviewers \subseteq Users
  BY <1>1, DocumentAssumption DEF IsRoute
<1>5. InOrder(rt, d)
  BY DEF DecidedInOrder, InOrder
<1>6. choice # Undecided
  BY DEF Decisions, Undecided
<1>7. ASSUME rt.mode = "sequential", NEW v \in rt.reviewers, NEW w \in rt.reviewers,
             decision'[r][v] # Undecided, rt.order[w] < rt.order[v]
      PROVE  decision'[r][w] # Undecided
  <2>1. rt # None
    BY <1>1, DocumentAssumption
  <2>2. CASE v = u
    BY <1>1, <1>3, <1>4, <1>6, <1>7, <2>2, ActionableIsNext
  <2>3. CASE v # u
    BY <1>3, <1>4, <1>5, <1>6, <1>7, <2>1, <2>3 DEF InOrder
  <2> QED BY <2>2, <2>3
<1>8. InOrder(route'[r], decision'[r])
  BY <1>1, <1>7 DEF InOrder
<1>9. ASSUME NEW x \in Revisions PROVE InOrder(route'[x], decision'[x])
  <2>1. CASE x = r
    BY <1>8, <2>1
  <2>2. CASE x # r
    BY <1>1, <1>2, <2>2 DEF DecidedInOrder, InOrder
  <2> QED BY <2>1, <2>2
<1> QED BY <1>9 DEF DecidedInOrder, InOrder

LEMMA InitOrder == Init => DecidedInOrder
BY DEF Init, DecidedInOrder

LEMMA NextKeepsOrder == PInv /\ ReviewFacts /\ DecidedInOrder /\ [Next]_vars => DecidedInOrder'
BY RouteStep, SubmitKeepsOrder, DecideKeepsOrder DEF PInv, DecidedInOrder

\* Whoever reviews and in whatever interleaving: in a sequential route nobody
\* has decided before a reviewer with a smaller sequence.
THEOREM DocumentDecidedInOrder == Spec => []DecidedInOrder
BY InitOrder, NextKeepsOrder, DocumentInductive, ReviewInductive, PTL DEF Spec

\* No step edits a decision, and none adds one outside of a review.
THEOREM DocumentDecisionsAreFinal == Spec => DecisionsAreFinal
<1> DEFINE A == \A r \in Revisions, u \in Users :
                  decision'[r][u] # decision[r][u] =>
                    decision[r][u] = Undecided /\ status[r] = "Under Review"
<1>1. ASSUME PInv, [Next]_vars PROVE A
  <2>1. CASE UNCHANGED decision
    BY <2>1
  <2>2. ASSUME NEW v \in Users, NEW x \in Revisions, NEW choice \in Decisions,
               Decide(v, x, choice), NEW r \in Revisions, NEW u \in Users,
               decision'[r][u] # decision[r][u]
        PROVE  decision[r][u] = Undecided /\ status[r] = "Under Review"
    <3>1. r = x /\ u = v
      BY <1>1, <2>2 DEF Decide, PInv, TypeOK, TableTypes
    <3>2. v \in Pending(route[x], decision[x])
      BY <2>2 DEF Decide, Actionable, NextInOrder
    <3> QED BY <2>2, <3>1, <3>2 DEF Decide, InReview, Pending
  <2>3. ASSUME NEW v \in Users, NEW x \in Revisions, NEW rt \in Routes, SubmitReview(v, x, rt)
        PROVE  UNCHANGED decision
    BY <2>3 DEF SubmitReview
  <2> QED BY <1>1, <2>1, <2>2, <2>3, RouteStep
<1>2. PInv /\ [Next]_vars => [A]_vars
  BY <1>1
<1>3. Spec => [][A]_vars
  BY <1>2, DocumentInductive, PTL DEF Spec
<1> QED BY <1>3 DEF DecisionsAreFinal

-----------------------------------------------------------------------------
(* Versions: what a client saw is what its transition acts on *)

Watching == {"looked", "publish"} \union Locking

\* What u was shown of its revision is not ahead of the table, and is what the
\* table says as long as the version is the same; under its lock it stays so.
ViewIsPast(u) ==
  LET r == view[u].rev
  IN  pc[u] \in Watching =>
        /\ status[r] # "Absent"
        /\ view[u].version <= version[r]
        /\ view[u].version = version[r] => view[u].status = status[r]
        /\ pc[u] = "write" => view[u].version = version[r]

ViewsArePast == \A u \in Users : ViewIsPast(u)

\* Only creations, transitions and publications touch states and versions.
LEMMA StatusStep ==
  ASSUME [Next]_vars
  PROVE  \/ UNCHANGED <<status, version>>
         \/ \E r \in Revisions : CreateRevision(r)
         \/ \E u \in Users, r \in Revisions :
              \/ \E rt \in Routes : SubmitReview(u, r, rt)
              \/ \E choice \in Decisions : Decide(u, r, choice)
              \/ Withdraw(u, r)
         \/ \E u \in Users : WritePublish(u)
<1>1. CASE UNCHANGED vars
  BY <1>1 DEF vars, revisionVars
<1>2. ASSUME NEW u \in Users,
             \/ GiveUp(u) \/ InsertComment(u) \/ InsertDisposition(u)
             \/ LockRevision(u) \/ LockDocument(u) \/ CheckPublish(u) \/ DeadlockAbort(u)
      PROVE  UNCHANGED <<status, version>>
  BY <1>2 DEF GiveUp, InsertComment, InsertDisposition, LockRevision, LockDocument,
              CheckPublish, DeadlockAbort, revisionVars
<1>3. ASSUME NEW u \in Users, NEW r \in Revisions,
             \/ \E c \in Contexts : Look(u, r, c)
             \/ \E k \in Comments : ReadForComment(u, r, k) \/ ReadForDisposition(u, r, k)
             \/ RequestPublish(u, r)
      PROVE  UNCHANGED <<status, version>>
  BY <1>3 DEF Look, Begin, ReadForComment, ReadForDisposition, RequestPublish, revisionVars
<1>4. ASSUME NEW r \in Revisions, FileBecomesAvailable(r) PROVE UNCHANGED <<status, version>>
  BY <1>4 DEF FileBecomesAvailable
<1> QED BY <1>1, <1>2, <1>3, <1>4 DEF Next, Publication

\* Versions grow with every change of status, and a locked revision changes
\* only by a publication.
Grows(x) ==
  /\ status'[x] # "Absent"
  /\ version'[x] >= version[x]
  /\ version'[x] = version[x] => status'[x] = status[x]
  /\ version'[x] # version[x] => Unlocked(x) \/ \E u \in Users : WritePublish(u)

LEMMA VersionsGrow ==
  ASSUME PInv, [Next]_vars, NEW x \in Revisions, status[x] # "Absent" PROVE Grows(x)
<1>0. version[x] \in Nat
  BY DEF PInv, TypeOK, TableTypes
<1>1. CASE UNCHANGED <<status, version>>
  BY <1>0, <1>1 DEF Grows
<1>2. ASSUME NEW r \in Revisions, CreateRevision(r)
      PROVE  Grows(x)
  BY <1>0, <1>2 DEF CreateRevision, PInv, TypeOK, TableTypes, Grows
<1>3. ASSUME NEW r \in Revisions, NEW target \in States \ {"Absent"}, Unlocked(r),
             ChangeState(r, target)
      PROVE  Grows(x)
  <2>1. /\ status'[x] = IF x = r THEN target ELSE status[x]
        /\ version'[x] = IF x = r THEN version[x] + 1 ELSE version[x]
    BY <1>3 DEF ChangeState, PInv, TypeOK, TableTypes
  <2> QED BY <1>0, <1>3, <2>1 DEF Grows
<1>4. ASSUME NEW u \in Users, NEW r \in Revisions,
             \/ \E rt \in Routes : SubmitReview(u, r, rt)
             \/ \E choice \in Decisions : Decide(u, r, choice)
             \/ Withdraw(u, r)
      PROVE  Grows(x)
  <2>1. Unlocked(r)
    BY <1>4 DEF SubmitReview, Decide, Withdraw, Transition
  <2>2. CASE Withdraw(u, r) \/ \E rt \in Routes : SubmitReview(u, r, rt)
    BY <1>3, <2>1, <2>2 DEF Withdraw, SubmitReview, States
  <2>3. ASSUME NEW choice \in Decisions, Decide(u, r, choice)
        PROVE  \/ UNCHANGED <<status, version>>
               \/ \E target \in States \ {"Absent"} : ChangeState(r, target)
    <3> DEFINE outcome == Outcome(route[r], [decision[r] EXCEPT ![u] = choice])
    <3>1. CASE outcome = "pending"
      BY <2>3, <3>1 DEF Decide
    <3>2. CASE outcome # "pending"
      <4>1. ChangeState(r, TargetOf(outcome))
        BY <2>3, <3>2 DEF Decide
      <4>2. outcome \in {"rejected", "approved", "approved_with_comments"}
        BY <3>2 DEF Outcome
      <4> HIDE DEF outcome
      <4>3. TargetOf(outcome) \in States \ {"Absent"}
        BY <4>2 DEF TargetOf, States
      <4> QED BY <4>1, <4>3
    <3> QED BY <3>1, <3>2
  <2> QED BY <1>1, <1>3, <1>4, <2>1, <2>2, <2>3
<1>5. ASSUME NEW u \in Users, WritePublish(u)
      PROVE  Grows(x)
  <2>1. CASE x = view[u].rev \/ (x = old[u] /\ Supersedes(view[u].rev, old[u]))
    <3>1. status'[x] \in {"Published", "Superseded"} /\ version'[x] = version[x] + 1
      BY <1>5, <2>1 DEF WritePublish
    <3> QED BY <1>0, <1>5, <3>1 DEF Grows
  <2>2. CASE ~(x = view[u].rev \/ (x = old[u] /\ Supersedes(view[u].rev, old[u])))
    <3>1. status'[x] = status[x] /\ version'[x] = version[x]
      BY <1>5, <2>2 DEF WritePublish
    <3> QED BY <1>0, <3>1 DEF Grows
  <2> QED BY <2>1, <2>2
<1> QED BY <1>1, <1>2, <1>4, <1>5, StatusStep

\* A request that watches a revision has looked at it just now, or had the same
\* view before; it reaches the updates only after seeing its version again.
LEMMA WatchStep ==
  ASSUME TypeOK, [Next]_vars, NEW u \in Users, pc'[u] \in Watching
  PROVE  \/ \E r \in Revisions, c \in Contexts : Look(u, r, c)
         \/ /\ pc[u] \in Watching /\ view'[u] = view[u]
            /\ pc'[u] = "write" => pc[u] = "write" \/ (CheckPublish(u) /\ Fresh(u))
<1> DEFINE Watched == /\ pc[u] \in Watching /\ view'[u] = view[u]
                      /\ pc'[u] = "write" => pc[u] = "write" \/ (CheckPublish(u) /\ Fresh(u))
<1>1. CASE UNCHANGED <<pc, view>>
  BY <1>1
<1>2. ASSUME NEW v \in Users, End(v) PROVE Watched
  BY <1>2 DEF End, Goto, Watching, Locking, TypeOK, RequestTypes
<1>3. CASE UNCHANGED vars
  BY <1>1, <1>3 DEF vars, requestVars
<1>4. ASSUME NEW r \in Revisions, CreateRevision(r) \/ FileBecomesAvailable(r) PROVE Watched
  BY <1>1, <1>4 DEF CreateRevision, FileBecomesAvailable, requestVars
<1>5. ASSUME NEW v \in Users,
             \/ GiveUp(v) \/ InsertComment(v) \/ InsertDisposition(v)
             \/ WritePublish(v) \/ DeadlockAbort(v)
      PROVE  Watched
  BY <1>2, <1>5 DEF GiveUp, InsertComment, InsertDisposition, WritePublish, DeadlockAbort
<1>6. ASSUME NEW v \in Users, NEW r \in Revisions,
             \/ \E rt \in Routes : SubmitReview(v, r, rt)
             \/ \E choice \in Decisions : Decide(v, r, choice)
             \/ Withdraw(v, r)
      PROVE  Watched
  BY <1>2, <1>6 DEF SubmitReview, Decide, Withdraw
<1>7. ASSUME NEW v \in Users, LockRevision(v) \/ LockDocument(v) PROVE Watched
  BY <1>7 DEF LockRevision, LockDocument, Goto, Watching, Locking, TypeOK, RequestTypes
<1>8. ASSUME NEW v \in Users, CheckPublish(v) PROVE Watched
  <2>1. CASE ~CheckedAgain(v, view[v].rev)
    BY <1>2, <1>8, <2>1 DEF CheckPublish
  <2>2. CASE CheckedAgain(v, view[v].rev)
    BY <1>8, <2>2 DEF CheckPublish, CheckedAgain, Goto, Watching, Locking, TypeOK, RequestTypes
  <2> QED BY <2>1, <2>2
<1>9. ASSUME NEW v \in Users, NEW r \in Revisions, RequestPublish(v, r) PROVE Watched
  BY <1>9 DEF RequestPublish, Goto, Watching, Locking, TypeOK, RequestTypes
<1>10. ASSUME NEW v \in Users, NEW r \in Revisions, NEW c \in Contexts, Look(v, r, c), v # u
       PROVE  Watched
  BY <1>10 DEF Look, Goto, Watching, Locking, TypeOK, RequestTypes
<1>11. ASSUME NEW v \in Users, NEW r \in Revisions, NEW k \in Comments,
              ReadForComment(v, r, k) \/ ReadForDisposition(v, r, k)
       PROVE  Watched
  <2>1. /\ pc' = [pc EXCEPT ![v] = "comment"] \/ pc' = [pc EXCEPT ![v] = "dispose"]
        /\ \E w : view' = [view EXCEPT ![v] = w]
    BY <1>11 DEF ReadForComment, ReadForDisposition, Begin, Goto
  <2> QED BY <2>1 DEF Watching, Locking, TypeOK, RequestTypes
<1> HIDE DEF Watched
<1>12. ASSUME NEW v \in Users, NEW r \in Revisions,
              \/ \E c \in Contexts : Look(v, r, c)
              \/ \E rt \in Routes : SubmitReview(v, r, rt)
              \/ \E choice \in Decisions : Decide(v, r, choice)
              \/ Withdraw(v, r)
              \/ \E k \in Comments : ReadForComment(v, r, k) \/ ReadForDisposition(v, r, k)
              \/ RequestPublish(v, r)
       PROVE  Watched \/ \E c \in Contexts : Look(u, r, c)
  BY <1>6, <1>9, <1>10, <1>11, <1>12
<1>13. ASSUME NEW v \in Users,
              GiveUp(v) \/ InsertComment(v) \/ InsertDisposition(v) \/ Publication(v)
       PROVE  Watched
  BY <1>5, <1>7, <1>8, <1>13 DEF Publication
<1>14. ASSUME Next, ~Watched PROVE \E r \in Revisions, c \in Contexts : Look(u, r, c)
  <2>1. \A r \in Revisions : ~(CreateRevision(r) \/ FileBecomesAvailable(r))
    BY <1>4, <1>14
  <2>2. PICK v \in Users :
          \/ GiveUp(v) \/ InsertComment(v) \/ InsertDisposition(v) \/ Publication(v)
          \/ \E r \in Revisions :
               \/ \E c \in Contexts : Look(v, r, c)
               \/ \E rt \in Routes : SubmitReview(v, r, rt)
               \/ \E choice \in Decisions : Decide(v, r, choice)
               \/ Withdraw(v, r)
               \/ \E k \in Comments : ReadForComment(v, r, k) \/ ReadForDisposition(v, r, k)
               \/ RequestPublish(v, r)
    BY <1>14, <2>1 DEF Next
  <2> QED BY <1>12, <1>13, <1>14, <2>2
<1> QED BY <1>3, <1>14 DEF Watched

LEMMA InitViews == Init => ViewsArePast
BY DEF Init, ViewsArePast, ViewIsPast, Watching, Locking

\* The writer's own lock keeps its revision as it is until it writes.
LEMMA WriterKeepsVersion ==
  ASSUME PInv, ViewsArePast, [Next]_vars, NEW u \in Users, pc[u] = "write", pc'[u] = "write"
  PROVE  version'[view[u].rev] = version[view[u].rev]
<1> DEFINE r == view[u].rev
<1>1. r \in Revisions /\ status[r] # "Absent" /\ ~Unlocked(r)
  <2>1. r \in Revisions /\ rowLock[r] = u
    BY DEF PInv, TypeOK, RequestTypes, LocksMatchSteps, Locking
  <2> QED BY <2>1, DocumentAssumption
             DEF Unlocked, ViewsArePast, ViewIsPast, Watching, Locking
<1>2. ASSUME NEW v \in Users, WritePublish(v) PROVE FALSE
  <2>1. pc[v] = "write" /\ pc'[v] = "idle"
    BY <1>2, WritePublishKnows
  <2>2. docLock = u /\ docLock = v
    BY <2>1 DEF PInv, TypeOK, LocksMatchSteps
  <2> QED BY <2>1, <2>2
<1> QED BY <1>1, <1>2, VersionsGrow DEF Grows

LEMMA NextKeepsViews == PInv /\ ViewsArePast /\ [Next]_vars => ViewsArePast'
<1> SUFFICES ASSUME PInv, ViewsArePast, [Next]_vars, NEW u \in Users, pc'[u] \in Watching
             PROVE  ViewIsPast(u)'
  BY DEF ViewsArePast, ViewIsPast
<1>1. ASSUME NEW r \in Revisions, NEW c \in Contexts, Look(u, r, c) PROVE ViewIsPast(u)'
  <2>1. /\ view'[u].rev = r /\ view'[u].version = version[r] /\ view'[u].status = status[r]
        /\ pc'[u] = "looked" /\ status[r] # "Absent" /\ UNCHANGED <<status, version>>
    BY <1>1 DEF Look, Goto, PInv, TypeOK, RequestTypes, revisionVars
  <2>2. version[r] \in Nat
    BY DEF PInv, TypeOK, TableTypes
  <2> QED BY <2>1, <2>2 DEF ViewIsPast
<1>2. ASSUME pc[u] \in Watching, view'[u] = view[u],
             pc'[u] = "write" => pc[u] = "write" \/ (CheckPublish(u) /\ Fresh(u))
      PROVE  ViewIsPast(u)'
  <2> DEFINE r == view[u].rev
  <2>1. /\ r \in Revisions /\ view[u].version \in Nat
        /\ version[r] \in Nat /\ version'[r] \in Nat
    <3>1. TypeOK'
      BY NextKeepsTypeOK DEF PInv
    <3>2. r \in Revisions /\ view[u].version \in Nat
      BY <1>2 DEF PInv, TypeOK, RequestTypes, Views, Watching, Locking
    <3> QED BY <3>1, <3>2 DEF PInv, TypeOK, TableTypes
  <2>2. /\ status[r] # "Absent" /\ view[u].version <= version[r]
        /\ view[u].version = version[r] => view[u].status = status[r]
    BY <1>2 DEF ViewsArePast, ViewIsPast
  <2>3. Grows(r)
    BY <2>1, <2>2, VersionsGrow
  <2>4. /\ status'[r] # "Absent" /\ view[u].version <= version'[r]
        /\ view[u].version = version'[r] => view[u].status = status'[r]
    BY <2>1, <2>2, <2>3 DEF Grows
  <2>5. pc'[u] = "write" => view[u].version = version'[r]
    <3>1. CASE pc'[u] = "write" /\ pc[u] = "write"
      BY <1>2, <3>1, WriterKeepsVersion DEF ViewsArePast, ViewIsPast
    <3>2. CASE CheckPublish(u) /\ Fresh(u)
      BY <3>2 DEF CheckPublish, Fresh, revisionVars
    <3> QED BY <1>2, <3>1, <3>2
  <2> QED BY <1>2, <2>4, <2>5 DEF ViewIsPast
<1> QED BY <1>1, <1>2, WatchStep DEF PInv

\* Whoever's transition moves the revision it acts on was shown the state that
\* the revision leaves.
THEOREM DocumentActsOnSeenStatus == Spec => ActsOnSeenStatus
<1> DEFINE A == \A u \in Users :
                  LET r == view[u].rev
                  IN  (pc[u] # "idle" /\ pc'[u] = "idle" /\ status'[r] # status[r])
                        => status[r] = view[u].status
<1>1. ASSUME PInv, ViewsArePast, [Next]_vars, NEW u \in Users,
             pc[u] # "idle", pc'[u] = "idle", status'[view[u].rev] # status[view[u].rev]
      PROVE  status[view[u].rev] = view[u].status
  <2> DEFINE r == view[u].rev
  <2>0. r \in Revisions
    BY <1>1 DEF PInv, TypeOK, RequestTypes
  <2>1. ASSUME NEW v \in Users, NEW x \in Revisions,
               \/ \E rt \in Routes : SubmitReview(v, x, rt)
               \/ \E choice \in Decisions : Decide(v, x, choice)
               \/ Withdraw(v, x)
        PROVE  v = u /\ pc[u] = "looked" /\ Fresh(u)
    <3>1. Transition(v, x) /\ End(v)
      BY <2>1 DEF SubmitReview, Decide, Withdraw
    <3>2. v = u
      BY <1>1, <3>1 DEF End, Goto, PInv, TypeOK, RequestTypes
    <3> QED BY <3>1, <3>2 DEF Transition
  <2>2. ASSUME NEW v \in Users, WritePublish(v) PROVE pc[u] = "write"
    <3>1. v = u
      BY <1>1, <2>2 DEF WritePublish, End, Goto, PInv, TypeOK, RequestTypes
    <3> QED BY <2>2, <3>1 DEF WritePublish
  <2>3. ASSUME NEW x \in Revisions, CreateRevision(x) \/ FileBecomesAvailable(x) PROVE FALSE
    BY <1>1, <2>3 DEF CreateRevision, FileBecomesAvailable, requestVars
  <2>4. \/ UNCHANGED status
        \/ \E v \in Users, x \in Revisions :
             \/ \E rt \in Routes : SubmitReview(v, x, rt)
             \/ \E choice \in Decisions : Decide(v, x, choice)
             \/ Withdraw(v, x)
        \/ \E v \in Users : WritePublish(v)
    BY <1>1, <2>3, StatusStep
  <2>5. pc[u] \in Watching /\ version[r] = view[u].version
    BY <1>1, <2>1, <2>2, <2>4 DEF Watching, Locking, Fresh, ViewsArePast, ViewIsPast
  <2> QED BY <1>1, <2>5 DEF ViewsArePast, ViewIsPast
<1>2. PInv /\ ViewsArePast /\ [Next]_vars => [A]_vars
  BY <1>1
<1>3. Spec => [][A]_vars
  BY <1>2, InitViews, NextKeepsViews, DocumentInductive, PTL DEF Spec
<1> QED BY <1>3 DEF ActsOnSeenStatus

=============================================================================
