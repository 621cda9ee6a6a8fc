---------------------------- MODULE OutboxProofs ----------------------------
(***************************************************************************)
(* Safety of the outbox for every set of events and processes, any names,  *)
(* any number of handlers and any number of crashes and database errors.   *)
(***************************************************************************)
EXTENDS Outbox, TLAPS

\* What runOnce has not come to is claimed under this process's name.
BatchIsOwned == \A p \in Procs : \A e \in batch[p] : Owns(p, e)

\* So is the event it is handling or marking; in the catch block the mark may
\* have committed already.
CurrentIsOwned ==
  \A p \in Procs :
    /\ pc[p] \in {"handle", "mark"} => Owns(p, current[p])
    /\ pc[p] = "fail" => Owns(p, current[p]) \/ status[current[p]] = "Published"

CurrentLeftBatch == \A p \in Procs : current[p] \notin batch[p]

\* The publisher remembers only events all handlers saw, and runOnce marks only
\* what the publisher remembers.
RememberedWasHandled ==
  \A p \in Procs : \A e \in published[p] : handled[e] = Handlers

HandlerProgress ==
  \A p \in Procs :
    /\ pc[p] = "mark" => current[p] \in published[p]
    /\ pc[p] = "handle" => \A h \in 1..(nextHandler[p] - 1) : h \in handled[current[p]]

IInv ==
  /\ TypeOK
  /\ BatchIsOwned
  /\ CurrentIsOwned
  /\ CurrentLeftBatch
  /\ NoConcurrentHandling
  /\ RememberedWasHandled
  /\ HandlerProgress
  /\ NoRedeliveryInProcess
  /\ PublishedWasHandled

LEMMA InitIInv == Init => IInv
  BY OutboxAssumption DEF Init, IInv, TypeOK, BatchIsOwned, CurrentIsOwned, CurrentLeftBatch,
         NoConcurrentHandling, Holding, RememberedWasHandled, HandlerProgress,
         NoRedeliveryInProcess, PublishedWasHandled, Names, Handlers, Idle


-----------------------------------------------------------------------------
(* What the invariant says about the event in a process's hands *)

\* While a process holds an event its row is claimed or already published, so
\* no claim of another process can select it.
LEMMA HeldIsNotClaimable ==
  ASSUME IInv, NEW p \in Procs, NEW e \in Holding(p)
  PROVE  e \notin Claimable
  BY DEF IInv, TypeOK, Holding, BatchIsOwned, CurrentIsOwned, Owns, Claimable, Idle

\* The event a process is at is in nobody's batch and in no other process's hand.
LEMMA CurrentIsAlone ==
  ASSUME IInv, NEW p \in Procs, current[p] # Nobody
  PROVE  /\ current[p] \in Events
         /\ \A q \in Procs : current[p] \notin batch[q]
         /\ \A q \in Procs : q # p => current[q] # current[p]
  BY DEF IInv, TypeOK, NoConcurrentHandling, CurrentLeftBatch, Holding

\* A row that keeps its status and its claimant keeps its owner.
LEMMA RowKeepsOwner ==
  ASSUME NEW p \in Procs, NEW e \in Events,
         status'[e] = status[e], claimedBy'[e] = claimedBy[e]
  PROVE  Owns(p, e)' <=> Owns(p, e)
  BY DEF Owns

-----------------------------------------------------------------------------
(* The steps of the table that no process takes *)

LEMMA EnqueueStep ==
  ASSUME IInv, NEW e \in Events, Enqueue(e) PROVE IInv'
<1>1. TypeOK'
  BY DEF IInv, TypeOK, Enqueue, BecomesDue, procVars
<1>2. /\ BatchIsOwned' /\ CurrentIsOwned' /\ PublishedWasHandled'
  BY DEF IInv, TypeOK, BatchIsOwned, CurrentIsOwned, PublishedWasHandled, Owns,
         Enqueue, procVars, Idle
<1>3. /\ CurrentLeftBatch' /\ NoConcurrentHandling' /\ RememberedWasHandled'
      /\ HandlerProgress' /\ NoRedeliveryInProcess'
  BY DEF IInv, CurrentLeftBatch, NoConcurrentHandling, Holding, HandlerProgress,
         RememberedWasHandled, NoRedeliveryInProcess, Enqueue, procVars
<1> QED BY <1>1, <1>2, <1>3 DEF IInv

LEMMA RetryFallsDueStep ==
  ASSUME IInv, NEW e \in Events, RetryFallsDue(e) PROVE IInv'
<1>1. TypeOK'
  BY DEF IInv, TypeOK, RetryFallsDue, BecomesDue, procVars
<1>2. UNCHANGED <<status, claimedBy, handled, batch, current, pc, nextHandler, published>>
  BY DEF RetryFallsDue, procVars
<1> QED
  BY <1>1, <1>2 DEF IInv, BatchIsOwned, CurrentIsOwned, Owns, PublishedWasHandled,
     CurrentLeftBatch, NoConcurrentHandling, Holding, HandlerProgress,
     RememberedWasHandled, NoRedeliveryInProcess

-----------------------------------------------------------------------------
(* Claiming *)

\* The rows a claim changes were claimable, so the rows in anybody's hands keep
\* their owner and their status.
LEMMA ClaimSparesHeldRows ==
  ASSUME IInv, NEW p \in Procs, NEW S \in SUBSET Claimable, ClaimRows(p, S)
  PROVE  /\ status'    \in [Events -> {"Absent", "Pending", "Claimed", "Published", "Failed"}]
         /\ claimedBy' \in [Events -> Names \union {Nobody}]
         /\ attempts'  \in [Events -> 0..AttemptCap]
         /\ \A e \in S : Owns(p, e)'
         /\ \A e \in Events : status[e] = "Published" <=> status'[e] = "Published"
         /\ \A q \in Procs : \A e \in Holding(q) :
              e \notin S /\ status'[e] = status[e] /\ claimedBy'[e] = claimedBy[e]
<1>1. S \subseteq Events
  BY DEF IInv, TypeOK, Claimable
<1>2. \A q \in Procs : Holding(q) \subseteq Events
  BY DEF IInv, TypeOK, Holding
<1>3. \A e \in S : status[e] # "Published"
  BY DEF Claimable
<1>4. attempts' \in [Events -> 0..AttemptCap]
  BY OutboxAssumption DEF IInv, TypeOK, ClaimRows, CountAttempt
<1> QED
  BY <1>1, <1>2, <1>3, <1>4, HeldIsNotClaimable DEF IInv, TypeOK, ClaimRows, Owns, Names

LEMMA ClaimStep ==
  ASSUME IInv, NEW p \in Procs, Claim(p) PROVE IInv'
<1>1. PICK S \in SUBSET Claimable : ClaimRows(p, S) /\ batch' = [batch EXCEPT ![p] = S]
  BY DEF Claim
<1>2. /\ UNCHANGED <<due, ahead, current, pc, nextHandler, published, handled, faults>>
      /\ pc[p] = Idle /\ batch[p] = {} /\ current[p] = Nobody
  BY <1>1 DEF Claim, ClaimRows, IInv, TypeOK
<1>3. S \subseteq Events /\ batch' \in [Procs -> SUBSET Events]
  BY <1>1 DEF IInv, TypeOK, Claimable
<1>4. TypeOK'
  BY <1>1, <1>2, <1>3, ClaimSparesHeldRows DEF IInv, TypeOK
<1>5. /\ \A q \in Procs : q # p => batch'[q] = batch[q]
      /\ batch'[p] = S
  BY <1>1 DEF IInv, TypeOK
<1>6. \A q \in Procs : Holding(q) \intersect S = {}
  BY <1>1, ClaimSparesHeldRows
<1>7. BatchIsOwned'
  <2> SUFFICES ASSUME NEW q \in Procs, NEW e \in batch'[q] PROVE Owns(q, e)'
    BY DEF BatchIsOwned
  <2>1. CASE q = p
    BY <2>1, <1>1, <1>5, ClaimSparesHeldRows
  <2>2. CASE q # p
    <3>1. e \in Holding(q) /\ Owns(q, e)
      BY <2>2, <1>5 DEF IInv, BatchIsOwned, Holding
    <3> QED BY <3>1, <1>1, ClaimSparesHeldRows DEF Owns
  <2> QED BY <2>1, <2>2
<1>8. CurrentIsOwned'
  <2> SUFFICES ASSUME NEW q \in Procs, pc[q] # Idle
               PROVE  status'[current[q]] = status[current[q]]
                      /\ claimedBy'[current[q]] = claimedBy[current[q]]
    BY <1>2 DEF IInv, CurrentIsOwned, Owns, Idle
  <2>1. current[q] \in Holding(q)
    BY DEF IInv, TypeOK, Holding
  <2> QED BY <2>1, <1>1, ClaimSparesHeldRows
<1>9. CurrentLeftBatch' /\ NoConcurrentHandling'
  <2>1. \A q \in Procs : Holding(q)' = IF q = p THEN S ELSE Holding(q)
    BY <1>2, <1>5 DEF Holding
  <2>2. NoConcurrentHandling'
    BY <2>1, <1>6 DEF IInv, NoConcurrentHandling
  <2>3. CurrentLeftBatch'
    BY <1>2, <1>3, <1>5, OutboxAssumption DEF IInv, CurrentLeftBatch
  <2> QED BY <2>2, <2>3
<1>10. PublishedWasHandled'
  BY <1>1, <1>2, ClaimSparesHeldRows DEF IInv, PublishedWasHandled
<1>11. RememberedWasHandled' /\ HandlerProgress' /\ NoRedeliveryInProcess'
  BY <1>2 DEF IInv, RememberedWasHandled, HandlerProgress, NoRedeliveryInProcess
<1> QED BY <1>4, <1>7, <1>8, <1>9, <1>10, <1>11 DEF IInv

LEMMA ClaimAnswerLostStep ==
  ASSUME IInv, NEW p \in Procs, ClaimAnswerLost(p) PROVE IInv'
<1>1. PICK S \in SUBSET Claimable : ClaimRows(p, S)
  BY DEF ClaimAnswerLost
<1>2. /\ UNCHANGED <<due, ahead, batch, current, pc, nextHandler, published, handled>>
      /\ faults' \in 0..MaxFaults
  BY <1>1, OutboxAssumption DEF ClaimAnswerLost, ClaimRows, procVars, IInv, TypeOK
<1>3. TypeOK'
  BY <1>1, <1>2, ClaimSparesHeldRows DEF IInv, TypeOK
<1>4. BatchIsOwned'
  <2> SUFFICES ASSUME NEW q \in Procs, NEW e \in batch[q] PROVE Owns(q, e)'
    BY <1>2 DEF BatchIsOwned
  <2>1. e \in Holding(q) /\ Owns(q, e)
    BY DEF IInv, BatchIsOwned, Holding
  <2> QED BY <2>1, <1>1, ClaimSparesHeldRows DEF Owns
<1>5. CurrentIsOwned'
  <2> SUFFICES ASSUME NEW q \in Procs, pc[q] # Idle
               PROVE  status'[current[q]] = status[current[q]]
                      /\ claimedBy'[current[q]] = claimedBy[current[q]]
    BY <1>2 DEF IInv, CurrentIsOwned, Owns, Idle
  <2>1. current[q] \in Holding(q)
    BY DEF IInv, TypeOK, Holding
  <2> QED BY <2>1, <1>1, ClaimSparesHeldRows
<1>6. PublishedWasHandled'
  BY <1>1, <1>2, ClaimSparesHeldRows DEF IInv, PublishedWasHandled
<1>7. /\ CurrentLeftBatch' /\ NoConcurrentHandling' /\ RememberedWasHandled'
      /\ HandlerProgress' /\ NoRedeliveryInProcess'
  BY <1>2 DEF IInv, CurrentLeftBatch, NoConcurrentHandling, Holding, HandlerProgress,
         RememberedWasHandled, NoRedeliveryInProcess
<1> QED BY <1>3, <1>4, <1>5, <1>6, <1>7 DEF IInv

-----------------------------------------------------------------------------
(* Handling *)

LEMMA TakeStep ==
  ASSUME IInv, NEW p \in Procs, Take(p) PROVE IInv'
<1>1. PICK e \in batch[p] :
        /\ batch'   = [batch EXCEPT ![p] = @ \ {e}]
        /\ current' = [current EXCEPT ![p] = e]
        /\ pc'      = [pc EXCEPT ![p] = IF Deduplicated(p, e) THEN "mark" ELSE "handle"]
  BY DEF Take
<1>2. /\ nextHandler' = [nextHandler EXCEPT ![p] = 1]
      /\ UNCHANGED <<published, handled, faults, status, claimedBy, attempts, due, ahead>>
      /\ e \in Events
  BY DEF Take, dbVars, IInv, TypeOK
<1>3. TypeOK'
  BY <1>1, <1>2, OutboxAssumption DEF IInv, TypeOK, Handlers, Idle
<1>4. BatchIsOwned' /\ CurrentIsOwned'
  BY <1>1, <1>2 DEF IInv, TypeOK, BatchIsOwned, CurrentIsOwned, Owns, Idle
<1>5. CurrentLeftBatch'
  BY <1>1, <1>2 DEF IInv, TypeOK, CurrentLeftBatch, NoConcurrentHandling, Holding
<1>6. NoConcurrentHandling'
  <2>1. \A q \in Procs : Holding(q)' \subseteq Holding(q)
    BY <1>1, <1>2 DEF IInv, TypeOK, Holding
  <2> QED BY <2>1 DEF IInv, NoConcurrentHandling
<1>7. HandlerProgress' /\ NoRedeliveryInProcess'
  BY <1>1, <1>2 DEF IInv, TypeOK, HandlerProgress, NoRedeliveryInProcess, Deduplicated
<1>8. RememberedWasHandled' /\ PublishedWasHandled'
  BY <1>2 DEF IInv, RememberedWasHandled, PublishedWasHandled
<1> QED BY <1>3, <1>4, <1>5, <1>6, <1>7, <1>8 DEF IInv

LEMMA HandlerResolvesStep ==
  ASSUME IInv, NEW p \in Procs, HandlerResolves(p) PROVE IInv'
<1> DEFINE e == current[p]
<1>1. /\ e \in Events
      /\ pc[p] = "handle"
      /\ handled' = [handled EXCEPT ![e] = @ \union {nextHandler[p]}]
      /\ UNCHANGED <<batch, current, faults, status, claimedBy, attempts, due, ahead>>
  BY DEF HandlerResolves, dbVars, IInv, TypeOK, Idle
<1>2. nextHandler[p] \in Handlers /\ \A f \in Events : handled[f] \subseteq handled'[f]
  BY <1>1 DEF IInv, TypeOK
<1>3. \A f \in Events : handled'[f] \subseteq Handlers
  BY <1>1, <1>2 DEF IInv, TypeOK
<1>4. CASE LastHandler(p)
  <2>1. /\ published' = [published EXCEPT ![p] = @ \union {e}]
        /\ pc' = [pc EXCEPT ![p] = "mark"]
        /\ UNCHANGED nextHandler
    BY <1>4 DEF HandlerResolves
  <2>2. handled'[e] = Handlers
    <3>1. \A h \in Handlers : h \in 1..(nextHandler[p] - 1) \/ h = nextHandler[p]
      BY <1>4, OutboxAssumption DEF LastHandler, Handlers
    <3>2. Handlers \subseteq handled'[e]
      BY <3>1, <1>1, <1>2 DEF IInv, TypeOK, HandlerProgress
    <3> QED BY <3>2, <1>3, <1>1
  <2>3. TypeOK'
    BY <2>1, <1>1, <1>2 DEF IInv, TypeOK, Idle
  <2>4. BatchIsOwned' /\ CurrentIsOwned'
    BY <2>1, <1>1 DEF IInv, TypeOK, BatchIsOwned, CurrentIsOwned, Owns
  <2>5. RememberedWasHandled'
    <3> SUFFICES ASSUME NEW q \in Procs, NEW f \in published'[q]
                 PROVE  handled'[f] = Handlers
      BY DEF RememberedWasHandled
    <3>1. f = e \/ (f \in Events /\ handled[f] = Handlers)
      BY <2>1 DEF IInv, TypeOK, RememberedWasHandled
    <3> QED BY <3>1, <2>2, <1>2, <1>3
  <2>6. HandlerProgress' /\ NoRedeliveryInProcess'
    BY <2>1, <1>1, <1>2, CurrentIsAlone, OutboxAssumption
       DEF IInv, TypeOK, HandlerProgress, NoRedeliveryInProcess, Idle
  <2>7. PublishedWasHandled'
    BY <1>1, <1>2, <1>3 DEF IInv, PublishedWasHandled
  <2>8. CurrentLeftBatch' /\ NoConcurrentHandling'
    BY <1>1 DEF IInv, CurrentLeftBatch, NoConcurrentHandling, Holding
  <2> QED BY <2>3, <2>4, <2>5, <2>6, <2>7, <2>8 DEF IInv
<1>5. CASE ~LastHandler(p)
  <2>1. /\ nextHandler' = [nextHandler EXCEPT ![p] = @ + 1]
        /\ UNCHANGED <<published, pc>>
    BY <1>5 DEF HandlerResolves
  <2>2. nextHandler[p] + 1 \in Handlers
    BY <1>5, <1>2, OutboxAssumption DEF LastHandler, Handlers
  <2>3. TypeOK'
    BY <2>1, <2>2, <1>1, <1>2 DEF IInv, TypeOK
  <2>4. BatchIsOwned' /\ CurrentIsOwned' /\ CurrentLeftBatch' /\ NoConcurrentHandling'
    BY <2>1, <1>1 DEF IInv, BatchIsOwned, CurrentIsOwned, Owns, CurrentLeftBatch,
                      NoConcurrentHandling, Holding
  <2>5. RememberedWasHandled' /\ PublishedWasHandled'
    BY <2>1, <1>1, <1>2, <1>3 DEF IInv, TypeOK, RememberedWasHandled, PublishedWasHandled
  <2>6. HandlerProgress'
    <3> SUFFICES ASSUME NEW q \in Procs
                 PROVE  /\ pc[q] = "mark" => current[q] \in published[q]
                        /\ pc[q] = "handle" => \A h \in 1..(nextHandler'[q] - 1) :
                                                 h \in handled'[current[q]]
      BY <2>1, <1>1 DEF HandlerProgress
    <3>1. CASE q = p
      <4>1. \A h \in 1..(nextHandler'[p] - 1) :
              h \in 1..(nextHandler[p] - 1) \/ h = nextHandler[p]
        BY <2>1, <1>2 DEF Handlers, IInv, TypeOK
      <4> QED BY <3>1, <4>1, <1>1 DEF IInv, TypeOK, HandlerProgress
    <3>2. CASE q # p
      <4>1. nextHandler'[q] = nextHandler[q]
        BY <3>2, <2>1 DEF IInv, TypeOK
      <4>2. pc[q] = "handle" => current[q] \in Events
        BY DEF IInv, TypeOK, Idle
      <4> QED BY <4>1, <4>2, <1>2 DEF IInv, HandlerProgress
    <3> QED BY <3>1, <3>2
  <2>7. NoRedeliveryInProcess'
    BY <2>1, <1>1 DEF IInv, NoRedeliveryInProcess
  <2> QED BY <2>3, <2>4, <2>5, <2>6, <2>7 DEF IInv
<1> QED BY <1>4, <1>5

LEMMA HandlerThrowsStep ==
  ASSUME IInv, NEW p \in Procs, HandlerThrows(p) PROVE IInv'
<1>1. TypeOK'
  BY DEF IInv, TypeOK, HandlerThrows, dbVars, Idle
<1>2. BatchIsOwned' /\ CurrentIsOwned' /\ PublishedWasHandled'
  BY DEF IInv, TypeOK, BatchIsOwned, CurrentIsOwned, PublishedWasHandled, Owns,
         HandlerThrows, dbVars
<1>3. CurrentLeftBatch' /\ NoConcurrentHandling' /\ RememberedWasHandled'
  BY DEF IInv, CurrentLeftBatch, NoConcurrentHandling, Holding, RememberedWasHandled,
         HandlerThrows
<1>4. HandlerProgress' /\ NoRedeliveryInProcess'
  BY DEF IInv, TypeOK, HandlerProgress, NoRedeliveryInProcess, HandlerThrows
<1> QED BY <1>1, <1>2, <1>3, <1>4 DEF IInv

-----------------------------------------------------------------------------
(* Marking *)

\* An update of the row of the event in p's hand leaves the rows in all batches
\* and in the other processes' hands as they were.
LEMMA OnlyOwnRowChanges ==
  ASSUME IInv, NEW p \in Procs, pc[p] # Idle,
         \A f \in Events \ {current[p]} :
           status'[f] = status[f] /\ claimedBy'[f] = claimedBy[f]
  PROVE  /\ \A q \in Procs : \A f \in batch[q] : Owns(q, f)'
         /\ \A q \in Procs : q # p /\ pc[q] # Idle =>
              /\ status'[current[q]] = status[current[q]]
              /\ claimedBy'[current[q]] = claimedBy[current[q]]
<1>1. current[p] # Nobody
  BY DEF IInv, TypeOK
<1>2. \A q \in Procs : \A f \in batch[q] : Owns(q, f) /\ f \in Events \ {current[p]}
  BY <1>1, CurrentIsAlone DEF IInv, TypeOK, BatchIsOwned
<1>3. \A q \in Procs : q # p /\ pc[q] # Idle => current[q] \in Events \ {current[p]}
  BY <1>1, CurrentIsAlone DEF IInv, TypeOK
<1> QED BY <1>2, <1>3 DEF Owns

\* What both outcomes of a mark do to the table.
LEMMA SetPublishedRow ==
  ASSUME IInv, NEW p \in Procs, NEW e \in Events, SetPublished(p, e)
  PROVE  /\ status' = [status EXCEPT ![e] = "Published"]
         /\ UNCHANGED <<claimedBy, attempts>>
         /\ status' \in [Events -> {"Absent", "Pending", "Claimed", "Published", "Failed"}]
         /\ due' \in SUBSET Events
         /\ ahead' \in [Events -> SUBSET Events]
  BY DEF IInv, TypeOK, SetPublished, LeavesDue

LEMMA SetFailedRow ==
  ASSUME IInv, NEW p \in Procs, NEW e \in Events, SetFailed(p, e)
  PROVE  /\ claimedBy' = [claimedBy EXCEPT ![e] = Nobody]
         /\ status' \in [Events -> {"Absent", "Pending", "Claimed", "Published", "Failed"}]
         /\ status'[e] \in {"Pending", "Failed"}
         /\ \A f \in Events \ {e} : status'[f] = status[f]
         /\ UNCHANGED attempts
         /\ due' \in SUBSET Events
         /\ ahead' \in [Events -> SUBSET Events]
<1>1. CASE Exhausted(e)
  BY <1>1 DEF IInv, TypeOK, SetFailed
<1>2. CASE ~Exhausted(e)
  BY <1>2 DEF IInv, TypeOK, SetFailed, LeavesDue
<1> QED BY <1>1, <1>2

\* Letting go of the event in hand, and perhaps of the batch, keeps everything
\* the invariant says about processes alone.
LEMMA LettingGo ==
  ASSUME IInv, NEW p \in Procs, Done(p),
         batch' \in [Procs -> SUBSET Events],
         \A q \in Procs : batch'[q] \subseteq batch[q],
         \A q \in Procs : published'[q] \subseteq published[q],
         \A q \in Procs : q # p => published'[q] = published[q]
                               /\ nextHandler'[q] = nextHandler[q],
         UNCHANGED handled
  PROVE  /\ CurrentLeftBatch' /\ NoConcurrentHandling' /\ RememberedWasHandled'
         /\ HandlerProgress' /\ NoRedeliveryInProcess'
         /\ current' \in [Procs -> Events \union {Nobody}]
         /\ pc' \in [Procs -> {Idle, "handle", "mark", "fail"}]
         /\ \A q \in Procs : pc'[q] = Idle <=> current'[q] = Nobody
         /\ pc'[p] = Idle
         /\ \A q \in Procs : q # p => pc'[q] = pc[q] /\ current'[q] = current[q]
<1>1. /\ current' = [current EXCEPT ![p] = Nobody]
      /\ pc' = [pc EXCEPT ![p] = Idle]
  BY DEF Done
<1>2. CurrentLeftBatch'
  BY <1>1, OutboxAssumption DEF IInv, TypeOK, CurrentLeftBatch
<1>3. \A q \in Procs : Holding(q)' \subseteq Holding(q)
  BY <1>1 DEF IInv, TypeOK, Holding
<1>4. NoConcurrentHandling'
  BY <1>3 DEF IInv, NoConcurrentHandling
<1>5. RememberedWasHandled'
  BY DEF IInv, RememberedWasHandled
<1>6. HandlerProgress' /\ NoRedeliveryInProcess'
  BY <1>1 DEF IInv, TypeOK, HandlerProgress, NoRedeliveryInProcess, Idle
<1> QED BY <1>1, <1>2, <1>4, <1>5, <1>6 DEF IInv, TypeOK, Idle

LEMMA MarkPublishedStep ==
  ASSUME IInv, NEW p \in Procs, MarkPublished(p) PROVE IInv'
<1> DEFINE e == current[p]
<1>1. /\ pc[p] = "mark" /\ pc[p] # Idle
      /\ e \in Events
      /\ Owns(p, e)
      /\ UNCHANGED <<batch, nextHandler, published, handled, faults>>
  BY DEF MarkPublished, IInv, TypeOK, CurrentIsOwned, Idle
<1>2. SetPublished(p, e) /\ Done(p)
  BY <1>1 DEF MarkPublished
<1>3. /\ status' = [status EXCEPT ![e] = "Published"]
      /\ UNCHANGED <<claimedBy, attempts>>
      /\ status' \in [Events -> {"Absent", "Pending", "Claimed", "Published", "Failed"}]
      /\ due' \in SUBSET Events
      /\ ahead' \in [Events -> SUBSET Events]
  BY <1>1, <1>2, SetPublishedRow
<1>4. \A f \in Events \ {e} : status'[f] = status[f] /\ claimedBy'[f] = claimedBy[f]
  BY <1>3 DEF IInv, TypeOK
<1>5. batch' \in [Procs -> SUBSET Events]
  BY <1>1 DEF IInv, TypeOK
<1>6. TypeOK'
  BY <1>1, <1>2, <1>3, <1>5, LettingGo DEF IInv, TypeOK
<1>7. BatchIsOwned'
  BY <1>1, <1>4, OnlyOwnRowChanges DEF BatchIsOwned
<1>8. CurrentIsOwned'
  BY <1>1, <1>2, <1>4, <1>5, LettingGo, OnlyOwnRowChanges DEF IInv, CurrentIsOwned, Owns, Idle
<1>9. PublishedWasHandled'
  <2>1. handled[e] = Handlers
    BY <1>1 DEF IInv, HandlerProgress, RememberedWasHandled
  <2> QED BY <2>1, <1>1, <1>4 DEF IInv, PublishedWasHandled
<1> QED BY <1>1, <1>2, <1>5, <1>6, <1>7, <1>8, <1>9, LettingGo DEF IInv

LEMMA MarkPublishedErrsStep ==
  ASSUME IInv, NEW p \in Procs, MarkPublishedErrs(p) PROVE IInv'
<1> DEFINE e == current[p]
<1>1. /\ pc[p] = "mark" /\ pc[p] # Idle
      /\ e \in Events
      /\ Owns(p, e)
      /\ pc' = [pc EXCEPT ![p] = "fail"]
      /\ faults' \in 0..MaxFaults
      /\ UNCHANGED <<batch, current, nextHandler, published, handled>>
  BY OutboxAssumption DEF MarkPublishedErrs, IInv, TypeOK, CurrentIsOwned, Idle
<1>2. handled[e] = Handlers
  BY <1>1 DEF IInv, HandlerProgress, RememberedWasHandled
<1>3. /\ status' \in [Events -> {"Absent", "Pending", "Claimed", "Published", "Failed"}]
      /\ UNCHANGED <<claimedBy, attempts>>
      /\ due' \in SUBSET Events
      /\ ahead' \in [Events -> SUBSET Events]
      /\ \A f \in Events \ {e} : status'[f] = status[f]
      /\ status'[e] \in {"Claimed", "Published"}
  <2>1. CASE SetPublished(p, e)
    BY <2>1, <1>1, SetPublishedRow DEF IInv, TypeOK
  <2>2. CASE UNCHANGED dbVars
    BY <2>2, <1>1 DEF IInv, TypeOK, dbVars, Owns
  <2> QED BY <2>1, <2>2 DEF MarkPublishedErrs
<1>4. TypeOK'
  BY <1>1, <1>3 DEF IInv, TypeOK, Idle
<1>5. BatchIsOwned'
  BY <1>1, <1>3, OnlyOwnRowChanges DEF BatchIsOwned
<1>6. CurrentIsOwned'
  <2> SUFFICES ASSUME NEW q \in Procs
               PROVE  /\ pc'[q] \in {"handle", "mark"} => Owns(q, current[q])'
                      /\ pc'[q] = "fail" => Owns(q, current[q])'
                                           \/ status'[current[q]] = "Published"
    BY <1>1 DEF CurrentIsOwned
  <2>1. CASE q = p
    BY <2>1, <1>1, <1>3 DEF IInv, TypeOK, Owns
  <2>2. CASE q # p
    <3>1. pc'[q] = pc[q]
      BY <2>2, <1>1 DEF IInv, TypeOK
    <3>2. pc[q] # Idle => /\ status'[current[q]] = status[current[q]]
                          /\ claimedBy'[current[q]] = claimedBy[current[q]]
      BY <2>2, <1>1, <1>3, OnlyOwnRowChanges
    <3> QED BY <3>1, <3>2, <1>1 DEF IInv, CurrentIsOwned, Owns, Idle
  <2> QED BY <2>1, <2>2
<1>7. PublishedWasHandled'
  BY <1>1, <1>2, <1>3 DEF IInv, PublishedWasHandled
<1>8. /\ CurrentLeftBatch' /\ NoConcurrentHandling' /\ RememberedWasHandled'
  BY <1>1 DEF IInv, CurrentLeftBatch, NoConcurrentHandling, Holding, RememberedWasHandled
<1>9. HandlerProgress' /\ NoRedeliveryInProcess'
  BY <1>1 DEF IInv, TypeOK, HandlerProgress, NoRedeliveryInProcess
<1> QED BY <1>4, <1>5, <1>6, <1>7, <1>8, <1>9 DEF IInv

LEMMA MarkFailedStep ==
  ASSUME IInv, NEW p \in Procs, MarkFailed(p) PROVE IInv'
<1> DEFINE e == current[p]
<1>1. /\ pc[p] = "fail" /\ pc[p] # Idle
      /\ e \in Events
      /\ SetFailed(p, e) /\ Done(p)
      /\ UNCHANGED <<batch, nextHandler, published, handled, faults>>
  BY DEF MarkFailed, IInv, TypeOK, Idle
<1>2. batch' \in [Procs -> SUBSET Events]
  BY <1>1 DEF IInv, TypeOK
<1>3. TypeOK'
  BY <1>1, <1>2, SetFailedRow, LettingGo DEF IInv, TypeOK
<1>4. \A f \in Events \ {e} : status'[f] = status[f] /\ claimedBy'[f] = claimedBy[f]
  BY <1>1, SetFailedRow DEF IInv, TypeOK
<1>5. BatchIsOwned'
  BY <1>1, <1>4, OnlyOwnRowChanges DEF BatchIsOwned
<1>6. CurrentIsOwned'
  BY <1>1, <1>2, <1>4, LettingGo, OnlyOwnRowChanges DEF IInv, CurrentIsOwned, Owns, Idle
<1>7. PublishedWasHandled'
  BY <1>1, <1>4, SetFailedRow DEF IInv, PublishedWasHandled
<1> QED BY <1>1, <1>2, <1>3, <1>5, <1>6, <1>7, LettingGo DEF IInv

LEMMA MarkFailedRefusedStep ==
  ASSUME IInv, NEW p \in Procs, MarkFailedRefused(p) PROVE IInv'
<1>1. /\ pc[p] = "fail" /\ pc[p] # Idle
      /\ Done(p)
      /\ batch' = [batch EXCEPT ![p] = {}]
      /\ UNCHANGED <<nextHandler, published, handled, faults, status, claimedBy,
                     attempts, due, ahead>>
  BY DEF MarkFailedRefused, AbandonBatch, dbVars, Idle
<1>2. /\ batch' \in [Procs -> SUBSET Events]
      /\ \A q \in Procs : batch'[q] \subseteq batch[q]
  BY <1>1 DEF IInv, TypeOK
<1>3. TypeOK'
  BY <1>1, <1>2, LettingGo DEF IInv, TypeOK
<1>4. BatchIsOwned'
  BY <1>1, <1>2 DEF IInv, BatchIsOwned, Owns
<1>5. CurrentIsOwned'
  BY <1>1, <1>2, LettingGo DEF IInv, CurrentIsOwned, Owns, Idle
<1>6. PublishedWasHandled'
  BY <1>1 DEF IInv, PublishedWasHandled
<1> QED BY <1>1, <1>2, <1>3, <1>4, <1>5, <1>6, LettingGo DEF IInv

LEMMA MarkFailedErrsStep ==
  ASSUME IInv, NEW p \in Procs, MarkFailedErrs(p) PROVE IInv'
<1> DEFINE e == current[p]
<1>1. /\ pc[p] = "fail" /\ pc[p] # Idle
      /\ e \in Events
      /\ Done(p)
      /\ batch' = [batch EXCEPT ![p] = {}]
      /\ faults' \in 0..MaxFaults
      /\ UNCHANGED <<nextHandler, published, handled>>
  BY OutboxAssumption DEF MarkFailedErrs, AbandonBatch, IInv, TypeOK, Idle
<1>2. /\ batch' \in [Procs -> SUBSET Events]
      /\ \A q \in Procs : batch'[q] \subseteq batch[q]
  BY <1>1 DEF IInv, TypeOK
<1>3. /\ status' \in [Events -> {"Absent", "Pending", "Claimed", "Published", "Failed"}]
      /\ claimedBy' \in [Events -> Names \union {Nobody}]
      /\ attempts' \in [Events -> 0..AttemptCap]
      /\ due' \in SUBSET Events
      /\ ahead' \in [Events -> SUBSET Events]
      /\ \A f \in Events \ {e} : status'[f] = status[f] /\ claimedBy'[f] = claimedBy[f]
      /\ status'[e] = "Published" => status[e] = "Published"
  <2>1. CASE SetFailed(p, e)
    <3>1. claimedBy' = [claimedBy EXCEPT ![e] = Nobody]
      BY <2>1, <1>1, SetFailedRow
    <3>2. claimedBy' \in [Events -> Names \union {Nobody}]
      BY <3>1, <1>1 DEF IInv, TypeOK
    <3>3. \A f \in Events \ {e} : claimedBy'[f] = claimedBy[f]
      BY <3>1 DEF IInv, TypeOK
    <3> QED BY <2>1, <3>2, <3>3, <1>1, SetFailedRow DEF IInv, TypeOK
  <2>2. CASE UNCHANGED dbVars
    BY <2>2, <1>1 DEF IInv, TypeOK, dbVars
  <2> QED BY <2>1, <2>2 DEF MarkFailedErrs
<1>4. TypeOK'
  BY <1>1, <1>2, <1>3, LettingGo DEF IInv, TypeOK
<1>5. BatchIsOwned'
  BY <1>1, <1>2, <1>3, OnlyOwnRowChanges DEF BatchIsOwned
<1>6. CurrentIsOwned'
  BY <1>1, <1>2, <1>3, LettingGo, OnlyOwnRowChanges DEF IInv, CurrentIsOwned, Owns, Idle
<1>7. PublishedWasHandled'
  BY <1>1, <1>3 DEF IInv, PublishedWasHandled
<1> QED BY <1>1, <1>2, <1>4, <1>5, <1>6, <1>7, LettingGo DEF IInv

LEMMA CrashStep ==
  ASSUME IInv, NEW p \in Procs, Crash(p) PROVE IInv'
<1>1. /\ Done(p)
      /\ batch' = [batch EXCEPT ![p] = {}]
      /\ nextHandler' = [nextHandler EXCEPT ![p] = 1]
      /\ published' = [published EXCEPT ![p] = {}]
      /\ faults' \in 0..MaxFaults
      /\ UNCHANGED <<handled, status, claimedBy, attempts, due, ahead>>
  BY OutboxAssumption DEF Crash, AbandonBatch, dbVars, IInv, TypeOK
<1>2. /\ batch' \in [Procs -> SUBSET Events]
      /\ \A q \in Procs : batch'[q] \subseteq batch[q]
      /\ \A q \in Procs : published'[q] \subseteq published[q]
      /\ \A q \in Procs : q # p => published'[q] = published[q]
                              /\ nextHandler'[q] = nextHandler[q]
  BY <1>1 DEF IInv, TypeOK
<1>3. TypeOK'
  BY <1>1, <1>2, LettingGo, OutboxAssumption DEF IInv, TypeOK, Handlers
<1>4. BatchIsOwned'
  BY <1>1, <1>2 DEF IInv, BatchIsOwned, Owns
<1>5. CurrentIsOwned'
  BY <1>1, <1>2, LettingGo DEF IInv, CurrentIsOwned, Owns, Idle
<1>6. PublishedWasHandled'
  BY <1>1 DEF IInv, PublishedWasHandled
<1> QED BY <1>1, <1>2, <1>3, <1>4, <1>5, <1>6, LettingGo DEF IInv

-----------------------------------------------------------------------------
(* The theorems *)

LEMMA NextKeepsIInv == IInv /\ [Next]_vars => IInv'
<1> SUFFICES ASSUME IInv, [Next]_vars PROVE IInv'
  OBVIOUS
<1>1. CASE UNCHANGED vars
  BY <1>1 DEF vars, IInv, TypeOK, BatchIsOwned, CurrentIsOwned, CurrentLeftBatch,
     NoConcurrentHandling, Holding, Owns, RememberedWasHandled, HandlerProgress,
     NoRedeliveryInProcess, PublishedWasHandled
<1>2. CASE \E e \in Events : Enqueue(e) \/ RetryFallsDue(e)
  BY <1>2, EnqueueStep, RetryFallsDueStep
<1>3. ASSUME NEW p \in Procs, RunOnce(p) PROVE IInv'
  BY <1>3, ClaimStep, TakeStep, HandlerResolvesStep, HandlerThrowsStep,
     MarkPublishedStep, MarkFailedStep, MarkFailedRefusedStep DEF RunOnce, Publish
<1>4. ASSUME NEW p \in Procs, Fault(p) PROVE IInv'
  BY <1>4, ClaimAnswerLostStep, MarkPublishedErrsStep, MarkFailedErrsStep, CrashStep DEF Fault
<1> QED BY <1>1, <1>2, <1>3, <1>4 DEF Next

\* The inductive invariant holds in every behaviour of the outbox.
THEOREM OutboxInductive == Spec => []IInv
  BY InitIInv, NextKeepsIInv, PTL DEF Spec

\* Every variable of the table and of the processes keeps its type.
THEOREM OutboxTypeOK == Spec => []TypeOK
<1>1. IInv => TypeOK BY DEF IInv
<1> QED BY <1>1, OutboxInductive, PTL

\* claim_outbox_events never gives a row to a process while another one has it
\* in hand, also when all processes run under one worker name.
THEOREM OutboxNoConcurrentHandling == Spec => []NoConcurrentHandling
<1>1. IInv => NoConcurrentHandling BY DEF IInv
<1> QED BY <1>1, OutboxInductive, PTL

\* A 'Published' row went through every handler first, in one process or another.
THEOREM OutboxPublishedWasHandled == Spec => []PublishedWasHandled
<1>1. IInv => PublishedWasHandled BY DEF IInv
<1> QED BY <1>1, OutboxInductive, PTL

\* publish never starts a handler on an event its process has published.
THEOREM OutboxNoRedeliveryInProcess == Spec => []NoRedeliveryInProcess
<1>1. IInv => NoRedeliveryInProcess BY DEF IInv
<1> QED BY <1>1, OutboxInductive, PTL

\* A step takes no published event back and runs no handler on it.
LEMMA StepKeepsPublished ==
  ASSUME IInv, Next, NEW e \in Events, status[e] = "Published"
  PROVE  status'[e] = "Published" /\ handled'[e] = handled[e]
<1> DEFINE Kept == status'[e] = "Published" /\ handled'[e] = handled[e]
<1>1. CASE \E f \in Events : Enqueue(f) \/ RetryFallsDue(f)
  BY <1>1 DEF Enqueue, RetryFallsDue, IInv, TypeOK
<1>2. ASSUME NEW p \in Procs, RunOnce(p) PROVE Kept
  <2>1. CASE Claim(p)
    <3>1. PICK S \in SUBSET Claimable : ClaimRows(p, S)
      BY <2>1 DEF Claim
    <3> QED BY <2>1, <3>1, ClaimSparesHeldRows DEF Claim
  <2>2. CASE Take(p) \/ HandlerThrows(p) \/ MarkFailedRefused(p)
    BY <2>2 DEF Take, HandlerThrows, MarkFailedRefused, dbVars
  <2>3. CASE HandlerResolves(p)
    <3>1. current[p] # e
      BY <2>3 DEF HandlerResolves, IInv, CurrentIsOwned, Owns
    <3> QED BY <2>3, <3>1 DEF HandlerResolves, dbVars, IInv, TypeOK
  <2>4. CASE MarkPublished(p)
    <3>1. Owns(p, current[p]) /\ UNCHANGED handled
      BY <2>4 DEF MarkPublished, IInv, CurrentIsOwned
    <3> QED BY <2>4, <3>1 DEF MarkPublished, SetPublished, IInv, TypeOK
  <2>5. CASE MarkFailed(p)
    <3>1. Owns(p, current[p]) /\ SetFailed(p, current[p]) /\ UNCHANGED handled
      BY <2>5 DEF MarkFailed
    <3>2. current[p] # e /\ current[p] \in Events
      BY <3>1, <2>5 DEF Owns, MarkFailed, IInv, TypeOK, Idle
    <3> QED BY <3>1, <3>2, SetFailedRow
  <2> QED BY <1>2, <2>1, <2>2, <2>3, <2>4, <2>5 DEF RunOnce, Publish
<1>3. ASSUME NEW p \in Procs, Fault(p) PROVE Kept
  <2>1. CASE ClaimAnswerLost(p)
    <3>1. PICK S \in SUBSET Claimable : ClaimRows(p, S)
      BY <2>1 DEF ClaimAnswerLost
    <3> QED BY <2>1, <3>1, ClaimSparesHeldRows DEF ClaimAnswerLost
  <2>2. CASE MarkPublishedErrs(p)
    <3>1. UNCHANGED handled
      BY <2>2 DEF MarkPublishedErrs
    <3>2. CASE Owns(p, current[p]) /\ SetPublished(p, current[p])
      BY <3>1, <3>2 DEF SetPublished, IInv, TypeOK
    <3>3. CASE UNCHANGED dbVars
      BY <3>1, <3>3 DEF dbVars
    <3> QED BY <2>2, <3>2, <3>3 DEF MarkPublishedErrs
  <2>3. CASE MarkFailedErrs(p)
    <3>1. UNCHANGED handled
      BY <2>3 DEF MarkFailedErrs
    <3>2. CASE Owns(p, current[p]) /\ SetFailed(p, current[p])
      <4>1. current[p] # e /\ current[p] \in Events
        BY <3>2, <2>3 DEF Owns, MarkFailedErrs, IInv, TypeOK, Idle
      <4> QED BY <3>1, <3>2, <4>1, SetFailedRow
    <3>3. CASE UNCHANGED dbVars
      BY <3>1, <3>3 DEF dbVars
    <3> QED BY <2>3, <3>2, <3>3 DEF MarkFailedErrs
  <2>4. CASE Crash(p)
    BY <2>4 DEF Crash, dbVars
  <2> QED BY <1>3, <2>1, <2>2, <2>3, <2>4 DEF Fault
<1> QED BY <1>1, <1>2, <1>3 DEF Next

\* 'Published' is final and ends all handling of the event.
THEOREM OutboxPublishedIsFinal == Spec => PublishedIsFinal
<1>1. IInv /\ [Next]_vars =>
        [\A e \in Events : status[e] = "Published" =>
            status'[e] = "Published" /\ handled'[e] = handled[e]]_vars
  BY StepKeepsPublished
<1> QED BY <1>1, OutboxInductive, PTL DEF Spec, PublishedIsFinal

-----------------------------------------------------------------------------
(* Who works on a claimed row while nothing fails *)

\* Without faults the catch block still owns the row: its mark was not lost.
CaughtIsOwned == faults = 0 => \A p \in Procs : pc[p] = "fail" => Owns(p, current[p])

LEMMA InitClaimed == Init => ClaimedIsHeld /\ CaughtIsOwned
  BY DEF Init, ClaimedIsHeld, CaughtIsOwned, Idle

\* A step that is no fault, seen from the rows: whatever it leaves claimed is in
\* the hands it was in, or in those of the process that has just claimed it.
LEMMA WorkKeepsClaimed ==
  ASSUME IInv, ClaimedIsHeld, CaughtIsOwned, faults = 0, NEW p \in Procs, RunOnce(p)
  PROVE  /\ UNCHANGED faults
         /\ \A e \in Events : status'[e] = "Claimed" => \E q \in Procs : e \in Holding(q)'
<1>1. \A e \in Events : status[e] = "Claimed" => \E q \in Procs : e \in Holding(q)
  BY DEF ClaimedIsHeld
<1>2. CASE Claim(p)
  <2>1. PICK S \in SUBSET Claimable : ClaimRows(p, S) /\ batch' = [batch EXCEPT ![p] = S]
    BY <1>2 DEF Claim
  <2>2. batch[p] = {} /\ current[p] = Nobody /\ UNCHANGED <<current, faults>>
    BY <1>2 DEF Claim, IInv, TypeOK
  <2>3. /\ \A q \in Procs \ {p} : Holding(q)' = Holding(q)
        /\ Holding(p) = {} /\ S \subseteq Holding(p)'
    BY <2>1, <2>2 DEF Holding, IInv, TypeOK
  <2>4. \A e \in Events : status'[e] = "Claimed" => e \in S \/ status[e] = "Claimed"
    BY <2>1 DEF ClaimRows
  <2> QED BY <1>1, <2>2, <2>3, <2>4
<1>3. CASE Take(p)
  <2>1. \A q \in Procs : Holding(q)' = Holding(q)
    BY <1>3, OutboxAssumption DEF Take, Holding, IInv, TypeOK
  <2> QED BY <1>1, <1>3, <2>1 DEF Take, dbVars
<1>4. CASE Publish(p)
  BY <1>1, <1>4 DEF Publish, HandlerResolves, HandlerThrows, dbVars, Holding
<1>5. CASE MarkPublished(p) \/ MarkFailed(p)
  <2> DEFINE e == current[p]
  <2>1. /\ e \in Events /\ UNCHANGED <<batch, faults>> /\ Done(p)
        /\ SetPublished(p, e) \/ SetFailed(p, e)
    BY <1>5 DEF MarkPublished, MarkFailed, IInv, TypeOK, CurrentIsOwned, Idle
  <2>2. /\ status'[e] # "Claimed"
        /\ \A f \in Events \ {e} : status'[f] = status[f]
    BY <2>1 DEF SetPublished, SetFailed, IInv, TypeOK
  <2>3. \A q \in Procs : Holding(q) \ {e} \subseteq Holding(q)'
    BY <2>1 DEF Done, Holding, IInv, TypeOK
  <2> QED BY <1>1, <2>1, <2>2, <2>3
<1>6. CASE MarkFailedRefused(p)
  BY <1>6 DEF MarkFailedRefused, CaughtIsOwned
<1> QED BY <1>2, <1>3, <1>4, <1>5, <1>6 DEF RunOnce

LEMMA WorkKeepsCaught ==
  ASSUME IInv, CaughtIsOwned, faults = 0, NEW p \in Procs, RunOnce(p),
         NEW q \in Procs, pc'[q] = "fail"
  PROVE  Owns(q, current[q])'
<1>1. CASE Claim(p)
  <2>1. PICK S \in SUBSET Claimable : ClaimRows(p, S)
    BY <1>1 DEF Claim
  <2>2. pc[q] = "fail" /\ current'[q] = current[q] /\ Owns(q, current[q])
    BY <1>1 DEF Claim, CaughtIsOwned
  <2>3. current[q] \in Holding(q)
    BY <2>2 DEF Holding, IInv, TypeOK, Idle
  <2> QED BY <2>1, <2>2, <2>3, ClaimSparesHeldRows DEF Owns
<1>2. CASE Take(p) \/ HandlerResolves(p)
  BY <1>2 DEF Take, HandlerResolves, CaughtIsOwned, Owns, dbVars, IInv, TypeOK
<1>3. CASE HandlerThrows(p)
  BY <1>3 DEF HandlerThrows, CaughtIsOwned, Owns, dbVars, IInv, TypeOK, CurrentIsOwned
<1>4. CASE MarkPublished(p) \/ MarkFailed(p)
  <2> DEFINE e == current[p]
  <2>1. /\ e \in Events /\ pc[p] # Idle /\ Done(p)
        /\ SetPublished(p, e) \/ SetFailed(p, e)
    BY <1>4 DEF MarkPublished, MarkFailed, IInv, TypeOK, CurrentIsOwned, Idle
  <2>2. \A f \in Events \ {e} : status'[f] = status[f] /\ claimedBy'[f] = claimedBy[f]
    BY <2>1 DEF SetPublished, SetFailed, IInv, TypeOK
  <2>3. q # p /\ pc[q] = "fail" /\ current'[q] = current[q] /\ current[q] \in Events
    BY <2>1 DEF Done, IInv, TypeOK, Idle
  <2>4. current[q] # e
    BY <2>1, <2>3, OutboxAssumption, CurrentIsAlone
  <2> QED BY <2>2, <2>3, <2>4 DEF CaughtIsOwned, Owns
<1>5. CASE MarkFailedRefused(p)
  BY <1>5 DEF MarkFailedRefused, CaughtIsOwned
<1> QED BY <1>1, <1>2, <1>3, <1>4, <1>5 DEF RunOnce, Publish

LEMMA NextKeepsClaimed ==
  ASSUME IInv, ClaimedIsHeld, CaughtIsOwned, [Next]_vars
  PROVE  ClaimedIsHeld' /\ CaughtIsOwned'
<1>0. faults \in Nat
  BY OutboxAssumption DEF IInv, TypeOK
<1>1. CASE UNCHANGED vars
  BY <1>1 DEF vars, ClaimedIsHeld, CaughtIsOwned, Holding, Owns
<1>2. ASSUME NEW e \in Events, Enqueue(e) \/ RetryFallsDue(e)
      PROVE  ClaimedIsHeld' /\ CaughtIsOwned'
  <2>1. /\ UNCHANGED <<faults, claimedBy, batch, current, pc>>
        /\ \A f \in Events : status[f] = "Claimed" <=> status'[f] = "Claimed"
    BY <1>2 DEF Enqueue, RetryFallsDue, procVars, IInv, TypeOK
  <2>2. \A p \in Procs : pc[p] = "fail" => current[p] \in Events
    BY DEF IInv, TypeOK, Idle
  <2> QED BY <2>1, <2>2 DEF ClaimedIsHeld, CaughtIsOwned, Holding, Owns
<1>3. ASSUME NEW p \in Procs, RunOnce(p) PROVE ClaimedIsHeld' /\ CaughtIsOwned'
  <2>1. UNCHANGED faults
    BY <1>3 DEF RunOnce, Claim, Take, Publish, HandlerResolves, HandlerThrows, MarkPublished,
       MarkFailed, MarkFailedRefused
  <2> QED BY <1>3, <2>1, WorkKeepsClaimed, WorkKeepsCaught DEF ClaimedIsHeld, CaughtIsOwned
<1>4. ASSUME NEW p \in Procs, Fault(p) PROVE ClaimedIsHeld' /\ CaughtIsOwned'
  <2>1. faults' = faults + 1
    BY <1>4 DEF Fault, ClaimAnswerLost, MarkPublishedErrs, MarkFailedErrs, Crash
  <2> QED BY <1>0, <2>1 DEF ClaimedIsHeld, CaughtIsOwned
<1> QED BY <1>1, <1>2, <1>3, <1>4 DEF Next

\* Only crashes and database errors strand a claimed row: otherwise each is in the
\* hands of a process that goes on to mark it.
THEOREM OutboxClaimedIsHeld == Spec => []ClaimedIsHeld
<1>1. IInv /\ ClaimedIsHeld /\ CaughtIsOwned /\ [Next]_vars => ClaimedIsHeld' /\ CaughtIsOwned'
  BY NextKeepsClaimed
<1> QED BY <1>1, InitClaimed, OutboxInductive, PTL DEF Spec

-----------------------------------------------------------------------------
(* Refinement *)

Waits  == { e \in Events : status[e] \in {"Pending", "Failed"} }
Taken  == { e \in Events : status[e] = "Claimed" }
Served == { e \in Events : status[e] = "Published" }
Hands  == [p \in Procs |-> Holding(p)]

DeliveryNext == [Promise!Next]_<<Waits, Taken, Served, Hands, handled>>

LEMMA InitDelivery == Init => Promise!Init
<1> SUFFICES ASSUME Init PROVE Promise!Init
  OBVIOUS
<1>1. \A p \in Procs : Holding(p) = {}
  BY DEF Init, Holding
<1> QED BY <1>1 DEF Init, Promise!Init

\* Four things a step does to the table, seen as sets of events.
LEMMA RowsTaken ==
  ASSUME IInv, NEW p \in Procs, NEW S \in SUBSET Claimable, ClaimRows(p, S)
  PROVE  /\ S \in SUBSET Events /\ S \subseteq Waits
         /\ Waits' = Waits \ S /\ Taken' = Taken \union S /\ Served' = Served
<1>1. S \subseteq Waits /\ S \subseteq Events
  BY DEF IInv, TypeOK, Claimable, Waits
<1>2. \A e \in Events : status'[e] = IF e \in S THEN "Claimed" ELSE status[e]
  BY DEF ClaimRows
<1> QED BY <1>1, <1>2 DEF Waits, Taken, Served

LEMMA RowServed ==
  ASSUME IInv, NEW p \in Procs, NEW e \in Events, Owns(p, e), SetPublished(p, e)
  PROVE  /\ e \in Taken
         /\ Waits' = Waits /\ Taken' = Taken \ {e} /\ Served' = Served \union {e}
<1>1. \A f \in Events : status'[f] = IF f = e THEN "Published" ELSE status[f]
  BY SetPublishedRow DEF IInv, TypeOK
<1> QED BY <1>1 DEF Owns, Waits, Taken, Served

LEMMA RowReturned ==
  ASSUME IInv, NEW p \in Procs, NEW e \in Events, Owns(p, e), SetFailed(p, e)
  PROVE  /\ e \in Taken
         /\ Waits' = Waits \union {e} /\ Taken' = Taken \ {e} /\ Served' = Served
<1>1. status'[e] \in {"Pending", "Failed"} /\ \A f \in Events \ {e} : status'[f] = status[f]
  BY SetFailedRow
<1> QED BY <1>1 DEF Owns, Waits, Taken, Served

LEMMA RowsStay == ASSUME UNCHANGED status PROVE UNCHANGED <<Waits, Taken, Served>>
BY DEF Waits, Taken, Served

\* Two things a process does with what it holds.
LEMMA HandEmptied ==
  ASSUME IInv, NEW p \in Procs, AbandonBatch(p)
  PROVE  Hands' = [Hands EXCEPT ![p] = {}]
<1>1. \A q \in Procs : Holding(q)' = IF q = p THEN {} ELSE Holding(q)
  BY DEF AbandonBatch, Done, Holding, IInv, TypeOK
<1> QED BY <1>1 DEF Hands

LEMMA EventLetGo ==
  ASSUME IInv, NEW p \in Procs, current[p] # Nobody, Done(p), UNCHANGED batch
  PROVE  Hands' = [Hands EXCEPT ![p] = @ \ {current[p]}]
<1>1. \A q \in Procs : Holding(q)' = IF q = p THEN Holding(q) \ {current[p]} ELSE Holding(q)
  BY DEF Done, Holding, IInv, TypeOK, CurrentLeftBatch
<1> QED BY <1>1 DEF Hands

LEMMA HandsStay == ASSUME UNCHANGED <<batch, current>> PROVE UNCHANGED Hands
BY DEF Hands, Holding

\* The event at hand is in the process's hands, and taken while it is the owner.
LEMMA AtHand ==
  ASSUME IInv, NEW p \in Procs, pc[p] # Idle
  PROVE  /\ current[p] \in Events /\ current[p] # Nobody /\ current[p] \in Hands[p]
         /\ pc[p] \in {"handle", "mark"} => Owns(p, current[p]) /\ current[p] \in Taken
         /\ pc[p] = "mark" => handled[current[p]] = Handlers
<1>1. current[p] \in Events /\ current[p] # Nobody
  BY DEF IInv, TypeOK, Idle
<1>2. current[p] \in Hands[p]
  BY <1>1 DEF Hands, Holding
<1>3. pc[p] \in {"handle", "mark"} => Owns(p, current[p])
  BY DEF IInv, CurrentIsOwned
<1>4. pc[p] = "mark" => handled[current[p]] = Handlers
  BY DEF IInv, HandlerProgress, RememberedWasHandled
<1> QED BY <1>1, <1>2, <1>3, <1>4 DEF Taken, Owns

\* The steps of runOnce.
LEMMA ClaimDelivers ==
  ASSUME IInv, NEW p \in Procs, Claim(p) \/ ClaimAnswerLost(p) PROVE DeliveryNext
<1>1. PICK S \in SUBSET Claimable :
        /\ ClaimRows(p, S) /\ UNCHANGED <<current, handled>>
        /\ batch' = [batch EXCEPT ![p] = S] \/ UNCHANGED batch
  BY DEF Claim, ClaimAnswerLost, procVars
<1>2. /\ S \in SUBSET Events /\ S \subseteq Waits
      /\ Waits' = Waits \ S /\ Taken' = Taken \union S /\ Served' = Served
  BY <1>1, RowsTaken
<1>3. CASE UNCHANGED batch
  <2>1. UNCHANGED Hands
    BY <1>1, <1>3, HandsStay
  <2>2. Promise!Take(S)
    BY <1>1, <1>2, <2>1 DEF Promise!Take, Waits, Taken, Served, Hands
  <2> QED BY <1>2, <2>2 DEF DeliveryNext, Promise!Next
<1>4. CASE batch' = [batch EXCEPT ![p] = S]
  <2>1. batch[p] = {} /\ current[p] = Nobody
    BY DEF Claim, ClaimAnswerLost, IInv, TypeOK
  <2>2. Holding(p) = {} /\ \A q \in Procs : Holding(q)' = IF q = p THEN S ELSE Holding(q)
    BY <1>1, <1>4, <2>1 DEF Holding, IInv, TypeOK
  <2>3. Hands[p] = {} /\ Hands' = [Hands EXCEPT ![p] = S]
    BY <2>2 DEF Hands
  <2>4. Promise!Take(S)
    BY <1>1, <1>2, <2>3 DEF Promise!Take, Waits, Taken, Served, Hands
  <2> QED BY <1>2, <2>4 DEF DeliveryNext, Promise!Next
<1> QED BY <1>1, <1>3, <1>4

LEMMA WorkDelivers ==
  ASSUME IInv, NEW p \in Procs, Take(p) \/ Publish(p) PROVE DeliveryNext
<1>1. CASE Take(p)
  <2>1. \A q \in Procs : Holding(q)' = Holding(q)
    BY <1>1, OutboxAssumption DEF Take, Holding, IInv, TypeOK
  <2>2. UNCHANGED Hands
    BY <2>1 DEF Hands
  <2> QED BY <1>1, <2>2, RowsStay DEF Take, dbVars, DeliveryNext
<1>2. CASE HandlerThrows(p)
  BY <1>2, RowsStay, HandsStay DEF HandlerThrows, dbVars, DeliveryNext
<1>3. CASE HandlerResolves(p)
  <2> DEFINE e == current[p]
             x == nextHandler[p]
  <2>1. /\ e \in Events /\ x \in Handlers /\ e \in Hands[p] /\ e \in Taken
        /\ handled' = [handled EXCEPT ![e] = @ \union {x}]
        /\ UNCHANGED <<batch, current, status>>
    BY <1>3, AtHand DEF HandlerResolves, dbVars, Idle, IInv, TypeOK
  <2>2. UNCHANGED <<Waits, Taken, Served, Hands>>
    BY <2>1, RowsStay, HandsStay
  <2>3. Promise!HaveEffect(p, e, x)
    BY <2>1, <2>2 DEF Promise!HaveEffect, Waits, Taken, Served, Hands
  <2> QED BY <2>1, <2>3 DEF DeliveryNext, Promise!Next
<1> QED BY <1>1, <1>2, <1>3 DEF Publish

LEMMA MarkDelivers ==
  ASSUME IInv, NEW p \in Procs, MarkPublished(p) \/ MarkPublishedErrs(p) PROVE DeliveryNext
<1>0. PICK e : e = current[p]
  OBVIOUS
<1>1. /\ e \in Events /\ e # Nobody /\ e \in Hands[p] /\ Owns(p, e) /\ handled[e] = Handlers
      /\ UNCHANGED <<batch, handled>>
  BY <1>0, AtHand DEF MarkPublished, MarkPublishedErrs, Idle
<1>2. CASE SetPublished(p, e)
  <2>1. /\ e \in Taken /\ Waits' = Waits
        /\ Taken' = Taken \ {e} /\ Served' = Served \union {e}
    BY <1>1, <1>2, RowServed
  <2>2. Hands' = Hands \/ Hands' = [Hands EXCEPT ![p] = @ \ {e}]
    BY <1>0, <1>1, HandsStay, EventLetGo DEF MarkPublished, MarkPublishedErrs
  <2>3. Promise!Deliver(p, e)
    BY <1>1, <2>1, <2>2 DEF Promise!Deliver, Waits, Taken, Served, Hands
  <2> QED BY <1>1, <2>3 DEF DeliveryNext, Promise!Next
<1>3. CASE ~SetPublished(p, e)
  <2>1. UNCHANGED <<status, current>>
    BY <1>0, <1>1, <1>3 DEF MarkPublished, MarkPublishedErrs, dbVars
  <2> QED BY <1>1, <2>1, RowsStay, HandsStay DEF DeliveryNext
<1> QED BY <1>2, <1>3

LEMMA FailDelivers ==
  ASSUME IInv, NEW p \in Procs,
         MarkFailed(p) \/ MarkFailedRefused(p) \/ MarkFailedErrs(p) \/ Crash(p)
  PROVE  DeliveryNext
<1>0. PICK e : e = current[p]
  OBVIOUS
<1>1. UNCHANGED handled
  BY DEF MarkFailed, MarkFailedRefused, MarkFailedErrs, Crash
<1>2. CASE MarkFailed(p) \/ (MarkFailedErrs(p) /\ Owns(p, e) /\ SetFailed(p, e))
  <2>1. e \in Events /\ e # Nobody /\ e \in Hands[p] /\ Owns(p, e) /\ SetFailed(p, e)
    BY <1>0, <1>2, AtHand DEF MarkFailed, MarkFailedErrs, Idle
  <2>2. /\ e \in Taken /\ Served' = Served
        /\ Waits' = Waits \union {e} /\ Taken' = Taken \ {e}
    BY <2>1, RowReturned
  <2>3. \E rest \in {Hands[p] \ {e}, {}} : Hands' = [Hands EXCEPT ![p] = rest]
    BY <1>0, <1>2, <2>1, EventLetGo, HandEmptied DEF MarkFailed, MarkFailedErrs
  <2>4. Promise!GiveBack(p, e)
    BY <1>1, <2>1, <2>2, <2>3 DEF Promise!GiveBack, Waits, Taken, Served, Hands
  <2> QED BY <2>1, <2>4 DEF DeliveryNext, Promise!Next
<1>3. CASE \/ MarkFailedRefused(p) \/ Crash(p)
           \/ MarkFailedErrs(p) /\ UNCHANGED dbVars
  <2>1. UNCHANGED status /\ AbandonBatch(p)
    BY <1>3 DEF MarkFailedRefused, Crash, MarkFailedErrs, dbVars
  <2>2. Hands' = [Hands EXCEPT ![p] = {}] /\ UNCHANGED <<Waits, Taken, Served>>
    BY <2>1, HandEmptied, RowsStay
  <2>3. Promise!LetGo(p)
    BY <1>1, <2>2 DEF Promise!LetGo, Waits, Taken, Served, Hands
  <2> QED BY <2>3 DEF DeliveryNext, Promise!Next
<1> QED BY <1>0, <1>2, <1>3 DEF MarkFailedErrs

LEMMA StepDelivers == IInv /\ [Next]_vars => DeliveryNext
<1> SUFFICES ASSUME IInv, [Next]_vars PROVE DeliveryNext
  OBVIOUS
<1>1. CASE UNCHANGED vars
  BY <1>1, RowsStay, HandsStay DEF vars, DeliveryNext
<1>2. ASSUME NEW e \in Events, Enqueue(e) PROVE DeliveryNext
  <2>1. status[e] = "Absent" /\ status' = [status EXCEPT ![e] = "Pending"]
        /\ UNCHANGED <<batch, current, handled>>
    BY <1>2 DEF Enqueue, procVars
  <2>2. /\ e \notin Waits \union Taken \union Served
        /\ Waits' = Waits \union {e} /\ UNCHANGED <<Taken, Served>>
    BY <2>1 DEF Waits, Taken, Served, IInv, TypeOK
  <2>3. Promise!Insert(e)
    BY <2>1, <2>2, HandsStay DEF Promise!Insert, Waits, Taken, Served, Hands
  <2> QED BY <2>3 DEF DeliveryNext, Promise!Next
<1>3. ASSUME NEW e \in Events, RetryFallsDue(e) PROVE DeliveryNext
  BY <1>3, RowsStay, HandsStay DEF RetryFallsDue, procVars, DeliveryNext
<1>4. ASSUME NEW p \in Procs, RunOnce(p) \/ Fault(p) PROVE DeliveryNext
  BY <1>4, ClaimDelivers, WorkDelivers, MarkDelivers, FailDelivers DEF RunOnce, Fault
<1> QED BY <1>1, <1>2, <1>3, <1>4 DEF Next

\* The outbox implements the delivery it promises, for any names of any number of
\* workers and whatever crashes and answers that get lost: one process at a time,
\* all handlers before 'Published', and nothing after it.
THEOREM OutboxImplementsDelivery == Spec => ImplementsDelivery
<1>1. IInv /\ [Next]_vars => [Promise!Next]_<<Waits, Taken, Served, Hands, handled>>
  BY StepDelivers DEF DeliveryNext
<1>2. Spec => Promise!Init /\ [][Promise!Next]_<<Waits, Taken, Served, Hands, handled>>
  BY <1>1, InitDelivery, OutboxInductive, PTL DEF Spec
<1> QED BY <1>2, PTL DEF ImplementsDelivery, Promise!Spec, Waits, Taken, Served, Hands
=============================================================================
