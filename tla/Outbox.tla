------------------------------- MODULE Outbox -------------------------------
(***************************************************************************)
(* The transactional outbox of VinOps: the vinops.outbox_events table, its *)
(* three SECURITY DEFINER functions (claim, mark published, mark failed)   *)
(* and the worker processes that poll it (OutboxWorker.runOnce) and hand   *)
(* every claimed event to the in-process handlers                          *)
(* (DeterministicInProcessPublisher.publish).                              *)
(*                                                                         *)
(* Each SQL function is one transaction, so one step; between two of them  *)
(* a process can be overtaken by another one, lose the database's answer   *)
(* or die.  Wall-clock time is abstracted to "available_at has passed":    *)
(* the events it has passed for are in due, in the order of ahead.         *)
(***************************************************************************)
EXTENDS Naturals, FiniteSets

CONSTANTS
  Events,        \* outbox rows a business transaction may insert
  Procs,         \* worker processes
  NameOf,        \* VINOPS_WORKER_NAME of each process; names may coincide
  Nobody,        \* claimed_by IS NULL
  HandlerCount,  \* handlers given to the publisher, run in order
  ClaimLimit,    \* OutboxWorkerOptions.claimLimit after clamping
  MaxAttempts,   \* OutboxWorkerOptions.maxAttempts
  AttemptCap,    \* bound: publish_attempts is counted up to this value
  MaxFaults,     \* bound: crashes and database errors in a behaviour
  Poison         \* events whose last handler always throws

ASSUME OutboxAssumption ==
  /\ Nobody \notin { NameOf[p] : p \in Procs } \union Events
  /\ HandlerCount \in Nat \ {0}
  /\ ClaimLimit \in Nat \ {0}
  /\ MaxAttempts \in Nat \ {0}
  /\ AttemptCap \in Nat
  /\ AttemptCap >= MaxAttempts
  /\ MaxFaults \in Nat
  /\ Poison \subseteq Events

VARIABLES
  status,     \* outbox_events.status; "Absent" before the insert
  claimedBy,  \* outbox_events.claimed_by
  attempts,   \* outbox_events.publish_attempts, saturated at AttemptCap
  due,        \* events with available_at <= now()
  ahead,      \* the due events that ORDER BY available_at puts before this one
  batch,      \* claimed events runOnce has not come to yet, per process
  current,    \* the event runOnce is at, or Nobody
  pc,         \* where runOnce stands with it
  nextHandler,\* index of the handler publish is about to await
  published,  \* publishedEventIds, the publisher's memory, per process
  handled,    \* handlers that took effect on each event, in any process
  faults      \* crashes and database errors so far

dbVars   == <<status, claimedBy, attempts, due, ahead>>
procVars == <<batch, current, pc, nextHandler, published>>
vars     == <<status, claimedBy, attempts, due, ahead, batch, current, pc,
              nextHandler, published, handled, faults>>

Names    == { NameOf[p] : p \in Procs }
Handlers == 1..HandlerCount
Idle     == "idle"

Init ==
  /\ status      = [e \in Events |-> "Absent"]
  /\ claimedBy   = [e \in Events |-> Nobody]
  /\ attempts    = [e \in Events |-> 0]
  /\ due         = {}
  /\ ahead       = [e \in Events |-> {}]
  /\ batch       = [p \in Procs |-> {}]
  /\ current     = [p \in Procs |-> Nobody]
  /\ pc          = [p \in Procs |-> Idle]
  /\ nextHandler = [p \in Procs |-> 1]
  /\ published   = [p \in Procs |-> {}]
  /\ handled     = [e \in Events |-> {}]
  /\ faults      = 0

-----------------------------------------------------------------------------
(* The order of available_at *)

BecomesDue(e) ==
  /\ due'   = due \union {e}
  /\ ahead' = [ahead EXCEPT ![e] = due]

LeavesDue(e) ==
  /\ due'   = due \ {e}
  /\ ahead' = [f \in Events |-> IF f = e THEN {} ELSE ahead[f] \ {e}]

\* The insert every business mutation makes in its own transaction.
Enqueue(e) ==
  /\ status[e] = "Absent"
  /\ status' = [status EXCEPT ![e] = "Pending"]
  /\ BecomesDue(e)
  /\ UNCHANGED <<claimedBy, attempts, handled, faults, procVars>>

\* The available_at of a scheduled retry passes.
RetryFallsDue(e) ==
  /\ status[e] = "Pending"
  /\ e \notin due
  /\ BecomesDue(e)
  /\ UNCHANGED <<status, claimedBy, attempts, handled, faults, procVars>>

-----------------------------------------------------------------------------
(* claim_outbox_events *)

Claimable_WhileClaimed == { e \in due : status[e] # "Published" }
Claimable_PendingOnly  == { e \in due : status[e] = "Pending" }

Claimable == { e \in due : status[e] \in {"Pending", "Failed"} }

\* The first ClaimLimit candidates in the order of available_at.
IsPoll(S) ==
  /\ S \subseteq Claimable
  /\ S # {}
  /\ \A e \in S : ahead[e] \intersect Claimable \subseteq S
  /\ Cardinality(S) <= ClaimLimit
  /\ Cardinality(S) = ClaimLimit \/ S = Claimable

CountAttempt(n) == IF n < AttemptCap THEN n + 1 ELSE AttemptCap

ClaimRows(p, S) ==
  /\ status'    = [e \in Events |-> IF e \in S THEN "Claimed" ELSE status[e]]
  /\ claimedBy' = [e \in Events |-> IF e \in S THEN NameOf[p] ELSE claimedBy[e]]
  /\ attempts'  = [e \in Events |-> IF e \in S THEN CountAttempt(attempts[e])
                                               ELSE attempts[e]]
  /\ UNCHANGED <<due, ahead>>

Claim(p) ==
  /\ pc[p] = Idle
  /\ batch[p] = {}
  /\ \E S \in SUBSET Claimable :
       /\ IsPoll(S)
       /\ ClaimRows(p, S)
       /\ batch' = [batch EXCEPT ![p] = S]
  /\ UNCHANGED <<current, pc, nextHandler, published, handled, faults>>

\* The claim commits but its answer is lost: runOnce throws, the rows stay claimed.
ClaimAnswerLost(p) ==
  /\ pc[p] = Idle
  /\ batch[p] = {}
  /\ faults < MaxFaults
  /\ \E S \in SUBSET Claimable : IsPoll(S) /\ ClaimRows(p, S)
  /\ faults' = faults + 1
  /\ UNCHANGED <<handled, procVars>>

-----------------------------------------------------------------------------
(* runOnce: the loop over the claimed events *)

Deduplicated_Never(p, e) == FALSE

\* publish returns at once for an event this process already published.
Deduplicated(p, e) == e \in published[p]

\* UPDATE ... RETURNING gives the claimed rows in no particular order.
Take(p) ==
  /\ pc[p] = Idle
  /\ \E e \in batch[p] :
       /\ batch'   = [batch EXCEPT ![p] = @ \ {e}]
       /\ current' = [current EXCEPT ![p] = e]
       /\ pc'      = [pc EXCEPT ![p] = IF Deduplicated(p, e) THEN "mark" ELSE "handle"]
  /\ nextHandler' = [nextHandler EXCEPT ![p] = 1]
  /\ UNCHANGED <<published, handled, faults, dbVars>>

LastHandler_OffByOne(p) == nextHandler[p] >= HandlerCount - 1

LastHandler(p) == nextHandler[p] = HandlerCount

\* The next handler resolves; after the last one the event id is remembered.
HandlerResolves(p) ==
  LET e == current[p]
  IN  /\ pc[p] = "handle"
      /\ ~(LastHandler(p) /\ e \in Poison)
      /\ handled' = [handled EXCEPT ![e] = @ \union {nextHandler[p]}]
      /\ IF LastHandler(p)
           THEN /\ published' = [published EXCEPT ![p] = @ \union {e}]
                /\ pc' = [pc EXCEPT ![p] = "mark"]
                /\ UNCHANGED nextHandler
           ELSE /\ nextHandler' = [nextHandler EXCEPT ![p] = @ + 1]
                /\ UNCHANGED <<published, pc>>
      /\ UNCHANGED <<batch, current, faults, dbVars>>

\* The next handler throws: runOnce goes to its catch block.
HandlerThrows(p) ==
  /\ pc[p] = "handle"
  /\ pc' = [pc EXCEPT ![p] = "fail"]
  /\ UNCHANGED <<batch, current, nextHandler, published, handled, faults, dbVars>>

Owns_NameOnly(p, e) == claimedBy[e] = NameOf[p]

\* The WHERE clause of both mark functions.
Owns(p, e) == status[e] = "Claimed" /\ claimedBy[e] = NameOf[p]

\* UPDATE of mark_outbox_published
SetPublished(p, e) ==
  /\ status' = [status EXCEPT ![e] = "Published"]
  /\ LeavesDue(e)
  /\ UNCHANGED <<claimedBy, attempts>>

Exhausted(e) == attempts[e] >= MaxAttempts

\* UPDATE of mark_outbox_failed, with the RetrySchedule of scheduleOutboxRetry:
\* an exhausted event keeps its available_at.
SetFailed(p, e) ==
  /\ claimedBy' = [claimedBy EXCEPT ![e] = Nobody]
  /\ IF Exhausted(e)
       THEN /\ status' = [status EXCEPT ![e] = "Failed"]
            /\ UNCHANGED <<due, ahead>>
       ELSE /\ status' = [status EXCEPT ![e] = "Pending"]
            /\ LeavesDue(e)
  /\ UNCHANGED attempts

Done_KeepsEvent(p) == pc' = [pc EXCEPT ![p] = Idle] /\ UNCHANGED current

Done(p) ==
  /\ current' = [current EXCEPT ![p] = Nobody]
  /\ pc'      = [pc EXCEPT ![p] = Idle]

\* markPublished: commits, and runOnce goes on to the next event; or raises
\* OUTBOX_CLAIM_NOT_OWNED, which leads to the catch block.
MarkPublished(p) ==
  /\ pc[p] = "mark"
  /\ IF Owns(p, current[p])
       THEN SetPublished(p, current[p]) /\ Done(p)
       ELSE pc' = [pc EXCEPT ![p] = "fail"] /\ UNCHANGED <<current, dbVars>>
  /\ UNCHANGED <<batch, nextHandler, published, handled, faults>>

\* The database call of markPublished fails, before or after its commit.
MarkPublishedErrs(p) ==
  /\ pc[p] = "mark"
  /\ faults < MaxFaults
  /\ faults' = faults + 1
  /\ \/ Owns(p, current[p]) /\ SetPublished(p, current[p])
     \/ UNCHANGED dbVars
  /\ pc' = [pc EXCEPT ![p] = "fail"]
  /\ UNCHANGED <<batch, current, nextHandler, published, handled>>

\* markFailed commits and runOnce goes on to the next event.
MarkFailed(p) ==
  /\ pc[p] = "fail"
  /\ Owns(p, current[p])
  /\ SetFailed(p, current[p])
  /\ Done(p)
  /\ UNCHANGED <<batch, nextHandler, published, handled, faults>>

\* runOnce throws out of its loop: the rest of the batch is forgotten.
AbandonBatch(p) ==
  /\ batch' = [batch EXCEPT ![p] = {}]
  /\ Done(p)

\* markFailed raises OUTBOX_CLAIM_NOT_OWNED inside the catch block.
MarkFailedRefused(p) ==
  /\ pc[p] = "fail"
  /\ ~Owns(p, current[p])
  /\ AbandonBatch(p)
  /\ UNCHANGED <<nextHandler, published, handled, faults, dbVars>>

\* The database call of markFailed fails, before or after its commit.
MarkFailedErrs(p) ==
  /\ pc[p] = "fail"
  /\ faults < MaxFaults
  /\ faults' = faults + 1
  /\ \/ Owns(p, current[p]) /\ SetFailed(p, current[p])
     \/ UNCHANGED dbVars
  /\ AbandonBatch(p)
  /\ UNCHANGED <<nextHandler, published, handled>>

\* The process dies anywhere and is started again under the same name.
Crash(p) ==
  /\ faults < MaxFaults
  /\ faults' = faults + 1
  /\ AbandonBatch(p)
  /\ nextHandler' = [nextHandler EXCEPT ![p] = 1]
  /\ published'   = [published EXCEPT ![p] = {}]
  /\ UNCHANGED <<handled, dbVars>>

Publish(p) == HandlerResolves(p) \/ HandlerThrows(p)
RunOnce(p) ==
  \/ Claim(p) \/ Take(p) \/ Publish(p)
  \/ MarkPublished(p) \/ MarkFailed(p) \/ MarkFailedRefused(p)
Fault(p) ==
  \/ ClaimAnswerLost(p) \/ MarkPublishedErrs(p) \/ MarkFailedErrs(p) \/ Crash(p)

Next ==
  \/ \E e \in Events : Enqueue(e) \/ RetryFallsDue(e)
  \/ \E p \in Procs : RunOnce(p) \/ Fault(p)

Spec == Init /\ [][Next]_vars

\* The poller re-arms itself in a finally block, so every process keeps polling
\* and an event loop turn always comes; time passes; and a handler that is
\* started again and again on one event resolves sometimes, which is what it
\* means for the event not to be poisoned.
Resolves(p, h, e) == HandlerResolves(p) /\ nextHandler[p] = h /\ current[p] = e

Fairness ==
  /\ \A e \in Events : WF_vars(RetryFallsDue(e))
  /\ \A p \in Procs : WF_vars(RunOnce(p))
  /\ \A p \in Procs, h \in Handlers, e \in Events : SF_vars(Resolves(p, h, e))

FairSpec == Spec /\ Fairness

-----------------------------------------------------------------------------
(* Properties *)

\* The events process p may still act on in this runOnce.
Holding(p) == batch[p] \union ({current[p]} \ {Nobody})

\* Every variable has its type, and runOnce has an event in hand exactly while
\* it is publishing or marking one.
TypeOK ==
  /\ status      \in [Events -> {"Absent", "Pending", "Claimed", "Published", "Failed"}]
  /\ claimedBy   \in [Events -> Names \union {Nobody}]
  /\ attempts    \in [Events -> 0..AttemptCap]
  /\ due         \in SUBSET Events
  /\ ahead       \in [Events -> SUBSET Events]
  /\ batch       \in [Procs -> SUBSET Events]
  /\ current     \in [Procs -> Events \union {Nobody}]
  /\ pc          \in [Procs -> {Idle, "handle", "mark", "fail"}]
  /\ nextHandler \in [Procs -> Handlers]
  /\ published   \in [Procs -> SUBSET Events]
  /\ handled     \in [Events -> SUBSET Handlers]
  /\ faults      \in 0..MaxFaults
  /\ \A p \in Procs : pc[p] = Idle <=> current[p] = Nobody

\* No event is in the hands of two processes at once, whatever answers get lost
\* and even when two processes run under one worker name: SKIP LOCKED and the
\* status guard of claim_outbox_events give each row to one runOnce.
NoConcurrentHandling ==
  \A p, q \in Procs : p # q => Holding(p) \intersect Holding(q) = {}

\* The claim has no lease, so a row that nobody works on stays 'Claimed' for ever
\* (ClaimIsReleased); only a crash or a database error leaves one.  Handlers that
\* throw, and marks the functions refuse, never do.
ClaimedIsHeld ==
  faults = 0 => \A e \in Events : status[e] = "Claimed" => \E p \in Procs : e \in Holding(p)

\* A row is 'Published' only after every handler took effect on the event:
\* no crash, lost answer or deduplication marks an event nobody handled.
PublishedWasHandled ==
  \A e \in Events : status[e] = "Published" => handled[e] = Handlers

\* Within one process life a handler is never started on an event that process
\* has published, although a failed markPublished sends the event round again.
NoRedeliveryInProcess ==
  \A p \in Procs : pc[p] = "handle" => current[p] \notin published[p]

\* 'Published' is final, and no handler runs on the event any more: in
\* particular not when markPublished commits but its answer is lost, and the
\* catch block then calls markFailed for the same event.
PublishedIsFinal ==
  [][\A e \in Events : status[e] = "Published" =>
        status'[e] = "Published" /\ handled'[e] = handled[e]]_vars

\* The outbox delivers as it promises (Delivery), though the table knows the
\* worker's name only and a process may have lost what it holds: the rows that
\* may be claimed wait, 'Claimed' rows are taken, and what runOnce may still act
\* on is in its process's hands.
Promise == INSTANCE Delivery WITH
  Effects   <- Handlers,
  waiting   <- { e \in Events : status[e] \in {"Pending", "Failed"} },
  taken     <- { e \in Events : status[e] = "Claimed" },
  delivered <- { e \in Events : status[e] = "Published" },
  hands     <- [p \in Procs |-> Holding(p)],
  effects   <- handled
ImplementsDelivery == Promise!Spec

\* Every inserted event that is not poisoned is published in the end: handlers
\* that throw now and then, retries, exhausted schedules and poisoned events in
\* front of it (fewer than ClaimLimit) only delay it.
EveryEventPublished ==
  \A e \in Events \ Poison : status[e] = "Pending" ~> status[e] = "Published"

\* What the retry policy's test promises ("stops retrying after the bounded
\* maximum attempt count"): no event is attempted more than MaxAttempts times.
AttemptsBounded == \A e \in Events : attempts[e] <= MaxAttempts

\* What the crash test promises ("recovers from worker crash midway without
\* losing pending outbox events"): a claimed event does not stay claimed.
ClaimIsReleased == \A e \in Events : status[e] = "Claimed" ~> status[e] # "Claimed"

=============================================================================
