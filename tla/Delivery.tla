-------------------------------- MODULE Delivery --------------------------------
(***************************************************************************)
(* What the outbox promises for the events of a business transaction: one  *)
(* process at a time works on an event; it is delivered once it has had    *)
(* every effect, and only by the process that works on it; nothing touches *)
(* what is delivered.  Until then it may be given back and tried again, or *)
(* be lost with the process that had it.  Workers' names, attempts,        *)
(* retries in time and the publishers' memories do not appear here.        *)
(***************************************************************************)
CONSTANTS Events, Procs, Effects

VARIABLES
  waiting,    \* events that any process may take
  taken,      \* events that were taken and neither delivered nor given back
  delivered,  \* events with all of their effects, for good
  hands,      \* the events each process works on
  effects     \* the effects each event has had so far

Init ==
  /\ waiting = {} /\ taken = {} /\ delivered = {}
  /\ hands   = [p \in Procs |-> {}]
  /\ effects = [e \in Events |-> {}]

Insert(e) ==
  /\ e \notin waiting \union taken \union delivered
  /\ waiting' = waiting \union {e}
  /\ UNCHANGED <<taken, delivered, hands, effects>>

\* A process takes what is waiting; or nobody does, and it is taken all the same.
Take(S) ==
  /\ S \subseteq waiting
  /\ waiting' = waiting \ S
  /\ taken'   = taken \union S
  /\ \/ UNCHANGED hands
     \/ \E p \in Procs : hands[p] = {} /\ hands' = [hands EXCEPT ![p] = S]
  /\ UNCHANGED <<delivered, effects>>

HaveEffect(p, e, x) ==
  /\ e \in hands[p] \intersect taken
  /\ effects' = [effects EXCEPT ![e] = @ \union {x}]
  /\ UNCHANGED <<waiting, taken, delivered, hands>>

\* A process that has delivered an event may not know, and keep it for a while.
Deliver(p, e) ==
  /\ e \in hands[p] \intersect taken
  /\ effects[e] = Effects
  /\ taken'     = taken \ {e}
  /\ delivered' = delivered \union {e}
  /\ hands' \in {hands, [hands EXCEPT ![p] = @ \ {e}]}
  /\ UNCHANGED <<waiting, effects>>

\* A process that gives an event back may give up the others with it.
GiveBack(p, e) ==
  /\ e \in hands[p] \intersect taken
  /\ taken'   = taken \ {e}
  /\ waiting' = waiting \union {e}
  /\ \E rest \in {hands[p] \ {e}, {}} : hands' = [hands EXCEPT ![p] = rest]
  /\ UNCHANGED <<delivered, effects>>

LetGo(p) ==
  /\ hands' = [hands EXCEPT ![p] = {}]
  /\ UNCHANGED <<waiting, taken, delivered, effects>>

Next ==
  \/ \E e \in Events : Insert(e)
  \/ \E S \in SUBSET Events : Take(S)
  \/ \E p \in Procs : LetGo(p)
  \/ \E p \in Procs, e \in Events :
       Deliver(p, e) \/ GiveBack(p, e) \/ \E x \in Effects : HaveEffect(p, e, x)

Spec == Init /\ [][Next]_<<waiting, taken, delivered, hands, effects>>
=============================================================================
