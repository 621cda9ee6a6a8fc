---------------------------- MODULE Distribution ----------------------------
(***************************************************************************)
(* What publication promises for one document: in each distribution        *)
(* context one revision is current; publishing a new one takes its place   *)
(* and retires the old one in the same step; nothing retired comes back.   *)
(***************************************************************************)
CONSTANTS Revisions, Contexts, None

VARIABLES
  current,  \* the revision each context distributes, or None
  shown,    \* the revisions marked 'Published'
  retired   \* the revisions marked 'Superseded'

Init ==
  /\ current = [c \in Contexts |-> None]
  /\ shown   = {}
  /\ retired = {}

Publish(c, r) ==
  /\ r \notin shown \union retired
  /\ current' = [current EXCEPT ![c] = r]
  /\ shown'   = (shown \ {current[c]}) \union {r}
  /\ retired' = retired \union ({current[c]} \ {None})

Next == \E c \in Contexts, r \in Revisions : Publish(c, r)

Spec == Init /\ [][Next]_<<current, shown, retired>>

=============================================================================
