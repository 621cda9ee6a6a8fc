-------------------------------- MODULE Findings --------------------------------
(***************************************************************************)
(* One High finding of an inspection: submitCorrection and                 *)
(* transitionFinding of QualityService.  transitionFinding reads the       *)
(* latest correction without a lock and writes the status later, so it is  *)
(* two steps; submitCorrection inserts and updates, and is one.            *)
(***************************************************************************)
EXTENDS Naturals

CONSTANTS Officers,  \* users with the rights of both commands
          Nobody

VARIABLES finding,   \* status, and who wrote it
          performer, \* performer_id of the corrective action, or Nobody
          verdict    \* the transition each officer has checked

findingVars == <<finding, performer, verdict>>

NoVerdict == "none"

FindingsInit ==
    /\ finding = [status |-> "Open", by |-> Nobody]
    /\ performer = Nobody
    /\ verdict = [u \in Officers |-> NoVerdict]

\* attempt_no is always 1: UNIQUE (finding_id, attempt_no) refuses a second one.
SubmitCorrection(u) ==
    /\ performer = Nobody
    /\ performer' = u
    /\ finding' = [status |-> "Pending Verification", by |-> u]
    /\ UNCHANGED verdict

NextStatus == [verify |-> "Resolved", close |-> "Closed", waive |-> "Waived", reject |-> "Open"]

\* assertCarIndependence, if there is a correction at all.
StartTransition(u, action) ==
    /\ verdict[u] = NoVerdict
    /\ action \in {"verify", "close"} => performer # u
    /\ verdict' = [verdict EXCEPT ![u] = action]
    /\ UNCHANGED <<finding, performer>>

CommitTransition(u) ==
    /\ verdict[u] # NoVerdict
    /\ finding' = [status |-> NextStatus[verdict[u]], by |-> u]
    /\ verdict' = [verdict EXCEPT ![u] = NoVerdict]
    /\ UNCHANGED performer

FindingsNext ==
    \E u \in Officers :
        \/ SubmitCorrection(u)
        \/ \E action \in DOMAIN NextStatus : StartTransition(u, action)
        \/ CommitTransition(u)

FindingsSpec == FindingsInit /\ [][FindingsNext]_findingVars

-----------------------------------------------------------------------------
\* "Performer cannot self-verify/close High or Critical findings"
\* (assertCarIndependence): nobody has closed a finding he corrected himself.
PerformerIsNotVerifier ==
    finding.status \in {"Resolved", "Closed"} => finding.by # performer
=============================================================================
