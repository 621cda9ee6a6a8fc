---------------------------- MODULE SigningWorkflow ----------------------------
(***************************************************************************)
(* The remote signing of one acceptance record: SigningService with its    *)
(* ordered signature sessions, and QualityService.signAcceptance*, which   *)
(* signs the same record without sessions.                                 *)
(*                                                                         *)
(* signSession and rejectSession start by locking the session's row        *)
(* (SELECT ... FOR UPDATE) and keep it to the end of their transaction;    *)
(* signSession awaits the signing provider and the time stamp in between.  *)
(* So each is a step that locks and reads and a step that writes and       *)
(* commits.  All other operations are one step.                            *)
(***************************************************************************)
EXTENDS Naturals, FiniteSets

CONSTANTS MaxOrder,  \* the largest signing_order that is asked for
          MaxLate    \* bound: sessions that expire

ASSUME SigningAssumption == MaxOrder \in Nat

VARIABLES
  session,   \* signature_sessions.status by signing_order; "none" before the insert
  fits,      \* sessions whose required_signer_role is ORDER_TO_ROLE of their order
  late,      \* sessions whose expires_at has passed
  request,   \* the request that holds the row lock of a session
  record,    \* acceptance_records.status
  signedBy   \* the steps whose *_signed_by column of the record is filled

vars == <<session, fits, late, request, record, signedBy>>

Orders == 1..MaxOrder

\* The steps of a record: contractor, supervisor, PMU, and the status after each.
Steps == 1..3
Signed == <<"Contractor Signed", "Supervisor Signed", "Completed">>

Init ==
  /\ session  = [k \in Orders |-> "none"]
  /\ fits     = {}
  /\ late     = {}
  /\ request  = [k \in Orders |-> "none"]
  /\ record   = "Draft"
  /\ signedBy = {}

\* No other transaction holds the row of session k.
Unlocked_Ignored(k) == TRUE

Unlocked(k) == request[k] = "none"

\* What nextState lets authorize and reject leave, and assertCanSign sign.
Open(k) == session[k] \in {"pending", "otp_sent"}

-----------------------------------------------------------------------------
(* SigningService *)

\* initSigningSessions: any orders and roles; an order that exists is refused.
\* Only the roles of the three steps are known.
InitSessions ==
  \E S \in SUBSET { k \in Orders : session[k] = "none" } \ {{}} :
    /\ session' = [k \in Orders |-> IF k \in S THEN "pending" ELSE session[k]]
    /\ \E F \in SUBSET (S \intersect Steps) : fits' = fits \union F
    /\ UNCHANGED <<late, request, record, signedBy>>

ExpiresAtPasses(k) ==
  /\ session[k] # "none"
  /\ Cardinality(late) < MaxLate
  /\ k \notin late
  /\ late' = late \union {k}
  /\ UNCHANGED <<session, fits, request, record, signedBy>>

\* authorizeSession, again if need be; neither the turn nor the expiry matters.
AuthorizeSession(k) ==
  /\ Unlocked(k)
  /\ Open(k)
  /\ session' = [session EXCEPT ![k] = "otp_sent"]
  /\ UNCHANGED <<fits, late, request, record, signedBy>>

CanSign_AnyTurn(k) == k \notin late /\ Open(k) /\ k \in fits

CanSign_AnyStatus(k) ==
  /\ k \notin late
  /\ session[k] # "none"
  /\ k \in fits
  /\ k > 1 => session[k - 1] = "signed"

\* assertCanSign; the previous session is read without a lock.
CanSign(k) ==
  /\ k \notin late
  /\ Open(k)
  /\ k \in fits
  /\ k > 1 => session[k - 1] = "signed"

\* signSession locks the session, checks it, and turns to the provider.
StartSigning(k) ==
  /\ Unlocked(k)
  /\ CanSign(k)
  /\ request' = [request EXCEPT ![k] = "sign"]
  /\ UNCHANGED <<session, fits, late, record, signedBy>>

\* The provider has signed: the record takes the status of the step whatever
\* status it has.
CompleteSigning(k) ==
  /\ request[k] = "sign"
  /\ session'  = [session EXCEPT ![k] = "signed"]
  /\ record'   = Signed[k]
  /\ signedBy' = signedBy \union {k}
  /\ request'  = [request EXCEPT ![k] = "none"]
  /\ UNCHANGED <<fits, late>>

\* rejectSession, whoever's turn it is.
StartRejection(k) ==
  /\ Unlocked(k)
  /\ Open(k)
  /\ request' = [request EXCEPT ![k] = "reject"]
  /\ UNCHANGED <<session, fits, late, record, signedBy>>

Downstream_Others(k) == { j \in Orders : j # k /\ session[j] # "none" }

\* The sessions that a rejection skips, whatever their status.
Downstream(k) == { j \in Orders : j > k /\ session[j] # "none" }

\* The update of the later sessions waits for their locks.
CompleteRejection(k) ==
  /\ request[k] = "reject"
  /\ \A j \in Downstream(k) : Unlocked(j)
  /\ session' = [j \in Orders |-> IF j = k THEN "rejected"
                                  ELSE IF j \in Downstream(k) THEN "skipped"
                                  ELSE session[j]]
  /\ record'  = "Rejected"
  /\ request' = [request EXCEPT ![k] = "none"]
  /\ UNCHANGED <<fits, late, signedBy>>

\* The provider, the time stamp server or the database fails, or two rejections
\* that wait for each other's rows are a deadlock: the transaction is undone.
RequestFails(k) ==
  /\ request[k] # "none"
  /\ request' = [request EXCEPT ![k] = "none"]
  /\ UNCHANGED <<session, fits, late, record, signedBy>>

-----------------------------------------------------------------------------
(* QualityService *)

InSequence_NotFinal(i) == record \notin {"Completed", "Rejected"}

\* assertAcceptanceSignSequence
InSequence(i) == record = IF i = 1 THEN "Draft" ELSE Signed[i - 1]

\* signAcceptanceContractor, -Supervisor and -Pmu.
SignAcceptance(i) ==
  /\ InSequence(i)
  /\ record'   = Signed[i]
  /\ signedBy' = signedBy \union {i}
  /\ UNCHANGED <<session, fits, late, request>>

-----------------------------------------------------------------------------

Next ==
  \/ InitSessions
  \/ \E k \in Orders :
       \/ ExpiresAtPasses(k) \/ AuthorizeSession(k)
       \/ StartSigning(k) \/ CompleteSigning(k)
       \/ StartRejection(k) \/ CompleteRejection(k)
       \/ RequestFails(k)
  \/ \E i \in Steps : SignAcceptance(i)

Spec == Init /\ [][Next]_vars

-----------------------------------------------------------------------------
(* Properties *)

\* Every variable has its type, and the session that a request holds is still
\* as open as the request found it.
TypeOK ==
  /\ session  \in [Orders -> {"none", "pending", "otp_sent", "signed", "rejected", "skipped"}]
  /\ fits     \in SUBSET (Orders \intersect Steps)
  /\ late     \in SUBSET Orders
  /\ request  \in [Orders -> {"none", "sign", "reject"}]
  /\ record   \in {"Draft", "Contractor Signed", "Supervisor Signed", "Completed", "Rejected"}
  /\ signedBy \in SUBSET Steps
  /\ \A k \in Orders : request[k] # "none" => Open(k)

\* The signatures of a record are a prefix of its signing order, although the
\* previous session is read without a lock long before the signature commits,
\* sessions may be added at any time, and rejections sweep over later ones.
SignedInOrder ==
  \A k \in Orders : session[k] = "signed" => k = 1 \/ session[k - 1] = "signed"

\* A status of the record comes with the signatures it stands for, whichever of
\* the two services signed which step.
StatusHasSignatures ==
  \A i \in Steps : record = Signed[i] => 1..i \subseteq signedBy

\* Once all three parties have signed remotely the record is completed and
\* stays it, unless a further session was set up and rejected.
FullySignedIsCompleted ==
  /\ \A i \in Steps : i \in Orders /\ session[i] = "signed"
  /\ \A k \in Orders : session[k] # "rejected"
  => record = "Completed"

\* A signature that was given is never withdrawn by somebody's rejection.
SignatureIsKept ==
  [][\A k \in Orders : session[k] = "signed" => session'[k] = "signed"]_vars

\* "Neu bat ky ben nao tu choi (Reject), luong ky dung lap tuc": once a party
\* has rejected, the process has stopped, and the record stays rejected.
RejectedIsFinal ==
  [][record = "Rejected" => record' = "Rejected"]_vars

\* A party has rejected in its turn: all the parties before it had signed.
RejectedInTurn ==
  /\ record = "Rejected"
  /\ \E k \in Orders : /\ session[k] = "rejected"
                      /\ \A j \in 1..(k - 1) : session[j] = "signed"

\* What is left of that promise: a rejection in turn does stop the process.  No
\* request that was already on its way, no session that is added later and no
\* direct signature moves the record or signs it any more.
RejectionInTurnStops ==
  [][RejectedInTurn => RejectedInTurn' /\ signedBy' = signedBy]_vars

=============================================================================
