----------------------------- MODULE SigningProofs -----------------------------
(***************************************************************************)
(* Safety of remote signing for any number of sessions.                    *)
(***************************************************************************)
EXTENDS SigningWorkflow, TLAPS

\* A session is signed, or about to be, only in its turn and for a known step,
\* and the record has a signature for each signed session.
SigningIsFounded ==
  \A k \in Orders :
    /\ request[k] = "sign" => k \in fits /\ (k > 1 => session[k - 1] = "signed")
    /\ session[k] = "signed" => k \in Steps /\ k \in signedBy

IInv ==
  /\ TypeOK
  /\ SignedInOrder
  /\ SigningIsFounded
  /\ StatusHasSignatures
  /\ FullySignedIsCompleted

\* A tuple of statuses, and the orders of the sessions before it.
LEMMA StepFacts ==
  /\ \A i \in Steps : i = 1 \/ i = 2 \/ i = 3
  /\ Signed[1] = "Contractor Signed" /\ Signed[2] = "Supervisor Signed"
  /\ Signed[3] = "Completed"
  /\ \A i \in Steps : Signed[i] \notin {"Draft", "Rejected"}
  /\ \A i, j \in Steps : Signed[i] = Signed[j] => i = j
  BY DEF Steps, Signed

LEMMA OrderFacts ==
  /\ \A k \in Orders : k \in Nat /\ k >= 1 /\ (k > 1 => k - 1 \in Orders)
  /\ \A k, j \in Orders : k < j /\ j \in Steps =>
       \/ k = j - 1
       \/ k = 1 /\ j = 3 /\ 2 \in Orders
  BY SigningAssumption DEF Orders, Steps

\* A session before a signed one is signed itself.
LEMMA SignedBefore ==
  ASSUME IInv, NEW j \in Orders, session[j] = "signed", NEW k \in Orders, k < j
  PROVE  session[k] = "signed"
<1>1. j \in Steps /\ session[j - 1] = "signed"
  BY OrderFacts DEF IInv, SigningIsFounded, SignedInOrder
<1>2. CASE k = j - 1
  BY <1>1, <1>2
<1>3. CASE k = 1 /\ j = 3 /\ 2 \in Orders
  BY <1>1, <1>3 DEF IInv, SignedInOrder
<1> QED BY <1>1, <1>2, <1>3, OrderFacts

LEMMA InitIInv == Init => IInv
<1> SUFFICES ASSUME Init PROVE IInv
  OBVIOUS
<1>1. TypeOK
  BY DEF Init, TypeOK, Unlocked
<1>2. SignedInOrder /\ SigningIsFounded
  BY DEF Init, SignedInOrder, SigningIsFounded
<1>3. StatusHasSignatures
  BY StepFacts DEF Init, StatusHasSignatures
<1>4. FullySignedIsCompleted
  BY DEF Init, FullySignedIsCompleted, Steps
<1> QED BY <1>1, <1>2, <1>3, <1>4 DEF IInv

-----------------------------------------------------------------------------
(* Sessions that are set up, authorised, late or given up *)

LEMMA InitSessionsStep ==
  ASSUME IInv, InitSessions PROVE IInv'
<1>1. PICK S \in SUBSET { k \in Orders : session[k] = "none" } \ {{}} :
        /\ session' = [k \in Orders |-> IF k \in S THEN "pending" ELSE session[k]]
        /\ \E F \in SUBSET (S \intersect Steps) : fits' = fits \union F
        /\ UNCHANGED <<late, request, record, signedBy>>
  BY DEF InitSessions
<1>2. /\ fits \subseteq fits' /\ fits' \subseteq Orders \intersect Steps
      /\ \A k \in Orders : session[k] # "none" => session'[k] = session[k]
      /\ \A k \in Orders : session'[k] = "signed" => session[k] = "signed"
      /\ \A k \in Orders : session'[k] # "rejected" => session[k] # "rejected"
  BY <1>1 DEF IInv, TypeOK
<1>3. TypeOK'
  BY <1>1, <1>2 DEF IInv, TypeOK, Unlocked, Open
<1>4. SignedInOrder' /\ SigningIsFounded'
  BY <1>1, <1>2, OrderFacts DEF IInv, SignedInOrder, SigningIsFounded
<1>5. StatusHasSignatures'
  BY <1>1 DEF IInv, StatusHasSignatures
<1>6. FullySignedIsCompleted'
  BY <1>1, <1>2 DEF IInv, FullySignedIsCompleted
<1> QED BY <1>3, <1>4, <1>5, <1>6 DEF IInv

LEMMA QuietStep ==
  ASSUME IInv, NEW k \in Orders,
         ExpiresAtPasses(k) \/ AuthorizeSession(k) \/ StartRejection(k) \/ RequestFails(k)
  PROVE  IInv'
<1>1. /\ UNCHANGED <<fits, record, signedBy>>
      /\ \A j \in Orders :
           \/ session'[j] = session[j]
           \/ j = k /\ session[k] \notin {"signed", "rejected"} /\ session'[k] = "otp_sent"
      /\ \A j \in Orders : request'[j] = "sign" => request[j] = "sign"
  <2>1. CASE ExpiresAtPasses(k)
    BY <2>1 DEF ExpiresAtPasses
  <2>2. CASE AuthorizeSession(k)
    BY <2>2 DEF IInv, TypeOK, AuthorizeSession, Open
  <2>3. CASE StartRejection(k)
    BY <2>3 DEF IInv, TypeOK, StartRejection
  <2>4. CASE RequestFails(k)
    BY <2>4 DEF IInv, TypeOK, RequestFails
  <2> QED BY <2>1, <2>2, <2>3, <2>4
<1>2. TypeOK'
  BY DEF IInv, TypeOK, Unlocked, Open, ExpiresAtPasses, AuthorizeSession, StartRejection,
         RequestFails
<1>3. SignedInOrder' /\ SigningIsFounded'
  BY <1>1, OrderFacts DEF IInv, SignedInOrder, SigningIsFounded
<1>4. StatusHasSignatures' /\ FullySignedIsCompleted'
  BY <1>1 DEF IInv, StatusHasSignatures, FullySignedIsCompleted
<1> QED BY <1>2, <1>3, <1>4 DEF IInv

-----------------------------------------------------------------------------
(* Signatures *)

LEMMA StartSigningStep ==
  ASSUME IInv, NEW k \in Orders, StartSigning(k) PROVE IInv'
<1>1. TypeOK'
  BY DEF IInv, TypeOK, Unlocked, Open, StartSigning, CanSign
<1>2. SigningIsFounded'
  BY DEF IInv, TypeOK, SigningIsFounded, StartSigning, CanSign
<1>3. SignedInOrder' /\ StatusHasSignatures' /\ FullySignedIsCompleted'
  BY DEF IInv, SignedInOrder, StatusHasSignatures, FullySignedIsCompleted, StartSigning
<1> QED BY <1>1, <1>2, <1>3 DEF IInv

LEMMA CompleteSigningStep ==
  ASSUME IInv, NEW k \in Orders, CompleteSigning(k) PROVE IInv'
<1>1. /\ k \in Steps
      /\ session[k] # "signed"
      /\ k > 1 => k - 1 \in Orders /\ session[k - 1] = "signed"
      /\ \A j \in Orders : session'[j] = IF j = k THEN "signed" ELSE session[j]
  BY OrderFacts DEF IInv, TypeOK, SigningIsFounded, CompleteSigning, Unlocked, Open
<1>2. TypeOK'
  BY <1>1, StepFacts DEF IInv, TypeOK, CompleteSigning, Unlocked, Open
<1>3. SignedInOrder'
  BY <1>1, OrderFacts DEF IInv, SignedInOrder
<1>4. SigningIsFounded'
  BY <1>1, OrderFacts DEF IInv, TypeOK, SigningIsFounded, CompleteSigning
<1>5. \A j \in Orders : j <= k => j \in signedBy'
  <2> SUFFICES ASSUME NEW j \in Orders, j <= k PROVE j \in signedBy'
    OBVIOUS
  <2>1. CASE j = k
    BY <2>1 DEF CompleteSigning
  <2>2. CASE j < k
    <3>1. k > 1 /\ session[k - 1] = "signed"
      BY <1>1, <2>2, OrderFacts
    <3>2. session[j] = "signed"
      BY <1>1, <2>2, <3>1, SignedBefore, OrderFacts
    <3> QED BY <3>2 DEF IInv, SigningIsFounded, CompleteSigning
  <2> QED BY <2>1, <2>2, OrderFacts
<1>6. StatusHasSignatures'
  <2> SUFFICES ASSUME NEW i \in Steps, record' = Signed[i] PROVE 1..i \subseteq signedBy'
    BY DEF StatusHasSignatures
  <2>1. i = k
    BY <1>1, StepFacts DEF CompleteSigning
  <2>2. 1..k \subseteq Orders
    BY SigningAssumption DEF Orders
  <2> QED BY <1>5, <2>1, <2>2, OrderFacts
<1>7. FullySignedIsCompleted'
  <2> SUFFICES ASSUME \A i \in Steps : i \in Orders /\ session'[i] = "signed"
               PROVE  record' = "Completed"
    BY DEF FullySignedIsCompleted
  <2>1. k = 3
    <3> SUFFICES ASSUME k # 3 PROVE FALSE
      OBVIOUS
    <3>1. 3 \in Orders /\ session[3] = "signed" /\ k < 3
      BY <1>1 DEF Steps
    <3> QED BY <1>1, <3>1, SignedBefore
  <2> QED BY <2>1, StepFacts DEF CompleteSigning
<1> QED BY <1>2, <1>3, <1>4, <1>6, <1>7 DEF IInv

-----------------------------------------------------------------------------
(* Rejections *)

\* A rejection meets no signed session: those come before it.
LEMMA RejectionKeepsSigned ==
  ASSUME IInv, NEW k \in Orders, CompleteRejection(k), NEW j \in Orders
  PROVE  /\ session[j] = "signed" => session'[j] = "signed"
         /\ session'[j] = "signed" => session[j] = "signed" /\ j < k
<1>1. session[k] # "signed"
  BY DEF IInv, TypeOK, CompleteRejection, Unlocked, Open
<1>2. j > k => session[j] # "signed"
  BY <1>1, SignedBefore, OrderFacts
<1>3. session'[j] = IF j = k THEN "rejected" ELSE IF j \in Downstream(k) THEN "skipped"
                    ELSE session[j]
  BY DEF CompleteRejection
<1>4. session[j] = "signed" => j < k
  BY <1>1, <1>2, OrderFacts
<1> QED BY <1>3, <1>4, OrderFacts DEF Downstream

LEMMA CompleteRejectionStep ==
  ASSUME IInv, NEW k \in Orders, CompleteRejection(k) PROVE IInv'
<1>1. \A j \in Orders : session'[j] = IF j = k THEN "rejected"
                                      ELSE IF j \in Downstream(k) THEN "skipped"
                                      ELSE session[j]
  BY DEF CompleteRejection
<1>2. TypeOK'
  <2>1. \A j \in Orders : request'[j] # "none" => Open(j)'
    BY <1>1 DEF IInv, TypeOK, CompleteRejection, Unlocked, Open
  <2> QED BY <2>1 DEF IInv, TypeOK, CompleteRejection, Unlocked
<1>3. SignedInOrder'
  BY RejectionKeepsSigned, OrderFacts DEF IInv, SignedInOrder
<1>4. SigningIsFounded'
  <2> SUFFICES ASSUME NEW j \in Orders
               PROVE  /\ request'[j] = "sign" =>
                           j \in fits' /\ (j > 1 => session'[j - 1] = "signed")
                      /\ session'[j] = "signed" => j \in Steps /\ j \in signedBy'
    BY DEF SigningIsFounded
  <2>1. request'[j] = "sign" => request[j] = "sign"
    BY DEF IInv, TypeOK, CompleteRejection
  <2> QED BY <2>1, RejectionKeepsSigned, OrderFacts DEF IInv, SigningIsFounded, CompleteRejection
<1>5. StatusHasSignatures'
  BY StepFacts DEF StatusHasSignatures, CompleteRejection
<1>6. FullySignedIsCompleted'
  BY <1>1 DEF FullySignedIsCompleted
<1> QED BY <1>2, <1>3, <1>4, <1>5, <1>6 DEF IInv

-----------------------------------------------------------------------------
(* Direct signatures *)

\* What assertAcceptanceSignSequence lets through.
LEMMA SequenceFacts ==
  ASSUME NEW i \in Steps, InSequence(i)
  PROVE  IF i = 1 THEN record = "Draft" ELSE i - 1 \in Steps /\ record = Signed[i - 1]
<1>1. i # 1 => i - 1 \in Steps
  BY DEF Steps
<1>2. CASE i = 1
  BY <1>2 DEF InSequence
<1>3. CASE i # 1
  BY <1>1, <1>3 DEF InSequence
<1> QED BY <1>2, <1>3

LEMMA SignAcceptanceStep ==
  ASSUME IInv, NEW i \in Steps, SignAcceptance(i) PROVE IInv'
<1>1. TypeOK'
  BY StepFacts DEF IInv, TypeOK, SignAcceptance, Unlocked, Open
<1>2. SignedInOrder' /\ SigningIsFounded'
  BY DEF IInv, SignedInOrder, SigningIsFounded, SignAcceptance
<1>3. 1..i \subseteq signedBy'
  <2>1. CASE i = 1
    BY <2>1 DEF SignAcceptance
  <2>2. CASE i # 1
    <3>1. i - 1 \in Steps /\ record = Signed[i - 1]
      BY <2>2, SequenceFacts DEF SignAcceptance
    <3>2. 1..(i - 1) \subseteq signedBy
      BY <3>1 DEF IInv, StatusHasSignatures
    <3> QED BY <3>2 DEF SignAcceptance, Steps
  <2> QED BY <2>1, <2>2
<1>4. StatusHasSignatures'
  <2> SUFFICES ASSUME NEW j \in Steps, record' = Signed[j] PROVE 1..j \subseteq signedBy'
    BY DEF StatusHasSignatures
  <2> QED BY <1>3, StepFacts DEF SignAcceptance
<1>5. FullySignedIsCompleted'
  <2>1. record # "Completed"
    <3>1. CASE i = 1
      BY <3>1, SequenceFacts DEF SignAcceptance
    <3>2. CASE i # 1
      <4>1. i - 1 \in Steps /\ record = Signed[i - 1]
        BY <3>2, SequenceFacts DEF SignAcceptance
      <4>2. i - 1 # 3
        BY DEF Steps
      <4> QED BY <4>1, <4>2, StepFacts
    <3> QED BY <3>1, <3>2
  <2> QED BY <2>1 DEF IInv, FullySignedIsCompleted, SignAcceptance
<1> QED BY <1>1, <1>2, <1>4, <1>5 DEF IInv

LEMMA NextKeepsIInv == IInv /\ [Next]_vars => IInv'
<1> SUFFICES ASSUME IInv, [Next]_vars PROVE IInv'
  OBVIOUS
<1>1. CASE InitSessions
  BY <1>1, InitSessionsStep
<1>2. ASSUME NEW k \in Orders,
             ExpiresAtPasses(k) \/ AuthorizeSession(k) \/ StartRejection(k) \/ RequestFails(k)
      PROVE  IInv'
  BY <1>2, QuietStep
<1>3. ASSUME NEW k \in Orders, StartSigning(k) PROVE IInv'
  BY <1>3, StartSigningStep
<1>4. ASSUME NEW k \in Orders, CompleteSigning(k) PROVE IInv'
  BY <1>4, CompleteSigningStep
<1>5. ASSUME NEW k \in Orders, CompleteRejection(k) PROVE IInv'
  BY <1>5, CompleteRejectionStep
<1>6. ASSUME NEW i \in Steps, SignAcceptance(i) PROVE IInv'
  BY <1>6, SignAcceptanceStep
<1>7. CASE UNCHANGED vars
  BY <1>7 DEF vars, IInv, TypeOK, SignedInOrder, SigningIsFounded, StatusHasSignatures,
              FullySignedIsCompleted, Unlocked, Open
<1> QED BY <1>1, <1>2, <1>3, <1>4, <1>5, <1>6, <1>7 DEF Next

\* The inductive invariant holds throughout.
THEOREM SigningInductive == Spec => []IInv
  BY InitIInv, NextKeepsIInv, PTL DEF Spec

\* Types, and: the session a request holds (signSession, rejectSession) is open.
THEOREM SigningTypeOK == Spec => []TypeOK
<1>1. IInv => TypeOK
  BY DEF IInv
<1> QED BY <1>1, SigningInductive, PTL

\* The remote signatures of a record follow its signing order (assertCanSign).
THEOREM SigningInOrder == Spec => []SignedInOrder
<1>1. IInv => SignedInOrder
  BY DEF IInv
<1> QED BY <1>1, SigningInductive, PTL

\* A record's status never claims a signature that nobody gave, in whichever
\* service (signSession, signAcceptance).
THEOREM SigningStatusHasSignatures == Spec => []StatusHasSignatures
<1>1. IInv => StatusHasSignatures
  BY DEF IInv
<1> QED BY <1>1, SigningInductive, PTL

\* A record that all parties signed remotely is completed.
THEOREM SigningFullySignedIsCompleted == Spec => []FullySignedIsCompleted
<1>1. IInv => FullySignedIsCompleted
  BY DEF IInv
<1> QED BY <1>1, SigningInductive, PTL

\* A signed session stays signed in every step.
LEMMA SignedStays ==
  IInv /\ [Next]_vars =>
    [\A k \in Orders : session[k] = "signed" => session'[k] = "signed"]_vars
<1> SUFFICES ASSUME IInv, Next, NEW k \in Orders, session[k] = "signed"
             PROVE  session'[k] = "signed"
  OBVIOUS
<1>1. CASE InitSessions
  BY <1>1 DEF InitSessions
<1>2. ASSUME NEW j \in Orders,
             \/ ExpiresAtPasses(j) \/ AuthorizeSession(j) \/ StartSigning(j)
             \/ CompleteSigning(j) \/ StartRejection(j) \/ RequestFails(j)
      PROVE  session'[k] = "signed"
  BY <1>2 DEF IInv, TypeOK, ExpiresAtPasses, AuthorizeSession, StartSigning, CompleteSigning,
              StartRejection, RequestFails, Open
<1>3. ASSUME NEW j \in Orders, CompleteRejection(j) PROVE session'[k] = "signed"
  BY <1>3, RejectionKeepsSigned
<1>4. ASSUME NEW i \in Steps, SignAcceptance(i) PROVE session'[k] = "signed"
  BY <1>4 DEF SignAcceptance
<1> QED BY <1>1, <1>2, <1>3, <1>4 DEF Next

\* The sweep of a rejection over the later sessions (rejectSession) withdraws no
\* signature.
THEOREM SigningSignatureIsKept == Spec => SignatureIsKept
BY SigningInductive, SignedStays, PTL DEF Spec, SignatureIsKept

\* After a rejection in turn no request holds an earlier session, and none that
\* signs a later one.
LEMMA NobodyIsInTurn ==
  ASSUME IInv, NEW k \in Orders, session[k] = "rejected",
         \A j \in 1..(k - 1) : session[j] = "signed", NEW j \in Orders
  PROVE  /\ j <= k => request[j] = "none"
         /\ request[j] # "sign"
<1>1. j <= k => session[j] \in {"signed", "rejected"}
  BY OrderFacts
<1>2. j <= k => request[j] = "none"
  BY <1>1 DEF IInv, TypeOK, Open
<1>3. ASSUME j > k, request[j] = "sign" PROVE FALSE
  <2>1. j - 1 \in Orders /\ j - 1 >= k /\ session[j - 1] = "signed"
    BY <1>3, OrderFacts DEF IInv, SigningIsFounded
  <2>2. j - 1 = k \/ session[k] = "signed"
    BY <2>1, SignedBefore, OrderFacts
  <2> QED BY <2>1, <2>2
<1> QED BY <1>2, <1>3, OrderFacts

\* A rejection in turn is the end of the process (rejectSession), with any number of
\* sessions and whatever is under way: only out of turn can it be overtaken.
THEOREM SigningRejectionInTurnStops == Spec => RejectionInTurnStops
<1>1. ASSUME IInv, Next, RejectedInTurn PROVE RejectedInTurn' /\ signedBy' = signedBy
  <2>1. PICK k \in Orders : /\ session[k] = "rejected"
                            /\ \A j \in 1..(k - 1) : session[j] = "signed"
    BY <1>1 DEF RejectedInTurn
  <2>2. \A j \in 1..(k - 1) : j \in Orders /\ j < k
    BY SigningAssumption DEF Orders
  <2>3. \A j \in Orders : (j <= k => request[j] = "none") /\ request[j] # "sign"
    BY <1>1, <2>1, NobodyIsInTurn
  <2> SUFFICES /\ record' = "Rejected" /\ signedBy' = signedBy
               /\ \A j \in Orders : j <= k => session'[j] = session[j]
    BY <2>1, <2>2, OrderFacts DEF RejectedInTurn
  <2>4. CASE InitSessions
    BY <1>1, <2>1, <2>2, <2>4, OrderFacts DEF InitSessions, RejectedInTurn
  <2>5. ASSUME NEW j \in Orders,
               ExpiresAtPasses(j) \/ StartSigning(j) \/ StartRejection(j) \/ RequestFails(j)
        PROVE  UNCHANGED <<session, record, signedBy>>
    BY <2>5 DEF ExpiresAtPasses, StartSigning, StartRejection, RequestFails
  <2>6. ASSUME NEW j \in Orders, AuthorizeSession(j)
        PROVE  /\ UNCHANGED <<record, signedBy>>
               /\ \A i \in Orders : i <= k => session'[i] = session[i]
    <3>1. j > k
      BY <1>1, <2>1, <2>2, <2>6, OrderFacts DEF AuthorizeSession, Open
    <3> QED BY <2>6, <3>1, OrderFacts DEF AuthorizeSession
  <2>7. ASSUME NEW j \in Orders, CompleteSigning(j) PROVE FALSE
    BY <2>3, <2>7 DEF CompleteSigning
  <2>8. ASSUME NEW j \in Orders, CompleteRejection(j)
        PROVE  /\ record' = "Rejected" /\ signedBy' = signedBy
               /\ \A i \in Orders : i <= k => session'[i] = session[i]
    <3>1. j > k
      BY <2>3, <2>8, OrderFacts DEF CompleteRejection
    <3> QED BY <2>8, <3>1, OrderFacts DEF CompleteRejection, Downstream
  <2>9. ASSUME NEW i \in Steps, SignAcceptance(i) PROVE FALSE
    BY <1>1, <2>9, SequenceFacts, StepFacts DEF SignAcceptance, RejectedInTurn
  <2> QED BY <1>1, <2>4, <2>5, <2>6, <2>7, <2>8, <2>9 DEF Next, RejectedInTurn
<1>2. IInv /\ [Next]_vars =>
        [RejectedInTurn => RejectedInTurn' /\ signedBy' = signedBy]_vars
  BY <1>1
<1> QED BY <1>2, SigningInductive, PTL DEF Spec, RejectionInTurnStops

=============================================================================
