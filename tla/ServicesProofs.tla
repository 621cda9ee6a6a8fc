----------------------------- MODULE ServicesProofs -----------------------------
(***************************************************************************)
(* The services side by side, as MCServices runs them: every invariant and *)
(* action property of the run, for every value of the constants.  A        *)
(* behaviour moves one area, so an area that moves keeps its invariant by  *)
(* its own step lemma and the others stutter.                              *)
(***************************************************************************)
EXTENDS MCServices, SigningProofs, SessionProofs, CommandProofs, FieldProofs

\* The invariants of the areas, together.  Sessions are also moved without a
\* browser in front of them: what is said of a tab holds while they are not.
ServicesInv ==
  /\ area \in {"signing", "sessions", "web", "commands", "rfx", "daily", "offline", "dossier"}
  /\ IInv
  /\ SessionInv /\ CredentialsBounded /\ WebTypeOK
  /\ IF area = "sessions" THEN mem = NoSession ELSE WebInv
  /\ RowsInv
  /\ RfxInv /\ DailyInv /\ OfflineInv /\ DossierInv

LEMMA ServicesStart == ServicesInit => ServicesInv
BY InitIInv, WebInitInv, BoundedStart, RowsStart, RfxStart, DailyStart, OfflineStart, DossierStart
   DEF ServicesInit, ServicesInv, WebInv, WebInit

\* Each area moves by its own next-state relation, or not at all; the sessions
\* move by theirs with and without a tab in front of them.
LEMMA AreasMove ==
  ASSUME ServicesInv, [ServicesNext]_servicesVars
  PROVE  /\ [Next]_vars
         /\ [SessionsNext]_sessionsVars
         /\ IF area = "sessions" THEN UNCHANGED clientVars ELSE [WebNext]_webVars
         /\ [CommandsNext]_commandVars
         /\ [RfxNext]_rfxVars /\ [DailyNext]_dailyVars
         /\ [OfflineNext]_offlineVars /\ [DossiersNext]_dossierVars
         /\ area' = area
<1>1. /\ [Next]_vars
      /\ area = "sessions" => [SessionsNext]_sessionsVars /\ UNCHANGED clientVars
      /\ area # "sessions" => [WebNext]_webVars
      /\ [CommandsNext]_commandVars
      /\ [RfxNext]_rfxVars /\ [DailyNext]_dailyVars
      /\ [OfflineNext]_offlineVars /\ [DossiersNext]_dossierVars
      /\ area' = area
  <2>1. CASE UNCHANGED servicesVars
    BY <2>1 DEF servicesVars, webVars
  <2>2. CASE ServicesNext
    BY <2>2 DEF ServicesNext, webVars
  <2> QED BY <2>1, <2>2
<1>2. area # "sessions" => [SessionsNext]_sessionsVars
  BY <1>1, TabIsAClient DEF ServicesInv
<1> QED BY <1>1, <1>2

LEMMA ServicesStep == ServicesInv /\ [ServicesNext]_servicesVars => ServicesInv'
<1> SUFFICES ASSUME ServicesInv, [ServicesNext]_servicesVars PROVE ServicesInv'
  OBVIOUS
<1>1. IInv' /\ RowsInv' /\ RfxInv' /\ DailyInv' /\ OfflineInv' /\ DossierInv' /\ area' = area
  BY AreasMove, NextKeepsIInv, RowsStep, RfxStep, DailyStep, OfflineStep, DossierStep
     DEF ServicesInv
<1>2. SessionInv' /\ CredentialsBounded'
  BY AreasMove, SessionStep, BoundedStep DEF ServicesInv
<1>3. CASE area = "sessions"
  <2>1. UNCHANGED clientVars
    BY <1>3, AreasMove
  <2>2. WebTypeOK' /\ mem' = NoSession
    BY <1>3, <2>1 DEF ServicesInv, WebTypeOK, clientVars
  <2> QED BY <1>1, <1>2, <1>3, <2>2 DEF ServicesInv
<1>4. CASE area # "sessions"
  <2>1. WebInv'
    BY <1>4, AreasMove, WebStep DEF ServicesInv
  <2> QED BY <1>1, <1>2, <1>4, <2>1 DEF ServicesInv, WebInv
<1> QED BY <1>3, <1>4

\* The areas' invariants hold together throughout.
THEOREM ServicesInductive == ServicesSpec => []ServicesInv
BY ServicesStart, ServicesStep, PTL DEF ServicesSpec

\* The types of every area's rows, calls and client state.
THEOREM ServicesTypes == ServicesSpec => []ServicesTypeOK
<1>1. ServicesInv => ServicesTypeOK
  BY DEF ServicesInv, ServicesTypeOK, IInv, SessionInv, RowsInv, RfxInv, DailyInv, OfflineInv,
         DossierInv
<1> QED BY <1>1, ServicesInductive, PTL

\* In front of one tab no family ever ends for reuse (VinopsApiClient.refresh).
THEOREM ServicesTabNeverReuses == ServicesSpec => []TabNeverReuses
<1>1. ServicesInv => TabNeverReuses
  BY DEF ServicesInv, TabNeverReuses, WebInv
<1> QED BY <1>1, ServicesInductive, PTL

\* The invariants of the single services, of the composed specification.
ServicesSafe ==
  /\ SignedInOrder /\ StatusHasSignatures /\ FullySignedIsCompleted
  /\ CredentialChain /\ RevocationLasts /\ BrowserIsCurrent
  /\ KeyExecutesOnce /\ AnswerIsExecution /\ VersionWinsOnce /\ TwoForBreakGlass
  /\ BallFollowsStatus /\ EscalatedOnce
  /\ SignedIsConfirmed /\ RemovedIsApplied /\ SealCoversItems

\* What each service promises holds of all of them side by side.
THEOREM ServicesAreSafe == ServicesSpec => []ServicesSafe
<1>1. ServicesInv => BrowserIsCurrent
  BY HeldIsCurrent DEF ServicesInv, BrowserIsCurrent
<1>2. ServicesInv => TwoForBreakGlass
  BY GlassIsForTwo DEF ServicesInv
<1>3. ServicesInv => RemovedIsApplied
  BY DEF ServicesInv, OfflineInv, RemovedIsApplied
<1>4. ServicesInv => ServicesSafe
  BY <1>1, <1>2, <1>3 DEF ServicesInv, ServicesSafe, IInv, SessionInv, RowsInv, CommandsInv, RfxInv,
     DailyInv, DossierInv
<1> QED BY <1>4, ServicesInductive, PTL

\* What no step of any service may undo: a signature, a confirmed log, the end
\* of a family and a consumed credential, the seal of a dossier.
THEOREM ServicesKeep ==
  ServicesSpec => SignatureIsKept /\ ConfirmedIsFrozen /\ NothingComesBack /\ SealIsFinal
<1>1. ServicesInv /\ [ServicesNext]_servicesVars =>
        /\ [\A k \in Orders : session[k] = "signed" => session'[k] = "signed"]_vars
        /\ [KeepsConfirmed]_dailyVars
        /\ [\A f \in Opened :
              /\ ~Lives(f) => ~Lives(f)'
              /\ \A n \in 1..issued[f] : n \notin unused[f] => n \notin unused'[f]]_sessionsVars
        /\ [dossier.status = "sealed" => UNCHANGED <<dossier, contents>>]_dossierVars
  <2> SUFFICES ASSUME ServicesInv, [ServicesNext]_servicesVars
               PROVE  /\ [\A k \in Orders : session[k] = "signed" => session'[k] = "signed"]_vars
                      /\ [KeepsConfirmed]_dailyVars
                      /\ [\A f \in Opened :
                            /\ ~Lives(f) => ~Lives(f)'
                            /\ \A n \in 1..issued[f] :
                                 n \notin unused[f] => n \notin unused'[f]]_sessionsVars
                      /\ [dossier.status = "sealed" => UNCHANGED <<dossier, contents>>]_dossierVars
    OBVIOUS
  <2>1. IInv /\ DailyInv /\ SessionInv /\ DossierInv
    BY DEF ServicesInv
  <2> QED BY <2>1, AreasMove, SignedStays, ConfirmedStays, NothingReturns, SealStays
<1> QED BY <1>1, ServicesInductive, PTL DEF ServicesSpec, SignatureIsKept, ConfirmedIsFrozen,
           NothingComesBack, SealIsFinal
=================================================================================
