------------------------------- MODULE MCServices -------------------------------
(* The services that meet only in the database, side by side in one run: a   *)
(* behaviour picks an area and stays in it, the other areas do not move.     *)
EXTENDS SigningWorkflow, WebSession, ProjectCommands, Rfx, DailyLog, OfflineSync,
        Dossiers, TLC

VARIABLE area

servicesVars == <<vars, webVars, commandVars, rfxVars, dailyVars, offlineVars,
                  dossierVars, area>>

ServicesMenus ==
    {{"transition", "context", "preview", "import"},
     {"invite", "revoke", "accept", "member", "transition"},
     {"request", "approve", "start"}}

ServicesInit ==
    /\ area \in {"signing", "sessions", "web", "commands", "rfx", "daily", "offline", "dossier"}
    /\ Init /\ WebInit /\ CommandsInit /\ RfxInit /\ DailyInit /\ OfflineInit
    /\ DossiersInit
    \* What an area chooses initially, the others leave at one value.
    /\ area # "commands" => ~planned /\ menu = CHOOSE m \in Menus : TRUE
    /\ area # "daily" => ~trusted

ServicesNext ==
    /\ \/ /\ area = "signing" /\ Next
          /\ UNCHANGED <<webVars, commandVars, rfxVars, dailyVars, offlineVars, dossierVars>>
       \/ /\ area = "sessions" /\ SessionsNext
          /\ UNCHANGED <<vars, clientVars, commandVars, rfxVars, dailyVars, offlineVars, dossierVars>>
       \/ /\ area = "web" /\ WebNext
          /\ UNCHANGED <<vars, commandVars, rfxVars, dailyVars, offlineVars, dossierVars>>
       \/ /\ area = "commands" /\ CommandsNext
          /\ UNCHANGED <<vars, webVars, rfxVars, dailyVars, offlineVars, dossierVars>>
       \/ /\ area = "rfx" /\ RfxNext
          /\ UNCHANGED <<vars, webVars, commandVars, dailyVars, offlineVars, dossierVars>>
       \/ /\ area = "daily" /\ DailyNext
          /\ UNCHANGED <<vars, webVars, commandVars, rfxVars, offlineVars, dossierVars>>
       \/ /\ area = "offline" /\ OfflineNext
          /\ UNCHANGED <<vars, webVars, commandVars, rfxVars, dailyVars, dossierVars>>
       \/ /\ area = "dossier" /\ DossiersNext
          /\ UNCHANGED <<vars, webVars, commandVars, rfxVars, dailyVars, offlineVars>>
    /\ UNCHANGED area

ServicesSpec == ServicesInit /\ [][ServicesNext]_servicesVars

\* The cfg has two names for whatever acts and two for whatever is acted on;
\* no area tells one of its two from the other.
Alike == Permutations(Calls) \cup Permutations(Requests)

\* Every area keeps its types.  (The others have those of their first states.)
ServicesTypeOK ==
    /\ area = "signing" => TypeOK
    /\ area \in {"sessions", "web"} => SessionsTypeOK /\ WebTypeOK
    /\ area = "commands" => CommandsTypeOK
    /\ area = "rfx" => RfxTypeOK
    /\ area = "daily" => DailyTypeOK
    /\ area = "offline" => OfflineTypeOK
    /\ area = "dossier" => DossiersTypeOK

\* In front of one tab, and with nobody else using its cookie, no family ever
\* ends for reuse (VinopsApiClient.refresh, NeverReuses).
TabNeverReuses == area = "web" => NeverReuses
=============================================================================
