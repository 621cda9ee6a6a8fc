----------------------------- MODULE SessionProofs -----------------------------
(***************************************************************************)
(* Safety of user sessions for any number of calls, families, credentials  *)
(* and versions, alone and behind a browser tab.                           *)
(***************************************************************************)
EXTENDS WebSession, TLAPS

\* What calls under way know of the tables stays true: the family of a refresh
\* and the sessions of a revocation exist.
CallsAreFounded ==
  \A c \in Calls :
    /\ calls[c].op = "Refresh" => calls[c].fam \in Opened
    /\ calls[c].op = "Revoke" => calls[c].rows \subseteq Opened

\* A family and its session are opened together, and with the first credential.
OpenedTogether ==
  \A f \in Families :
    /\ sess[f] = "None" <=> family[f] = "None"
    /\ family[f] = "None" => issued[f] = 0

SessionInv ==
  /\ SessionsTypeOK
  /\ CallsAreFounded
  /\ OpenedTogether
  /\ ended \subseteq Opened
  /\ CredentialChain
  /\ RevocationLasts

LEMMA CallFacts ==
  /\ NoCall \in CallRecords
  /\ \A v \in Nat : [op |-> "Login", saw |-> v] \in CallRecords
  /\ [op |-> "Reset"] \in CallRecords
  /\ \A f \in Families, n \in Nat, s, v \in BOOLEAN :
       [op |-> "Refresh", fam |-> f, cred |-> n, spent |-> s, valid |-> v] \in CallRecords
  /\ \A R \in SUBSET Families, b, r \in BOOLEAN :
       [op |-> "Revoke", rows |-> R, bumps |-> b, resets |-> r] \in CallRecords
  BY DEF CallRecords, NoCall

\* Ending a call, or starting one that is neither a refresh nor a revocation.
LEMMA CallReplaced ==
  ASSUME SessionInv, NEW c \in Calls, NEW call \in CallRecords,
         call.op \notin {"Refresh", "Revoke"}, Set(c, call),
         Opened \subseteq Opened'
  PROVE  calls' \in [Calls -> CallRecords] /\ CallsAreFounded'
  BY DEF SessionInv, SessionsTypeOK, CallsAreFounded, Set

LEMMA CallEnded ==
  ASSUME SessionInv, NEW c \in Calls, End(c), Opened \subseteq Opened'
  PROVE  calls' \in [Calls -> CallRecords] /\ CallsAreFounded'
  BY CallReplaced, CallFacts DEF End, NoCall

LEMMA SessionInit == SessionsInit => SessionInv
<1> SUFFICES ASSUME SessionsInit PROVE SessionInv
  OBVIOUS
<1>1. SessionsTypeOK
  BY CallFacts DEF SessionsInit, SessionsTypeOK, Statuses
<1>2. Opened = {} /\ ended = {}
  BY DEF SessionsInit, Opened
<1>3. CallsAreFounded
  BY DEF SessionsInit, CallsAreFounded, NoCall
<1>4. OpenedTogether
  BY DEF SessionsInit, OpenedTogether
<1>5. CredentialChain /\ RevocationLasts
  BY <1>2 DEF CredentialChain, RevocationLasts
<1> QED BY <1>1, <1>2, <1>3, <1>4, <1>5 DEF SessionInv

-----------------------------------------------------------------------------
(* Steps that write nothing but the call, and single rows *)

LEMMA LookupStep ==
  ASSUME SessionInv, NEW c \in Calls,
         UNCHANGED <<version, sess, family, credentialVars, reuse, reset, ended>>,
         calls' \in [Calls -> CallRecords], CallsAreFounded'
  PROVE  SessionInv'
  BY DEF SessionInv, SessionsTypeOK, OpenedTogether, CredentialChain, RevocationLasts,
         Opened, Lives, credentialVars

LEMMA LookupSteps ==
  ASSUME SessionInv, NEW c \in Calls,
         LookupLogin(c) \/ LookupReset(c) \/ RefuseRefresh(c) \/ CallFails(c)
  PROVE  SessionInv'
<1>1. UNCHANGED <<version, sess, family, credentialVars, reuse, reset, ended>>
  BY DEF LookupLogin, LookupReset, RefuseRefresh, CallFails
<1>2. Opened' = Opened
  BY <1>1 DEF Opened
<1>3. calls' \in [Calls -> CallRecords] /\ CallsAreFounded'
  <2>1. CASE LookupLogin(c)
    <3>1. version \in Nat
      BY DEF SessionInv, SessionsTypeOK
    <3> QED BY <2>1, <3>1, <1>2, CallFacts, CallReplaced DEF LookupLogin
  <2>2. CASE LookupReset(c)
    BY <2>2, <1>2, CallFacts, CallReplaced DEF LookupReset
  <2>3. CASE RefuseRefresh(c) \/ CallFails(c)
    BY <2>3, <1>2, CallEnded DEF RefuseRefresh, CallFails
  <2> QED BY <2>1, <2>2, <2>3
<1> QED BY <1>1, <1>3, LookupStep

LEMMA LookupRefreshStep ==
  ASSUME SessionInv, NEW c \in Calls, NEW f \in Families,
         NEW n, NEW k, LookupRefresh(c, f, n, k)
  PROVE  SessionInv'
<1> DEFINE call == [op |-> "Refresh", fam |-> f, cred |-> n, spent |-> n \notin unused[f],
                    valid |-> Lives(f) /\ expiry[f] = "Fresh"]
<1>1. n \in Nat /\ n \in 1..issued[f]
  BY DEF LookupRefresh, SessionInv, SessionsTypeOK
<1>2. f \in Opened
  BY <1>1 DEF SessionInv, SessionsTypeOK, OpenedTogether, Opened
<1>3. call \in CallRecords
  BY <1>1, CallFacts
<1>4. UNCHANGED <<version, sess, family, credentialVars, reuse, reset, ended>> /\ Set(c, call)
  BY DEF LookupRefresh
<1>5. Opened' = Opened
  BY <1>4 DEF Opened
<1>6. calls' \in [Calls -> CallRecords] /\ CallsAreFounded'
  BY <1>2, <1>3, <1>4, <1>5 DEF SessionInv, SessionsTypeOK, CallsAreFounded, Set
<1> QED BY <1>4, <1>6, LookupStep

LEMMA StartRevocationSteps ==
  ASSUME SessionInv, NEW c \in Calls,
         (\E bumps \in BOOLEAN : StartRevocation(c, bumps)) \/ ConfirmPasswordReset(c)
  PROVE  SessionInv'
<1>1. UNCHANGED <<version, sess, family, credentialVars, reuse, reset, ended>>
  BY DEF StartRevocation, ConfirmPasswordReset
<1>2. Opened' = Opened
  BY <1>1 DEF Opened
<1>3. ASSUME NEW b \in BOOLEAN, NEW r \in BOOLEAN, Set(c, Revocation(b, r))
      PROVE  calls' \in [Calls -> CallRecords] /\ CallsAreFounded'
  <2>1. Revocation(b, r) \in CallRecords
    BY CallFacts DEF Revocation
  <2>2. Revocation(b, r).op = "Revoke" /\ Revocation(b, r).rows \subseteq Opened
    BY DEF Revocation, SessionInv, OpenedTogether, Opened
  <2> QED BY <1>2, <1>3, <2>1, <2>2 DEF SessionInv, SessionsTypeOK, CallsAreFounded, Set
<1>4. calls' \in [Calls -> CallRecords] /\ CallsAreFounded'
  <2>1. CASE \E bumps \in BOOLEAN : StartRevocation(c, bumps)
    BY <2>1, <1>3 DEF StartRevocation
  <2>2. CASE ConfirmPasswordReset(c)
    BY <2>2, <1>2, <1>3, CallEnded DEF ConfirmPasswordReset
  <2> QED BY <2>1, <2>2
<1> QED BY <1>1, <1>4, LookupStep

LEMMA RowSteps ==
  ASSUME SessionInv, NEW f \in Families,
         \/ RevokeSession(f)
         \/ \E kind \in {"Idle", "Absolute"} : ExpiryPasses(f, kind)
         \/ RequestPasswordReset
  PROVE  SessionInv'
<1>1. CASE RevokeSession(f)
  BY <1>1 DEF RevokeSession, SessionInv, SessionsTypeOK, CallsAreFounded, OpenedTogether,
              CredentialChain, RevocationLasts, Opened, Lives, credentialVars, Statuses
<1>2. CASE \E kind \in {"Idle", "Absolute"} : ExpiryPasses(f, kind)
  BY <1>2 DEF ExpiryPasses, SessionInv, SessionsTypeOK, CallsAreFounded, OpenedTogether,
              CredentialChain, RevocationLasts, Opened, Lives, Statuses
<1>3. CASE RequestPasswordReset
  BY <1>3 DEF RequestPasswordReset, SessionInv, SessionsTypeOK, CallsAreFounded, OpenedTogether,
              CredentialChain, RevocationLasts, Opened, Lives, credentialVars, Statuses
<1> QED BY <1>1, <1>2, <1>3

-----------------------------------------------------------------------------
(* Login, rotation, reuse and the commit of a revocation *)

LEMMA CreateSessionStep ==
  ASSUME SessionInv, NEW c \in Calls, NEW f \in Families, CreateSession(c, f)
  PROVE  SessionInv'
<1>1. f \notin Opened /\ Opened' = Opened \cup {f} /\ f \notin ended
  BY DEF CreateSession, SessionInv, SessionsTypeOK, Opened
<1>2. calls' \in [Calls -> CallRecords] /\ CallsAreFounded'
  BY <1>1, CallEnded DEF CreateSession
<1>3. SessionsTypeOK'
  BY <1>2 DEF CreateSession, SessionInv, SessionsTypeOK, Statuses
<1>4. OpenedTogether'
  BY DEF CreateSession, SessionInv, SessionsTypeOK, OpenedTogether
<1>5. CredentialChain'
  BY <1>1 DEF CreateSession, SessionInv, SessionsTypeOK, CredentialChain
<1>6. ended' \subseteq Opened' /\ RevocationLasts'
  BY <1>1 DEF CreateSession, SessionInv, SessionsTypeOK, RevocationLasts, Lives
<1> QED BY <1>2, <1>3, <1>4, <1>5, <1>6 DEF SessionInv

\* The credential that a rotation consumes is the newest one.
LEMMA RotateStep ==
  ASSUME SessionInv, NEW c \in Calls, Rotate(c)
  PROVE  SessionInv'
<1> DEFINE f == calls[c].fam
<1>1. f \in Opened /\ f \in Families
  BY DEF Rotate, Rotates, SessionInv, CallsAreFounded, Opened
<1>2. unused[f] = {issued[f]} /\ calls[c].cred = issued[f] /\ issued[f] \in Nat
  BY <1>1 DEF Rotate, Consumable, SessionInv, SessionsTypeOK, CredentialChain
<1>3. /\ issued' = [issued EXCEPT ![f] = @ + 1]
      /\ unused' = [unused EXCEPT ![f] = {issued[f] + 1}]
      /\ csrf' = [csrf EXCEPT ![f] = issued[f] + 1]
      /\ expiry' = [expiry EXCEPT ![f] = IF @ = "Idle" THEN "Fresh" ELSE @]
      /\ UNCHANGED <<version, sess, family, reuse, reset, ended>>
  <2>1. (unused[f] \ {calls[c].cred}) \cup {issued[f] + 1} = {issued[f] + 1}
    BY <1>2
  <2> QED BY <2>1 DEF Rotate, KeepsStatus
<1>4. Opened' = Opened
  BY <1>3 DEF Opened
<1>5. calls' \in [Calls -> CallRecords] /\ CallsAreFounded'
  BY <1>4, CallEnded DEF Rotate
<1>6. SessionsTypeOK'
  BY <1>1, <1>2, <1>3, <1>5 DEF SessionInv, SessionsTypeOK
<1>7. OpenedTogether'
  BY <1>1, <1>3 DEF SessionInv, SessionsTypeOK, OpenedTogether, Opened
<1>8. CredentialChain'
  BY <1>1, <1>2, <1>3, <1>4 DEF SessionInv, SessionsTypeOK, CredentialChain, Opened
<1>9. ended' \subseteq Opened' /\ RevocationLasts'
  BY <1>3, <1>4 DEF SessionInv, RevocationLasts, Lives
<1> QED BY <1>5, <1>6, <1>7, <1>8, <1>9 DEF SessionInv

LEMMA DetectReuseStep ==
  ASSUME SessionInv, NEW c \in Calls, DetectReuse(c)
  PROVE  SessionInv'
<1> DEFINE f == calls[c].fam
<1>1. f \in Opened /\ f \in Families
  BY DEF DetectReuse, SessionInv, CallsAreFounded, Opened
<1>2. /\ family' = [family EXCEPT ![f] = "Revoked"]
      /\ sess' = [sess EXCEPT ![f] = "Revoked"]
      /\ reuse' = [reuse EXCEPT ![f] = @ \/ family[f] = "Active"]
      /\ ended' = ended \cup {f}
      /\ UNCHANGED <<version, credentialVars, reset>>
  BY DEF DetectReuse
<1>3. Opened' = Opened
  BY <1>1, <1>2 DEF Opened, SessionInv, SessionsTypeOK
<1>4. calls' \in [Calls -> CallRecords] /\ CallsAreFounded'
  BY <1>3, CallEnded DEF DetectReuse
<1>5. reuse' \in [Families -> BOOLEAN]
  BY <1>1, <1>2 DEF SessionInv, SessionsTypeOK
<1>6. SessionsTypeOK'
  BY <1>1, <1>2, <1>4, <1>5 DEF SessionInv, SessionsTypeOK, credentialVars, Statuses
<1>7. OpenedTogether'
  BY <1>1, <1>2 DEF SessionInv, SessionsTypeOK, OpenedTogether, Opened, credentialVars
<1>8. CredentialChain'
  BY <1>2, <1>3 DEF SessionInv, CredentialChain, credentialVars
<1>9. ended' \subseteq Opened' /\ RevocationLasts'
  BY <1>1, <1>2, <1>3 DEF SessionInv, SessionsTypeOK, RevocationLasts, Lives
<1> QED BY <1>4, <1>6, <1>7, <1>8, <1>9 DEF SessionInv

\* A family that was opened between the two statements is ended by the second.
LEMMA CommitRevocationStep ==
  ASSUME SessionInv, NEW c \in Calls, CommitRevocation(c)
  PROVE  SessionInv'
<1> DEFINE rows == calls[c].rows
           open == {f \in Families : family[f] = "Active"}
<1>1. rows \subseteq Opened /\ open \subseteq Opened /\ rows \subseteq Families
  BY DEF CommitRevocation, SessionInv, CallsAreFounded, Opened
<1>2. /\ sess' = [f \in Families |-> IF f \in rows THEN "Revoked" ELSE sess[f]]
      /\ family' = [f \in Families |-> IF f \in open THEN "Revoked" ELSE family[f]]
      /\ ended' = ended \cup rows \cup open
      /\ UNCHANGED <<credentialVars, reuse>>
  BY DEF CommitRevocation
<1>3. Opened' = Opened
  BY <1>1, <1>2 DEF Opened
<1>4. calls' \in [Calls -> CallRecords] /\ CallsAreFounded'
  BY <1>3, CallEnded DEF CommitRevocation
<1>5. version' \in Nat /\ reset' \in {"None", "Open", "Used"}
  BY DEF CommitRevocation, SessionInv, SessionsTypeOK
<1>6. SessionsTypeOK'
  BY <1>1, <1>2, <1>4, <1>5 DEF SessionInv, SessionsTypeOK, credentialVars, Statuses
<1>7. OpenedTogether'
  BY <1>1, <1>2 DEF SessionInv, OpenedTogether, Opened, credentialVars
<1>8. CredentialChain'
  BY <1>2, <1>3 DEF SessionInv, CredentialChain, credentialVars
<1>9. ended' \subseteq Opened' /\ RevocationLasts'
  BY <1>1, <1>2, <1>3 DEF SessionInv, SessionsTypeOK, RevocationLasts, Lives, Opened
<1> QED BY <1>4, <1>6, <1>7, <1>8, <1>9 DEF SessionInv

-----------------------------------------------------------------------------
LEMMA SessionStep == SessionInv /\ [SessionsNext]_sessionsVars => SessionInv'
<1> SUFFICES ASSUME SessionInv, [SessionsNext]_sessionsVars PROVE SessionInv'
  OBVIOUS
<1>1. CASE UNCHANGED sessionsVars
  BY <1>1 DEF sessionsVars, SessionInv, SessionsTypeOK, CallsAreFounded, OpenedTogether,
              CredentialChain, RevocationLasts, Opened, Lives
<1>2. ASSUME NEW c \in Calls, LookupLogin(c) \/ FinishRefresh(c) \/ Administer(c)
      PROVE  SessionInv'
  BY <1>2, LookupSteps, StartRevocationSteps, RotateStep, DetectReuseStep, CommitRevocationStep
  DEF FinishRefresh, Administer
<1>3. ASSUME NEW c \in Calls, NEW f \in Families, CreateSession(c, f) PROVE SessionInv'
  BY <1>3, CreateSessionStep
<1>4. ASSUME NEW c \in Calls, NEW f \in Families, NEW n \in 1..MaxCredentials,
             NEW k \in 1..MaxCredentials, LookupRefresh(c, f, n, k)
      PROVE  SessionInv'
  BY <1>4, LookupRefreshStep
<1>5. ASSUME NEW f \in Families,
             RevokeSession(f) \/ \E kind \in {"Idle", "Absolute"} : ExpiryPasses(f, kind)
      PROVE  SessionInv'
  BY <1>5, RowSteps
<1>6. CASE RequestPasswordReset
  BY <1>6 DEF RequestPasswordReset, SessionInv, SessionsTypeOK, CallsAreFounded, OpenedTogether,
              CredentialChain, RevocationLasts, Opened, Lives, credentialVars
<1> QED BY <1>1, <1>2, <1>3, <1>4, <1>5, <1>6 DEF SessionsNext

\* The inductive invariant of the sessions: tables, calls and families fit.
THEOREM SessionsInductive == SessionsSpec => []SessionInv
BY SessionInit, SessionStep, PTL DEF SessionsSpec

\* The types of the columns of migration 001 and of the calls under way.
THEOREM SessionsTypes == SessionsSpec => []SessionsTypeOK
<1>1. SessionInv => SessionsTypeOK
  BY DEF SessionInv
<1> QED BY <1>1, SessionsInductive, PTL

\* However refreshes of one family overlap (rotateRefreshCredential), only its
\* newest credential is unused, and the session's CSRF secret belongs to it.
THEOREM SessionsCredentialChain == SessionsSpec => []CredentialChain
<1>1. SessionInv => CredentialChain
  BY DEF SessionInv
<1> QED BY <1>1, SessionsInductive, PTL

\* A family that a committed revocation has found is never active again.
THEOREM SessionsRevocationLasts == SessionsSpec => []RevocationLasts
<1>1. SessionInv => RevocationLasts
  BY DEF SessionInv
<1> QED BY <1>1, SessionsInductive, PTL

\* Only an unopened family is ever made Active, and a rotation adds a number
\* that is new.
LEMMA NothingReturns ==
  SessionInv /\ [SessionsNext]_sessionsVars =>
    [\A f \in Opened :
       /\ ~Lives(f) => ~Lives(f)'
       /\ \A n \in 1..issued[f] : n \notin unused[f] => n \notin unused'[f]]_sessionsVars
<1> SUFFICES ASSUME SessionInv, SessionsNext, NEW f \in Opened
             PROVE  /\ ~Lives(f) => ~Lives(f)'
                    /\ \A n \in 1..issued[f] : n \notin unused[f] => n \notin unused'[f]
  OBVIOUS
<1>1. f \in Families /\ family[f] # "None" /\ sess[f] # "None" /\ issued[f] \in Nat
  BY DEF Opened, SessionInv, SessionsTypeOK, OpenedTogether
<1>2. ASSUME NEW c \in Calls, NEW g \in Families, CreateSession(c, g)
      PROVE  sess'[f] = sess[f] /\ family'[f] = family[f] /\ unused'[f] = unused[f]
  BY <1>1, <1>2 DEF CreateSession, SessionInv, SessionsTypeOK
<1>3. ASSUME NEW c \in Calls, Rotate(c)
      PROVE  /\ UNCHANGED <<sess, family>>
             /\ \A n \in 1..issued[f] : n \notin unused[f] => n \notin unused'[f]
  <2>1. UNCHANGED <<sess, family>> /\ unused' = [unused EXCEPT ![calls[c].fam] =
          (@ \ {calls[c].cred}) \cup {issued[calls[c].fam] + 1}]
    BY <1>3 DEF Rotate, KeepsStatus
  <2>2. CASE f # calls[c].fam
    BY <1>1, <2>1, <2>2 DEF SessionInv, SessionsTypeOK
  <2>3. CASE f = calls[c].fam
    <3>1. unused'[f] = (unused[f] \ {calls[c].cred}) \cup {issued[f] + 1}
      BY <1>1, <2>1, <2>3 DEF SessionInv, SessionsTypeOK
    <3>2. \A n \in 1..issued[f] : n # issued[f] + 1
      BY <1>1
    <3> QED BY <2>1, <3>1, <3>2
  <2> QED BY <2>1, <2>2, <2>3
<1>4. ASSUME NEW c \in Calls,
             \/ LookupLogin(c) \/ Administer(c) \/ DetectReuse(c) \/ RefuseRefresh(c)
             \/ \E g \in Families, n, k \in 1..MaxCredentials : LookupRefresh(c, g, n, k)
      PROVE  /\ sess'[f] \in {sess[f], "Revoked"} /\ family'[f] \in {family[f], "Revoked"}
             /\ unused' = unused
  BY <1>1, <1>4 DEF LookupLogin, Administer, DetectReuse, RefuseRefresh, LookupRefresh,
     StartRevocation, CommitRevocation, LookupReset, ConfirmPasswordReset, CallFails,
     credentialVars, SessionInv, SessionsTypeOK
<1>5. ASSUME NEW g \in Families,
             RevokeSession(g) \/ \E kind \in {"Idle", "Absolute"} : ExpiryPasses(g, kind)
      PROVE  sess'[f] \in {sess[f], "Revoked"} /\ family' = family /\ unused' = unused
  BY <1>1, <1>5 DEF RevokeSession, ExpiryPasses, credentialVars, SessionInv, SessionsTypeOK
<1>6. CASE RequestPasswordReset
  BY <1>6 DEF RequestPasswordReset, credentialVars, Lives
<1> QED BY <1>2, <1>3, <1>4, <1>5, <1>6 DEF SessionsNext, FinishRefresh, Lives

\* No family comes back and no consumed credential, however refreshes,
\* revocations and logins overlap (rotateRefreshCredential).
THEOREM SessionsNothingComesBack == SessionsSpec => NothingComesBack
BY SessionsInductive, NothingReturns, PTL DEF SessionsSpec, NothingComesBack

-----------------------------------------------------------------------------
(* A browser tab: it holds the newest credential of every family it uses *)

\* n is the unused credential of family f, and no refresh is under way with it.
Holds(f, n) ==
  /\ f \in Opened /\ n \in unused[f]
  /\ \A c \in Calls : calls[c].op = "Refresh" => calls[c].fam # f

\* Each of the tab's calls is of the kind that it was started as.
Roles ==
  /\ flight # None => calls[flight].op \in {"Idle", "Refresh"}
  /\ entry # None => calls[entry].op \in {"Idle", "Login"}
  /\ exit # None => calls[exit].op \in {"Idle", "Revoke"}

\* A refresh under way has a credential that nobody consumes before it.
RefreshesAreNew ==
  \A c \in Calls : calls[c].op = "Refresh" =>
    /\ ~calls[c].spent /\ calls[c].cred \in unused[calls[c].fam]
    /\ \A d \in Calls \ {c} : calls[d].op = "Refresh" => calls[d].fam # calls[c].fam

\* An answer on its way brings a credential that nobody else has.
AnswersAreHeld ==
  \A c \in Calls : wire[c].ok =>
    /\ c \in {flight, entry} /\ IsIdle(c) /\ Holds(wire[c].fam, wire[c].key)
    /\ \A d \in Calls \ {c} : wire[d].ok => wire[d].fam # wire[c].fam

\* So is that of the cookie, which the session in memory fits or is older than.
CookieIsHeld ==
  mem # NoSession /\ flight = None =>
    /\ Holds(cookie.fam, cookie.cred)
    /\ mem.fam \in Opened
    /\ cookie.fam = mem.fam => mem.key = csrf[mem.fam]
    /\ \A c \in Calls : wire[c].ok => wire[c].fam \notin {cookie.fam, mem.fam}

WebInv ==
  /\ SessionInv /\ WebTypeOK
  /\ Roles /\ RefreshesAreNew /\ AnswersAreHeld /\ CookieIsHeld /\ NeverReuses

LEMMA WebInitInv == WebInit => WebInv
<1> SUFFICES ASSUME WebInit PROVE WebInv
  OBVIOUS
<1>1. SessionInv
  BY SessionInit DEF WebInit
<1>2. WebTypeOK
  BY DEF WebInit, WebTypeOK, NoSession, NoCookie, NoAnswer, None, Rest
<1>3. \A c \in Calls : calls[c].op = "Idle" /\ ~wire[c].ok
  BY DEF WebInit, SessionsInit, NoCall, NoAnswer
<1>4. NeverReuses
  BY DEF WebInit, SessionsInit, NeverReuses
<1> QED BY <1>1, <1>2, <1>3, <1>4
        DEF WebInv, Roles, RefreshesAreNew, AnswersAreHeld, CookieIsHeld, WebInit

\* A step is calm if it starts no refresh and leaves the credentials alone.
Calm ==
  /\ UNCHANGED <<unused, csrf, reuse>> /\ Opened' = Opened
  /\ \A c \in Calls : calls'[c] = calls[c] \/ calls'[c].op # "Refresh"

LEMMA HeldStays == ASSUME Calm, NEW f, NEW n, Holds(f, n) PROVE Holds(f, n)'
BY DEF Calm, Holds

\* A calm step that takes up or drops answers, and brings none.
LEMMA CalmStep ==
  ASSUME WebInv, SessionInv', WebTypeOK', Roles', CookieIsHeld', Calm,
         \A c \in Calls : wire'[c].ok =>
           wire'[c] = wire[c] /\ c \in {flight', entry'} /\ calls'[c] = calls[c]
  PROVE  WebInv'
<1>1. RefreshesAreNew'
  BY DEF Calm, WebInv, RefreshesAreNew
<1>2. AnswersAreHeld'
  <2>1. ASSUME NEW c \in Calls, wire'[c].ok
        PROVE  /\ c \in {flight', entry'} /\ IsIdle(c)'
               /\ Holds(wire[c].fam, wire[c].key)'
               /\ \A d \in Calls \ {c} : wire'[d].ok => wire'[d].fam # wire'[c].fam
    <3>1. IsIdle(c) /\ Holds(wire[c].fam, wire[c].key)
      BY <2>1 DEF WebInv, AnswersAreHeld
    <3>2. IsIdle(c)'
      BY <2>1, <3>1 DEF IsIdle
    <3>3. \A d \in Calls \ {c} : wire'[d].ok => wire'[d].fam # wire'[c].fam
      BY <2>1 DEF WebInv, AnswersAreHeld
    <3> QED BY <2>1, <3>1, <3>2, <3>3, HeldStays
  <2>2. \A c \in Calls : wire'[c].ok => wire'[c] = wire[c]
    OBVIOUS
  <2> QED BY <2>1, <2>2 DEF AnswersAreHeld, Holds
<1>3. NeverReuses'
  BY DEF Calm, WebInv, NeverReuses
<1> QED BY <1>1, <1>2, <1>3 DEF WebInv

\* The cookie after a calm step that signs out or leaves the client's memory.
LEMMA CalmCookie ==
  ASSUME WebInv, Calm, \A c \in Calls : wire'[c].ok => wire'[c] = wire[c],
         \/ mem' = NoSession
         \/ UNCHANGED <<mem, cookie, flight>>
         \/ UNCHANGED mem /\ flight' # None
  PROVE  CookieIsHeld'
<1>1. CASE mem' = NoSession \/ flight' # None
  BY <1>1 DEF CookieIsHeld
<1>2. CASE UNCHANGED <<mem, cookie, flight>> /\ mem # NoSession /\ flight = None
  <2>1. CookieIsHeld /\ Holds(cookie.fam, cookie.cred)
    BY <1>2 DEF WebInv, CookieIsHeld
  <2>2. Holds(cookie.fam, cookie.cred)'
    BY <1>2, <2>1, HeldStays DEF Holds
  <2> QED BY <1>2, <2>1, <2>2 DEF CookieIsHeld, Calm
<1> QED BY <1>1, <1>2 DEF CookieIsHeld

LEMMA AtRestIsCalm == UNCHANGED sessionsVars => Calm
BY DEF sessionsVars, Calm, Opened

\* Steps of the page: requests, and a session that ends.
LEMMA PageSteps ==
  ASSUME WebInv,
         \/ \E r \in Requests :
              SendRequest(r) \/ Authenticate(r) \/ GiveUp(r) \/ JoinRefresh(r) \/ RefreshMismatch(r)
         \/ SignOutRefused
  PROVE  WebInv'
<1>1. /\ UNCHANGED <<sessionsVars, cookie, wire, flight, entry, exit>>
      /\ UNCHANGED mem \/ mem' = NoSession
  BY DEF SendRequest, Authenticate, GiveUp, JoinRefresh, RefreshMismatch, SignOutRefused
<1>2. page' \in [Requests -> [at : {"Rest", "Sent", "Refused", "Waiting"},
                              fam : Nat, ver : Nat, again : BOOLEAN]]
  <2> DEFINE States == [at : {"Rest", "Sent", "Refused", "Waiting"},
                        fam : Nat, ver : Nat, again : BOOLEAN]
  <2>1. page \in [Requests -> States] /\ mem.fam \in Nat /\ mem.ver \in Nat
    BY DEF WebInv, WebTypeOK
  <2>2. Rest \in States
    BY DEF Rest
  <2>3. ASSUME NEW r \in Requests, NEW to \in {"Refused", "Waiting"}
        PROVE  [page EXCEPT ![r].at = to] \in [Requests -> States]
    BY <2>1
  <2>4. ASSUME NEW r \in Requests PROVE [page EXCEPT ![r] = Rest] \in [Requests -> States]
    BY <2>1, <2>2
  <2>5. ASSUME NEW r \in Requests
        PROVE  [page EXCEPT ![r] = [at |-> "Sent", fam |-> mem.fam, ver |-> mem.ver,
                                    again |-> FALSE]] \in [Requests -> States]
    BY <2>1
  <2>6. ASSUME NEW r \in Requests,
               SendRequest(r) \/ Authenticate(r) \/ GiveUp(r) \/ JoinRefresh(r) \/ RefreshMismatch(r)
        PROVE  page' \in [Requests -> States]
    <3> HIDE DEF States
    <3> QED BY <2>3, <2>4, <2>5, <2>6
            DEF SendRequest, Authenticate, GiveUp, JoinRefresh, RefreshMismatch
  <2>7. CASE SignOutRefused
    BY <2>1, <2>7 DEF SignOutRefused
  <2> QED BY <2>6, <2>7
<1>3. WebTypeOK'
  BY <1>1, <1>2 DEF WebInv, WebTypeOK, NoSession
<1>4. SessionInv' /\ Calm
  BY <1>1, SessionStep, AtRestIsCalm DEF WebInv
<1>5. Roles'
  BY <1>1 DEF WebInv, Roles, sessionsVars
<1>6. CookieIsHeld'
  BY <1>1, <1>4, CalmCookie
<1> QED BY <1>1, <1>3, <1>4, <1>5, <1>6, CalmStep DEF WebInv, AnswersAreHeld, sessionsVars

LEMMA AnswerTypes ==
  ASSUME WebInv, NEW c \in Calls
  PROVE  /\ SessionOf(wire[c]) \in [fam : Nat, ver : Nat, key : Nat]
         /\ CookieOf(wire[c]) \in [fam : Nat, cred : Nat]
BY DEF WebInv, WebTypeOK, SessionOf, CookieOf

\* An answer that is taken up becomes the session of the tab.
LEMMA AnswerTaken ==
  ASSUME WebInv, UNCHANGED sessionsVars, NEW c \in Calls, wire[c].ok,
         mem' = SessionOf(wire[c]), cookie' = CookieOf(wire[c]),
         wire' = [wire EXCEPT ![c] = NoAnswer]
  PROVE  CookieIsHeld'
<1>1. Calm
  BY AtRestIsCalm
<1>2. /\ mem'.fam = wire[c].fam /\ mem'.key = wire[c].key
      /\ cookie'.fam = wire[c].fam /\ cookie'.cred = wire[c].key
  BY DEF SessionOf, CookieOf
<1>3. Holds(wire[c].fam, wire[c].key)
  BY DEF WebInv, AnswersAreHeld
<1>4. Holds(cookie.fam, cookie.cred)'
  BY <1>1, <1>2, <1>3, HeldStays DEF Holds
<1>5. wire[c].key = csrf[wire[c].fam] /\ wire[c].fam \in Opened
  BY <1>3 DEF Holds, WebInv, SessionInv, CredentialChain
<1>6. \A d \in Calls : wire'[d].ok => wire'[d].fam # wire[c].fam
  BY DEF WebInv, WebTypeOK, AnswersAreHeld, NoAnswer
<1> QED BY <1>1, <1>2, <1>4, <1>5, <1>6 DEF CookieIsHeld, Calm

\* Steps that end a refresh, a login or a sign-out for the client.
LEMMA ArrivalSteps ==
  ASSUME WebInv,
         RefreshAnswered \/ RefreshFails \/ LoginAnswered \/ LoginFails \/ SignedOut
  PROVE  WebInv'
<1>1. UNCHANGED sessionsVars
  BY DEF RefreshAnswered, RefreshFails, LoginAnswered, LoginFails, SignedOut
<1>2. SessionInv' /\ Calm
  BY <1>1, SessionStep, AtRestIsCalm DEF WebInv
<1>3. NoAnswer \in [fam : Nat, ver : Nat, key : Nat, ok : BOOLEAN] /\ ~NoAnswer.ok
  BY DEF NoAnswer
<1>4. /\ NoSession \in [fam : Nat, ver : Nat, key : Nat] /\ NoCookie \in [fam : Nat, cred : Nat]
      /\ Rest \in [at : {"Rest", "Sent", "Refused", "Waiting"},
                   fam : Nat, ver : Nat, again : BOOLEAN]
  BY DEF NoSession, NoCookie, Rest
<1>5. CASE RefreshAnswered
  <2>1. flight \in Calls /\ wire[flight].ok
    BY <1>5 DEF RefreshAnswered, WebInv, WebTypeOK
  <2>2. /\ mem' = SessionOf(wire[flight]) /\ cookie' = CookieOf(wire[flight])
        /\ wire' = [wire EXCEPT ![flight] = NoAnswer]
        /\ flight' = None /\ UNCHANGED <<entry, exit>>
    BY <1>5 DEF RefreshAnswered
  <2>3. WebTypeOK'
    <3>1. /\ mem' \in [fam : Nat, ver : Nat, key : Nat] /\ cookie' \in [fam : Nat, cred : Nat]
          /\ wire' \in [Calls -> [fam : Nat, ver : Nat, key : Nat, ok : BOOLEAN]]
          /\ {flight', entry', exit'} \subseteq Calls \cup {None}
      BY <1>3, <2>1, <2>2, AnswerTypes DEF WebInv, WebTypeOK
    <3>2. page' \in [Requests -> [at : {"Rest", "Sent", "Refused", "Waiting"},
                                  fam : Nat, ver : Nat, again : BOOLEAN]]
      <4>1. page' = [r \in Requests |->
                       IF r \in Waiting
                       THEN [at |-> "Sent", fam |-> mem'.fam, ver |-> mem'.ver, again |-> TRUE]
                       ELSE page[r]]
        BY <1>5 DEF RefreshAnswered
      <4>2. mem'.fam \in Nat /\ mem'.ver \in Nat
        BY <3>1
      <4> QED BY <4>1, <4>2 DEF WebInv, WebTypeOK
    <3> QED BY <3>1, <3>2 DEF WebTypeOK
  <2>4. Roles'
    BY <1>1, <2>2 DEF WebInv, Roles, sessionsVars, AnswersAreHeld
  <2>5. CookieIsHeld'
    BY <1>1, <2>1, <2>2, AnswerTaken
  <2>6. \A c \in Calls : wire'[c].ok =>
          wire'[c] = wire[c] /\ c \in {flight', entry'} /\ calls'[c] = calls[c]
    BY <1>1, <1>3, <2>1, <2>2 DEF WebInv, WebTypeOK, AnswersAreHeld, sessionsVars
  <2> QED BY <1>2, <2>3, <2>4, <2>5, <2>6, CalmStep
<1>6. CASE LoginAnswered
  <2>1. entry \in Calls /\ wire[entry].ok
    BY <1>6 DEF LoginAnswered, WebInv, WebTypeOK
  <2>2. /\ mem' = SessionOf(wire[entry]) /\ cookie' = CookieOf(wire[entry])
        /\ wire' = [wire EXCEPT ![entry] = NoAnswer]
        /\ entry' = None /\ UNCHANGED <<flight, exit, page>>
    BY <1>6 DEF LoginAnswered
  <2>3. WebTypeOK'
    BY <1>3, <2>1, <2>2, AnswerTypes DEF WebInv, WebTypeOK
  <2>4. Roles'
    BY <1>1, <2>2 DEF WebInv, Roles, sessionsVars
  <2>5. CookieIsHeld'
    BY <1>1, <2>1, <2>2, AnswerTaken
  <2>6. \A c \in Calls : wire'[c].ok =>
          wire'[c] = wire[c] /\ c \in {flight', entry'} /\ calls'[c] = calls[c]
    BY <1>1, <1>3, <2>1, <2>2 DEF WebInv, WebTypeOK, AnswersAreHeld, sessionsVars
  <2> QED BY <1>2, <2>3, <2>4, <2>5, <2>6, CalmStep
<1>7. CASE RefreshFails
  <2>1. flight \in Calls
    BY <1>7 DEF RefreshFails, WebInv, WebTypeOK
  <2>2. /\ cookie' = cookie \/ cookie' = CookieOf(wire[flight])
        /\ mem' = NoSession /\ wire' = [wire EXCEPT ![flight] = NoAnswer]
        /\ flight' = None /\ UNCHANGED <<entry, exit>>
    BY <1>7 DEF RefreshFails, ForgetSession
  <2>3. WebTypeOK'
    <3>1. page' \in [Requests -> [at : {"Rest", "Sent", "Refused", "Waiting"},
                                  fam : Nat, ver : Nat, again : BOOLEAN]]
      BY <1>4, <1>7 DEF RefreshFails, WebInv, WebTypeOK
    <3> QED BY <1>3, <1>4, <2>1, <2>2, <3>1, AnswerTypes DEF WebInv, WebTypeOK
  <2>4. Roles'
    BY <1>1, <2>2 DEF WebInv, Roles, sessionsVars
  <2>5. CookieIsHeld'
    BY <2>2 DEF CookieIsHeld
  <2>6. \A c \in Calls : wire'[c].ok =>
          wire'[c] = wire[c] /\ c \in {flight', entry'} /\ calls'[c] = calls[c]
    BY <1>1, <1>3, <2>1, <2>2 DEF WebInv, WebTypeOK, AnswersAreHeld, sessionsVars
  <2> QED BY <1>2, <2>3, <2>4, <2>5, <2>6, CalmStep
<1>8. CASE LoginFails
  <2>1. entry \in Calls
    BY <1>8 DEF LoginFails, WebInv, WebTypeOK
  <2>2. /\ cookie' = cookie \/ (wire[entry].ok /\ cookie' = CookieOf(wire[entry]))
        /\ wire' = [wire EXCEPT ![entry] = NoAnswer]
        /\ entry' = None /\ UNCHANGED <<mem, flight, exit, page>>
    BY <1>8 DEF LoginFails
  <2>3. WebTypeOK'
    BY <1>3, <2>1, <2>2, AnswerTypes DEF WebInv, WebTypeOK
  <2>4. Roles'
    BY <1>1, <2>2 DEF WebInv, Roles, sessionsVars
  <2>5. \A c \in Calls : wire'[c].ok =>
          wire'[c] = wire[c] /\ c \in {flight', entry'} /\ calls'[c] = calls[c]
    BY <1>1, <1>3, <2>1, <2>2 DEF WebInv, WebTypeOK, AnswersAreHeld, sessionsVars
  <2>6. CookieIsHeld'
    <3>1. CASE cookie' = cookie
      BY <1>2, <2>2, <2>5, <3>1, CalmCookie
    <3>2. CASE wire[entry].ok /\ cookie' = CookieOf(wire[entry]) /\ mem # NoSession /\ flight = None
      <4>1. cookie'.fam = wire[entry].fam /\ cookie'.cred = wire[entry].key
        BY <3>2 DEF CookieOf
      <4>2. Holds(cookie.fam, cookie.cred)'
        BY <1>2, <2>1, <3>2, <4>1, HeldStays DEF WebInv, AnswersAreHeld, Holds
      <4>3. mem.fam \in Opened' /\ cookie'.fam # mem.fam
        BY <1>2, <2>1, <3>2, <4>1 DEF WebInv, CookieIsHeld, Calm
      <4>4. \A c \in Calls : wire'[c].ok => wire'[c].fam \notin {cookie'.fam, mem.fam}
        BY <1>3, <2>1, <2>2, <2>5, <3>2, <4>1
           DEF WebInv, WebTypeOK, CookieIsHeld, AnswersAreHeld
      <4> QED BY <2>2, <4>2, <4>3, <4>4 DEF CookieIsHeld
    <3> QED BY <2>2, <3>1, <3>2 DEF CookieIsHeld
  <2> QED BY <1>2, <2>3, <2>4, <2>5, <2>6, CalmStep
<1>9. CASE SignedOut
  <2>1. /\ mem' = NoSession /\ cookie' \in {cookie, NoCookie} /\ exit' = None
        /\ UNCHANGED <<wire, flight, entry, page>>
    BY <1>9 DEF SignedOut
  <2>2. WebTypeOK'
    BY <1>4, <2>1 DEF WebInv, WebTypeOK
  <2>3. Roles' /\ CookieIsHeld'
    BY <1>1, <2>1 DEF WebInv, Roles, sessionsVars, CookieIsHeld
  <2> QED BY <1>1, <1>2, <2>1, <2>2, <2>3, CalmStep DEF WebInv, AnswersAreHeld, sessionsVars
<1> QED BY <1>5, <1>6, <1>7, <1>8, <1>9

-----------------------------------------------------------------------------
(* Steps of the API in front of which the tab is *)

LEMMA AnswerSent ==
  ASSUME WebInv, NEW c \in Calls, NEW a \in [fam : Nat, ver : Nat, key : Nat, ok : BOOLEAN],
         Answer(c, a)
  PROVE  /\ wire' \in [Calls -> [fam : Nat, ver : Nat, key : Nat, ok : BOOLEAN]]
         /\ \A d \in Calls \ {c} : wire'[d] = wire[d]
         /\ wire'[c] = a \/ ~wire'[c].ok
         /\ wire'[c].ok => wire'[c] = a /\ c \in {flight, entry, exit}
<1>1. NoAnswer \in [fam : Nat, ver : Nat, key : Nat, ok : BOOLEAN] /\ ~NoAnswer.ok
  BY DEF NoAnswer
<1>2. \/ wire' = [wire EXCEPT ![c] = a] /\ c \in {flight, entry, exit}
      \/ wire' = [wire EXCEPT ![c] = NoAnswer]
  BY DEF Answer
<1> QED BY <1>1, <1>2 DEF WebInv, WebTypeOK

\* A call that ends, or a free one that starts as something else than a refresh.
LEMMA CalmCalls ==
  ASSUME WebInv, NEW c \in Calls, NEW call \in CallRecords, Set(c, call),
         call.op # "Refresh", UNCHANGED <<unused, csrf, reuse>>, Opened' = Opened,
         call = NoCall \/ Free(c)
  PROVE  /\ Calm
         /\ \A d \in Calls : d # c => calls'[d] = calls[d]
         /\ calls'[c] = call
         /\ \A d \in Calls : wire[d].ok => calls'[d] = calls[d]
<1>1. (\A d \in Calls : d # c => calls'[d] = calls[d]) /\ calls'[c] = call
  BY DEF WebInv, SessionInv, SessionsTypeOK, Set
<1>2. Calm
  BY <1>1 DEF Calm
<1>3. wire[c].ok => calls'[c] = calls[c]
  BY <1>1 DEF WebInv, AnswersAreHeld, Free, IsIdle
<1> QED BY <1>1, <1>2, <1>3

LEMMA SessionCalls ==
  ASSUME WebInv, NEW c \in Calls, NEW call \in CallRecords, Set(c, call),
         call.op # "Refresh", UNCHANGED <<unused, csrf, reuse>>, Opened' = Opened,
         call = NoCall \/ Free(c), SessionInv',
         UNCHANGED <<mem, cookie, wire, flight, page>>,
         \/ UNCHANGED <<entry, exit>>
         \/ entry' = c /\ call.op = "Login" /\ UNCHANGED exit /\ entry = None
         \/ exit' = c /\ call.op = "Revoke" /\ UNCHANGED entry /\ exit = None
  PROVE  WebInv'
<1>1. /\ Calm
      /\ \A d \in Calls : d # c => calls'[d] = calls[d]
      /\ calls'[c] = call
      /\ \A d \in Calls : wire[d].ok => calls'[d] = calls[d]
  BY CalmCalls
<1>2. {flight, entry, exit} \subseteq Calls \cup {None} /\ {flight', entry', exit'} \subseteq Calls \cup {None}
  BY DEF WebInv, WebTypeOK
<1>3. WebTypeOK'
  BY <1>2 DEF WebInv, WebTypeOK
<1>4. Roles'
  BY <1>1, <1>2 DEF WebInv, Roles, Free, NoCall
<1>5. CookieIsHeld'
  BY <1>1, CalmCookie
<1>6. \A d \in Calls : wire'[d].ok =>
        wire'[d] = wire[d] /\ d \in {flight', entry'} /\ calls'[d] = calls[d]
  BY <1>1, <1>2, CallsAreNamed DEF WebInv, AnswersAreHeld
<1> QED BY <1>1, <1>3, <1>4, <1>5, <1>6, CalmStep

LEMMA TabCallSteps ==
  ASSUME WebInv, Elsewhere \/ \E c \in Calls : Login(c) \/ SignOut(c)
  PROVE  WebInv'
<1>1. ASSUME NEW c \in Calls, Login(c) PROVE WebInv'
  <2> DEFINE call == [op |-> "Login", saw |-> version]
  <2>1. /\ LookupLogin(c) /\ Set(c, call) /\ Free(c) /\ entry = None /\ entry' = c
        /\ UNCHANGED <<unused, csrf, reuse, family, mem, cookie, wire, flight, exit, page>>
    BY <1>1 DEF Login, LookupLogin, credentialVars
  <2>2. call \in CallRecords /\ call.op = "Login"
    BY CallFacts DEF WebInv, SessionInv, SessionsTypeOK
  <2>3. SessionInv' /\ Opened' = Opened
    BY <2>1, LookupSteps DEF WebInv, Opened
  <2> HIDE DEF call
  <2> QED BY <2>1, <2>2, <2>3, SessionCalls
<1>2. ASSUME NEW c \in Calls, NEW b \in BOOLEAN, Free(c), StartRevocation(c, b),
             UNCHANGED <<mem, cookie, wire, flight, page>>,
             \/ UNCHANGED <<entry, exit>>
             \/ exit' = c /\ UNCHANGED entry /\ exit = None
      PROVE  WebInv'
  <2>1. /\ Set(c, Revocation(b, FALSE))
        /\ UNCHANGED <<unused, csrf, reuse, family>>
    BY <1>2 DEF StartRevocation, credentialVars
  <2>2. Revocation(b, FALSE) \in CallRecords /\ Revocation(b, FALSE).op = "Revoke"
    BY CallFacts DEF Revocation
  <2>3. SessionInv' /\ Opened' = Opened
    BY <1>2, <2>1, StartRevocationSteps DEF WebInv, Opened
  <2> QED BY <1>2, <2>1, <2>2, <2>3, SessionCalls
<1>3. ASSUME NEW c \in Calls, SignOut(c) PROVE WebInv'
  <2>1. /\ Free(c) /\ StartRevocation(c, FALSE) /\ exit = None /\ exit' = c
        /\ UNCHANGED <<mem, cookie, wire, flight, page, entry>>
    BY <1>3 DEF SignOut
  <2> QED BY <1>2, <2>1
<1>4. ASSUME NEW c \in Calls, CommitRevocation(c) \/ CallFails(c), UNCHANGED clientVars
      PROVE  WebInv'
  <2>1. Set(c, NoCall) /\ UNCHANGED <<unused, csrf, reuse>>
    BY <1>4 DEF CommitRevocation, CallFails, End, credentialVars
  <2>2. Opened' = Opened
    <3>1. CASE CommitRevocation(c)
      BY <3>1 DEF CommitRevocation, Opened
    <3>2. CASE CallFails(c)
      BY <3>2 DEF CallFails, Opened
    <3> QED BY <1>4, <3>1, <3>2
  <2>3. SessionInv'
    BY <1>4, LookupSteps, CommitRevocationStep DEF WebInv
  <2>4. NoCall \in CallRecords /\ NoCall.op # "Refresh"
    BY CallFacts DEF NoCall
  <2> QED BY <1>4, <2>1, <2>2, <2>3, <2>4, SessionCalls DEF clientVars
<1> QED BY <1>1, <1>2, <1>3, <1>4 DEF Elsewhere, clientVars

\* Only the holder of the cookie starts a refresh, and the cookie is then out.
LEMMA StartRefreshStep ==
  ASSUME WebInv, NEW r \in Requests, NEW c \in Calls, StartRefresh(r, c)
  PROVE  WebInv'
<1> DEFINE f == cookie.fam
           n == cookie.cred
           call == [op |-> "Refresh", fam |-> f, cred |-> n, spent |-> n \notin unused[f],
                    valid |-> Lives(f) /\ expiry[f] = "Fresh"]
<1>1. /\ mem # NoSession /\ flight = None /\ Free(c)
      /\ LookupRefresh(c, f, n, Secret)
      /\ flight' = c
      /\ page' = [page EXCEPT ![r].at = "Waiting"]
      /\ UNCHANGED <<mem, cookie, wire, entry, exit>>
  BY DEF StartRefresh, StartsOwn, MayRefresh
<1>2. Holds(f, n) /\ f \in Families /\ \A d \in Calls : wire[d].ok => wire[d].fam # f
  BY <1>1 DEF WebInv, CookieIsHeld, Holds, Opened
<1>3. SessionInv'
  BY <1>1, <1>2, LookupRefreshStep DEF WebInv
<1>4. /\ calls' = [calls EXCEPT ![c] = call]
      /\ UNCHANGED <<family, unused, csrf, reuse>>
  BY <1>1 DEF LookupRefresh, Set, credentialVars
<1>5. /\ \A d \in Calls : d # c => calls'[d] = calls[d]
      /\ calls'[c].op = "Refresh" /\ calls'[c].fam = f /\ calls'[c].cred = n
      /\ ~calls'[c].spent /\ Opened' = Opened
  BY <1>2, <1>4 DEF WebInv, SessionInv, SessionsTypeOK, Holds, Opened
<1>6. WebTypeOK'
  <2>1. page' \in [Requests -> [at : {"Rest", "Sent", "Refused", "Waiting"},
                                fam : Nat, ver : Nat, again : BOOLEAN]]
    BY <1>1 DEF WebInv, WebTypeOK
  <2> QED BY <1>1, <2>1 DEF WebInv, WebTypeOK
<1>7. Roles'
  BY <1>1, <1>5 DEF WebInv, Roles, Free, WebTypeOK
<1>8. RefreshesAreNew'
  BY <1>2, <1>4, <1>5 DEF WebInv, RefreshesAreNew, Holds
<1>9. AnswersAreHeld'
  <2>1. ASSUME NEW d \in Calls, wire[d].ok
        PROVE  /\ d \in {flight', entry'} /\ IsIdle(d)' /\ Holds(wire[d].fam, wire[d].key)'
               /\ \A e \in Calls \ {d} : wire[e].ok => wire[e].fam # wire[d].fam
    <3>1. /\ d \in {flight, entry} /\ IsIdle(d) /\ Holds(wire[d].fam, wire[d].key)
          /\ \A e \in Calls \ {d} : wire[e].ok => wire[e].fam # wire[d].fam
      BY <2>1 DEF WebInv, AnswersAreHeld
    <3>2. d # c /\ d # flight
      BY <1>1, <2>1, <3>1, CallsAreNamed DEF Free
    <3>3. Holds(wire[d].fam, wire[d].key)'
      BY <1>1, <1>2, <1>4, <1>5, <2>1, <3>1 DEF Holds
    <3> QED BY <1>1, <1>5, <3>1, <3>2, <3>3 DEF IsIdle
  <2> QED BY <1>1, <2>1 DEF AnswersAreHeld, Holds
<1>10. CookieIsHeld'
  <2>1. CASE flight' # None
    BY <2>1 DEF CookieIsHeld
  <2>2. CASE flight' = None
    BY <1>1, <2>2 DEF Free
  <2> QED BY <2>1, <2>2
<1>11. NeverReuses'
  BY <1>4 DEF WebInv, NeverReuses
<1> QED BY <1>3, <1>6, <1>7, <1>8, <1>9, <1>10, <1>11 DEF WebInv

\* Its rotation answers with the family's new credential; a reuse is never found.
LEMMA FinishRefreshStep ==
  ASSUME WebInv, NEW c \in Calls, WebFinishRefresh(c)
  PROVE  WebInv'
<1>0. PICK f : f = calls[c].fam
  OBVIOUS
<1>1. calls[c].op = "Refresh" /\ UNCHANGED <<mem, cookie, flight, entry, exit, page>>
  BY DEF WebFinishRefresh, Rotate, Rotates, DetectReuse, RefuseRefresh
<1>2. /\ f \in Opened /\ ~calls[c].spent /\ calls[c].cred \in unused[f]
      /\ \A d \in Calls \ {c} : calls[d].op = "Refresh" => calls[d].fam # f
      /\ \A d \in Calls : wire[d].ok => wire[d].fam # f /\ d # c
      /\ mem # NoSession /\ flight = None => cookie.fam # f
  BY <1>0, <1>1 DEF WebInv, SessionInv, CallsAreFounded, RefreshesAreNew, AnswersAreHeld,
              CookieIsHeld, Holds, IsIdle, NoCall
<1>3. Denied \in [fam : Nat, ver : Nat, key : Nat, ok : BOOLEAN] /\ ~Denied.ok
  BY DEF Denied, NoAnswer
<1>4. CASE RefuseRefresh(c) /\ Answer(c, Denied)
  <2>1. Set(c, NoCall) /\ UNCHANGED <<family, unused, csrf, reuse>>
    BY <1>4 DEF RefuseRefresh, End, credentialVars
  <2>2. SessionInv' /\ Opened' = Opened
    BY <1>4, <2>1, LookupSteps DEF WebInv, Opened
  <2>3. /\ Calm
        /\ \A d \in Calls : d # c => calls'[d] = calls[d]
        /\ calls'[c] = NoCall
    BY <2>1, <2>2, CallFacts, CalmCalls DEF NoCall
  <2>4. /\ wire' \in [Calls -> [fam : Nat, ver : Nat, key : Nat, ok : BOOLEAN]]
        /\ \A d \in Calls \ {c} : wire'[d] = wire[d]
        /\ ~wire'[c].ok
    BY <1>3, <1>4, AnswerSent
  <2>5. WebTypeOK'
    BY <1>1, <2>4 DEF WebInv, WebTypeOK
  <2>6. Roles'
    BY <1>1, <2>3 DEF WebInv, WebTypeOK, Roles, NoCall
  <2>7. \A d \in Calls : wire'[d].ok =>
          wire'[d] = wire[d] /\ d \in {flight', entry'} /\ calls'[d] = calls[d]
    BY <1>1, <2>3, <2>4 DEF WebInv, AnswersAreHeld
  <2>8. CookieIsHeld'
    BY <1>1, <2>3, <2>7, CalmCookie
  <2> QED BY <2>2, <2>3, <2>5, <2>6, <2>7, <2>8, CalmStep
<1>5. ~DetectReuse(c)
  BY <1>0, <1>2 DEF DetectReuse, Consumable
<1>6. ASSUME Rotate(c), Answer(c, Grant(f, version, issued[f] + 1)) PROVE WebInv'
  <2>0. PICK g, k : k = issued[f] + 1 /\ g = Grant(f, version, k)
    OBVIOUS
  <2>1. SessionInv'
    BY <1>6, RotateStep DEF WebInv
  <2>2. /\ f \in Nat /\ f \in Families /\ version \in Nat /\ issued[f] \in Nat
        /\ unused[f] = {issued[f]} /\ calls[c].cred = issued[f]
    BY <1>0, <1>2 DEF WebInv, SessionInv, SessionsTypeOK, CredentialChain, Opened, Families
  <2>3. g \in [fam : Nat, ver : Nat, key : Nat, ok : BOOLEAN]
        /\ g.fam = f /\ g.key = k /\ g.ok
    BY <2>0, <2>2 DEF Grant
  <2>4. /\ wire' \in [Calls -> [fam : Nat, ver : Nat, key : Nat, ok : BOOLEAN]]
        /\ \A d \in Calls \ {c} : wire'[d] = wire[d]
        /\ wire'[c].ok => wire'[c] = g /\ c \in {flight, entry, exit}
    BY <1>6, <2>0, <2>3, AnswerSent
  <2>5. /\ \A d \in Calls : d # c => calls'[d] = calls[d]
        /\ calls'[c] = NoCall
        /\ UNCHANGED <<family, reuse>> /\ Opened' = Opened
        /\ unused'[f] = {k}
        /\ \A h \in Families \ {f} : unused'[h] = unused[h] /\ csrf'[h] = csrf[h]
    BY <1>0, <1>6, <2>0, <2>2 DEF Rotate, KeepsStatus, End, Set, Opened, WebInv, SessionInv, SessionsTypeOK
  <2>6. WebTypeOK'
    BY <1>1, <2>4 DEF WebInv, WebTypeOK
  <2>7. Roles' /\ c \notin {entry, exit}
    BY <1>1, <2>5, CallsAreNamed DEF WebInv, WebTypeOK, Roles, NoCall
  <2>8. ASSUME NEW h, NEW n, Holds(h, n), h # f PROVE Holds(h, n)'
    BY <2>5, <2>8 DEF Holds, NoCall, Opened
  <2>9. Holds(f, k)'
    <3>1. f \in Opened' /\ k \in unused'[f]
      BY <1>2, <2>5
    <3>2. \A d \in Calls : calls'[d].op = "Refresh" => calls'[d].fam # f
      BY <1>2, <2>5 DEF NoCall
    <3> QED BY <3>1, <3>2 DEF Holds
  <2>10. RefreshesAreNew'
    <3>1. ASSUME NEW d \in Calls, calls'[d].op = "Refresh"
          PROVE  /\ d # c /\ calls'[d] = calls[d] /\ calls[d].fam \in Families \ {f}
                 /\ ~calls[d].spent /\ calls[d].cred \in unused[calls[d].fam]
                 /\ \A e \in Calls \ {d} : calls[e].op = "Refresh" => calls[e].fam # calls[d].fam
      BY <1>2, <2>5, <3>1 DEF WebInv, RefreshesAreNew, SessionInv, CallsAreFounded, Opened, NoCall
    <3> QED BY <2>5, <3>1 DEF RefreshesAreNew
  <2>11. AnswersAreHeld'
    <3>1. ASSUME NEW d \in Calls, wire'[d].ok
          PROVE  /\ d \in {flight', entry'} /\ IsIdle(d)'
                 /\ Holds(wire[d].fam, wire[d].key)'
                 /\ \A e \in Calls \ {d} : wire'[e].ok => wire'[e].fam # wire'[d].fam
      <4>1. CASE d = c
        <5>1. wire'[d] = g /\ d = flight
          BY <2>4, <2>7, <3>1, <4>1
        <5>3. Holds(wire[d].fam, wire[d].key)'
          BY <2>3, <2>9, <5>1 DEF Holds
        <5>4. \A e \in Calls \ {d} : wire'[e].ok => wire'[e].fam # wire'[d].fam
          BY <1>2, <2>3, <2>4, <4>1, <5>1
        <5> QED BY <1>1, <2>5, <4>1, <5>1, <5>3, <5>4 DEF IsIdle
      <4>2. CASE d # c
        <5>1. wire'[d] = wire[d] /\ wire[d].ok /\ calls'[d] = calls[d] /\ wire[d].fam # f
          BY <1>2, <2>4, <2>5, <3>1, <4>2
        <5>2. /\ d \in {flight, entry} /\ IsIdle(d) /\ Holds(wire[d].fam, wire[d].key)
              /\ \A e \in Calls \ {d} : wire[e].ok => wire[e].fam # wire[d].fam
          BY <5>1 DEF WebInv, AnswersAreHeld
        <5>3. Holds(wire[d].fam, wire[d].key)'
          BY <2>8, <5>1, <5>2 DEF Holds
        <5>4. \A e \in Calls \ {d} : wire'[e].ok => wire'[e].fam # wire'[d].fam
          <6>1. wire'[c].ok => wire'[c].fam = f
            BY <2>3, <2>4
          <6> QED BY <2>4, <5>1, <5>2, <6>1
        <5> QED BY <1>1, <5>1, <5>2, <5>3, <5>4 DEF IsIdle
      <4> QED BY <4>1, <4>2
    <3> QED BY <3>1 DEF AnswersAreHeld
  <2>12. CookieIsHeld'
    <3>1. ASSUME mem # NoSession, flight = None
          PROVE  /\ Holds(cookie.fam, cookie.cred)'
                 /\ mem.fam \in Opened'
                 /\ cookie.fam = mem.fam => mem.key = csrf'[mem.fam]
                 /\ \A d \in Calls : wire'[d].ok => wire'[d].fam \notin {cookie.fam, mem.fam}
      <4>1. /\ Holds(cookie.fam, cookie.cred) /\ mem.fam \in Opened
            /\ cookie.fam = mem.fam => mem.key = csrf[mem.fam]
            /\ \A d \in Calls : wire[d].ok => wire[d].fam \notin {cookie.fam, mem.fam}
        BY <3>1 DEF WebInv, CookieIsHeld
      <4>2. cookie.fam # f /\ cookie.fam \in Families
        BY <1>2, <3>1, <4>1 DEF Holds, Opened
      <4>3. ~wire'[c].ok
        BY <2>4, <2>7, <3>1, CallsAreNamed
      <4>4. Holds(cookie.fam, cookie.cred)'
        BY <1>1, <2>8, <4>1, <4>2 DEF Holds
      <4>5. cookie.fam = mem.fam => csrf'[mem.fam] = csrf[mem.fam]
        BY <2>5, <4>2
      <4> QED BY <2>4, <2>5, <4>1, <4>3, <4>4, <4>5
    <3> QED BY <1>1, <3>1 DEF CookieIsHeld, Holds
  <2>13. NeverReuses'
    BY <2>5 DEF WebInv, NeverReuses
  <2> QED BY <2>1, <2>6, <2>7, <2>10, <2>11, <2>12, <2>13 DEF WebInv
<1> QED BY <1>0, <1>4, <1>5, <1>6 DEF WebFinishRefresh

\* A login opens a family that nobody has a credential of.
LEMMA WebCreateStep ==
  ASSUME WebInv, NEW c \in Calls, NEW f \in Families, WebCreateSession(c, f)
  PROVE  WebInv'
<1>0. PICK g : g = Grant(f, calls[c].saw, 1)
  OBVIOUS
<1>1. /\ calls[c].op = "Login" /\ family[f] = "None" /\ Answer(c, g)
      /\ UNCHANGED <<mem, cookie, flight, entry, exit, page>>
  BY <1>0 DEF WebCreateSession, CreateSession
<1>2. SessionInv'
  BY CreateSessionStep DEF WebCreateSession, WebInv
<1>3. calls[c].saw \in Nat /\ f \in Nat /\ f \notin Opened
  <2>1. calls[c] \in CallRecords
    BY DEF WebInv, SessionInv, SessionsTypeOK
  <2> QED BY <1>1, <2>1 DEF CallRecords, NoCall, Families, Opened
<1>4. g \in [fam : Nat, ver : Nat, key : Nat, ok : BOOLEAN] /\ g.fam = f /\ g.key = 1 /\ g.ok
  BY <1>0, <1>3 DEF Grant
<1>5. /\ wire' \in [Calls -> [fam : Nat, ver : Nat, key : Nat, ok : BOOLEAN]]
      /\ \A d \in Calls \ {c} : wire'[d] = wire[d]
      /\ wire'[c].ok => wire'[c] = g /\ c \in {flight, entry, exit}
  BY <1>1, <1>4, AnswerSent
<1>6. /\ \A d \in Calls : d # c => calls'[d] = calls[d]
      /\ calls'[c] = NoCall
      /\ UNCHANGED reuse /\ Opened' = Opened \cup {f}
      /\ unused'[f] = {1}
      /\ \A h \in Families \ {f} : unused'[h] = unused[h] /\ csrf'[h] = csrf[h]
  BY DEF WebCreateSession, CreateSession, End, Set, Opened, WebInv, SessionInv, SessionsTypeOK
<1>7. WebTypeOK'
  BY <1>1, <1>5 DEF WebInv, WebTypeOK
<1>8. Roles' /\ c \notin {flight, exit}
  BY <1>1, <1>6, CallsAreNamed DEF WebInv, WebTypeOK, Roles, NoCall
<1>9. ASSUME NEW h, NEW n, Holds(h, n) PROVE Holds(h, n)' /\ h # f
  <2>1. h \in Opened /\ h \in Families /\ h # f
    BY <1>3, <1>9 DEF Holds, Opened
  <2>2. h \in Opened' /\ n \in unused'[h]
    BY <1>6, <1>9, <2>1 DEF Holds
  <2>3. \A d \in Calls : calls'[d].op = "Refresh" => calls'[d].fam # h
    BY <1>6, <1>9 DEF Holds, NoCall
  <2> QED BY <2>1, <2>2, <2>3 DEF Holds
<1>10. \A d \in Calls : calls[d].op = "Refresh" => calls[d].fam \in Families \ {f}
  BY <1>3 DEF WebInv, SessionInv, CallsAreFounded, Opened
<1>11. Holds(f, 1)'
  <2>1. f \in Opened' /\ 1 \in unused'[f]
    BY <1>6
  <2>2. \A d \in Calls : calls'[d].op = "Refresh" => calls'[d].fam # f
    BY <1>6, <1>10 DEF NoCall
  <2> QED BY <2>1, <2>2 DEF Holds
<1>12. RefreshesAreNew'
  <2>1. ASSUME NEW d \in Calls, calls'[d].op = "Refresh"
        PROVE  /\ d # c /\ calls'[d] = calls[d] /\ calls[d].fam \in Families \ {f}
               /\ ~calls[d].spent /\ calls[d].cred \in unused[calls[d].fam]
               /\ \A e \in Calls \ {d} : calls[e].op = "Refresh" => calls[e].fam # calls[d].fam
    <3>1. d # c /\ calls'[d] = calls[d]
      BY <1>6, <2>1 DEF NoCall
    <3> QED BY <1>10, <2>1, <3>1 DEF WebInv, RefreshesAreNew
  <2> QED BY <1>6, <2>1 DEF RefreshesAreNew, NoCall
<1>13. ASSUME NEW d \in Calls, wire'[d].ok
       PROVE  /\ d \in {flight', entry'} /\ IsIdle(d)'
              /\ Holds(wire[d].fam, wire[d].key)'
              /\ \A e \in Calls \ {d} : wire'[e].ok => wire'[e].fam # wire'[d].fam
  <2>0. \A e \in Calls : wire[e].ok => wire[e].fam # f
    BY <1>9 DEF WebInv, AnswersAreHeld
  <2>1. CASE d = c
    <3>1. wire'[d] = g /\ d = entry
      BY <1>5, <1>8, <1>13, <2>1
    <3>2. Holds(wire[d].fam, wire[d].key)'
      BY <1>4, <1>11, <3>1 DEF Holds
    <3>3. \A e \in Calls \ {d} : wire'[e].ok => wire'[e].fam # wire'[d].fam
      BY <1>4, <1>5, <2>0, <2>1, <3>1
    <3> QED BY <1>1, <1>6, <2>1, <3>1, <3>2, <3>3 DEF IsIdle
  <2>2. CASE d # c
    <3>1. wire'[d] = wire[d] /\ wire[d].ok /\ calls'[d] = calls[d]
      BY <1>5, <1>6, <1>13, <2>2
    <3>2. /\ d \in {flight, entry} /\ IsIdle(d) /\ Holds(wire[d].fam, wire[d].key)
          /\ \A e \in Calls \ {d} : wire[e].ok => wire[e].fam # wire[d].fam
      BY <3>1 DEF WebInv, AnswersAreHeld
    <3>3. Holds(wire[d].fam, wire[d].key)'
      BY <1>9, <3>1, <3>2 DEF Holds
    <3>4. \A e \in Calls \ {d} : wire'[e].ok => wire'[e].fam # wire'[d].fam
      BY <1>4, <1>5, <2>0, <3>1, <3>2
    <3> QED BY <1>1, <3>1, <3>2, <3>3, <3>4 DEF IsIdle
  <2> QED BY <2>1, <2>2
<1>14. AnswersAreHeld'
  BY <1>13 DEF AnswersAreHeld
<1>15. CookieIsHeld'
  <2>1. ASSUME mem # NoSession, flight = None
        PROVE  /\ Holds(cookie.fam, cookie.cred)'
               /\ mem.fam \in Opened'
               /\ cookie.fam = mem.fam => mem.key = csrf'[mem.fam]
               /\ \A d \in Calls : wire'[d].ok => wire'[d].fam \notin {cookie.fam, mem.fam}
    <3>1. /\ Holds(cookie.fam, cookie.cred) /\ mem.fam \in Opened
          /\ cookie.fam = mem.fam => mem.key = csrf[mem.fam]
          /\ \A d \in Calls : wire[d].ok => wire[d].fam \notin {cookie.fam, mem.fam}
      BY <2>1 DEF WebInv, CookieIsHeld
    <3>2. mem.fam # f /\ mem.fam \in Families /\ cookie.fam # f
      BY <1>3, <1>9, <3>1 DEF Opened
    <3>3. Holds(cookie.fam, cookie.cred)'
      BY <1>1, <1>9, <3>1 DEF Holds
    <3> QED BY <1>4, <1>5, <1>6, <3>1, <3>2, <3>3
  <2> QED BY <1>1, <2>1 DEF CookieIsHeld, Holds
<1>16. NeverReuses'
  BY <1>6 DEF WebInv, NeverReuses
<1> QED BY <1>2, <1>7, <1>8, <1>12, <1>14, <1>15, <1>16 DEF WebInv

LEMMA WebStep == WebInv /\ [WebNext]_webVars => WebInv'
<1> SUFFICES ASSUME WebInv, [WebNext]_webVars PROVE WebInv'
  OBVIOUS
<1>1. CASE UNCHANGED webVars
  <2>1. UNCHANGED sessionsVars /\ UNCHANGED clientVars
    BY <1>1 DEF webVars
  <2>2. SessionInv' /\ Calm
    BY <2>1, SessionStep, AtRestIsCalm DEF WebInv
  <2>3. WebTypeOK' /\ Roles'
    BY <2>1 DEF WebInv, WebTypeOK, Roles, clientVars, sessionsVars
  <2>4. CookieIsHeld'
    BY <2>1, <2>2, CalmCookie DEF clientVars
  <2> QED BY <2>1, <2>2, <2>3, <2>4, CalmStep DEF WebInv, AnswersAreHeld, clientVars, sessionsVars
<1>2. ASSUME NEW r \in Requests, NEW c \in Calls, StartRefresh(r, c) PROVE WebInv'
  BY <1>2, StartRefreshStep
<1>3. ASSUME NEW c \in Calls, WebFinishRefresh(c) \/ \E f \in Families : WebCreateSession(c, f)
      PROVE  WebInv'
  BY <1>3, FinishRefreshStep, WebCreateStep
<1> QED BY <1>1, <1>2, <1>3, PageSteps, ArrivalSteps, TabCallSteps DEF WebNext

\* The inductive invariant of a tab in front of the API.
THEOREM WebInductive == WebSpec => []WebInv
BY WebInitInv, WebStep, PTL DEF WebSpec

\* With any number of requests, calls, families and credentials, however
\* answers are lost, logins and sign-outs interleave and revocations come from
\* elsewhere: one tab (VinopsApiClient.refresh) is never taken for a thief.
THEOREM WebNeverReuses == WebSpec => []NeverReuses
<1>1. WebInv => NeverReuses
  BY DEF WebInv
<1> QED BY <1>1, WebInductive, PTL

LEMMA HeldIsCurrent == WebInv => BrowserIsCurrent
<1>1. ASSUME WebInv, mem # NoSession, flight = None, cookie.fam = mem.fam
      PROVE  cookie.cred \in unused[mem.fam] /\ mem.key = csrf[mem.fam]
  BY <1>1 DEF WebInv, CookieIsHeld, Holds
<1> QED BY <1>1 DEF BrowserIsCurrent

\* Between refreshes, cookie and memory of a tab fit the API's tables.
THEOREM WebBrowserIsCurrent == WebSpec => []BrowserIsCurrent
BY WebInductive, HeldIsCurrent, PTL

-----------------------------------------------------------------------------
(* A tab uses the API as anybody may: the tab's specification implements    *)
(* that of the sessions, so what holds of any client holds behind a tab.    *)

\* Credentials are issued one at a time, up to the bound.
CredentialsBounded == \A f \in Opened : issued[f] \in 1..MaxCredentials

LEMMA BoundedStart == SessionsInit => CredentialsBounded
BY DEF SessionsInit, CredentialsBounded, Opened

LEMMA BoundedStep ==
  SessionInv /\ CredentialsBounded /\ [SessionsNext]_sessionsVars => CredentialsBounded'
<1> SUFFICES ASSUME SessionInv, CredentialsBounded, [SessionsNext]_sessionsVars
             PROVE  CredentialsBounded'
  OBVIOUS
<1>1. MaxCredentials \in Nat \ {0} /\ \A f \in Families : issued[f] \in Nat
  BY SessionBounds DEF SessionInv, SessionsTypeOK
<1>2. CASE UNCHANGED sessionsVars
  BY <1>2 DEF sessionsVars, CredentialsBounded, Opened
<1>3. ASSUME NEW c \in Calls, NEW g \in Families, CreateSession(c, g)
      PROVE  CredentialsBounded'
  BY <1>1, <1>3 DEF CreateSession, CredentialsBounded, Opened, SessionInv, SessionsTypeOK
<1>4. ASSUME NEW c \in Calls, Rotate(c) PROVE CredentialsBounded'
  <2>1. /\ issued' = [issued EXCEPT ![calls[c].fam] = @ + 1] /\ family' = family
        /\ issued[calls[c].fam] < MaxCredentials
    BY <1>4 DEF Rotate, Rotates, KeepsStatus
  <2> QED BY <1>1, <2>1 DEF CredentialsBounded, Opened, SessionInv, SessionsTypeOK
<1>5. ASSUME NEW c \in Calls,
             \/ LookupLogin(c) \/ Administer(c) \/ DetectReuse(c) \/ RefuseRefresh(c)
             \/ \E g \in Families, n, k \in 1..MaxCredentials : LookupRefresh(c, g, n, k)
      PROVE  issued' = issued /\ Opened' \subseteq Opened
  <2>1. issued' = issued
    BY <1>5 DEF LookupLogin, Administer, DetectReuse, RefuseRefresh, LookupRefresh,
       StartRevocation, CommitRevocation, LookupReset, ConfirmPasswordReset, CallFails, credentialVars
  <2>2. CASE DetectReuse(c)
    <3>1. calls[c].fam \in Opened
      BY <2>2 DEF DetectReuse, SessionInv, CallsAreFounded
    <3> QED BY <2>1, <2>2, <3>1 DEF DetectReuse, Opened, SessionInv, SessionsTypeOK
  <2>3. CASE CommitRevocation(c)
    BY <2>1, <2>3 DEF CommitRevocation, Opened, SessionInv, SessionsTypeOK
  <2>4. CASE ~DetectReuse(c) /\ ~CommitRevocation(c)
    <3>1. family' = family
      BY <1>5, <2>4 DEF LookupLogin, Administer, RefuseRefresh, LookupRefresh,
         StartRevocation, LookupReset, ConfirmPasswordReset, CallFails
    <3> QED BY <2>1, <3>1 DEF Opened
  <2> QED BY <2>2, <2>3, <2>4
<1>6. ASSUME NEW g \in Families,
             RevokeSession(g) \/ \E kind \in {"Idle", "Absolute"} : ExpiryPasses(g, kind)
      PROVE  CredentialsBounded'
  BY <1>6 DEF RevokeSession, ExpiryPasses, credentialVars, CredentialsBounded, Opened
<1>7. CASE RequestPasswordReset
  BY <1>7 DEF RequestPasswordReset, credentialVars, CredentialsBounded, Opened
<1> QED BY <1>2, <1>3, <1>4, <1>5, <1>6, <1>7 DEF SessionsNext, FinishRefresh, CredentialsBounded

\* The lookup of a tab's refresh is one that SessionsNext offers: the credential
\* of its cookie was issued, and so was the one its CSRF token came with.
LEMMA TabLooksUp ==
  ASSUME WebInv, CredentialsBounded, NEW r \in Requests, NEW c \in Calls, StartRefresh(r, c)
  PROVE  SessionsNext
<1> DEFINE f == cookie.fam
           n == cookie.cred
<1>1. LookupRefresh(c, f, n, Secret) /\ Holds(f, n)
  BY DEF StartRefresh, StartsOwn, MayRefresh, WebInv, CookieIsHeld
<1>2. f \in Opened /\ f \in Families /\ n \in unused[f]
  BY <1>1 DEF Holds, Opened
<1>3. Secret = csrf[f] /\ n = issued[f] /\ csrf[f] = issued[f]
  BY <1>1, <1>2 DEF LookupRefresh, RefreshPasses, WebInv, SessionInv, CredentialChain
<1>4. n \in 1..MaxCredentials /\ Secret \in 1..MaxCredentials
  BY <1>2, <1>3 DEF CredentialsBounded
<1> QED BY <1>1, <1>2, <1>4 DEF SessionsNext

LEMMA TabIsAClient ==
  WebInv /\ CredentialsBounded /\ [WebNext]_webVars => [SessionsNext]_sessionsVars
<1> SUFFICES ASSUME WebInv, CredentialsBounded, [WebNext]_webVars
             PROVE  [SessionsNext]_sessionsVars
  OBVIOUS
<1>1. CASE UNCHANGED webVars
  BY <1>1 DEF webVars
<1>2. ASSUME NEW r \in Requests, \/ SendRequest(r) \/ Authenticate(r) \/ GiveUp(r)
                                 \/ JoinRefresh(r) \/ RefreshMismatch(r)
      PROVE  UNCHANGED sessionsVars
  BY <1>2 DEF SendRequest, Authenticate, GiveUp, JoinRefresh, RefreshMismatch
<1>3. ASSUME NEW r \in Requests, NEW c \in Calls, StartRefresh(r, c) PROVE SessionsNext
  BY <1>3, TabLooksUp
<1>4. ASSUME NEW c \in Calls,
             WebFinishRefresh(c) \/ Login(c) \/ SignOut(c)
             \/ \E f \in Families : WebCreateSession(c, f)
      PROVE  SessionsNext
  BY <1>4 DEF WebFinishRefresh, Login, SignOut, WebCreateSession, SessionsNext, FinishRefresh,
     Administer
<1>5. CASE RefreshAnswered \/ RefreshFails \/ LoginAnswered \/ LoginFails \/ SignOutRefused \/ SignedOut
  BY <1>5 DEF RefreshAnswered, RefreshFails, LoginAnswered, LoginFails, SignOutRefused, SignedOut
<1>6. CASE Elsewhere
  BY <1>6 DEF Elsewhere, SessionsNext, Administer
<1> QED BY <1>1, <1>2, <1>3, <1>4, <1>5, <1>6 DEF WebNext

\* Behind a tab the sessions do only what they may do for any client
\* (VinopsApiClient in front of AuthService).
THEOREM WebImplementsSessions == WebSpec => SessionsSpec
<1>1. WebInit => SessionsInit /\ CredentialsBounded
  BY BoundedStart DEF WebInit
<1>2. WebInv /\ CredentialsBounded /\ [WebNext]_webVars => CredentialsBounded'
  BY TabIsAClient, BoundedStep DEF WebInv
<1> QED BY <1>1, <1>2, WebInductive, TabIsAClient, PTL DEF WebSpec, SessionsSpec
=============================================================================
