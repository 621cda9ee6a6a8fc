-------------------------------- MODULE Sessions --------------------------------
(***************************************************************************)
(* Sessions of one user: login, refresh with rotating credentials,         *)
(* revocation and password reset, as the API's handlers interleave over    *)
(* the tables of migration 001.  A family has one session; its credentials *)
(* are numbered in the order of issue.  A handler is a call: it looks a    *)
(* row up without a lock, and its transaction runs later.                  *)
(*                                                                         *)
(* A rotation is one step: it locks the credential, then the family, and   *)
(* only then reads the user, while every revocation locks the families     *)
(* last, so none can commit between that read and the rotation's commit.   *)
(* A revocation is two, because its two statements have a snapshot each    *)
(* and a login may commit between them.                                    *)
(***************************************************************************)
EXTENDS Naturals, FiniteSets

CONSTANTS Calls,            \* handlers that may be under way at once
          MaxFamilies,      \* bound: logins
          MaxCredentials,   \* bound: credentials of two families
          MaxVersion        \* bound: changes of the user's versions

ASSUME SessionBounds == /\ MaxFamilies \in Nat
                        /\ MaxCredentials \in Nat \ {0}
                        /\ MaxVersion \in Nat

VARIABLES version,  \* users.auth_version and authorization_version, compared together
          sess, family,  \* status of auth_sessions and refresh_token_families
          expiry,   \* which of the family's two expiries has passed
          issued,   \* credentials issued to the family
          unused,   \* those with consumed_at IS NULL
          csrf,     \* the credential that csrf_secret_hash was written with
          reuse,    \* reuse_detected_at IS NOT NULL
          reset,    \* the password reset credential
          calls,
          ended     \* families a committed revocation has found

sessionsVars == <<version, sess, family, expiry, issued, unused, csrf, reuse,
                  reset, calls, ended>>

Families == 1..MaxFamilies
Opened == {f \in Families : family[f] # "None"}
Lives(f) == sess[f] = "Active" /\ family[f] = "Active"

\* authenticate: an access token names its session and the user's version.
Accepts(f, v) == Lives(f) /\ expiry[f] = "Fresh" /\ v = version

NoCall == [op |-> "Idle"]
IsIdle(c) == calls[c] = NoCall
Set(c, call) == calls' = [calls EXCEPT ![c] = call]
End(c) == Set(c, NoCall)

SessionsInit ==
    /\ version = 0
    /\ sess = [f \in Families |-> "None"] /\ family = sess
    /\ expiry = [f \in Families |-> "Fresh"]
    /\ issued = [f \in Families |-> 0] /\ csrf = issued
    /\ unused = [f \in Families |-> {}]
    /\ reuse = [f \in Families |-> FALSE]
    /\ reset = "None"
    /\ calls = [c \in Calls |-> NoCall]
    /\ ended = {}

credentialVars == <<expiry, issued, unused, csrf>>

-----------------------------------------------------------------------------
\* login reads the user row and checks the password outside any transaction.
LookupLogin(c) ==
    /\ IsIdle(c)
    /\ Set(c, [op |-> "Login", saw |-> version])
    /\ UNCHANGED <<version, sess, family, credentialVars, reuse, reset, ended>>

\* The new family, its session and first credential.  The versions it stores
\* are those of the lookup; only the access token's are ever compared.
CreateSession(c, f) ==
    /\ calls[c].op = "Login"
    /\ family[f] = "None" /\ f - 1 \in Opened \cup {0}
    /\ sess' = [sess EXCEPT ![f] = "Active"]
    /\ family' = [family EXCEPT ![f] = "Active"]
    /\ issued' = [issued EXCEPT ![f] = 1]
    /\ unused' = [unused EXCEPT ![f] = {1}]
    /\ csrf' = [csrf EXCEPT ![f] = 1]
    /\ End(c)
    /\ UNCHANGED <<version, expiry, reuse, reset, ended>>

-----------------------------------------------------------------------------
\* refresh looks the credential up and keeps what it saw.  A consumed one is
\* let through whatever the CSRF token k, so that its reuse is recorded.
RefreshPasses(f, n, k) == n \in unused[f] => k = csrf[f]

LookupRefresh(c, f, n, k) ==
    /\ IsIdle(c)
    /\ n \in 1..issued[f]
    /\ RefreshPasses(f, n, k)
    /\ Set(c, [op |-> "Refresh", fam |-> f, cred |-> n, spent |-> n \notin unused[f],
               valid |-> Lives(f) /\ expiry[f] = "Fresh"])
    /\ UNCHANGED <<version, sess, family, credentialVars, reuse, reset, ended>>

\* Rows a revocation under way has updated stay locked until it commits.
Locked(f) == \E c \in Calls : calls[c].op = "Revoke" /\ f \in calls[c].rows

Rotates(c) ==
    /\ calls[c].op = "Refresh" /\ calls[c].valid /\ ~calls[c].spent
    /\ ~Locked(calls[c].fam)
    /\ issued[calls[c].fam] < MaxCredentials
    /\ \A f \in Families \ {calls[c].fam} : issued[calls[c].fam] + issued[f] < MaxCredentials

\* UPDATE ... SET consumed_at WHERE consumed_at IS NULL: one of two wins.
Consumable_Twice(f, n) == TRUE
Consumable(f, n) == n \in unused[f]

\* rotateRefreshCredential, when the UPDATE consumes the credential.  The
\* status is not read again: only what the lookup saw counts.
KeepsStatus_Reopens(f) == /\ family' = [family EXCEPT ![f] = "Active"]
                          /\ sess' = [sess EXCEPT ![f] = "Active"]
KeepsStatus(f) == UNCHANGED <<sess, family>>

Rotate(c) ==
    LET f == calls[c].fam IN
    /\ Rotates(c)
    /\ Consumable(f, calls[c].cred)
    /\ issued' = [issued EXCEPT ![f] = @ + 1]
    /\ unused' = [unused EXCEPT ![f] = (@ \ {calls[c].cred}) \cup {issued[f] + 1}]
    /\ csrf' = [csrf EXCEPT ![f] = issued[f] + 1]
    /\ expiry' = [expiry EXCEPT ![f] = IF @ = "Idle" THEN "Fresh" ELSE @]
    /\ KeepsStatus(f)
    /\ End(c)
    /\ UNCHANGED <<version, reuse, reset, ended>>

\* The credential was consumed, at the lookup or since: the family ends.
DetectReuse(c) ==
    LET f == calls[c].fam IN
    /\ calls[c].op = "Refresh"
    /\ calls[c].spent \/ (calls[c].valid /\ ~Consumable(f, calls[c].cred))
    /\ ~Locked(f)
    /\ reuse' = [reuse EXCEPT ![f] = @ \/ family[f] = "Active"]
    /\ family' = [family EXCEPT ![f] = "Revoked"]
    /\ sess' = [sess EXCEPT ![f] = "Revoked"]
    /\ ended' = ended \cup {f}
    /\ End(c)
    /\ UNCHANGED <<version, credentialVars, reset>>

\* Revoked or expired at the lookup, and not consumed: nothing is written.
RefuseRefresh(c) ==
    /\ calls[c].op = "Refresh" /\ ~calls[c].valid /\ ~calls[c].spent
    /\ End(c)
    /\ UNCHANGED <<version, sess, family, credentialVars, reuse, reset, ended>>

-----------------------------------------------------------------------------
\* The first statements of a revocation: the sessions that are Active now.
Revocation(bumps, resets) ==
    [op |-> "Revoke", rows |-> {f \in Families : sess[f] = "Active"},
     bumps |-> bumps, resets |-> resets]

\* revokeAllSessions, or with bumps the SQL function behind a suspension.
StartRevocation(c, bumps) ==
    /\ IsIdle(c)
    /\ bumps => version < MaxVersion
    /\ Set(c, Revocation(bumps, FALSE))
    /\ UNCHANGED <<version, sess, family, credentialVars, reuse, reset, ended>>

\* The families, with their own snapshot, and the commit of all of it.
CommitRevocation(c) ==
    LET rows == calls[c].rows
        open == {f \in Families : family[f] = "Active"} IN
    /\ calls[c].op = "Revoke"
    /\ version' = IF calls[c].bumps THEN version + 1 ELSE version
    /\ sess' = [f \in Families |-> IF f \in rows THEN "Revoked" ELSE sess[f]]
    /\ family' = [f \in Families |-> IF f \in open THEN "Revoked" ELSE family[f]]
    /\ reset' = IF calls[c].resets THEN "Used" ELSE reset
    /\ ended' = ended \cup rows \cup open
    /\ End(c)
    /\ UNCHANGED <<credentialVars, reuse>>

\* revokeSession: the session alone; its family stays Active.
RevokeSession(f) ==
    /\ sess[f] = "Active" /\ ~Locked(f)
    /\ sess' = [sess EXCEPT ![f] = "Revoked"]
    /\ ended' = ended \cup {f}
    /\ UNCHANGED <<version, family, credentialVars, reuse, reset, calls>>

\* Bound: one reset credential, which nobody confirms once it has expired.
RequestPasswordReset ==
    /\ reset = "None" /\ version < MaxVersion
    /\ reset' = "Open"
    /\ UNCHANGED <<version, sess, family, credentialVars, reuse, calls, ended>>

LookupReset(c) ==
    /\ IsIdle(c) /\ reset = "Open"
    /\ Set(c, [op |-> "Reset"])
    /\ UNCHANGED <<version, sess, family, credentialVars, reuse, reset, ended>>

\* The reset credential is consumed under its row lock; the loser is refused.
Resetting == \E c \in Calls : calls[c].op = "Revoke" /\ calls[c].resets

ConfirmPasswordReset(c) ==
    /\ calls[c].op = "Reset" /\ ~Resetting
    /\ IF reset = "Open" THEN Set(c, Revocation(TRUE, TRUE)) ELSE End(c)
    /\ UNCHANGED <<version, sess, family, credentialVars, reuse, reset, ended>>

-----------------------------------------------------------------------------
\* A deadlock (rotation and revocation lock in opposite orders) or a lost
\* connection rolls the transaction back.
CallFails(c) ==
    /\ ~IsIdle(c)
    /\ End(c)
    /\ UNCHANGED <<version, sess, family, credentialVars, reuse, reset, ended>>

\* What has ended may expire too: nothing tells the difference.
ExpiryPasses(f, kind) ==
    /\ Lives(f)
    /\ expiry[f] = "Fresh" \/ (expiry[f] = "Idle" /\ kind = "Absolute")
    /\ expiry' = [expiry EXCEPT ![f] = kind]
    /\ UNCHANGED <<version, sess, family, issued, unused, csrf, reuse, reset, calls, ended>>

FinishRefresh(c) == Rotate(c) \/ DetectReuse(c) \/ RefuseRefresh(c)

Administer(c) ==
    \/ \E bumps \in BOOLEAN : StartRevocation(c, bumps)
    \/ CommitRevocation(c)
    \/ LookupReset(c)
    \/ ConfirmPasswordReset(c)
    \/ CallFails(c)

SessionsNext ==
    \/ \E c \in Calls :
        \/ LookupLogin(c)
        \/ \E f \in Families : CreateSession(c, f)
        \/ \E f \in Families, n, k \in 1..MaxCredentials : LookupRefresh(c, f, n, k)
        \/ FinishRefresh(c)
        \/ Administer(c)
    \/ \E f \in Families :
        \/ RevokeSession(f)
        \/ \E kind \in {"Idle", "Absolute"} : ExpiryPasses(f, kind)
    \/ RequestPasswordReset

SessionsSpec == SessionsInit /\ [][SessionsNext]_sessionsVars

-----------------------------------------------------------------------------
Statuses == {"None", "Active", "Revoked"}
CallRecords ==
    {NoCall} \cup [op : {"Login"}, saw : Nat] \cup [op : {"Reset"}]
    \cup [op : {"Refresh"}, fam : Families, cred : Nat, spent : BOOLEAN, valid : BOOLEAN]
    \cup [op : {"Revoke"}, rows : SUBSET Families, bumps : BOOLEAN, resets : BOOLEAN]

\* The types of the tables' columns and of the calls under way.
SessionsTypeOK ==
    /\ version \in Nat
    /\ sess \in [Families -> Statuses] /\ family \in [Families -> Statuses]
    /\ expiry \in [Families -> {"Fresh", "Idle", "Absolute"}]
    /\ issued \in [Families -> Nat] /\ csrf \in [Families -> Nat]
    /\ unused \in [Families -> SUBSET Nat]
    /\ reuse \in [Families -> BOOLEAN]
    /\ reset \in {"None", "Open", "Used"}
    /\ calls \in [Calls -> CallRecords]
    /\ ended \subseteq Families

\* A family's credentials form one chain (rotateRefreshCredential): only the
\* newest is unused, and the session stores the CSRF secret of the same answer,
\* however refreshes with the same or with older credentials overlap.
CredentialChain == \A f \in Opened : unused[f] = {issued[f]} /\ csrf[f] = issued[f]

\* A revocation is lasting: a family that a committed revocation has found
\* (logout, suspension, reset, reuse) never serves a token again, though a
\* refresh that looked it up before is still to rotate its credential, and
\* though a login may commit between the revocation's two statements.
RevocationLasts == \A f \in ended : ~Lives(f)

\* Nothing comes back: a family that has ended, by itself or with its session,
\* never serves again, and a consumed credential is never usable again, though
\* rotations commit on what their lookup saw (rotateRefreshCredential).
NothingComesBack ==
    [][\A f \in Opened :
          /\ ~Lives(f) => ~Lives(f)'
          /\ \A n \in 1..issued[f] : n \notin unused[f] => n \notin unused'[f]]_sessionsVars
=================================================================================
