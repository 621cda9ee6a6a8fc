------------------------------- MODULE WebSession -------------------------------
(***************************************************************************)
(* One browser tab in front of Sessions: the API client of the web         *)
(* application, which keeps the access token and the CSRF token in memory  *)
(* and leaves the refresh credential in a cookie.  Any number of requests  *)
(* may be refused at once; they share one refresh (refreshInFlight) and    *)
(* are sent again once.  Answers can be lost, a refused request can be     *)
(* older than the session in memory, and the user may sign in or out, or   *)
(* be revoked from elsewhere, in the middle.                               *)
(***************************************************************************)
EXTENDS Sessions

CONSTANT Requests  \* protected requests of the page

VARIABLES mem,     \* VinopsApiClient.session, or NoSession
          cookie,  \* vinops_refresh: a family and a credential of it
          wire,    \* the answer that a finished call is sending back
          flight,  \* the call behind refreshInFlight, or None
          entry,   \* the call behind a login, or None
          exit,    \* the call behind a sign-out, or None
          page     \* where each request is

clientVars == <<mem, cookie, wire, flight, entry, exit, page>>
webVars == <<sessionsVars, clientVars>>

None == "None"
ASSUME CallsAreNamed == None \notin Calls

NoSession == [fam |-> 0, ver |-> 0, key |-> 0]
NoAnswer == [fam |-> 0, ver |-> 0, key |-> 0, ok |-> FALSE]
Denied == [NoAnswer EXCEPT !.fam = 1]

\* sessionOutput: a token of the given version, a credential, its CSRF secret.
Grant(f, v, n) == [fam |-> f, ver |-> v, key |-> n, ok |-> TRUE]
SessionOf(a) == [fam |-> a.fam, ver |-> a.ver, key |-> a.key]
CookieOf(a) == [fam |-> a.fam, cred |-> a.key]
NoCookie == [fam |-> 0, cred |-> 0]

Rest == [at |-> "Rest", fam |-> 0, ver |-> 0, again |-> FALSE]

WebInit ==
    /\ SessionsInit
    /\ mem = NoSession /\ cookie = NoCookie
    /\ wire = [c \in Calls |-> NoAnswer]
    /\ flight = None /\ entry = None /\ exit = None
    /\ page = [r \in Requests |-> Rest]

Answer(c, a) == wire' = [wire EXCEPT ![c] = IF c \in {flight, entry, exit} THEN a ELSE NoAnswer]
Free(c) == IsIdle(c) /\ c \notin {flight, entry, exit}

-----------------------------------------------------------------------------
\* send: a protected request carries the token in memory.
SendRequest(r) ==
    /\ page[r].at = "Rest" /\ mem # NoSession
    /\ page' = [page EXCEPT ![r] = [at |-> "Sent", fam |-> mem.fam, ver |-> mem.ver,
                                    again |-> FALSE]]
    /\ UNCHANGED <<sessionsVars, mem, cookie, wire, flight, entry, exit>>

\* The API accepts the token, or refuses it; an accepted one may also have
\* passed its own end of life.
Authenticate(r) ==
    /\ page[r].at = "Sent"
    /\ \/ /\ Accepts(page[r].fam, page[r].ver)
          /\ page' = [page EXCEPT ![r] = Rest]
       \/ page' = [page EXCEPT ![r].at = "Refused"]
    /\ UNCHANGED <<sessionsVars, mem, cookie, wire, flight, entry, exit>>

\* request, on 401: an error if it was sent again already or nobody is signed in.
GiveUp(r) ==
    /\ page[r].at = "Refused"
    /\ page[r].again \/ mem = NoSession
    /\ page' = [page EXCEPT ![r] = Rest]
    /\ UNCHANGED <<sessionsVars, mem, cookie, wire, flight, entry, exit>>

MayRefresh(r) == page[r].at = "Refused" /\ ~page[r].again /\ mem # NoSession

\* refresh: whoever comes while one is in flight waits for that one.
Joins(r) == MayRefresh(r) /\ flight # None
StartsOwn_Always(r) == MayRefresh(r)
StartsOwn(r) == MayRefresh(r) /\ flight = None

JoinRefresh(r) ==
    /\ Joins(r)
    /\ page' = [page EXCEPT ![r].at = "Waiting"]
    /\ UNCHANGED <<sessionsVars, mem, cookie, wire, flight, entry, exit>>

\* The CSRF token in memory, 0 for one that belongs to another family.
Secret == IF mem.fam = cookie.fam THEN mem.key ELSE 0

\* performRefresh, as far as the lookup; a mismatch is answered at once.
StartRefresh(r, c) ==
    /\ StartsOwn(r) /\ Free(c)
    /\ LookupRefresh(c, cookie.fam, cookie.cred, Secret)
    /\ flight' = c
    /\ page' = [page EXCEPT ![r].at = "Waiting"]
    /\ UNCHANGED <<mem, cookie, wire, entry, exit>>

RefreshMismatch(r) ==
    /\ StartsOwn(r)
    /\ cookie = NoCookie \/ ~RefreshPasses(cookie.fam, cookie.cred, Secret)
    /\ mem' = NoSession
    /\ page' = [page EXCEPT ![r] = Rest]
    /\ UNCHANGED <<sessionsVars, cookie, wire, flight, entry, exit>>

WebFinishRefresh(c) ==
    \/ Rotate(c) /\ Answer(c, Grant(calls[c].fam, version, issued[calls[c].fam] + 1))
                 /\ UNCHANGED <<mem, cookie, flight, entry, exit, page>>
    \/ (DetectReuse(c) \/ RefuseRefresh(c)) /\ Answer(c, Denied)
                 /\ UNCHANGED <<mem, cookie, flight, entry, exit, page>>

Waiting == {r \in Requests : page[r].at = "Waiting"}

\* refreshInFlight ends: those who waited are sent again, once, ...
RefreshAnswered ==
    /\ flight # None /\ wire[flight].ok
    /\ mem' = SessionOf(wire[flight])
    /\ cookie' = CookieOf(wire[flight])
    /\ page' = [r \in Requests |->
                  IF r \in Waiting
                  THEN [at |-> "Sent", fam |-> mem'.fam, ver |-> mem'.ver, again |-> TRUE]
                  ELSE page[r]]
    /\ wire' = [wire EXCEPT ![flight] = NoAnswer]
    /\ flight' = None
    /\ UNCHANGED <<sessionsVars, entry, exit>>

\* ... or fail with it: a refusal, or an answer lost on its way, after which
\* the call may still be running.  The cookie of a lost answer may have stuck.
ForgetSession_Keeps == UNCHANGED mem
ForgetSession == mem' = NoSession

RefreshFails ==
    /\ flight # None
    /\ cookie' \in {cookie} \cup IF wire[flight].ok THEN {CookieOf(wire[flight])} ELSE {}
    /\ ForgetSession
    /\ page' = [r \in Requests |-> IF r \in Waiting THEN Rest ELSE page[r]]
    /\ wire' = [wire EXCEPT ![flight] = NoAnswer]
    /\ flight' = None
    /\ UNCHANGED <<sessionsVars, entry, exit>>

-----------------------------------------------------------------------------
\* The login form, and the page behind it: never both at once.
Login(c) ==
    /\ entry = None /\ exit = None /\ mem = NoSession /\ Free(c)
    /\ LookupLogin(c)
    /\ entry' = c
    /\ UNCHANGED <<mem, cookie, wire, flight, exit, page>>

WebCreateSession(c, f) ==
    /\ CreateSession(c, f)
    /\ Answer(c, Grant(f, calls[c].saw, 1))
    /\ UNCHANGED <<mem, cookie, flight, entry, exit, page>>

LoginAnswered ==
    /\ entry # None /\ wire[entry].ok
    /\ mem' = SessionOf(wire[entry])
    /\ cookie' = CookieOf(wire[entry])
    /\ wire' = [wire EXCEPT ![entry] = NoAnswer]
    /\ entry' = None
    /\ UNCHANGED <<sessionsVars, flight, exit, page>>

\* Lost or failed: the session in memory stays as it is.
LoginFails ==
    /\ entry # None
    /\ cookie' \in {cookie} \cup IF wire[entry].ok THEN {CookieOf(wire[entry])} ELSE {}
    /\ wire' = [wire EXCEPT ![entry] = NoAnswer]
    /\ entry' = None
    /\ UNCHANGED <<sessionsVars, mem, flight, exit, page>>

\* signOut: DELETE auth/sessions with the token in memory, and no retry.
SignOut(c) ==
    /\ entry = None /\ exit = None /\ mem # NoSession /\ Free(c)
    /\ Accepts(mem.fam, mem.ver)
    /\ StartRevocation(c, FALSE)
    /\ exit' = c
    /\ UNCHANGED <<mem, cookie, wire, flight, entry, page>>

SignOutRefused ==
    /\ entry = None /\ exit = None /\ mem # NoSession
    /\ mem' = NoSession
    /\ UNCHANGED <<sessionsVars, cookie, wire, flight, entry, exit, page>>

\* finally { this.session = null }, answered or not.
SignedOut ==
    /\ exit # None
    /\ mem' = NoSession
    /\ cookie' \in {cookie, NoCookie}
    /\ exit' = None
    /\ UNCHANGED <<sessionsVars, wire, flight, entry, page>>

\* Revocations from elsewhere and failures.  To this client an expiry and a
\* reset are what a revocation is: both are left to SessionsNext.
Elsewhere ==
    /\ \E c \in Calls :
        (Free(c) /\ StartRevocation(c, TRUE)) \/ CommitRevocation(c) \/ CallFails(c)
    /\ UNCHANGED clientVars

WebNext ==
    \/ \E r \in Requests :
        SendRequest(r) \/ Authenticate(r) \/ GiveUp(r) \/ JoinRefresh(r) \/ RefreshMismatch(r)
    \/ \E r \in Requests, c \in Calls : StartRefresh(r, c)
    \/ \E c \in Calls :
        WebFinishRefresh(c) \/ Login(c) \/ SignOut(c)
        \/ \E f \in Families : WebCreateSession(c, f)
    \/ RefreshAnswered \/ RefreshFails
    \/ LoginAnswered \/ LoginFails \/ SignOutRefused \/ SignedOut
    \/ Elsewhere

WebSpec == WebInit /\ [][WebNext]_webVars
-----------------------------------------------------------------------------
\* The types of the client's memory and of the answers on their way.
WebTypeOK ==
    /\ mem \in [fam : Nat, ver : Nat, key : Nat]
    /\ cookie \in [fam : Nat, cred : Nat]
    /\ wire \in [Calls -> [fam : Nat, ver : Nat, key : Nat, ok : BOOLEAN]]
    /\ {flight, entry, exit} \subseteq Calls \cup {None}
    /\ page \in [Requests -> [at : {"Rest", "Sent", "Refused", "Waiting"},
                              fam : Nat, ver : Nat, again : BOOLEAN]]

\* One tab never presents a credential twice (api.ts, refreshInFlight): however
\* its refused requests, lost answers, logins and sign-outs interleave, the API
\* never ends one of its families for reuse.
NeverReuses == \A f \in Families : ~reuse[f]

\* What the browser holds is what the API expects: between refreshes, cookie
\* and memory belong to the newest answer of their family.
BrowserIsCurrent ==
    (mem # NoSession /\ flight = None /\ cookie.fam = mem.fam)
        => cookie.cred \in unused[mem.fam] /\ mem.key = csrf[mem.fam]
=============================================================================
