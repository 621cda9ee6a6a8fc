---------------------------- MODULE ProjectCommands ----------------------------
(***************************************************************************)
(* Commands on one project and the idempotency records around them: state  *)
(* transitions, context entities and CSV imports, an invitation and the    *)
(* membership it leads to, break-glass access.  An attempt is one request  *)
(* that reached the API; a client that lost an answer sends the command    *)
(* again under the same key, at any time, also while the first attempt is  *)
(* still running.                                                          *)
(*                                                                         *)
(* An attempt begins when its transaction has inserted the key and done    *)
(* its reads without a lock; it ends with the commit, after the reads that *)
(* lock a row and the writes.                                              *)
(***************************************************************************)
EXTENDS Naturals, Sequences, FiniteSets

CONSTANTS Attempts, Keys,
          Menus,       \* sets of operations; a behaviour uses those of one
          MaxRowVersion,  \* bound: versions of a row
          MaxCommits   \* bound: committed executions

VARIABLES project,     \* status and version of the project
          planned,     \* archive and retention plan, which no command writes
          nodes,       \* codes of the active context entities
          import,      \* context_imports.status of one CSV file
          invitation, member, glass,
          attempt,
          journal,         \* committed executions: idempotency_keys, in commit order
          menu

commandVars == <<project, planned, nodes, import, invitation, member, glass,
                 attempt, journal, menu>>

Codes == {"A", "B"}   \* bound: codes
Rows == Codes         \* those of the CSV file
Users == {"ana", "bao"}

\* transitionTargets
Target ==
    [Setup |-> [activate |-> "Active"],
     Active |-> [suspend |-> "Suspended", start_archive |-> "Archiving"],
     Suspended |-> [resume |-> "Active", start_archive |-> "Archiving"],
     Archiving |-> [complete_archive |-> "Archived"],
     Archived |-> [restore |-> "Suspended"]]
Transitions == UNION {DOMAIN Target[s] : s \in DOMAIN Target}

Command(op, args, versions) == [op : {op}, arg : args, ver : versions]
TransitionCommands == Command("transition", Transitions, 1..MaxRowVersion)
ContextCommands ==
    Command("context", Codes, {0}) \cup [op : {"preview", "import"}, arg : {""}, ver : {0}]
InvitationCommands == [op : {"invite", "revoke", "accept"}, arg : {""}, ver : {0}]
MemberCommands == Command("member", {"Active", "Suspended", "Ended"}, 1..MaxRowVersion)
GlassCommands == [op : {"request", "approve", "start"}, arg : Users, ver : {0}]
Commands ==
    TransitionCommands \cup ContextCommands \cup InvitationCommands
    \cup MemberCommands \cup GlassCommands

\* UNIQUE (actor_user_id, operation, idempotency_key); the payload is the rest.
SameScope(c, d) ==
    c.op = d.op /\ (c.op \in {"request", "approve", "start"} => c.arg = d.arg)

Keyed(c) == c.op # "accept"
Versioned(c) == c.op \in {"transition", "member"}

NoKey == ""
Nothing == [op |-> "", arg |-> "", ver |-> 0]
AtRest(at) == [at |-> at, cmd |-> Nothing, key |-> NoKey, saw |-> "", answer |-> <<>>]
NoAttempt == AtRest("Idle")
Refused == AtRest("Refused")

CommandsInit ==
    /\ project = [status |-> "Setup", version |-> 1]
    /\ planned \in BOOLEAN
    /\ nodes = {} /\ import = "None"
    /\ invitation = "None"
    /\ member = [status |-> "None", version |-> 0]
    /\ glass = [status |-> "None", requester |-> "", approver |-> "", sessions |-> {}]
    /\ attempt = [a \in Attempts |-> NoAttempt]
    /\ journal = <<>>
    /\ menu \in Menus

tables == <<project, nodes, import, invitation, member, glass>>

-----------------------------------------------------------------------------
\* INSERT ... ON CONFLICT DO NOTHING waits for the transaction that inserted
\* the same key, and finds it committed or gone.
Entries(c, k) == {i \in DOMAIN journal : journal[i].key = k /\ SameScope(journal[i].cmd, c)}
Held_Unseen(c, k) == FALSE
Held(c, k) == \E a \in Attempts :
    attempt[a].at = "Held" /\ attempt[a].key = k /\ SameScope(attempt[a].cmd, c)

KeyIsFree(c, k) == Keyed(c) => Entries(c, k) = {} /\ ~Held(c, k)

Begin(a, c, k) ==
    /\ attempt[a].at # "Held" /\ Len(journal) < MaxCommits
    /\ Keyed(c) <=> k # NoKey
    /\ KeyIsFree(c, k)
    /\ attempt' = [attempt EXCEPT ![a] =
                     [at |-> "Held", cmd |-> c, key |-> k, saw |-> project.status,
                      answer |-> <<>>]]
    /\ UNCHANGED <<tables, planned, journal, menu>>

\* assertProjectMutable
Mutable(status) == status \in {"Setup", "Active"}

\* The stored answer, or IDEMPOTENCY_KEY_REUSE for another payload.
Stored_Now(e) == <<project.status, project.version>>
Stored(e) == e.answer

Replay(a, c, k) ==
    /\ attempt[a].at # "Held"
    /\ Keyed(c) /\ ~Held(c, k)
    /\ c.op = "preview" => Mutable(project.status)
    /\ \E i \in Entries(c, k) :
        attempt' = [attempt EXCEPT ![a] =
            IF journal[i].cmd = c
            THEN [at |-> "Answered", cmd |-> c, key |-> k, saw |-> "",
                  answer |-> Stored(journal[i])]
            ELSE Refused]
    /\ UNCHANGED <<tables, planned, journal, menu>>

-----------------------------------------------------------------------------
\* The bodies of the commands.  What they demand of rows they lock is demanded
\* of these as they are now, and of the project's status, where it is read
\* without a lock, as it was then.
VersionMatches_Unchecked(c, row) == TRUE
VersionMatches(c, row) == c.ver = row.version

MayTransition(c) ==
    /\ VersionMatches(c, project)
    /\ c.arg \in DOMAIN Target[project.status]
    /\ c.arg # "complete_archive"  \* ARCHIVE_COMPLETION_REQUIRES_JOB
    /\ c.arg \in {"start_archive", "restore"} => planned

\* The trigger increment_version
NextVersion(row) == row.version + 1

Moved(c) == [status |-> Target[project.status][c.arg], version |-> NextVersion(project)]

TransitionProject(c) ==
    /\ c.op = "transition" /\ MayTransition(c)
    /\ project' = Moved(c)
    /\ UNCHANGED <<nodes, import, invitation, member, glass>>

CreateProjectContextEntity(c, saw) ==
    /\ c.op = "context" /\ Mutable(saw) /\ c.arg \notin nodes
    /\ nodes' = nodes \cup {c.arg}
    /\ UNCHANGED <<project, import, invitation, member, glass>>

PreviewCsvImport(c, saw) ==
    /\ c.op = "preview" /\ Mutable(saw)
    /\ import = "None"  \* bound: one import
    /\ import' = "Previewed"
    /\ UNCHANGED <<project, nodes, invitation, member, glass>>

\* Rows whose code exists are skipped, all others are inserted; an import that
\* is Committed already is answered again.
CommitCsvImport(c, saw) ==
    /\ c.op = "import" /\ Mutable(saw) /\ import \in {"Previewed", "Committed"}
    /\ nodes' = IF import = "Previewed" THEN nodes \cup Rows ELSE nodes
    /\ import' = "Committed"
    /\ UNCHANGED <<project, invitation, member, glass>>

CreateInvitation(c) ==
    /\ c.op = "invite"
    /\ invitation = "None"  \* bound: one invitation
    /\ invitation' = "Pending"
    /\ UNCHANGED <<project, nodes, import, member, glass>>

RevokeInvitation(c) ==
    /\ c.op = "revoke" /\ invitation = "Pending"
    /\ invitation' = "Revoked"
    /\ UNCHANGED <<project, nodes, import, member, glass>>

\* ON CONFLICT (project_id, user_id) DO NOTHING: an old membership stays.
Joined == IF member.status = "None" THEN [status |-> "Active", version |-> 1] ELSE member

AcceptInvitation(c, saw) ==
    /\ c.op = "accept"
    /\ \/ /\ invitation = "Pending" /\ saw = "Active"
          /\ invitation' = "Accepted" /\ member' = Joined
       \/ /\ invitation = "Accepted"
          /\ UNCHANGED <<invitation, member>>
    /\ UNCHANGED <<project, nodes, import, glass>>

Updated(c) == [status |-> c.arg, version |-> NextVersion(member)]

UpdateMembership(c) ==
    /\ c.op = "member" /\ member.status # "None" /\ VersionMatches(c, member)
    /\ member' = Updated(c)
    /\ UNCHANGED <<project, nodes, import, invitation, glass>>

RequestBreakGlass(c) ==
    /\ c.op = "request"
    /\ glass.status = "None"  \* bound: one request
    /\ glass' = [glass EXCEPT !.status = "Requested", !.requester = c.arg]
    /\ UNCHANGED <<project, nodes, import, invitation, member>>

ApproveBreakGlass(c) ==
    /\ c.op = "approve" /\ glass.status = "Requested" /\ glass.requester # c.arg
    /\ glass' = [glass EXCEPT !.status = "Approved", !.approver = c.arg]
    /\ UNCHANGED <<project, nodes, import, invitation, member>>

StartBreakGlassSession(c) ==
    /\ c.op = "start" /\ glass.status = "Approved" /\ glass.requester = c.arg
    /\ glass' = [glass EXCEPT !.sessions = @ \cup {c.arg}]
    /\ UNCHANGED <<project, nodes, import, invitation, member>>

Perform(c, saw) ==
    \/ TransitionProject(c)
    \/ CreateProjectContextEntity(c, saw) \/ PreviewCsvImport(c, saw) \/ CommitCsvImport(c, saw)
    \/ CreateInvitation(c) \/ RevokeInvitation(c) \/ AcceptInvitation(c, saw)
    \/ UpdateMembership(c)
    \/ RequestBreakGlass(c) \/ ApproveBreakGlass(c) \/ StartBreakGlassSession(c)

\* What the caller reads of the row it changed: status and version.
AnswerOf(c) ==
    CASE c.op = "transition" -> <<project'.status, project'.version>>
      [] c.op \in {"member", "accept"} -> <<member'.status, member'.version>>
      [] OTHER -> <<c.op, 0>>

Execute(a) ==
    LET c == attempt[a].cmd IN
    /\ attempt[a].at = "Held"
    /\ Perform(c, attempt[a].saw)
    /\ journal' = IF Keyed(c) THEN Append(journal, [key |-> attempt[a].key, cmd |-> c,
                                            from |-> project.status, answer |-> AnswerOf(c)])
                          ELSE journal
    /\ attempt' = [attempt EXCEPT ![a] =
                     [at |-> "Answered", cmd |-> c, key |-> attempt[a].key, saw |-> "",
                      answer |-> AnswerOf(c)]]
    /\ UNCHANGED <<planned, menu>>

\* A refusal, or a failure of the database: all is rolled back, the key too.
RollBack(a) ==
    /\ attempt[a].at = "Held"
    /\ attempt' = [attempt EXCEPT ![a] = Refused]
    /\ UNCHANGED <<tables, planned, journal, menu>>

CommandsNext ==
    \E a \in Attempts :
        \/ \E c \in {c \in Commands : c.op \in menu}, k \in Keys \cup {NoKey} :
            Begin(a, c, k) \/ Replay(a, c, k)
        \/ Execute(a) \/ RollBack(a)

CommandsSpec == CommandsInit /\ [][CommandsNext]_commandVars

-----------------------------------------------------------------------------
\* The types of the rows and of the attempts.
CommandsTypeOK ==
    /\ project.status \in DOMAIN Target /\ project.version \in Nat
    /\ planned \in BOOLEAN /\ nodes \subseteq Codes
    /\ import \in {"None", "Previewed", "Committed"}
    /\ invitation \in {"None", "Pending", "Accepted", "Revoked"}
    /\ member \in [status : {"None", "Active", "Suspended", "Ended"}, version : Nat]
    /\ glass.status \in {"None", "Requested", "Approved"}
    /\ \A a \in Attempts : /\ attempt[a].at \in {"Idle", "Held", "Answered", "Refused"}
                           /\ attempt[a].cmd \in Commands \cup {Nothing}

\* Break-glass takes two: whoever has a session was the one to request it, and
\* somebody else has approved, whichever commands overlap (approveBreakGlass).
TwoForBreakGlass ==
    /\ glass.sessions \subseteq {glass.requester}
    /\ glass.sessions # {} => glass.approver \in Users \ glass.sessions

\* A key is executed once (idempotent, in both services): of all attempts under
\* one key and operation, also simultaneous ones, at most one ever commits.
KeyExecutesOnce ==
    \A i, j \in DOMAIN journal :
        journal[i].key = journal[j].key /\ SameScope(journal[i].cmd, journal[j].cmd) => i = j

\* Whoever was answered can rely on it: the answer is that of the one execution
\* under its key, with the command that was sent, whatever has happened since.
AnswerIsExecution ==
    \A a \in Attempts :
        attempt[a].at = "Answered" /\ Keyed(attempt[a].cmd) =>
            \E i \in DOMAIN journal : /\ journal[i].key = attempt[a].key
                                  /\ journal[i].cmd = attempt[a].cmd
                                  /\ journal[i].answer = attempt[a].answer

\* expected_version: of all commands that expect one version of a row, under
\* whatever keys, one commits; so the transitions of a project form one path.
VersionWinsOnce ==
    \A i, j \in DOMAIN journal :
        i < j /\ Versioned(journal[i].cmd) /\ journal[i].cmd.op = journal[j].cmd.op =>
            /\ journal[i].cmd.ver < journal[j].cmd.ver
            /\ journal[i].cmd.op = "transition"
               /\ (\A n \in i + 1 .. j - 1 : journal[n].cmd.op # "transition")
                   => journal[j].from = journal[i].answer[1]
=============================================================================
