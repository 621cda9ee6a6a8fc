----------------------------- MODULE CommandProofs -----------------------------
(***************************************************************************)
(* Safety of the commands on a project (ProjectCommands) for any number of *)
(* attempts, keys and versions: what the idempotency record and the        *)
(* expected version promise to a client that repeats itself.               *)
(***************************************************************************)
EXTENDS ProjectCommands, SequenceTheorems, TLAPS

\* Attempts hold commands, the journal is a sequence, and rows have versions; a
\* membership that does not exist yet has the version 0.
Shapes ==
  /\ attempt = [a \in Attempts |-> attempt[a]]
  /\ \A a \in Attempts : attempt[a].at = "Held" => attempt[a].cmd \in Commands
  /\ journal \in Seq({journal[i] : i \in DOMAIN journal})
  /\ project.version \in Nat /\ member.version \in Nat
  /\ member.status = "None" => member.version = 0

\* The insert of the key keeps attempts under one key apart, and an attempt
\* that holds a key has found it without an execution.
HeldApart ==
  \A a, b \in Attempts :
      /\ attempt[a].at = "Held" /\ attempt[b].at = "Held" /\ Keyed(attempt[a].cmd)
      /\ attempt[a].key = attempt[b].key /\ SameScope(attempt[a].cmd, attempt[b].cmd)
      => a = b

HeldIsNew ==
  \A a \in Attempts :
      attempt[a].at = "Held" /\ Keyed(attempt[a].cmd)
        => Entries(attempt[a].cmd, attempt[a].key) = {}

\* An execution has left the version it expected behind.
VersionsPassed ==
  \A i \in DOMAIN journal :
      /\ journal[i].cmd.op = "transition" =>
           journal[i].cmd.ver \in Nat /\ journal[i].cmd.ver < project.version
      /\ journal[i].cmd.op = "member" =>
           journal[i].cmd.ver \in Nat /\ journal[i].cmd.ver < member.version

\* The last transition has answered with the status the project has now.
LastMove ==
  \A i \in DOMAIN journal :
      /\ journal[i].cmd.op = "transition"
      /\ \A n \in i + 1 .. Len(journal) : journal[n].cmd.op # "transition"
      => journal[i].answer[1] = project.status

CommandsInv ==
  /\ Shapes
  /\ HeldApart /\ HeldIsNew /\ KeyExecutesOnce /\ AnswerIsExecution
  /\ VersionsPassed /\ LastMove /\ VersionWinsOnce

-----------------------------------------------------------------------------
\* What Append does to a sequence, whatever its elements.
LEMMA Appended ==
  ASSUME NEW s, s \in Seq({s[i] : i \in DOMAIN s}), NEW e
  PROVE  LET t == Append(s, e) IN
         /\ t \in Seq({t[i] : i \in DOMAIN t})
         /\ Len(s) \in Nat /\ DOMAIN s = 1 .. Len(s)
         /\ Len(t) = Len(s) + 1 /\ DOMAIN t = 1 .. Len(s) + 1
         /\ t[Len(s) + 1] = e /\ \A i \in 1 .. Len(s) : t[i] = s[i]
<1> DEFINE S == {s[i] : i \in DOMAIN s} \cup {e}
           t == Append(s, e)
<1>1. s \in Seq(S)
  BY SeqDef
<1>2. /\ t \in Seq(S) /\ Len(s) \in Nat /\ DOMAIN s = 1 .. Len(s)
      /\ Len(t) = Len(s) + 1 /\ DOMAIN t = 1 .. Len(s) + 1
      /\ t[Len(s) + 1] = e /\ \A i \in 1 .. Len(s) : t[i] = s[i]
  BY <1>1, AppendProperties, LenProperties
<1>3. t \in Seq({t[i] : i \in DOMAIN t})
  BY <1>2, SeqDef
<1> QED BY <1>2, <1>3

LEMMA CommandsStart == CommandsInit => CommandsInv
<1> SUFFICES ASSUME CommandsInit PROVE CommandsInv
  OBVIOUS
<1>1. /\ attempt = [a \in Attempts |-> NoAttempt] /\ journal = <<>>
      /\ project.version = 1 /\ member.version = 0
  BY DEF CommandsInit
<1>2. \A a \in Attempts : attempt[a].at = "Idle"
  BY <1>1 DEF NoAttempt, AtRest
<1>3. Shapes
  <2>1. journal \in Seq({journal[i] : i \in DOMAIN journal})
    BY <1>1, SeqDef
  <2> QED BY <1>1, <1>2, <2>1 DEF Shapes
<1>4. DOMAIN journal = {}
  BY <1>1
<1>5. HeldApart /\ HeldIsNew /\ KeyExecutesOnce /\ AnswerIsExecution
  BY <1>2, <1>4 DEF HeldApart, HeldIsNew, KeyExecutesOnce, AnswerIsExecution
<1>6. VersionsPassed /\ LastMove /\ VersionWinsOnce
  BY <1>4 DEF VersionsPassed, LastMove, VersionWinsOnce
<1> QED BY <1>3, <1>5, <1>6 DEF CommandsInv

\* An attempt that starts, or ends without writing, leaves the tables alone: it
\* suffices to look at its row.
LEMMA TablesStay ==
  ASSUME CommandsInv, UNCHANGED <<tables, journal>>,
         NEW a \in Attempts, NEW row, attempt' = [attempt EXCEPT ![a] = row],
         row.at = "Held" =>
            /\ row.cmd \in Commands
            /\ Keyed(row.cmd) => Entries(row.cmd, row.key) = {} /\ ~Held(row.cmd, row.key),
         row.at = "Answered" /\ Keyed(row.cmd) =>
            \E i \in DOMAIN journal : /\ journal[i].key = row.key /\ journal[i].cmd = row.cmd
                                      /\ journal[i].answer = row.answer
  PROVE  CommandsInv'
<1>1. /\ attempt'[a] = row
      /\ \A b \in Attempts \ {a} : attempt'[b] = attempt[b]
  BY DEF CommandsInv, Shapes
<1>2. journal' = journal /\ project' = project /\ member' = member
  BY DEF tables
<1>3. Shapes'
  BY <1>1, <1>2 DEF CommandsInv, Shapes
<1>4. HeldApart'
  <2> SUFFICES ASSUME NEW b \in Attempts, NEW c \in Attempts, b # c,
                      attempt'[b].at = "Held", attempt'[c].at = "Held",
                      Keyed(attempt'[b].cmd), attempt'[b].key = attempt'[c].key,
                      SameScope(attempt'[b].cmd, attempt'[c].cmd)
               PROVE  FALSE
    BY DEF HeldApart
  <2>1. Keyed(attempt'[c].cmd) /\ SameScope(attempt'[c].cmd, attempt'[b].cmd)
    BY DEF Keyed, SameScope
  <2>2. CASE b # a /\ c # a
    BY <1>1, <2>2 DEF CommandsInv, HeldApart
  <2>3. CASE b = a
    BY <1>1, <2>1, <2>3 DEF Held
  <2>4. CASE c = a
    BY <1>1, <2>1, <2>4 DEF Held
  <2> QED BY <2>2, <2>3, <2>4
<1>5. HeldIsNew'
  BY <1>1, <1>2 DEF CommandsInv, HeldIsNew, Entries
<1>6. AnswerIsExecution'
  BY <1>1, <1>2 DEF CommandsInv, AnswerIsExecution
<1>7. KeyExecutesOnce' /\ VersionsPassed' /\ LastMove' /\ VersionWinsOnce'
  BY <1>2 DEF CommandsInv, KeyExecutesOnce, VersionsPassed, LastMove, VersionWinsOnce
<1> QED BY <1>3, <1>4, <1>5, <1>6, <1>7 DEF CommandsInv

LEMMA BeginStep ==
  ASSUME CommandsInv, NEW a \in Attempts, NEW c \in Commands, NEW k, Begin(a, c, k)
  PROVE  CommandsInv'
<1> DEFINE row == [at |-> "Held", cmd |-> c, key |-> k, saw |-> project.status, answer |-> <<>>]
<1>1. attempt' = [attempt EXCEPT ![a] = row] /\ UNCHANGED <<tables, journal>>
  BY DEF Begin
<1>2. row.at = "Held" /\ row.cmd = c /\ row.key = k
  OBVIOUS
<1>3. Keyed(c) => Entries(c, k) = {} /\ ~Held(c, k)
  BY DEF Begin, KeyIsFree
<1> HIDE DEF row
<1> QED BY <1>1, <1>2, <1>3, TablesStay

LEMMA RollBackStep ==
  ASSUME CommandsInv, NEW a \in Attempts, attempt' = [attempt EXCEPT ![a] = Refused],
         UNCHANGED <<tables, journal>>
  PROVE  CommandsInv'
<1>1. Refused.at = "Refused"
  BY DEF Refused, AtRest
<1> QED BY <1>1, TablesStay

LEMMA ReplayStep ==
  ASSUME CommandsInv, NEW a \in Attempts, NEW c, NEW k, Replay(a, c, k)
  PROVE  CommandsInv'
<1>1. PICK i \in Entries(c, k) :
        attempt' = [attempt EXCEPT ![a] =
            IF journal[i].cmd = c
            THEN [at |-> "Answered", cmd |-> c, key |-> k, saw |-> "",
                  answer |-> Stored(journal[i])]
            ELSE Refused]
  BY DEF Replay
<1>2. UNCHANGED <<tables, journal>>
  BY DEF Replay
<1>3. CASE journal[i].cmd = c
  <2> DEFINE row == [at |-> "Answered", cmd |-> c, key |-> k, saw |-> "",
                     answer |-> journal[i].answer]
  <2>1. attempt' = [attempt EXCEPT ![a] = row]
    BY <1>1, <1>3 DEF Stored
  <2>2. /\ row.at = "Answered" /\ row.cmd = journal[i].cmd /\ row.key = k
        /\ row.answer = journal[i].answer
    BY <1>3
  <2>3. i \in DOMAIN journal /\ journal[i].key = k
    BY DEF Entries
  <2> HIDE DEF row
  <2> QED BY <1>2, <2>1, <2>2, <2>3, TablesStay
<1>4. CASE journal[i].cmd # c
  BY <1>1, <1>2, <1>4, RollBackStep
<1> QED BY <1>3, <1>4

-----------------------------------------------------------------------------
\* What the commands carry.
LEMMA CommandFields ==
  ASSUME NEW c \in Commands
  PROVE  /\ c.op = "context" => c.arg \in Codes
         /\ c.op = "member" => c.arg \in {"Active", "Suspended", "Ended"}
         /\ c.op \in {"request", "approve", "start"} => c.arg \in Users
  BY DEF Commands, Command, TransitionCommands, ContextCommands, InvitationCommands, MemberCommands,
     GlassCommands

\* What an execution does to the two rows with a version.
LEMMA RowsMove ==
  ASSUME CommandsInv, NEW c \in Commands, NEW saw, Perform(c, saw)
  PROVE  /\ project'.version \in Nat /\ member'.version \in Nat
         /\ member'.status = "None" => member'.version = 0
         /\ project'.version >= project.version /\ member'.version >= member.version
         /\ c.op = "transition" => c.ver = project.version /\ project'.version = c.ver + 1
         /\ c.op # "transition" => project' = project
         /\ c.op = "member" => c.ver = member.version /\ member'.version = c.ver + 1
<1>1. /\ project.version \in Nat /\ member.version \in Nat
      /\ member.status = "None" => member.version = 0
  BY DEF CommandsInv, Shapes
<1>2. CASE TransitionProject(c)
  <2>1. /\ c.op = "transition" /\ c.ver = project.version
        /\ project' = [status |-> Target[project.status][c.arg], version |-> project.version + 1]
        /\ member' = member
    BY <1>2 DEF TransitionProject, MayTransition, VersionMatches, Moved, NextVersion
  <2>2. project'.version = project.version + 1
    BY <2>1
  <2> QED BY <1>1, <2>1, <2>2
<1>3. CASE UpdateMembership(c)
  <2>1. /\ c.op = "member" /\ c.ver = member.version
        /\ member' = [status |-> c.arg, version |-> member.version + 1]
        /\ project' = project
    BY <1>3 DEF UpdateMembership, VersionMatches, Updated, NextVersion
  <2>2. c.arg # "None"
    BY <2>1, CommandFields
  <2>3. member'.version = member.version + 1 /\ member'.status = c.arg
    BY <2>1
  <2> QED BY <1>1, <2>1, <2>2, <2>3
<1>4. CASE AcceptInvitation(c, saw)
  <2>1. c.op = "accept" /\ project' = project /\ (member' = member \/ member' = Joined)
    BY <1>4 DEF AcceptInvitation
  <2>2. Joined = member \/ (member.status = "None" /\ Joined.version = 1 /\ Joined.status = "Active")
    BY DEF Joined
  <2> QED BY <1>1, <2>1, <2>2
<1>5. CASE c.op \notin {"transition", "member", "accept"}
  <2>1. project' = project /\ member' = member
    BY <1>5 DEF Perform, TransitionProject, CreateProjectContextEntity, PreviewCsvImport,
                CommitCsvImport, CreateInvitation, RevokeInvitation, AcceptInvitation,
                UpdateMembership, RequestBreakGlass, ApproveBreakGlass, StartBreakGlassSession
  <2> QED BY <1>1, <1>5, <2>1
<1>6. \/ TransitionProject(c) \/ UpdateMembership(c) \/ AcceptInvitation(c, saw)
      \/ c.op \notin {"transition", "member", "accept"}
  BY DEF Perform, CreateProjectContextEntity, PreviewCsvImport, CommitCsvImport, CreateInvitation,
         RevokeInvitation, RequestBreakGlass, ApproveBreakGlass, StartBreakGlassSession
<1> QED BY <1>2, <1>3, <1>4, <1>5, <1>6

\* An execution of a command without a key writes rows and no journal entry.
LEMMA UnkeyedStep ==
  ASSUME CommandsInv, NEW a \in Attempts, Execute(a), ~Keyed(attempt[a].cmd)
  PROVE  CommandsInv'
<1> DEFINE c == attempt[a].cmd
<1>1. /\ attempt[a].at = "Held" /\ c \in Commands
      /\ Perform(c, attempt[a].saw)
      /\ journal' = journal
  BY DEF Execute, CommandsInv, Shapes
<1>2. /\ attempt' = [b \in Attempts |-> attempt'[b]]
      /\ attempt'[a].at = "Answered" /\ attempt'[a].cmd = c
      /\ \A b \in Attempts \ {a} : attempt'[b] = attempt[b]
  BY DEF Execute, CommandsInv, Shapes
<1>3. c.op \notin {"transition", "member"}
  BY DEF Keyed
<1>4. /\ project'.version \in Nat /\ member'.version \in Nat
      /\ member'.status = "None" => member'.version = 0
      /\ project' = project /\ member'.version >= member.version
  BY <1>1, <1>3, RowsMove
<1> HIDE DEF c
<1>5. Shapes'
  BY <1>1, <1>2, <1>4 DEF CommandsInv, Shapes
<1>6. HeldApart' /\ HeldIsNew'
  BY <1>1, <1>2 DEF CommandsInv, HeldApart, HeldIsNew, Entries
<1>7. AnswerIsExecution'
  BY <1>1, <1>2 DEF CommandsInv, AnswerIsExecution, c
<1>8. VersionsPassed'
  BY <1>1, <1>4 DEF CommandsInv, Shapes, VersionsPassed
<1>9. KeyExecutesOnce' /\ LastMove' /\ VersionWinsOnce'
  BY <1>1, <1>4 DEF CommandsInv, KeyExecutesOnce, LastMove, VersionWinsOnce
<1> QED BY <1>5, <1>6, <1>7, <1>8, <1>9 DEF CommandsInv

\* An execution under a key: the journal grows by its entry.
LEMMA KeyedStep ==
  ASSUME CommandsInv, NEW a \in Attempts, Execute(a), Keyed(attempt[a].cmd)
  PROVE  CommandsInv'
<1> DEFINE c == attempt[a].cmd
           k == attempt[a].key
           last == Len(journal) + 1
           e == [key |-> k, cmd |-> c, from |-> project.status, answer |-> AnswerOf(c)]
<1>1. /\ attempt[a].at = "Held" /\ c \in Commands /\ Keyed(c)
      /\ Perform(c, attempt[a].saw)
  BY DEF Execute, CommandsInv, Shapes
<1>2. /\ attempt' = [b \in Attempts |-> attempt'[b]]
      /\ attempt'[a].at = "Answered" /\ attempt'[a].cmd = c /\ attempt'[a].key = k
      /\ attempt'[a].answer = AnswerOf(c)
      /\ \A b \in Attempts \ {a} : attempt'[b] = attempt[b]
  BY DEF Execute, CommandsInv, Shapes
<1>3. /\ project'.version \in Nat /\ member'.version \in Nat
      /\ member'.status = "None" => member'.version = 0
      /\ project'.version >= project.version /\ member'.version >= member.version
      /\ c.op = "transition" => c.ver = project.version /\ project'.version = c.ver + 1
      /\ c.op # "transition" => project' = project
      /\ c.op = "member" => c.ver = member.version /\ member'.version = c.ver + 1
  BY <1>1, RowsMove
<1>4. project.version \in Nat /\ member.version \in Nat
  BY DEF CommandsInv, Shapes
<1>5. /\ journal' \in Seq({journal'[i] : i \in DOMAIN journal'})
      /\ Len(journal) \in Nat /\ DOMAIN journal = 1 .. Len(journal)
      /\ Len(journal') = last /\ DOMAIN journal' = 1 .. last
      /\ journal'[last] = e /\ \A i \in 1 .. Len(journal) : journal'[i] = journal[i]
  <2>1. journal' = Append(journal, e)
    BY <1>1 DEF Execute
  <2> HIDE DEF e
  <2>2. journal \in Seq({journal[i] : i \in DOMAIN journal})
    BY DEF CommandsInv, Shapes
  <2> DEFINE t == Append(journal, e)
  <2>3. /\ t \in Seq({t[i] : i \in DOMAIN t})
        /\ Len(journal) \in Nat /\ DOMAIN journal = 1 .. Len(journal)
        /\ Len(t) = Len(journal) + 1 /\ DOMAIN t = 1 .. Len(journal) + 1
        /\ t[Len(journal) + 1] = e /\ \A i \in 1 .. Len(journal) : t[i] = journal[i]
    BY <2>2, Appended
  <2>4. journal' = t
    BY <2>1
  <2> HIDE DEF t
  <2> QED BY <2>3, <2>4
<1>6. /\ journal'[last].key = k /\ journal'[last].cmd = c
      /\ journal'[last].from = project.status /\ journal'[last].answer = AnswerOf(c)
  BY <1>5
<1>7. c.op = "transition" => AnswerOf(c)[1] = project'.status
  BY DEF AnswerOf
<1> HIDE DEF c, k, e
<1>8. \A i \in DOMAIN journal : journal[i].key = k => ~SameScope(journal[i].cmd, c)
  BY <1>1 DEF CommandsInv, HeldIsNew, Entries, c, k
<1>9. Shapes'
  BY <1>2, <1>3, <1>5 DEF CommandsInv, Shapes
<1>10. HeldApart'
  BY <1>2 DEF CommandsInv, HeldApart
<1>11. HeldIsNew'
  <2> SUFFICES ASSUME NEW b \in Attempts, attempt'[b].at = "Held", Keyed(attempt'[b].cmd),
                      NEW i \in DOMAIN journal', journal'[i].key = attempt'[b].key,
                      SameScope(journal'[i].cmd, attempt'[b].cmd)
               PROVE  FALSE
    BY DEF HeldIsNew, Entries
  <2>1. b # a /\ attempt'[b] = attempt[b]
    BY <1>2
  <2>2. CASE i = last
    BY <1>1, <1>6, <2>1, <2>2 DEF CommandsInv, HeldApart, c, k
  <2>3. CASE i \in DOMAIN journal
    BY <1>5, <2>1, <2>3 DEF CommandsInv, HeldIsNew, Entries
  <2> QED BY <1>5, <2>2, <2>3
<1>12. KeyExecutesOnce'
  <2> SUFFICES ASSUME NEW i \in DOMAIN journal', NEW j \in DOMAIN journal',
                      journal'[i].key = journal'[j].key,
                      SameScope(journal'[i].cmd, journal'[j].cmd), i # j
               PROVE  FALSE
    BY DEF KeyExecutesOnce
  <2>1. SameScope(journal'[j].cmd, journal'[i].cmd)
    BY DEF SameScope
  <2>2. CASE i = last
    BY <1>5, <1>6, <1>8, <2>1, <2>2
  <2>3. CASE j = last
    BY <1>5, <1>6, <1>8, <2>3
  <2>4. CASE i \in DOMAIN journal /\ j \in DOMAIN journal
    BY <1>5, <2>4 DEF CommandsInv, KeyExecutesOnce
  <2> QED BY <1>5, <2>2, <2>3, <2>4
<1>13. AnswerIsExecution'
  <2> SUFFICES ASSUME NEW b \in Attempts, attempt'[b].at = "Answered", Keyed(attempt'[b].cmd)
               PROVE  \E i \in DOMAIN journal' : /\ journal'[i].key = attempt'[b].key
                                                 /\ journal'[i].cmd = attempt'[b].cmd
                                                 /\ journal'[i].answer = attempt'[b].answer
    BY DEF AnswerIsExecution
  <2>1. CASE b = a
    BY <1>2, <1>5, <1>6, <2>1
  <2>2. CASE b # a
    BY <1>2, <1>5, <2>2 DEF CommandsInv, AnswerIsExecution
  <2> QED BY <2>1, <2>2
<1>14. VersionsPassed'
  <2> SUFFICES ASSUME NEW i \in DOMAIN journal'
               PROVE  /\ journal'[i].cmd.op = "transition" =>
                           journal'[i].cmd.ver \in Nat /\ journal'[i].cmd.ver < project'.version
                      /\ journal'[i].cmd.op = "member" =>
                           journal'[i].cmd.ver \in Nat /\ journal'[i].cmd.ver < member'.version
    BY DEF VersionsPassed
  <2>1. CASE i = last
    BY <1>3, <1>4, <1>6, <2>1
  <2>2. CASE i \in DOMAIN journal
    BY <1>3, <1>4, <1>5, <2>2 DEF CommandsInv, VersionsPassed
  <2> QED BY <1>5, <2>1, <2>2
<1>15. LastMove'
  <2> SUFFICES ASSUME NEW i \in DOMAIN journal', journal'[i].cmd.op = "transition",
                      \A n \in i + 1 .. Len(journal') : journal'[n].cmd.op # "transition"
               PROVE  journal'[i].answer[1] = project'.status
    BY DEF LastMove
  <2>1. CASE i = last
    BY <1>6, <1>7, <2>1
  <2>2. CASE i \in DOMAIN journal
    <3>1. c.op # "transition"
      BY <1>5, <1>6, <2>2
    <3>2. \A n \in i + 1 .. Len(journal) : journal[n].cmd.op # "transition"
      BY <1>5, <2>2
    <3> QED BY <1>3, <1>5, <2>2, <3>1, <3>2 DEF CommandsInv, LastMove
  <2> QED BY <1>5, <2>1, <2>2
<1>16. VersionWinsOnce'
  <2> SUFFICES ASSUME NEW i \in DOMAIN journal', NEW j \in DOMAIN journal', i < j,
                      Versioned(journal'[i].cmd), journal'[i].cmd.op = journal'[j].cmd.op
               PROVE  /\ journal'[i].cmd.ver < journal'[j].cmd.ver
                      /\ journal'[i].cmd.op = "transition"
                         /\ (\A n \in i + 1 .. j - 1 : journal'[n].cmd.op # "transition")
                         => journal'[j].from = journal'[i].answer[1]
    BY DEF VersionWinsOnce
  <2>1. i \in DOMAIN journal /\ journal'[i] = journal[i]
    BY <1>5
  <2>2. CASE j = last
    <3>1. journal[i].cmd.ver < c.ver
      BY <1>3, <1>6, <2>1, <2>2 DEF CommandsInv, VersionsPassed, Versioned
    <3>2. (\A n \in i + 1 .. j - 1 : journal'[n].cmd.op # "transition")
            => \A n \in i + 1 .. Len(journal) : journal[n].cmd.op # "transition"
      BY <1>5, <2>1, <2>2
    <3> QED BY <1>6, <2>1, <2>2, <3>1, <3>2 DEF CommandsInv, LastMove
  <2>3. CASE j \in DOMAIN journal
    <3>1. (\A n \in i + 1 .. j - 1 : journal'[n].cmd.op # "transition")
            => \A n \in i + 1 .. j - 1 : journal[n].cmd.op # "transition"
      BY <1>5, <2>1, <2>3
    <3> QED BY <1>5, <2>1, <2>3, <3>1 DEF CommandsInv, VersionWinsOnce
  <2> QED BY <1>5, <2>2, <2>3
<1> QED BY <1>9, <1>10, <1>11, <1>12, <1>13, <1>14, <1>15, <1>16 DEF CommandsInv

LEMMA CommandsStep == CommandsInv /\ [CommandsNext]_commandVars => CommandsInv'
<1> SUFFICES ASSUME CommandsInv, [CommandsNext]_commandVars PROVE CommandsInv'
  OBVIOUS
<1>1. CASE UNCHANGED commandVars
  BY <1>1 DEF commandVars, CommandsInv, Shapes, HeldApart, HeldIsNew, Entries, KeyExecutesOnce,
              AnswerIsExecution, VersionsPassed, LastMove, VersionWinsOnce
<1>2. ASSUME NEW a \in Attempts, NEW c \in Commands, NEW k, Begin(a, c, k) \/ Replay(a, c, k)
      PROVE  CommandsInv'
  BY <1>2, BeginStep, ReplayStep
<1>3. ASSUME NEW a \in Attempts, Execute(a) \/ RollBack(a)
      PROVE  CommandsInv'
  BY <1>3, KeyedStep, UnkeyedStep, RollBackStep DEF RollBack
<1> QED BY <1>1, <1>2, <1>3 DEF CommandsNext

\* Keys, answers and versions of the commands stay as CommandsInv says
\* (PlatformService.idempotent and the FOR UPDATE of each command).
THEOREM CommandsInductive == CommandsSpec => []CommandsInv
BY CommandsStart, CommandsStep, PTL DEF CommandsSpec

\* One execution for a key, however often and however fast it is sent again.
THEOREM CommandsKeyExecutesOnce == CommandsSpec => []KeyExecutesOnce
<1>1. CommandsInv => KeyExecutesOnce
  BY DEF CommandsInv
<1> QED BY <1>1, CommandsInductive, PTL

\* Every answer, also a repeated one, is the answer of that one execution.
THEOREM CommandsAnswerIsExecution == CommandsSpec => []AnswerIsExecution
<1>1. CommandsInv => AnswerIsExecution
  BY DEF CommandsInv
<1> QED BY <1>1, CommandsInductive, PTL

\* A version of a row is used up by one command, and transitions form one path.
THEOREM CommandsVersionWinsOnce == CommandsSpec => []VersionWinsOnce
<1>1. CommandsInv => VersionWinsOnce
  BY DEF CommandsInv
<1> QED BY <1>1, CommandsInductive, PTL

-----------------------------------------------------------------------------
(* The types of the rows *)

\* The row of break-glass in full: it is written a column at a time, and who
\* requested or approved it does not change while the request stands.
GlassRows == [status : {"None", "Requested", "Approved"}, requester : Users \cup {""},
              approver : Users \cup {""}, sessions : SUBSET Users]

GlassFollows ==
  /\ glass \in GlassRows
  /\ glass.status # "None" => glass.requester \in Users
  /\ glass.status # "Approved" => glass.sessions = {}
  /\ glass.status = "Approved" =>
       /\ glass.approver \in Users /\ glass.approver # glass.requester
       /\ glass.sessions \subseteq {glass.requester}

RowsInv == CommandsInv /\ CommandsTypeOK /\ GlassFollows

LEMMA Targeted ==
  ASSUME NEW s \in DOMAIN Target, NEW t \in DOMAIN Target[s]
  PROVE  Target[s][t] \in DOMAIN Target
  BY DEF Target

LEMMA GlassStep ==
  ASSUME RowsInv, NEW c \in Commands,
         RequestBreakGlass(c) \/ ApproveBreakGlass(c) \/ StartBreakGlassSession(c)
  PROVE  GlassFollows'
<1>1. glass \in GlassRows
  BY DEF RowsInv, GlassFollows
<1>2. CASE RequestBreakGlass(c)
  <2>1. /\ glass.status = "None" /\ c.arg \in Users
        /\ glass' = [glass EXCEPT !.status = "Requested", !.requester = c.arg]
    BY <1>2, CommandFields DEF RequestBreakGlass
  <2> QED BY <1>1, <2>1 DEF RowsInv, GlassFollows, GlassRows
<1>3. CASE ApproveBreakGlass(c)
  <2>1. /\ glass.status = "Requested" /\ glass.requester # c.arg /\ c.arg \in Users
        /\ glass' = [glass EXCEPT !.status = "Approved", !.approver = c.arg]
    BY <1>3, CommandFields DEF ApproveBreakGlass
  <2> QED BY <1>1, <2>1 DEF RowsInv, GlassFollows, GlassRows
<1>4. CASE StartBreakGlassSession(c)
  <2>1. /\ glass.status = "Approved" /\ glass.requester = c.arg /\ c.arg \in Users
        /\ glass' = [glass EXCEPT !.sessions = @ \cup {c.arg}]
    BY <1>4, CommandFields DEF StartBreakGlassSession
  <2> QED BY <1>1, <2>1 DEF RowsInv, GlassFollows, GlassRows
<1> QED BY <1>2, <1>3, <1>4

\* The rows other than that of break-glass.
LEMMA RowTypes ==
  ASSUME RowsInv, NEW c \in Commands, NEW saw, Perform(c, saw)
  PROVE  /\ project'.status \in DOMAIN Target /\ project'.version \in Nat
         /\ nodes' \subseteq Codes
         /\ import' \in {"None", "Previewed", "Committed"}
         /\ invitation' \in {"None", "Pending", "Accepted", "Revoked"}
         /\ member' \in [status : {"None", "Active", "Suspended", "Ended"}, version : Nat]
         /\ GlassFollows'
<1> USE DEF RowsInv, CommandsTypeOK
<1>1. CASE TransitionProject(c)
  <2>1. /\ project' = [status |-> Target[project.status][c.arg], version |-> project.version + 1]
        /\ c.arg \in DOMAIN Target[project.status]
        /\ UNCHANGED <<nodes, import, invitation, member, glass>>
    BY <1>1 DEF TransitionProject, MayTransition, Moved, NextVersion
  <2>2. project'.status \in DOMAIN Target /\ project'.version \in Nat
    BY <2>1, Targeted
  <2> QED BY <2>1, <2>2 DEF GlassFollows
<1>2. CASE UpdateMembership(c)
  <2>1. /\ member' = [status |-> c.arg, version |-> member.version + 1]
        /\ c.arg \in {"Active", "Suspended", "Ended"}
        /\ UNCHANGED <<project, nodes, import, invitation, glass>>
    BY <1>2, CommandFields DEF UpdateMembership, Updated, NextVersion
  <2> QED BY <2>1 DEF GlassFollows
<1>3. CASE AcceptInvitation(c, saw)
  <2>1. /\ member' \in {member, Joined} /\ invitation' \in {invitation, "Accepted"}
        /\ UNCHANGED <<project, nodes, import, glass>>
    BY <1>3 DEF AcceptInvitation
  <2>2. Joined \in [status : {"None", "Active", "Suspended", "Ended"}, version : Nat]
    BY DEF Joined
  <2> QED BY <2>1, <2>2 DEF GlassFollows
<1>4. CASE \/ CreateProjectContextEntity(c, saw) \/ PreviewCsvImport(c, saw)
           \/ CommitCsvImport(c, saw) \/ CreateInvitation(c) \/ RevokeInvitation(c)
  BY <1>4, CommandFields DEF CreateProjectContextEntity, PreviewCsvImport, CommitCsvImport,
     CreateInvitation, RevokeInvitation, Rows, GlassFollows
<1>5. CASE RequestBreakGlass(c) \/ ApproveBreakGlass(c) \/ StartBreakGlassSession(c)
  <2>1. UNCHANGED <<project, nodes, import, invitation, member>>
    BY <1>5 DEF RequestBreakGlass, ApproveBreakGlass, StartBreakGlassSession
  <2> QED BY <1>5, <2>1, GlassStep
<1> QED BY <1>1, <1>2, <1>3, <1>4, <1>5 DEF Perform

LEMMA RowsStart == CommandsInit => RowsInv
<1> SUFFICES ASSUME CommandsInit PROVE RowsInv
  OBVIOUS
<1>1. GlassFollows
  BY DEF CommandsInit, GlassFollows, GlassRows
<1>2. CommandsTypeOK
  <2>1. "Setup" \in DOMAIN Target
    BY DEF Target
  <2> QED BY <2>1 DEF CommandsInit, CommandsTypeOK, NoAttempt, AtRest
<1> QED BY <1>1, <1>2, CommandsStart DEF RowsInv

LEMMA RowsStep == RowsInv /\ [CommandsNext]_commandVars => RowsInv'
<1> SUFFICES ASSUME RowsInv, [CommandsNext]_commandVars PROVE RowsInv'
  OBVIOUS
<1>1. CommandsInv'
  BY CommandsStep DEF RowsInv
<1>2. attempt = [a \in Attempts |-> attempt[a]]
  BY DEF RowsInv, CommandsInv, Shapes
<1>3. CASE UNCHANGED commandVars
  BY <1>1, <1>3 DEF commandVars, RowsInv, CommandsTypeOK, GlassFollows
<1>4. ASSUME NEW a \in Attempts, NEW c \in Commands, NEW k, Begin(a, c, k) \/ Replay(a, c, k)
      PROVE  RowsInv'
  <2>1. UNCHANGED <<tables, planned, journal, menu>>
    BY <1>4 DEF Begin, Replay
  <2>2. \A b \in Attempts \ {a} : attempt'[b] = attempt[b]
    BY <1>2, <1>4 DEF Begin, Replay
  <2>3. /\ attempt'[a].at \in {"Held", "Answered", "Refused"}
        /\ attempt'[a].cmd \in Commands \cup {Nothing}
    <3>1. CASE Begin(a, c, k)
      BY <1>2, <3>1 DEF Begin
    <3>2. CASE Replay(a, c, k)
      <4> DEFINE row(i) == [at |-> "Answered", cmd |-> c, key |-> k, saw |-> "",
                            answer |-> Stored(journal[i])]
      <4>1. PICK i \in Entries(c, k) : attempt'[a] = row(i) \/ attempt'[a] = Refused
        BY <1>2, <3>2 DEF Replay
      <4>2. row(i).at = "Answered" /\ row(i).cmd = c
        OBVIOUS
      <4>3. Refused.at = "Refused" /\ Refused.cmd = Nothing
        BY DEF Refused, AtRest
      <4> HIDE DEF row
      <4> QED BY <4>1, <4>2, <4>3
    <3> QED BY <1>4, <3>1, <3>2
  <2> QED BY <1>1, <2>1, <2>2, <2>3 DEF tables, RowsInv, CommandsTypeOK, GlassFollows
<1>5. ASSUME NEW a \in Attempts, Execute(a) PROVE RowsInv'
  <2>1. attempt[a].cmd \in Commands /\ Perform(attempt[a].cmd, attempt[a].saw) /\ planned' = planned
    BY <1>5 DEF Execute, RowsInv, CommandsInv, Shapes
  <2>2. \A b \in Attempts : \/ attempt'[b] = attempt[b]
                            \/ attempt'[b].at = "Answered" /\ attempt'[b].cmd \in Commands
    BY <1>2, <1>5, <2>1 DEF Execute
  <2>3. GlassFollows' /\ glass'.status \in {"None", "Requested", "Approved"}
    BY <2>1, RowTypes DEF GlassFollows, GlassRows
  <2>4. CommandsTypeOK'
    BY <2>1, <2>2, <2>3, RowTypes DEF RowsInv, CommandsTypeOK
  <2> QED BY <1>1, <2>3, <2>4 DEF RowsInv
<1>6. ASSUME NEW a \in Attempts, RollBack(a) PROVE RowsInv'
  <2>1. Refused.at = "Refused" /\ Refused.cmd = Nothing
    BY DEF Refused, AtRest
  <2>2. \A b \in Attempts : attempt'[b] = IF b = a THEN Refused ELSE attempt[b]
    BY <1>2, <1>6 DEF RollBack
  <2> QED BY <1>1, <1>6, <2>1, <2>2 DEF RollBack, tables, RowsInv, CommandsTypeOK, GlassFollows
<1> QED BY <1>3, <1>4, <1>5, <1>6 DEF CommandsNext

\* ... and with them the types of the rows, and that a break-glass access that
\* was approved names two people (requestBreakGlass, approveBreakGlass).
THEOREM CommandsRows == CommandsSpec => []RowsInv
BY RowsStart, RowsStep, PTL DEF CommandsSpec

\* The types of the rows and of the attempts, with any number of either.
THEOREM CommandsTypes == CommandsSpec => []CommandsTypeOK
<1>1. RowsInv => CommandsTypeOK
  BY DEF RowsInv
<1> QED BY <1>1, CommandsRows, PTL

LEMMA GlassIsForTwo == RowsInv => TwoForBreakGlass
BY DEF RowsInv, GlassFollows, GlassRows, TwoForBreakGlass

\* Nobody has a break-glass session that was not approved by somebody else
\* (approveBreakGlass, startBreakGlassSession).
THEOREM CommandsTwoForBreakGlass == CommandsSpec => []TwoForBreakGlass
BY GlassIsForTwo, CommandsRows, PTL
=============================================================================
