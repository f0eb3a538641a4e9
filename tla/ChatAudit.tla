------------------------------- MODULE ChatAudit -------------------------------
(***************************************************************************)
(* The chat session and agent audit services (app/services/chat.py,        *)
(* app/services/agent_audit.py, app/db/chat.py, app/db/agent_audit.py)     *)
(* called by independent requests.  ChatTurn models the one caller that    *)
(* strings them together in a transaction; here every call is a request of *)
(* its own: it reads without the lock, decides, and writes under it.       *)
(***************************************************************************)
EXTENDS Naturals, FiniteSets, FiniteSetsExt, Sums

CONSTANTS
  SessionIds, MessageIds, RunIds,
  StepKeys,      \* step_key of an append; NoStepKey: none was given
  NoStepKey,
  Costs,         \* estimated_cost_microusd of a step
  MaxInteger,    \* the largest integer SQLite stores
  Callers,       \* requests
  CallerCounts,  \* how many of them may run at the same time
  ChatRooms      \* bounds: rows of each table, one record chosen at the start

ASSUME ChatAuditAssumption ==
  /\ MessageIds \cup SessionIds \cup RunIds \subseteq Nat \ {0}
  /\ IsFiniteSet(MessageIds) /\ IsFiniteSet(Callers)
  /\ Costs \subseteq Nat /\ MaxInteger \in Nat
  /\ CallerCounts \subseteq Nat \ {0}
  /\ ChatRooms \subseteq [sessions : Nat, messages : Nat, runs : Nat, steps : Nat]

VARIABLES
  session,    \* chat_sessions: status and last_message_at, as the id of the message
  message,    \* chat_messages
  agentRun,   \* agent_runs, with the steps of each
  call,       \* what each caller has read and is about to write
  atOnce,     \* callers in progress, at most
  chatRoom    \* the record of ChatRooms this behaviour has

chatAuditVars == <<session, message, agentRun, call, atOnce, chatRoom>>

NoSession == [status |-> "none", last |-> 0]
NoMessage == [status |-> "none", session |-> 0, user |-> FALSE]
NoRun == [status |-> "none", session |-> 0, message |-> 0, steps |-> {}, count |-> 0, cost |-> 0]
NoCall == [op |-> "idle", id |-> 0]

ChatAuditInit ==
  /\ session = [s \in SessionIds |-> NoSession]
  /\ message = [m \in MessageIds |-> NoMessage]
  /\ agentRun = [r \in RunIds |-> NoRun]
  /\ call = [c \in Callers |-> NoCall]
  /\ atOnce \in CallerCounts
  /\ chatRoom \in ChatRooms

TableRows(table) == {id \in DOMAIN table : table[id].status # "none"}
LiveSessions == {s \in SessionIds : session[s].status \in {"active", "archived"}}
ChatMessages == {m \in MessageIds : message[m].status \in {"kept", "deleted"}}
AgentRuns == TableRows(agentRun)

\* Ids grow: the next row of a table.
IsNext(id, table, size) ==
  id \notin TableRows(table) /\ id <= size /\ \A i \in DOMAIN table : i < id => i \in TableRows(table)

Busy == {c \in Callers : call[c].op # "idle"}

Begin(c, op, id) ==
  /\ call[c].op = "idle" /\ Cardinality(Busy) < atOnce
  /\ call' = [call EXCEPT ![c] = [op |-> op, id |-> id]]
  /\ UNCHANGED <<session, message, agentRun>>

End(c, op) == call[c].op = op /\ call' = [call EXCEPT ![c] = NoCall]

\* The write found nothing to change, or raised and was rolled back.
GiveUpCall(c) ==
  /\ call[c].op # "idle"
  /\ call' = [call EXCEPT ![c] = NoCall]
  /\ UNCHANGED <<session, message, agentRun>>

-----------------------------------------------------------------------------
(* Sessions and messages.                                                  *)

\* create_chat_session
CreateSession(s) ==
  /\ IsNext(s, session, chatRoom.sessions)
  /\ session' = [session EXCEPT ![s].status = "active"]
  /\ UNCHANGED <<message, agentRun, call>>

\* Archiving twice keeps the first archived_at; rename_chat_session changes a title.
BeginArchive(c) == \E s \in LiveSessions : Begin(c, "archive", s)

ArchiveSession(c) ==
  /\ End(c, "archive")
  /\ session[call[c].id].status \in {"active", "archived"}
  /\ session' = [session EXCEPT ![call[c].id].status = "archived"]
  /\ UNCHANGED <<message, agentRun>>

BeginDeleteSession(c) == \E s \in LiveSessions : Begin(c, "delete session", s)

\* Mutant: the links are left as they are.
LeftLinked(ids) == agentRun

\* Links of the audit rows to deleted messages: ON DELETE SET NULL.
Unlinked(ids) ==
  [r \in RunIds |-> IF agentRun[r].message \in ids THEN [agentRun[r] EXCEPT !.message = 0]
                                                   ELSE agentRun[r]]

\* delete_chat_session: the messages go with the session, the runs stay.
DeleteSession(c) ==
  LET s == call[c].id
      own == {m \in MessageIds : message[m].session = s}
  IN  /\ End(c, "delete session")
      /\ session' = [session EXCEPT ![s] = [status |-> "gone", last |-> 0]]
      /\ message' = [m \in MessageIds |->
           IF m \in own THEN [message[m] EXCEPT !.status = "gone"] ELSE message[m]]
      /\ agentRun' = [r \in RunIds |->
           IF agentRun[r].session = s THEN [agentRun[r] EXCEPT !.session = 0, !.message = 0]
                                      ELSE agentRun[r]]

\* save_chat_message: the status of the session is looked at before the INSERT only.
BeginSave(c) == \E s \in LiveSessions : session[s].status = "active" /\ Begin(c, "save", s)

\* The foreign key refuses a session that was deleted meanwhile.
SaveMessage(c, m) ==
  LET s == call[c].id
  IN  /\ End(c, "save")
      /\ session[s].status # "gone"
      /\ IsNext(m, message, chatRoom.messages)
      /\ \E user \in BOOLEAN :
           message' = [message EXCEPT ![m] = [status |-> "kept", session |-> s, user |-> user]]
      /\ session' = [session EXCEPT ![s].last = m]
      /\ UNCHANGED agentRun

BeginDeleteMessage(c) == \E m \in ChatMessages : Begin(c, "delete message", m)

\* _refresh_session_activity, without this message.
Activity(m) ==
  LET s == message[m].session
      kept == {k \in ChatMessages : message[k].session = s /\ message[k].status = "kept" /\ k # m}
  IN  IF s \in LiveSessions
      THEN [session EXCEPT ![s].last = IF kept = {} THEN 0 ELSE Max(kept)]
      ELSE session

\* delete_chat_message, which marks the row or removes it.
DeleteMessage(c) ==
  LET m == call[c].id
  IN  /\ End(c, "delete message")
      /\ message[m].status # "gone"
      /\ \E status \in {"deleted", "gone"} :
           /\ message' = [message EXCEPT ![m].status = status]
           /\ session' = Activity(m)
           /\ agentRun' = IF status = "gone" THEN Unlinked({m}) ELSE agentRun

-----------------------------------------------------------------------------
(* Runs and steps.                                                         *)

BeginRun(c) == \E m \in ChatMessages : Begin(c, "run", m)

\* create_agent_run: INSERT ... SELECT asks for an active session and a user
\* message that is not deleted.
CreateRun(c, r) ==
  LET m == call[c].id
      s == message[m].session
  IN  /\ End(c, "run") /\ IsNext(r, agentRun, chatRoom.runs)
      /\ message[m].status = "kept" /\ message[m].user /\ session[s].status = "active"
      /\ agentRun' = [agentRun EXCEPT ![r] =
           [NoRun EXCEPT !.status = "running", !.session = s, !.message = m]]
      /\ UNCHANGED <<session, message>>

KeyTaken(r, key) == key # NoStepKey /\ \E s \in agentRun[r].steps : s.key = key

BeginAppend(c) ==
  \E r \in AgentRuns : agentRun[r].status = "running" /\ Begin(c, "append", r)

\* Mutant: the number of a step is the number of steps that were completed.
NumberByCount(r) == Cardinality({s \in agentRun[r].steps : s.cost > 0}) + 1

\* COALESCE(MAX(step_number), 0) + 1
NextNumber(r) == Max({0} \cup {s.number : s \in agentRun[r].steps}) + 1

\* SUM(estimated_cost_microusd)
CostOf(steps) == SumOf([s \in steps |-> s.cost], steps)

\* _refresh_agent_run_totals
Totals(run) ==
  [run EXCEPT !.count = Cardinality(run.steps), !.cost = CostOf(run.steps)]

\* append_agent_step, from its savepoint: number, row and totals, or nothing when
\* the run ended, the key is taken or a total overflows.
AppendStep(c) ==
  LET r == call[c].id
  IN  /\ End(c, "append")
      /\ agentRun[r].status = "running"
      /\ Cardinality(agentRun[r].steps) < chatRoom.steps
      /\ \E key \in StepKeys, cost \in Costs :
           LET step == [number |-> NextNumber(r), key |-> key, cost |-> cost]
               run == Totals([agentRun[r] EXCEPT !.steps = @ \cup {step}])
           IN  /\ ~KeyTaken(r, key) /\ run.cost <= MaxInteger
               /\ agentRun' = [agentRun EXCEPT ![r] = run]
      /\ UNCHANGED <<session, message>>

BeginFinalize(c) ==
  \E r \in AgentRuns : agentRun[r].status = "running" /\ Begin(c, "finalize", r)

TerminalStatuses == {"completed", "failed", "cancelled"}

\* Mutant: the last UPDATE asks for the id alone.
FinalizeAgain(c) ==
  LET r == call[c].id
  IN  /\ End(c, "finalize")
      /\ \E status \in TerminalStatuses :
           agentRun' = [agentRun EXCEPT ![r] = [Totals(agentRun[r]) EXCEPT !.status = status]]
      /\ UNCHANGED <<session, message>>

\* finalize_agent_run: totals and status, of a run that is still running.
FinalizeRun(c) ==
  LET r == call[c].id
  IN  /\ End(c, "finalize")
      /\ agentRun[r].status = "running"
      /\ \E status \in TerminalStatuses :
           agentRun' = [agentRun EXCEPT ![r] = [Totals(agentRun[r]) EXCEPT !.status = status]]
      /\ UNCHANGED <<session, message>>

ChatAuditStep ==
  \/ \E s \in SessionIds : CreateSession(s)
  \/ \E c \in Callers :
       \/ BeginArchive(c) \/ ArchiveSession(c)
       \/ BeginDeleteSession(c) \/ DeleteSession(c)
       \/ BeginSave(c) \/ \E m \in MessageIds : SaveMessage(c, m)
       \/ BeginDeleteMessage(c) \/ DeleteMessage(c)
       \/ BeginRun(c) \/ \E r \in RunIds : CreateRun(c, r)
       \/ BeginAppend(c) \/ AppendStep(c)
       \/ BeginFinalize(c) \/ FinalizeRun(c)
       \/ GiveUpCall(c)

ChatAuditNext == ChatAuditStep /\ UNCHANGED <<atOnce, chatRoom>>

ChatAuditSpec == ChatAuditInit /\ [][ChatAuditNext]_chatAuditVars

-----------------------------------------------------------------------------
(* Properties.                                                             *)

StepRow == [number : Nat \ {0}, key : StepKeys, cost : Costs]

\* The variables have their types, and rows point at rows that are there.
ChatAuditTypeOK ==
  /\ session \in [SessionIds -> [status : {"none", "active", "archived", "gone"},
                                 last : MessageIds \cup {0}]]
  /\ message \in [MessageIds -> [status : {"none", "kept", "deleted", "gone"},
                                 session : SessionIds \cup {0}, user : BOOLEAN]]
  /\ \A r \in RunIds :
       /\ agentRun[r].status \in {"none", "running"} \cup TerminalStatuses
       /\ agentRun[r].steps \in SUBSET StepRow
       /\ agentRun[r].cost \in 0..MaxInteger
       /\ agentRun[r].session \in LiveSessions \cup {0}
       /\ agentRun[r].message \in ChatMessages \cup {0}
  /\ Cardinality(Busy) <= atOnce

\* The list of chats sorts by the newest message that is not deleted, whoever
\* saves and deletes at the same time.
ActivityIsNewest ==
  \A s \in LiveSessions :
    LET kept == {m \in ChatMessages : message[m].session = s /\ message[m].status = "kept"}
    IN  session[s].last = IF kept = {} THEN 0 ELSE Max(kept)

\* The steps of a run are numbered from one without a gap or a repeat, a step
\* key is used once, and the totals are those of the steps: appends that race with
\* each other, with a retry or with the end of the run leave nothing half done.
StepsAndTotalsAgree ==
  \A r \in AgentRuns :
    LET run == agentRun[r]
    IN  /\ {s.number : s \in run.steps} = 1..Cardinality(run.steps)
        /\ \A s, t \in run.steps : s.key = t.key /\ s.key # NoStepKey => s = t
        /\ run.count = Cardinality(run.steps)
        /\ run.cost = CostOf(run.steps)

\* Derived columns agree with the rows they are derived from, whatever overlaps.
ChatRowsAgree == ActivityIsNewest /\ StepsAndTotalsAgree

\* A run starts from a user message that can be seen, in an open session, even
\* when the message is deleted or the session archived after the lookups.
RunsStartFromLiveMessages ==
  [][\A r \in AgentRuns' \ AgentRuns :
       LET m == agentRun'[r].message
       IN  message[m].status = "kept" /\ message[m].user
           /\ session[message[m].session].status = "active"]_chatAuditVars

\* An audit row outlives the chat it is about, and a run that has ended keeps its
\* outcome, steps and totals.
AuditOutlivesChat ==
  [][\A r \in AgentRuns :
       /\ r \in AgentRuns'
       /\ agentRun[r].steps \subseteq agentRun'[r].steps
       /\ agentRun[r].status # "running" =>
            /\ agentRun'[r].status = agentRun[r].status
            /\ agentRun'[r].steps = agentRun[r].steps
            /\ agentRun'[r].cost = agentRun[r].cost]_chatAuditVars

\* With one caller at a time an archived session gets no message.  With more, the
\* session can be archived between the look at its status and the INSERT.
ArchivedStaysQuiet ==
  [][atOnce = 1 =>
       \A s \in SessionIds : session[s].status = "archived" =>
         \A m \in ChatMessages' \ ChatMessages : message'[m].session # s]_chatAuditVars

\* The audit of a chat: runs start where they may, outlive their chat and keep their
\* outcome, and archived sessions stay quiet.
AuditStands == RunsStartFromLiveMessages /\ AuditOutlivesChat /\ ArchivedStaysQuiet
=============================================================================
