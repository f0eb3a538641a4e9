--------------------------------- MODULE MCDesk ---------------------------------
(***************************************************************************)
(* What one person does all day, in one run: the chat and its audit, the   *)
(* check-ins, and the quests.  The three share no table, so a behaviour is *)
(* one of one of them: focus says which, and the others keep their initial *)
(* state.                                                                  *)
(***************************************************************************)
EXTENDS ChatAudit, Checkins, Quests, TLC

VARIABLE focus  \* the module this behaviour is about

deskVars == <<chatAuditVars, checkinVars, vars, focus>>

\* The modules that are not in focus start with their first bounds.
OneDesk ==
  /\ focus # "chat" => /\ atOnce = CHOOSE n \in CallerCounts : TRUE
                       /\ chatRoom = CHOOSE r \in ChatRooms : TRUE
  /\ focus # "checkins" => checkinRoom = CHOOSE r \in CheckinRooms : TRUE
  /\ focus # "quests" => workers = CHOOSE n \in WorkerCounts : TRUE

DeskInit ==
  /\ focus \in {"chat", "checkins", "quests"}
  /\ ChatAuditInit /\ CheckinInit /\ Init /\ OneDesk

DeskNext ==
  /\ \/ focus = "chat" /\ ChatAuditNext /\ UNCHANGED <<checkinVars, vars>>
     \/ focus = "checkins" /\ CheckinNext /\ UNCHANGED <<chatAuditVars, vars>>
     \/ focus = "quests" /\ Next /\ UNCHANGED <<chatAuditVars, checkinVars>>
  /\ UNCHANGED focus

DeskSpec == DeskInit /\ [][DeskNext]_deskVars

\* Two messages of a session; a message, and a run of three steps.
MCChatRooms ==
  {[sessions |-> 1, messages |-> 2, runs |-> 1, steps |-> 0],
   [sessions |-> 1, messages |-> 1, runs |-> 1, steps |-> 3]}

MCMovements == {-1, 2}

\* One request at a time, with three check-ins or with two edits; two requests at once.
MCCheckinRooms ==
  {[submitters |-> 1, rows |-> 3, edits |-> 1],
   [submitters |-> 1, rows |-> 2, edits |-> 2],
   [submitters |-> 2, rows |-> 2, edits |-> 1]}

MCProgresses == {-20, 40, 150}

\* Chats and check-ins are given the same requests; quests and their requests are
\* interchangeable.
DeskSymmetry == Permutations(Callers) \cup Permutations(QuestIds) \cup Permutations(Requests)

\* The tables of the three modules keep their types and references.
DeskTypeOK == ChatAuditTypeOK /\ CheckinTypeOK /\ TypeOK

\* What is finished stays: the audit of a chat and its outcome, and, one request at a
\* time, a completed quest.
FinishedStays == AuditStands /\ CompletedStays
================================================================================
