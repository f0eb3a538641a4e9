------------------------------ MODULE Staff_proofs ------------------------------
(***************************************************************************)
(* That sessions and leads follow the account they belong to, that a row   *)
(* of the history is changed by its author and the owner alone, and that   *)
(* what comes in twice makes one lead: for any browsers, tabs, requests,   *)
(* rows and files.                                                         *)
(*                                                                         *)
(* A request of the history carries what its checks established, so its    *)
(* write needs no more than that; a session carries the version of the     *)
(* account its row was read with, which may be later than the password was *)
(* verified, and every change of the account gives it a new one.           *)
(***************************************************************************)
EXTENDS MCStaff, Sums_proofs

-----------------------------------------------------------------------------
(* The history of a lead.                                                  *)

TaskRow == [op : {"idle", "record", "correct", "delete", "restore"},
            user : CrmUsers \cup {Nobody}, id : ActivityIds \cup {0}, fields : Fields]
ActivityRow == [status : {"none", "kept", "deleted"}, fields : Fields,
                author : CrmUsers \cup {Nobody}, corrector : CrmUsers \cup {Nobody}]

\* What a form says when its user may say it.
Speaks(user, fields) ==
  /\ fields.followUp => fields.responsible # Nobody
  /\ user # "owner" =>
       /\ fields.performer = user
       /\ fields.type = IF user = "sourcer" THEN "research" ELSE "contact"
       /\ user = "sourcer" => fields.channel = "internal"

\* What the checks of a request left for its write.
TaskOK(task) ==
  /\ task.op \in {"record", "correct"} => task.user \in CrmUsers /\ Speaks(task.user, task.fields)
  /\ task.op \in {"correct", "delete", "restore"} => task.user \in CrmUsers /\ task.id \in ActivityIds
  /\ task.op = "restore" => task.user = "owner"

RowOK(row) ==
  /\ row.status # "none" =>
       /\ row.author # Nobody
       /\ row.fields.followUp => row.fields.responsible # Nobody
  /\ row.status = "deleted" => row.corrector # Nobody
  /\ row.status = "kept" => Speaks(LastWriter(row), row.fields)

ActivityInv ==
  /\ activity \in [ActivityIds -> ActivityRow]
  /\ clerk \in [Clerks -> TaskRow]
  /\ crmActive \subseteq CrmUsers
  /\ \A i \in ActivityIds : RowOK(activity[i])
  /\ \A c \in Clerks : TaskOK(clerk[c])

\* Who is about to change a row is its author or the owner; authors stay.
Rightful(task) ==
  task.op \in {"correct", "delete"} =>
    /\ activity[task.id].status # "none"
    /\ task.user \in {"owner", activity[task.id].author}

TasksRightful == \A c \in Clerks : Rightful(clerk[c])

\* _normalized_values lets through what its user may say.
LEMMA AcceptableSpeaks ==
  ASSUME NEW user \in CrmUsers, NEW fields \in Fields, Acceptable(user, fields)
  PROVE  Speaks(user, fields)
BY DEF Acceptable, AllowedTypes, Delegated, Speaks, CrmUsers, Fields

LEMMA ActivityInitially == ActivityInit => ActivityInv
BY DEF ActivityInit, ActivityInv, NoActivity, NoTask, NoFields, ActivityRow, TaskRow, Fields,
       CrmUsers, RowOK, TaskOK

\* A request is taken up, given up, or finished.
LEMMA TaskChange ==
  ASSUME ActivityInv, NEW c \in Clerks, NEW task \in TaskRow, TaskOK(task),
         clerk' = [clerk EXCEPT ![c] = task]
  PROVE  clerk' \in [Clerks -> TaskRow] /\ \A d \in Clerks : TaskOK(clerk'[d])
BY DEF ActivityInv

LEMMA NoTaskIs == NoTask \in TaskRow /\ TaskOK(NoTask)
BY DEF NoTask, NoFields, TaskRow, TaskOK, Fields, CrmUsers

\* One row of the history is written.
LEMMA RowChange ==
  ASSUME ActivityInv, NEW i \in ActivityIds, NEW row \in ActivityRow, RowOK(row),
         activity' = [activity EXCEPT ![i] = row]
  PROVE  activity' \in [ActivityIds -> ActivityRow] /\ \A j \in ActivityIds : RowOK(activity'[j])
BY DEF ActivityInv

\* How a step may change the rows: as HistoryStands says.
RowsStand ==
  \A i \in ActivityIds :
    activity[i].status # "none" /\ activity'[i] # activity[i] =>
      /\ activity'[i].status # "none"
      /\ activity'[i].author = activity[i].author
      /\ activity[i].status = "deleted" =>
           activity'[i].status = "kept" /\ activity'[i].fields = activity[i].fields
      /\ activity'[i].corrector \in {"owner", activity[i].author}
      /\ \E c \in Clerks : clerk[c].id = i /\ activity'[i].corrector = clerk[c].user

\* The writes.
LEMMA WriteKeeps ==
  ASSUME ActivityInv, NEW c \in Clerks, NEW op, Finish(c, op),
         NEW i \in ActivityIds, NEW row \in ActivityRow, RowOK(row),
         activity' = [activity EXCEPT ![i] = row],
         activity[i].status # "none" =>
           /\ row.status # "none" /\ row.author = activity[i].author
           /\ activity[i].status = "deleted" =>
                row.status = "kept" /\ row.fields = activity[i].fields
           /\ row.corrector \in {"owner", activity[i].author}
           /\ clerk[c].id = i /\ row.corrector = clerk[c].user
  PROVE  ActivityInv' /\ RowsStand
<1>1. clerk' = [clerk EXCEPT ![c] = NoTask] /\ crmActive' = crmActive
  BY DEF Finish
<1>2. ActivityInv'
  BY <1>1, NoTaskIs, TaskChange, RowChange DEF ActivityInv
<1>3. activity'[i] = row /\ \A j \in ActivityIds \ {i} : activity'[j] = activity[j]
  BY DEF ActivityInv
<1> QED
  BY <1>2, <1>3 DEF RowsStand

LEMMA ActivityStepKeeps ==
  ASSUME ActivityInv, TasksRightful, ActivityNext
  PROVE  ActivityInv' /\ RowsStand
<1>0. \A c \in Clerks : clerk[c] \in TaskRow /\ TaskOK(clerk[c])
  BY DEF ActivityInv
<1>1. \A i \in ActivityIds : activity[i] \in ActivityRow /\ RowOK(activity[i])
  BY DEF ActivityInv
<1>2. ASSUME NEW c \in Clerks, NEW task \in TaskRow, TaskOK(task), Undertake(c, task)
      PROVE  ActivityInv' /\ RowsStand
  BY <1>2, TaskChange DEF Undertake, ActivityInv, RowsStand
<1>3. ASSUME NEW c \in Clerks, CheckRecord(c)
      PROVE  ActivityInv' /\ RowsStand
  <2>1. PICK user \in CrmUsers, fields \in Offered :
          /\ Acceptable(user, fields)
          /\ Undertake(c, [op |-> "record", user |-> user, id |-> 0, fields |-> fields])
    BY <1>3 DEF CheckRecord
  <2>2. fields \in Fields /\ Speaks(user, fields)
    BY <2>1, ActivitiesAssumption, AcceptableSpeaks
  <2> DEFINE task == [op |-> "record", user |-> user, id |-> 0, fields |-> fields]
  <2>3. task \in TaskRow /\ TaskOK(task)
    BY <2>2 DEF TaskRow, TaskOK
  <2> QED
    BY <1>2, <2>1, <2>3
<1>4. ASSUME NEW c \in Clerks, NEW i \in ActivityIds, Record(c, i)
      PROVE  ActivityInv' /\ RowsStand
  <2> DEFINE row == [status |-> "kept", fields |-> clerk[c].fields, author |-> clerk[c].user,
                     corrector |-> Nobody]
  <2>1. /\ Finish(c, "record") /\ activity[i].status = "none"
        /\ activity' = [activity EXCEPT ![i] = row]
    BY <1>4 DEF Record
  <2>2. clerk[c].op = "record" /\ clerk[c].user \in CrmUsers /\ Speaks(clerk[c].user, clerk[c].fields)
    BY <1>0, <2>1 DEF Finish, TaskOK
  <2>3. row \in ActivityRow
    BY <1>0, <2>2 DEF ActivityRow, TaskRow
  <2>4. RowOK(row)
    BY <2>2 DEF RowOK, LastWriter, Speaks, CrmUsers, Nobody
  <2> HIDE DEF row
  <2> QED
    BY <2>1, <2>3, <2>4, WriteKeeps
<1>5. ASSUME NEW c \in Clerks, CheckCorrection(c)
      PROVE  ActivityInv' /\ RowsStand
  <2>1. PICK user \in CrmUsers, i \in KeptActivities, fields \in Offered :
          /\ Acceptable(user, fields)
          /\ Undertake(c, [op |-> "correct", user |-> user, id |-> i, fields |-> fields])
    BY <1>5 DEF CheckCorrection
  <2>2. fields \in Fields /\ Speaks(user, fields) /\ i \in ActivityIds
    BY <2>1, ActivitiesAssumption, AcceptableSpeaks DEF KeptActivities
  <2> DEFINE task == [op |-> "correct", user |-> user, id |-> i, fields |-> fields]
  <2>3. task \in TaskRow /\ TaskOK(task)
    BY <2>2 DEF TaskRow, TaskOK
  <2> QED
    BY <1>2, <2>1, <2>3
<1>6. ASSUME NEW c \in Clerks, Correct(c)
      PROVE  ActivityInv' /\ RowsStand
  <2> DEFINE i == clerk[c].id
             row == [activity[i] EXCEPT !.fields = clerk[c].fields, !.corrector = clerk[c].user]
  <2>1. /\ Finish(c, "correct") /\ i \in ActivityIds /\ activity[i].status = "kept"
        /\ activity' = [activity EXCEPT ![i].fields = clerk[c].fields,
                                        ![i].corrector = clerk[c].user]
    BY <1>6 DEF Correct, KeptActivities
  <2>2. clerk[c].user \in CrmUsers /\ Speaks(clerk[c].user, clerk[c].fields)
    BY <1>0, <2>1 DEF Finish, TaskOK
  <2>3. activity' = [activity EXCEPT ![i] = row]
    BY <2>1
  <2>4. row \in ActivityRow /\ row.status = "kept" /\ row.author = activity[i].author
        /\ row.fields = clerk[c].fields /\ row.corrector = clerk[c].user
    BY <1>0, <1>1, <2>1, <2>2 DEF ActivityRow, TaskRow
  <2>6. row.corrector \in {"owner", activity[i].author}
    BY <2>1, <2>4 DEF TasksRightful, Rightful, Finish
  <2>5. RowOK(row)
    BY <1>1, <2>1, <2>2, <2>4 DEF RowOK, LastWriter, Speaks, CrmUsers, Nobody
  <2> HIDE DEF row
  <2> QED
    BY <2>1, <2>3, <2>4, <2>5, <2>6, WriteKeeps
<1>7. ASSUME NEW c \in Clerks, CheckDelete(c)
      PROVE  ActivityInv' /\ RowsStand
  <2>1. PICK user \in CrmUsers, i \in KeptActivities :
          Undertake(c, [NoTask EXCEPT !.op = "delete", !.user = user, !.id = i])
    BY <1>7 DEF CheckDelete
  <2> DEFINE task == [NoTask EXCEPT !.op = "delete", !.user = user, !.id = i]
  <2>2. task \in TaskRow /\ TaskOK(task)
    BY NoTaskIs DEF KeptActivities, NoTask, TaskRow, TaskOK
  <2> QED
    BY <1>2, <2>1, <2>2
<1>8. ASSUME NEW c \in Clerks, Delete(c)
      PROVE  ActivityInv' /\ RowsStand
  <2> DEFINE i == clerk[c].id
             row == [activity[i] EXCEPT !.status = "deleted", !.corrector = clerk[c].user]
  <2>1. /\ Finish(c, "delete") /\ i \in ActivityIds /\ activity[i].status = "kept"
        /\ activity' = [activity EXCEPT ![i].status = "deleted",
                                        ![i].corrector = clerk[c].user]
    BY <1>8 DEF Delete, KeptActivities
  <2>2. clerk[c].user \in CrmUsers
    BY <1>0, <2>1 DEF Finish, TaskOK
  <2>3. activity' = [activity EXCEPT ![i] = row]
    BY <2>1
  <2>4. row \in ActivityRow /\ row.status = "deleted" /\ row.author = activity[i].author
        /\ row.fields = activity[i].fields /\ row.corrector = clerk[c].user
    BY <1>0, <1>1, <2>1, <2>2 DEF ActivityRow
  <2>6. row.corrector \in {"owner", activity[i].author}
    BY <2>1, <2>4 DEF TasksRightful, Rightful, Finish
  <2>5. RowOK(row)
    BY <1>1, <2>1, <2>2, <2>4 DEF RowOK, CrmUsers, Nobody
  <2> HIDE DEF row
  <2> QED
    BY <2>1, <2>3, <2>4, <2>5, <2>6, WriteKeeps
<1>9. ASSUME NEW c \in Clerks, CheckRestore(c)
      PROVE  ActivityInv' /\ RowsStand
  <2>1. PICK i \in ActivityIds :
          Undertake(c, [NoTask EXCEPT !.op = "restore", !.user = "owner", !.id = i])
    BY <1>9 DEF CheckRestore
  <2> DEFINE task == [NoTask EXCEPT !.op = "restore", !.user = "owner", !.id = i]
  <2>2. task \in TaskRow /\ TaskOK(task)
    BY NoTaskIs DEF NoTask, TaskRow, TaskOK, CrmUsers
  <2> QED
    BY <1>2, <2>1, <2>2
<1>10. ASSUME NEW c \in Clerks, Restore(c)
       PROVE  ActivityInv' /\ RowsStand
  <2> DEFINE i == clerk[c].id
             row == [activity[i] EXCEPT !.status = "kept", !.corrector = clerk[c].user]
  <2>1. /\ Finish(c, "restore") /\ activity[i].status = "deleted"
        /\ activity' = [activity EXCEPT ![i].status = "kept", ![i].corrector = clerk[c].user]
    BY <1>10 DEF Restore
  <2>2. clerk[c].user = "owner" /\ i \in ActivityIds
    BY <1>0, <2>1 DEF Finish, TaskOK
  <2>3. activity' = [activity EXCEPT ![i] = row]
    BY <2>1
  <2>4. row \in ActivityRow /\ row.status = "kept" /\ row.author = activity[i].author
        /\ row.fields = activity[i].fields /\ row.corrector = "owner"
    BY <1>1, <2>2 DEF ActivityRow, CrmUsers
  <2>5. RowOK(row)
    BY <1>1, <2>1, <2>2, <2>4 DEF RowOK, LastWriter, Speaks, Nobody
  <2>6. /\ row.status # "none" /\ row.author = activity[i].author
        /\ row.status = "kept" /\ row.fields = activity[i].fields
        /\ clerk[c].id = i /\ row.corrector = clerk[c].user
    BY <2>2, <2>4
  <2> HIDE DEF row, i
  <2> QED
    BY <2>1, <2>2, <2>3, <2>4, <2>5, <2>6, WriteKeeps
<1>11. ASSUME NEW c \in Clerks, AbandonTask(c)
       PROVE  ActivityInv' /\ RowsStand
  BY <1>11, NoTaskIs, TaskChange DEF AbandonTask, ActivityInv, RowsStand
<1>12. CASE ChangeLead
  <2>1. UNCHANGED <<activity, crmActive, clerk>>
    BY <1>12 DEF ChangeLead
  <2> QED
    BY <2>1 DEF ActivityInv, RowsStand
<1>13. ASSUME NEW user \in CrmUsers, DeactivateUser(user)
       PROVE  ActivityInv' /\ RowsStand
  <2>1. UNCHANGED <<activity, clerk>> /\ crmActive' \subseteq crmActive
    BY <1>13 DEF DeactivateUser
  <2> QED
    BY <2>1 DEF ActivityInv, RowsStand
<1> QED
  BY <1>3, <1>4, <1>5, <1>6, <1>7, <1>8, <1>9, <1>10, <1>11, <1>12, <1>13 DEF ActivityNext

\* Whoever was to change a row stays its author or the owner, and nobody else asks to.
LEMMA RightfulStep ==
  ASSUME ActivityInv, TasksRightful, RowsStand, ActivityNext
  PROVE  TasksRightful'
<1> SUFFICES ASSUME NEW c \in Clerks, clerk'[c].op \in {"correct", "delete"}
             PROVE  /\ activity'[clerk'[c].id].status # "none"
                    /\ clerk'[c].user \in {"owner", activity'[clerk'[c].id].author}
  BY DEF TasksRightful, Rightful
<1>0. clerk \in [Clerks -> TaskRow] /\ NoTask.op = "idle"
  BY DEF ActivityInv, NoTask
<1>1. CASE clerk'[c] = clerk[c]
  <2>1. /\ clerk[c].id \in ActivityIds /\ activity[clerk[c].id].status # "none"
        /\ clerk[c].user \in {"owner", activity[clerk[c].id].author}
    BY <1>1 DEF TasksRightful, Rightful, ActivityInv, TaskOK
  <2>2. /\ activity'[clerk[c].id].status # "none"
        /\ activity'[clerk[c].id].author = activity[clerk[c].id].author
    BY <2>1 DEF RowsStand
  <2> QED
    BY <1>1, <2>1, <2>2
<1>2. ASSUME NEW d \in Clerks, NEW task, Undertake(d, task), Rightful(task)
      PROVE  activity'[clerk'[c].id].status # "none"
             /\ clerk'[c].user \in {"owner", activity'[clerk'[c].id].author}
  <2>1. clerk'[c] = clerk[c] \/ clerk'[c] = task
    BY <1>0, <1>2 DEF Undertake
  <2>2. activity' = activity
    BY <1>2 DEF Undertake
  <2> QED
    BY <1>1, <1>2, <2>1, <2>2 DEF Rightful
<1>3. ASSUME NEW d \in Clerks, CheckRecord(d)
      PROVE  activity'[clerk'[c].id].status # "none"
             /\ clerk'[c].user \in {"owner", activity'[clerk'[c].id].author}
  <2>1. PICK user \in CrmUsers, fields \in Offered :
          Undertake(d, [op |-> "record", user |-> user, id |-> 0, fields |-> fields])
    BY <1>3 DEF CheckRecord
  <2> QED
    BY <1>2, <2>1 DEF Rightful
<1>4. ASSUME NEW d \in Clerks, CheckRestore(d)
      PROVE  activity'[clerk'[c].id].status # "none"
             /\ clerk'[c].user \in {"owner", activity'[clerk'[c].id].author}
  <2>1. PICK i \in ActivityIds :
          Undertake(d, [NoTask EXCEPT !.op = "restore", !.user = "owner", !.id = i])
    BY <1>4 DEF CheckRestore
  <2>2. [NoTask EXCEPT !.op = "restore", !.user = "owner", !.id = i].op = "restore"
    BY DEF NoTask
  <2> QED
    BY <1>2, <2>1, <2>2 DEF Rightful
<1>8. ASSUME NEW d \in Clerks, CheckCorrection(d)
      PROVE  activity'[clerk'[c].id].status # "none"
             /\ clerk'[c].user \in {"owner", activity'[clerk'[c].id].author}
  <2>1. PICK user \in CrmUsers, i \in KeptActivities, fields \in Offered :
          /\ MayCorrect(user, activity[i])
          /\ Undertake(d, [op |-> "correct", user |-> user, id |-> i, fields |-> fields])
    BY <1>8 DEF CheckCorrection
  <2>2. Rightful([op |-> "correct", user |-> user, id |-> i, fields |-> fields])
    BY <2>1 DEF Rightful, MayCorrect, KeptActivities
  <2> QED
    BY <1>2, <2>1, <2>2
<1>9. ASSUME NEW d \in Clerks, CheckDelete(d)
      PROVE  activity'[clerk'[c].id].status # "none"
             /\ clerk'[c].user \in {"owner", activity'[clerk'[c].id].author}
  <2>1. PICK user \in CrmUsers, i \in KeptActivities :
          /\ MayCorrect(user, activity[i])
          /\ Undertake(d, [NoTask EXCEPT !.op = "delete", !.user = user, !.id = i])
    BY <1>9 DEF CheckDelete
  <2> DEFINE task == [NoTask EXCEPT !.op = "delete", !.user = user, !.id = i]
  <2>2. task.user = user /\ task.id = i
    BY DEF NoTask
  <2>3. Rightful(task)
    BY <2>1, <2>2 DEF Rightful, MayCorrect, KeptActivities
  <2> QED
    BY <1>2, <2>1, <2>3
<1>5. ASSUME NEW d \in Clerks, clerk' = [clerk EXCEPT ![d] = NoTask]
      PROVE  activity'[clerk'[c].id].status # "none"
             /\ clerk'[c].user \in {"owner", activity'[clerk'[c].id].author}
  BY <1>0, <1>1, <1>5
<1>6. ASSUME NEW d \in Clerks,
             \/ \E i \in ActivityIds : Record(d, i)
             \/ Correct(d) \/ Delete(d) \/ Restore(d) \/ AbandonTask(d)
      PROVE  clerk' = [clerk EXCEPT ![d] = NoTask]
  BY <1>6 DEF Record, Correct, Delete, Restore, AbandonTask, Finish
<1>7. CASE UNCHANGED clerk
  BY <1>1, <1>7
<1> QED
  BY <1>3, <1>4, <1>5, <1>6, <1>7, <1>8, <1>9 DEF ActivityNext, ChangeLead, DeactivateUser

LEMMA ActivityHolds ==
  ActivitySpec => [](ActivityInv /\ TasksRightful) /\ [][RowsStand]_activityVars
<1>1. ActivityInit => ActivityInv /\ TasksRightful
  BY ActivityInitially DEF ActivityInit, TasksRightful, Rightful, NoTask
<1>2. ASSUME ActivityInv, TasksRightful, [ActivityNext]_activityVars
      PROVE  (ActivityInv /\ TasksRightful)' /\ [RowsStand]_activityVars
  <2>1. CASE ActivityNext
    BY <1>2, <2>1, ActivityStepKeeps, RightfulStep
  <2>2. CASE UNCHANGED activityVars
    BY <1>2, <2>2 DEF activityVars, ActivityInv, TasksRightful, Rightful
  <2> QED
    BY <1>2, <2>1, <2>2
<1> QED
  BY <1>1, <1>2, PTL DEF ActivitySpec

\* The history keeps its types, and a deleted row names who deleted it.
THEOREM ActivitiesTyped == ActivitySpec => []ActivityTypeOK
<1>1. ActivityInv => ActivityTypeOK
  BY DEF ActivityInv, ActivityTypeOK, ActivityRow, RowOK
<1> QED
  BY <1>1, ActivityHolds, PTL

\* However checks, writes, deletions and changes of the lead and the accounts
\* interleave, a follow-up date has a name beside it, staff speak for themselves, no
\* row is lost, and nobody but its author and the owner changes one, and signs it
\* (create_activity, correct_activity, soft_delete_activity, restore_activity).
THEOREM TheHistoryAnswers == ActivitySpec => HistoryAnswers
<1>1. ActivityInv => FollowUpHasResponsible /\ StaffSpeakForThemselves
  BY DEF ActivityInv, FollowUpHasResponsible, StaffSpeakForThemselves, KeptActivities, RowOK,
         Speaks
<1>2. [RowsStand]_activityVars =>
        [\A i \in ActivityIds :
           activity[i].status # "none" /\ activity'[i] # activity[i] =>
             /\ activity'[i].status # "none"
             /\ activity'[i].author = activity[i].author
             /\ activity[i].status = "deleted" =>
                  activity'[i].status = "kept" /\ activity'[i].fields = activity[i].fields
             /\ activity'[i].corrector \in {"owner", activity[i].author}
             /\ \E c \in Clerks :
                  clerk[c].id = i /\ activity'[i].corrector = clerk[c].user]_activityVars
  BY DEF RowsStand
<1> QED
  BY <1>1, <1>2, ActivityHolds, PTL DEF HistoryAnswers, HistoryStands

-----------------------------------------------------------------------------
(* Accounts and their sessions.                                            *)

BrowserRow == [stage : {"out", "known", "read", "landing", "in", "changing", "revoking"},
               version : Nat, row : {"none", "live", "revoked"},
               workspace : Workspaces \cup {NoWorkspace}, next : Pages \cup {Nowhere},
               page : {"login", "password", "page", "forbidden"}, hops : {0, 1, 2},
               proof : {"none", "current", "overtaken", "old"}, must : BOOLEAN]
RequestRow == [op : {"idle", "access", "contact", "active", "reset", "assign"},
               workspace : Workspaces \cup {NoWorkspace},
               role : MembershipRoles \cup {NoMembership}, on : BOOLEAN]
AccountRow == [role : AccountRoles, status : {"none", "active", "inactive"},
               must : BOOLEAN, version : Nat \ {0}]
MemberRow == [role : MembershipRoles \cup {NoMembership}, active : BOOLEAN, contact : BOOLEAN]
RolesHere == {NoMembership} \cup MembershipRolesOf(account.role)
               \cup {r \in {"workspace_admin"} : account.role = "owner"}

\* The tables.
AccountKept ==
  /\ accountRoom \in AccountRooms
  /\ account \in AccountRow /\ account.version <= accountRoom.version
  /\ membership \in [Workspaces -> MemberRow]
  /\ \A w \in Workspaces : membership[w].role \in RolesHere
  /\ holds \subseteq Workspaces
  /\ browser \in [Browsers -> BrowserRow]
  /\ desk \in [Desks -> RequestRow]

Accepted(s) ==
  account.status = "active" /\ s.version = account.version /\ s.row = "live"

ActorOf(s) == ActorIn(Resolve(s.workspace))

\* A page that is not redirected any more.
Final(s) ==
  /\ account.must => s.next = "password"
  /\ s.next = "relationship-manager" =>
       account.role = "relationship_manager" /\ ActorOf(s).workspace # NoWorkspace

\* A session: its version is at most the account's; one of the account's version stands
\* on a password verified since the last change, or while that change overtook it, and
\* has shown nothing but the password page while a new password is due; where it was
\* sent once it may go, and where it was sent twice it stays.
SessionOK(s) ==
  /\ s.version <= account.version
  /\ s.version = account.version =>
       /\ s.proof \in {"current", "overtaken"}
       /\ account.must => s.page \in {"login", "password"}
  /\ s.stage \in {"known", "changing"} => s.proof \in {"current", "overtaken"}
  /\ s.stage \in {"out", "known"} => s.page = "login"
  /\ account.status = "none" => s.stage = "out" /\ s.row = "none"
  /\ s.stage \in {"changing", "revoking"} => s.next = Nowhere
  /\ s.stage = "in" /\ s.next # Nowhere /\ Accepted(s) =>
       /\ s.hops # 0 => CanOpen(ActorOf(s), s.next)
       /\ s.hops = 2 => Final(s)

\* What a tab has checked, as far as nobody else could change it since.
RequestOK(r) ==
  /\ r.op \in {"access", "contact", "assign"} => r.workspace \in Workspaces
  /\ r.op = "access" => r.role \in MembershipRolesOf(account.role)
  /\ r.op = "assign" /\ accountRoom.desks = 1 =>
       account.status = "active" /\ membership[r.workspace].active

\* One tab works at a time where there is one.
OneTab ==
  accountRoom.desks = 1 =>
    \A t, u \in Desks : desk[t].op # "idle" /\ desk[u].op # "idle" => t = u

AccountInv ==
  /\ AccountKept
  /\ \A b \in Browsers : SessionOK(browser[b])
  /\ \A t \in Desks : RequestOK(desk[t])
  /\ OneTab
  /\ NothingHeldWithoutAccess

LEMMA RoomIs == ASSUME AccountKept PROVE accountRoom.desks \in Nat
  /\ accountRoom.pages \subseteq Pages /\ accountRoom.version \in Nat \ {0}
  /\ accountRoom.contact \subseteq Workspaces
BY AccountsAssumption DEF AccountKept

LEMMA SignedOutIs == SignedOut \in BrowserRow /\ SignedOut.stage = "out"
  /\ SignedOut.version = 0 /\ SignedOut.row = "none" /\ SignedOut.next = Nowhere
  /\ SignedOut.hops = 0 /\ SignedOut.page = "login"
BY DEF SignedOut, BrowserRow

\* A redirect, and whatever else a page leaves in the row.
LEMMA RowsOfSessions ==
  ASSUME NEW s \in BrowserRow
  PROVE  /\ \A to \in Pages \cup {Nowhere} : [s EXCEPT !.next = to] \in BrowserRow
         /\ \A w \in Workspaces \cup {NoWorkspace} : [s EXCEPT !.workspace = w] \in BrowserRow
         /\ \A n \in {0, 1, 2} : [s EXCEPT !.hops = n] \in BrowserRow
         /\ \A page \in {"password", "page", "forbidden"} : [s EXCEPT !.page = page] \in BrowserRow
         /\ [s EXCEPT !.stage = "in"] \in BrowserRow
BY DEF BrowserRow

LEMMA NoRequestIs == NoRequest \in RequestRow /\ NoRequest.op = "idle"
BY DEF NoRequest, RequestRow, NoMembership

LEMMA MembersAreWorkspaces ==
  /\ MemberOf \subseteq Workspaces /\ NoWorkspace \notin Workspaces
  /\ Cardinality(MemberOf) = 1 => MemberOf # {}
<1>1. MemberOf \subseteq Workspaces /\ NoWorkspace \notin Workspaces
  BY DEF MemberOf, Workspaces, NoWorkspace
<1>2. IsFiniteSet(Workspaces)
  <2>1. IsFiniteSet({} \cup {"mark-agency"})
    BY FS_AddElement, FS_EmptySet
  <2>2. IsFiniteSet(({} \cup {"mark-agency"}) \cup {"pendang"})
    BY <2>1, FS_AddElement
  <2>3. Workspaces = ({} \cup {"mark-agency"}) \cup {"pendang"}
    BY DEF Workspaces
  <2> QED
    BY <2>2, <2>3
<1>3. IsFiniteSet(MemberOf)
  BY <1>1, <1>2, FS_Subset
<1> QED
  BY <1>1, <1>3, FS_EmptySet

\* resolve_workspace_session answers with what it would answer to its answer, and
\* with a workspace where there is one to work in.
LEMMA ResolveSettles ==
  ASSUME NEW chosen
  PROVE  /\ Resolve(chosen) \in Workspaces \cup {NoWorkspace}
         /\ Resolve(Resolve(chosen)) = Resolve(chosen)
         /\ account.role = "owner" \/ Cardinality(MemberOf) = 1 =>
              Resolve(chosen) # NoWorkspace
<1>1. "mark-agency" \in Workspaces
  BY DEF Workspaces
<1>2. Cardinality(MemberOf) = 1 => (CHOOSE w \in MemberOf : TRUE) \in MemberOf
  <2>1. (\E w \in MemberOf : TRUE) => (CHOOSE w \in MemberOf : TRUE) \in MemberOf
    OBVIOUS
  <2> QED
    BY <2>1, MembersAreWorkspaces
<1> QED
  BY <1>1, <1>2, MembersAreWorkspaces DEF Resolve

\* landing_path_for_user names a page its user can open.
LEMMA LandingOpens ==
  ASSUME NEW a, a.role \in Roles
  PROVE  CanOpen(a, Landing(a)) /\ Landing(a) \in Pages
<1>1. a.role \in {"owner", "member", "relationship_manager", "lead_sourcer"}
  BY DEF Roles, StaffRoles, PersonalRoles
<1>2. CASE a.workspace = "pendang" /\ a.role # "member"
  <2>1. Landing(a) = "pendang"
    BY <1>2 DEF Landing
  <2> QED
    BY <1>1, <1>2, <2>1 DEF CanOpen, Pages, StaffRoles
<1>3. CASE ~(a.workspace = "pendang" /\ a.role # "member") /\ a.role \in PersonalRoles
  <2>1. Landing(a) = "home"
    BY <1>3 DEF Landing, PersonalRoles
  <2> QED
    BY <1>3, <2>1 DEF CanOpen, Pages, PersonalRoles, PagesOf, IsWorkspaceOwner
<1>4. CASE a.workspace # "pendang" /\ a.role = "relationship_manager"
  <2>1. Landing(a) = "relationship-manager"
    BY <1>4 DEF Landing, PersonalRoles
  <2> QED
    BY <1>4, <2>1 DEF CanOpen, Pages, PagesOf, IsWorkspaceOwner
<1>5. CASE a.workspace # "pendang" /\ a.role = "lead_sourcer"
  <2>1. Landing(a) = "crm"
    BY <1>5 DEF Landing, PersonalRoles
  <2> QED
    BY <1>5, <2>1 DEF CanOpen, Pages, PagesOf, IsWorkspaceOwner
<1> QED
  BY <1>1, <1>2, <1>3, <1>4, <1>5 DEF PersonalRoles

\* Who may open the manager's page may open the CRM, and everyone his password.
LEMMA CrmOpens ==
  ASSUME NEW a, a.role \in Roles
  PROVE  /\ CanOpen(a, "password")
         /\ CanOpen(a, "sessions")
         /\ CanOpen(a, "relationship-manager") => CanOpen(a, "crm")
         /\ a.role = "owner" => CanOpen(a, "crm")
<1>1. a.role \in {"owner", "member", "relationship_manager", "lead_sourcer"}
  BY DEF Roles, StaffRoles, PersonalRoles
<1>2. CanOpen(a, "password") /\ CanOpen(a, "sessions")
  BY DEF CanOpen, EveryonesPages
<1>3. a.role = "owner" => CanOpen(a, "crm")
  BY DEF CanOpen
<1>4. ASSUME CanOpen(a, "relationship-manager"), a.role # "owner" PROVE CanOpen(a, "crm")
  <2>1. a.role # "member" /\ a.role # "lead_sourcer"
    BY <1>4 DEF CanOpen, EveryonesPages, PagesOf, IsWorkspaceOwner
  <2>2. a.role = "relationship_manager"
    BY <1>1, <1>4, <2>1
  <2> QED
    BY <2>2 DEF CanOpen, PagesOf, IsWorkspaceOwner
<1> QED
  BY <1>2, <1>3, <1>4

LEMMA AccountInitially == AccountInit => AccountInv
<1> SUFFICES ASSUME AccountInit PROVE AccountInv
  OBVIOUS
<1>1. PICK role \in AccountRoles :
        /\ account = [role |-> role, status |-> IF role = "owner" THEN "active" ELSE "none",
                      must |-> FALSE, version |-> 1]
        /\ membership = [w \in Workspaces |->
             IF role = "owner" THEN [NoRow EXCEPT !.role = "workspace_admin", !.active = TRUE]
                               ELSE NoRow]
  BY DEF AccountInit
<1>2. /\ holds = {} /\ browser = [b \in Browsers |-> SignedOut]
      /\ desk = [t \in Desks |-> NoRequest] /\ accountRoom \in AccountRooms
  BY DEF AccountInit
<1>3. account \in AccountRow /\ account.version = 1 /\ account.role = role
  BY <1>1 DEF AccountRow
<1>4. accountRoom.version \in Nat \ {0}
  BY <1>2, AccountsAssumption
<1>5. /\ NoRow \in MemberRow /\ NoRow.role = NoMembership
      /\ [NoRow EXCEPT !.role = "workspace_admin", !.active = TRUE] \in MemberRow
      /\ [NoRow EXCEPT !.role = "workspace_admin", !.active = TRUE].role = "workspace_admin"
  BY DEF NoRow, MemberRow, MembershipRoles
<1>6. membership \in [Workspaces -> MemberRow]
      /\ \A w \in Workspaces : membership[w].role \in RolesHere
  BY <1>1, <1>3, <1>5 DEF RolesHere
<1>7. AccountKept
  BY <1>2, <1>3, <1>4, <1>6, SignedOutIs, NoRequestIs DEF AccountKept
<1>8. \A b \in Browsers : SessionOK(browser[b])
  BY <1>2, <1>3, SignedOutIs DEF SessionOK, Accepted
<1>9. \A t \in Desks : RequestOK(desk[t])
  BY <1>2, NoRequestIs DEF RequestOK
<1> QED
  BY <1>2, <1>7, <1>8, <1>9, NoRequestIs DEF AccountInv, OneTab, NothingHeldWithoutAccess

\* What one browser does.
LEMMA TurnKeeps ==
  ASSUME AccountInv, NEW b \in Browsers, NEW state, Turn(b, state), UNCHANGED accountRoom,
         state \in BrowserRow, SessionOK(state)
  PROVE  AccountInv'
<1>1. /\ browser' = [browser EXCEPT ![b] = state] /\ UNCHANGED accountRoom
      /\ UNCHANGED <<account, membership, holds, desk>>
  BY DEF Turn
<1>2. /\ MemberOf' = MemberOf /\ \A s : SessionOK(s)' <=> SessionOK(s)
      /\ \A r : RequestOK(r)' <=> RequestOK(r)
  BY <1>1 DEF MemberOf, SessionOK, Accepted, Final, ActorOf, ActorIn, Resolve, RequestOK
<1>3. browser' \in [Browsers -> BrowserRow]
      /\ \A c \in Browsers : browser'[c] = IF c = b THEN state ELSE browser[c]
  BY <1>1 DEF AccountInv, AccountKept
<1>4. \A c \in Browsers : SessionOK(browser[c]')
  BY <1>3 DEF AccountInv
<1>5. \A c \in Browsers : SessionOK(browser[c])'
  BY <1>1, <1>4, <1>2 DEF SessionOK, Accepted, Final, ActorOf, ActorIn, Resolve, MemberOf
<1>6. AccountKept'
  BY <1>1, <1>3 DEF AccountInv, AccountKept, RolesHere
<1>7. \A t \in Desks : RequestOK(desk[t])'
  BY <1>1 DEF AccountInv, RequestOK
<1> QED
  BY <1>1, <1>5, <1>6, <1>7 DEF AccountInv, OneTab, NothingHeldWithoutAccess

LEMMA SessionOf ==
  ASSUME AccountInv, NEW b \in Browsers
  PROVE  /\ browser[b] \in BrowserRow /\ SessionOK(browser[b])
         /\ account \in AccountRow /\ account.role \in Roles /\ account.version >= 1
         /\ Resolve(browser[b].workspace) \in Workspaces \cup {NoWorkspace}
         /\ \A w : ActorIn(w).role = account.role
BY ResolveSettles, AccountsAssumption DEF AccountInv, AccountKept, AccountRow, ActorIn

\* Signing in and out.
LEMMA SigningKeeps ==
  ASSUME AccountInv, UNCHANGED accountRoom, NEW b \in Browsers,
         BeginSignIn(b) \/ Authenticate(b) \/ SignIn(b) \/ SignOut(b) \/ Expire(b)
           \/ Fail(b) \/ GuardSession(b)
  PROVE  AccountInv'
<1>0. browser[b] \in BrowserRow /\ SessionOK(browser[b]) /\ account \in AccountRow
      /\ account.version >= 1
  BY SessionOf
<1>1. SessionOK(SignedOut)
  BY <1>0, SignedOutIs DEF SessionOK, AccountRow
<1>2. CASE SignOut(b) \/ GuardSession(b) \/ (At(b, "known") /\ Turn(b, SignedOut))
  BY <1>1, <1>2, SignedOutIs, TurnKeeps DEF SignOut, GuardSession
<1>3. CASE BeginSignIn(b)
  <2> DEFINE s == [SignedOut EXCEPT !.stage = "known", !.proof = "current"]
  <2>1. Turn(b, s) /\ account.status = "active"
    BY <1>3 DEF BeginSignIn
  <2>2. s \in BrowserRow
    BY SignedOutIs DEF BrowserRow
  <2>3. /\ s.stage = "known" /\ s.version = 0 /\ s.row = "none" /\ s.next = Nowhere
        /\ s.proof = "current" /\ s.page = "login"
    BY SignedOutIs DEF BrowserRow
  <2>4. SessionOK(s)
    BY <1>0, <2>1, <2>3 DEF SessionOK, AccountRow
  <2> QED
    BY <2>1, <2>2, <2>4, TurnKeeps
<1>4. CASE Authenticate(b)
  <2> DEFINE s == [browser[b] EXCEPT !.stage = "read", !.version = account.version,
                                     !.must = account.must]
  <2>1. Turn(b, s) /\ browser[b].stage = "known"
    BY <1>4 DEF Authenticate, At
  <2>2. s \in BrowserRow
    BY <1>0 DEF BrowserRow, AccountRow
  <2>3. SessionOK(s)
    BY <1>0, <2>1 DEF SessionOK, BrowserRow, AccountRow
  <2> QED
    BY <2>1, <2>2, <2>3, TurnKeeps
<1>5. CASE SignIn(b)
  <2> DEFINE s == [browser[b] EXCEPT !.stage = "landing", !.row = "live",
                                     !.workspace = NoWorkspace]
  <2>1. Turn(b, s) /\ browser[b].stage = "read"
    BY <1>5 DEF SignIn, At
  <2>2. s \in BrowserRow
    BY <1>0 DEF BrowserRow
  <2>3. SessionOK(s)
    BY <1>0, <2>1 DEF SessionOK, BrowserRow
  <2> QED
    BY <2>1, <2>2, <2>3, TurnKeeps
<1>6. CASE Expire(b)
  <2> DEFINE s == [browser[b] EXCEPT !.row = "revoked"]
  <2>1. Turn(b, s) /\ browser[b].row = "live"
    BY <1>6 DEF Expire
  <2>2. s \in BrowserRow
    BY <1>0 DEF BrowserRow
  <2>3. SessionOK(s)
    BY <1>0, <2>1 DEF SessionOK, BrowserRow, Accepted
  <2> QED
    BY <2>1, <2>2, <2>3, TurnKeeps
<1>7. CASE browser[b].stage \in {"changing", "revoking"}
           /\ Turn(b, [browser[b] EXCEPT !.stage = "in"])
  <2> DEFINE s == [browser[b] EXCEPT !.stage = "in"]
  <2>1. s \in BrowserRow
    BY <1>0 DEF BrowserRow
  <2>2. SessionOK(s)
    BY <1>0, <1>7 DEF SessionOK, BrowserRow
  <2> QED
    BY <1>7, <2>1, <2>2, TurnKeeps
<1> QED
  BY <1>2, <1>3, <1>4, <1>5, <1>6, <1>7 DEF Fail

\* Two sessions of the same workspace act alike.
LEMMA ActorStays ==
  ASSUME NEW s, NEW z, s.workspace = Resolve(z.workspace)
  PROVE  ActorOf(s) = ActorOf(z)
BY ResolveSettles DEF ActorOf

\* Where a click is sent.
LEMMA SentKeeps ==
  ASSUME AccountInv, UNCHANGED accountRoom, NEW b \in Browsers,
         Land(b) \/ Click(b) \/ SelectWorkspace(b)
           \/ BeginPassword(b) \/ BeginRevoke(b)
  PROVE  AccountInv'
<1>0. browser[b] \in BrowserRow /\ SessionOK(browser[b]) /\ account \in AccountRow
      /\ account.version >= 1 /\ account.role \in Roles
      /\ Resolve(browser[b].workspace) \in Workspaces \cup {NoWorkspace}
      /\ accountRoom.pages \subseteq Pages
  BY SessionOf, RoomIs DEF AccountInv
<1>1. CASE Land(b)
  <2> DEFINE w == IF Valid(b) THEN Resolve(browser[b].workspace) ELSE NoWorkspace
  <2>1. PICK page \in accountRoom.pages :
          /\ At(b, "landing")
          /\ Turn(b, [browser[b] EXCEPT !.stage = "in", !.hops = 1, !.workspace = w,
                        !.next = IF browser[b].must THEN "password"
                                 ELSE PermittedDestination(ActorIn(w), page)])
    BY <1>1 DEF Land
  <2> DEFINE to == IF browser[b].must THEN "password" ELSE PermittedDestination(ActorIn(w), page)
             s == [browser[b] EXCEPT !.stage = "in", !.hops = 1, !.workspace = w, !.next = to]
  <2>2. w \in Workspaces \cup {NoWorkspace}
    BY <1>0
  <2>3. to \in Pages /\ CanOpen(ActorIn(w), to)
    <3>1. ActorIn(w).role \in Roles
      BY <1>0 DEF ActorIn
    <3> QED
      BY <1>0, <3>1, LandingOpens, CrmOpens DEF PermittedDestination, Pages
  <2>4. Valid(b) => ActorIn(Resolve(w)) = ActorIn(w)
    BY ResolveSettles
  <2> HIDE DEF w, to
  <2>5. s \in BrowserRow
    <3>1. [[browser[b] EXCEPT !.stage = "in"] EXCEPT !.hops = 1] \in BrowserRow
      BY <1>0, RowsOfSessions
    <3>2. [[[[browser[b] EXCEPT !.stage = "in"] EXCEPT !.hops = 1] EXCEPT !.workspace = w]
             EXCEPT !.next = to] \in BrowserRow
      BY <2>2, <2>3, <3>1, RowsOfSessions
    <3> QED
      BY <3>2
  <2>6. SessionOK(s)
    BY <1>0, <2>1, <2>3, <2>4, SignedOutIs
       DEF SessionOK, BrowserRow, Accepted, ActorOf, Valid, At
  <2> QED
    BY <2>1, <2>5, <2>6, TurnKeeps DEF to, w
<1>2. CASE Click(b)
  <2>1. PICK page \in accountRoom.pages :
          Resting(b) /\ Turn(b, [browser[b] EXCEPT !.next = page, !.hops = 0])
    BY <1>2 DEF Click
  <2> DEFINE s == [browser[b] EXCEPT !.next = page, !.hops = 0]
  <2>2. s \in BrowserRow
    BY <1>0, <2>1 DEF BrowserRow
  <2>3. SessionOK(s)
    BY <1>0, <2>1 DEF SessionOK, BrowserRow, Resting, At
  <2> QED
    BY <2>1, <2>2, <2>3, TurnKeeps
<1>3. CASE SelectWorkspace(b)
  <2>1. PICK w \in MemberOf :
          /\ Resting(b) /\ Valid(b) /\ account.role = "owner" /\ ~account.must
          /\ Turn(b, [browser[b] EXCEPT !.workspace = w, !.next = "crm", !.hops = 1])
    BY <1>3 DEF SelectWorkspace
  <2> DEFINE s == [browser[b] EXCEPT !.workspace = w, !.next = "crm", !.hops = 1]
  <2>2. s \in BrowserRow
    <3>1. w \in Workspaces /\ "crm" \in Pages
      BY MembersAreWorkspaces DEF Pages
    <3> QED
      BY <1>0, <3>1 DEF BrowserRow
  <2>3. CanOpen(ActorOf(s), "crm")
    <3>1. ActorOf(s).role = "owner"
      BY <2>1 DEF ActorOf, ActorIn
    <3> QED
      BY <3>1, CrmOpens DEF Roles, PersonalRoles
  <2>4. SessionOK(s)
    BY <1>0, <2>1, <2>3 DEF SessionOK, BrowserRow, Resting, At
  <2> QED
    BY <2>1, <2>2, <2>4, TurnKeeps
<1>4. CASE BeginPassword(b) \/ BeginRevoke(b)
  <2>1. PICK stage \in {"changing", "revoking"}, proof \in {"current", browser[b].proof} :
          /\ Resting(b) /\ Valid(b) /\ (stage = "changing" => proof = "current")
          /\ Turn(b, [browser[b] EXCEPT !.stage = stage, !.proof = proof])
    <3>1. browser[b] = [browser[b] EXCEPT !.proof = browser[b].proof]
      BY <1>0 DEF BrowserRow
    <3>2. [browser[b] EXCEPT !.stage = "revoking"] =
            [browser[b] EXCEPT !.stage = "revoking", !.proof = browser[b].proof]
      BY <1>0 DEF BrowserRow
    <3> QED
      BY <1>4, <3>2 DEF BeginPassword, BeginRevoke
  <2> DEFINE s == [browser[b] EXCEPT !.stage = stage, !.proof = proof]
  <2>2. s \in BrowserRow
    BY <1>0, <2>1 DEF BrowserRow
  <2>3. SessionOK(s)
    BY <1>0, <2>1 DEF SessionOK, BrowserRow, Resting, At, Valid
  <2> QED
    BY <2>1, <2>2, <2>3, TurnKeeps
<1> QED
  BY <1>1, <1>2, <1>3, <1>4

\* What the guard and the pages answer.
LEMMA GuardKeeps ==
  ASSUME AccountInv, UNCHANGED accountRoom, NEW b \in Browsers,
         GuardAccess(b) \/ GuardPassword(b) \/ Handle(b)
  PROVE  AccountInv'
<1> DEFINE z == browser[b]
           here == Resolve(z.workspace)
<1>0. z \in BrowserRow /\ SessionOK(z) /\ account \in AccountRow
      /\ account.version >= 1 /\ account.role \in Roles
      /\ here \in Workspaces \cup {NoWorkspace}
      /\ Me(b).role = account.role /\ Me(b) = ActorIn(here) /\ Me(b).workspace = here /\ ActorOf(z) = Me(b)
  BY SessionOf DEF Me, ActorIn, ActorOf
<1>1. ASSUME Sent(b), Valid(b)
      PROVE  /\ z.stage = "in" /\ z.next # Nowhere /\ Accepted(z)
             /\ z.hops # 0 => CanOpen(Me(b), z.next)
             /\ z.hops = 2 => Final(z)
  BY <1>0, <1>1 DEF Sent, Valid, Accepted, SessionOK, At
<1>2. ASSUME NEW page \in Pages, Sent(b), Valid(b), z.hops # 2, CanOpen(Me(b), page),
             z.hops = 1 => /\ account.must => page = "password"
                           /\ page # "relationship-manager",
             Turn(b, Redirected(b, page))
      PROVE  AccountInv'
  <2> DEFINE s == [z EXCEPT !.next = page, !.hops = z.hops + 1, !.workspace = here]
  <2>1. Redirected(b, page) = s
    BY <1>0 DEF Redirected, BrowserRow
  <2>2. s \in BrowserRow
    <3>1. z.hops + 1 \in {0, 1, 2}
      BY <1>0, <1>2 DEF BrowserRow
    <3> QED
      BY <1>0, <1>2, <3>1 DEF BrowserRow
  <2>3. ActorOf(s) = Me(b)
    <3>1. s.workspace = Resolve(z.workspace)
      BY <1>0 DEF BrowserRow
    <3> QED
      BY <1>0, <3>1, ActorStays
  <2>4. Final(s) \/ z.hops = 0
    BY <1>0, <1>2, <2>3 DEF Final, BrowserRow
  <2>5. SessionOK(s)
    BY <1>0, <1>1, <1>2, <2>3, <2>4 DEF SessionOK, BrowserRow, Accepted
  <2> QED
    BY <1>2, <2>1, <2>2, <2>5, TurnKeeps
<1>3. CASE GuardAccess(b)
  <2>1. /\ Sent(b) /\ Valid(b) /\ ~CanOpen(Me(b), z.next)
        /\ Turn(b, Redirected(b, Landing(Me(b))))
    BY <1>3 DEF GuardAccess
  <2>2. CanOpen(Me(b), Landing(Me(b))) /\ Landing(Me(b)) \in Pages
    BY <1>0, LandingOpens
  <2>3. z.hops = 0
    BY <1>1, <2>1
  <2> QED
    BY <1>2, <2>1, <2>2, <2>3
<1>4. CASE GuardPassword(b)
  <2>1. /\ Sent(b) /\ Valid(b) /\ account.must /\ z.next # "password"
        /\ Turn(b, Redirected(b, "password"))
    BY <1>4 DEF GuardPassword, Guarded
  <2>2. z.hops # 2
    BY <1>1, <2>1 DEF Final
  <2>3. CanOpen(Me(b), "password")
    BY <1>0, CrmOpens
  <2>4. "password" \in Pages /\ "password" # "relationship-manager"
    BY DEF Pages
  <2> QED
    BY <1>2, <2>1, <2>2, <2>3, <2>4
<1>5. ASSUME Handle(b), z.next = "relationship-manager",
             account.role # "relationship_manager" \/ here = NoWorkspace
      PROVE  AccountInv'
  <2>1. /\ Sent(b) /\ Valid(b) /\ CanOpen(Me(b), z.next) /\ ~account.must
        /\ Turn(b, Redirected(b, "crm"))
    BY <1>0, <1>5 DEF Handle, Guarded
  <2>2. z.hops # 2
    BY <1>0, <1>1, <1>5, <2>1 DEF Final
  <2>3. CanOpen(Me(b), "crm")
    BY <1>0, <1>5, <2>1, CrmOpens
  <2>4. "crm" \in Pages /\ "crm" # "relationship-manager"
    BY DEF Pages
  <2> QED
    BY <1>2, <2>1, <2>2, <2>3, <2>4
<1>6. ASSUME Handle(b), ~(z.next = "relationship-manager" /\
             (account.role # "relationship_manager" \/ here = NoWorkspace))
      PROVE  AccountInv'
  <2> DEFINE page == IF z.next = "password" THEN "password"
                     ELSE IF z.next \in CrmPages /\ here = NoWorkspace THEN "forbidden"
                     ELSE "page"
  <2>1. /\ Valid(b) /\ Sent(b) /\ (account.must => page = "password")
        /\ page \in {"password", "page", "forbidden"} /\ Turn(b, Shown(b, page))
    BY <1>0, <1>6 DEF Handle, Guarded, Me, ActorIn
  <2> HIDE DEF page
  <2> DEFINE s == [z EXCEPT !.next = Nowhere, !.page = page, !.workspace = here, !.hops = 0]
  <2>2. Shown(b, page) = s
    BY DEF Shown
  <2>3. s \in BrowserRow
    BY <1>0, <2>1 DEF BrowserRow
  <2>4. SessionOK(s)
    BY <1>0, <1>1, <2>1 DEF SessionOK, BrowserRow, Accepted, Sent, At
  <2> QED
    BY <2>1, <2>2, <2>3, <2>4, TurnKeeps
<1> QED
  BY <1>3, <1>4, <1>5, <1>6

\* Nobody's actor changes while the account and its memberships do not.
LEMMA ActorsStay ==
  ASSUME UNCHANGED <<account, membership>>, NEW s
  PROVE  ActorIn(Resolve(s.workspace))' = ActorIn(Resolve(s.workspace))
<1>1. MemberOf' = MemberOf
  BY DEF MemberOf
<1>2. \A c : Resolve(c)' = Resolve(c)
  BY <1>1 DEF Resolve
<1> QED
  BY <1>2 DEF ActorIn

LEMMA SessionsStay ==
  ASSUME AccountInv, UNCHANGED <<account, membership, browser>>
  PROVE  \A b \in Browsers : SessionOK(browser[b])'
<1> SUFFICES ASSUME NEW b \in Browsers PROVE SessionOK(browser[b])'
  OBVIOUS
<1>1. SessionOK(browser[b]) /\ ActorOf(browser[b])' = ActorOf(browser[b])
  BY ActorsStay DEF AccountInv, ActorOf
<1> QED
  BY <1>1 DEF SessionOK, Accepted, Final

\* A session that the account's change has left behind.
LEMMA OvertakenIs ==
  ASSUME NEW s \in BrowserRow, SessionOK(s)
  PROVE  /\ Overtaken(s) \in BrowserRow /\ Overtaken(s).version = s.version
         /\ Overtaken(s).stage = s.stage /\ Overtaken(s).next = s.next
         /\ Overtaken(s).row = s.row /\ Overtaken(s).page = s.page
         /\ s.stage \in {"known", "changing"} => Overtaken(s).proof \in {"current", "overtaken"}
BY DEF Overtaken, BrowserRow, SessionOK

\* The other sessions when a password is changed, or when they are revoked.
LEMMA ChangePasswordKeeps ==
  ASSUME AccountInv, UNCHANGED accountRoom, NEW b \in Browsers, ChangePassword(b)
  PROVE  AccountInv'
<1> DEFINE s == [browser[b] EXCEPT !.stage = "read", !.version = account.version + 1,
                                   !.must = FALSE]
<1>1. /\ browser[b].stage = "changing" /\ account.version < accountRoom.version
      /\ account' = [account EXCEPT !.version = account.version + 1, !.must = FALSE]
      /\ browser' = [c \in Browsers |-> IF c = b THEN s ELSE Overtaken(browser[c])]
      /\ UNCHANGED <<membership, holds, desk, accountRoom>>
  BY DEF ChangePassword, At
<1>2. browser[b] \in BrowserRow /\ SessionOK(browser[b]) /\ account \in AccountRow
      /\ account.version >= 1
  BY SessionOf
<1> DEFINE v == account.version + 1
<1>v. v \in Nat \ {0} /\ account.version \in Nat /\ v <= accountRoom.version
  <2>1. account.version \in Nat \ {0} /\ accountRoom.version \in Nat
    BY <1>2, RoomIs DEF AccountRow, AccountInv
  <2> QED
    BY <1>1, <2>1
<1>3. account' \in AccountRow /\ account'.version = v
      /\ account'.role = account.role /\ account'.status = account.status /\ ~account'.must
  <2>1. account' = [account EXCEPT !.version = v, !.must = FALSE]
    BY <1>1
  <2> HIDE DEF v
  <2> QED
    BY <1>2, <1>v, <2>1 DEF AccountRow
<1>4. s \in BrowserRow /\ s.stage = "read" /\ s.version = v /\ s.proof = browser[b].proof
  <2> HIDE DEF v
  <2> QED
    BY <1>2, <1>v DEF BrowserRow, v
<1> HIDE DEF s
<1>5. browser' \in [Browsers -> BrowserRow]
      /\ \A c \in Browsers : browser'[c] = IF c = b THEN s ELSE Overtaken(browser[c])
  BY <1>1, <1>4, OvertakenIs DEF AccountInv, AccountKept
<1>6. ASSUME NEW c \in Browsers PROVE SessionOK(browser[c])'
  <2>1. CASE c = b
    <3>1. browser'[c] = s
      BY <1>5, <2>1
    <3>2. account.status # "none"
      BY <1>1, <1>2 DEF SessionOK
    <3> QED
      BY <1>1, <1>2, <1>3, <1>v, <1>4, <3>1, <3>2 DEF SessionOK, AccountRow
  <2>2. CASE c # b
    <3> DEFINE z == browser[c]
    <3>1. browser'[c] = Overtaken(z) /\ z \in BrowserRow /\ SessionOK(z)
      BY <1>5, <2>2 DEF AccountInv, AccountKept
    <3>2. z.version \in Nat /\ z.version <= account.version /\ account.version < v
      BY <1>v, <3>1 DEF SessionOK, BrowserRow
    <3> HIDE DEF z, v
    <3> DEFINE y == Overtaken(z)
    <3>3. /\ y.version = z.version /\ y.stage = z.stage /\ y.next = z.next /\ y.row = z.row
          /\ y.page = z.page
          /\ z.stage \in {"known", "changing"} => y.proof \in {"current", "overtaken"}
      BY <3>1, OvertakenIs
    <3> HIDE DEF y
    <3>4. browser'[c] = y
      BY <3>1 DEF y
    <3>5. y.version <= account'.version /\ y.version # account'.version
      BY <1>3, <1>v, <3>2, <3>3
    <3>6. /\ account'.status = "none" => y.stage = "out" /\ y.row = "none"
          /\ y.stage \in {"changing", "revoking"} => y.next = Nowhere
          /\ y.stage \in {"out", "known"} => y.page = "login"
      BY <1>3, <3>1, <3>3 DEF SessionOK
    <3> QED
      BY <3>3, <3>4, <3>5, <3>6 DEF SessionOK, Accepted
  <2> QED
    BY <2>1, <2>2
<1>7. AccountKept'
  BY <1>1, <1>3, <1>v, <1>5 DEF AccountInv, AccountKept, RolesHere
<1>8. \A t \in Desks : RequestOK(desk[t])'
  BY <1>1, <1>3 DEF AccountInv, RequestOK
<1> QED
  BY <1>1, <1>3, <1>6, <1>7, <1>8 DEF AccountInv, OneTab, NothingHeldWithoutAccess

\* A row that is no longer live is accepted by nobody.
LEMMA RevokedStays ==
  ASSUME NEW s \in BrowserRow, SessionOK(s)
  PROVE  /\ Revoked(s) \in BrowserRow /\ SessionOK(Revoked(s))
         /\ Revoked(s).version = s.version /\ Revoked(s).stage = s.stage
         /\ Revoked(s).next = s.next /\ Revoked(s).page = s.page
         /\ s.row = "none" => Revoked(s).row = "none"
BY DEF Revoked, BrowserRow, SessionOK, Accepted

LEMMA RevokeOthersKeeps ==
  ASSUME AccountInv, UNCHANGED accountRoom, NEW b \in Browsers, RevokeOthers(b)
  PROVE  AccountInv'
<1> DEFINE s == [browser[b] EXCEPT !.stage = "in", !.next = "sessions", !.hops = 1]
<1>1. /\ browser[b].stage = "revoking"
      /\ browser' = [c \in Browsers |->
           IF c = b THEN s ELSE Revoked(browser[c])]
      /\ UNCHANGED <<account, membership, holds, desk, accountRoom>>
  BY DEF RevokeOthers, At
<1>2. browser[b] \in BrowserRow /\ SessionOK(browser[b]) /\ account \in AccountRow
      /\ account.version >= 1 /\ account.role \in Roles
      /\ \A w : ActorIn(w).role = account.role
  BY SessionOf
<1>3. s \in BrowserRow
  BY <1>2 DEF BrowserRow, Pages
<1>4. CanOpen(ActorOf(s), "sessions")
  BY <1>2, CrmOpens DEF ActorOf
<1>5. SessionOK(s)
  BY <1>1, <1>2, <1>4 DEF SessionOK, BrowserRow
<1> HIDE DEF s
<1>6. ASSUME NEW c \in Browsers
      PROVE  browser'[c] \in BrowserRow /\ SessionOK(browser[c]')
  <2>1. browser[c] \in BrowserRow /\ SessionOK(browser[c])
    BY SessionOf
  <2> QED
    BY <1>1, <1>3, <1>5, <2>1, RevokedStays
<1>7. ASSUME NEW c \in Browsers PROVE SessionOK(browser[c])'
  <2>1. SessionOK(browser'[c])
    BY <1>6
  <2>2. ActorOf(browser[c])' = ActorOf(browser'[c])
    BY <1>1, ActorsStay DEF ActorOf
  <2> QED
    BY <1>1, <2>1, <2>2 DEF SessionOK, Accepted, Final
<1>8. browser' \in [Browsers -> BrowserRow]
  BY <1>1, <1>6
<1>9. AccountKept'
  BY <1>1, <1>8 DEF AccountInv, AccountKept, RolesHere
<1>10. \A t \in Desks : RequestOK(desk[t])'
  BY <1>1 DEF AccountInv, RequestOK
<1> QED
  BY <1>1, <1>7, <1>9, <1>10 DEF AccountInv, OneTab, NothingHeldWithoutAccess

\* An account is created before anybody signs in.
LEMMA CreateKeeps ==
  ASSUME AccountInv, UNCHANGED accountRoom, CreateAccount
  PROVE  AccountInv'
<1>1. /\ account.status = "none"
      /\ account' = [account EXCEPT !.status = "active", !.must = TRUE]
      /\ UNCHANGED <<holds, browser, desk, accountRoom>>
  BY DEF CreateAccount
<1>2. account \in AccountRow /\ account' \in AccountRow /\ account'.role = account.role
      /\ account'.version = account.version /\ account'.status = "active"
  BY <1>1 DEF AccountRow, AccountInv, AccountKept
<1>3. membership' \in [Workspaces -> MemberRow]
      /\ \A w \in Workspaces : membership'[w].role \in RolesHere
  <2>1. CASE UNCHANGED membership
    BY <2>1 DEF AccountInv, AccountKept
  <2>2. ASSUME NEW w \in Workspaces, NEW role \in MembershipRolesOf(account.role),
               membership' = [membership EXCEPT ![w] =
                                [NoRow EXCEPT !.role = role, !.active = TRUE]]
        PROVE  membership' \in [Workspaces -> MemberRow]
               /\ \A v \in Workspaces : membership'[v].role \in RolesHere
    <3> DEFINE row == [NoRow EXCEPT !.role = role, !.active = TRUE]
    <3>1. row \in MemberRow /\ row.role \in RolesHere
      BY DEF NoRow, MemberRow, MembershipRoles, MembershipRolesOf, RolesHere
    <3> HIDE DEF row
    <3> QED
      BY <2>2, <3>1 DEF row, AccountInv, AccountKept
  <2> QED
    BY <2>1, <2>2 DEF CreateAccount
<1>4. AccountKept'
  BY <1>1, <1>2, <1>3 DEF AccountInv, AccountKept, RolesHere
<1>5. ASSUME NEW b \in Browsers PROVE SessionOK(browser[b])'
  <2>1. browser[b] \in BrowserRow /\ SessionOK(browser[b])
    BY SessionOf
  <2>2. browser[b].row = "none" /\ browser[b].stage = "out"
    BY <1>1, <2>1 DEF SessionOK
  <2> QED
    BY <1>1, <1>2, <2>1, <2>2 DEF SessionOK, Accepted
<1>6. \A t \in Desks : RequestOK(desk[t])'
  <2>1. \A t \in Desks : desk[t].op = "assign" => ~(accountRoom.desks = 1)
    BY <1>1 DEF AccountInv, RequestOK
  <2> QED
    BY <1>1, <1>2, <2>1 DEF AccountInv, RequestOK
<1>7. accountRoom.desks = 1 => holds = {}
  BY <1>1 DEF AccountInv, NothingHeldWithoutAccess
<1> QED
  BY <1>1, <1>4, <1>5, <1>6, <1>7 DEF AccountInv, OneTab, NothingHeldWithoutAccess

-----------------------------------------------------------------------------
(* The owner's requests.                                                   *)

LEMMA AskKeeps ==
  ASSUME AccountInv, UNCHANGED accountRoom, NEW t \in Desks, NEW r \in RequestRow,
         RequestOK(r), Ask(t, r)
  PROVE  AccountInv'
<1>1. /\ Cardinality({u \in Desks : desk[u].op # "idle"}) < accountRoom.desks
      /\ desk' = [desk EXCEPT ![t] = r]
      /\ UNCHANGED <<account, membership, holds, browser, accountRoom>>
  BY DEF Ask
<1>2. desk' \in [Desks -> RequestRow]
      /\ \A u \in Desks : desk'[u] = IF u = t THEN r ELSE desk[u]
  BY <1>1 DEF AccountInv, AccountKept
<1>3. accountRoom.desks = 1 => \A u \in Desks : desk[u].op = "idle"
  <2> DEFINE busy == {u \in Desks : desk[u].op # "idle"}
  <2>1. IsFiniteSet(busy)
    BY AccountsAssumption, FS_Subset
  <2>2. Cardinality(busy) \in Nat /\ (Cardinality(busy) = 0 <=> busy = {})
    BY <2>1, FS_CardinalityType, FS_EmptySet
  <2>3. accountRoom.desks = 1 => busy = {}
    <3>1. Cardinality(busy) < accountRoom.desks
      BY <1>1
    <3> HIDE DEF busy
    <3> QED
      BY <2>2, <3>1
  <2> QED
    BY <2>3
<1>4. \A u \in Desks : RequestOK(desk[u])'
  BY <1>1, <1>2 DEF AccountInv, RequestOK
<1>5. OneTab'
  BY <1>1, <1>2, <1>3 DEF OneTab
<1>6. AccountKept'
  BY <1>1, <1>2 DEF AccountInv, AccountKept, RolesHere
<1>7. \A b \in Browsers : SessionOK(browser[b])'
  BY <1>1, SessionsStay
<1> QED
  BY <1>1, <1>4, <1>5, <1>6, <1>7 DEF AccountInv, NothingHeldWithoutAccess

LEMMA AsksKeep ==
  ASSUME AccountInv, UNCHANGED accountRoom, NEW t \in Desks,
         AskAccess(t) \/ AskContact(t) \/ AskActive(t) \/ AskReset(t) \/ AskAssign(t)
  PROVE  AccountInv'
<1>1. CASE AskAccess(t)
  <2>1. PICK w \in Workspaces, role \in MembershipRolesOf(account.role), on \in BOOLEAN :
          Ask(t, [op |-> "access", workspace |-> w, role |-> role, on |-> on])
    BY <1>1 DEF AskAccess
  <2> DEFINE r == [op |-> "access", workspace |-> w, role |-> role, on |-> on]
  <2>2. r \in RequestRow /\ RequestOK(r)
    BY <2>1 DEF RequestRow, RequestOK, MembershipRolesOf, MembershipRoles
  <2> QED
    BY <2>1, <2>2, AskKeeps
<1>2. CASE AskContact(t)
  <2>1. PICK w \in accountRoom.contact, on \in BOOLEAN :
          Ask(t, [NoRequest EXCEPT !.op = "contact", !.workspace = w, !.on = on])
    BY <1>2 DEF AskContact
  <2> DEFINE r == [NoRequest EXCEPT !.op = "contact", !.workspace = w, !.on = on]
  <2>2. w \in Workspaces
    BY <2>1, RoomIs DEF AccountInv
  <2>3. r \in RequestRow /\ RequestOK(r)
    BY <2>1, <2>2, NoRequestIs DEF RequestRow, RequestOK
  <2> QED
    BY <2>1, <2>3, AskKeeps
<1>3. CASE AskActive(t)
  <2>1. PICK on \in BOOLEAN : Ask(t, [NoRequest EXCEPT !.op = "active", !.on = on])
    BY <1>3 DEF AskActive
  <2> DEFINE r == [NoRequest EXCEPT !.op = "active", !.on = on]
  <2>2. r \in RequestRow /\ RequestOK(r)
    BY <2>1, NoRequestIs DEF RequestRow, RequestOK
  <2> QED
    BY <2>1, <2>2, AskKeeps
<1>4. CASE AskReset(t)
  <2> DEFINE r == [NoRequest EXCEPT !.op = "reset"]
  <2>1. r \in RequestRow /\ RequestOK(r)
    BY NoRequestIs DEF RequestRow, RequestOK
  <2> QED
    BY <1>4, <2>1, AskKeeps DEF AskReset
<1>5. CASE AskAssign(t)
  <2>1. PICK w \in MemberOf :
          /\ account.status = "active"
          /\ Ask(t, [NoRequest EXCEPT !.op = "assign", !.workspace = w])
    BY <1>5 DEF AskAssign
  <2> DEFINE r == [NoRequest EXCEPT !.op = "assign", !.workspace = w]
  <2>2. w \in Workspaces /\ membership[w].active
    BY DEF MemberOf
  <2>3. r \in RequestRow
    BY <2>2, NoRequestIs DEF RequestRow
  <2>4. RequestOK(r)
    BY <2>1, <2>2, NoRequestIs DEF RequestRow, RequestOK
  <2> QED
    BY <2>1, <2>3, <2>4, AskKeeps
<1> QED
  BY <1>1, <1>2, <1>3, <1>4, <1>5

\* A tab that has answered; the others stay as they were.
LEMMA AnsweredIs ==
  ASSUME AccountInv, NEW t \in Desks, desk' = [desk EXCEPT ![t] = NoRequest]
  PROVE  /\ desk' \in [Desks -> RequestRow]
         /\ \A u \in Desks : desk'[u] = IF u = t THEN NoRequest ELSE desk[u]
BY NoRequestIs DEF AccountInv, AccountKept

LEMMA RefuseKeeps ==
  ASSUME AccountInv, UNCHANGED accountRoom, NEW t \in Desks, Refuse(t)
  PROVE  AccountInv'
<1>1. /\ desk' = [desk EXCEPT ![t] = NoRequest]
      /\ UNCHANGED <<account, membership, holds, browser, accountRoom>>
  BY DEF Refuse
<1>2. \A u \in Desks : RequestOK(desk[u])'
  BY <1>1, AnsweredIs, NoRequestIs DEF AccountInv, RequestOK
<1>3. OneTab'
  BY <1>1, AnsweredIs, NoRequestIs DEF AccountInv, OneTab
<1>4. AccountKept'
  BY <1>1, AnsweredIs DEF AccountInv, AccountKept, RolesHere
<1>5. \A b \in Browsers : SessionOK(browser[b])'
  BY <1>1, SessionsStay
<1> QED
  BY <1>1, <1>2, <1>3, <1>4, <1>5 DEF AccountInv, NothingHeldWithoutAccess

LEMMA AssignKeeps ==
  ASSUME AccountInv, UNCHANGED accountRoom, NEW t \in Desks, Assign(t)
  PROVE  AccountInv'
<1> DEFINE w == desk[t].workspace
<1>1. /\ desk[t].op = "assign" /\ desk' = [desk EXCEPT ![t] = NoRequest]
      /\ holds' = holds \cup {w}
      /\ UNCHANGED <<account, membership, browser, accountRoom>>
  BY DEF Assign, Answer
<1>2. /\ w \in Workspaces
      /\ accountRoom.desks = 1 => account.status = "active" /\ membership[w].active
  BY <1>1 DEF AccountInv, RequestOK
<1>3. \A u \in Desks : RequestOK(desk[u])'
  BY <1>1, AnsweredIs, NoRequestIs DEF AccountInv, RequestOK
<1>4. OneTab'
  BY <1>1, AnsweredIs, NoRequestIs DEF AccountInv, OneTab
<1>5. AccountKept'
  <2>0. holds \subseteq Workspaces
    BY DEF AccountInv, AccountKept
  <2>1. holds' \subseteq Workspaces
    <3>1. w \in Workspaces /\ holds' = holds \cup {w}
      BY <1>1, <1>2
    <3> HIDE DEF w
    <3> QED
      BY <2>0, <3>1
  <2> QED
    BY <1>1, <2>1, AnsweredIs DEF AccountInv, AccountKept, RolesHere
<1>6. \A b \in Browsers : SessionOK(browser[b])'
  BY <1>1, SessionsStay
<1>7. NothingHeldWithoutAccess'
  <2>1. SUFFICES ASSUME accountRoom.desks = 1, NEW v \in holds'
                 PROVE  account.status = "active" /\ membership[v].active
    BY <1>1 DEF NothingHeldWithoutAccess
  <2>2. v \in holds \/ v = w
    BY <1>1, <2>1
  <2>3. CASE v = w
    BY <1>2, <2>1, <2>3
  <2>4. CASE v \in holds
    BY <2>1, <2>4 DEF AccountInv, NothingHeldWithoutAccess
  <2> QED
    BY <2>2, <2>3, <2>4
<1> QED
  BY <1>3, <1>4, <1>5, <1>6, <1>7 DEF AccountInv

\* The permission to contact is nobody's access.
LEMMA SetContactKeeps ==
  ASSUME AccountInv, UNCHANGED accountRoom, NEW t \in Desks, SetContact(t)
  PROVE  AccountInv'
<1> DEFINE w == desk[t].workspace
<1>1. /\ desk[t].op = "contact" /\ desk' = [desk EXCEPT ![t] = NoRequest]
      /\ membership' = [membership EXCEPT ![w].contact = desk[t].on]
      /\ UNCHANGED <<account, holds, browser, accountRoom>>
  BY DEF SetContact, Answer
<1>2. w \in Workspaces /\ desk[t].on \in BOOLEAN
  BY <1>1 DEF AccountInv, AccountKept, RequestOK, RequestRow
<1>3. /\ membership' \in [Workspaces -> MemberRow]
      /\ \A v \in Workspaces : /\ membership'[v].role = membership[v].role
                               /\ membership'[v].active = membership[v].active
  BY <1>1, <1>2 DEF AccountInv, AccountKept, MemberRow
<1>4. MemberOf' = MemberOf
  BY <1>3 DEF MemberOf
<1>5. \A c : Resolve(c)' = Resolve(c)
  BY <1>1, <1>4 DEF Resolve
<1>6. ASSUME NEW s PROVE ActorIn(Resolve(s.workspace))' = ActorIn(Resolve(s.workspace))
  <2>1. Resolve(s.workspace) \in Workspaces \cup {NoWorkspace}
    BY ResolveSettles
  <2> QED
    BY <1>1, <1>3, <1>5, <2>1 DEF ActorIn
<1>7. ASSUME NEW b \in Browsers PROVE SessionOK(browser[b])'
  <2>1. SessionOK(browser[b]) /\ ActorOf(browser[b])' = ActorOf(browser[b])
    BY <1>1, <1>6 DEF AccountInv, ActorOf
  <2> QED
    BY <1>1, <2>1 DEF SessionOK, Accepted, Final
<1>8. \A u \in Desks : RequestOK(desk[u])'
  BY <1>1, <1>3, AnsweredIs, NoRequestIs DEF AccountInv, RequestOK
<1>9. OneTab'
  BY <1>1, AnsweredIs, NoRequestIs DEF AccountInv, OneTab
<1>10. AccountKept'
  BY <1>1, <1>3, AnsweredIs DEF AccountInv, AccountKept, RolesHere
<1> QED
  BY <1>1, <1>3, <1>7, <1>8, <1>9, <1>10 DEF AccountInv, AccountKept, NothingHeldWithoutAccess

\* A new version of the account, whatever else the owner writes with it: no session
\* that there is has it.
LEMMA EndedKeeps ==
  ASSUME AccountInv, UNCHANGED accountRoom, NEW row \in AccountRow, EndSessions(row),
         row.version = account.version, row.role = account.role,
         row.status = "none" => account.status = "none",
         NEW t \in Desks, desk[t].op # "idle", desk' = [desk EXCEPT ![t] = NoRequest],
         membership' \in [Workspaces -> MemberRow],
         \A w \in Workspaces : membership'[w].role \in RolesHere,
         holds' \subseteq Workspaces,
         accountRoom.desks = 1 =>
           \A w \in holds' : row.status = "active" /\ membership'[w].active
  PROVE  AccountInv'
<1> DEFINE v == account.version + 1
<1>1. /\ account.version < accountRoom.version
      /\ account' = [row EXCEPT !.version = v]
      /\ browser' = [b \in Browsers |-> Overtaken(Revoked(browser[b]))]
  BY DEF EndSessions
<1>2. v \in Nat \ {0} /\ account.version \in Nat /\ v <= accountRoom.version
      /\ account.version < v
  <2>1. account.version \in Nat \ {0} /\ accountRoom.version \in Nat
    BY RoomIs DEF AccountRow, AccountInv, AccountKept
  <2> QED
    BY <1>1, <2>1
<1> HIDE DEF v
<1>3. account' \in AccountRow /\ account'.version = v /\ account'.role = account.role
      /\ account'.status = row.status
  BY <1>1, <1>2 DEF AccountRow
<1>4. ASSUME NEW b \in Browsers
      PROVE  browser'[b] \in BrowserRow /\ SessionOK(browser[b])'
  <2> DEFINE z == browser[b]
             y == Revoked(z)
             s == Overtaken(y)
  <2>1. z \in BrowserRow /\ SessionOK(z)
    BY SessionOf
  <2>2. /\ y \in BrowserRow /\ SessionOK(y) /\ y.version = z.version /\ y.stage = z.stage
        /\ y.next = z.next /\ y.page = z.page /\ (z.row = "none" => y.row = "none")
    BY <2>1, RevokedStays
  <2> HIDE DEF y
  <2>3. /\ s \in BrowserRow /\ s.version = y.version /\ s.stage = y.stage
        /\ s.next = y.next /\ s.row = y.row /\ s.page = y.page
        /\ y.stage \in {"known", "changing"} => s.proof \in {"current", "overtaken"}
    BY <2>2, OvertakenIs
  <2> HIDE DEF s, z
  <2>4. browser'[b] = s
    BY <1>1 DEF s, y, z
  <2>5. s.version \in Nat /\ s.version <= account.version
    BY <2>2, <2>3 DEF SessionOK, BrowserRow
  <2>6. s.version <= account'.version /\ s.version # account'.version
    BY <1>2, <1>3, <2>5
  <2>7. /\ account'.status = "none" => s.stage = "out" /\ s.row = "none"
        /\ s.stage \in {"changing", "revoking"} => s.next = Nowhere
        /\ s.stage \in {"out", "known"} => s.page = "login"
        /\ s.stage \in {"known", "changing"} => s.proof \in {"current", "overtaken"}
    BY <1>3, <2>2, <2>3 DEF SessionOK
  <2>8. SessionOK(browser[b])'
    BY <2>4, <2>6, <2>7 DEF SessionOK, Accepted
  <2> QED
    BY <2>3, <2>4, <2>8
<1>5. browser' \in [Browsers -> BrowserRow]
  BY <1>1, <1>4
<1>7. AccountKept'
  BY <1>2, <1>3, <1>5, AnsweredIs DEF AccountInv, AccountKept, RolesHere
<1>8. ASSUME accountRoom.desks = 1, NEW u \in Desks PROVE desk'[u] = NoRequest \/ desk'[u].op = "idle"
  BY <1>8, AnsweredIs DEF AccountInv, OneTab
<1>9. \A u \in Desks : RequestOK(desk[u])'
  <2> SUFFICES ASSUME NEW u \in Desks PROVE RequestOK(desk[u])'
    OBVIOUS
  <2>1. RequestOK(desk[u]) /\ desk'[u] = IF u = t THEN NoRequest ELSE desk[u]
    BY AnsweredIs DEF AccountInv
  <2> QED
    BY <1>3, <1>8, <2>1, NoRequestIs DEF RequestOK
<1>10. OneTab'
  BY AnsweredIs, NoRequestIs DEF AccountInv, OneTab
<1>11. NothingHeldWithoutAccess'
  BY <1>3 DEF NothingHeldWithoutAccess
<1> QED
  BY <1>4, <1>7, <1>9, <1>10, <1>11 DEF AccountInv

LEMMA SetAccessKeeps ==
  ASSUME AccountInv, UNCHANGED accountRoom, NEW t \in Desks, SetAccess(t)
  PROVE  AccountInv'
<1> DEFINE w == desk[t].workspace
<1>1. /\ desk[t].op = "access" /\ desk' = [desk EXCEPT ![t] = NoRequest]
      /\ membership' = [membership EXCEPT ![w].role = desk[t].role, ![w].active = desk[t].on]
      /\ holds' = IF desk[t].on THEN holds ELSE holds \ {w}
      /\ EndSessions(account)
  BY DEF SetAccess, Answer
<1>2. /\ w \in Workspaces /\ desk[t].on \in BOOLEAN
      /\ desk[t].role \in MembershipRolesOf(account.role)
      /\ desk[t].role \in MembershipRoles \cup {NoMembership}
  BY <1>1 DEF AccountInv, AccountKept, RequestOK, RequestRow
<1>3. account \in AccountRow /\ holds \subseteq Workspaces
      /\ membership \in [Workspaces -> MemberRow]
      /\ \A v \in Workspaces : membership[v].role \in RolesHere
  BY DEF AccountInv, AccountKept
<1> DEFINE row == [membership[w] EXCEPT !.role = desk[t].role, !.active = desk[t].on]
<1>4. row \in MemberRow /\ row.role = desk[t].role /\ row.active = desk[t].on
  BY <1>2, <1>3 DEF MemberRow
<1>5. membership' = [membership EXCEPT ![w] = row]
  BY <1>1, <1>2, <1>3
<1> HIDE DEF row, w
<1>6. membership' \in [Workspaces -> MemberRow]
      /\ \A v \in Workspaces : membership'[v] = IF v = w THEN row ELSE membership[v]
  BY <1>2, <1>3, <1>4, <1>5
<1>7. \A v \in Workspaces : membership'[v].role \in RolesHere
  BY <1>2, <1>3, <1>4, <1>6 DEF RolesHere
<1>8. ASSUME accountRoom.desks = 1, NEW v \in holds'
      PROVE  account.status = "active" /\ membership'[v].active
  <2>1. v \in holds /\ v \in Workspaces /\ (v = w => desk[t].on)
    BY <1>1, <1>3, <1>8
  <2>2. account.status = "active" /\ membership[v].active
    BY <1>8, <2>1 DEF AccountInv, NothingHeldWithoutAccess
  <2> QED
    BY <1>4, <1>6, <2>1, <2>2
<1>9. holds' \subseteq Workspaces
  BY <1>1, <1>3
<1> QED
  BY <1>1, <1>3, <1>6, <1>7, <1>8, <1>9, EndedKeeps

LEMMA SetActiveKeeps ==
  ASSUME AccountInv, UNCHANGED accountRoom, NEW t \in Desks, SetActive(t)
  PROVE  AccountInv'
<1> DEFINE row == [account EXCEPT !.status = IF desk[t].on THEN "active" ELSE "inactive"]
           first == [NoRow EXCEPT !.role = "crm_contributor", !.active = TRUE]
<1>1. /\ desk[t].op = "active" /\ desk' = [desk EXCEPT ![t] = NoRequest]
      /\ EndSessions(row)
      /\ holds' = IF desk[t].on THEN holds ELSE {}
      /\ membership' = IF desk[t].on /\ Staff /\ \A w \in Workspaces : membership[w] = NoRow
                       THEN [membership EXCEPT !["mark-agency"] = first] ELSE membership
  BY DEF SetActive, Answer
<1>2. account \in AccountRow /\ holds \subseteq Workspaces
      /\ membership \in [Workspaces -> MemberRow]
      /\ \A v \in Workspaces : membership[v].role \in RolesHere
  BY DEF AccountInv, AccountKept
<1>3. row \in AccountRow /\ row.version = account.version /\ row.role = account.role
      /\ row.status = IF desk[t].on THEN "active" ELSE "inactive"
  BY <1>2 DEF AccountRow
<1>4. first \in MemberRow /\ first.role = "crm_contributor" /\ first.active
  BY DEF NoRow, MemberRow, MembershipRoles
<1> HIDE DEF row, first
<1>5. /\ membership' \in [Workspaces -> MemberRow]
      /\ \A v \in Workspaces : \/ membership'[v] = membership[v]
                               \/ membership'[v] = first /\ Staff
  BY <1>1, <1>2, <1>4
<1>6. Staff => "crm_contributor" \in RolesHere
  BY DEF Staff, StaffRoles, RolesHere, MembershipRolesOf
<1>7. \A v \in Workspaces : membership'[v].role \in RolesHere
  BY <1>2, <1>4, <1>5, <1>6
<1>8. ASSUME accountRoom.desks = 1, NEW v \in holds'
      PROVE  row.status = "active" /\ membership'[v].active
  <2>1. v \in holds /\ v \in Workspaces /\ desk[t].on
    BY <1>1, <1>2, <1>8
  <2>2. membership[v].active
    BY <1>8, <2>1 DEF AccountInv, NothingHeldWithoutAccess
  <2> QED
    BY <1>3, <1>4, <1>5, <2>1, <2>2
<1>9. holds' \subseteq Workspaces
  BY <1>1, <1>2
<1>10. row.status # "none" /\ desk[t].op # "idle"
  BY <1>1, <1>3
<1> QED
  BY <1>1, <1>3, <1>5, <1>7, <1>8, <1>9, <1>10, EndedKeeps

LEMMA ResetPasswordKeeps ==
  ASSUME AccountInv, UNCHANGED accountRoom, NEW t \in Desks, ResetPassword(t)
  PROVE  AccountInv'
<1> DEFINE row == [account EXCEPT !.must = TRUE]
<1>1. /\ desk[t].op = "reset" /\ desk' = [desk EXCEPT ![t] = NoRequest]
      /\ EndSessions(row) /\ UNCHANGED <<membership, holds>>
  BY DEF ResetPassword, Answer
<1>2. account \in AccountRow /\ holds \subseteq Workspaces
      /\ membership \in [Workspaces -> MemberRow]
      /\ \A v \in Workspaces : membership[v].role \in RolesHere
  BY DEF AccountInv, AccountKept
<1>3. row \in AccountRow /\ row.version = account.version /\ row.role = account.role
      /\ row.status = account.status
  BY <1>2 DEF AccountRow
<1> HIDE DEF row
<1>4. accountRoom.desks = 1 => \A w \in holds : row.status = "active" /\ membership[w].active
  BY <1>3 DEF AccountInv, NothingHeldWithoutAccess
<1>5. desk[t].op # "idle"
  BY <1>1
<1> QED
  BY <1>1, <1>2, <1>3, <1>4, <1>5, EndedKeeps

LEMMA AccountStepKeeps == AccountInv /\ [AccountNext]_accountVars => AccountInv'
<1> SUFFICES ASSUME AccountInv, [AccountNext]_accountVars PROVE AccountInv'
  OBVIOUS
<1>1. CASE UNCHANGED accountVars
  <2>1. UNCHANGED <<account, membership, holds, browser, desk, accountRoom>>
    BY <1>1 DEF accountVars
  <2>2. \A b \in Browsers : SessionOK(browser[b])'
    BY <2>1, SessionsStay
  <2> QED
    BY <2>1, <2>2 DEF AccountInv, AccountKept, RolesHere, RequestOK, OneTab,
                      NothingHeldWithoutAccess
<1>2. CASE AccountNext
  <2>1. AccountStep /\ UNCHANGED accountRoom
    BY <1>2 DEF AccountNext
  <2>2. CASE CreateAccount
    BY <2>1, <2>2, CreateKeeps
  <2>3. ASSUME NEW t \in Desks,
               AskAccess(t) \/ AskContact(t) \/ AskActive(t) \/ AskReset(t) \/ AskAssign(t)
        PROVE  AccountInv'
    BY <2>1, <2>3, AsksKeep
  <2>4. ASSUME NEW t \in Desks,
               \/ SetAccess(t) \/ SetContact(t) \/ SetActive(t) \/ ResetPassword(t)
               \/ Assign(t) \/ Refuse(t)
        PROVE  AccountInv'
    BY <2>1, <2>4, SetAccessKeeps, SetContactKeeps, SetActiveKeeps, ResetPasswordKeeps,
       AssignKeeps, RefuseKeeps
  <2>5. ASSUME NEW b \in Browsers,
               \/ BeginSignIn(b) \/ Authenticate(b) \/ SignIn(b) \/ SignOut(b) \/ Expire(b)
               \/ Fail(b) \/ GuardSession(b)
        PROVE  AccountInv'
    BY <2>1, <2>5, SigningKeeps
  <2>6. ASSUME NEW b \in Browsers,
               Land(b) \/ Click(b) \/ SelectWorkspace(b) \/ BeginPassword(b) \/ BeginRevoke(b)
        PROVE  AccountInv'
    BY <2>1, <2>6, SentKeeps
  <2>7. ASSUME NEW b \in Browsers,
               \/ GuardAccess(b) \/ GuardPassword(b) \/ Handle(b)
               \/ ChangePassword(b) \/ RevokeOthers(b)
        PROVE  AccountInv'
    BY <2>1, <2>7, GuardKeeps, ChangePasswordKeeps, RevokeOthersKeeps
  <2> QED
    BY <2>1, <2>2, <2>3, <2>4, <2>5, <2>6, <2>7 DEF AccountStep
<1> QED
  BY <1>1, <1>2

LEMMA AccountHolds == AccountSpec => []AccountInv
BY AccountInitially, AccountStepKeeps, PTL DEF AccountSpec

\* Accounts, memberships and sessions keep their types, and a membership has a role
\* that its account may have.
THEOREM AccountsTyped == AccountSpec => []AccountTypeOK
<1>1. AccountInv => AccountTypeOK
  <2> SUFFICES ASSUME AccountInv PROVE AccountTypeOK
    OBVIOUS
  <2>1. account \in AccountRow /\ account.version <= accountRoom.version
        /\ accountRoom.version \in Nat
    BY RoomIs DEF AccountInv, AccountKept
  <2>2. account.version \in 1..accountRoom.version
    <3>1. account.version \in Nat \ {0}
      BY <2>1 DEF AccountRow
    <3> QED
      BY <2>1, <3>1
  <2>3. account \in [role : AccountRoles, status : {"none", "active", "inactive"},
                     must : BOOLEAN, version : 1..accountRoom.version]
    BY <2>1, <2>2 DEF AccountRow
  <2>4. \A b \in Browsers : /\ browser[b].next \in Pages \cup {Nowhere}
                            /\ browser[b].row \in {"none", "live", "revoked"}
    BY SessionOf DEF BrowserRow
  <2> QED
    BY <2>3, <2>4 DEF AccountInv, AccountKept, AccountTypeOK, RolesHere, MemberRow
<1> QED
  BY <1>1, AccountHolds, PTL

\* However requests of the owner, sign-ins, password changes and clicks interleave: who
\* is in has verified the password since the account was last changed or was overtaken
\* by that change, and sees nothing but the password page while a new one is due; an
\* account that lost its access holds no lead where the owner works in one tab; and no
\* click is redirected a third time (authenticate_user, change_own_password,
\* login_and_permission_guard, landing_path_for_user).
THEOREM SessionsFollow == AccountSpec => []AccessFollowsAccount
<1>1. AccountInv => AccessFollowsAccount
  <2> SUFFICES ASSUME AccountInv PROVE AccessFollowsAccount
    OBVIOUS
  <2>1. SessionsFollowChanges
    BY DEF AccountInv, SessionOK, SessionsFollowChanges, Valid
  <2>2. RedirectsEnd
    BY SessionOf DEF BrowserRow, RedirectsEnd
  <2> QED
    BY <2>1, <2>2 DEF AccountInv, AccessFollowsAccount
<1> QED
  BY <1>1, AccountHolds, PTL

\* What a page shows of a session.
LEMMA OnlyPagesShow ==
  ASSUME AccountInv, AccountNext, NEW b \in Browsers,
         browser'[b].page = "forbidden", Sent(b), ~Sent(b)'
  PROVE  account.role # "owner" /\ Cardinality(MemberOf) # 1
<1>0. /\ browser \in [Browsers -> BrowserRow] /\ browser[b] \in BrowserRow
      /\ SessionOK(browser[b])
      /\ browser[b].stage = "in" /\ browser[b].next # Nowhere
      /\ ~(browser'[b].stage = "in" /\ browser'[b].next # Nowhere)
  BY SessionOf DEF AccountInv, AccountKept, Sent, At
<1>1. ASSUME UNCHANGED browser PROVE FALSE
  BY <1>0, <1>1
<1>2. ASSUME NEW row, EndSessions(row) PROVE FALSE
  <2>1. browser'[b].stage = browser[b].stage /\ browser'[b].next = browser[b].next
    <3>1. browser'[b] = Overtaken(Revoked(browser[b]))
      BY <1>2 DEF EndSessions
    <3> QED
      BY <1>0, <3>1, RevokedStays, OvertakenIs
  <2> QED
    BY <1>0, <2>1
<1>3. ASSUME NEW c \in Browsers, NEW s, Turn(c, s), c # b PROVE FALSE
  <2>1. browser'[b] = browser[b]
    BY <1>0, <1>3 DEF Turn
  <2> QED
    BY <1>0, <2>1
<1>4. ASSUME NEW s, Turn(b, s) PROVE browser'[b] = s
  BY <1>0, <1>4 DEF Turn
<1>5. ASSUME NEW c \in Browsers, ChangePassword(c) \/ RevokeOthers(c) PROVE FALSE
  <2>1. c # b
    BY <1>0, <1>5 DEF ChangePassword, RevokeOthers, At
  <2>2. browser'[b].stage = browser[b].stage /\ browser'[b].next = browser[b].next
    <3>1. browser'[b] = Overtaken(browser[b]) \/ browser'[b] = Revoked(browser[b])
      BY <1>5, <2>1 DEF ChangePassword, RevokeOthers
    <3> QED
      BY <1>0, <3>1, RevokedStays, OvertakenIs
  <2> QED
    BY <1>0, <2>2
<1>6. ASSUME NEW t \in Desks,
             \/ AskAccess(t) \/ SetAccess(t) \/ AskContact(t) \/ SetContact(t)
             \/ AskActive(t) \/ SetActive(t) \/ AskReset(t) \/ ResetPassword(t)
             \/ AskAssign(t) \/ Assign(t) \/ Refuse(t)
      PROVE  FALSE
  BY <1>1, <1>2, <1>6 DEF AskAccess, SetAccess, AskContact, SetContact, AskActive, SetActive,
     AskReset, ResetPassword, AskAssign, Assign, Refuse, Ask
<1>7. ASSUME NEW c \in Browsers, NEW s, Turn(c, s), ~(At(c, "in") /\ browser[c].next # Nowhere)
      PROVE  FALSE
  BY <1>0, <1>3, <1>7, SMTT(30) DEF At
<1>8. ASSUME NEW c \in Browsers,
             \/ BeginSignIn(c) \/ Authenticate(c) \/ SignIn(c) \/ Land(c) \/ Click(c)
             \/ SelectWorkspace(c) \/ BeginPassword(c) \/ BeginRevoke(c) \/ SignOut(c)
             \/ Expire(c) \/ Fail(c)
      PROVE  FALSE
  BY <1>7, <1>8 DEF BeginSignIn, Authenticate, SignIn, Land, Click, SelectWorkspace, Resting,
     BeginPassword, BeginRevoke, SignOut, Expire, Fail, At
<1>9. ASSUME GuardSession(b) PROVE FALSE
  <2>1. browser'[b] = SignedOut
    BY <1>4, <1>9 DEF GuardSession
  <2> QED
    BY <2>1, SignedOutIs
<1>10. ASSUME NEW page \in Pages, Turn(b, Redirected(b, page)) PROVE FALSE
  <2>1. browser'[b].stage = "in" /\ browser'[b].next = page
    BY <1>0, <1>4, <1>10 DEF Redirected, BrowserRow
  <2> QED
    BY <1>0, <2>1 DEF Pages, Nowhere
<1>11. ASSUME GuardAccess(b) \/ GuardPassword(b) PROVE FALSE
  <2>1. Me(b).role \in Roles
    BY SessionOf DEF Me
  <2>2. Landing(Me(b)) \in Pages /\ "password" \in Pages
    BY <2>1, LandingOpens DEF Pages
  <2> QED
    BY <1>10, <1>11, <2>2 DEF GuardAccess, GuardPassword
<1>12. ASSUME Handle(b) PROVE Resolve(browser[b].workspace) = NoWorkspace
  <2> DEFINE page == browser[b].next
             w == Me(b).workspace
             shown == IF page = "password" THEN "password"
                      ELSE IF page \in CrmPages /\ w = NoWorkspace THEN "forbidden"
                      ELSE "page"
  <2>1. CASE page = "relationship-manager" /\ (account.role # "relationship_manager" \/ w = NoWorkspace)
    BY <1>10, <1>12, <2>1 DEF Handle, Pages
  <2>2. CASE ~(page = "relationship-manager" /\ (account.role # "relationship_manager" \/ w = NoWorkspace))
    <3>1. Turn(b, Shown(b, shown))
      BY <1>12, <2>2 DEF Handle
    <3>2. browser'[b].page = shown
      <4> HIDE DEF shown
      <4> QED
        BY <1>0, <1>4, <3>1 DEF Shown, BrowserRow
    <3>3. w = NoWorkspace
      BY <3>2
    <3> QED
      BY <3>3 DEF Me, ActorIn
  <2> QED
    BY <2>1, <2>2
<1>13. ASSUME NEW c \in Browsers, c # b,
              GuardSession(c) \/ GuardAccess(c) \/ GuardPassword(c) \/ Handle(c)
       PROVE  FALSE
  BY <1>3, <1>13 DEF GuardSession, GuardAccess, GuardPassword, Handle
<1>14. Handle(b)
  BY <1>1, <1>5, <1>6, <1>8, <1>9, <1>11, <1>13 DEF AccountNext, AccountStep, CreateAccount
<1> QED
  BY <1>12, <1>14, ResolveSettles

\* Who has one workspace, and the owner, is never refused for want of one, whatever
\* the owner changes while the request is on its way (resolve_workspace_session).
THEOREM OneWorkspaceIsUsed == AccountSpec => SoleWorkspaceIsUsed
<1>1. AccountInv /\ [AccountNext]_accountVars =>
        [\A b \in Browsers :
           browser'[b].page = "forbidden" /\ Sent(b) /\ ~Sent(b)' =>
             account.role # "owner" /\ Cardinality(MemberOf) # 1]_accountVars
  BY OnlyPagesShow
<1> QED
  BY <1>1, AccountHolds, PTL DEF AccountSpec, SoleWorkspaceIsUsed

-----------------------------------------------------------------------------
(* How leads come in.                                                      *)

WebhookKeys == {<<"webhook", t, x>> : t \in Tokens, x \in ExternalIds}
CsvKeys == {<<"csv", file, n>> : file \in Files, n \in Nat}
Keys == {NoSourceKey} \cup WebhookKeys \cup CsvKeys
IntakeRow == [status : {"none", "active", "deleted"}, key : Keys,
              company : Companies \cup {BadPayload}, stage : IntakeStages]

NewLead(key, company, stage) ==
  [status |-> "active", key |-> key, company |-> company, stage |-> stage]

Added(leads, l, key, company, stage) == [leads EXCEPT ![l] = NewLead(key, company, stage)]

\* OneLeadPerSource, of any leads.
OneEach(leads) ==
  \A l, m \in Stored(leads) :
    l # m =>
      /\ leads[l].key = leads[m].key => leads[l].key = NoSourceKey
      /\ leads[l].status = "active" /\ leads[m].status = "active" =>
           leads[l].company # leads[m].company

LeadsOK(leads) == leads \in [IntakeLeads -> IntakeRow] /\ OneEach(leads)

LEMMA KeysDiffer ==
  /\ \A t \in Tokens, x \in ExternalIds :
       <<"webhook", t, x>> \in Keys /\ <<"webhook", t, x>> # NoSourceKey
  /\ \A file \in Files : \A n \in DOMAIN file :
       CsvKey(file, n) \in Keys /\ CsvKey(file, n) # NoSourceKey
<1>1. \A t \in Tokens, x \in ExternalIds : <<"webhook", t, x>> \in WebhookKeys
  BY DEF WebhookKeys
<1>2. \A file \in Files, n \in Nat : <<"csv", file, n>> \in CsvKeys
  BY DEF CsvKeys
<1>3. \A file \in Files : \A n \in DOMAIN file : n \in Nat
  <2> SUFFICES ASSUME NEW file \in Files, NEW n \in DOMAIN file PROVE n \in Nat
    OBVIOUS
  <2>1. file \in Seq(CsvRow)
    BY IntakeAssumption
  <2> QED
    BY <2>1
<1> QED
  BY <1>1, <1>2, <1>3, IntakeAssumption DEF Keys, CsvKey

\* A new row keeps the leads apart when nothing has its key and its company.
LEMMA AddKeeps ==
  ASSUME NEW leads, LeadsOK(leads), NEW l \in IntakeLeads, l \notin Stored(leads),
         NEW key \in Keys, NEW company \in Companies, NEW stage \in IntakeStages,
         WithKey(leads, key) = {}, OfCompany(leads, company) = {},
         NEW after, after = Added(leads, l, key, company, stage)
  PROVE  /\ LeadsOK(after)
         /\ Stored(after) = Stored(leads) \cup {l}
         /\ after[l] = NewLead(key, company, stage)
         /\ \A m \in IntakeLeads \ {l} : after[m] = leads[m]
         /\ \A k : k # key => WithKey(after, k) = WithKey(leads, k)
         /\ key # NoSourceKey => WithKey(after, key) = {l}
<1> DEFINE row == NewLead(key, company, stage)
<1>1. row \in IntakeRow /\ row.status = "active" /\ row.key = key /\ row.company = company
  BY DEF NewLead, IntakeRow
<1> HIDE DEF row
<1>2. after = [leads EXCEPT ![l] = row]
  BY DEF row, Added
<1>3. /\ after \in [IntakeLeads -> IntakeRow] /\ after[l] = row
      /\ \A m \in IntakeLeads \ {l} : after[m] = leads[m]
  BY <1>1, <1>2 DEF LeadsOK
<1>4. Stored(after) = Stored(leads) \cup {l}
  BY <1>1, <1>3 DEF Stored
<1>5. \A m \in Stored(leads) : m # l /\ m \in IntakeLeads /\ after[m] = leads[m]
  BY <1>3 DEF Stored
<1>6. \A m \in Stored(leads) : /\ leads[m].key = key => key = NoSourceKey
                               /\ leads[m].status = "active" => leads[m].company # company
  BY DEF WithKey, OfCompany, ActiveLeads, Stored
<1>7. OneEach(after)
  <2> SUFFICES ASSUME NEW i \in Stored(after), NEW j \in Stored(after), i # j
               PROVE  /\ after[i].key = after[j].key => after[i].key = NoSourceKey
                      /\ after[i].status = "active" /\ after[j].status = "active" =>
                           after[i].company # after[j].company
    BY DEF OneEach
  <2>1. CASE i = l
    BY <1>1, <1>3, <1>4, <1>5, <1>6, <2>1
  <2>2. CASE j = l
    BY <1>1, <1>3, <1>4, <1>5, <1>6, <2>2
  <2>3. CASE i # l /\ j # l
    BY <1>4, <1>5, <2>3 DEF LeadsOK, OneEach
  <2> QED
    BY <2>1, <2>2, <2>3
<1>8. ASSUME NEW k, k # key PROVE WithKey(after, k) = WithKey(leads, k)
  <2>1. \A m \in Stored(after) : after[m].key = k <=> m \in Stored(leads) /\ leads[m].key = k
    BY <1>1, <1>3, <1>4, <1>5, <1>8
  <2>2. Stored(leads) \subseteq Stored(after)
    BY <1>4
  <2> QED
    BY <2>1, <2>2 DEF WithKey
<1>9. key # NoSourceKey => WithKey(after, key) = {l}
  BY <1>1, <1>3, <1>4, <1>5, <1>6 DEF WithKey
<1>10. after[l] = NewLead(key, company, stage)
  BY <1>3 DEF row
<1> QED
  BY <1>3, <1>4, <1>7, <1>8, <1>9, <1>10 DEF LeadsOK

\* The next id.
LEMMA NextIs ==
  ASSUME NEW S, S \subseteq IntakeLeads, S # {}
  PROVE  (CHOOSE l \in S : \A m \in S : l <= m) \in S
<1>1. S \subseteq Nat
  BY IntakeAssumption
<1> DEFINE Less == OpToRel(<, Nat)
<1>2. IsWellFoundedOn(Less, Nat)
  BY NatLessThanWellFounded
<1>3. PICK l \in S : \A m \in S : <<m, l>> \notin Less
  <2> HIDE DEF Less
  <2> QED
    BY <1>1, <1>2, WFMin
<1>4. \A m \in S : ~(m < l)
  BY <1>1, <1>3 DEF OpToRel
<1>5. \E i \in S : \A m \in S : i <= m
  BY <1>1, <1>4
<1> QED
  BY <1>5

\* What create_lead answers.
Refused(leads, key, r) ==
  r.outcome = "error" /\ r.leads = leads /\ r.lead = 0 /\ WithKey(leads, key) # {}
Known(leads, key, company, r) ==
  /\ r.outcome = "duplicate" /\ r.leads = leads /\ r.lead \in Stored(leads)
  /\ WithKey(leads, key) # {} \/ OfCompany(leads, company) # {}
New(leads, key, company, stage, r) ==
  /\ r.outcome = "created" /\ WithKey(leads, key) = {} /\ OfCompany(leads, company) = {}
  /\ r.lead \in IntakeLeads /\ r.lead \notin Stored(leads)
  /\ r.leads = Added(leads, r.lead, key, company, stage)

LEMMA CreatedIs ==
  ASSUME NEW leads, IntakeLeads \ Stored(leads) # {}, NEW key, NEW company, NEW stage,
         NEW r, r = Created(leads, key, company, stage)
  PROVE  \/ Refused(leads, key, r)
         \/ Known(leads, key, company, r)
         \/ New(leads, key, company, stage, r)
<1> DEFINE mine == WithKey(leads, key)
           same == OfCompany(leads, company)
           free == IntakeLeads \ Stored(leads)
           next == CHOOSE l \in free : \A m \in free : l <= m
           known == CHOOSE l \in IF mine # {} THEN mine ELSE same : TRUE
           bad == \E l \in mine : leads[l].status = "deleted" \/ leads[l].stage # stage
<1>1. next \in free
  BY NextIs
<1>2. /\ bad => r = [leads |-> leads, outcome |-> "error", lead |-> 0]
      /\ ~bad /\ mine \cup same # {} =>
           r = [leads |-> leads, outcome |-> "duplicate", lead |-> known]
      /\ ~bad /\ mine \cup same = {} =>
           r = [leads |-> Added(leads, next, key, company, stage),
                outcome |-> "created", lead |-> next]
  BY DEF Created, NewLead, Added
<1>3. mine \cup same \subseteq Stored(leads)
  BY DEF WithKey, OfCompany, ActiveLeads, Stored
<1>4. bad => mine # {}
  OBVIOUS
<1>5. mine \cup same # {} => known \in mine \cup same
  <2>1. \A S : S # {} => (CHOOSE l \in S : TRUE) \in S
    OBVIOUS
  <2> QED
    BY <2>1
<1> HIDE DEF known, next, bad
<1>6. CASE bad
  BY <1>2, <1>4, <1>6 DEF Refused
<1>7. CASE ~bad /\ mine \cup same # {}
  BY <1>2, <1>3, <1>5, <1>7 DEF Known
<1>8. CASE ~bad /\ mine \cup same = {}
  BY <1>1, <1>2, <1>8 DEF New
<1> QED
  BY <1>6, <1>7, <1>8

\* Whatever create_lead answers keeps the leads that are there.
LEMMA CreatedKeeps ==
  ASSUME NEW leads, LeadsOK(leads), IntakeLeads \ Stored(leads) # {},
         NEW key \in Keys, NEW company \in Companies, NEW stage \in IntakeStages,
         NEW r, r = Created(leads, key, company, stage)
  PROVE  /\ LeadsOK(r.leads)
         /\ Stored(leads) \subseteq Stored(r.leads)
         /\ \A l \in Stored(leads) : r.leads[l] = leads[l]
         /\ \A k : k # key \/ key = NoSourceKey => WithKey(r.leads, k) = WithKey(leads, k)
         /\ r.outcome \in {"error", "duplicate", "created"}
         /\ r.lead \in IF r.outcome = "error" THEN {0} ELSE Stored(r.leads)
         /\ r.outcome = "created" /\ key # NoSourceKey => WithKey(r.leads, key) = {r.lead}
         /\ r.outcome # "created" => r.leads = leads
<1>1. CASE Refused(leads, key, r)
  BY <1>1 DEF Refused
<1>2. CASE Known(leads, key, company, r)
  BY <1>2 DEF Known
<1>3. CASE New(leads, key, company, stage, r)
  <2>1. /\ r.lead \in IntakeLeads /\ r.lead \notin Stored(leads) /\ r.outcome = "created"
        /\ WithKey(leads, key) = {} /\ OfCompany(leads, company) = {}
        /\ r.leads = Added(leads, r.lead, key, company, stage)
    BY <1>3 DEF New
  <2> DEFINE after == r.leads
             id == r.lead
  <2>2. /\ LeadsOK(after)
        /\ Stored(after) = Stored(leads) \cup {id}
        /\ \A m \in IntakeLeads \ {id} : after[m] = leads[m]
        /\ \A k : k # key => WithKey(after, k) = WithKey(leads, k)
        /\ key # NoSourceKey => WithKey(after, key) = {id}
    <3>1. /\ id \in IntakeLeads /\ id \notin Stored(leads)
          /\ after = Added(leads, id, key, company, stage)
      BY <2>1
    <3> HIDE DEF after, id
    <3>2. LeadsOK(leads) /\ WithKey(leads, key) = {} /\ OfCompany(leads, company) = {}
      BY <2>1
    <3> QED
      BY <3>1, <3>2, AddKeeps
  <2>3. \A l \in Stored(leads) : l \in IntakeLeads \ {r.lead}
    BY <2>1 DEF Stored
  <2>4. key = NoSourceKey => WithKey(r.leads, key) = {} /\ WithKey(leads, key) = {}
    BY DEF WithKey
  <2> QED
    BY <2>1, <2>2, <2>3, <2>4
<1> QED
  BY <1>1, <1>2, <1>3, CreatedIs

EventRow == [outcome : {"none", "created", "duplicate", "rejected"}, lead : IntakeLeads \cup {0}]
UploadRow == [file : Files \cup {<<>>}, valid : SUBSET Nat, known : SUBSET Nat, fresh : BOOLEAN]

\* What the preview saw is so until a lead changes.
PreviewStands(leads, up) ==
  \A n \in up.valid :
    /\ OfCompany(leads, up.file[n].company) = {}
    /\ \A m \in 1..(n - 1) :
         up.file[m] # BadPayload => up.file[m].company # up.file[n].company
    /\ n \notin up.known => WithKey(leads, CsvKey(up.file, n)) = {}

UploadOK(leads, up) ==
  /\ up \in UploadRow /\ up.valid \subseteq DOMAIN up.file
  /\ \A n \in up.valid : up.file[n] # BadPayload
  /\ up.fresh => PreviewStands(leads, up)

EventOK(row, leads) ==
  row.lead \in IF row.outcome \in {"created", "duplicate"} THEN Stored(leads) ELSE {0}

IntakeInv ==
  /\ intakeRoom \in IntakeRooms
  /\ token \in [Tokens -> {"none", "active", "revoked"}]
  /\ event \in [Tokens -> [ExternalIds -> EventRow]]
  /\ LeadsOK(intakeLead)
  /\ \/ delivery = NoDelivery
     \/ /\ delivery.token \in Tokens /\ delivery.id \in ExternalIds
        /\ delivery.company \in Companies \cup {BadPayload}
        /\ token[delivery.token] # "none"
  /\ UploadOK(intakeLead, upload)
  /\ \A t \in Tokens, x \in ExternalIds :
       EventOK(event[t][x], intakeLead) /\ (token[t] = "none" => event[t][x] = NoEvent)
  /\ EventsAndLeadsAgree
  /\ PreviewIsKept

\* A row of a file that a form can name.
LEMMA RowIs ==
  ASSUME NEW up, NEW leads, UploadOK(leads, up), NEW n \in up.valid
  PROVE  /\ up.file \in Files /\ up.file \in Seq(CsvRow) /\ Len(up.file) \in Nat
         /\ DOMAIN up.file = 1..Len(up.file) /\ n \in 1..Len(up.file)
         /\ up.file[n].company \in Companies /\ up.file[n].stage \in IntakeStages
         /\ CsvKey(up.file, n) \in Keys /\ CsvKey(up.file, n) # NoSourceKey
<1>1. up.file \in Files \cup {<<>>} /\ n \in DOMAIN up.file /\ up.file[n] # BadPayload
  BY DEF UploadOK, UploadRow
<1>2. up.file # <<>>
  BY <1>1
<1> DEFINE f == up.file
<1>3. f \in Files /\ f \in Seq(CsvRow)
  BY <1>1, <1>2, IntakeAssumption
<1> HIDE DEF f
<1>4. Len(f) \in Nat /\ DOMAIN f = 1..Len(f)
  BY <1>3
<1>5. n \in 1..Len(f) /\ n \in DOMAIN f
  BY <1>1, <1>4 DEF f
<1>6. f[n] \in CsvRow
  BY <1>3, <1>5
<1>7. f[n].company \in Companies /\ f[n].stage \in IntakeStages
  BY <1>1, <1>6 DEF CsvRow, f
<1> QED
  BY <1>3, <1>4, <1>5, <1>7, KeysDiffer DEF f

-----------------------------------------------------------------------------
(* A file, row by row.                                                     *)

\* Row n, when the rows above it are imported.
RowAfter(before, file, n, selected, staff) ==
  IF n \in selected THEN ImportRow(before, file, n, staff)
  ELSE [before EXCEPT !.rows = Append(@, "skipped")]

\* g is the import of the first k rows.
Rows(g, k, file, selected, staff) ==
  g = [n \in 0..k |-> IF n = 0 THEN [leads |-> intakeLead, rows |-> <<>>]
                      ELSE RowAfter(g[n - 1], file, n, selected, staff)]

LEMMA RowsExist ==
  ASSUME NEW N \in Nat, NEW file, NEW selected, NEW staff
  PROVE  \E g : Rows(g, N, file, selected, staff)
<1> DEFINE T == {k \in Nat : \E g : Rows(g, k, file, selected, staff)}
<1>1. 0 \in T
  <2> DEFINE g == [n \in 0..0 |-> [leads |-> intakeLead, rows |-> <<>>]]
  <2>1. Rows(g, 0, file, selected, staff)
    BY DEF Rows
  <2> QED
    BY <2>1
<1>2. ASSUME NEW k \in Nat, k \in T PROVE k + 1 \in T
  <2>1. PICK g : Rows(g, k, file, selected, staff)
    BY <1>2
  <2> DEFINE first == [leads |-> intakeLead, rows |-> <<>>]
             h == [n \in 0..(k + 1) |-> IF n = 0 THEN first
                                        ELSE RowAfter(g[n - 1], file, n, selected, staff)]
  <2> HIDE DEF first
  <2>2. \A n \in 0..k : g[n] = IF n = 0 THEN first
                               ELSE RowAfter(g[n - 1], file, n, selected, staff)
    BY <2>1 DEF Rows, first
  <2>3. \A n \in 0..k : h[n] = g[n]
    BY <2>2
  <2>4. \A n \in 0..(k + 1) : n # 0 => n - 1 \in 0..k
    OBVIOUS
  <2>5. \A n \in 0..(k + 1) : h[n] = IF n = 0 THEN first
                                     ELSE RowAfter(h[n - 1], file, n, selected, staff)
    BY <2>3, <2>4
  <2>6. h = [n \in 0..(k + 1) |-> h[n]]
    OBVIOUS
  <2> HIDE DEF h
  <2>7. h = [n \in 0..(k + 1) |-> IF n = 0 THEN first
                                  ELSE RowAfter(h[n - 1], file, n, selected, staff)]
    BY <2>5, <2>6
  <2>8. Rows(h, k + 1, file, selected, staff)
    BY <2>7 DEF Rows, first
  <2> QED
    BY <2>8
<1> HIDE DEF T
<1>3. N \in T
  BY <1>1, <1>2, InductionOverNat
<1> QED
  BY <1>3 DEF T

LEMMA ImportedIs ==
  ASSUME NEW file, Len(file) \in Nat, NEW selected, NEW staff
  PROVE  \E g : /\ Rows(g, Len(file), file, selected, staff)
                /\ Imported(file, selected, staff) = g[Len(file)]
<1> DEFINE P(g) == g = [n \in 0..Len(file) |->
                     IF n = 0 THEN [leads |-> intakeLead, rows |-> <<>>]
                     ELSE IF n \in selected THEN ImportRow(g[n - 1], file, n, staff)
                     ELSE [g[n - 1] EXCEPT !.rows = Append(@, "skipped")]]
           g == CHOOSE g : P(g)
<1>1. Imported(file, selected, staff) = g[Len(file)]
  BY DEF Imported
<1>2. PICK h : Rows(h, Len(file), file, selected, staff)
  BY RowsExist
<1>3. P(h)
  BY <1>2 DEF Rows, RowAfter
<1>4. P(g)
  BY <1>3
<1>5. Rows(g, Len(file), file, selected, staff)
  BY <1>4 DEF Rows, RowAfter
<1> QED
  BY <1>1, <1>5

Outcomes == {"created", "duplicate", "error", "skipped"}
Free(leads) == intakeRoom.leads \ Stored(leads)
Left(selected, n) == {m \in selected : m > n}

\* After n rows: no lead is lost, those that came have the key and the company of a
\* selected row above, there is room for the rows left, and what was offered and
\* selected became a lead.
ImportedOK(x, n, selected) ==
  /\ x = [leads |-> x.leads, rows |-> x.rows]
  /\ LeadsOK(x.leads)
  /\ Stored(intakeLead) \subseteq Stored(x.leads)
  /\ \A l \in Stored(intakeLead) : x.leads[l] = intakeLead[l]
  /\ \A l \in Stored(x.leads) :
       l \notin Stored(intakeLead) =>
         \E m \in selected : /\ m <= n /\ x.leads[l].key = CsvKey(upload.file, m)
                             /\ x.leads[l].company = upload.file[m].company
  /\ x.rows \in Seq(Outcomes) /\ Len(x.rows) = n
  /\ Cardinality(Free(x.leads)) >= Cardinality(Left(selected, n))
  /\ upload.fresh =>
       \A m \in 1..n : m \in upload.valid /\ m \notin upload.known =>
                         x.rows[m] \in {"created", "skipped"}

LEMMA FreeIs ==
  ASSUME IntakeInv, NEW leads
  PROVE  /\ IsFiniteSet(Free(leads)) /\ Cardinality(Free(leads)) \in Nat
         /\ Cardinality(Free(leads)) >= 1 => IntakeLeads \ Stored(leads) # {}
         /\ \A after, l : Stored(after) = Stored(leads) \cup {l} =>
              Cardinality(Free(after)) >= Cardinality(Free(leads)) - 1
<1>1. intakeRoom.leads \subseteq IntakeLeads /\ IsFiniteSet(IntakeLeads)
  BY IntakeAssumption DEF IntakeInv
<1>2. \A other : IsFiniteSet(Free(other)) /\ Cardinality(Free(other)) \in Nat
  BY <1>1, FS_Subset, FS_CardinalityType DEF Free
<1>3. ASSUME Cardinality(Free(leads)) >= 1 PROVE IntakeLeads \ Stored(leads) # {}
  <2>1. Free(leads) # {}
    <3> SUFFICES ASSUME Free(leads) = {} PROVE FALSE
      OBVIOUS
    <3>1. Cardinality(Free(leads)) = 0
      BY FS_EmptySet
    <3> QED
      BY <1>3, <3>1
  <2> QED
    BY <1>1, <2>1 DEF Free
<1>4. ASSUME NEW after, NEW l, Stored(after) = Stored(leads) \cup {l}
      PROVE  Cardinality(Free(after)) >= Cardinality(Free(leads)) - 1
  <2>1. Free(after) = Free(leads) \ {l}
    BY <1>4 DEF Free
  <2>2. CASE l \in Free(leads)
    <3>1. Cardinality(Free(leads) \ {l}) = Cardinality(Free(leads)) - 1
      BY <1>2, <2>2, FS_RemoveElement
    <3> QED
      BY <1>2, <2>1, <3>1
  <2>3. CASE l \notin Free(leads)
    <3>1. Free(leads) \ {l} = Free(leads)
      BY <2>3
    <3> QED
      BY <1>2, <2>1, <3>1
  <2> QED
    BY <2>2, <2>3
<1> QED
  BY <1>2, <1>3, <1>4

LEMMA LeftIs ==
  ASSUME NEW selected, IsFiniteSet(selected), selected \subseteq Nat \ {0}
  PROVE  /\ Left(selected, 0) = selected
         /\ \A n \in Nat : Cardinality(Left(selected, n)) \in Nat
         /\ \A n \in Nat :
              Cardinality(Left(selected, n)) =
                IF n + 1 \in selected THEN Cardinality(Left(selected, n + 1)) + 1
                ELSE Cardinality(Left(selected, n + 1))
<1>1. \A m \in selected : m \in Nat /\ m > 0
  OBVIOUS
<1>2. \A n : IsFiniteSet(Left(selected, n)) /\ Cardinality(Left(selected, n)) \in Nat
  BY FS_Subset, FS_CardinalityType DEF Left
<1>3. Left(selected, 0) = selected
  BY <1>1 DEF Left
<1>4. ASSUME NEW n \in Nat, n + 1 \notin selected
      PROVE  Left(selected, n + 1) = Left(selected, n)
  <2>1. \A m \in selected : m > n <=> m > n + 1
    BY <1>1, <1>4
  <2> QED
    BY <2>1 DEF Left
<1>5. ASSUME NEW n \in Nat, n + 1 \in selected
      PROVE  Cardinality(Left(selected, n)) = Cardinality(Left(selected, n + 1)) + 1
  <2>1. \A m \in selected : m > n + 1 <=> m > n /\ m # n + 1
    BY <1>1
  <2>2. Left(selected, n + 1) = Left(selected, n) \ {n + 1} /\ n + 1 \in Left(selected, n)
    <3>1. n + 1 \in Left(selected, n)
      BY <1>5 DEF Left
    <3>2. \A m : m \in Left(selected, n + 1) <=> m \in Left(selected, n) /\ m # n + 1
      BY <2>1 DEF Left
    <3> QED
      BY <3>1, <3>2
  <2>3. Cardinality(Left(selected, n + 1)) = Cardinality(Left(selected, n)) - 1
    BY <1>2, <2>2, FS_RemoveElement
  <2> QED
    BY <1>2, <2>3
<1> QED
  BY <1>2, <1>3, <1>4, <1>5

LEMMA SelectedIs ==
  ASSUME UploadOK(intakeLead, upload), NEW selected, selected \subseteq upload.valid
  PROVE  /\ IsFiniteSet(upload.valid) /\ IsFiniteSet(selected)
         /\ selected \subseteq Nat \ {0}
<1>1. CASE upload.valid = {}
  BY <1>1, FS_EmptySet
<1>2. CASE upload.valid # {}
  <2> DEFINE N == Len(upload.file)
  <2>1. N \in Nat /\ upload.valid \subseteq 1..N
    BY <1>2, RowIs
  <2> HIDE DEF N
  <2>2. IsFiniteSet(1..N)
    BY <2>1, FS_Interval
  <2>3. IsFiniteSet(upload.valid)
    BY <2>1, <2>2, FS_Subset
  <2>4. IsFiniteSet(selected)
    BY <2>3, FS_Subset
  <2>5. \A m \in 1..N : m \in Nat \ {0}
    BY <2>1
  <2> QED
    BY <2>1, <2>3, <2>4, <2>5
<1> QED
  BY <1>1, <1>2

\* An outcome is appended.
LEMMA Appended ==
  ASSUME NEW rows \in Seq(Outcomes), NEW n \in Nat, Len(rows) = n, NEW o \in Outcomes
  PROVE  /\ Append(rows, o) \in Seq(Outcomes) /\ Len(Append(rows, o)) = n + 1
         /\ \A m \in 1..n : Append(rows, o)[m] = rows[m]
         /\ Append(rows, o)[n + 1] = o
OBVIOUS

LEMMA RowKeeps ==
  ASSUME IntakeInv, NEW selected, selected \subseteq upload.valid, NEW staff \in BOOLEAN,
         NEW n \in Nat, n + 1 <= Len(upload.file), Len(upload.file) \in Nat,
         NEW x, ImportedOK(x, n, selected),
         NEW y, y = RowAfter(x, upload.file, n + 1, selected, staff)
  PROVE  ImportedOK(y, n + 1, selected)
<1> DEFINE f == upload.file
           N == Len(upload.file)
<1>0. UploadOK(intakeLead, upload)
  BY DEF IntakeInv
<1>1. selected \subseteq 1..N
  BY <1>0, RowIs
<1>2. /\ Cardinality(Left(selected, n)) \in Nat /\ Cardinality(Left(selected, n + 1)) \in Nat
      /\ n + 1 \in selected =>
           Cardinality(Left(selected, n)) = Cardinality(Left(selected, n + 1)) + 1
      /\ n + 1 \notin selected =>
              Cardinality(Left(selected, n + 1)) = Cardinality(Left(selected, n))
  <2>1. IsFiniteSet(selected) /\ selected \subseteq Nat \ {0}
    BY <1>0, SelectedIs
  <2>2. \A i \in Nat : Cardinality(Left(selected, i)) \in Nat
    BY <2>1, LeftIs
  <2>3. \A i \in Nat :
          Cardinality(Left(selected, i)) =
            IF i + 1 \in selected THEN Cardinality(Left(selected, i + 1)) + 1
            ELSE Cardinality(Left(selected, i + 1))
    BY <2>1, LeftIs
  <2>4. Cardinality(Left(selected, n)) =
          IF n + 1 \in selected THEN Cardinality(Left(selected, n + 1)) + 1
          ELSE Cardinality(Left(selected, n + 1))
    BY <2>3
  <2>5. n + 1 \in Nat
    OBVIOUS
  <2>6. Cardinality(Left(selected, n)) \in Nat /\ Cardinality(Left(selected, n + 1)) \in Nat
    BY <2>2, <2>5
  <2> QED
    BY <2>4, <2>6
<1>3. /\ x = [leads |-> x.leads, rows |-> x.rows]
      /\ LeadsOK(x.leads)
      /\ Stored(intakeLead) \subseteq Stored(x.leads)
      /\ \A l \in Stored(intakeLead) : x.leads[l] = intakeLead[l]
      /\ \A l \in Stored(x.leads) :
           l \notin Stored(intakeLead) =>
             \E m \in selected : /\ m <= n /\ x.leads[l].key = CsvKey(f, m)
                                 /\ x.leads[l].company = f[m].company
      /\ x.rows \in Seq(Outcomes) /\ Len(x.rows) = n
      /\ Cardinality(Free(x.leads)) >= Cardinality(Left(selected, n))
      /\ upload.fresh =>
           \A m \in 1..n : m \in upload.valid /\ m \notin upload.known =>
                             x.rows[m] \in {"created", "skipped"}
  BY DEF ImportedOK
<1>4. Cardinality(Free(x.leads)) \in Nat
  BY FreeIs
<1>5. \A m \in selected : m <= n => m <= n + 1
  BY <1>1
<1>6. ASSUME NEW o \in Outcomes, y.rows = Append(x.rows, o),
             upload.fresh /\ n + 1 \in upload.valid /\ n + 1 \notin upload.known =>
               o \in {"created", "skipped"}
      PROVE  /\ y.rows \in Seq(Outcomes) /\ Len(y.rows) = n + 1
             /\ upload.fresh =>
                  \A m \in 1..(n + 1) : m \in upload.valid /\ m \notin upload.known =>
                                          y.rows[m] \in {"created", "skipped"}
  <2>1. /\ y.rows \in Seq(Outcomes) /\ Len(y.rows) = n + 1
        /\ \A m \in 1..n : y.rows[m] = x.rows[m]
        /\ y.rows[n + 1] = o
    <3> DEFINE rows == x.rows
    <3>1. rows \in Seq(Outcomes) /\ Len(rows) = n
      BY <1>3
    <3> HIDE DEF rows
    <3>2. /\ Append(rows, o) \in Seq(Outcomes) /\ Len(Append(rows, o)) = n + 1
          /\ \A m \in 1..n : Append(rows, o)[m] = rows[m]
          /\ Append(rows, o)[n + 1] = o
      BY <3>1, Appended
    <3>3. y.rows = Append(rows, o)
      BY <1>6 DEF rows
    <3> QED
      BY <3>2, <3>3 DEF rows
  <2>2. \A m \in 1..(n + 1) : m = n + 1 \/ m \in 1..n
    OBVIOUS
  <2> QED
    BY <1>3, <1>6, <2>1, <2>2
<1>7. CASE n + 1 \notin selected
  <2>1. y.leads = x.leads /\ y.rows = Append(x.rows, "skipped")
        /\ y = [leads |-> y.leads, rows |-> y.rows]
    BY <1>3, <1>7 DEF RowAfter
  <2>2. /\ y.rows \in Seq(Outcomes) /\ Len(y.rows) = n + 1
        /\ upload.fresh =>
             \A m \in 1..(n + 1) : m \in upload.valid /\ m \notin upload.known =>
                                     y.rows[m] \in {"created", "skipped"}
    BY <1>6, <2>1 DEF Outcomes
  <2>3. Cardinality(Free(y.leads)) >= Cardinality(Left(selected, n + 1))
    BY <1>2, <1>3, <1>7, <2>1
  <2> QED
    BY <1>3, <1>5, <2>1, <2>2, <2>3 DEF ImportedOK
<1>8. CASE n + 1 \in selected
  <2> DEFINE key == CsvKey(f, n + 1)
             company == f[n + 1].company
             stage == IF staff THEN "new" ELSE f[n + 1].stage
             r == Created(x.leads, key, company, stage)
  <2>1. y = [leads |-> r.leads, rows |-> Append(x.rows, r.outcome)]
    BY <1>8 DEF RowAfter, ImportRow
  <2>2. n + 1 \in upload.valid
    BY <1>8
  <2>3. company \in Companies /\ stage \in IntakeStages /\ key \in Keys /\ key # NoSourceKey
    BY <1>0, <2>2, RowIs DEF IntakeStages
  <2>4. IntakeLeads \ Stored(x.leads) # {}
    <3>1. Cardinality(Free(x.leads)) >= 1
      BY <1>2, <1>3, <1>4, <1>8
    <3> QED
      BY <3>1, FreeIs
  <2> HIDE DEF key, company, stage
  <2>5. /\ LeadsOK(r.leads)
        /\ Stored(x.leads) \subseteq Stored(r.leads)
        /\ \A l \in Stored(x.leads) : r.leads[l] = x.leads[l]
        /\ r.outcome \in {"error", "duplicate", "created"}
        /\ r.outcome # "created" => r.leads = x.leads
    <3> HIDE DEF r
    <3> QED
      BY <1>3, <2>3, <2>4, CreatedKeeps DEF r
  <2>6. \/ Refused(x.leads, key, r) \/ Known(x.leads, key, company, r)
        \/ New(x.leads, key, company, stage, r)
    <3> HIDE DEF r
    <3> QED
      BY <2>4, CreatedIs DEF r
  <2> HIDE DEF r
  <2>7. ASSUME r.outcome = "created"
        PROVE  /\ r.lead \in IntakeLeads /\ r.lead \notin Stored(x.leads)
               /\ WithKey(x.leads, key) = {} /\ OfCompany(x.leads, company) = {}
               /\ Stored(r.leads) = Stored(x.leads) \cup {r.lead}
               /\ r.leads[r.lead] = NewLead(key, company, stage)
    <3>1. New(x.leads, key, company, stage, r)
      BY <2>6, <2>7 DEF Refused, Known
    <3> DEFINE id == r.lead
               after == r.leads
    <3>2. /\ id \in IntakeLeads /\ id \notin Stored(x.leads)
          /\ WithKey(x.leads, key) = {} /\ OfCompany(x.leads, company) = {}
          /\ after = Added(x.leads, id, key, company, stage)
      BY <3>1 DEF New
    <3>3. Stored(after) = Stored(x.leads) \cup {id}
          /\ after[id] = NewLead(key, company, stage)
      <4> HIDE DEF id, after
      <4> QED
        BY <1>3, <2>3, <3>2, AddKeeps
    <3> QED
      BY <3>2, <3>3
  <2>8. \A l \in Stored(r.leads) :
          l \notin Stored(intakeLead) =>
            \E m \in selected : /\ m <= n + 1 /\ r.leads[l].key = CsvKey(f, m)
                                /\ r.leads[l].company = f[m].company
    <3> SUFFICES ASSUME NEW l \in Stored(r.leads), l \notin Stored(intakeLead)
                 PROVE  \E m \in selected : /\ m <= n + 1 /\ r.leads[l].key = CsvKey(f, m)
                                            /\ r.leads[l].company = f[m].company
      OBVIOUS
    <3>1. CASE l \in Stored(x.leads)
      BY <1>3, <1>5, <2>5, <3>1
    <3>2. CASE l \notin Stored(x.leads)
      <4>1. r.outcome = "created"
        BY <2>5, <3>2
      <4>2. l = r.lead
        BY <2>7, <3>2, <4>1
      <4>3. r.leads[l].key = key /\ r.leads[l].company = company
        BY <2>7, <4>1, <4>2 DEF NewLead
      <4> QED
        BY <1>8, <4>3 DEF key, company
    <3> QED
      BY <3>1, <3>2
  <2>9. Cardinality(Free(r.leads)) >= Cardinality(Left(selected, n + 1))
    <3>1. Cardinality(Free(r.leads)) >= Cardinality(Free(x.leads)) - 1
          /\ Cardinality(Free(r.leads)) \in Nat
      <4>1. CASE r.outcome = "created"
        BY <2>7, <4>1, FreeIs
      <4>2. CASE r.outcome # "created"
        BY <1>4, <2>5, <4>2
      <4> QED
        BY <4>1, <4>2
    <3> QED
      BY <1>2, <1>3, <1>4, <1>8, <3>1
  <2>10. ASSUME upload.fresh, n + 1 \notin upload.known PROVE r.outcome = "created"
    <3>1. PreviewStands(intakeLead, upload)
      BY <1>0, <2>10 DEF UploadOK
    <3>2. /\ OfCompany(intakeLead, company) = {} /\ WithKey(intakeLead, key) = {}
          /\ \A m \in 1..n : f[m] # BadPayload => f[m].company # company
      <4>1. (n + 1) - 1 = n
        OBVIOUS
      <4> QED
        BY <2>2, <2>10, <3>1, <4>1 DEF PreviewStands, key, company
    <3>3. \A m \in selected : m <= n => m \in 1..n /\ f[m] # BadPayload
      BY <1>0, <1>1 DEF UploadOK
    <3>4. \A m \in selected : m <= n => CsvKey(f, m) # key
      BY <1>1 DEF CsvKey, key
    <3>5. WithKey(x.leads, key) = {}
      <4> SUFFICES ASSUME NEW l \in WithKey(x.leads, key) PROVE FALSE
        OBVIOUS
      <4>1. l \in Stored(x.leads) /\ x.leads[l].key = key
        BY DEF WithKey
      <4>2. l \in Stored(intakeLead) => FALSE
        BY <1>3, <2>3, <3>2, <4>1 DEF WithKey
      <4> QED
        BY <1>3, <3>4, <4>1, <4>2
    <3>6. OfCompany(x.leads, company) = {}
      <4> SUFFICES ASSUME NEW l \in OfCompany(x.leads, company) PROVE FALSE
        OBVIOUS
      <4>1. l \in Stored(x.leads) /\ x.leads[l].company = company /\ x.leads[l].status = "active"
        BY DEF OfCompany, ActiveLeads, Stored
      <4>2. l \in Stored(intakeLead) => l \in OfCompany(intakeLead, company)
        BY <1>3, <4>1 DEF OfCompany, ActiveLeads, Stored
      <4> QED
        BY <1>3, <3>2, <3>3, <4>1, <4>2
    <3> QED
      BY <2>6, <3>5, <3>6 DEF Refused, Known, New
  <2>11. r.outcome \in Outcomes
    BY <2>5 DEF Outcomes
  <2>12. y.leads = r.leads /\ y.rows = Append(x.rows, r.outcome)
         /\ y = [leads |-> y.leads, rows |-> y.rows]
    BY <2>1
  <2>13. /\ y.rows \in Seq(Outcomes) /\ Len(y.rows) = n + 1
         /\ upload.fresh =>
              \A m \in 1..(n + 1) : m \in upload.valid /\ m \notin upload.known =>
                                      y.rows[m] \in {"created", "skipped"}
    BY <1>6, <2>10, <2>11, <2>12
  <2>14. Stored(intakeLead) \subseteq Stored(r.leads)
         /\ \A l \in Stored(intakeLead) : r.leads[l] = intakeLead[l]
    BY <1>3, <2>5
  <2> QED
    BY <2>5, <2>8, <2>9, <2>12, <2>13, <2>14 DEF ImportedOK
<1> QED
  BY <1>7, <1>8

\* A whole file.
LEMMA ImportKeeps ==
  ASSUME IntakeInv, NEW selected, selected \subseteq upload.valid, NEW staff \in BOOLEAN,
         selected # {}, Space(intakeLead, Cardinality(upload.valid))
  PROVE  ImportedOK(Imported(upload.file, selected, staff), Len(upload.file), selected)
<1> DEFINE f == upload.file
           N == Len(upload.file)
<1>0. UploadOK(intakeLead, upload)
  BY DEF IntakeInv
<1>1. N \in Nat /\ selected \subseteq 1..N /\ upload.valid \subseteq 1..N
  BY <1>0, RowIs
<1>2. PICK g : Rows(g, N, f, selected, staff) /\ Imported(f, selected, staff) = g[N]
  BY <1>1, ImportedIs
<1> HIDE DEF N
<1>3. /\ g[0] = [leads |-> intakeLead, rows |-> <<>>]
      /\ \A n \in 0..N : n # 0 => g[n] = RowAfter(g[n - 1], f, n, selected, staff)
  BY <1>1, <1>2 DEF Rows
<1>4. ImportedOK(g[0], 0, selected)
  <2>1. g[0].leads = intakeLead /\ g[0].rows = <<>>
        /\ g[0] = [leads |-> g[0].leads, rows |-> g[0].rows]
    BY <1>3
  <2>2. Cardinality(Free(intakeLead)) >= Cardinality(Left(selected, 0))
    <3>3. IsFiniteSet(upload.valid) /\ IsFiniteSet(selected) /\ selected \subseteq Nat \ {0}
      BY <1>0, SelectedIs
    <3>1. Left(selected, 0) = selected
      BY <3>3, LeftIs
    <3>4. /\ Cardinality(selected) \in Nat /\ Cardinality(upload.valid) \in Nat
          /\ Cardinality(selected) <= Cardinality(upload.valid)
      BY <3>3, FS_CardinalityType, FS_Subset
    <3>5. Cardinality(Free(intakeLead)) >= Cardinality(upload.valid)
      BY DEF Space, Free
    <3>6. Cardinality(Free(intakeLead)) \in Nat
      BY FreeIs
    <3> QED
      BY <3>1, <3>4, <3>5, <3>6
  <2>3. <<>> \in Seq(Outcomes) /\ Len(<<>>) = 0
    OBVIOUS
  <2>4. \A m \in 1..0 : FALSE
    OBVIOUS
  <2> QED
    BY <2>1, <2>2, <2>3, <2>4 DEF ImportedOK, IntakeInv
<1> DEFINE T == {n \in Nat : n <= N => ImportedOK(g[n], n, selected)}
<1>5. 0 \in T
  BY <1>4
<1>6. ASSUME NEW n \in Nat, n \in T PROVE n + 1 \in T
  <2> SUFFICES ASSUME n + 1 <= N PROVE ImportedOK(g[n + 1], n + 1, selected)
    OBVIOUS
  <2>1. n <= N /\ n + 1 \in 0..N /\ n + 1 # 0 /\ (n + 1) - 1 = n
    BY <1>1
  <2>2. ImportedOK(g[n], n, selected)
    BY <1>6, <2>1
  <2>3. g[n + 1] = RowAfter(g[n], f, n + 1, selected, staff)
    BY <1>3, <2>1
  <2>4. n + 1 <= Len(upload.file) /\ Len(upload.file) \in Nat
    BY <1>1 DEF N
  <2> QED
    BY <2>2, <2>3, <2>4, RowKeeps
<1>7. N \in T
  <2> HIDE DEF T
  <2> QED
    BY <1>1, <1>5, <1>6, InductionOverNat
<1>8. ImportedOK(g[N], N, selected)
  BY <1>1, <1>7
<1> QED
  BY <1>2, <1>8 DEF N

-----------------------------------------------------------------------------
(* The other steps.                                                        *)

LEMMA NoReportIs ==
  /\ NoReport.upload.fresh = FALSE /\ NoUpload \in UploadRow
  /\ NoUpload.fresh = FALSE /\ NoUpload.valid = {}
BY DEF NoReport, NoUpload, UploadRow

LEMMA IntakeInitially == IntakeInit => IntakeInv
<1> SUFFICES ASSUME IntakeInit PROVE IntakeInv
  OBVIOUS
<1>1. /\ token = [t \in Tokens |-> "none"]
      /\ event = [t \in Tokens |-> [x \in ExternalIds |-> NoEvent]]
      /\ intakeLead = [l \in IntakeLeads |-> NoIntakeLead]
      /\ delivery = NoDelivery /\ upload = NoUpload /\ report = NoReport
      /\ intakeRoom \in IntakeRooms
  BY DEF IntakeInit
<1>2. NoIntakeLead \in IntakeRow /\ NoIntakeLead.status = "none"
  BY DEF NoIntakeLead, IntakeRow, Keys, IntakeStages
<1>3. Stored(intakeLead) = {} /\ LeadsOK(intakeLead)
  BY <1>1, <1>2 DEF Stored, LeadsOK, OneEach
<1>4. NoEvent \in EventRow /\ NoEvent.outcome = "none" /\ NoEvent.lead = 0
  BY DEF NoEvent, EventRow
<1>5. EventsAndLeadsAgree
  BY <1>1, <1>3, <1>4 DEF EventsAndLeadsAgree, WithKey
<1>6. UploadOK(intakeLead, upload)
  BY <1>1, NoReportIs DEF UploadOK
<1>7. PreviewIsKept
  BY <1>1, NoReportIs DEF PreviewIsKept
<1> QED
  BY <1>1, <1>3, <1>4, <1>5, <1>6, <1>7 DEF IntakeInv, EventOK

\* The preview of leads that have changed.
LEMMA OutdatedIs ==
  ASSUME IntakeInv, Outdated, NEW leads
  PROVE  UploadOK(leads, upload')
BY DEF IntakeInv, Outdated, UploadOK, UploadRow

\* Leads come or change; keys and ids stay.
LEMMA LeadsChange ==
  ASSUME IntakeInv, UNCHANGED <<intakeRoom, token, event, delivery>>, Outdated,
         LeadsOK(intakeLead'), PreviewIsKept',
         Stored(intakeLead) \subseteq Stored(intakeLead'),
         \A t \in Tokens, x \in ExternalIds :
           WithKey(intakeLead', <<"webhook", t, x>>) = WithKey(intakeLead, <<"webhook", t, x>>)
  PROVE  IntakeInv'
<1>1. UploadOK(intakeLead', upload')
  BY OutdatedIs
<1>2. UploadOK(intakeLead, upload)'
  BY <1>1 DEF UploadOK, PreviewStands, WithKey, OfCompany, ActiveLeads, Stored
<1>3. LeadsOK(intakeLead)'
  BY DEF LeadsOK, OneEach, Stored
<1>4. \A t \in Tokens, x \in ExternalIds :
        EventOK(event[t][x], intakeLead') /\ (token[t] = "none" => event[t][x] = NoEvent)
  BY DEF IntakeInv, EventOK
<1>5. \A t \in Tokens, x \in ExternalIds :
        EventOK(event[t][x], intakeLead)' /\ (token[t] = "none" => event[t][x] = NoEvent)'
  BY <1>4 DEF EventOK, Stored
<1>6. EventsAndLeadsAgree'
  BY DEF IntakeInv, EventsAndLeadsAgree, WithKey, Stored
<1> QED
  BY <1>2, <1>3, <1>5, <1>6 DEF IntakeInv

LEMMA SpaceIs ==
  ASSUME IntakeInv, Space(intakeLead, 1)
  PROVE  IntakeLeads \ Stored(intakeLead) # {}
BY FreeIs DEF Space, Free

\* A lead that is typed in has no key of a delivery or a file.
LEMMA TypeInKeeps ==
  ASSUME IntakeInv, TypeInLead, report' = NoReport, UNCHANGED intakeRoom
  PROVE  IntakeInv'
<1>1. PICK company \in Companies :
        LET r == Created(intakeLead, NoSourceKey, company, "new")
        IN  ChangeLeads(r.leads)
  BY DEF TypeInLead
<1> DEFINE r == Created(intakeLead, NoSourceKey, company, "new")
<1>2. /\ intakeLead' = r.leads /\ Outdated /\ UNCHANGED <<token, event, delivery>>
  BY <1>1 DEF ChangeLeads
<1>3. IntakeLeads \ Stored(intakeLead) # {}
  BY SpaceIs DEF TypeInLead
<1>4. /\ LeadsOK(r.leads) /\ Stored(intakeLead) \subseteq Stored(r.leads)
      /\ \A k : WithKey(r.leads, k) = WithKey(intakeLead, k)
  <2>1. NoSourceKey \in Keys /\ "new" \in IntakeStages /\ LeadsOK(intakeLead)
    BY DEF Keys, IntakeStages, IntakeInv
  <2> HIDE DEF r
  <2> QED
    BY <1>3, <2>1, CreatedKeeps DEF r
<1> HIDE DEF r
<1>5. PreviewIsKept'
  BY NoReportIs DEF PreviewIsKept
<1> QED
  BY <1>2, <1>4, <1>5, LeadsChange

\* Renaming leaves the active leads apart; deleting frees the company and keeps the key.
LEMMA RenameKeeps ==
  ASSUME IntakeInv, NEW l \in IntakeLeads, RenameLead(l) \/ DeleteIntakeLead(l),
         report' = NoReport, UNCHANGED intakeRoom
  PROVE  IntakeInv'
<1>0. LeadsOK(intakeLead) /\ intakeLead \in [IntakeLeads -> IntakeRow] /\ OneEach(intakeLead)
  BY DEF IntakeInv, LeadsOK
<1>1. PICK row \in IntakeRow :
        /\ l \in ActiveLeads(intakeLead) /\ row.key = intakeLead[l].key /\ row.status # "none"
        /\ row.status = "active" => OfCompany(intakeLead, row.company) = {}
        /\ ChangeLeads([intakeLead EXCEPT ![l] = row])
  <2>1. ASSUME NEW company \in Companies, l \in ActiveLeads(intakeLead),
               OfCompany(intakeLead, company) = {},
               ChangeLeads([intakeLead EXCEPT ![l].company = company])
        PROVE  \E row \in IntakeRow :
                 /\ row.key = intakeLead[l].key /\ row.status # "none"
                 /\ row.status = "active" => OfCompany(intakeLead, row.company) = {}
                 /\ ChangeLeads([intakeLead EXCEPT ![l] = row])
    <3> DEFINE row == [intakeLead[l] EXCEPT !.company = company]
    <3>1. row \in IntakeRow /\ row.key = intakeLead[l].key /\ row.status # "none"
          /\ row.company = company
      BY <1>0, <2>1 DEF IntakeRow, ActiveLeads
    <3>2. [intakeLead EXCEPT ![l].company = company] = [intakeLead EXCEPT ![l] = row]
      OBVIOUS
    <3> HIDE DEF row
    <3> QED
      BY <2>1, <3>1, <3>2
  <2>2. ASSUME l \in ActiveLeads(intakeLead),
               ChangeLeads([intakeLead EXCEPT ![l].status = "deleted"])
        PROVE  \E row \in IntakeRow :
                 /\ row.key = intakeLead[l].key /\ row.status # "none"
                 /\ row.status = "active" => OfCompany(intakeLead, row.company) = {}
                 /\ ChangeLeads([intakeLead EXCEPT ![l] = row])
    <3> DEFINE row == [intakeLead[l] EXCEPT !.status = "deleted"]
    <3>1. row \in IntakeRow /\ row.key = intakeLead[l].key /\ row.status = "deleted"
      BY <1>0, <2>2 DEF IntakeRow
    <3>2. [intakeLead EXCEPT ![l].status = "deleted"] = [intakeLead EXCEPT ![l] = row]
      OBVIOUS
    <3> HIDE DEF row
    <3> QED
      BY <2>2, <3>1, <3>2
  <2> QED
    BY <2>1, <2>2 DEF RenameLead, DeleteIntakeLead
<1>2. /\ intakeLead' = [intakeLead EXCEPT ![l] = row] /\ Outdated
      /\ UNCHANGED <<token, event, delivery>>
  BY <1>1 DEF ChangeLeads
<1> DEFINE after == [intakeLead EXCEPT ![l] = row]
<1>3. /\ after \in [IntakeLeads -> IntakeRow] /\ after[l] = row
      /\ \A m \in IntakeLeads \ {l} : after[m] = intakeLead[m]
  BY <1>0
<1> HIDE DEF after
<1>4. Stored(after) = Stored(intakeLead) /\ l \in Stored(intakeLead)
  BY <1>1, <1>3 DEF Stored, ActiveLeads
<1>5. ASSUME NEW k PROVE WithKey(after, k) = WithKey(intakeLead, k)
  <2>1. \A m \in Stored(intakeLead) : after[m].key = intakeLead[m].key
    BY <1>1, <1>3 DEF Stored
  <2> QED
    BY <1>4, <2>1 DEF WithKey
<1>6. OneEach(after)
  <2> SUFFICES ASSUME NEW i \in Stored(intakeLead), NEW j \in Stored(intakeLead), i # j
               PROVE  /\ after[i].key = after[j].key => after[i].key = NoSourceKey
                      /\ after[i].status = "active" /\ after[j].status = "active" =>
                           after[i].company # after[j].company
    BY <1>4 DEF OneEach
  <2>1. \A m \in Stored(intakeLead) : after[m].key = intakeLead[m].key /\ m \in IntakeLeads
    BY <1>1, <1>3 DEF Stored
  <2>2. after[i].key = after[j].key => after[i].key = NoSourceKey
    BY <1>0, <2>1 DEF OneEach
  <2>3. row.status = "active" =>
          \A m \in IntakeLeads : intakeLead[m].status = "active" =>
            intakeLead[m].company # row.company
    BY <1>1 DEF OfCompany, ActiveLeads
  <2>4. after[i].status = "active" /\ after[j].status = "active" =>
          after[i].company # after[j].company
    BY <1>0, <1>3, <2>1, <2>3 DEF OneEach
  <2> QED
    BY <2>2, <2>4
<1>7. LeadsOK(after)
  BY <1>3, <1>6 DEF LeadsOK
<1>8. PreviewIsKept'
  BY NoReportIs DEF PreviewIsKept
<1>9. intakeLead' = after
  BY <1>2 DEF after
<1> QED
  BY <1>2, <1>4, <1>5, <1>7, <1>8, <1>9, LeadsChange

-----------------------------------------------------------------------------
(* Deliveries and files.                                                   *)

LEMMA TokenKeeps ==
  ASSUME IntakeInv, NEW t \in Tokens, IssueToken(t) \/ RevokeToken(t), report' = NoReport,
         UNCHANGED intakeRoom
  PROVE  IntakeInv'
<1>1. PICK s \in {"active", "revoked"} :
        token' = [token EXCEPT ![t] = s] /\ UNCHANGED <<event, intakeLead, delivery, upload>>
  BY DEF IssueToken, RevokeToken
<1>2. /\ token' \in [Tokens -> {"none", "active", "revoked"}]
      /\ \A u \in Tokens : token'[u] = "none" => token[u] = "none"
  BY <1>1 DEF IntakeInv
<1>3. PreviewIsKept'
  BY NoReportIs DEF PreviewIsKept
<1>4. UploadOK(intakeLead, upload)'
  BY <1>1 DEF IntakeInv, UploadOK, PreviewStands, WithKey, OfCompany, ActiveLeads, Stored
<1>5. LeadsOK(intakeLead)'
  BY <1>1 DEF IntakeInv, LeadsOK, OneEach, Stored
<1>6. EventsAndLeadsAgree'
  <2>1. \A u \in Tokens, x \in ExternalIds :
          WithKey(intakeLead, <<"webhook", u, x>>) =
            IF event[u][x].outcome = "created" THEN {event[u][x].lead} ELSE {}
    BY DEF IntakeInv, EventsAndLeadsAgree
  <2>2. \A u \in Tokens, x \in ExternalIds :
          WithKey(intakeLead', <<"webhook", u, x>>) =
            IF event'[u][x].outcome = "created" THEN {event'[u][x].lead} ELSE {}
    BY <1>1, <2>1
  <2> QED
    BY <2>2 DEF EventsAndLeadsAgree, WithKey, Stored
<1>7. \A u \in Tokens, x \in ExternalIds :
        EventOK(event[u][x], intakeLead)' /\ (token[u] = "none" => event[u][x] = NoEvent)'
  BY <1>1, <1>2 DEF IntakeInv, EventOK, Stored
<1>8. \/ delivery' = NoDelivery
      \/ /\ delivery'.token \in Tokens /\ delivery'.id \in ExternalIds
         /\ delivery'.company \in Companies \cup {BadPayload}
         /\ token'[delivery'.token] # "none"
  BY <1>1, <1>2 DEF IntakeInv
<1> QED
  BY <1>1, <1>2, <1>3, <1>4, <1>5, <1>6, <1>7, <1>8 DEF IntakeInv

\* The leads and the events stay; the delivery or the preview is another.
LEMMA TablesStay ==
  ASSUME IntakeInv, UNCHANGED <<token, event, intakeLead, intakeRoom>>, report' = NoReport,
         \/ delivery' = NoDelivery \/ delivery' = delivery
         \/ /\ delivery'.token \in Tokens /\ delivery'.id \in ExternalIds
            /\ delivery'.company \in Companies \cup {BadPayload}
            /\ token[delivery'.token] # "none",
         UploadOK(intakeLead, upload')
  PROVE  IntakeInv'
<1>1. PreviewIsKept'
  BY NoReportIs DEF PreviewIsKept
<1>2. UploadOK(intakeLead, upload)'
  BY DEF UploadOK, PreviewStands, WithKey, OfCompany, ActiveLeads, Stored
<1>3. LeadsOK(intakeLead)'
  BY DEF IntakeInv, LeadsOK, OneEach, Stored
<1>4. EventsAndLeadsAgree'
  <2>1. /\ \A t \in Tokens, x \in ExternalIds :
             WithKey(intakeLead, <<"webhook", t, x>>) =
               IF event[t][x].outcome = "created" THEN {event[t][x].lead} ELSE {}
        /\ intakeLead' = intakeLead /\ event' = event
    BY DEF IntakeInv, EventsAndLeadsAgree
  <2>2. \A t \in Tokens, x \in ExternalIds :
          WithKey(intakeLead', <<"webhook", t, x>>) =
            IF event'[t][x].outcome = "created" THEN {event'[t][x].lead} ELSE {}
    BY <2>1
  <2> QED
    BY <2>2 DEF EventsAndLeadsAgree, WithKey, Stored
<1>5. \A u \in Tokens, x \in ExternalIds :
        EventOK(event[u][x], intakeLead)' /\ (token[u] = "none" => event[u][x] = NoEvent)'
  BY DEF IntakeInv, EventOK, Stored
<1>6. \/ delivery' = NoDelivery
      \/ /\ delivery'.token \in Tokens /\ delivery'.id \in ExternalIds
         /\ delivery'.company \in Companies \cup {BadPayload}
         /\ token'[delivery'.token] # "none"
  BY DEF IntakeInv
<1> QED
  BY <1>1, <1>2, <1>3, <1>4, <1>5, <1>6 DEF IntakeInv

LEMMA DeliverKeeps ==
  ASSUME IntakeInv, (\E t \in Tokens : Deliver(t)) \/ LoseDelivery, report' = NoReport,
         UNCHANGED intakeRoom
  PROVE  IntakeInv'
<1>1. /\ UNCHANGED <<token, event, intakeLead, upload>>
      /\ \/ delivery' = NoDelivery
         \/ /\ delivery'.token \in Tokens /\ delivery'.id \in ExternalIds
            /\ delivery'.company \in Companies \cup {BadPayload}
            /\ token[delivery'.token] # "none"
  BY DEF Deliver, LoseDelivery
<1>2. UploadOK(intakeLead, upload')
  BY <1>1 DEF IntakeInv
<1> QED
  BY <1>1, <1>2, TablesStay

\* preview_leads_from_csv
LEMMA PreviewKeeps ==
  ASSUME IntakeInv, NEW file \in Files, PreviewFile(file), report' = NoReport,
         UNCHANGED intakeRoom
  PROVE  IntakeInv'
<1> DEFINE known == {n \in DOMAIN file : WithKey(intakeLead, CsvKey(file, n)) # {}}
           valid == OfferedRows(file)
<1>1. /\ upload' = [file |-> file, valid |-> valid, fresh |-> TRUE, known |-> known]
      /\ UNCHANGED <<token, event, intakeLead, delivery>>
  BY DEF PreviewFile
<1>2. DOMAIN file \subseteq Nat
  <2>1. file \in Seq(CsvRow)
    BY IntakeAssumption
  <2>2. DOMAIN file = 1..Len(file) /\ Len(file) \in Nat
    BY <2>1
  <2> QED
    BY <2>2
<1>3. valid \in SUBSET Nat /\ known \in SUBSET Nat /\ valid \subseteq DOMAIN file
  BY <1>2 DEF OfferedRows
<1>4. \A n \in valid : /\ file[n] # BadPayload
                       /\ OfCompany(intakeLead, file[n].company) = {}
                       /\ \A m \in 1..(n - 1) : file[m] # BadPayload =>
                            file[m].company # file[n].company
                       /\ n \notin known => WithKey(intakeLead, CsvKey(file, n)) = {}
  BY <1>3 DEF OfferedRows
<1> HIDE DEF known, valid
<1>5. /\ upload'.file = file /\ upload'.valid = valid /\ upload'.known = known
      /\ upload'.fresh = TRUE
  BY <1>1
<1>6. upload' \in UploadRow
  BY <1>1, <1>3 DEF UploadRow
<1>7. PreviewStands(intakeLead, upload')
  BY <1>4, <1>5 DEF PreviewStands
<1>8. UploadOK(intakeLead, upload')
  BY <1>3, <1>4, <1>5, <1>6, <1>7 DEF UploadOK
<1> QED
  BY <1>1, <1>8, TablesStay

\* ingest_lead_payload: the lead and the event of a delivery are written together.
LEMMA IngestKeeps ==
  ASSUME IntakeInv, Ingest, report' = NoReport, UNCHANGED intakeRoom
  PROVE  IntakeInv'
<1> DEFINE t == delivery.token
           x == delivery.id
<1>1. /\ t \in Tokens /\ x \in ExternalIds /\ token[t] # "none"
      /\ delivery.company \in Companies \cup {BadPayload}
      /\ delivery' = NoDelivery /\ UNCHANGED token
      /\ IntakeLeads \ Stored(intakeLead) # {}
  BY SpaceIs DEF Ingest, IntakeInv
<1>2. CASE event[t][x] # NoEvent
  <2>1. UNCHANGED <<event, intakeLead, upload>>
    BY <1>2 DEF Ingest
  <2>2. UploadOK(intakeLead, upload')
    BY <2>1 DEF IntakeInv
  <2> QED
    BY <1>1, <2>1, <2>2, TablesStay
<1>3. CASE event[t][x] = NoEvent
  <2> DEFINE key == <<"webhook", t, x>>
             r == Ingested(t, x)
             row == EventOf(r.outcome, r.lead)
  <2>1. /\ intakeLead' = r.leads
        /\ event' = [event EXCEPT ![t][x] = row]
        /\ IF r.leads = intakeLead THEN UNCHANGED upload ELSE Outdated
    BY <1>3 DEF Ingest, RecordEvent
  <2>2. key \in Keys /\ key # NoSourceKey /\ LeadsOK(intakeLead)
    BY <1>1, KeysDiffer DEF IntakeInv
  <2>3. WithKey(intakeLead, key) = {}
    <3>1. event[t][x].outcome # "created"
      BY <1>3 DEF NoEvent
    <3> QED
      BY <1>1, <3>1 DEF IntakeInv, EventsAndLeadsAgree
  <2>4. /\ LeadsOK(r.leads) /\ Stored(intakeLead) \subseteq Stored(r.leads)
        /\ \A k : k # key => WithKey(r.leads, k) = WithKey(intakeLead, k)
        /\ r.outcome \in {"error", "duplicate", "created"}
        /\ r.lead \in IF r.outcome = "error" THEN {0} ELSE Stored(r.leads)
        /\ WithKey(r.leads, key) = IF r.outcome = "created" THEN {r.lead} ELSE {}
    <3>1. CASE delivery.company = BadPayload
      <4>1. r = [leads |-> intakeLead, outcome |-> "error", lead |-> 0]
        BY <3>1 DEF Ingested
      <4> HIDE DEF r, key
      <4> QED
        BY <2>2, <2>3, <4>1
    <3>2. CASE delivery.company # BadPayload
      <4> DEFINE company == delivery.company
      <4>1. r = Created(intakeLead, key, company, "new")
        BY <3>2 DEF Ingested
      <4>2. company \in Companies /\ "new" \in IntakeStages
        BY <1>1, <3>2 DEF IntakeStages
      <4> HIDE DEF r, key, company
      <4>3. /\ LeadsOK(r.leads) /\ Stored(intakeLead) \subseteq Stored(r.leads)
            /\ \A k : k # key => WithKey(r.leads, k) = WithKey(intakeLead, k)
            /\ r.outcome \in {"error", "duplicate", "created"}
            /\ r.lead \in IF r.outcome = "error" THEN {0} ELSE Stored(r.leads)
            /\ r.outcome = "created" => WithKey(r.leads, key) = {r.lead}
            /\ r.outcome # "created" => r.leads = intakeLead
        BY <1>1, <2>2, <4>1, <4>2, CreatedKeeps
      <4> QED
        BY <2>3, <4>3
    <3> QED
      BY <3>1, <3>2
  <2> HIDE DEF r
  <2>5. /\ row \in EventRow
        /\ row.outcome = "created" <=> r.outcome = "created"
        /\ row.lead = r.lead
        /\ row.outcome \in {"created", "duplicate"} <=> r.outcome # "error"
    BY <2>4 DEF EventOf, EventRow, Stored
  <2> HIDE DEF row
  <2>6. /\ event' \in [Tokens -> [ExternalIds -> EventRow]]
        /\ \A u \in Tokens, y \in ExternalIds :
             event'[u][y] = IF u = t /\ y = x THEN row ELSE event[u][y]
    BY <1>1, <2>1, <2>5 DEF IntakeInv
  <2>7. \A u \in Tokens, y \in ExternalIds : EventOK(event[u][y], intakeLead)'
    <3> SUFFICES ASSUME NEW u \in Tokens, NEW y \in ExternalIds
                 PROVE  EventOK(event[u][y], intakeLead)'
      OBVIOUS
    <3>1. event'[u][y].lead \in IF event'[u][y].outcome \in {"created", "duplicate"}
                                THEN Stored(r.leads) ELSE {0}
      <4>1. CASE u = t /\ y = x
        BY <2>4, <2>5, <2>6, <4>1
      <4>2. CASE ~(u = t /\ y = x)
        BY <2>4, <2>6, <4>2 DEF IntakeInv, EventOK
      <4> QED
        BY <4>1, <4>2
    <3> QED
      BY <2>1, <3>1 DEF EventOK, Stored
  <2>8. EventsAndLeadsAgree'
    <3> SUFFICES ASSUME NEW u \in Tokens, NEW y \in ExternalIds
                 PROVE  WithKey(r.leads, <<"webhook", u, y>>) =
                          IF event'[u][y].outcome = "created" THEN {event'[u][y].lead} ELSE {}
      BY <2>1 DEF EventsAndLeadsAgree, WithKey, Stored
    <3>1. CASE u = t /\ y = x
      BY <2>4, <2>5, <2>6, <3>1
    <3>2. CASE ~(u = t /\ y = x)
      <4>1. <<"webhook", u, y>> # key
        BY <3>2
      <4>2. WithKey(intakeLead, <<"webhook", u, y>>) =
              IF event[u][y].outcome = "created" THEN {event[u][y].lead} ELSE {}
        BY DEF IntakeInv, EventsAndLeadsAgree
      <4> QED
        BY <2>4, <2>6, <3>2, <4>1, <4>2
    <3> QED
      BY <3>1, <3>2
  <2>9. UploadOK(r.leads, upload')
    <3>1. CASE r.leads = intakeLead
      BY <2>1, <3>1 DEF IntakeInv
    <3>2. CASE r.leads # intakeLead
      BY <2>1, <3>2, OutdatedIs
    <3> QED
      BY <3>1, <3>2
  <2>10. UploadOK(intakeLead, upload)'
    BY <2>1, <2>9 DEF UploadOK, PreviewStands, WithKey, OfCompany, ActiveLeads, Stored
  <2>11. LeadsOK(intakeLead)'
    BY <2>1, <2>4 DEF LeadsOK, OneEach, Stored
  <2>12. PreviewIsKept'
    BY NoReportIs DEF PreviewIsKept
  <2>13. \A u \in Tokens, y \in ExternalIds : (token[u] = "none" => event[u][y] = NoEvent)'
    BY <1>1, <2>6 DEF IntakeInv
  <2> QED
    BY <1>1, <2>6, <2>7, <2>8, <2>10, <2>11, <2>12, <2>13 DEF IntakeInv
<1> QED
  BY <1>2, <1>3

\* import_leads_from_csv
LEMMA ImportFileKeeps ==
  ASSUME IntakeInv, NEW staff \in BOOLEAN, ImportFile(staff), UNCHANGED intakeRoom
  PROVE  IntakeInv'
<1>1. PICK selected \in (SUBSET upload.valid) \ {{}} :
        LET result == Imported(upload.file, selected, staff)
        IN  /\ intakeLead' = result.leads
            /\ report' = [rows |-> result.rows, upload |-> upload]
  BY DEF ImportFile
<1> DEFINE x == Imported(upload.file, selected, staff)
           N == Len(upload.file)
<1>s. selected \subseteq upload.valid /\ selected # {}
  BY <1>1
<1>2. ImportedOK(x, N, selected)
  <2>1. Space(intakeLead, Cardinality(upload.valid))
    BY DEF ImportFile
  <2> QED
    BY <1>s, <2>1, ImportKeeps
<1>3. UploadOK(intakeLead, upload)
  BY DEF IntakeInv
<1>4. N \in Nat /\ upload.valid \subseteq 1..N
  <2>1. PICK n \in selected : n \in upload.valid
    BY <1>s
  <2> QED
    BY <1>3, RowIs
<1> HIDE DEF x, N
<1>5. /\ intakeLead' = x.leads /\ report' = [rows |-> x.rows, upload |-> upload]
      /\ Outdated /\ UNCHANGED <<token, event, delivery>>
  BY <1>1 DEF x, ImportFile
<1>6. LeadsOK(x.leads) /\ Stored(intakeLead) \subseteq Stored(x.leads)
  BY <1>2 DEF ImportedOK
<1>7. ASSUME NEW t \in Tokens, NEW y \in ExternalIds
      PROVE  WithKey(x.leads, <<"webhook", t, y>>) = WithKey(intakeLead, <<"webhook", t, y>>)
  <2>1. \A l \in Stored(intakeLead) : l \in Stored(x.leads) /\ x.leads[l] = intakeLead[l]
    BY <1>2 DEF ImportedOK
  <2>2. \A l \in Stored(x.leads) : l \notin Stored(intakeLead) =>
          x.leads[l].key # <<"webhook", t, y>>
    <3>1. \A m : CsvKey(upload.file, m) # <<"webhook", t, y>>
      BY DEF CsvKey
    <3> QED
      BY <1>2, <3>1 DEF ImportedOK
  <2> QED
    BY <2>1, <2>2 DEF WithKey
<1>8. PreviewIsKept'
  <2>1. /\ report'.upload = upload /\ report'.rows = x.rows
    BY <1>5
  <2>2. upload.fresh => \A m \in upload.valid \ upload.known : x.rows[m] \in {"created", "skipped"}
    BY <1>2, <1>4 DEF ImportedOK
  <2> QED
    BY <2>1, <2>2 DEF PreviewIsKept
<1> QED
  BY <1>5, <1>6, <1>7, <1>8, LeadsChange

LEMMA IntakeStepKeeps == IntakeInv /\ [IntakeNext]_intakeVars => IntakeInv'
<1> SUFFICES ASSUME IntakeInv, [IntakeNext]_intakeVars PROVE IntakeInv'
  OBVIOUS
<1>1. CASE UNCHANGED intakeVars
  <2>1. UNCHANGED <<token, event, intakeLead, delivery, upload, report, intakeRoom>>
    BY <1>1 DEF intakeVars
  <2>2. LeadsOK(intakeLead)'
    BY <2>1 DEF IntakeInv, LeadsOK, OneEach, Stored
  <2>3. UploadOK(intakeLead, upload)'
    BY <2>1 DEF IntakeInv, UploadOK, PreviewStands, WithKey, OfCompany, ActiveLeads, Stored
  <2>4. EventsAndLeadsAgree'
    <3>1. EventsAndLeadsAgree
      BY DEF IntakeInv
    <3> QED
      BY <2>1, <3>1 DEF EventsAndLeadsAgree, WithKey, Stored
  <2>5. \A t \in Tokens, x \in ExternalIds :
          EventOK(event[t][x], intakeLead)' /\ (token[t] = "none" => event[t][x] = NoEvent)'
    BY <2>1 DEF IntakeInv, EventOK, Stored
  <2>6. PreviewIsKept'
    BY <2>1 DEF IntakeInv, PreviewIsKept
  <2> QED
    BY <2>1, <2>2, <2>3, <2>4, <2>5, <2>6 DEF IntakeInv
<1>2. CASE IntakeNext
  <2>1. intakeRoom.tokens \subseteq Tokens /\ intakeRoom.files \subseteq Files
    BY IntakeAssumption DEF IntakeInv
  <2>2. UNCHANGED intakeRoom
    BY <1>2 DEF IntakeNext
  <2>3. CASE IntakeStep /\ report' = NoReport
    <3>1. ASSUME NEW t \in intakeRoom.tokens, IssueToken(t) \/ RevokeToken(t) PROVE IntakeInv'
      BY <2>1, <2>2, <2>3, <3>1, TokenKeeps
    <3>2. ASSUME NEW t \in intakeRoom.tokens, Deliver(t) PROVE IntakeInv'
      BY <2>1, <2>2, <2>3, <3>2, DeliverKeeps
    <3>3. CASE TypeInLead
      BY <2>2, <2>3, <3>3, TypeInKeeps
    <3>4. ASSUME NEW l \in IntakeLeads, RenameLead(l) \/ DeleteIntakeLead(l) PROVE IntakeInv'
      BY <2>2, <2>3, <3>4, RenameKeeps
    <3>5. CASE Ingest
      BY <2>2, <2>3, <3>5, IngestKeeps
    <3>6. CASE LoseDelivery
      BY <2>2, <2>3, <3>6, DeliverKeeps
    <3>7. ASSUME NEW file \in intakeRoom.files, PreviewFile(file) PROVE IntakeInv'
      BY <2>1, <2>2, <2>3, <3>7, PreviewKeeps
    <3> QED
      BY <2>3, <3>1, <3>2, <3>3, <3>4, <3>5, <3>6, <3>7 DEF IntakeStep
  <2>4. ASSUME NEW staff \in BOOLEAN, ImportFile(staff) PROVE IntakeInv'
    BY <2>2, <2>4, ImportFileKeeps
  <2> QED
    BY <1>2, <2>3, <2>4 DEF IntakeNext
<1> QED
  BY <1>1, <1>2

LEMMA IntakeHolds == IntakeSpec => []IntakeInv
BY IntakeInitially, IntakeStepKeeps, PTL DEF IntakeSpec

LEMMA IntakeIsTyped == IntakeInv => IntakeTypeOK
BY DEF IntakeInv, IntakeTypeOK, EventOK, UploadOK, EventRow

LEMMA IntakeIsOne == IntakeInv => IntakeAgrees
BY DEF IntakeInv, IntakeAgrees, LeadsOK, OneEach, OneLeadPerSource, ActiveLeads, Stored

\* Tokens, events, leads and the preview keep their types, and an event names a lead
\* that is there.
THEOREM IntakeTyped == IntakeSpec => []IntakeTypeOK
BY IntakeHolds, IntakeIsTyped, PTL

\* A delivery, or a row of a file, that comes in twice, late, with other contents or
\* after its lead was deleted makes one lead; the event of a delivery names it; and
\* what a preview offered is what an import of it makes while no lead changes
\* (ingest_lead_payload, preview_leads_from_csv, import_leads_from_csv, create_lead).
THEOREM OneLeadEach == IntakeSpec => []IntakeAgrees
BY IntakeHolds, IntakeIsOne, PTL

-----------------------------------------------------------------------------
(* Beside each other.                                                      *)

LEMMA StaffEachAlone == StaffSpec => AccountSpec /\ ActivitySpec /\ IntakeSpec
<1>1. StaffInit => AccountInit /\ ActivityInit /\ IntakeInit
  BY DEF StaffInit
<1>2. [StaffNext]_staffVars => [AccountNext]_accountVars
  BY DEF StaffNext, staffVars
<1>3. [StaffNext]_staffVars => [ActivityNext]_activityVars
  BY DEF StaffNext, staffVars
<1>4. [StaffNext]_staffVars => [IntakeNext]_intakeVars
  BY DEF StaffNext, staffVars
<1> QED
  BY <1>1, <1>2, <1>3, <1>4, PTL DEF StaffSpec, AccountSpec, ActivitySpec, IntakeSpec

\* The tables of all three keep their types.
THEOREM StaffTyped == StaffSpec => []StaffTypeOK
<1>1. AccountTypeOK /\ ActivityTypeOK /\ IntakeTypeOK => StaffTypeOK
  BY DEF StaffTypeOK
<1> QED
  BY <1>1, StaffEachAlone, AccountsTyped, ActivitiesTyped, IntakeTyped, PTL

\* What each of the three promises holds in all of their behaviours.
THEOREM StaffStand == StaffSpec => [](AccessFollowsAccount /\ IntakeAgrees)
BY StaffEachAlone, SessionsFollow, OneLeadEach, PTL

\* Staff get their due, whatever the owner changes beside them.
THEOREM StaffGetTheirDue == StaffSpec => StaffAreAnswered
BY StaffEachAlone, TheHistoryAnswers, OneWorkspaceIsUsed, PTL DEF StaffAreAnswered
=================================================================================
