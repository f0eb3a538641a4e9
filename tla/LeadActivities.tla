----------------------------- MODULE LeadActivities -----------------------------
(***************************************************************************)
(* The activity history of one lead (app/services/lead_activities.py and   *)
(* its routes in app/routes/client_hunting.py).  Every request looks the   *)
(* actor, the lead and the row up without the lock, decides, and writes    *)
(* under it.  Meanwhile the lead and the accounts change.                  *)
(***************************************************************************)
EXTENDS Access, Naturals

CONSTANTS
  ActivityIds,
  Offered,       \* the fields that forms are submitted with
  Clerks         \* requests

\* The owner, the sourcer who created the lead, and the manager it may be given.
CrmUsers == {"owner", "sourcer", "manager"}
Nobody == "nobody"

\* Types that a sourcer may record, and those of contact; channels likewise.
Fields == [type : {"research", "contact"}, channel : {"internal", "outside"},
           performer : CrmUsers, responsible : CrmUsers \cup {Nobody}, followUp : BOOLEAN]

ASSUME ActivitiesAssumption ==
  /\ ActivityIds \subseteq Nat \ {0}
  /\ Offered \subseteq Fields

VARIABLES
  activity,     \* lead_activities
  crmLead,      \* the lead: deleted, given to the manager; his contact permission
  crmActive,    \* users whose account is active
  clerk         \* what each request has checked and is about to write

activityVars == <<activity, crmLead, crmActive, clerk>>

NoFields == [type |-> "research", channel |-> "internal", performer |-> "owner",
             responsible |-> Nobody, followUp |-> FALSE]
NoActivity == [status |-> "none", fields |-> NoFields, author |-> Nobody, corrector |-> Nobody]
NoTask == [op |-> "idle", user |-> Nobody, id |-> 0, fields |-> NoFields]

ActivityInit ==
  /\ activity = [i \in ActivityIds |-> NoActivity]
  /\ crmLead = [deleted |-> FALSE, managed |-> TRUE, contact |-> TRUE]
  /\ crmActive = CrmUsers
  /\ clerk = [c \in Clerks |-> NoTask]

CrmActor(user) ==
  CASE user = "owner" -> [role |-> "owner", workspace |-> "mark-agency",
                          membership |-> "workspace_admin"]
    [] user = "sourcer" -> [role |-> "lead_sourcer", workspace |-> "mark-agency",
                            membership |-> "crm_contributor"]
    [] user = "manager" -> [role |-> "relationship_manager", workspace |-> "mark-agency",
                            membership |-> "crm_contributor"]

\* can_perform_delegated_contact
Delegated(user) == user = "manager" /\ crmLead.managed /\ crmLead.contact

\* _load_active_actor and can_view_lead
Sees(user) ==
  /\ user \in crmActive /\ ~crmLead.deleted
  /\ user = "manager" => crmLead.managed

\* _active_crm_user_id
IsCrmUser(user) == user \in crmActive

\* _allowed_activity_types
AllowedTypes(user) ==
  CASE user = "owner" -> {"research", "contact"}
    [] user = "sourcer" -> {"research"}
    [] OTHER -> IF Delegated(user) THEN {"contact"} ELSE {}

\* _normalized_values: what it refuses.
Acceptable(user, fields) ==
  /\ fields.type \in AllowedTypes(user)
  /\ IsCrmUser(fields.performer)
  /\ user # "owner" => fields.performer = user
  /\ fields.responsible = Nobody \/ IsCrmUser(fields.responsible)
  /\ fields.followUp => fields.responsible # Nobody
  /\ user # "owner" /\ ~Delegated(user) => fields.channel = "internal"

\* _can_correct
MayCorrect(user, row) ==
  \/ user = "owner"
  \/ user = "sourcer" /\ row.author = user /\ row.fields.type \in AllowedTypes(user)

KeptActivities == {i \in ActivityIds : activity[i].status = "kept"}

Undertake(c, task) ==
  /\ clerk[c].op = "idle"
  /\ clerk' = [clerk EXCEPT ![c] = task]
  /\ UNCHANGED <<activity, crmLead, crmActive>>

Finish(c, op) ==
  /\ clerk[c].op = op
  /\ clerk' = [clerk EXCEPT ![c] = NoTask]
  /\ UNCHANGED <<crmLead, crmActive>>

\* The UPDATE matched no row, or the request failed: its savepoint is rolled back.
AbandonTask(c) ==
  /\ clerk[c].op # "idle"
  /\ clerk' = [clerk EXCEPT ![c] = NoTask]
  /\ UNCHANGED <<activity, crmLead, crmActive>>

\* create_activity, up to its lock.
CheckRecord(c) ==
  \E user \in CrmUsers, fields \in Offered :
    /\ CanPost(CrmActor(user), "record activity")
    /\ Sees(user) /\ Acceptable(user, fields)
    /\ Undertake(c, [op |-> "record", user |-> user, id |-> 0, fields |-> fields])

Record(c, i) ==
  /\ Finish(c, "record")
  /\ activity[i].status = "none"
  /\ \A j \in ActivityIds : j < i => activity[j].status # "none"
  /\ activity' = [activity EXCEPT ![i] =
       [status |-> "kept", fields |-> clerk[c].fields, author |-> clerk[c].user,
        corrector |-> Nobody]]

\* correct_activity, up to its lock: the form names every field, as the page
\* showed it or changed, whatever the row holds by now.
CheckCorrection(c) ==
  \E user \in CrmUsers, i \in KeptActivities, fields \in Offered :
    /\ CanPost(CrmActor(user), "correct activity")
    /\ Sees(user) /\ MayCorrect(user, activity[i]) /\ Acceptable(user, fields)
    /\ fields # activity[i].fields
    /\ Undertake(c, [op |-> "correct", user |-> user, id |-> i, fields |-> fields])

\* Mutant: the UPDATE asks for the id alone.
CorrectAnyway(c) ==
  /\ Finish(c, "correct")
  /\ activity' = [activity EXCEPT ![clerk[c].id].fields = clerk[c].fields,
                                  ![clerk[c].id].corrector = clerk[c].user]

\* The UPDATE, of a row that is not deleted.
Correct(c) ==
  LET i == clerk[c].id
  IN  /\ Finish(c, "correct")
      /\ i \in KeptActivities
      /\ activity' = [activity EXCEPT ![i].fields = clerk[c].fields,
                                      ![i].corrector = clerk[c].user]

\* soft_delete_activity
CheckDelete(c) ==
  \E user \in CrmUsers, i \in KeptActivities :
    /\ CanPost(CrmActor(user), "correct activity")
    /\ Sees(user) /\ MayCorrect(user, activity[i])
    /\ Undertake(c, [NoTask EXCEPT !.op = "delete", !.user = user, !.id = i])

\* Mutant: the UPDATE leaves the corrector as it was.
DeleteUnsigned(c) ==
  LET i == clerk[c].id
  IN  /\ Finish(c, "delete")
      /\ i \in KeptActivities
      /\ activity' = [activity EXCEPT ![i].status = "deleted"]

Delete(c) ==
  LET i == clerk[c].id
  IN  /\ Finish(c, "delete")
      /\ i \in KeptActivities
      /\ activity' = [activity EXCEPT ![i].status = "deleted", ![i].corrector = clerk[c].user]

\* restore_activity: the owner's.
CheckRestore(c) ==
  \E i \in ActivityIds :
    /\ activity[i].status = "deleted" /\ Sees("owner")
    /\ Undertake(c, [NoTask EXCEPT !.op = "restore", !.user = "owner", !.id = i])

Restore(c) ==
  LET i == clerk[c].id
  IN  /\ Finish(c, "restore")
      /\ activity[i].status = "deleted"
      /\ activity' = [activity EXCEPT ![i].status = "kept", ![i].corrector = clerk[c].user]

\* What other requests change.
ChangeLead ==
  /\ \/ crmLead' = [crmLead EXCEPT !.deleted = TRUE]
     \/ crmLead' = [crmLead EXCEPT !.managed = ~@ /\ "manager" \in crmActive]
     \/ crmLead' = [crmLead EXCEPT !.contact = ~@]
  /\ ~crmLead.deleted
  /\ UNCHANGED <<activity, crmActive, clerk>>

DeactivateUser(user) ==
  /\ user \in crmActive \ {"owner"}
  /\ crmActive' = crmActive \ {user}
  /\ crmLead' = IF user = "manager" THEN [crmLead EXCEPT !.managed = FALSE] ELSE crmLead
  /\ UNCHANGED <<activity, clerk>>

ActivityNext ==
  \/ \E c \in Clerks :
       \/ CheckRecord(c) \/ \E i \in ActivityIds : Record(c, i)
       \/ CheckCorrection(c) \/ Correct(c) \/ CheckDelete(c) \/ Delete(c)
       \/ CheckRestore(c) \/ Restore(c) \/ AbandonTask(c)
  \/ ChangeLead
  \/ \E user \in CrmUsers : DeactivateUser(user)

ActivitySpec == ActivityInit /\ [][ActivityNext]_activityVars

-----------------------------------------------------------------------------
(* Properties.                                                             *)

LastWriter(row) == IF row.corrector = Nobody THEN row.author ELSE row.corrector

\* The variables have their types, and a deleted row names who deleted it.
ActivityTypeOK ==
  /\ activity \in [ActivityIds -> [status : {"none", "kept", "deleted"}, fields : Fields,
                                   author : CrmUsers \cup {Nobody},
                                   corrector : CrmUsers \cup {Nobody}]]
  /\ \A i \in ActivityIds :
       activity[i].status # "none" =>
         /\ activity[i].author # Nobody
         /\ activity[i].status = "deleted" => activity[i].corrector # Nobody
  /\ crmActive \subseteq CrmUsers

\* A follow-up date has a name beside it, whichever corrections overlap.  The name was
\* that of an active user when it was checked; the account may have ended since.
FollowUpHasResponsible ==
  \A i \in KeptActivities :
    activity[i].fields.followUp => activity[i].fields.responsible # Nobody

\* A row a staff member wrote last speaks for nobody else: it names him as the
\* performer, and is of a kind his role records - however his checks and the
\* owner's corrections of the same row overlap.
StaffSpeakForThemselves ==
  \A i \in KeptActivities :
    LET writer == LastWriter(activity[i])
        fields == activity[i].fields
    IN  writer # "owner" =>
          /\ fields.performer = writer
          /\ fields.type = IF writer = "sourcer" THEN "research" ELSE "contact"
          /\ writer = "sourcer" => fields.channel = "internal"

\* The history stands: no row is lost or changes its author, a deleted row keeps its
\* words until the owner brings it back, and a change is signed by its writer, who is
\* the row's author or the owner - for checks made before a deletion or another
\* correction that they meet as well.  Of two corrections the later one replaces the
\* earlier: what it replaces is not kept.
HistoryStands ==
  [][\A i \in ActivityIds :
       activity[i].status # "none" /\ activity'[i] # activity[i] =>
         /\ activity'[i].status # "none"
         /\ activity'[i].author = activity[i].author
         /\ activity[i].status = "deleted" =>
              activity'[i].status = "kept" /\ activity'[i].fields = activity[i].fields
         /\ activity'[i].corrector \in {"owner", activity[i].author}
         /\ \E c \in Clerks :
              clerk[c].id = i /\ activity'[i].corrector = clerk[c].user]_activityVars

\* The history can be answered for: a follow-up date has a name, staff speak for
\* themselves alone, and nobody but its author and the owner touches a row.
HistoryAnswers == []FollowUpHasResponsible /\ []StaffSpeakForThemselves /\ HistoryStands
================================================================================
