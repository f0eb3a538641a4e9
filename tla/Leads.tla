------------------------------- MODULE Leads -------------------------------
(***************************************************************************)
(* The CRM leads of one workspace, and the workflows people run on them    *)
(* from browser forms: research and its review, outreach approval, the     *)
(* sales pipeline, qualification, the relationship manager of a lead, and  *)
(* the quest every lead carries.                                           *)
(*                                                                         *)
(* A form is loaded with the row version of its lead, and may be submitted *)
(* long after.  Two kinds of handler take it from there.  Some lock the    *)
(* database first and read after: one step.  The others read the lead,     *)
(* check version and permission, and only then lock and write: two steps,  *)
(* Check and the write, with any other handler's commit in between.        *)
(*                                                                         *)
(* A refusal changes nothing in the database: it is CloseForm, as is a     *)
(* form its user walks away from.                                          *)
(***************************************************************************)
EXTENDS Integers

CONSTANTS Leads,       \* ids of rows of the table leads, given out in order
          Forms,       \* forms open in browsers, each in a request of its own
          Keys,        \* request keys of the creation form
          NoKey, NoIdentity,  \* what a row holds before it is inserted
          Identities,  \* companies and contacts, as the dedupe key tells them apart
          StageInputs, \* bound: the pipeline stages people ask for
          LastVersion  \* bound: the highest version each lead may reach

VARIABLES lead,           \* the table leads
          quest,          \* status and progress of the quest of each lead
          managerActive,  \* the relationship manager's account is active
          form,           \* each form and the request it is in
          fresh,          \* history: nothing was written to its lead since the form was loaded
          reached         \* history: leads that were moved to Contacted

vars == <<lead, quest, managerActive, form, fresh, reached>>

Users == {"owner", "sourcer", "manager"}

(* The quest of a lead in each pipeline stage. *)
PipelineQuestState ==
  [new       |-> [status |-> "backlog", progress |-> 0],
   reviewed  |-> [status |-> "backlog", progress |-> 10],
   contacted |-> [status |-> "active",  progress |-> 25],
   replied   |-> [status |-> "active",  progress |-> 45],
   meeting   |-> [status |-> "active",  progress |-> 65],
   proposal  |-> [status |-> "active",  progress |-> 85],
   won       |-> [status |-> "closed",  progress |-> 100],
   lost      |-> [status |-> "closed",  progress |-> 0]]

Stages == DOMAIN PipelineQuestState
Abandoned == [status |-> "abandoned", progress |-> 0]

ASSUME LeadsAssumption ==
  /\ Leads \subseteq Nat /\ Leads # {}
  /\ StageInputs \subseteq Stages
  /\ LastVersion \in [Leads -> Nat]

EditableResearch == {"draft", "researching", "changes_requested"}
ReviewDecisions == {"approved", "changes_requested", "rejected"}
ResearchStatuses == EditableResearch \cup ReviewDecisions \cup {"ready_for_review"}
FitDecisions == {"qualified", "disqualified"}
FitStatuses == FitDecisions \cup {"not_started", "in_progress"}

Row == [version : Nat, key : Keys \cup {NoKey}, identity : Identities \cup {NoIdentity},
        stage : Stages, research : ResearchStatuses, outreach : BOOLEAN, fit : FitStatuses,
        managed : BOOLEAN, deleted : BOOLEAN]

(* The row create_lead inserts for the owner or the sourcer. *)
NewLead(key, identity, stage) ==
  [version |-> 1, key |-> key, identity |-> identity, stage |-> stage,
   research |-> "draft", outreach |-> FALSE, fit |-> "not_started",
   managed |-> FALSE, deleted |-> FALSE]

(* A row that was not inserted yet has version 0. *)
NoLead == [NewLead(NoKey, NoIdentity, "new") EXCEPT !.version = 0]
Unused(l) == lead[l].version = 0
Active(l) == ~Unused(l) /\ ~lead[l].deleted

Twin(l, identity) == \E m \in Leads \ {l} : Active(m) /\ lead[m].identity = identity
KeyUsed(key) == \E m \in Leads : ~Unused(m) /\ lead[m].key = key

(* The operations whose handler reads the lead before it locks. *)
Operations == {"save_research", "submit", "bulk_submit", "review",
               "save_qualification", "decide_qualification",
               "assign", "unassign", "next_action"}
FormType == [step : {"none", "open", "checked"}, user : Users, lead : Leads,
             version : Nat, op : Operations \cup {"none"},
             seen : ResearchStatuses \cup FitStatuses]

TypeOK ==
  /\ lead \in [Leads -> Row]
  /\ quest \in [Leads -> [status : {"backlog", "active", "closed", "abandoned"}, progress : 0..100]]
  /\ managerActive \in BOOLEAN
  /\ form \in [Forms -> FormType]
  /\ fresh \in [Forms -> BOOLEAN]
  /\ reached \in SUBSET Leads

Idle == [step |-> "none", user |-> "owner", lead |-> CHOOSE l \in Leads : TRUE,
         version |-> 0, op |-> "none", seen |-> "draft"]

Init ==
  /\ lead = [l \in Leads |-> NoLead]
  /\ quest = [l \in Leads |-> PipelineQuestState["new"]]
  /\ managerActive = TRUE
  /\ form = [f \in Forms |-> Idle]
  /\ fresh = [f \in Forms |-> TRUE]
  /\ reached = {}

(***************************************************************************)
(* Writing a lead.                                                         *)
(***************************************************************************)
Outdate(changed) == fresh' = [f \in Forms |-> fresh[f] /\ form[f].lead \notin changed]

(* The row gets its new values and `steps` new versions. *)
Put(l, row, steps) ==
  /\ lead[l].version + steps <= LastVersion[l]
  /\ lead' = [lead EXCEPT ![l] = [row EXCEPT !.version = lead[l].version + steps]]
  /\ Outdate({l})

(* The quest takes over status and progress of the stage. *)
SyncQuest(l, stage) == quest' = [quest EXCEPT ![l] = PipelineQuestState[stage]]

(* The handler of f has committed, and the form is gone. *)
Answered(f) ==
  /\ form' = [form EXCEPT ![f] = Idle]
  /\ UNCHANGED managerActive

(* An identity no other active lead has: what the unique index enforces. *)
Distinct(l, identity) == ~Twin(l, identity)

(* The request key is unused, the identity has no active lead: otherwise  *)
(* the existing lead is the answer, or an error.                          *)
Existing(key, l, identity) == KeyUsed(key) \/ ~Distinct(l, identity)

CreateLead(l, user, key, identity, stage) ==
  /\ Unused(l) /\ LastVersion[l] >= 1
  /\ \A m \in Leads : m < l => ~Unused(m)
  /\ ~Existing(key, l, identity)
  /\ user = "owner" \/ stage = "new"
  /\ lead' = [lead EXCEPT ![l] = NewLead(key, identity, stage)]
  /\ SyncQuest(l, stage)
  /\ UNCHANGED <<managerActive, form, fresh, reached>>

(***************************************************************************)
(* Forms.                                                                  *)
(***************************************************************************)
CanView(user, row) == user = "manager" => managerActive /\ row.managed

OpenForm(f, user, l) ==
  /\ form[f].step = "none"
  /\ Active(l) /\ CanView(user, lead[l]) /\ lead[l].version < LastVersion[l]
  /\ form' = [form EXCEPT ![f] = [Idle EXCEPT !.step = "open", !.user = user, !.lead = l,
                                             !.version = lead[l].version]]
  /\ fresh' = [fresh EXCEPT ![f] = TRUE]
  /\ UNCHANGED <<lead, quest, managerActive, reached>>

CloseForm(f) ==
  /\ form[f].step # "none"
  /\ form' = [form EXCEPT ![f] = Idle]
  /\ UNCHANGED <<lead, quest, managerActive, fresh, reached>>

(* require_lead_version: no version stands for a caller that sends none. *)
Current(row, version) == version = 0 \/ row.version = version

(* Who may start an operation on a row. *)
Allowed(user, op, row) ==
  CASE op = "save_research" -> user = "owner" \/ (user = "sourcer" /\ row.research \in EditableResearch)
    [] op \in {"submit", "bulk_submit"} -> user # "manager" /\ row.research \in EditableResearch
    [] op = "review" -> user = "owner" /\ row.research = "ready_for_review"
    [] op = "save_qualification" ->
         user = "owner" \/ (user = "manager" /\ row.managed /\ row.fit \notin FitDecisions)
    [] op = "decide_qualification" -> user = "owner" /\ row.fit \notin FitDecisions
    [] op = "assign" -> user = "owner" /\ ~row.managed /\ managerActive
    [] op = "unassign" -> user = "owner" /\ row.managed
    [] op = "next_action" -> user = "owner" \/ (user = "manager" /\ row.managed)

\* Mutant: the status of the wrong column.
SeenFit(op, row) == row.fit

(* What the handler keeps of the row it read. *)
Seen(op, row) ==
  IF op \in {"save_qualification", "decide_qualification"} THEN row.fit ELSE row.research

(* The read before the lock.  Bulk submission sends no version. *)
Check(f, op) ==
  LET l == form[f].lead
      version == IF op = "bulk_submit" THEN 0 ELSE form[f].version IN
  /\ form[f].step = "open"
  /\ form[f].user = "manager" => managerActive
  /\ Active(l) /\ Current(lead[l], version) /\ Allowed(form[f].user, op, lead[l])
  /\ form' = [form EXCEPT ![f].step = "checked", ![f].op = op, ![f].version = version,
                          ![f].seen = Seen(op, lead[l])]
  /\ UNCHANGED <<lead, quest, managerActive, fresh, reached>>

\* Mutant: the write does not compare the version again.
WritableUnversioned(f, op) ==
  /\ form[f].step = "checked" /\ form[f].op = op
  /\ Active(form[f].lead)

(* The write of a checked form, whose WHERE clause the row must still meet. *)
Writable(f, op) ==
  /\ form[f].step = "checked" /\ form[f].op = op
  /\ Active(form[f].lead) /\ Current(lead[form[f].lead], form[f].version)

(***************************************************************************)
(* Research.                                                               *)
(***************************************************************************)
\* Mutant: update_lead is called without the expected version.
SaveResearchUnversioned(f, identity, edited) ==
  LET l == form[f].lead
      status == IF form[f].seen \in {"draft", "changes_requested"} THEN "researching"
                ELSE form[f].seen IN
  /\ WritableUnversioned(f, "save_research")
  /\ Distinct(l, identity)
  /\ identity # lead[l].identity => edited
  /\ Put(l, [lead[l] EXCEPT !.identity = identity, !.research = status], IF edited THEN 2 ELSE 1)
  /\ IF edited THEN SyncQuest(l, lead[l].stage) ELSE UNCHANGED quest
  /\ Answered(f) /\ UNCHANGED reached

(* update_lead, which takes a version of its own only when it changes      *)
(* something, and then the new research status.                            *)
SaveResearch(f, identity, edited) ==
  LET l == form[f].lead
      status == IF form[f].seen \in {"draft", "changes_requested"} THEN "researching"
                ELSE form[f].seen IN
  /\ Writable(f, "save_research")
  /\ Distinct(l, identity)
  /\ identity # lead[l].identity => edited
  /\ Put(l, [lead[l] EXCEPT !.identity = identity, !.research = status], IF edited THEN 2 ELSE 1)
  /\ IF edited THEN SyncQuest(l, lead[l].stage) ELSE UNCHANGED quest
  /\ Answered(f) /\ UNCHANGED reached

SubmitResearch(f) ==
  LET l == form[f].lead IN
  /\ Writable(f, "submit") \/ Writable(f, "bulk_submit")
  /\ lead[l].research = form[f].seen
  /\ Put(l, [lead[l] EXCEPT !.research = "ready_for_review", !.outreach = FALSE], 1)
  /\ Answered(f) /\ UNCHANGED <<quest, reached>>

ReviewResearch(f, decision) ==
  LET l == form[f].lead IN
  /\ Writable(f, "review")
  /\ lead[l].research = "ready_for_review"
  /\ Put(l, [lead[l] EXCEPT !.research = decision, !.outreach = FALSE], 1)
  /\ Answered(f) /\ UNCHANGED <<quest, reached>>

(***************************************************************************)
(* Qualification, relationship manager, next action.                       *)
(***************************************************************************)
\* Mutant: the UPDATE is not guarded by the version that was read.
SaveQualificationUnversioned(f) ==
  LET l == form[f].lead IN
  /\ WritableUnversioned(f, "save_qualification")
  /\ Put(l, [lead[l] EXCEPT !.fit = IF form[f].seen = "not_started" THEN "in_progress"
                                    ELSE form[f].seen], 1)
  /\ Answered(f) /\ UNCHANGED <<quest, reached>>

SaveQualification(f) ==
  LET l == form[f].lead IN
  /\ Writable(f, "save_qualification")
  /\ Put(l, [lead[l] EXCEPT !.fit = IF form[f].seen = "not_started" THEN "in_progress"
                                    ELSE form[f].seen], 1)
  /\ Answered(f) /\ UNCHANGED <<quest, reached>>

DecideQualification(f, decision) ==
  LET l == form[f].lead IN
  /\ Writable(f, "decide_qualification")
  /\ Put(l, [lead[l] EXCEPT !.fit = decision], 1)
  /\ Answered(f) /\ UNCHANGED <<quest, reached>>

\* Mutant: an assignment is no new version of the lead.
AssignManagerSameVersion(f) ==
  LET l == form[f].lead IN
  /\ Writable(f, "assign") \/ Writable(f, "unassign")
  /\ Put(l, [lead[l] EXCEPT !.managed = form[f].op = "assign"], 0)
  /\ Answered(f) /\ UNCHANGED <<quest, reached>>

AssignManager(f) ==
  LET l == form[f].lead IN
  /\ Writable(f, "assign") \/ Writable(f, "unassign")
  /\ Put(l, [lead[l] EXCEPT !.managed = form[f].op = "assign"], 1)
  /\ Answered(f) /\ UNCHANGED <<quest, reached>>

UpdateNextAction(f) ==
  LET l == form[f].lead IN
  /\ Writable(f, "next_action")
  /\ Put(l, lead[l], 1)
  /\ SyncQuest(l, lead[l].stage)
  /\ Answered(f) /\ UNCHANGED reached

(***************************************************************************)
(* Handlers that read after the lock.                                      *)
(***************************************************************************)
Locked(f) ==
  /\ form[f].step = "open"
  /\ form[f].user = "manager" => managerActive
  /\ Active(form[f].lead) /\ Current(lead[form[f].lead], form[f].version)

ApproveOutreach(f) ==
  LET l == form[f].lead IN
  /\ Locked(f) /\ form[f].user = "owner"
  /\ lead[l].research = "approved" /\ ~lead[l].outreach
  /\ Put(l, [lead[l] EXCEPT !.outreach = TRUE], 1)
  /\ Answered(f) /\ UNCHANGED <<quest, reached>>

(* _validate_major_transition *)
MayMove(row, stage) ==
  /\ stage = "contacted" => row.research = "approved" /\ row.outreach
  /\ stage = "proposal" => row.stage = "meeting"
  /\ stage = "won" => row.stage = "proposal"

ChangeStage(f, stage) ==
  LET l == form[f].lead IN
  /\ Locked(f)
  /\ \/ form[f].user = "owner"
     \/ form[f].user = "manager" /\ stage = "contacted" /\ lead[l].managed
  /\ stage # lead[l].stage /\ MayMove(lead[l], stage)
  /\ Put(l, [lead[l] EXCEPT !.stage = stage], 1)
  /\ SyncQuest(l, stage)
  /\ Answered(f)
  /\ reached' = IF stage = "contacted" THEN reached \cup {l} ELSE reached

\* Mutant: the full edit leaves the quest alone.
OwnerEditWithoutQuest(f, identity, stage) ==
  LET l == form[f].lead IN
  /\ Locked(f) /\ form[f].user = "owner"
  /\ stage # lead[l].stage => stage # "contacted" /\ MayMove(lead[l], stage)
  /\ Distinct(l, identity)
  /\ Put(l, [lead[l] EXCEPT !.identity = identity, !.stage = stage], 1)
  /\ Answered(f) /\ UNCHANGED <<quest, reached>>

(* The owner's full edit.  Contacted is reached by ChangeStage only, which *)
(* records the contact in the same transaction.                            *)
OwnerEdit(f, identity, stage) ==
  LET l == form[f].lead IN
  /\ Locked(f) /\ form[f].user = "owner"
  /\ stage # lead[l].stage => stage # "contacted" /\ MayMove(lead[l], stage)
  /\ Distinct(l, identity)
  /\ Put(l, [lead[l] EXCEPT !.identity = identity, !.stage = stage], 1)
  /\ SyncQuest(l, stage)
  /\ Answered(f) /\ UNCHANGED reached

DeleteLead(f) ==
  LET l == form[f].lead IN
  /\ Locked(f) /\ form[f].user = "owner"
  /\ Put(l, [lead[l] EXCEPT !.deleted = TRUE], 1)
  /\ quest' = [quest EXCEPT ![l] = Abandoned]
  /\ Answered(f) /\ UNCHANGED reached

(***************************************************************************)
(* The manager's account.  Deactivation takes every lead away from it.     *)
(***************************************************************************)
\* Mutant: the leads of a deactivated account keep their version.
DeactivateManagerSameVersion ==
  LET managed == {l \in Leads : ~Unused(l) /\ lead[l].managed} IN
  /\ managerActive
  /\ managerActive' = FALSE
  /\ lead' = [l \in Leads |-> [lead[l] EXCEPT !.managed = FALSE]]
  /\ Outdate(managed)
  /\ UNCHANGED <<quest, form, reached>>

DeactivateManager ==
  LET managed == {l \in Leads : ~Unused(l) /\ lead[l].managed} IN
  /\ managerActive
  /\ \A l \in managed : lead[l].version < LastVersion[l]
  /\ managerActive' = FALSE
  /\ lead' = [l \in Leads |-> IF l \in managed
                              THEN [lead[l] EXCEPT !.managed = FALSE, !.version = @ + 1]
                              ELSE lead[l]]
  /\ Outdate(managed)
  /\ UNCHANGED <<quest, form, reached>>

ActivateManager ==
  /\ ~managerActive
  /\ managerActive' = TRUE
  /\ UNCHANGED <<lead, quest, form, fresh, reached>>

Next ==
  \/ \E l \in Leads, u \in Users \ {"manager"}, k \in Keys, i \in Identities, s \in StageInputs \cup {"new"} :
       CreateLead(l, u, k, i, s)
  \/ \E f \in Forms, u \in Users, l \in Leads : OpenForm(f, u, l)
  \/ \E f \in Forms : CloseForm(f)
  \/ \E f \in Forms, op \in Operations : Check(f, op)
  \/ \E f \in Forms, i \in Identities, edited \in BOOLEAN : SaveResearch(f, i, edited)
  \/ \E f \in Forms : SubmitResearch(f)
  \/ \E f \in Forms, d \in ReviewDecisions : ReviewResearch(f, d)
  \/ \E f \in Forms : SaveQualification(f)
  \/ \E f \in Forms, d \in FitDecisions : DecideQualification(f, d)
  \/ \E f \in Forms : AssignManager(f)
  \/ \E f \in Forms : UpdateNextAction(f)
  \/ \E f \in Forms : ApproveOutreach(f)
  \/ \E f \in Forms, s \in StageInputs : ChangeStage(f, s)
  \/ \E f \in Forms, i \in Identities, s \in StageInputs : OwnerEdit(f, i, s)
  \/ \E f \in Forms : DeleteLead(f)
  \/ DeactivateManager
  \/ ActivateManager

Spec == Init /\ [][Next]_vars

(***************************************************************************)
(* Properties.                                                             *)
(***************************************************************************)
\* The request of form f commits a change to its lead in this step.
Commits(f) == form[f].step # "none" /\ form'[f].step = "none" /\ lead' # lead

\* PROJECT.md promises a new version for every write that changes a lead, of
\* whatever handler: a form whose version is still the row's shows the row as it is.
VersionNamesContent ==
  \A f \in Forms :
    form[f].step # "none" /\ form[f].version = lead[form[f].lead].version => fresh[f]

\* No form overwrites a change its user has not seen, however long the handler's
\* read lies before its write; only bulk submission, which sends no version, may.
NoUnseenOverwrite ==
  [][\A f \in Forms : Commits(f) /\ form[f].op # "bulk_submit" => fresh[f]]_vars

\* Outreach stands approved only on approved research: no stale save, resubmission
\* or second review takes the research back and leaves the outreach approved.
OutreachMeansApproved ==
  \A l \in Leads : lead[l].outreach => lead[l].research = "approved"

\* A lead that was ever moved to Contacted has both approvals, from then on.
ContactedStaysApproved ==
  \A l \in reached : lead[l].outreach /\ lead[l].research = "approved"

\* The sourcer's requests change nothing while research is submitted or decided,
\* also when it was submitted after the handler had checked the permission.
SourcerKeepsOut ==
  [][\A f \in Forms : Commits(f) /\ form[f].user = "sourcer" =>
       lead[form[f].lead].research \in EditableResearch]_vars

\* A manager who was taken off a lead while his request was on its way changes
\* nothing on it any more.
ManagerActsOnOwn ==
  [][\A f \in Forms : Commits(f) /\ form[f].user = "manager" => lead[form[f].lead].managed]_vars

\* What the owner decided on the fit of a lead, or approved or rejected of its
\* research, is not undone by a request that read the lead before.
DecisionsAreFinal ==
  [][\A l \in Leads :
       /\ lead[l].fit \in FitDecisions => lead'[l].fit = lead[l].fit
       /\ lead[l].research \in {"approved", "rejected"} => lead'[l].research = lead[l].research]_vars

\* The quest of a lead is where its pipeline stage puts it, and abandoned once the
\* lead is deleted.
QuestMirrorsLead ==
  \A l \in Leads : ~Unused(l) =>
    quest[l] = IF lead[l].deleted THEN Abandoned ELSE PipelineQuestState[lead[l].stage]

\* A request key creates at most one lead ever, deletions included, and no two
\* active leads have the same identity, however they were created or renamed.
OneLeadPerKeyAndIdentity ==
  \A l, m \in Leads : l # m /\ ~Unused(l) /\ ~Unused(m) =>
    /\ lead[l].key # lead[m].key
    /\ Active(l) /\ Active(m) => lead[l].identity # lead[m].identity

\* Both approvals stand behind outreach and behind every lead moved to Contacted,
\* in whatever order research was saved, submitted and reviewed again.
ApprovalsStand == OutreachMeansApproved /\ ContactedStaysApproved

\* Staff write only where they may at that moment, although both permissions are
\* checked before the lock.
RolesKeepToTheirs == SourcerKeepsOut /\ ManagerActsOnOwn

\* The rows that speak of one lead agree: its quest follows it, its request key and
\* its identity are nobody else's.
LeadRowsAgree == QuestMirrorsLead /\ OneLeadPerKeyAndIdentity
=============================================================================
