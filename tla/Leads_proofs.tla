----------------------------- MODULE Leads_proofs -----------------------------
(***************************************************************************)
(* That the row version does its work, for any number of leads, forms,     *)
(* keys and identities and any bound on the versions.                      *)
(*                                                                         *)
(* The argument is the same for every handler.  A form knows a version; as *)
(* long as that is the version of the row, what the handler found when it  *)
(* checked the row is still so (StillSo).  Every write raises the version, *)
(* so every other form on the lead is released from the promise, and no    *)
(* form on another lead is concerned.                                      *)
(***************************************************************************)
EXTENDS Leads, TLAPS

QuestRow == [status : {"backlog", "active", "closed", "abandoned"}, progress : 0..100]

\* What the check of form F established on row r, for a handler that sends a version.
StillSo(F, r) ==
  /\ F.op = "save_research" =>
       F.seen = r.research /\ (F.user = "sourcer" => r.research \in EditableResearch)
  /\ F.op = "save_qualification" => F.seen = r.fit
  /\ F.op = "decide_qualification" => r.fit \notin FitDecisions
  /\ F.op # "none" /\ F.user = "manager" => r.managed

\* What stays so whatever the row becomes.
AlwaysSo(F) ==
  /\ F.version = 0 => F.step = "checked" /\ F.op = "bulk_submit"
  /\ F.step = "checked" => F.op # "none"
  /\ F.op \in {"submit", "bulk_submit"} => F.seen \in EditableResearch
  /\ F.user = "manager" => F.op \in {"none", "save_qualification", "next_action"}
  /\ F.user = "sourcer" => F.op \in {"none", "save_research", "submit", "bulk_submit"}

\* A form F whose lead has row r, and whether nothing was written since it was loaded.
FormOK(F, r, isFresh) ==
  F.step # "none" =>
    /\ r.version >= 1 /\ F.version <= r.version
    /\ F.version = r.version => isFresh /\ StillSo(F, r)
    /\ AlwaysSo(F)

FormsOK == \A f \in Forms : FormOK(form[f], lead[form[f].lead], fresh[f])

ContactedIsUsed == \A l \in reached : lead[l].version >= 1

\* The inductive invariant.
VersionInv ==
  /\ TypeOK
  /\ FormsOK
  /\ OutreachMeansApproved
  /\ ContactedStaysApproved
  /\ ContactedIsUsed

\* Two rows that differ at most in their version.
SameData(r, s) ==
  /\ r.key = s.key /\ r.identity = s.identity /\ r.stage = s.stage
  /\ r.research = s.research /\ r.outreach = s.outreach /\ r.fit = s.fit
  /\ r.managed = s.managed /\ r.deleted = s.deleted

LEMMA StageQuest ==
  ASSUME NEW s \in Stages
  PROVE  PipelineQuestState[s] \in QuestRow
BY DEF Stages, PipelineQuestState, QuestRow

LEMMA IdleTyping == Idle \in FormType /\ Idle.step = "none"
BY LeadsAssumption DEF Idle, FormType, Users, ResearchStatuses, EditableResearch

\* A write of f's lead that is committed: types are kept, f is gone, and every other
\* form is as right about its lead as before, because the version was raised.
LEMMA PutKeeps ==
  ASSUME TypeOK, FormsOK, NEW f \in Forms, NEW row \in Row, NEW steps \in {1, 2},
         Put(form[f].lead, row, steps), Answered(f)
  PROVE  /\ lead' \in [Leads -> Row] /\ form' \in [Forms -> FormType]
         /\ fresh' \in [Forms -> BOOLEAN] /\ managerActive' \in BOOLEAN
         /\ FormsOK'
         /\ SameData(lead'[form[f].lead], row)
         /\ lead'[form[f].lead].version > lead[form[f].lead].version
         /\ \A m \in Leads \ {form[f].lead} : lead'[m] = lead[m]
<1> DEFINE l == form[f].lead
           new == [row EXCEPT !.version = lead[l].version + steps]
<1>1. l \in Leads /\ lead[l].version \in Nat
  BY DEF TypeOK, FormType, Row
<1>2. new \in Row /\ new.version = lead[l].version + steps /\ SameData(new, row)
  BY <1>1 DEF Row, SameData
<1>3. lead' = [lead EXCEPT ![l] = new]
  BY DEF Put
<1>4. fresh' = [g \in Forms |-> fresh[g] /\ form[g].lead \notin {l}]
  BY DEF Put, Outdate
<1>5. form' = [form EXCEPT ![f] = Idle] /\ managerActive' = managerActive
  BY DEF Answered
<1> HIDE DEF new
<1>6. lead' \in [Leads -> Row] /\ lead'[l] = new /\ \A m \in Leads \ {l} : lead'[m] = lead[m]
  BY <1>1, <1>2, <1>3 DEF TypeOK
<1>7. form' \in [Forms -> FormType] /\ managerActive' \in BOOLEAN
  BY <1>5, IdleTyping DEF TypeOK
<1>8. fresh' \in [Forms -> BOOLEAN]
  BY <1>4 DEF TypeOK
<1>9. FormsOK'
  <2> SUFFICES ASSUME NEW g \in Forms
               PROVE  FormOK(form'[g], lead'[form'[g].lead], fresh'[g])
    BY DEF FormsOK
  <2>1. CASE g = f
    BY <2>1, <1>5, IdleTyping DEF TypeOK, FormOK
  <2>2. CASE g # f /\ form[g].lead = l
    <3>1. form'[g] = form[g] /\ lead'[form'[g].lead].version = lead[l].version + steps
      BY <2>2, <1>2, <1>5, <1>6 DEF TypeOK
    <3>2. form[g].version \in Nat
      BY DEF TypeOK, FormType
    <3> QED
      BY <2>2, <3>1, <3>2, <1>1 DEF FormsOK, FormOK
  <2>3. CASE g # f /\ form[g].lead # l
    <3>1. form'[g] = form[g] /\ form[g].lead \in Leads
      BY <2>3, <1>5 DEF TypeOK, FormType
    <3>2. lead'[form[g].lead] = lead[form[g].lead] /\ fresh'[g] = fresh[g]
      BY <2>3, <3>1, <1>4, <1>6 DEF TypeOK
    <3> QED
      BY <3>1, <3>2 DEF FormsOK
  <2> QED
    BY <2>1, <2>2, <2>3
<1> QED
  BY <1>1, <1>2, <1>6, <1>7, <1>8, <1>9

\* The approvals after a write: it is enough that the written row is in order.
LEMMA ApprovalsKept ==
  ASSUME VersionInv, NEW f \in Forms, NEW row \in Row, NEW steps \in {1, 2},
         Put(form[f].lead, row, steps), Answered(f),
         reached' \in {reached, reached \cup {form[f].lead}},
         row.outreach => row.research = "approved",
         form[f].lead \in reached' => row.outreach,
         quest' \in [Leads -> QuestRow]
  PROVE  VersionInv'
<1> DEFINE l == form[f].lead
<1>1. l \in Leads /\ lead[l].version \in Nat
  BY DEF VersionInv, TypeOK, FormType, Row
<1>2. /\ lead' \in [Leads -> Row] /\ form' \in [Forms -> FormType]
      /\ fresh' \in [Forms -> BOOLEAN] /\ managerActive' \in BOOLEAN /\ FormsOK'
      /\ SameData(lead'[l], row) /\ lead'[l].version > lead[l].version
      /\ \A m \in Leads \ {l} : lead'[m] = lead[m]
  BY PutKeeps DEF VersionInv
<1>3. reached' \in SUBSET Leads
  BY <1>1 DEF VersionInv, TypeOK
<1>4. TypeOK'
  BY <1>2, <1>3 DEF TypeOK, QuestRow
<1>5. OutreachMeansApproved'
  BY <1>2 DEF OutreachMeansApproved, VersionInv, SameData
<1>6. ContactedStaysApproved'
  <2> SUFFICES ASSUME NEW m \in reached'
               PROVE  lead'[m].outreach /\ lead'[m].research = "approved"
    BY DEF ContactedStaysApproved
  <2>1. CASE m = l
    BY <2>1, <1>2 DEF SameData
  <2>2. CASE m # l
    BY <2>2, <1>2, <1>3 DEF VersionInv, ContactedStaysApproved
  <2> QED
    BY <2>1, <2>2
<1>7. ContactedIsUsed'
  <2> SUFFICES ASSUME NEW m \in reached'
               PROVE  lead'[m].version >= 1
    BY DEF ContactedIsUsed
  <2>1. CASE m = l
    <3>1. lead'[l].version \in Nat
      BY <1>1, <1>2 DEF Row
    <3> QED
      BY <2>1, <3>1, <1>1, <1>2
  <2>2. CASE m # l
    BY <2>2, <1>2, <1>3 DEF VersionInv, ContactedIsUsed
  <2> QED
    BY <2>1, <2>2
<1> QED
  BY <1>2, <1>4, <1>5, <1>6, <1>7 DEF VersionInv

\* What the check established holds of a row that is still writable.
LEMMA WritableMeans ==
  ASSUME VersionInv, NEW f \in Forms, NEW op, op # "bulk_submit", Writable(f, op)
  PROVE  /\ form[f].lead \in Leads /\ lead[form[f].lead] \in Row
         /\ form[f].op = op /\ fresh[f]
         /\ StillSo(form[f], lead[form[f].lead]) /\ AlwaysSo(form[f])
BY DEF VersionInv, FormsOK, FormOK, Writable, Current, TypeOK, FormType, AlwaysSo

\* The same for a handler that reads after the lock.
LEMMA LockedMeans ==
  ASSUME VersionInv, NEW f \in Forms, Locked(f)
  PROVE  /\ form[f].lead \in Leads /\ lead[form[f].lead] \in Row
         /\ fresh[f] /\ StillSo(form[f], lead[form[f].lead]) /\ AlwaysSo(form[f])
BY DEF VersionInv, FormsOK, FormOK, Locked, Current, TypeOK, FormType, AlwaysSo

LEMMA QuestKept ==
  ASSUME TypeOK, NEW l \in Leads, NEW s \in Stages,
         UNCHANGED quest \/ SyncQuest(l, s)
  PROVE  quest' \in [Leads -> QuestRow]
BY StageQuest DEF TypeOK, SyncQuest, QuestRow

-----------------------------------------------------------------------------
(* The steps that write a lead.                                            *)

LEMMA SaveResearchKeeps ==
  ASSUME VersionInv, NEW f \in Forms, NEW i \in Identities, NEW edited \in BOOLEAN,
         SaveResearch(f, i, edited)
  PROVE  VersionInv'
<1> DEFINE l == form[f].lead
           status == IF form[f].seen \in {"draft", "changes_requested"} THEN "researching"
                     ELSE form[f].seen
           row == [lead[l] EXCEPT !.identity = i, !.research = status]
           steps == IF edited THEN 2 ELSE 1
<1>1. /\ Writable(f, "save_research") /\ Answered(f) /\ reached' = reached
      /\ Put(l, row, steps)
      /\ UNCHANGED quest \/ SyncQuest(l, lead[l].stage)
  BY DEF SaveResearch
<1>2. /\ l \in Leads /\ lead[l] \in Row /\ form[f].seen = lead[l].research
      /\ form[f].op = "save_research"
  BY <1>1, WritableMeans DEF StillSo
<1>3. row \in Row /\ row.outreach = lead[l].outreach /\ row.research = status
  BY <1>2 DEF Row, ResearchStatuses, EditableResearch
<1>4. steps \in {1, 2}
  OBVIOUS
<1>5. quest' \in [Leads -> QuestRow]
  BY <1>1, <1>2, QuestKept DEF VersionInv, Row
<1>6. lead[l].outreach => lead[l].research = "approved"
  BY <1>2 DEF VersionInv, OutreachMeansApproved
<1>7. l \in reached => lead[l].outreach
  BY DEF VersionInv, ContactedStaysApproved
<1> HIDE DEF row, steps
<1> QED
  BY <1>1, <1>2, <1>3, <1>4, <1>5, <1>6, <1>7, ApprovalsKept

\* Submitted research was not approved, hence its outreach was not, hence the lead was
\* never moved to Contacted.
LEMMA SubmitKeeps ==
  ASSUME VersionInv, NEW f \in Forms, SubmitResearch(f)
  PROVE  VersionInv'
<1> DEFINE l == form[f].lead
           row == [lead[l] EXCEPT !.research = "ready_for_review", !.outreach = FALSE]
<1>1. /\ Put(l, row, 1) /\ Answered(f) /\ UNCHANGED <<quest, reached>>
      /\ form[f].op \in {"submit", "bulk_submit"} /\ form[f].step = "checked"
      /\ lead[l].research = form[f].seen
  BY DEF SubmitResearch, Writable
<1>2. l \in Leads /\ lead[l] \in Row /\ form[f].seen \in EditableResearch
  BY <1>1 DEF VersionInv, FormsOK, FormOK, AlwaysSo, TypeOK, FormType
<1>3. row \in Row /\ ~row.outreach
  BY <1>2 DEF Row, ResearchStatuses
<1>4. l \notin reached
  BY <1>1, <1>2 DEF VersionInv, ContactedStaysApproved, EditableResearch
<1>5. quest' \in [Leads -> QuestRow]
  BY <1>1 DEF VersionInv, TypeOK, QuestRow
<1> HIDE DEF row
<1> QED
  BY <1>1, <1>3, <1>4, <1>5, ApprovalsKept

LEMMA ReviewKeeps ==
  ASSUME VersionInv, NEW f \in Forms, NEW d \in ReviewDecisions, ReviewResearch(f, d)
  PROVE  VersionInv'
<1> DEFINE l == form[f].lead
           row == [lead[l] EXCEPT !.research = d, !.outreach = FALSE]
<1>1. /\ Put(l, row, 1) /\ Answered(f) /\ UNCHANGED <<quest, reached>>
      /\ Writable(f, "review") /\ lead[l].research = "ready_for_review"
  BY DEF ReviewResearch
<1>2. l \in Leads /\ lead[l] \in Row
  BY <1>1, WritableMeans
<1>3. row \in Row /\ ~row.outreach
  BY <1>2 DEF Row, ResearchStatuses
<1>4. l \notin reached
  BY <1>1 DEF VersionInv, ContactedStaysApproved
<1>5. quest' \in [Leads -> QuestRow]
  BY <1>1 DEF VersionInv, TypeOK, QuestRow
<1> HIDE DEF row
<1> QED
  BY <1>1, <1>3, <1>4, <1>5, ApprovalsKept

\* The steps that touch neither approval.
LEMMA OtherWritesKeep ==
  ASSUME VersionInv, NEW f \in Forms, NEW row \in Row,
         form[f].lead \in Leads, lead[form[f].lead] \in Row,
         Put(form[f].lead, row, 1), Answered(f), reached' = reached,
         row.research = lead[form[f].lead].research,
         row.outreach = lead[form[f].lead].outreach,
         quest' \in [Leads -> QuestRow]
  PROVE  VersionInv'
<1>1. row.outreach => row.research = "approved"
  BY DEF VersionInv, OutreachMeansApproved
<1>2. form[f].lead \in reached => row.outreach
  BY DEF VersionInv, ContactedStaysApproved
<1> QED
  BY <1>1, <1>2, ApprovalsKept

LEMMA QualificationKeeps ==
  ASSUME VersionInv, NEW f \in Forms,
         SaveQualification(f) \/ \E d \in FitDecisions : DecideQualification(f, d)
  PROVE  VersionInv'
<1> DEFINE l == form[f].lead
<1>1. PICK fit \in FitStatuses :
        /\ Put(l, [lead[l] EXCEPT !.fit = fit], 1) /\ Answered(f) /\ UNCHANGED <<quest, reached>>
        /\ Writable(f, "save_qualification") \/ Writable(f, "decide_qualification")
  <2>1. CASE SaveQualification(f)
    <3>1. lead[l] \in Row /\ form[f].seen = lead[l].fit
      BY <2>1, WritableMeans DEF SaveQualification, StillSo
    <3>2. form[f].seen \in FitStatuses
      BY <3>1 DEF Row
    <3> QED
      BY <2>1, <3>2 DEF SaveQualification, FitStatuses
  <2>2. ASSUME NEW d \in FitDecisions, DecideQualification(f, d)
        PROVE  \E fit \in FitStatuses :
        /\ Put(l, [lead[l] EXCEPT !.fit = fit], 1) /\ Answered(f) /\ UNCHANGED <<quest, reached>>
        /\ Writable(f, "save_qualification") \/ Writable(f, "decide_qualification")
    BY <2>2 DEF DecideQualification, FitStatuses
  <2> QED
    BY <2>1, <2>2
<1> DEFINE row == [lead[l] EXCEPT !.fit = fit]
<1>2. l \in Leads /\ lead[l] \in Row
  BY <1>1, WritableMeans
<1>3. row \in Row /\ row.research = lead[l].research /\ row.outreach = lead[l].outreach
  BY <1>2 DEF Row
<1>4. quest' \in [Leads -> QuestRow] /\ Put(l, row, 1) /\ reached' = reached
  BY <1>1 DEF VersionInv, TypeOK, QuestRow
<1> HIDE DEF row
<1> QED
  BY <1>1, <1>2, <1>3, <1>4, OtherWritesKeep

LEMMA AssignKeeps ==
  ASSUME VersionInv, NEW f \in Forms, AssignManager(f)
  PROVE  VersionInv'
<1> DEFINE l == form[f].lead
           row == [lead[l] EXCEPT !.managed = form[f].op = "assign"]
<1>1. /\ Put(l, row, 1) /\ Answered(f) /\ UNCHANGED <<quest, reached>>
      /\ Writable(f, "assign") \/ Writable(f, "unassign")
  BY DEF AssignManager
<1>2. l \in Leads /\ lead[l] \in Row
  BY <1>1, WritableMeans
<1>3. row \in Row /\ row.research = lead[l].research /\ row.outreach = lead[l].outreach
  BY <1>2 DEF Row
<1>4. quest' \in [Leads -> QuestRow]
  BY <1>1 DEF VersionInv, TypeOK, QuestRow
<1> HIDE DEF row
<1> QED
  BY <1>1, <1>2, <1>3, <1>4, OtherWritesKeep

LEMMA NextActionKeeps ==
  ASSUME VersionInv, NEW f \in Forms, UpdateNextAction(f)
  PROVE  VersionInv'
<1> DEFINE l == form[f].lead
<1>1. /\ Put(l, lead[l], 1) /\ Answered(f) /\ UNCHANGED reached
      /\ Writable(f, "next_action") /\ SyncQuest(l, lead[l].stage)
  BY DEF UpdateNextAction
<1>2. l \in Leads /\ lead[l] \in Row
  BY <1>1, WritableMeans
<1>3. quest' \in [Leads -> QuestRow]
  BY <1>1, <1>2, QuestKept DEF VersionInv, Row
<1> QED
  BY <1>1, <1>2, <1>3, OtherWritesKeep

LEMMA ApproveOutreachKeeps ==
  ASSUME VersionInv, NEW f \in Forms, ApproveOutreach(f)
  PROVE  VersionInv'
<1> DEFINE l == form[f].lead
           row == [lead[l] EXCEPT !.outreach = TRUE]
<1>1. /\ Put(l, row, 1) /\ Answered(f) /\ UNCHANGED <<quest, reached>>
      /\ Locked(f) /\ lead[l].research = "approved"
  BY DEF ApproveOutreach
<1>2. l \in Leads /\ lead[l] \in Row
  BY <1>1, LockedMeans
<1>3. row \in Row /\ row.research = lead[l].research /\ row.outreach
  BY <1>2 DEF Row
<1>4. quest' \in [Leads -> QuestRow]
  BY <1>1 DEF VersionInv, TypeOK, QuestRow
<1> HIDE DEF row
<1> QED
  BY <1>1, <1>3, <1>4, ApprovalsKept

LEMMA ChangeStageKeeps ==
  ASSUME VersionInv, NEW f \in Forms, NEW s \in StageInputs, ChangeStage(f, s)
  PROVE  VersionInv'
<1> DEFINE l == form[f].lead
           row == [lead[l] EXCEPT !.stage = s]
<1>1. /\ Put(l, row, 1) /\ Answered(f) /\ Locked(f) /\ SyncQuest(l, s)
      /\ MayMove(lead[l], s)
      /\ reached' = IF s = "contacted" THEN reached \cup {l} ELSE reached
  BY DEF ChangeStage
<1>2. l \in Leads /\ lead[l] \in Row /\ s \in Stages
  BY <1>1, LockedMeans, LeadsAssumption
<1>3. row \in Row /\ row.research = lead[l].research /\ row.outreach = lead[l].outreach
  BY <1>2 DEF Row
<1>4. quest' \in [Leads -> QuestRow]
  BY <1>1, <1>2, QuestKept DEF VersionInv
<1>5. lead[l].outreach => lead[l].research = "approved"
  BY <1>2 DEF VersionInv, OutreachMeansApproved
<1>6. l \in reached' => lead[l].outreach
  BY <1>1 DEF VersionInv, ContactedStaysApproved, MayMove
<1> HIDE DEF row
<1> QED
  BY <1>1, <1>3, <1>4, <1>5, <1>6, ApprovalsKept

LEMMA OwnerEditKeeps ==
  ASSUME VersionInv, NEW f \in Forms, NEW i \in Identities, NEW s \in StageInputs,
         OwnerEdit(f, i, s)
  PROVE  VersionInv'
<1> DEFINE l == form[f].lead
           row == [lead[l] EXCEPT !.identity = i, !.stage = s]
<1>1. /\ Put(l, row, 1) /\ Answered(f) /\ Locked(f) /\ SyncQuest(l, s)
      /\ reached' = reached
  BY DEF OwnerEdit
<1>2. l \in Leads /\ lead[l] \in Row /\ s \in Stages
  BY <1>1, LockedMeans, LeadsAssumption
<1>3. row \in Row /\ row.research = lead[l].research /\ row.outreach = lead[l].outreach
  BY <1>2 DEF Row
<1>4. quest' \in [Leads -> QuestRow]
  BY <1>1, <1>2, QuestKept DEF VersionInv
<1> HIDE DEF row
<1> QED
  BY <1>1, <1>2, <1>3, <1>4, OtherWritesKeep

LEMMA DeleteKeeps ==
  ASSUME VersionInv, NEW f \in Forms, DeleteLead(f)
  PROVE  VersionInv'
<1> DEFINE l == form[f].lead
           row == [lead[l] EXCEPT !.deleted = TRUE]
<1>1. /\ Put(l, row, 1) /\ Answered(f) /\ Locked(f)
      /\ quest' = [quest EXCEPT ![l] = Abandoned] /\ reached' = reached
  BY DEF DeleteLead
<1>2. l \in Leads /\ lead[l] \in Row
  BY <1>1, LockedMeans
<1>3. row \in Row /\ row.research = lead[l].research /\ row.outreach = lead[l].outreach
  BY <1>2 DEF Row
<1>4. Abandoned \in QuestRow
  BY DEF Abandoned, QuestRow
<1>5. quest' \in [Leads -> QuestRow]
  BY <1>1, <1>4 DEF VersionInv, TypeOK, QuestRow
<1> HIDE DEF row
<1> QED
  BY <1>1, <1>2, <1>3, <1>5, OtherWritesKeep

-----------------------------------------------------------------------------
(* Creation, forms, the manager's account.                                 *)

LEMMA CreateKeeps ==
  ASSUME VersionInv, NEW l \in Leads, NEW u \in Users, NEW k \in Keys, NEW i \in Identities,
         NEW s \in StageInputs \cup {"new"}, CreateLead(l, u, k, i, s)
  PROVE  VersionInv'
<1> DEFINE new == NewLead(k, i, s)
<1>1. lead[l].version = 0 /\ lead' = [lead EXCEPT ![l] = new] /\ SyncQuest(l, s)
      /\ UNCHANGED <<managerActive, form, fresh, reached>>
  BY DEF CreateLead, Unused
<1>2. s \in Stages
  BY LeadsAssumption DEF Stages, PipelineQuestState
<1>3. new \in Row /\ new.version = 1 /\ ~new.outreach
  BY <1>2 DEF NewLead, Row, ResearchStatuses, EditableResearch, FitStatuses
<1> HIDE DEF new
<1>4. /\ lead' \in [Leads -> Row] /\ lead'[l] = new
      /\ \A m \in Leads \ {l} : lead'[m] = lead[m]
  BY <1>1, <1>3 DEF VersionInv, TypeOK
<1>5. quest' \in [Leads -> QuestRow]
  BY <1>1, <1>2, QuestKept DEF VersionInv
<1>6. TypeOK'
  BY <1>1, <1>4, <1>5 DEF VersionInv, TypeOK, QuestRow
<1>7. FormsOK'
  <2> SUFFICES ASSUME NEW g \in Forms
               PROVE  FormOK(form[g], lead'[form[g].lead], fresh[g])
    BY <1>1 DEF FormsOK
  <2>1. FormOK(form[g], lead[form[g].lead], fresh[g]) /\ form[g].lead \in Leads
    BY DEF VersionInv, FormsOK, TypeOK, FormType
  <2>2. CASE form[g].lead = l
    BY <2>1, <2>2, <1>1 DEF FormOK
  <2>3. CASE form[g].lead # l
    BY <2>1, <2>3, <1>4
  <2> QED
    BY <2>2, <2>3
<1>8. l \notin reached
  BY <1>1 DEF VersionInv, ContactedIsUsed
<1> QED
  BY <1>1, <1>3, <1>4, <1>6, <1>7, <1>8
  DEF VersionInv, OutreachMeansApproved, ContactedStaysApproved, ContactedIsUsed, TypeOK

\* A step of form f alone.
LEMMA FormStepKeeps ==
  ASSUME VersionInv, NEW f \in Forms, NEW new \in FormType, NEW isFresh \in BOOLEAN,
         form' = [form EXCEPT ![f] = new], fresh' = [fresh EXCEPT ![f] = isFresh],
         UNCHANGED <<lead, quest, managerActive, reached>>,
         FormOK(new, lead[new.lead], isFresh)
  PROVE  VersionInv'
<1>1. TypeOK'
  BY DEF VersionInv, TypeOK
<1>2. FormsOK'
  BY DEF VersionInv, FormsOK, TypeOK
<1> QED
  BY <1>1, <1>2
  DEF VersionInv, OutreachMeansApproved, ContactedStaysApproved, ContactedIsUsed

LEMMA OpenKeeps ==
  ASSUME VersionInv, NEW f \in Forms, NEW u \in Users, NEW l \in Leads, OpenForm(f, u, l)
  PROVE  VersionInv'
<1> DEFINE new == [Idle EXCEPT !.step = "open", !.user = u, !.lead = l,
                               !.version = lead[l].version]
<1>1. /\ form' = [form EXCEPT ![f] = new] /\ fresh' = [fresh EXCEPT ![f] = TRUE]
      /\ UNCHANGED <<lead, quest, managerActive, reached>>
      /\ lead[l].version # 0 /\ (u = "manager" => lead[l].managed)
  BY DEF OpenForm, Active, Unused, CanView
<1>2. lead[l].version \in Nat
  BY DEF VersionInv, TypeOK, Row
<1>3. /\ new \in FormType /\ new.step = "open" /\ new.user = u /\ new.lead = l
      /\ new.version = lead[l].version /\ new.op = "none"
  BY <1>2, LeadsAssumption DEF FormType, Idle, ResearchStatuses, EditableResearch
<1> HIDE DEF new
<1>4. FormOK(new, lead[new.lead], TRUE)
  BY <1>1, <1>2, <1>3 DEF FormOK, StillSo, AlwaysSo
<1> QED
  BY <1>1, <1>3, <1>4, FormStepKeeps

LEMMA CloseKeeps ==
  ASSUME VersionInv, NEW f \in Forms, CloseForm(f)
  PROVE  VersionInv'
<1>1. fresh' = [fresh EXCEPT ![f] = fresh[f]] /\ fresh[f] \in BOOLEAN
  BY DEF CloseForm, VersionInv, TypeOK
<1>2. FormOK(Idle, lead[Idle.lead], fresh[f])
  BY IdleTyping DEF FormOK
<1> QED
  BY <1>1, <1>2, IdleTyping, FormStepKeeps DEF CloseForm

LEMMA CheckKeeps ==
  ASSUME VersionInv, NEW f \in Forms, NEW op \in Operations, Check(f, op)
  PROVE  VersionInv'
<1> DEFINE old == form[f]
           l == old.lead
           version == IF op = "bulk_submit" THEN 0 ELSE old.version
           new == [old EXCEPT !.step = "checked", !.op = op, !.version = version,
                              !.seen = Seen(op, lead[l])]
<1>1. /\ form' = [form EXCEPT ![f] = new]
      /\ UNCHANGED <<lead, quest, managerActive, fresh, reached>>
      /\ old.step = "open" /\ Allowed(old.user, op, lead[l]) /\ Current(lead[l], version)
  BY DEF Check
<1>2. old \in FormType /\ l \in Leads /\ lead[l] \in Row /\ fresh[f] \in BOOLEAN
  BY DEF VersionInv, TypeOK, FormType
<1>3. version \in Nat /\ Seen(op, lead[l]) \in ResearchStatuses \cup FitStatuses
  BY <1>2 DEF FormType, Seen, Row
<1>4. /\ new \in FormType /\ new.step = "checked" /\ new.user = old.user /\ new.lead = l
      /\ new.version = version /\ new.op = op /\ new.seen = Seen(op, lead[l])
  BY <1>2, <1>3 DEF FormType
<1>5. FormOK(old, lead[l], fresh[f])
  BY DEF VersionInv, FormsOK
<1>6. lead[l].version >= 1 /\ old.version # 0 /\ lead[l].version \in Nat
      /\ (old.version = lead[l].version => fresh[f])
  BY <1>1, <1>2, <1>5 DEF FormOK, AlwaysSo, Row
<1>7. /\ version <= lead[l].version
      /\ version = lead[l].version => version = old.version
      /\ version = 0 => op = "bulk_submit"
  BY <1>1, <1>2, <1>3, <1>6 DEF Current
<1>8. op \in Operations /\ op # "none"
  BY DEF Operations
<1>9. /\ op = "save_research" => old.user = "owner"
           \/ (old.user = "sourcer" /\ lead[l].research \in EditableResearch)
      /\ op \in {"submit", "bulk_submit"} =>
           old.user # "manager" /\ lead[l].research \in EditableResearch
      /\ op = "review" => old.user = "owner"
      /\ op = "save_qualification" => old.user = "owner"
           \/ (old.user = "manager" /\ lead[l].managed)
      /\ op = "decide_qualification" => old.user = "owner" /\ lead[l].fit \notin FitDecisions
      /\ op \in {"assign", "unassign"} => old.user = "owner"
      /\ op = "next_action" => old.user = "owner" \/ (old.user = "manager" /\ lead[l].managed)
  BY <1>1 DEF Allowed
<1>10. StillSo(new, lead[l]) /\ AlwaysSo(new)
  <2>1. op \in {"submit", "bulk_submit", "save_research"} => Seen(op, lead[l]) = lead[l].research
    BY DEF Seen
  <2>2. op = "save_qualification" => Seen(op, lead[l]) = lead[l].fit
    BY DEF Seen
  <2>3. StillSo(new, lead[l])
    <3>1. op = "save_research" =>
            Seen(op, lead[l]) = lead[l].research
            /\ (old.user = "sourcer" => lead[l].research \in EditableResearch)
      BY <1>9, <2>1
    <3>2. old.user = "manager" => lead[l].managed
      BY <1>8, <1>9 DEF Operations
    <3> QED
      BY <1>4, <1>9, <2>2, <3>1, <3>2 DEF StillSo
  <2>4. op \in {"submit", "bulk_submit"} => Seen(op, lead[l]) \in EditableResearch
    BY <1>9, <2>1
  <2>5. old.user = "manager" => op \in {"save_qualification", "next_action"}
    BY <1>8, <1>9 DEF Operations
  <2>6. old.user = "sourcer" => op \in {"save_research", "submit", "bulk_submit"}
    BY <1>8, <1>9 DEF Operations
  <2> HIDE DEF new, version
  <2>7. AlwaysSo(new)
    BY <1>4, <1>7, <1>8, <2>4, <2>5, <2>6 DEF AlwaysSo
  <2> QED
    BY <2>3, <2>7
<1> HIDE DEF new, version
<1>11. FormOK(new, lead[new.lead], fresh[f])
  BY <1>4, <1>6, <1>7, <1>10 DEF FormOK
<1>12. fresh' = [fresh EXCEPT ![f] = fresh[f]]
  BY <1>1 DEF VersionInv, TypeOK
<1> QED
  BY <1>1, <1>2, <1>4, <1>11, <1>12, FormStepKeeps

LEMMA DeactivateKeeps ==
  ASSUME VersionInv, DeactivateManager
  PROVE  VersionInv'
<1> DEFINE managed == {l \in Leads : ~Unused(l) /\ lead[l].managed}
<1>1. /\ managerActive' = FALSE /\ UNCHANGED <<quest, form, reached>>
      /\ fresh' = [g \in Forms |-> fresh[g] /\ form[g].lead \notin managed]
  BY DEF DeactivateManager, Outdate
<1>2. lead' = [l \in Leads |-> IF l \in managed
                              THEN [lead[l] EXCEPT !.managed = FALSE, !.version = @ + 1]
                              ELSE lead[l]]
  BY DEF DeactivateManager
<1> HIDE DEF managed
<1>3. \A l \in Leads : /\ lead'[l] \in Row
                       /\ lead'[l].research = lead[l].research /\ lead'[l].outreach = lead[l].outreach
                       /\ l \in managed => lead'[l].version = lead[l].version + 1
                       /\ l \notin managed => lead'[l] = lead[l]
  <2> SUFFICES ASSUME NEW l \in Leads
               PROVE  /\ lead'[l] \in Row
                      /\ lead'[l].research = lead[l].research /\ lead'[l].outreach = lead[l].outreach
                      /\ l \in managed => lead'[l].version = lead[l].version + 1
                      /\ l \notin managed => lead'[l] = lead[l]
    OBVIOUS
  <2>1. lead[l] \in Row
    BY DEF VersionInv, TypeOK
  <2>2. CASE l \in managed
    <3> DEFINE next == lead[l].version + 1
               new == [lead[l] EXCEPT !.managed = FALSE, !.version = next]
    <3>1. next \in Nat
      BY <2>1 DEF Row
    <3>2. lead'[l] = new
      BY <1>2, <2>2
    <3> HIDE DEF next
    <3>3. new \in Row /\ new.research = lead[l].research /\ new.outreach = lead[l].outreach
          /\ new.version = next
      BY <2>1, <3>1 DEF Row
    <3> HIDE DEF new
    <3> QED
      BY <2>2, <3>2, <3>3 DEF next
  <2>3. CASE l \notin managed
    BY <1>2, <2>1, <2>3
  <2> QED
    BY <2>2, <2>3
<1>4. lead' \in [Leads -> Row]
  <2>1. lead' = [l \in Leads |-> lead'[l]]
    BY <1>2
  <2> QED
    BY <1>3, <2>1
<1>5. TypeOK'
  BY <1>1, <1>4 DEF VersionInv, TypeOK
<1>6. FormsOK'
  <2> SUFFICES ASSUME NEW g \in Forms
               PROVE  FormOK(form[g], lead'[form[g].lead], fresh'[g])
    BY <1>1 DEF FormsOK
  <2>1. FormOK(form[g], lead[form[g].lead], fresh[g]) /\ form[g].lead \in Leads
        /\ form[g].version \in Nat /\ lead[form[g].lead].version \in Nat
    BY DEF VersionInv, FormsOK, TypeOK, FormType, Row
  <2>2. CASE form[g].lead \in managed
    BY <2>1, <2>2, <1>3 DEF FormOK
  <2>3. CASE form[g].lead \notin managed
    <3>1. fresh'[g] = fresh[g]
      BY <1>1, <2>3 DEF VersionInv, TypeOK
    <3> QED
      BY <2>1, <2>3, <3>1, <1>3
  <2> QED
    BY <2>2, <2>3
<1>7. ContactedIsUsed'
  <2> SUFFICES ASSUME NEW l \in reached
               PROVE  lead'[l].version >= 1
    BY <1>1 DEF ContactedIsUsed
  <2>1. l \in Leads /\ lead[l].version >= 1 /\ lead[l].version \in Nat
    BY DEF VersionInv, TypeOK, ContactedIsUsed, Row
  <2> QED
    BY <2>1, <1>3
<1> QED
  BY <1>1, <1>3, <1>5, <1>6, <1>7
  DEF VersionInv, TypeOK, OutreachMeansApproved, ContactedStaysApproved

LEMMA InitHolds ==
  ASSUME Init
  PROVE  VersionInv
<1>1. NoLead \in Row /\ ~NoLead.outreach
  BY DEF NoLead, NewLead, Row, ResearchStatuses, EditableResearch, FitStatuses, Stages, PipelineQuestState
<1>2. PipelineQuestState["new"] \in QuestRow
  BY StageQuest DEF Stages, PipelineQuestState
<1> QED
  BY <1>1, <1>2, IdleTyping
  DEF Init, VersionInv, TypeOK, QuestRow, FormsOK, FormOK, OutreachMeansApproved,
      ContactedStaysApproved, ContactedIsUsed

-----------------------------------------------------------------------------
(* The theorems.                                                           *)

LEMMA StutterKeeps ==
  ASSUME VersionInv, UNCHANGED vars
  PROVE  VersionInv'
BY DEF VersionInv, TypeOK, FormsOK, OutreachMeansApproved, ContactedStaysApproved,
       ContactedIsUsed, vars

LEMMA ActivateKeeps ==
  ASSUME VersionInv, ActivateManager
  PROVE  VersionInv'
BY DEF ActivateManager, VersionInv, TypeOK, FormsOK, OutreachMeansApproved,
       ContactedStaysApproved, ContactedIsUsed

LEMMA NextKeeps ==
  ASSUME VersionInv, [Next]_vars
  PROVE  VersionInv'
<1>1. CASE UNCHANGED vars
  BY <1>1, StutterKeeps
<1>2. CASE Next
  BY <1>2, CreateKeeps, OpenKeeps, CloseKeeps, CheckKeeps, SaveResearchKeeps, SubmitKeeps,
     ReviewKeeps, QualificationKeeps, AssignKeeps, NextActionKeeps, ApproveOutreachKeeps,
     ChangeStageKeeps, OwnerEditKeeps, DeleteKeeps, DeactivateKeeps, ActivateKeeps
  DEF Next
<1> QED
  BY <1>1, <1>2

LEMMA VersionsKeepTheirPromise == Spec => []VersionInv
<1>1. Init => VersionInv
  BY InitHolds
<1>2. VersionInv /\ [Next]_vars => VersionInv'
  BY NextKeeps
<1> QED
  BY <1>1, <1>2, PTL DEF Spec

\* Every state has its type.
THEOREM LeadsTyped == Spec => []TypeOK
<1>1. VersionInv => TypeOK
  BY DEF VersionInv
<1> QED
  BY <1>1, VersionsKeepTheirPromise, PTL

\* A form whose version is the row's shows the row as it is.
THEOREM VersionsNameContent == Spec => []VersionNamesContent
<1>1. VersionInv => VersionNamesContent
  BY DEF VersionInv, FormsOK, FormOK, VersionNamesContent
<1> QED
  BY <1>1, VersionsKeepTheirPromise, PTL

\* Outreach stands approved only on approved research, and whatever was moved to
\* Contacted has and keeps both approvals.
THEOREM ApprovalsHold == Spec => []ApprovalsStand
<1>1. VersionInv => ApprovalsStand
  BY DEF VersionInv, ApprovalsStand
<1> QED
  BY <1>1, VersionsKeepTheirPromise, PTL

\* The writes of form f.
FormWrites(f) ==
  \/ \E i \in Identities, edited \in BOOLEAN : SaveResearch(f, i, edited)
  \/ SubmitResearch(f)
  \/ \E d \in ReviewDecisions : ReviewResearch(f, d)
  \/ SaveQualification(f)
  \/ \E d \in FitDecisions : DecideQualification(f, d)
  \/ AssignManager(f)
  \/ UpdateNextAction(f)
  \/ ApproveOutreach(f)
  \/ \E s \in StageInputs : ChangeStage(f, s)
  \/ \E i \in Identities, s \in StageInputs : OwnerEdit(f, i, s)
  \/ DeleteLead(f)

LEMMA NextSplit ==
  ASSUME Next
  PROVE  \/ \E f \in Forms : FormWrites(f)
         \/ \E l \in Leads, u \in Users, k \in Keys, i \in Identities, s \in StageInputs \cup {"new"} :
              CreateLead(l, u, k, i, s)
         \/ DeactivateManager
         \/ UNCHANGED lead
BY DEF Next, FormWrites, OpenForm, CloseForm, Check, ActivateManager

LEMMA WritesAnswer ==
  ASSUME NEW f \in Forms, FormWrites(f)
  PROVE  Answered(f)
BY DEF FormWrites, SaveResearch, SubmitResearch, ReviewResearch, SaveQualification,
       DecideQualification, AssignManager, UpdateNextAction, ApproveOutreach, ChangeStage,
       OwnerEdit, DeleteLead

\* Only a form's own write commits its request.
LEMMA CommitIsWrite ==
  ASSUME VersionInv, [Next]_vars, NEW f \in Forms, Commits(f)
  PROVE  FormWrites(f)
<1>1. lead' # lead /\ form'[f] # form[f]
  BY DEF Commits
<1>2. Next
  BY <1>1 DEF vars
<1>3. ~DeactivateManager
  BY <1>1 DEF DeactivateManager
<1>4. ~\E l \in Leads, u \in Users, k \in Keys, i \in Identities, s \in StageInputs \cup {"new"} :
         CreateLead(l, u, k, i, s)
  BY <1>1 DEF CreateLead
<1>5. PICK g \in Forms : FormWrites(g)
  BY <1>1, <1>2, <1>3, <1>4, NextSplit
<1>6. form' = [form EXCEPT ![g] = Idle]
  BY <1>5, WritesAnswer DEF Answered
<1>7. g = f
  BY <1>1, <1>6 DEF VersionInv, TypeOK
<1> QED
  BY <1>5, <1>7

\* Who may write, and from what: the form is fresh unless it submits in bulk, a sourcer
\* writes research that is open to him, a manager writes a lead he manages.
LEMMA WriteIsJustified ==
  ASSUME VersionInv, NEW f \in Forms, FormWrites(f)
  PROVE  /\ form[f].op # "bulk_submit" => fresh[f]
         /\ form[f].user = "sourcer" => lead[form[f].lead].research \in EditableResearch
         /\ form[f].user = "manager" => lead[form[f].lead].managed
<1> DEFINE l == form[f].lead
<1>1. ASSUME NEW op \in Operations \ {"bulk_submit"}, Writable(f, op),
             form[f].user = "sourcer" => /\ op \in {"save_research", "submit"}
                                         /\ op = "submit" => lead[l].research = form[f].seen
      PROVE  /\ fresh[f]
             /\ form[f].user = "sourcer" => lead[l].research \in EditableResearch
             /\ form[f].user = "manager" => lead[l].managed
  BY <1>1, WritableMeans DEF StillSo, AlwaysSo, Operations
<1>2. ASSUME NEW op \in Operations \ {"bulk_submit", "submit", "save_research"}, Writable(f, op)
      PROVE  fresh[f] /\ form[f].user # "sourcer" /\ (form[f].user = "manager" => lead[l].managed)
  BY <1>2, WritableMeans DEF StillSo, AlwaysSo, Operations
<1>3. CASE \E i \in Identities, edited \in BOOLEAN : SaveResearch(f, i, edited)
  BY <1>1, <1>3 DEF SaveResearch, Operations
<1>4. CASE SubmitResearch(f)
  <2>1. CASE Writable(f, "submit")
    BY <1>1, <1>4, <2>1 DEF SubmitResearch, Operations
  <2>2. CASE Writable(f, "bulk_submit")
    <3>1. form[f].op = "bulk_submit" /\ form[f].step = "checked" /\ lead[l].research = form[f].seen
      BY <1>4, <2>2 DEF SubmitResearch, Writable
    <3>2. AlwaysSo(form[f])
      BY <3>1 DEF VersionInv, FormsOK, FormOK
    <3> QED
      BY <3>1, <3>2 DEF AlwaysSo
  <2> QED
    BY <1>4, <2>1, <2>2 DEF SubmitResearch
<1>5. CASE \/ \E d \in ReviewDecisions : ReviewResearch(f, d)
           \/ SaveQualification(f)
           \/ \E d \in FitDecisions : DecideQualification(f, d)
           \/ AssignManager(f)
           \/ UpdateNextAction(f)
  <2>1. \E op \in Operations \ {"bulk_submit", "submit", "save_research"} : Writable(f, op)
    BY <1>5 DEF ReviewResearch, SaveQualification, DecideQualification, AssignManager,
                UpdateNextAction, Operations
  <2> QED
    BY <2>1, <1>2
<1>6. CASE \/ ApproveOutreach(f)
           \/ \E s \in StageInputs : ChangeStage(f, s)
           \/ \E i \in Identities, s \in StageInputs : OwnerEdit(f, i, s)
           \/ DeleteLead(f)
  <2>1. Locked(f) /\ form[f].user # "sourcer" /\ (form[f].user = "manager" => lead[l].managed)
    BY <1>6 DEF ApproveOutreach, ChangeStage, OwnerEdit, DeleteLead
  <2> QED
    BY <2>1, LockedMeans
<1> QED
  BY <1>3, <1>4, <1>5, <1>6 DEF FormWrites

\* No form overwrites what its user has not seen.
THEOREM NothingUnseenIsOverwritten == Spec => NoUnseenOverwrite
<1>1. VersionInv /\ [Next]_vars =>
        \A f \in Forms : Commits(f) /\ form[f].op # "bulk_submit" => fresh[f]
  BY CommitIsWrite, WriteIsJustified
<1> QED
  BY <1>1, VersionsKeepTheirPromise, PTL DEF Spec, NoUnseenOverwrite

\* Sourcers change nothing that is submitted or decided, managers nothing on leads that
\* are no longer theirs.
THEOREM RolesKeepOut == Spec => RolesKeepToTheirs
<1>1. VersionInv /\ [Next]_vars =>
        \A f \in Forms : Commits(f) /\ form[f].user = "sourcer" =>
          lead[form[f].lead].research \in EditableResearch
  BY CommitIsWrite, WriteIsJustified
<1>2. VersionInv /\ [Next]_vars =>
        \A f \in Forms : Commits(f) /\ form[f].user = "manager" => lead[form[f].lead].managed
  BY CommitIsWrite, WriteIsJustified
<1> QED
  BY <1>1, <1>2, VersionsKeepTheirPromise, PTL DEF Spec, RolesKeepToTheirs, SourcerKeepsOut, ManagerActsOnOwn

-----------------------------------------------------------------------------
(* Decisions, and the rows that speak of one lead.  Both follow from one    *)
(* account of what a form's write may do to its row.                        *)

\* The row a form's write leaves behind, its version aside: the key stays, the identity is
\* the old one or nobody else's, what was decided stays, and the quest follows.
WrittenAs(f, row) ==
  LET l == form[f].lead IN
  /\ Answered(f)
  /\ \E steps \in {1, 2} : Put(l, row, steps)
  /\ row.key = lead[l].key
  /\ row.identity = lead[l].identity \/ Distinct(l, row.identity)
  /\ lead[l].fit \in FitDecisions => row.fit = lead[l].fit
  /\ lead[l].research \in {"approved", "rejected"} => row.research = lead[l].research
  /\ \/ row.deleted /\ quest' = [quest EXCEPT ![l] = Abandoned]
     \/ ~row.deleted /\ SyncQuest(l, row.stage)
     \/ ~row.deleted /\ row.stage = lead[l].stage /\ UNCHANGED quest

LEMMA SaveResearchWrites ==
  ASSUME VersionInv, NEW f \in Forms, NEW i \in Identities, NEW edited \in BOOLEAN,
         SaveResearch(f, i, edited)
  PROVE  Active(form[f].lead) /\ \E row \in Row : WrittenAs(f, row)
<1> DEFINE l == form[f].lead
           status == IF form[f].seen \in {"draft", "changes_requested"} THEN "researching"
                     ELSE form[f].seen
           row == [lead[l] EXCEPT !.identity = i, !.research = status]
           steps == IF edited THEN 2 ELSE 1
<1>1. /\ Writable(f, "save_research") /\ Answered(f) /\ Distinct(l, i) /\ Active(l)
      /\ Put(l, row, steps) /\ steps \in {1, 2}
      /\ UNCHANGED quest \/ SyncQuest(l, lead[l].stage)
  BY DEF SaveResearch, Writable
<1>2. lead[l] \in Row /\ form[f].seen = lead[l].research /\ ~lead[l].deleted
  BY <1>1, WritableMeans DEF StillSo, Active
<1>3. row \in Row /\ row.identity = i /\ row.research = status /\ row.key = lead[l].key
      /\ row.fit = lead[l].fit /\ row.deleted = lead[l].deleted /\ row.stage = lead[l].stage
  BY <1>2 DEF Row, ResearchStatuses, EditableResearch
<1>4. lead[l].research \in {"approved", "rejected"} => status = lead[l].research
  BY <1>2
<1> HIDE DEF row, steps, status
<1> QED
  BY <1>1, <1>2, <1>3, <1>4 DEF WrittenAs

LEMMA SubmitWrites ==
  ASSUME VersionInv, NEW f \in Forms, SubmitResearch(f)
  PROVE  Active(form[f].lead) /\ \E row \in Row : WrittenAs(f, row)
<1> DEFINE l == form[f].lead
           row == [lead[l] EXCEPT !.research = "ready_for_review", !.outreach = FALSE]
<1>1. /\ Put(l, row, 1) /\ Answered(f) /\ UNCHANGED quest /\ Active(l)
      /\ form[f].op \in {"submit", "bulk_submit"} /\ form[f].step = "checked"
      /\ lead[l].research = form[f].seen
  BY DEF SubmitResearch, Writable
<1>2. l \in Leads /\ lead[l] \in Row /\ form[f].seen \in EditableResearch
  BY <1>1 DEF VersionInv, FormsOK, FormOK, AlwaysSo, TypeOK, FormType
<1>3. row \in Row /\ row.key = lead[l].key /\ row.identity = lead[l].identity
      /\ row.fit = lead[l].fit /\ row.deleted = lead[l].deleted /\ row.stage = lead[l].stage
  BY <1>2 DEF Row, ResearchStatuses
<1>4. lead[l].research \notin {"approved", "rejected"} /\ ~lead[l].deleted
  BY <1>1, <1>2 DEF EditableResearch, Active
<1> HIDE DEF row
<1> QED
  BY <1>1, <1>3, <1>4 DEF WrittenAs

LEMMA ReviewWrites ==
  ASSUME VersionInv, NEW f \in Forms, NEW d \in ReviewDecisions, ReviewResearch(f, d)
  PROVE  Active(form[f].lead) /\ \E row \in Row : WrittenAs(f, row)
<1> DEFINE l == form[f].lead
           row == [lead[l] EXCEPT !.research = d, !.outreach = FALSE]
<1>1. /\ Put(l, row, 1) /\ Answered(f) /\ UNCHANGED quest /\ Active(l)
      /\ Writable(f, "review") /\ lead[l].research = "ready_for_review"
  BY DEF ReviewResearch, Writable
<1>2. l \in Leads /\ lead[l] \in Row /\ ~lead[l].deleted
  BY <1>1, WritableMeans DEF Active
<1>3. row \in Row /\ row.key = lead[l].key /\ row.identity = lead[l].identity
      /\ row.fit = lead[l].fit /\ row.deleted = lead[l].deleted /\ row.stage = lead[l].stage
  BY <1>2 DEF Row, ResearchStatuses
<1> HIDE DEF row
<1> QED
  BY <1>1, <1>2, <1>3 DEF WrittenAs

\* A save keeps the decision it saw, and only an undecided row is decided.
LEMMA QualificationWrites ==
  ASSUME VersionInv, NEW f \in Forms,
         SaveQualification(f) \/ \E d \in FitDecisions : DecideQualification(f, d)
  PROVE  Active(form[f].lead) /\ \E row \in Row : WrittenAs(f, row)
<1> DEFINE l == form[f].lead
<1>1. PICK fit \in FitStatuses :
        /\ Put(l, [lead[l] EXCEPT !.fit = fit], 1) /\ Answered(f) /\ UNCHANGED quest
        /\ Writable(f, "save_qualification") \/ Writable(f, "decide_qualification")
        /\ lead[l].fit \in FitDecisions => fit = lead[l].fit
  <2>1. CASE SaveQualification(f)
    <3>1. lead[l] \in Row /\ form[f].seen = lead[l].fit
      BY <2>1, WritableMeans DEF SaveQualification, StillSo
    <3>2. form[f].seen \in FitStatuses
      BY <3>1 DEF Row
    <3> QED
      BY <2>1, <3>1, <3>2 DEF SaveQualification, FitStatuses, FitDecisions
  <2>2. ASSUME NEW d \in FitDecisions, DecideQualification(f, d)
        PROVE  \E fit \in FitStatuses :
        /\ Put(l, [lead[l] EXCEPT !.fit = fit], 1) /\ Answered(f) /\ UNCHANGED quest
        /\ Writable(f, "save_qualification") \/ Writable(f, "decide_qualification")
        /\ lead[l].fit \in FitDecisions => fit = lead[l].fit
    <3>1. lead[l].fit \notin FitDecisions
      BY <2>2, WritableMeans DEF DecideQualification, StillSo
    <3> QED
      BY <2>2, <3>1 DEF DecideQualification, FitStatuses
  <2> QED
    BY <2>1, <2>2
<1> DEFINE row == [lead[l] EXCEPT !.fit = fit]
<1>2. l \in Leads /\ lead[l] \in Row /\ Active(l) /\ ~lead[l].deleted
  BY <1>1, WritableMeans DEF Active, Writable
<1>3. row \in Row /\ row.key = lead[l].key /\ row.identity = lead[l].identity /\ row.fit = fit
      /\ row.research = lead[l].research /\ row.deleted = lead[l].deleted /\ row.stage = lead[l].stage
  BY <1>2 DEF Row
<1>4. Put(l, row, 1)
  BY <1>1
<1> HIDE DEF row
<1> QED
  BY <1>1, <1>2, <1>3, <1>4 DEF WrittenAs

LEMMA AssignWrites ==
  ASSUME VersionInv, NEW f \in Forms, AssignManager(f)
  PROVE  Active(form[f].lead) /\ \E row \in Row : WrittenAs(f, row)
<1> DEFINE l == form[f].lead
           row == [lead[l] EXCEPT !.managed = form[f].op = "assign"]
<1>1. /\ Put(l, row, 1) /\ Answered(f) /\ UNCHANGED quest /\ Active(l)
      /\ Writable(f, "assign") \/ Writable(f, "unassign")
  BY DEF AssignManager, Writable
<1>2. l \in Leads /\ lead[l] \in Row /\ ~lead[l].deleted
  BY <1>1, WritableMeans DEF Active
<1>3. row \in Row /\ row.key = lead[l].key /\ row.identity = lead[l].identity
      /\ row.fit = lead[l].fit /\ row.research = lead[l].research
      /\ row.deleted = lead[l].deleted /\ row.stage = lead[l].stage
  BY <1>2 DEF Row
<1> HIDE DEF row
<1> QED
  BY <1>1, <1>2, <1>3 DEF WrittenAs

LEMMA NextActionWrites ==
  ASSUME VersionInv, NEW f \in Forms, UpdateNextAction(f)
  PROVE  Active(form[f].lead) /\ \E row \in Row : WrittenAs(f, row)
<1> DEFINE l == form[f].lead
<1>1. /\ Put(l, lead[l], 1) /\ Answered(f) /\ Active(l)
      /\ Writable(f, "next_action") /\ SyncQuest(l, lead[l].stage)
  BY DEF UpdateNextAction, Writable
<1>2. lead[l] \in Row /\ ~lead[l].deleted
  BY <1>1, WritableMeans DEF Active
<1> QED
  BY <1>1, <1>2 DEF WrittenAs

\* The handlers that lock before they read.
LEMMA LockedWrites ==
  ASSUME VersionInv, NEW f \in Forms,
         \/ ApproveOutreach(f)
         \/ \E s \in StageInputs : ChangeStage(f, s)
         \/ \E i \in Identities, s \in StageInputs : OwnerEdit(f, i, s)
         \/ DeleteLead(f)
  PROVE  Active(form[f].lead) /\ \E row \in Row : WrittenAs(f, row)
<1> DEFINE l == form[f].lead
<1>1. Locked(f) /\ Answered(f)
  BY DEF ApproveOutreach, ChangeStage, OwnerEdit, DeleteLead
<1>2. l \in Leads /\ lead[l] \in Row /\ Active(l) /\ ~lead[l].deleted
  BY <1>1, LockedMeans DEF Active, Locked
<1>3. CASE ApproveOutreach(f)
  <2> DEFINE row == [lead[l] EXCEPT !.outreach = TRUE]
  <2>1. Put(l, row, 1) /\ UNCHANGED quest
    BY <1>3 DEF ApproveOutreach
  <2>2. row \in Row /\ row.key = lead[l].key /\ row.identity = lead[l].identity
        /\ row.fit = lead[l].fit /\ row.research = lead[l].research
        /\ row.deleted = lead[l].deleted /\ row.stage = lead[l].stage
    BY <1>2 DEF Row
  <2> HIDE DEF row
  <2> QED
    BY <1>1, <1>2, <2>1, <2>2 DEF WrittenAs
<1>4. ASSUME NEW s \in StageInputs, ChangeStage(f, s)
      PROVE  \E row \in Row : WrittenAs(f, row)
  <2> DEFINE row == [lead[l] EXCEPT !.stage = s]
  <2>1. Put(l, row, 1) /\ SyncQuest(l, s)
    BY <1>4 DEF ChangeStage
  <2>2. row \in Row /\ row.key = lead[l].key /\ row.identity = lead[l].identity
        /\ row.fit = lead[l].fit /\ row.research = lead[l].research
        /\ row.deleted = lead[l].deleted /\ row.stage = s
    BY <1>2, LeadsAssumption DEF Row
  <2> HIDE DEF row
  <2> QED
    BY <1>1, <1>2, <2>1, <2>2 DEF WrittenAs
<1>5. ASSUME NEW i \in Identities, NEW s \in StageInputs, OwnerEdit(f, i, s)
      PROVE  \E row \in Row : WrittenAs(f, row)
  <2> DEFINE row == [lead[l] EXCEPT !.identity = i, !.stage = s]
  <2>1. Put(l, row, 1) /\ SyncQuest(l, s) /\ Distinct(l, i)
    BY <1>5 DEF OwnerEdit
  <2>2. row \in Row /\ row.key = lead[l].key /\ row.identity = i
        /\ row.fit = lead[l].fit /\ row.research = lead[l].research
        /\ row.deleted = lead[l].deleted /\ row.stage = s
    BY <1>2, LeadsAssumption DEF Row
  <2> HIDE DEF row
  <2> QED
    BY <1>1, <1>2, <2>1, <2>2, SMTT(30) DEF WrittenAs
<1>6. CASE DeleteLead(f)
  <2> DEFINE row == [lead[l] EXCEPT !.deleted = TRUE]
  <2>1. Put(l, row, 1) /\ quest' = [quest EXCEPT ![l] = Abandoned]
    BY <1>6 DEF DeleteLead
  <2>2. row \in Row /\ row.key = lead[l].key /\ row.identity = lead[l].identity
        /\ row.fit = lead[l].fit /\ row.research = lead[l].research /\ row.deleted
    BY <1>2 DEF Row
  <2> HIDE DEF row
  <2> QED
    BY <1>1, <1>2, <2>1, <2>2 DEF WrittenAs
<1> QED
  BY <1>2, <1>3, <1>4, <1>5, <1>6

LEMMA WriteShape ==
  ASSUME VersionInv, NEW f \in Forms, FormWrites(f)
  PROVE  Active(form[f].lead) /\ \E row \in Row : WrittenAs(f, row)
BY SaveResearchWrites, SubmitWrites, ReviewWrites, QualificationWrites, AssignWrites,
   NextActionWrites, LockedWrites DEF FormWrites

\* What the write did, told of the two states of the table.
LEMMA WriteEffect ==
  ASSUME VersionInv, NEW f \in Forms, FormWrites(f)
  PROVE  LET l == form[f].lead IN
         /\ l \in Leads /\ Active(l) /\ lead'[l].version # 0
         /\ \A m \in Leads \ {l} : lead'[m] = lead[m] /\ quest'[m] = quest[m]
         /\ lead'[l].key = lead[l].key
         /\ lead'[l].identity = lead[l].identity \/ Distinct(l, lead'[l].identity)
         /\ lead[l].fit \in FitDecisions => lead'[l].fit = lead[l].fit
         /\ lead[l].research \in {"approved", "rejected"} => lead'[l].research = lead[l].research
         /\ \/ lead'[l].deleted /\ quest'[l] = Abandoned
            \/ ~lead'[l].deleted /\ quest'[l] = PipelineQuestState[lead'[l].stage]
            \/ ~lead'[l].deleted /\ lead'[l].stage = lead[l].stage /\ quest'[l] = quest[l]
<1> DEFINE l == form[f].lead
<1>1. PICK row \in Row : WrittenAs(f, row)
  BY WriteShape
<1>2. PICK steps \in {1, 2} : Put(l, row, steps)
  BY <1>1 DEF WrittenAs
<1>3. Active(l) /\ Answered(f) /\ l \in Leads
  BY <1>1, WriteShape DEF WrittenAs, VersionInv, TypeOK, FormType
<1>4. /\ SameData(lead'[l], row) /\ lead'[l].version > lead[l].version
      /\ \A m \in Leads \ {l} : lead'[m] = lead[m]
      /\ lead' \in [Leads -> Row]
  BY <1>2, <1>3, PutKeeps DEF VersionInv
<1>5. lead[l].version \in Nat /\ lead'[l].version \in Nat
  BY <1>3, <1>4 DEF VersionInv, TypeOK, Row
<1>6. lead'[l].version # 0
  BY <1>4, <1>5
<1>7. quest \in [Leads -> QuestRow]
  BY DEF VersionInv, TypeOK, QuestRow
<1>8. \A m \in Leads \ {l} : quest'[m] = quest[m]
  BY <1>1, <1>3, <1>7 DEF WrittenAs, SyncQuest
<1>9. \/ row.deleted /\ quest'[l] = Abandoned
      \/ ~row.deleted /\ quest'[l] = PipelineQuestState[row.stage]
      \/ ~row.deleted /\ row.stage = lead[l].stage /\ quest'[l] = quest[l]
  BY <1>1, <1>3, <1>7 DEF WrittenAs, SyncQuest
<1> QED
  BY <1>1, <1>3, <1>4, <1>6, <1>8, <1>9 DEF WrittenAs, SameData

\* A row that was not inserted yet is as Init left it.
UnusedRows == \A l \in Leads : Unused(l) => lead[l] = NoLead

RowsInv == VersionInv /\ UnusedRows /\ QuestMirrorsLead /\ OneLeadPerKeyAndIdentity

LEMMA InsertEffect ==
  ASSUME VersionInv, NEW l \in Leads, NEW u \in Users, NEW k \in Keys, NEW i \in Identities,
         NEW s \in StageInputs \cup {"new"}, CreateLead(l, u, k, i, s)
  PROVE  /\ Unused(l) /\ ~Existing(k, l, i)
         /\ lead'[l] = NewLead(k, i, s) /\ quest'[l] = PipelineQuestState[s]
         /\ \A m \in Leads \ {l} : lead'[m] = lead[m] /\ quest'[m] = quest[m]
BY DEF CreateLead, VersionInv, TypeOK, SyncQuest

LEMMA DeactivationEffect ==
  ASSUME VersionInv, DeactivateManager, NEW l \in Leads
  PROVE  /\ Unused(l) => lead'[l] = lead[l]
         /\ ~Unused(l) => ~Unused(l)'
         /\ lead'[l].key = lead[l].key /\ lead'[l].identity = lead[l].identity
         /\ lead'[l].fit = lead[l].fit /\ lead'[l].research = lead[l].research
         /\ lead'[l].stage = lead[l].stage /\ lead'[l].deleted = lead[l].deleted
         /\ quest' = quest
<1> DEFINE managed == {m \in Leads : ~Unused(m) /\ lead[m].managed}
<1>1. lead'[l] = IF l \in managed THEN [lead[l] EXCEPT !.managed = FALSE, !.version = @ + 1]
                 ELSE lead[l]
  BY DEF DeactivateManager
<1>2. lead[l] \in Row /\ lead[l].version \in Nat
  BY DEF VersionInv, TypeOK, Row
<1>3. CASE l \notin managed
  BY <1>1, <1>3 DEF DeactivateManager, Unused
<1>4. CASE l \in managed
  <2> DEFINE next == lead[l].version + 1
             new == [lead[l] EXCEPT !.managed = FALSE, !.version = next]
  <2>1. lead'[l] = new
    BY <1>1, <1>4
  <2>2. next # 0
    BY <1>2
  <2> HIDE DEF next
  <2>3. /\ new.version = next /\ new.key = lead[l].key /\ new.identity = lead[l].identity
        /\ new.fit = lead[l].fit /\ new.research = lead[l].research
        /\ new.stage = lead[l].stage /\ new.deleted = lead[l].deleted
    BY <1>2 DEF Row
  <2> HIDE DEF new
  <2> QED
    BY <1>4, <2>1, <2>2, <2>3 DEF DeactivateManager, Unused
<1> QED
  BY <1>3, <1>4

LEMMA RowsInit ==
  ASSUME Init
  PROVE  RowsInv
<1>1. \A l \in Leads : lead[l] = NoLead /\ lead[l].version = 0
  BY DEF Init, NoLead, NewLead
<1> QED
  BY <1>1, InitHolds
  DEF RowsInv, UnusedRows, QuestMirrorsLead, OneLeadPerKeyAndIdentity, Unused

LEMMA RowsNext ==
  ASSUME RowsInv, [Next]_vars
  PROVE  RowsInv'
<1>1. VersionInv'
  BY NextKeeps DEF RowsInv
<1>2. ASSUME NEW f \in Forms, FormWrites(f)
      PROVE  RowsInv'
  <2> DEFINE l == form[f].lead
  <2>1. /\ l \in Leads /\ Active(l) /\ lead'[l].version # 0
        /\ \A m \in Leads \ {l} : lead'[m] = lead[m] /\ quest'[m] = quest[m]
        /\ lead'[l].key = lead[l].key
        /\ lead'[l].identity = lead[l].identity \/ Distinct(l, lead'[l].identity)
        /\ \/ lead'[l].deleted /\ quest'[l] = Abandoned
           \/ ~lead'[l].deleted /\ quest'[l] = PipelineQuestState[lead'[l].stage]
           \/ ~lead'[l].deleted /\ lead'[l].stage = lead[l].stage /\ quest'[l] = quest[l]
    BY <1>2, WriteEffect DEF RowsInv
  <2>2. UnusedRows'
    BY <2>1 DEF RowsInv, UnusedRows, Unused
  <2>3. QuestMirrorsLead'
    BY <2>1 DEF RowsInv, QuestMirrorsLead, Unused, Active
  <2>4. OneLeadPerKeyAndIdentity'
    BY <2>1 DEF RowsInv, OneLeadPerKeyAndIdentity, Unused, Active, Distinct, Twin
  <2> QED
    BY <1>1, <2>2, <2>3, <2>4 DEF RowsInv
<1>3. ASSUME NEW l \in Leads, NEW u \in Users, NEW k \in Keys, NEW i \in Identities,
             NEW s \in StageInputs \cup {"new"}, CreateLead(l, u, k, i, s)
      PROVE  RowsInv'
  <2>1. /\ ~Existing(k, l, i)
        /\ lead'[l] = NewLead(k, i, s) /\ quest'[l] = PipelineQuestState[s]
        /\ \A m \in Leads \ {l} : lead'[m] = lead[m] /\ quest'[m] = quest[m]
    BY <1>3, InsertEffect DEF RowsInv
  <2>2. /\ lead'[l].version = 1 /\ lead'[l].key = k /\ lead'[l].identity = i
        /\ lead'[l].stage = s /\ ~lead'[l].deleted
    BY <2>1 DEF NewLead
  <2>3. UnusedRows'
    BY <2>1, <2>2 DEF RowsInv, UnusedRows, Unused
  <2>4. QuestMirrorsLead'
    BY <2>1, <2>2 DEF RowsInv, QuestMirrorsLead, Unused
  <2>5. \A m \in Leads \ {l} : ~Unused(m) =>
          lead[m].key # k /\ (Active(m) => lead[m].identity # i)
    BY <2>1 DEF Existing, KeyUsed, Distinct, Twin
  <2>6. OneLeadPerKeyAndIdentity'
    BY <2>1, <2>2, <2>5 DEF RowsInv, OneLeadPerKeyAndIdentity, Unused, Active
  <2> QED
    BY <1>1, <2>3, <2>4, <2>6 DEF RowsInv
<1>4. CASE DeactivateManager
  <2>1. \A l \in Leads :
          /\ Unused(l) => lead'[l] = lead[l]
          /\ ~Unused(l) => ~Unused(l)'
          /\ lead'[l].key = lead[l].key /\ lead'[l].identity = lead[l].identity
          /\ lead'[l].stage = lead[l].stage /\ lead'[l].deleted = lead[l].deleted
          /\ quest' = quest
    BY <1>4, DeactivationEffect DEF RowsInv
  <2>2. \A l \in Leads : Unused(l)' <=> Unused(l)
    BY <2>1 DEF Unused
  <2>3. UnusedRows'
    BY <2>1, <2>2 DEF RowsInv, UnusedRows
  <2>4. QuestMirrorsLead'
    BY <2>1, <2>2 DEF RowsInv, QuestMirrorsLead, Unused
  <2>5. OneLeadPerKeyAndIdentity'
    BY <2>1, <2>2 DEF RowsInv, OneLeadPerKeyAndIdentity, Unused, Active
  <2> QED
    BY <1>1, <2>3, <2>4, <2>5 DEF RowsInv
<1>5. CASE UNCHANGED <<lead, quest>>
  BY <1>1, <1>5 DEF RowsInv, UnusedRows, QuestMirrorsLead, OneLeadPerKeyAndIdentity, Unused, Active
<1>6. CASE Next
  <2>1. \/ \E f \in Forms : FormWrites(f)
        \/ \E l \in Leads, u \in Users, k \in Keys, i \in Identities, s \in StageInputs \cup {"new"} :
              CreateLead(l, u, k, i, s)
        \/ DeactivateManager
        \/ UNCHANGED <<lead, quest>>
    BY <1>6 DEF Next, FormWrites, OpenForm, CloseForm, Check, ActivateManager
  <2> QED
    BY <2>1, <1>2, <1>3, <1>4, <1>5
<1> QED
  BY <1>5, <1>6 DEF vars

LEMMA RowsStayInOrder == Spec => []RowsInv
<1>1. Init => RowsInv
  BY RowsInit
<1>2. RowsInv /\ [Next]_vars => RowsInv'
  BY RowsNext
<1> QED
  BY <1>1, <1>2, PTL DEF Spec

\* The quest of a lead follows it whichever handler moves or deletes it, and no two leads
\* ever share a request key or, while active, an identity.
THEOREM RowsAgree == Spec => []LeadRowsAgree
<1>1. RowsInv => LeadRowsAgree
  BY DEF RowsInv, LeadRowsAgree
<1> QED
  BY <1>1, RowsStayInOrder, PTL

\* What was decided on a lead stays: a save writes back the decision it saw, everything else
\* that could take one back finds it.
THEOREM DecisionsHold == Spec => DecisionsAreFinal
<1>1. ASSUME RowsInv, [Next]_vars, NEW l \in Leads
      PROVE  /\ lead[l].fit \in FitDecisions => lead'[l].fit = lead[l].fit
             /\ lead[l].research \in {"approved", "rejected"} =>
                  lead'[l].research = lead[l].research
  <2>1. ASSUME NEW f \in Forms, FormWrites(f)
        PROVE  /\ lead[l].fit \in FitDecisions => lead'[l].fit = lead[l].fit
               /\ lead[l].research \in {"approved", "rejected"} =>
                    lead'[l].research = lead[l].research
    BY <1>1, <2>1, WriteEffect DEF RowsInv
  <2>2. ASSUME NEW m \in Leads, NEW u \in Users, NEW k \in Keys, NEW i \in Identities,
               NEW s \in StageInputs \cup {"new"}, CreateLead(m, u, k, i, s)
        PROVE  /\ lead[l].fit \in FitDecisions => lead'[l].fit = lead[l].fit
               /\ lead[l].research \in {"approved", "rejected"} =>
                    lead'[l].research = lead[l].research
    <3>1. Unused(m) => lead[m].fit = "not_started" /\ lead[m].research = "draft"
      BY <1>1 DEF RowsInv, UnusedRows, NoLead, NewLead
    <3> QED
      BY <1>1, <2>2, <3>1, InsertEffect DEF RowsInv, FitDecisions
  <2>3. CASE DeactivateManager
    BY <1>1, <2>3, DeactivationEffect DEF RowsInv
  <2> QED
    BY <1>1, <2>1, <2>2, <2>3, NextSplit DEF vars
<1>2. RowsInv /\ [Next]_vars => \A l \in Leads :
        /\ lead[l].fit \in FitDecisions => lead'[l].fit = lead[l].fit
        /\ lead[l].research \in {"approved", "rejected"} => lead'[l].research = lead[l].research
  BY <1>1
<1> QED
  BY <1>2, RowsStayInOrder, PTL DEF Spec, DecisionsAreFinal
=============================================================================
