--------------------------------- MODULE MCStaff --------------------------------
(***************************************************************************)
(* The people around the CRM, in one run: accounts and their sessions, the *)
(* activity history of a lead, and how leads come in.  They are given no   *)
(* table in common, so a behaviour is one of one of them: focus says       *)
(* which, and the others keep their initial state.                         *)
(***************************************************************************)
EXTENDS Accounts, LeadActivities, Intake, TLC

VARIABLE focus  \* the module this behaviour is about

staffVars == <<accountVars, activityVars, intakeVars, focus>>

\* The modules that are not in focus start with their first values.
OneOfThem ==
  /\ focus # "accounts" => /\ account.role = "owner"
                           /\ accountRoom = CHOOSE r \in AccountRooms : TRUE
  /\ focus # "intake" => intakeRoom = CHOOSE r \in IntakeRooms : TRUE

StaffInit ==
  /\ focus \in {"accounts", "activities", "intake"}
  /\ AccountInit /\ ActivityInit /\ IntakeInit /\ OneOfThem

StaffNext ==
  /\ \/ focus = "accounts" /\ AccountNext /\ UNCHANGED <<activityVars, intakeVars>>
     \/ focus = "activities" /\ ActivityNext /\ UNCHANGED <<accountVars, intakeVars>>
     \/ focus = "intake" /\ IntakeNext /\ UNCHANGED <<accountVars, activityVars>>
  /\ UNCHANGED focus

StaffSpec == StaffInit /\ [][StaffNext]_staffVars

\* One browser on every page through two changes of the account; two browsers on
\* one page through one change; two tabs of the owner, and the contact permission.
MCAccountRooms ==
  {[desks |-> 1, browsers |-> 1, pages |-> {"home", "crm", "relationship-manager", "pendang"},
    version |-> 3, contact |-> {}],
   [desks |-> 1, browsers |-> 2, pages |-> {"crm"}, version |-> 2, contact |-> {}],
   [desks |-> 2, browsers |-> 0, pages |-> {}, version |-> 2, contact |-> {"pendang"}]}

\* Internal research, with and without a follow-up and someone responsible for it, and
\* a contact.
Form(type, channel, performer, responsible, followUp) ==
  [type |-> type, channel |-> channel, performer |-> performer, responsible |-> responsible,
   followUp |-> followUp]

MCOffered ==
  {Form("research", "internal", "sourcer", Nobody, FALSE),
   Form("research", "internal", "sourcer", Nobody, TRUE),
   Form("research", "internal", "sourcer", "sourcer", TRUE),
   Form("research", "internal", "owner", "manager", TRUE),
   Form("contact", "outside", "manager", Nobody, FALSE)}

CsvLine(company, stage) == [company |-> company, stage |-> stage]

\* A file that repeats a company around a malformed row, and one of two companies.
Repeating == <<CsvLine("a", "contacted"), BadPayload, CsvLine("a", "new")>>
TwoCompanies == <<CsvLine("b", "contacted"), CsvLine("a", "new")>>
MCFiles == {Repeating, TwoCompanies}

\* The webhook, the files, and both with fewer leads.
MCIntakeRooms ==
  {[leads |-> IntakeLeads, tokens |-> Tokens, files |-> {}],
   [leads |-> IntakeLeads, tokens |-> {}, files |-> Files],
   [leads |-> IntakeLeads \ {3}, tokens |-> Tokens, files |-> {TwoCompanies}]}

\* Browsers, the owner's tabs and the requests of the history have the same names.
StaffSymmetry == Permutations(Browsers)

\* The tables of the three modules keep their types and references.
StaffTypeOK == AccountTypeOK /\ ActivityTypeOK /\ IntakeTypeOK

\* Staff get their due: what one of them wrote in the history nobody changes but himself
\* and the owner, and who has one workspace is let in.
StaffAreAnswered == HistoryAnswers /\ SoleWorkspaceIsUsed
================================================================================
