--------------------------------- MODULE Intake ---------------------------------
(***************************************************************************)
(* How leads come in without a person typing them: a webhook that other    *)
(* systems deliver to (app/services/webhook_intake.py) and CSV files that  *)
(* are previewed and then imported (app/services/lead_csv_import.py).      *)
(* Both call create_lead with a request key of their own.  Both routes are *)
(* coroutines that do not pause once they have read their request, so they *)
(* never overlap each other; the other routes run beside them.             *)
(***************************************************************************)
EXTENDS Naturals, Sequences, FiniteSets

CONSTANTS
  IntakeLeads,   \* ids of leads, given out in order
  NoSourceKey,   \* the request key of a lead that was typed in: one no import uses
  Companies,     \* identities of leads, as the dedupe key tells them apart
  Tokens,        \* webhook tokens
  ExternalIds,   \* ids the other system gives its deliveries
  BadPayload,    \* a payload, or a row, with a field that is missing or malformed
  Files,         \* CSV files: sequences of rows
  IntakeRooms    \* bounds, one record chosen at the start: leads, tokens, files

IntakeStages == {"new", "contacted"}
CsvRow == [company : Companies, stage : IntakeStages] \cup {BadPayload}

ASSUME IntakeAssumption ==
  /\ IntakeLeads \subseteq Nat \ {0} /\ IsFiniteSet(IntakeLeads)
  /\ \A file \in Files : file \in Seq(CsvRow) /\ Len(file) > 0
  /\ \A t \in Tokens, x \in ExternalIds : NoSourceKey # <<"webhook", t, x>>
  /\ \A file \in Files : \A n \in DOMAIN file : NoSourceKey # <<"csv", file, n>>
  /\ IntakeRooms \subseteq [leads : SUBSET IntakeLeads, tokens : SUBSET Tokens, files : SUBSET Files]

VARIABLES
  token,       \* webhook_intake_tokens
  event,       \* webhook_intake_events, by token and external id
  intakeLead,  \* leads: what create_lead compares
  delivery,    \* the delivery that was authenticated and not ingested yet
  upload,      \* the preview page in somebody's browser
  report,      \* history: what an import said of each row, in the state after it
  intakeRoom   \* the record of IntakeRooms this behaviour has

intakeVars == <<token, event, intakeLead, delivery, upload, report, intakeRoom>>

NoEvent == [outcome |-> "none", lead |-> 0]
NoIntakeLead == [status |-> "none", key |-> NoSourceKey, company |-> BadPayload, stage |-> "new"]
NoDelivery == [token |-> "none"]
NoUpload == [file |-> <<>>, valid |-> {}, known |-> {}, fresh |-> FALSE]
NoReport == [rows |-> <<>>, upload |-> NoUpload]

IntakeInit ==
  /\ token = [t \in Tokens |-> "none"]
  /\ event = [t \in Tokens |-> [x \in ExternalIds |-> NoEvent]]
  /\ intakeLead = [l \in IntakeLeads |-> NoIntakeLead]
  /\ delivery = NoDelivery
  /\ upload = NoUpload
  /\ report = NoReport
  /\ intakeRoom \in IntakeRooms

Stored(leads) == {l \in IntakeLeads : leads[l].status # "none"}
ActiveLeads(leads) == {l \in IntakeLeads : leads[l].status = "active"}
OfCompany(leads, company) == {l \in ActiveLeads(leads) : leads[l].company = company}

\* _get_lead_by_request_key
WithKey(leads, key) == {l \in Stored(leads) : key # NoSourceKey /\ leads[l].key = key}

\* The bound of the model: create_lead is called when there are rows left.
Space(leads, n) == Cardinality(intakeRoom.leads \ Stored(leads)) >= n

\* create_lead: the leads after it, what it answered, and the lead in the answer.
Created(leads, key, company, stage) ==
  LET mine == WithKey(leads, key)
      same == OfCompany(leads, company)
      next == CHOOSE l \in IntakeLeads \ Stored(leads) :
                \A m \in IntakeLeads \ Stored(leads) : l <= m
      answer(outcome, l) == [leads |-> leads, outcome |-> outcome, lead |-> l]
  IN  IF \E l \in mine : leads[l].status = "deleted" \/ leads[l].stage # stage
      THEN answer("error", 0)
      ELSE IF mine \cup same # {}
      THEN answer("duplicate", CHOOSE l \in IF mine # {} THEN mine ELSE same : TRUE)
      ELSE [leads |-> [leads EXCEPT ![next] = [status |-> "active", key |-> key,
                                               company |-> company, stage |-> stage]],
            outcome |-> "created", lead |-> next]

\* The page in the browser does not know of this change.
Outdated == upload' = [upload EXCEPT !.fresh = FALSE]

-----------------------------------------------------------------------------
(* What other requests do.                                                 *)

IssueToken(t) ==
  /\ token[t] = "none"
  /\ token' = [token EXCEPT ![t] = "active"]
  /\ UNCHANGED <<event, intakeLead, delivery, upload>>

\* The condition on the row makes the second of two revocations an error.
RevokeToken(t) ==
  /\ token[t] = "active"
  /\ token' = [token EXCEPT ![t] = "revoked"]
  /\ UNCHANGED <<event, intakeLead, delivery, upload>>

ChangeLeads(leads) ==
  /\ intakeLead' = leads
  /\ Outdated
  /\ UNCHANGED <<token, event, delivery>>

TypeInLead ==
  /\ Space(intakeLead, 1)
  /\ \E company \in Companies :
       LET result == Created(intakeLead, NoSourceKey, company, "new")
       IN  result.outcome = "created" /\ ChangeLeads(result.leads)

\* update_lead: the unique index keeps active leads apart.
RenameLead(l) ==
  /\ l \in ActiveLeads(intakeLead)
  /\ \E company \in Companies :
       /\ OfCompany(intakeLead, company) = {}
       /\ ChangeLeads([intakeLead EXCEPT ![l].company = company])

DeleteIntakeLead(l) ==
  /\ l \in ActiveLeads(intakeLead)
  /\ ChangeLeads([intakeLead EXCEPT ![l].status = "deleted"])

-----------------------------------------------------------------------------
(* The webhook.                                                            *)

\* authenticate_webhook_token, up to the UPDATE that takes the lock.
Deliver(t) ==
  /\ delivery = NoDelivery /\ token[t] = "active"
  /\ \E x \in ExternalIds, company \in Companies \cup {BadPayload} :
       delivery' = [token |-> t, id |-> x, company |-> company]
  /\ UNCHANGED <<token, event, intakeLead, upload>>

\* _record_event
EventOf(outcome, l) ==
  [outcome |-> IF outcome = "error" THEN "rejected" ELSE outcome, lead |-> l]

\* What create_lead makes of the delivery.
Ingested(t, x) ==
  IF delivery.company = BadPayload
  THEN [leads |-> intakeLead, outcome |-> "error", lead |-> 0]
  ELSE Created(intakeLead, <<"webhook", t, x>>, delivery.company, "new")

RecordEvent(t, x, result) ==
  /\ intakeLead' = result.leads
  /\ event' = [event EXCEPT ![t][x] = EventOf(result.outcome, result.lead)]
  /\ IF result.leads = intakeLead THEN UNCHANGED upload ELSE Outdated

\* Mutant: the event is not looked up first, and is replaced.
IngestReplacing ==
  /\ delivery # NoDelivery /\ Space(intakeLead, 1)
  /\ RecordEvent(delivery.token, delivery.id, Ingested(delivery.token, delivery.id))
  /\ delivery' = NoDelivery
  /\ UNCHANGED token

\* ingest_lead_payload: a delivery that was seen gets the answer it had; another
\* leaves its lead and its event in one transaction, a rejected one its event.
Ingest ==
  /\ delivery # NoDelivery /\ Space(intakeLead, 1)
  /\ LET t == delivery.token
         x == delivery.id
     IN  IF event[t][x] = NoEvent
         THEN RecordEvent(t, x, Ingested(t, x))
         ELSE UNCHANGED <<event, intakeLead, upload>>
  /\ delivery' = NoDelivery
  /\ UNCHANGED token

\* The process stops, or the database stays busy: nothing is left.
LoseDelivery ==
  /\ delivery # NoDelivery /\ delivery' = NoDelivery
  /\ UNCHANGED <<token, event, intakeLead, upload>>

-----------------------------------------------------------------------------
(* CSV files.                                                              *)

CsvKey(file, n) == <<"csv", file, n>>

\* preview_leads_from_csv: the rows it offers to import.  The others are
\* malformed, or repeat a row above or a lead.
OfferedRows(file) ==
  {n \in DOMAIN file :
     /\ file[n] # BadPayload
     /\ OfCompany(intakeLead, file[n].company) = {}
     /\ \A m \in 1..(n - 1) : file[m] # BadPayload => file[m].company # file[n].company}

PreviewFile(file) ==
  /\ delivery = NoDelivery
  /\ upload' = [file |-> file, valid |-> OfferedRows(file), fresh |-> TRUE,
                known |-> {n \in DOMAIN file : WithKey(intakeLead, CsvKey(file, n)) # {}}]
  /\ UNCHANGED <<token, event, intakeLead, delivery>>

\* One row; a person who is not the owner cannot choose the stage.
ImportRow(before, file, n, staff) ==
  LET result == Created(before.leads, CsvKey(file, n), file[n].company,
                        IF staff THEN "new" ELSE file[n].stage)
  IN  [leads |-> result.leads, rows |-> Append(before.rows, result.outcome)]

\* import_leads_from_csv: the rows in their order, in one transaction.  A row that
\* fails is reported, and the others stay.
Imported(file, selected, staff) ==
  LET upTo[n \in 0..Len(file)] ==
        IF n = 0 THEN [leads |-> intakeLead, rows |-> <<>>]
        ELSE IF n \in selected THEN ImportRow(upTo[n - 1], file, n, staff)
        ELSE [upTo[n - 1] EXCEPT !.rows = Append(@, "skipped")]
  IN  upTo[Len(file)]

\* The form of the preview page, with some of the rows it offers; it can be sent
\* again.
ImportFile(staff) ==
  /\ delivery = NoDelivery /\ Space(intakeLead, Cardinality(upload.valid))
  /\ \E selected \in (SUBSET upload.valid) \ {{}} :
       LET result == Imported(upload.file, selected, staff)
       IN  /\ intakeLead' = result.leads
           /\ report' = [rows |-> result.rows, upload |-> upload]
  /\ Outdated
  /\ UNCHANGED <<token, event, delivery>>

IntakeStep ==
  \/ \E t \in intakeRoom.tokens : IssueToken(t) \/ RevokeToken(t) \/ Deliver(t)
  \/ TypeInLead
  \/ \E l \in IntakeLeads : RenameLead(l) \/ DeleteIntakeLead(l)
  \/ Ingest \/ LoseDelivery
  \/ \E file \in intakeRoom.files : PreviewFile(file)

IntakeNext ==
  /\ \/ IntakeStep /\ report' = NoReport
     \/ \E staff \in BOOLEAN : ImportFile(staff)
  /\ UNCHANGED intakeRoom

IntakeSpec == IntakeInit /\ [][IntakeNext]_intakeVars

-----------------------------------------------------------------------------
(* Properties.                                                             *)

\* The variables have their types, and an event names a lead that is there unless
\* it says the delivery was rejected.
IntakeTypeOK ==
  /\ token \in [Tokens -> {"none", "active", "revoked"}]
  /\ \A t \in Tokens, x \in ExternalIds :
       /\ event[t][x].outcome \in {"none", "created", "duplicate", "rejected"}
       /\ event[t][x].lead \in
            IF event[t][x].outcome \in {"created", "duplicate"} THEN Stored(intakeLead) ELSE {0}
       /\ token[t] = "none" => event[t][x] = NoEvent
  /\ upload.valid \subseteq DOMAIN upload.file

\* A delivery that is repeated, at any time and with any contents, makes no second
\* lead, and the first answer stays: the event of a delivery says created exactly
\* when the lead with its key is there, and names that lead.
EventsAndLeadsAgree ==
  \A t \in Tokens, x \in ExternalIds :
    WithKey(intakeLead, <<"webhook", t, x>>) =
      IF event[t][x].outcome = "created" THEN {event[t][x].lead} ELSE {}

\* A row of a file, or a delivery, becomes one lead for ever: a file that is
\* imported again does not bring back what was deleted.  A company has one active
\* lead, whichever way it came.
OneLeadPerSource ==
  \A l, m \in Stored(intakeLead) :
    l # m =>
      /\ intakeLead[l].key = intakeLead[m].key => intakeLead[l].key = NoSourceKey
      /\ {l, m} \subseteq ActiveLeads(intakeLead) => intakeLead[l].company # intakeLead[m].company

\* The preview is kept: when nothing was changed since, each row it offers and the
\* user selects becomes a lead, unless the same row became one before.
PreviewIsKept ==
  report.upload.fresh =>
    \A n \in report.upload.valid \ report.upload.known :
      report.rows[n] \in {"created", "skipped"}

\* Whatever comes in twice, late or by another way makes one lead, and what was
\* answered or previewed holds.
IntakeAgrees == EventsAndLeadsAgree /\ OneLeadPerSource /\ PreviewIsKept
================================================================================
