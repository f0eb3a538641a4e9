# A TLA+ verification of MARK-OS

MARK-OS is a FastAPI application over one SQLite file: a personal "quest" and
memory system, a CRM for two organizations, the commercial records that follow
from it, and an AI chat with a budget. Request handlers run in worker threads,
each with one connection that is one transaction (`app/database.py`), so the
behaviours that are hard to test are interleavings of transactions, lookups
made before a lock is taken, retries of a submission, exceptions that commit
or roll back half of a handler's work, the server dying in between, and long
sequences of legal calls.

## The system

One Python process serves FastAPI routes over one SQLite file. Everything that
lasts is in that file, except backups and logs. Components, what they keep, and
what must be true of them (sources are below `app/`):

| component | state | operations | interacts with | what is hard | what makes it correct |
|---|---|---|---|---|---|
| **chat turns** `routes/chat.py`, `services/chat_orchestrator.py`, `chat.py`, `context_builder.py`, `intent_router.py` | `chat_sessions`, `chat_messages` | submit a message; create, archive, delete a session | audit, gateway, memory, quests and goals (as context) | retries under a request key, error paths that commit half a turn, a lock held through a network call | a turn is whole, absent, or left open by an error its browser was shown; a closed turn stays as it is |
| **budgeted gateway** `services/provider_gateway.py` | none of its own; sums over `agent_steps` | check the budget, call the provider, record the step | audit, the provider | check and charge are far apart, midnight between them | caps are kept by any number of handlers |
| **agent audit** `services/agent_audit.py` | `agent_runs`, `agent_steps` | open a run, set its context, append a step, finalize | chat | idempotent appends, totals derived from rows | steps are numbered without gaps, a finalized run never changes |
| **connections** `database.py`, `sqlite.py` | the write lock | open, commit, roll back | everything | lookups before the lock | one writer; commit on return, rollback on exception |
| **quests** `services/quests.py`, `gamification.py`, `routes/quests.py` | `tasks`, `quest_updates`, `xp_ledger`, `game_state`, `game_history`, `timeline_events` | create, change status, log progress, complete | leads (each lead has a quest) | forms submitted twice, totals computed from stale reads | a quest pays once; level, total and ledger agree |
| **leads** `services/leads.py`, `lead_*_workflow.py`, `relationship_manager.py` | `leads` and their quests | create, research, submit, review, approve outreach, move through the pipeline, qualify, assign a manager, edit, delete | accounts, quests, activities, webhooks | forms that are minutes old, permission checked before the lock | nothing unseen is overwritten; approvals hold; roles keep to their leads |
| **lead activities** `services/lead_activities.py` | `lead_activities` | log, correct, delete, restore | leads | corrections merged from a stale read | follow-ups have somebody responsible; authors and contact records survive |
| **accounts and sessions** `services/team_users.py`, `account_security.py`, `auth.py` | `users`, sessions, login attempts | sign in and out, change a password, deactivate | leads (deactivation takes them away) | revocation racing requests in flight | no session or lead outlives a change of the account, but for a request the change overtook; a click ends |
| **memory** `services/memory.py` | `memories`, `memory_candidates`, audit events | propose, accept, reject, revise, archive | chat, audit | two acceptances for one key | one active memory per key, versions in order, an audit event for what happened |
| **check-ins** `routes/checkins.py` | `checkins`, `directions` | create, edit, delete | quests (directions) | a running balance rewritten by deltas | the balance is the sum of the movements |
| **proposals, delivery, billing** `services/proposals.py`, `client_delivery.py`, `billing.py` | proposals, clients, engagements, invoices, payments, costs | draft to decision, onboard, deliver, bill, void | leads | row versions and status guards across five tables | status machines, one client per lead, totals leave voided payments out |
| **webhook and CSV intake** `services/webhook_intake.py`, `lead_csv_import.py` | tokens, events | issue, revoke, deliver; preview, import | leads | redelivery, files imported again, previews that are old | one lead per delivered event and per row; answers and previews hold |
| **templates, company home** `services/outreach_templates.py`, `pendang_company.py` | templates with an approval, knowledge entries, the profile | create, edit, approve, archive; seeds added at every start | leads (a manager sends a template) | forms that are old, seeds that meet edited rows | what is approved is what was seen; the server starts |
| **backups** `services/database_backup.py`, `tools/` | a directory of files | back up, retain, restore, check | the live file | overlapping jobs without a lock, kills, disk errors | a good backup survives; a restore is sound |
| **derived views** director, insights, notifications, queues, exports, pages | none | reads | everything | nothing that changes state | not a target |
| **schema, migrations, verifiers** `db/`, `tools/verify_*` | the schema | run once at start | everything | one-off data rewrites | constraints are used in the models that rely on them |

`PROJECT.json` has the same list by source file, and the foremost hazards at their lines.

## Plan

The order was the most important behaviour first. All modelling steps are done, and
every safety property of the runs is a theorem.

| step | modules | questions | proofs in |
|---|---|---|---|
| 1 | `SpendLedger`, `ChatTurn`, abstract `TurnLedger` | budget, retries, whole turns, refinement, liveness | `ChatTurn_proofs`: all but the liveness |
| 2 | `Backups` | retention under overlap, faults, restore | `Backups_proofs` |
| 3 | `Quests` | double submits, stale totals | `Desk_proofs` |
| 4 | `Leads` | version guards, approvals, roles | `Leads_proofs` |
| 5 | `Memory`, abstract `MemoryRegister` | overlapping decisions, the trail, refinement | `Memory_proofs` |
| 6 | `Proposals`, `Delivery`, `Billing`, `Library` | status machines and versions checked before the lock | `Commercial_proofs` |
| 7 | `ChatAudit`, `Checkins` | derived columns from stale reads | `Desk_proofs` |
| 8 | `Access`, `Accounts`, `LeadActivities`, `Intake` | revocation against requests in flight, retries, several ways in | `Staff_proofs` |

Beyond these: leads created by a manager or with an assignee, a second workspace
beside the first in `Leads`, the lead as an atomic compare-and-set row (an abstract
specification whose two halves are `VersionNamesContent` and `NoUnseenOverwrite`), and
bounded checks of the partitions that the read-only queues promise.

## How the runs are built

A module describes one component with variables and names of its own. Components
that share no table a step of both writes are checked together: the MC module has a
variable `focus`, chosen once, that says which of its modules a behaviour is about, and
the others keep their initial state. `MCCommercial`, `MCDesk` and `MCStaff` are built so.
Nothing is lost by it, since a step of one cannot disturb the other; it keeps the
runs few and their questions whole.

Where a single bound would be too large or a case too rare, the bounds are a *room*: a
record of limits chosen in `Init` from a small set that the MC module lists, each room large
in one direction (many rows, or many versions of one row). The theorems hold for every set
of rooms. The limits appear in guards only, on actions that create a row or raise a version
(`MCLeads` states them beside `Next`).

Some properties hold only of requests that do not overlap. How many overlap is a variable
too (`workers`, `atOnce`, `deliverers`, the submitters and desks of a room), chosen once; such a
property names the number in its premise, and its comment says what goes wrong without.

The property a configuration names is a conjunction of named parts, and a sentence
over it says what the parts add up to. Every part can be checked alone.

Deadlock is not checked anywhere but in `chat_live` and `chat_turn`: forms run out, and
the bounds stop the models.

## Chat turns and the AI budget

### The code

`POST /chat/{id}/messages` (`app/routes/chat.py`) calls `send_chat_message`
(`app/services/chat_orchestrator.py`): save the user message under the form's
request key, open an audit run (`agent_audit.create_agent_run`), return early
if the run is over (`already_processed`), decide whether the text needs the
model (`route_intent`), record the context (`set_agent_run_context`), ask the
budgeted gateway (`provider_gateway.request_ai_completion`) which appends one
`ai_call` step, save the reply, finalize the run.

Three facts shape the behaviour:

* SQLite has one write lock. It is taken by the first INSERT or UPDATE of a
  transaction, even one that fails on a unique index or matches no row, and is
  kept to the end, the provider call included. Reads before it see what is
  committed.
* The route catches `ValueError` **inside** `with get_db()`, so the turn is
  committed as far as it got. Every other exception rolls back.
* The spend of a day or month is a SUM over `ai_call` steps; there is no
  counter that could be locked.

### The modules

| module | what it is |
|---|---|
| `SpendLedger` | prices, the SUM and COUNT over `ai_call` steps, `check_budget`. No state. |
| `ChatTurn` | the session under concurrent handlers, one action per database access or external call |
| `TurnLedger` | the abstract specification: every turn is settled in one indivisible step, billed at most once and only within the caps |
| `ChatTurnClaims` | claims of comments and `PROJECT.md` that the code does not keep |
| `MCChatTurn` | the symmetry for TLC |
| `ChatTurn_proofs` | theorems, those about the sums of `SpendLedger` first |

`db` is the committed database and `wdb` the image the lock holder writes.
A row is addressed by its turn: the request key when there is one, else the
request. `form`, `call` and `pc` are the locals of the handlers, `placed` is a
history variable (provider calls placed for a turn), `today` the day
`CURRENT_TIMESTAMP` falls on, `environment` what is wrong with the environment of the
server process: a setting is missing, `OPENAI_BASE_URL` has no scheme, or `OPENAI_MODEL`
is longer than an audit step takes. `load_provider_config` notices only the first.

Guards and error paths kept: the lookup before the INSERT and the second lookup
after an IntegrityError; the early return of a duplicate run; the idempotent
append of a step (`_same_step_append`) and its ValueError; the three derived-key
lengths; busy_timeout on every wait for the lock; a provider error that is
turned into a `ProviderCallError` and one that is not; the ValueErrors of the gateway,
which are an address without a scheme (`provider_gateway.py:255`, outside the `try`), a
model name too long, and a count of tokens that `append_agent_step` refuses; and an answer
that SQLite cannot store. Message texts, intents and token estimates are small sets.

### Properties

* `SingleWriter`, `WithinBudget`: the budget check and the charge are two steps
  with a provider call (and perhaps midnight) between them; the write lock
  taken by `set_agent_run_context` is what makes them safe.
* `TurnsExplained`: what other connections see of a turn is nothing, all of it, or what a
  ValueError of the gateway or of saving the answer left open, for which some browser was
  shown the error (`WholeTurns`, of keys the page can generate and of no key); the reply is
  the one its audit step accounts for (`ReplyMatchesStep`, of every key); and a second
  provider call for one key needs an earlier attempt that called in vain, because it was
  rolled back or its answer refused (`CallsExplained`, of keys the page can generate).
  Timeouts, crashes and lost locks leave nothing of a turn, and a message that does not
  need the model is never left open.
* `CompletedTurnsFrozen`: retries of a turn that is closed.
* `ImplementsTurnLedger`: refinement of `TurnLedger`.
* `SubmissionsEnd`: every request ends (`EveryRequestEnds`) and the lock is given back
  (`LockReleased`), under weak fairness of each handler. A worker thread is never starved by the program; every wait is
  bounded (busy_timeout 30 s, socket timeout), and each bound is an action
  (`LockTimeout`, `ProviderTimesOut`) of the handler.

### Runs

| run | bounds | shows |
|---|---|---|
| `chat_turn` | 3 submissions, one key and no key, 2 texts, 3 days, 2-day months, 1 restart; an address with a scheme or none; estimates of 1 and 3 tokens and an answer of 1, each counted at 1 unit, so a worst case of 2 or 4 against caps of 3 a day, 4 a month and 2 calls a day; the provider may count 1 token more than estimated | all safety properties and the refinement |
| `chat_live` | 2 submissions with keys of all lengths and the blank key, an environment that is right or has one of the three defects, 2 provider errors, 1 restart, fairness | `SubmissionsEnd`; what survives when derived keys do not fit: `SingleWriter`, `TurnsExplained` |
| `chat_stranded` | 2 submissions | a documented claim that fails: `EveryOutcomeFinalizes` |

Three submissions are the least that show a retry racing an original while a
third turn competes for the budget. The caps are small enough that each of the
four refusals of `check_budget` occurs: the estimate of 3 is the single request dearer
than the day. A fit that is exact occurs, and so does a cap passed by the token
that was counted beyond the estimate.

The runs stop at 2,413,340 (`chat_turn`) and 92,289 (`chat_live`) distinct states.

### Findings

* A request key of 246 or 247 characters leaves its run `running` for ever
  (`EveryOutcomeFinalizes`): `<key>:assistant` is refused after the provider call, and
  the route commits what is there. This is the finding the run `chat_stranded` shows.

Three more disagreements are behaviours of the model:

* The ValueErrors of the gateway leave a turn open under any key: an address without a
  scheme before the call, a refused count after it. The message and a running run are
  committed, no step is recorded, and a call that was paid for is not in the
  spend. `provider_gateway.py:294` says that it "always appends exactly one `ai_call`
  step", and `chat_orchestrator.py:150` that every outcome finalizes the run. A retry under
  the same key takes the turn up again; `LeftOpen` says what is left.

* A socket timeout while the response is read is no `URLError`
  (`provider_gateway.py:267`): the whole turn is rolled back and the answer is a 500,
  although `chat_orchestrator.py:150` turns provider failures into a reply.
* The worst case of `check_budget` is computed from an estimate of the input tokens
  that the provider's own count may exceed. `WithinBudget` states the bound the code
  keeps: the caps plus the excess of one call.

## Database backups

`Backups` models `create_sqlite_backup`, its retention, `restore_sqlite_backup` and
`check_backup_status` (`services/database_backup.py`), one action per file
operation. The scheduled command and the owner's download route run jobs in one
directory without a lock; a restore runs beside them.

A file is named by the job that made it and its content is the version of the live
database it holds, or `Torn`. `bad` of a room are versions that violate a foreign key
(`PRAGMA foreign_key_check` refuses them). `mtime` is the modification time of a file, a
number of its copy: `os.replace` keeps the time of the copy. `seen` holds what a job read before:
the verdict of its final verification, and the directory listing it sorts and removes
later. `Fault` raises at any file operation of a job and follows the except clause,
`Kill` and `KillRestore` end a process, `Rot` damages a file.

| property | what could break it |
|---|---|
| `RetentionSafe` | `CompleteSurvives`: after a success there is a restorable backup at every moment, as long as jobs do not overlap or fewer files than are kept can be without a manifest (`FewWithoutManifest`); `NewestKept`: when all jobs that started have succeeded, exactly the newest are left, each with its manifest |
| `NoFalseAlarm` | the status check, beside jobs that are between two file operations |
| `RestoreSound` | a backup damaged or removed between its check and its copy: what a restore leaves at the destination passes verification |

Run `backups` (3,386,279 states), 3 jobs, in three rooms: two at a time on a healthy disk,
keeping 2 and keeping 1; and one after the other, keeping 1, with a live version that violates
a foreign key, one kill, one failing file operation, one damaged file, and restores of every
kind. Three jobs are the least with a file to remove, one to keep and one being written.
`CompleteSurvives` and `NoFalseAlarm` say nothing once a file was damaged on disk: it
may have been the last.

`CompleteSurvives` needs its premise. Retention counts every backup file
(`database_backup.py:328`), and a file has no manifest from its rename until the manifest
is written. So with `keep_last` 1 and two jobs at a time, the newer file may be without a
manifest while the older, complete one is removed: until the newer job goes on there is
nothing the restore command accepts, and if it is killed there will be nothing.

Three behaviours of the model that no property excludes. A complete backup can be reported as
failed, because retention asks for the modification time of a file that another job has
just removed (`database_backup.py:336`). A job overtaken by `keep_last` others before its
manifest leaves a manifest of a file that is gone (`:345`). The restore's destination may
be missing after a kill between `unlink` and `replace` (`:585`); `RestoreSound` is about
what is there. Not modelled: the age limit of the status check, file names, several prefixes
in one directory, the command line.

## Quests and experience

`Quests` models one person's quests under overlapping requests
(`services/quests.py`, `services/gamification.py`, `routes/quests.py`). A handler
reads in autocommit mode, each SELECT a snapshot of its own; its first UPDATE takes
the write lock and the rest of the handler is alone. So a completion is `ReadQuest`,
`ReadGame`, `ReadAward` and one write, `Complete`, which rolls everything back when the
unique `task_id` of `xp_ledger` refuses the row. A status change is `ReadQuest` and
`ChangeStatus`; an update of progress `ReadQuest` and `UpdateProgress`. `request` holds
the form and what was read of the quest, `seen` the game state that was read.

`workers` is how many requests the server handles at a time, chosen once in `Init`.
With one worker nothing is stale, and the properties marked so say what the code does
then; with three, what survives.

| property | holds |
|---|---|
| `AwardsStand`: `AwardedOnce`, `MinutesAccounted`, `XpNeverInvented` | always |
| `LedgerImmutable` | always |
| `ExperienceExplained`: `LevelExplained` | always |
| `XpTotalIsLedger`, `LevelsRecorded`, also of it | one worker |
| `CompletedStays`, in `FinishedStays` of `MCDesk` | one worker |

Run `desk` checks them with 2 quests, 3 requests, hard (50) and epic (100), 0 or 7
minutes, progress -20, 40 and 150, 1 or 3 workers, from level 1. Two runs refute claims of
the documentation with 2 workers:

| run | bounds | shows |
|---|---|---|
| `quests_lost_xp` | 2 requests, 2 quests | two quests completed at once: both ledger rows stay, the total and level keep one of them |
| `quests_reopened` | 2 requests, 1 quest | a change that read the quest before its completion writes after it and reopens it |

Two completions and a third request show a double submit beside another quest's
completion. Level 1 needs 125 points and no reward is above 100, so one award crosses
one threshold at most; two awards cross the first. Left out: titles, notes and dates,
pages, and quests that belong to a lead, whose routes redirect to the CRM (their table rows
are in `Leads`).

## Leads

`Leads` models the leads of one workspace and the workflows on them
(`services/leads.py`, `lead_research_workflow.py`, `lead_pipeline_workflow.py`,
`lead_qualification_workflow.py`, `relationship_manager.py`, the manager's side of
`team_users.set_user_active`). A form is loaded with the lead's `row_version` and
submitted at any later time.

Handlers come in two kinds. `approve_outreach`, `change_pipeline_stage`,
`update_owner_lead` and `delete_lead` lock first and read after: one step (`Locked`).
Research, review, qualification, the manager and the next action read, check version and
permission, and then write: `Check`, and an action guarded by `Writable`, the WHERE
clause of its UPDATE. Any commit may lie between the two. A refusal at either point
changes no row, and is `CloseForm`, as is a form nobody submits.

Correspondence: `lead` is the table, `managed` that the relationship manager is set,
`identity` all of the content the dedupe key is made from, `edited` that another field
changed (which costs a version of its own), `quest` status and progress of the lead's
quest. `fresh` and `reached` are history variables, read by properties only.

| property | what could break it |
|---|---|
| `VersionNamesContent` | any of a dozen writers that changes a lead and forgets its version |
| `NoUnseenOverwrite` | a write whose WHERE clause does not repeat the version that was checked |
| `ApprovalsStand`: `OutreachMeansApproved`, `ContactedStaysApproved` | research saved, resubmitted or reviewed again after outreach was approved or the lead contacted |
| `RolesKeepToTheirs`: `SourcerKeepsOut`, `ManagerActsOnOwn` | a permission that was true when it was checked |
| `DecisionsAreFinal` | a save that writes back the status it read before a decision |
| `LeadRowsAgree`: `QuestMirrorsLead`, `OneLeadPerKeyAndIdentity` | a writer of one table that misses the other; a creation form sent again after its lead was renamed or deleted |

Run `leads`: 2 leads, 2 forms, 2 keys, 2 identities, the requests for Contacted and Lost as
stages, 621,773 states. The version bound is the one that limits the behaviours, and
`MCLeads` gives it in two rooms: one lead with 5 versions, the shortest history with a
contacted lead (create, submit, review, approve, contact), after which only the theorem
speaks (`ApprovalsHold`); and two leads, the first with 3, the second at its creation, there
to take keys and identities. Deadlock is not checked: the version bound stops the model.

Left out: leads created by a manager or with an assignee, the assignment of
researchers, other workspaces, the contact activity that Contacted records, and the
delegation flag of a manager (he is taken to have it). Bulk submission, which sends no
version, is a batch of one. The manager's account may be deactivated between the check
of `assign_relationship_manager` and its UPDATE, and the lead then belongs to an
inactive account; `Accounts` has that step too and states what holds with one tab.

## Memory

`Memory` models `create_memory`, `revise_memory`, `archive_memory`, the proposal of a
candidate, its acceptance and its review (`services/memory.py`, `routes/memories.py`,
`db/memory.py`). A handler reads in autocommit mode and writes under the lock inside the
savepoint of `_atomic`; so it is its reads, kept in `request`, and one write action that may
meet rows committed since. `memories` and `candidates` are the tables, `trail` the
append-only audit events as a bag. The unique indexes, on the active row of a key and on
key and version, are guards of the write actions; a refusal undoes the savepoint.

* `KeysExplained`: versions of a key are numbered without gaps in the order written,
  however old the maximum that was read; what is active is the newest; the trail
  explains every row, and an accepted candidate is linked to a memory that says what was
  proposed.
* `DecisionsStand`: decisions are never undone, rows are history, the trail only grows.
* `ImplementsRegister`: `MemoryRegister` is a register per key whose version only grows.
  It is implemented by the number of rows of a key and the content of its active row, so
  every commit writes one register as a whole or none.

Run `memory` (1,227,060 states): one key, two contents, two requests with and without a
request key, 3 memories, 2 candidates. Three versions are the least in which a row that is
superseded by a superseded row occurs. Keys are independent but for the choice of a
candidate's, so one is enough.

`memory_decided` refutes `PROJECT.md:758` (decisions are terminal and retries do not
duplicate audit events): of two reviews at once, the second UPDATE finds nothing and its
event is written all the same. A behaviour without a property: an acceptance may be
linked to a memory that was archived since it was read (cf. `PROJECT.md:756`).

## Proposals, delivery, billing, templates and the company home

`MCCommercial` checks four modules in the run `commercial` (976,995 states), each with
two tabs whose forms may be minutes old.

| module | code | properties |
|---|---|---|
| `Proposals` | `services/proposals.py` | `OfferStands`: what is sent is the approved offer, priced and linked |
| `Delivery` | `services/client_delivery.py`, `client_delivery_permissions.py` | `DeliveryStands`: one client per won lead, with an engagement from the start; changes by who may make them when they are made; ends are final; with one worker, items too |
| `Billing` | `services/billing.py`, `db/billing.py` | `BillsAddUp`: references are unique; revenue and costs are what was paid and spent; a report beside which nothing was committed shows the ledger |
| `Library` | `services/outreach_templates.py`, `pendang_company.py`, `db/pendang_company.py` | `LibraryStands`: every start succeeds and brings no second row |
| all but `Delivery` | | `ChangesAreSeen`: nobody writes over what he did not see; decided, settled and cancelled rows are final |

In `Proposals`, `Delivery` and `Billing` a change is a form, a check on rows read before
the lock, and a write guarded by what its WHERE clause repeats. In `Library`
nothing read is written and everything checked is repeated, so a request is one step;
`Restart` is what a start adds to rows that were renamed, drafted or archived.
`everWon`, `banked`, `spent` and the parts of a report are history variables.

Bounds: one proposal with 7 versions, enough for edits on the way from draft to a
decision; two won leads, two clients, two engagements, an item; two invoices,
arrangements and payments and a cost, two references, one amount (sums tell
counted twice from counted once), rates of none and half; three slugs, two of them
seeded, two titles, one seeded, a blank profile among two.

Behaviours a reader may not expect, all kept by the model: a payment form has no
request key, so a form sent twice records two payments; payments of a void invoice still
count; sums add amounts of different currencies; a profitability is three snapshots, so
with commits in between its parts are of different moments; an item's UPDATE carries the
item's version alone, so an engagement may end between check and write; a template that is
edited after its approval stays approved (cf. `PROJECT.md:1938`); an archived template keeps
its slug; a seeded entry that was archived or renamed is back after the next start.

## The desk: chat audit, check-ins, quests

Run `desk` (518,986 states) checks `ChatAudit`, `Checkins` and `Quests` (above).

`ChatAudit` is the session and audit services called by independent requests
(`services/chat.py`, `agent_audit.py`): where `ChatTurn` strings them together in one
transaction, here each call reads without the lock and writes under it. `ChatRowsAgree`: the
time of the last message is that of the newest kept one, steps are numbered without gap or
repeat, totals are those of the steps. `AuditStands`: a run starts from a message that is
visible in an open session, audit rows outlive their chat, a run that ended keeps its
outcome; with one caller an archived session gets no message. `FinishedStays` is this and
`CompletedStays` of the quests. Two rooms: two messages of
a session; a run with three steps, two of which may share a key.

`Checkins` is `routes/checkins.py`: a balance is computed from the newest row, and edits
and deletions shift the later rows. `CheckinsAgree`: one direction each, one check-in per
request key, and, one request at a time and as long as no balance was typed in, every
balance is the sum of the movements up to it (`BalancesAddUp`). Overlapping requests break
the last: two check-ins start from one balance (`:163`), two deletions both shift the later
rows (`:615`). Rooms: three check-ins, or two with two edits, one request at a time; two
requests at once.

## Staff: accounts, activities, intake

Run `staff` (1,368,709 states) checks three modules.

`Accounts`, on `Access`, is one account of each role that the owner changes (deactivate,
reset, roles, memberships, permissions) while its user signs in, browses, changes the
password and signs out. Accounts share no row, so one stands for all. `Access` has the
permission tables of `access_control.py`, pages and forms grouped where the code treats
them alike. The field `proof` of a browser is a history variable: the password was verified since
the last change of the account, or that change overtook the request between the
verification and the UPDATE, or it is older. `AccessFollowsAccount`: whoever is in has a
proof of the first two kinds, and sees nothing but the password page while a new password
is due, so nobody but a request that was overtaken survives a change, and a row of
`auth_sessions` that is inserted after the revocation is no way round it; an
inactive account manages no lead (one owner tab at a time); a click ends after two
redirects at most, whatever changes between them: there the guard, the landing pages and
the tables must agree. `SoleWorkspaceIsUsed`: who has one workspace is never told that he
has none.
Kept by the model: `authenticate_user` and `change_own_password` write by the id alone
(`users.py:98`, `team_users.py:827`), so a sign-in that was verified just before a reset
gets a session after it, and a password change takes the reset back; staff with two active
memberships have no workspace and cannot select
one, which only the owner may (`PROJECT.md:4525`); the contact permission survives a
membership that is revoked and granted again.

`LeadActivities` is the history of one lead: recording, correction, deletion and
restoration by each role while the lead changes hands and accounts are deactivated. A
correction fills what its form leaves out from a row read before the lock.
`HistoryAnswers`: a follow-up always has a responsible person, staff speak for nobody
else, no row loses its author, only he and the owner correct it, under their own name, and a
deleted row keeps its words. Not promised: a person who was responsible may have been
deactivated since, and of two corrections the later replaces the earlier, whichever its
author had read. `StaffAreAnswered` of
`MCStaff` is this and `SoleWorkspaceIsUsed`.

`Intake` is the webhook and the CSV import beside leads that are typed in, edited and
deleted. Both routes are coroutines that do not pause after they have read their request, so
they never overlap each other. The preview, which looks each row of its file up by itself,
is taken as one step. `IntakeAgrees`: an event says "created" exactly when the lead with its
key is there; a row or a delivery becomes one lead for ever; a row the preview offered
becomes a lead if nothing was changed since. Kept by the model: a rejected delivery that is
corrected and sent again is answered "rejected" with 200 (`PROJECT.md:2012`); a delivery
authenticated before a revocation may land after it; the preview calls a row "valid" whose
earlier lead was deleted, and the import then reports an error; so does a file imported
again by staff, whose stage is forced to "new".

Rooms: one browser on all pages through two changes, two on one page through one, two
owner tabs with the contact
permission; the webhook with three leads, files with three leads, both with two. The
files are one that repeats a company around a malformed row, and one of two companies.

## What is proved

Every invariant and every action property of the passing runs is a theorem, and so are
the two refinements: for any number of requests, rows, files, tabs and jobs, any rooms, and
all constants that satisfy the assumption of the module that declares them. The assumptions
say that what is counted or summed over is finite, that row numbers, prices and amounts are
numbers of the right sign, that markers for "nothing" are not among the values they are
distinguished from, that kinds of keys are disjoint, and that the daily budget is at most the
monthly one (`provider_gateway.py:131` lowers it to that). TLC evaluates them on every run.

| module | theorems | of |
|---|---|---|
| `ChatTurn_proofs` | `TypeCorrect`, `WriterIsSingle` | types, the write lock |
| | `BudgetRespected`; `PeriodCompletedStep` | `WithinBudget`; what recording one step does to a SUM and a COUNT |
| | `ClosedTurnsFrozen`, `TurnsAreExplained` | `CompletedTurnsFrozen`, `TurnsExplained` |
| | `ImplementsLedger` | refinement of `TurnLedger` |
| `Backups_proofs` | `BackupsTyped`, `RetentionHolds`, `AlarmsAreTrue`, `RestoresAreSound` | all of `Backups` |
| `Leads_proofs` | `LeadsTyped`, `VersionsNameContent`, `ApprovalsHold`, `NothingUnseenIsOverwritten`, `RolesKeepOut`, `RowsAgree`, `DecisionsHold` | all of `Leads` |
| `Memory_proofs` | `MemoriesTyped`, `KeysAreExplained`, `DecisionsHold`; `ImplementsTheRegister` | all of `Memory`; refinement of `MemoryRegister` |
| `Commercial_proofs` | `ApprovedOffersStand`, `DeliveryHolds`, `LibraryHolds`, `BillsHold` | each module by itself |
| | `CommercialTyped`, `ChangesHold`, `CommercialStands` | the four side by side |
| `Desk_proofs` | `AwardsHold` from `QuestAwardedOnce`, `MinutesAreAccounted`, `NoXpInvented`; `RowsAreImmutable` | what holds of quests for any overlap |
| | `LevelsExplained`, `ExperienceHolds`, `CompletedQuestsStay` | the level curve; what holds one request at a time |
| | `AuditTyped`, `ChatRowsFollow`, `AuditKeeps` | `ChatAudit` |
| | `CheckinsTyped`, `CheckinsFollow` | `Checkins`, the sums of `BalancesAddUp` among it |
| | `DeskTyped`, `FinishedIsKept` | the three side by side |
| `Staff_proofs` | `SessionsFollow`, `OneWorkspaceIsUsed`, `TheHistoryAnswers`, `OneLeadEach` | `Accounts`, `LeadActivities`, `Intake` |
| | `StaffTyped`, `StaffGetTheirDue` | the three side by side |
| `Sums_proofs` | `SumFacts` | sums over finite sets of rows (`Sums`) |

### The arguments

A property says what must be true of rows that are committed. It is seldom inductive,
because it says nothing of what handlers have read and not yet used. The inductive
invariants add exactly that.

* **Budget.** `BudgetInv` adds that the image the lock holder writes is within the caps
  too, and that a handler waiting for the provider still has room for its worst case, in
  the day and in the month. Nobody else can use that room, because the handler holds the
  lock (`SingleWriter`); midnight only makes room.
* **Turns.** `FrozenInv` says that where a run is closed for everybody the writer's image
  agrees with the committed one, and that a handler past `set_agent_run_context` works on
  an open run. `TurnInv` follows the writer: how far it has come with its turn (`Progress`)
  and that it leaves all other rows alone (`OthersSame`), so a commit publishes a
  closed turn or one that was refused, and a rollback returns to turns as they were. Who
  has no lock has seen a turn that is absent, closed or left open. What makes a turn left
  open lasting is that it rests on a submission that was told of the error, and nobody takes
  that back (`LeftOpenKept`). `CallsCounted` gives each provider call to an attempt in vain,
  to the closed run, or to the writer under way (`LostForGood`).
* **Refinement of the turns.** A commit maps to `Settle`, midnight to `NextDay`, everything
  else to a stutter. `OneTurnAtATime` says that the image differs from the committed database
  in one turn at most, and its bill was affordable when it was written.
* **Backups.** Modification times number the copies, so "too many" follows from the time
  of a file alone and not from the moment of the listing: a file a job will remove is one of
  the too many for ever (`DropInv`). With that, `NewestKept` does not depend on the order in which
  jobs list, sort and remove. For `CompleteSurvives`, jobs that do not overlap have the
  newest file (`AloneInv`); jobs that do are few enough (`CountInv` counts the broken, the
  failed and those at work) that a complete file is among those that are kept (`SurviveInv`).
* **Leads.** `VersionInv` says of a form whose version is the row's that everything its
  handler checked is still so (`StillSo`), and of every form what no commit can
  change (`AlwaysSo`). Each writer raises the version, so each commit falsifies the
  premise for every other form on that lead, and `Writable` restores it for its own. `RowsInv`
  adds the quest of a lead, and the keys and identities in use.
* **Memory.** What a handler relies on cannot become false: rows are never removed and keep
  their key, and a maximum that was read is at most the maximum of now (`RequestOK`). Where
  more would be needed, a unique index refuses the insert. For the register, versions without
  a gap make the number of rows of a key its version.
* **Proposals, delivery, billing, library.** A row keeps its version only as long as it keeps
  its content; so what was checked at the form's version holds when the UPDATE finds that
  version. What is final is final because no guard has its status on the left. For
  `BillsAddUp`, history totals and sums of rows change by the same amount in every step, and
  a report beside which nothing was committed has read one state. For `Library`, a seed is
  found by slug or title whatever else was done to its row.
* **Quests.** `AwardInv` adds what handlers remember: an award that was read is still
  there, a quest somebody works on exists and is worth something. A stale "no award" is
  harmless since `Complete` looks again at the unique index. `XpInv`: every total a handler
  has read is at most the sum of the ledger, which only grows. The while loop of `apply_xp` is a
  recursive function, `Climb`; that it has a value for every level and every amount, and
  that climbing twice is climbing once with the sum, is proved by induction
  (`InductionOverNat`, below), and `LevelExplained` follows from it.
  With one request at a time what is read is what is there (`AloneInv`).
* **Chat audit.** `AuditInv`: every call in progress has its rows, the newest message of a
  session is the one its time names, and `RunsAddUp`. The totals of a run are added to under
  the lock, in the statement that adds the step.
* **Check-ins.** `CheckinInv` with `ProgramBalances`: as long as no balance was typed in and
  requests do not overlap, each is the sum of the movements up to its row. `NewestRowAdds`,
  `ChangedRowAdds` and `GoneRowAdds` are the three writers as facts about prefix sums.
* **Accounts.** Of a session, `SessionOK` says per stage what it was given, when its password
  was verified, and that its version is at most the account's; every change that ends
  sessions raises that version, so a session with the account's own was authenticated since,
  or overtaken. `Resolve` is idempotent and `Landing` can be opened, so the second redirect is
  the last. With one tab of the owner, nothing is held without access (`NothingHeldWithoutAccess`).
* **Activities.** A request carries what its checks established (`TaskOK`), a
  correction under way has its author's or the owner's right (`TasksRightful`), and a row that
  is kept speaks for who wrote it last (`RowOK`), whatever became of the lead since.
* **Intake.** `OneEach`: one lead per source key that ever was; `EventsAndLeadsAgree`; and a
  preview that nothing has followed says what the import will do, by induction over the
  rows of the file.
* **Sums and induction.** The induction theorems of the library take a predicate as a
  parameter, which the provers cannot instantiate. `InductionOverNat` is the same for a
  set of numbers, proved from the well-foundedness of Nat; sums over finite sets
  (`SumFacts`), `Climb` and the import rest on it.

The compositions (`CommercialSpec`, `DeskSpec`, `StaffSpec`) imply each module's own
specification, because a step of one leaves the variables of the others as they are. What
was proved of a module by itself then holds beside the others.

Two things the proofs found in the models: the CASE of `Landing` in `Access` had two arms
that overlapped, and `CompleteSurvives` needs the premise above, which the run alone,
keeping two files, did not show.

### Only model-checked

* Liveness (`SubmissionsEnd`): it needs fairness and ENABLED, which are out of this prover's
  reach.
* The four refuted claims are counterexamples of TLC by nature.

No module declares a RECURSIVE operator: recursion is in functions, which exist for every
argument only if that is proved, as it is for `Climb` and the import.

## What is not modelled, and why

* Views, queues, exports, insights, notifications and the director read and change nothing;
  goals are rows of one user without a rule. The queues promise partitions of the leads that
  could be checked over bounded tables.
* Playbooks are read by the program and written by a command-line import.
* Operations monitoring, pages, styles, logs and the release verifiers are input and output.
* Schema and migrations run once, alone, at start; constraints are in the modules that
  rely on them, and the seeds of templates and the company home are in `Library`.
* Of modelled parts: titles and edits of chats, `set_agent_run_context` and the request
  key of a run in `ChatAudit` (both are in `ChatTurn`); the ranking inside the context builder;
  failed sign-in counts, hashing, audit events and the bootstrap of the first owner; the
  family migrations of workspaces; leads created by a manager or with an assignee, the
  assignment of researchers and a second workspace in `Leads`; parsing of files and texts.

## Running it

    tlc -config Leads.cfg MCLeads.tla
    tlapm Leads_proofs.tla

The runs take up to four minutes each, the proofs of a module some minutes.

Every run of `PROJECT.json` names its module and configuration. Definitions that begin
with a comment "Mutant" are variants of the definition after them: each is a
plausible mistake in the code, and a property the configuration checks fails with it.
