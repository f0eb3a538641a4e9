------------------------------- MODULE ChatTurn -------------------------------
(***************************************************************************)
(* One chat session of MARK-OS served by concurrent request handlers.      *)
(*                                                                         *)
(* Every POST /chat/{id}/messages (app/routes/chat.py) runs in a worker    *)
(* thread with a connection of its own, which is one transaction           *)
(* (app/database.py).  The handler calls send_chat_message                 *)
(* (app/services/chat_orchestrator.py), which saves the user message,      *)
(* opens an audit run, answers from fixed text or through the budgeted     *)
(* provider gateway, saves the reply and closes the run.                   *)
(*                                                                         *)
(* SQLite lets one connection write: the write lock is taken by the first  *)
(* INSERT or UPDATE and kept to the end of the transaction, and reads      *)
(* before it see what is committed.  `db` is the committed database,       *)
(* `wdb` the image the lock holder is writing.  A ValueError is caught     *)
(* inside the `with get_db()` block, so it COMMITS what the turn has       *)
(* written so far; any other exception rolls back.                         *)
(*                                                                         *)
(* Rows are addressed by the turn they belong to: the request key when     *)
(* there is one, else the request itself.                                  *)
(***************************************************************************)
EXTENDS SpendLedger

CONSTANTS
  Requests,        \* submissions of the message form, retries included
  ShortKeys,       \* request keys of at most 245 characters
  MidKeys,         \* of 246 or 247: key and key:ai_call fit, key:assistant does not
  LongKeys,        \* of 248 to 255: neither key:ai_call nor key:assistant fits
  BlankKey,        \* a key of white space only
  NoKey,           \* no key sent
  SentKeys,        \* bound: the keys submissions carry
  NoRequest,       \* nobody holds the write lock
  Contents,        \* message texts
  ModelContents,   \* those route_intent sends to the model
  NoContent,       \* no message row
  Estimates,       \* token estimates build_context can return
  ExtraTokens,     \* how far the provider's input count may exceed the estimate
  ProviderErrors,  \* error texts of a ProviderCallError
  Environments,    \* what may be wrong with the environment of the server process
  MaxDay,          \* bound: the last day the model reaches
  MaxRestarts      \* bound: restarts of the server process

\* A setting is missing; OPENAI_BASE_URL has no scheme; OPENAI_MODEL has more than
\* 200 characters.  load_provider_config() finds the first and lets the others pass.
Defects == {"incomplete", "no_scheme", "long_model"}

\* An answer with half a surrogate pair, which SQLite does not take.
Unstorable == "unstorable"

Keys == ShortKeys \cup MidKeys \cup LongKeys
Turns == Requests \cup Keys

ASSUME TurnAssumption ==
  /\ IsFiniteSet(Requests) /\ IsFiniteSet(Keys)
  /\ Requests \cap Keys = {}
  /\ ShortKeys \cap (MidKeys \cup LongKeys) = {}
  /\ MidKeys \cap LongKeys = {}
  /\ {BlankKey, NoKey} \cap (Keys \cup Requests) = {} /\ BlankKey # NoKey
  /\ SentKeys \subseteq Keys \cup {BlankKey, NoKey}
  /\ NoRequest \notin Requests /\ {"none", Unstorable} \cap Requests = {}
  /\ NoContent \notin Contents
  /\ ModelContents \subseteq Contents
  /\ Estimates \subseteq Nat \ {0}
  /\ ExtraTokens \in Nat
  /\ Environments \subseteq SUBSET Defects
  /\ MaxDay \in Nat /\ MaxRestarts \in Nat

VARIABLES
  db,          \* the committed database
  wdb,         \* the image written by the lock holder; db when there is none
  lock,        \* the request whose connection holds the write lock
  pc,          \* where each handler is
  form,        \* what each request sent: key and content
  call,        \* locals of each handler: token estimate and reply text
  placed,      \* history: provider calls made for each turn
  today,       \* day CURRENT_TIMESTAMP falls on
  environment, \* what is wrong with the environment of the server process
  restarts     \* restarts so far

vars == <<db, wdb, lock, pc, form, call, placed, today, environment, restarts>>

-----------------------------------------------------------------------------
(* Turns, their rows, and the stages of a handler.                         *)

\* The turn of r's message, run and step: blank keys count as no key.
TurnOf(r) == IF form[r].key \in Keys THEN form[r].key ELSE r

\* The turn of r's reply: "<key>:assistant" is not blank when <key> is.
ReplyOf(r) == IF form[r].key = BlankKey THEN BlankKey ELSE TurnOf(r)

FixedTexts == {"deterministic", "disabled", "budget", "failure"}
Texts == FixedTexts \cup Requests \cup {Unstorable}  \* r: the provider's answer to r

Ended == {"answered", "rejected", "failed"}
WaitStages == {"insert", "run", "context"}
HeldStages == {"ai", "calling", "reply", "finalize"}
Stages == {"idle", "save", "settle", "reject"} \cup WaitStages \cup HeldStages \cup Ended

\* What r's connection reads.
View(r) == IF lock = r THEN wdb ELSE db

Goto(r, stage) == pc' = [pc EXCEPT ![r] = stage]

Init ==
  /\ db = [msg |-> [t \in Turns |-> NoContent], run |-> [t \in Turns |-> "none"],
           step |-> [t \in Turns |-> NoStep],
           reply |-> [t \in Turns \cup {BlankKey} |-> "none"]]
  /\ wdb = db
  /\ lock = NoRequest
  /\ pc = [r \in Requests |-> "idle"]
  /\ form = [r \in Requests |-> [key |-> NoKey, content |-> NoContent]]
  /\ call = [r \in Requests |-> [tokens |-> 0, text |-> "none"]]
  /\ placed = [t \in Turns |-> 0]
  /\ today = 0
  /\ environment \in Environments
  /\ restarts = 0

-----------------------------------------------------------------------------
(* The handler, one action per database access or external call.           *)

\* The form arrives.
Submit(r) ==
  /\ pc[r] = "idle"
  /\ \E k \in SentKeys, c \in Contents :
       form' = [form EXCEPT ![r] = [key |-> k, content |-> c]]
  /\ Goto(r, "save")
  /\ UNCHANGED <<db, wdb, lock, call, placed, today, environment, restarts>>

\* save_chat_message looks the key up before it writes: without the lock.
LookUpMessage(r) ==
  LET known == db.msg[TurnOf(r)]
  IN  /\ pc[r] = "save"
      /\ Goto(r, IF known = NoContent THEN "insert"
                 ELSE IF known = form[r].content THEN "run" ELSE "reject")
      /\ UNCHANGED <<db, wdb, lock, form, call, placed, today, environment, restarts>>

\* Mutant: INSERT OR REPLACE.
InsertMessageReplacing(r) ==
  /\ pc[r] = "insert"
  /\ lock = NoRequest
  /\ lock' = r
  /\ wdb' = [wdb EXCEPT !.msg[TurnOf(r)] = form[r].content]
  /\ Goto(r, "run")
  /\ UNCHANGED <<db, form, call, placed, today, environment, restarts>>

\* The INSERT takes the write lock.  When another request has committed the
\* same key since the lookup, the unique index refuses the row and the key is
\* looked up again; the transaction stays open.
InsertMessage(r) ==
  LET known == wdb.msg[TurnOf(r)]
  IN  /\ pc[r] = "insert"
      /\ lock = NoRequest
      /\ lock' = r
      /\ wdb' = IF known = NoContent
                THEN [wdb EXCEPT !.msg[TurnOf(r)] = form[r].content]
                ELSE wdb
      /\ Goto(r, IF known \in {NoContent, form[r].content} THEN "run" ELSE "reject")
      /\ UNCHANGED <<db, form, call, placed, today, environment, restarts>>

\* Mutant: only a running run counts as a duplicate; a closed one is reopened.
CreateRunReopening(r) ==
  LET running == View(r).run[TurnOf(r)] = "running"
  IN  /\ pc[r] = "run"
      /\ running \/ lock \in {NoRequest, r}
      /\ lock' = IF running THEN lock ELSE r
      /\ wdb' = IF running THEN wdb ELSE [wdb EXCEPT !.run[TurnOf(r)] = "running"]
      /\ Goto(r, "context")
      /\ UNCHANGED <<db, form, call, placed, today, environment, restarts>>

\* Mutant: a retry polls until the other attempt has closed the run.
CreateRunPolling(r) ==
  LET status == View(r).run[TurnOf(r)]
  IN  /\ pc[r] = "run"
      /\ status = "none" => lock \in {NoRequest, r}
      /\ lock' = IF status = "none" THEN r ELSE lock
      /\ wdb' = IF status = "none" THEN [wdb EXCEPT !.run[TurnOf(r)] = "running"] ELSE wdb
      /\ Goto(r, CASE status = "none" -> "context" [] status = "running" -> "save"
                  [] status = "completed" -> "settle")
      /\ UNCHANGED <<db, form, call, placed, today, environment, restarts>>

\* create_agent_run, with the early return for a turn already run.
CreateRun(r) ==
  LET status == View(r).run[TurnOf(r)]
  IN  /\ pc[r] = "run"
      /\ \/ /\ status = "none"
            /\ lock \in {NoRequest, r}
            /\ lock' = r
            /\ wdb' = [wdb EXCEPT !.run[TurnOf(r)] = "running"]
            /\ Goto(r, "context")
         \/ /\ status = "running"
            /\ Goto(r, "context")
            /\ UNCHANGED <<lock, wdb>>
         \/ /\ status = "completed"
            /\ Goto(r, "settle")
            /\ UNCHANGED <<lock, wdb>>
      /\ UNCHANGED <<db, form, call, placed, today, environment, restarts>>

\* Mutant: the context is not written, so a retry takes no lock before the call.
SetContextUnlocked(r) ==
  LET routed == form[r].content \in ModelContents
  IN  /\ pc[r] = "context"
      /\ Goto(r, IF routed THEN "ai" ELSE "reply")
      /\ call' = IF routed THEN call ELSE [call EXCEPT ![r].text = "deterministic"]
      /\ UNCHANGED <<db, wdb, lock, form, placed, today, environment, restarts>>

\* route_intent and set_agent_run_context.  On a retry this UPDATE is the first
\* write, so the lock may have to be waited for and the run may be over by then.
SetContext(r) ==
  LET running == View(r).run[TurnOf(r)] = "running"
      routed  == form[r].content \in ModelContents
  IN  /\ pc[r] = "context"
      /\ \/ /\ ~running
            /\ Goto(r, "reject")
            /\ UNCHANGED <<lock, call>>
         \/ /\ running
            /\ lock \in {NoRequest, r}
            /\ lock' = r
            /\ Goto(r, IF routed THEN "ai" ELSE "reply")
            /\ call' = IF routed THEN call
                       ELSE [call EXCEPT ![r].text = "deterministic"]
      /\ UNCHANGED <<db, wdb, form, placed, today, environment, restarts>>

\* append_agent_step under "<key>:ai_call".  A key or a model name too long, or a
\* step already there that differs, is a ValueError.
AppendStep(r, step, text) ==
  LET known    == wdb.step[TurnOf(r)]
      accepted == /\ form[r].key \notin LongKeys
                  /\ step.reason = "ai_not_configured" \/ "long_model" \notin environment
                  /\ known = NoStep \/ SameStepAppend(known, step)
  IN  \/ /\ accepted
         /\ wdb' = IF known = NoStep THEN [wdb EXCEPT !.step[TurnOf(r)] = step] ELSE wdb
         /\ call' = [call EXCEPT ![r].text = text]
         /\ Goto(r, "reply")
      \/ /\ ~accepted
         /\ Goto(r, "reject")
         /\ UNCHANGED <<wdb, call>>

\* request_ai_completion up to the call: skipped when AI is not configured or
\* a cap would be broken, else the request goes out, with the lock held.  An
\* address without a scheme is a ValueError of urllib.request.Request, which is
\* made outside the try.
RequestCompletion(r) ==
  /\ pc[r] = "ai"
  /\ \/ /\ "incomplete" \in environment
        /\ AppendStep(r, FreeStep("skipped", "ai_not_configured", today), "disabled")
        /\ UNCHANGED placed
     \/ /\ "incomplete" \notin environment
        /\ \E tokens \in Estimates :
             LET decision == BudgetDecision(wdb.step, tokens, today)
             IN  \/ /\ decision # "allowed"
                    /\ AppendStep(r, FreeStep("skipped", decision, today), "budget")
                    /\ UNCHANGED placed
                 \/ /\ decision = "allowed" /\ "no_scheme" \in environment
                    /\ Goto(r, "reject")
                    /\ UNCHANGED <<wdb, call, placed>>
                 \/ /\ decision = "allowed" /\ "no_scheme" \notin environment
                    /\ call' = [call EXCEPT ![r].tokens = tokens]
                    /\ placed' = [placed EXCEPT ![TurnOf(r)] = @ + 1]
                    /\ Goto(r, "calling")
                    /\ UNCHANGED wdb
  /\ UNCHANGED <<db, lock, form, today, environment, restarts>>

\* The provider answers with the usage it counted, in a text that can be stored
\* or not; a count that is negative or beyond MAX_USAGE_VALUE is a ValueError of
\* append_agent_step.
ProviderAnswers(r) ==
  /\ pc[r] = "calling"
  /\ \/ \E input \in 0 .. call[r].tokens + ExtraTokens, output \in 0 .. MaxOutputTokens,
           text \in {r, Unstorable} :
          AppendStep(r, CompletedStep(input, output, today), text)
     \/ Goto(r, "reject") /\ UNCHANGED <<wdb, call>>
  /\ UNCHANGED <<db, lock, form, placed, today, environment, restarts>>

\* A URLError or an unusable body becomes a ProviderCallError: a failed step.
ProviderFails(r) ==
  /\ pc[r] = "calling"
  /\ \E error \in ProviderErrors :
       AppendStep(r, FreeStep("failed", error, today), "failure")
  /\ UNCHANGED <<db, lock, form, placed, today, environment, restarts>>

\* Mutant: get_db commits in its `finally`, whatever the handler raised.
ProviderTimesOutCommitting(r) ==
  /\ pc[r] = "calling"
  /\ Goto(r, "failed")
  /\ db' = wdb
  /\ lock' = NoRequest
  /\ UNCHANGED <<wdb, form, call, placed, today, environment, restarts>>

\* While urlopen waits for the response a timeout or a dropped connection is a
\* bare OSError, which nothing catches: the transaction is rolled back.
ProviderTimesOut(r) ==
  /\ pc[r] = "calling"
  /\ Goto(r, "failed")
  /\ wdb' = db
  /\ lock' = NoRequest
  /\ UNCHANGED <<db, form, call, placed, today, environment, restarts>>

\* Mutant: a reply found under the key is taken for this turn's own.
SaveReplyUnchecked(r) ==
  LET known == wdb.reply[ReplyOf(r)]
      fits  == form[r].key \notin MidKeys \cup LongKeys /\ call[r].text # Unstorable
  IN  /\ pc[r] = "reply"
      /\ Goto(r, IF fits THEN "finalize" ELSE "reject")
      /\ wdb' = IF fits /\ known = "none"
                THEN [wdb EXCEPT !.reply[ReplyOf(r)] = call[r].text] ELSE wdb
      /\ UNCHANGED <<db, lock, form, call, placed, today, environment, restarts>>

\* save_chat_message for the reply, under "<key>:assistant": a key too long, another
\* reply under it, or a text SQLite does not take is a ValueError.
SaveReply(r) ==
  LET accepted == /\ form[r].key \notin MidKeys \cup LongKeys
                  /\ call[r].text # Unstorable
                  /\ wdb.reply[ReplyOf(r)] \in {"none", call[r].text}
  IN  /\ pc[r] = "reply"
      /\ \/ /\ accepted
            /\ wdb' = [wdb EXCEPT !.reply[ReplyOf(r)] = call[r].text]
            /\ Goto(r, "finalize")
         \/ /\ ~accepted
            /\ Goto(r, "reject")
            /\ UNCHANGED wdb
      /\ UNCHANGED <<db, lock, form, call, placed, today, environment, restarts>>

\* Mutant: a status the schema does not know.
FinalizeRunMisspelt(r) ==
  /\ pc[r] = "finalize"
  /\ wdb' = [wdb EXCEPT !.run[TurnOf(r)] = "complete"]
  /\ Goto(r, "settle")
  /\ UNCHANGED <<db, lock, form, call, placed, today, environment, restarts>>

FinalizeRun(r) ==
  /\ pc[r] = "finalize"
  /\ wdb' = [wdb EXCEPT !.run[TurnOf(r)] = "completed"]
  /\ Goto(r, "settle")
  /\ UNCHANGED <<db, lock, form, call, placed, today, environment, restarts>>

\* The `with get_db()` block is left, normally or by the return that follows a
\* ValueError: connection.commit() either way.
Commit(r) ==
  /\ pc[r] \in {"settle", "reject"}
  /\ Goto(r, IF pc[r] = "settle" THEN "answered" ELSE "rejected")
  /\ IF lock = r
     THEN db' = wdb /\ lock' = NoRequest /\ UNCHANGED wdb
     ELSE UNCHANGED <<db, lock, wdb>>
  /\ UNCHANGED <<form, call, placed, today, environment, restarts>>

\* A write that waits longer than busy_timeout raises OperationalError.
LockTimeout(r) ==
  /\ pc[r] \in WaitStages
  /\ lock \notin {NoRequest, r}
  /\ pc[r] = "run" => View(r).run[TurnOf(r)] = "none"
  /\ pc[r] = "context" => View(r).run[TurnOf(r)] = "running"
  /\ Goto(r, "failed")
  /\ UNCHANGED <<db, wdb, lock, form, call, placed, today, environment, restarts>>

Handle(r) ==
  \/ LookUpMessage(r) \/ InsertMessage(r) \/ CreateRun(r) \/ SetContext(r)
  \/ RequestCompletion(r)
  \/ ProviderAnswers(r) \/ ProviderFails(r) \/ ProviderTimesOut(r)
  \/ SaveReply(r) \/ FinalizeRun(r) \/ Commit(r) \/ LockTimeout(r)

-----------------------------------------------------------------------------
(* The world around the handlers.                                          *)

\* The server process dies and comes back, perhaps redeployed with another
\* environment: open transactions are lost, what was committed stays.
Restart ==
  /\ restarts < MaxRestarts
  /\ restarts' = restarts + 1
  /\ pc' = [r \in Requests |-> IF pc[r] \in Ended \cup {"idle"} THEN pc[r] ELSE "failed"]
  /\ wdb' = db
  /\ lock' = NoRequest
  /\ environment' \in Environments
  /\ UNCHANGED <<db, form, call, placed, today>>

Midnight ==
  /\ today < MaxDay
  /\ today' = today + 1
  /\ UNCHANGED <<db, wdb, lock, pc, form, call, placed, environment, restarts>>

\* Nobody has anything left to do.
Quiet == (\A r \in Requests : pc[r] \in Ended) /\ UNCHANGED vars

Next == (\E r \in Requests : Submit(r) \/ Handle(r)) \/ Restart \/ Midnight \/ Quiet

Spec == Init /\ [][Next]_vars

\* A worker thread keeps running, every wait on the lock is bounded by
\* busy_timeout and every provider call by its socket timeout.
FairSpec == Spec /\ \A r \in Requests : WF_vars(Handle(r))
-----------------------------------------------------------------------------
(* Properties.                                                             *)

Db == [msg : [Turns -> Contents \cup {NoContent}],
       run : [Turns -> {"none", "running", "completed"}],
       step : [Turns -> [status : StepStatuses,
                         reason : {"none", "ai_not_configured"} \cup BudgetReasons
                                    \cup ProviderErrors,
                         input : Nat, output : Nat, cost : Nat, day : Nat]],
       reply : [Turns \cup {BlankKey} -> (Texts \ {Unstorable}) \cup {"none"}]]

\* Every variable has its type.
TypeOK ==
  /\ db \in Db /\ wdb \in Db
  /\ lock \in Requests \cup {NoRequest}
  /\ pc \in [Requests -> Stages]
  /\ form \in [Requests -> [key : Keys \cup {BlankKey, NoKey},
                            content : Contents \cup {NoContent}]]
  /\ call \in [Requests -> [tokens : Estimates \cup {0}, text : Texts \cup {"none"}]]
  /\ placed \in [Turns -> Nat]
  /\ today \in Nat
  /\ environment \in Environments
  /\ restarts \in Nat

\* What one call can cost beyond the bound computed before it.
Overrun == CeilingPrice(ExtraTokens, InputPrice)

\* "SQLite serializes writers" (check_budget): whoever is past its first write
\* holds the lock until it commits or rolls back, and with the lock free
\* nothing uncommitted is left behind.
SingleWriter ==
  /\ \A r \in Requests : pc[r] \in HeldStages => lock = r
  /\ lock = NoRequest => wdb = db

\* check_budget and append_agent_step: handlers that check a cap and record
\* their spend in two steps, with a provider call and perhaps midnight between
\* them, never jointly break a cap, except by what the provider counted beyond
\* the estimate of a single call.
WithinBudget ==
  /\ PeriodCount(db.step, DayStart(today)) <= DailyRequestCap
  /\ PeriodSpend(db.step, DayStart(today)) <= DailyBudget + Overrun
  /\ PeriodSpend(db.step, MonthStart(today)) <= MonthlyBudget + Overrun

\* A turn that a ValueError of the provider gateway, or of saving its answer, has
\* committed as it was: the message waits for a retry under a run still running.
\* It needed the model, it has no reply and no step but that of an answer that
\* could not be stored, and the browser of the same message was told of the error.
LeftOpen(t) ==
  /\ db.msg[t] \in ModelContents /\ db.run[t] = "running" /\ db.reply[t] = "none"
  /\ \E r \in Requests :
       /\ TurnOf(r) = t /\ pc[r] = "rejected" /\ form[r].content = db.msg[t]
       /\ \/ db.step[t] = NoStep
          \/ db.step[t].status = "completed" /\ call[r].tokens # 0

\* send_chat_message under a key the page can generate, or none: what other
\* connections see of a turn is nothing; or all of it: the message, the closed
\* run, a reply, and an `ai_call` step exactly if the message needed the model; or
\* a turn left open by an error its browser was shown.  A timeout, a crash or a
\* lost lock leaves nothing, and a message answered without the model is never
\* left open.
WholeTurns ==
  \A t \in ShortKeys \cup {r \in Requests : form[r].key # BlankKey} :
    \/ /\ db.msg[t] = NoContent /\ db.run[t] = "none"
       /\ db.step[t] = NoStep /\ db.reply[t] = "none"
    \/ /\ db.msg[t] # NoContent /\ db.run[t] = "completed"
       /\ db.reply[t] # "none"
       /\ db.step[t] # NoStep <=> db.msg[t] \in ModelContents
    \/ LeftOpen(t)

\* send_chat_message: when the browser is told that its submission went through,
\* retries and blank keys included, the turn is closed and the reply stored for
\* it is the one its audit step accounts for.
ReplyMatchesStep ==
  \A r \in Requests : pc[r] = "answered" =>
    LET step == db.step[TurnOf(r)]
        text == db.reply[ReplyOf(r)]
    IN  /\ db.run[TurnOf(r)] = "completed"
        /\ CASE step.status = "none"      -> text = "deterministic"
             [] step.status = "failed"    -> text = "failure"
             [] step.status = "skipped"   ->
                  text = IF step.reason = "ai_not_configured" THEN "disabled" ELSE "budget"
             [] step.status = "completed" ->
                  text \in Requests /\ (TurnOf(r) = r => text = r)

\* The `already_processed` return: once a turn's run is closed, no submission
\* of the same key changes a row of it or calls the provider for it.
CompletedTurnsFrozen ==
  [][\A t \in Turns : db.run[t] = "completed" =>
       /\ db'.msg[t] = db.msg[t] /\ db'.run[t] = db.run[t]
       /\ db'.step[t] = db.step[t] /\ db'.reply[t] = db.reply[t]
       /\ placed'[t] = placed[t]]_vars

\* The submissions of a turn that called the provider in vain.
LostCalls(t) ==
  {r \in Requests : TurnOf(r) = t /\ call[r].tokens # 0 /\ pc[r] \in {"failed", "rejected"}}

\* Request keys: a second provider call for one key needs an earlier attempt that
\* called and was rolled back, or whose answer was refused.
CallsExplained ==
  \A t \in ShortKeys : placed[t] <= 1 + Cardinality(LostCalls(t))

\* send_chat_message under retries, overlaps and restarts: turns are whole or left open
\* by an error that was shown, what the browser is told is what is stored, and every
\* call to the provider has its reason.
TurnsExplained == WholeTurns /\ ReplyMatchesStep /\ CallsExplained

TurnState(status) ==
  CASE status = "none" -> "none" [] status = "running" -> "open"
    [] status = "completed" -> "closed"

\* Seen from other connections, the pipeline settles whole turns one at a time.
Atomic == INSTANCE TurnLedger WITH
  turn <- [t \in Turns |-> TurnState(db.run[t])],
  bill <- db.step,
  date <- today

ImplementsTurnLedger == Atomic!LedgerSpec

\* get_db: every submission ends with an answer, an error page or a failure,
\* whoever else holds the write lock and whatever the provider does.
EveryRequestEnds == \A r \in Requests : pc[r] = "save" ~> pc[r] \in Ended

\* get_db: the write lock is always given back.
LockReleased == \A r \in Requests : lock = r ~> lock # r

\* Every submission comes to its end and gives the lock back.
SubmissionsEnd == EveryRequestEnds /\ LockReleased
=============================================================================
