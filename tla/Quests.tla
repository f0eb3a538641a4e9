--------------------------------- MODULE Quests ---------------------------------
(***************************************************************************)
(* One person's quests and experience points (app/services/quests.py,      *)
(* app/services/gamification.py, app/routes/quests.py).                    *)
(*                                                                         *)
(* A handler reads in autocommit mode, each SELECT a snapshot of its own,  *)
(* and takes the write lock with its first UPDATE; from there to its       *)
(* commit it is alone.  So a handler is a few reads and one write action,  *)
(* and what it read may be stale when it writes.                           *)
(***************************************************************************)
EXTENDS Integers, FiniteSets, Sequences

CONSTANTS
  QuestIds,
  Requests,      \* POSTs to /quests/{id}/..., in worker threads
  NoQuest,
  Difficulties,  \* difficulties the quests are created with
  Minutes,       \* session minutes a form may carry
  Progresses,    \* progress a form may carry
  StartLevel,    \* level of the imported game state
  WorkerCounts   \* numbers of worker threads the server may run with

XpByDifficulty == [quick |-> 10, normal |-> 25, hard |-> 50, epic |-> 100]

ASSUME QuestsAssumption ==
  /\ IsFiniteSet(QuestIds) /\ NoQuest \notin QuestIds
  /\ Difficulties \subseteq DOMAIN XpByDifficulty
  /\ Minutes \subseteq Nat
  /\ Progresses \subseteq Int
  /\ StartLevel \in Nat \ {0}
  /\ WorkerCounts \subseteq Nat \ {0}

VARIABLES
  task,      \* the quests: status, progress, actual minutes, reward
  logged,    \* session minutes and completions recorded in quest_updates
  ledger,    \* xp_ledger, at most one row per quest
  game,      \* game_state
  timeline,  \* quest_completed events per quest
  history,   \* levels reached, in the order game_history recorded them
  request,   \* the handlers: stage, form, what they have read of the quest
  seen,      \* the game state each of them has read
  workers    \* requests handled at the same time, at most

vars == <<task, logged, ledger, game, timeline, history, request, seen, workers>>

Changes == {"active", "blocked", "abandoned"}

\* What the forms of the status, update and complete routes carry.
Forms ==
  [kind : Changes, minutes : {0}, progress : {0}]
  \cup [kind : {"update"}, minutes : Minutes, progress : Progresses]
  \cup [kind : {"complete"}, minutes : Minutes, progress : {0}]

Ended == {"answered", "duplicate", "failed"}
Reading == {"game", "award", "write"}

NoTask == [status |-> "none", progress |-> 0, minutes |-> 0, reward |-> 0]
NoAward == [delta |-> 0, before |-> 0, after |-> 0]

\* Every reward is positive, so a row is one with a positive delta.
Awarded(q) == ledger[q].delta > 0
Created == {q \in QuestIds : task[q].status # "none"}

FirstGame == [level |-> StartLevel, total |-> 0, into |-> 0]

Idle == [stage |-> "idle", quest |-> NoQuest,
         form |-> [kind |-> "complete", minutes |-> 0, progress |-> 0],
         status |-> "none", awarded |-> FALSE]

Init ==
  /\ task = [q \in QuestIds |-> NoTask]
  /\ logged = [q \in QuestIds |-> [minutes |-> 0, completions |-> 0]]
  /\ ledger = [q \in QuestIds |-> NoAward]
  /\ game = FirstGame
  /\ timeline = [q \in QuestIds |-> 0]
  /\ history = <<>>
  /\ request = [r \in Requests |-> Idle]
  /\ seen = [r \in Requests |-> FirstGame]
  /\ workers \in WorkerCounts

-----------------------------------------------------------------------------
(* gamification.py                                                         *)

Required(level) == 100 + 25 * level

\* A level, and the experience into it.
Places == [level : Nat \ {0}, into : Nat]

\* The while loop of apply_xp.
Climb[place \in Places] ==
  IF place.into < Required(place.level) THEN place
  ELSE Climb[[level |-> place.level + 1, into |-> place.into - Required(place.level)]]

ApplyXp(state, award) ==
  LET top == Climb[[level |-> state.level, into |-> state.into + award]]
  IN  [level |-> top.level, total |-> state.total + award, into |-> top.into]

\* clamp_progress with complete_allowed=False.
ClampProgress(value) == IF value < 0 THEN 0 ELSE IF value > 99 THEN 99 ELSE value


-----------------------------------------------------------------------------
(* The handlers.                                                           *)

Answer(r, how) ==
  /\ request' = [request EXCEPT ![r] = [Idle EXCEPT !.stage = how]]
  /\ seen' = [seen EXCEPT ![r] = FirstGame]
  /\ UNCHANGED workers

Proceed(r, state) ==
  /\ request' = [request EXCEPT ![r] = state]
  /\ UNCHANGED <<seen, workers>>

MayStart == Cardinality({s \in Requests : request[s].stage \in Reading}) < workers

CreateQuest(q) ==
  /\ task[q] = NoTask
  /\ \E d \in Difficulties :
       task' = [task EXCEPT ![q] = [status |-> "backlog", progress |-> 0, minutes |-> 0,
                                    reward |-> XpByDifficulty[d]]]
  /\ UNCHANGED <<logged, ledger, game, timeline, history, request, seen, workers>>

\* What a request knows once it has read its quest.
Reader(q, form) ==
  [Idle EXCEPT !.quest = q, !.form = form, !.status = task[q].status,
               !.stage = IF form.kind = "complete" THEN "game" ELSE "write"]

\* The first SELECT.  A status change or an update of a completed quest ends here.
ReadQuest(r) ==
  /\ request[r].stage = "idle" /\ MayStart
  /\ \E q \in Created, form \in Forms :
       IF form.kind # "complete" /\ task[q].status = "completed" THEN Answer(r, "answered")
       ELSE Proceed(r, Reader(q, form))
  /\ UNCHANGED <<task, logged, ledger, game, timeline, history>>

\* complete_quest also reads the game state ...
ReadGame(r) ==
  /\ request[r].stage = "game"
  /\ seen' = [seen EXCEPT ![r] = game]
  /\ request' = [request EXCEPT ![r].stage = "award"]
  /\ UNCHANGED <<task, logged, ledger, game, timeline, history, workers>>

\* ... and then the award, if there is one.
ReadAward(r) ==
  /\ request[r].stage = "award"
  /\ Proceed(r, [request[r] EXCEPT !.awarded = Awarded(request[r].quest), !.stage = "write"])
  /\ UNCHANGED <<task, logged, ledger, game, timeline, history>>

\* set_quest_status: start, block, unblock, abandon.
ChangeStatus(r) ==
  /\ request[r].stage = "write" /\ request[r].form.kind \in Changes
  /\ task' = [task EXCEPT ![request[r].quest].status = request[r].form.kind]
  /\ Answer(r, "answered")
  /\ UNCHANGED <<logged, ledger, game, timeline, history>>

\* Mutant: the new total is the one that was read plus the minutes of the form.
UpdateProgressStale(r) ==
  LET q == request[r].quest
  IN  /\ request[r].stage = "write" /\ request[r].form.kind = "update"
      /\ task' = [task EXCEPT ![q].status = IF @ = "blocked" THEN "blocked" ELSE "active",
                              ![q].progress = ClampProgress(request[r].form.progress),
                              ![q].minutes = request[r].form.minutes]
      /\ logged' = [logged EXCEPT ![q].minutes = @ + request[r].form.minutes]
      /\ Answer(r, "answered")
      /\ UNCHANGED <<ledger, game, timeline, history>>

\* update_quest_progress
UpdateProgress(r) ==
  LET q == request[r].quest
  IN  /\ request[r].stage = "write" /\ request[r].form.kind = "update"
      /\ task' = [task EXCEPT ![q].status = IF @ = "blocked" THEN "blocked" ELSE "active",
                              ![q].progress = ClampProgress(request[r].form.progress),
                              ![q].minutes = @ + request[r].form.minutes]
      /\ logged' = [logged EXCEPT ![q].minutes = @ + request[r].form.minutes]
      /\ Answer(r, "answered")
      /\ UNCHANGED <<ledger, game, timeline, history>>

\* The part of complete_quest that marks the task, unless it read a completed one.
MarkCompleted(r) ==
  LET q == request[r].quest
  IN  IF request[r].status = "completed" THEN UNCHANGED <<task, logged>>
      ELSE /\ task' = [task EXCEPT ![q].status = "completed", ![q].progress = 100,
                                   ![q].minutes = @ + request[r].form.minutes]
           /\ logged' = [logged EXCEPT ![q].minutes = @ + request[r].form.minutes,
                                       ![q].completions = @ + 1]

\* Mutant: the XP of a level is not taken off.
GiveAwardCarryAll(r) ==
  LET q == request[r].quest
      state == seen[r]
      after == [ApplyXp(state, task[q].reward) EXCEPT !.into = state.into + task[q].reward]
  IN  /\ ledger' = [ledger EXCEPT ![q] = [delta |-> task[q].reward, before |-> state.level,
                                          after |-> after.level]]
      /\ game' = after
      /\ timeline' = [timeline EXCEPT ![q] = @ + 1]
      /\ history' = history \o [i \in 1 .. (after.level - state.level) |-> state.level + i]

\* The part that awards: ledger, game state, timeline and level history.
GiveAward(r) ==
  LET q == request[r].quest
      state == seen[r]
      after == ApplyXp(state, task[q].reward)
  IN  /\ ledger' = [ledger EXCEPT ![q] = [delta |-> task[q].reward, before |-> state.level,
                                          after |-> after.level]]
      /\ game' = after
      /\ timeline' = [timeline EXCEPT ![q] = @ + 1]
      /\ history' = history \o [i \in 1 .. (after.level - state.level) |-> state.level + i]

\* Mutant: the unique index on task_id is gone.
CompleteUnguarded(r) ==
  /\ request[r].stage = "write" /\ request[r].form.kind = "complete"
  /\ MarkCompleted(r)
  /\ IF request[r].awarded THEN Answer(r, "duplicate") /\ UNCHANGED <<ledger, game, timeline, history>>
     ELSE Answer(r, "answered") /\ GiveAward(r)

\* complete_quest.  An award written since it was looked for is an
\* IntegrityError on task_id, and everything is rolled back.
Complete(r) ==
  LET clash == ~request[r].awarded /\ Awarded(request[r].quest)
  IN  /\ request[r].stage = "write" /\ request[r].form.kind = "complete"
      /\ \/ /\ clash
            /\ Answer(r, "failed")
            /\ UNCHANGED <<task, logged, ledger, game, timeline, history>>
         \/ /\ request[r].awarded
            /\ MarkCompleted(r)
            /\ Answer(r, "duplicate")
            /\ UNCHANGED <<ledger, game, timeline, history>>
         \/ /\ ~clash /\ ~request[r].awarded
            /\ MarkCompleted(r)
            /\ GiveAward(r)
            /\ Answer(r, "answered")

Handle(r) ==
  ReadQuest(r) \/ ReadGame(r) \/ ReadAward(r) \/ ChangeStatus(r) \/ UpdateProgress(r) \/ Complete(r)

Next == (\E q \in QuestIds : CreateQuest(q)) \/ (\E r \in Requests : Handle(r))

Spec == Init /\ [][Next]_vars

-----------------------------------------------------------------------------
(* Properties.                                                             *)

Statuses == Changes \cup {"none", "backlog", "completed"}
Tasks == [status : Statuses, progress : 0 .. 100, minutes : Nat, reward : Nat]
Handlers == [stage : {"idle"} \cup Reading \cup Ended, quest : QuestIds \cup {NoQuest},
             form : Forms \cup {Idle.form}, status : Statuses, awarded : BOOLEAN]
Games == [level : Nat \ {0}, total : Nat, into : Nat]

\* Type of every variable; progress stays a percentage whatever a form carries.
TypeOK ==
  /\ task \in [QuestIds -> Tasks]
  /\ logged \in [QuestIds -> [minutes : Nat, completions : Nat]]
  /\ ledger \in [QuestIds -> [delta : Nat, before : Nat, after : Nat]]
  /\ game \in Games
  /\ timeline \in [QuestIds -> Nat]
  /\ history \in Seq(Nat)
  /\ workers \in WorkerCounts
  /\ request \in [Requests -> Handlers]
  /\ seen \in [Requests -> Games]

\* However the handlers interleave, a quest has one completion event on the
\* timeline exactly if it was awarded, and a quest that reads as completed, by
\* its status or by its progress, was awarded (complete_quest).
AwardedOnce ==
  \A q \in QuestIds :
    /\ timeline[q] = IF Awarded(q) THEN 1 ELSE 0
    /\ task[q].status = "completed" => task[q].progress = 100 /\ Awarded(q)
    /\ task[q].progress = 100 => Awarded(q)

\* PROJECT.md: "Stores immutable XP events."  No handler rewrites or removes a row.
LedgerImmutable == [][\A q \in QuestIds : Awarded(q) => ledger'[q] = ledger[q]]_vars

\* The minutes shown on a quest are the sum of the sessions recorded for it,
\* although each handler adds its own to a total that others are changing.
MinutesAccounted == \A q \in QuestIds : task[q].minutes = logged[q].minutes

\* The points of ledger rows: their sum is the size of a disjoint union of units.
Points(rows) == UNION {{q} \X (1 .. rows[q].delta) : q \in QuestIds}

\* Racing completions may lose experience (see QuestsClaims) but never make any.
XpNeverInvented == game.total <= Cardinality(Points(ledger))

\* Every completion is awarded once, every minute counted once, and no experience
\* made, whatever overlaps.
AwardsStand == AwardedOnce /\ MinutesAccounted /\ XpNeverInvented

\* XP needed to climb from StartLevel to a level.
Threshold[level \in Nat] ==
  IF level <= StartLevel THEN 0 ELSE Threshold[level - 1] + Required(level - 1)

\* Level, total and progress within the level tell the same story, and no
\* threshold stays reached but not crossed (apply_xp).
LevelExplained ==
  /\ game.total = Threshold[game.level] + game.into
  /\ game.into < Required(game.level)

-----------------------------------------------------------------------------
(* With one worker requests do not overlap; QuestsClaims shows what of      *)
(* this overlapping ones break.                                            *)

\* The total is the sum of the ledger.
XpTotalIsLedger == workers = 1 => game.total = Cardinality(Points(ledger))

\* Every level reached is recorded once, in order and without a gap.
LevelsRecorded ==
  workers = 1 => history = [i \in 1 .. (game.level - StartLevel) |-> StartLevel + i]

\* A completed quest stays completed.
CompletedStays ==
  [][workers = 1 =>
       \A q \in QuestIds : task[q].status = "completed" => task'[q].status = "completed"]_vars

\* Level and total explain each other always; with one request at a time nothing of
\* the experience and the level history is lost.
ExperienceExplained == LevelExplained /\ XpTotalIsLedger /\ LevelsRecorded
=============================================================================
