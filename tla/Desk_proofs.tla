------------------------------ MODULE Desk_proofs ------------------------------
(***************************************************************************)
(* What one person's day cannot break, for any number of sessions,         *)
(* messages, runs, check-ins and quests, and of requests that overlap: the *)
(* chat and its audit, the check-ins and their balances, the quests, the   *)
(* level curve and the experience ledger, and the three together.          *)
(***************************************************************************)
EXTENDS MCDesk, Sums_proofs, SequenceTheorems

-----------------------------------------------------------------------------
(* The quests: awards.                                                     *)

\* Every difficulty is worth some experience.
LEMMA RewardTyping ==
  ASSUME NEW d \in Difficulties
  PROVE  XpByDifficulty[d] \in Nat \ {0}
BY QuestsAssumption DEF XpByDifficulty

\* clamp_progress leaves 100 to complete_quest.
LEMMA ClampTyping ==
  ASSUME NEW p \in Int
  PROVE  ClampProgress(p) \in 0 .. 99
BY DEF ClampProgress

-----------------------------------------------------------------------------
(* Sums over the ledger.                                                   *)

\* The sum exists.
LEMMA PointsTyping ==
  ASSUME NEW rows, \A q \in QuestIds : rows[q].delta \in Nat
  PROVE  IsFiniteSet(Points(rows)) /\ Cardinality(Points(rows)) \in Nat
<1> DEFINE units(q) == {q} \X (1 .. rows[q].delta)
           U == {units(q) : q \in QuestIds}
<1>1. IsFiniteSet(U)
  <2> DEFINE f == [q \in QuestIds |-> units(q)]
  <2>1. f \in Surjection(QuestIds, U)
    BY DEF Surjection
  <2> QED
    BY <2>1, QuestsAssumption, FS_Surjection
<1>2. \A u \in U : IsFiniteSet(u)
  <2>1. SUFFICES ASSUME NEW q \in QuestIds PROVE IsFiniteSet(units(q))
    OBVIOUS
  <2>4. rows[q].delta \in Int
    OBVIOUS
  <2>2. IsFiniteSet({q})
    BY FS_Singleton
  <2>3. IsFiniteSet(1 .. rows[q].delta)
    BY <2>4, FS_Interval
  <2> QED
    BY <2>2, <2>3, FS_Product
<1>3. Points(rows) = UNION U
  BY DEF Points
<1> HIDE DEF U
<1>4. IsFiniteSet(UNION U)
  BY <1>1, <1>2, FS_UNION
<1> QED
  BY <1>3, <1>4, FS_CardinalityType

\* A first row for a quest adds its delta to the sum.
LEMMA PointsAdded ==
  ASSUME NEW rows, \A x \in QuestIds : rows[x].delta \in Nat,
         NEW new, NEW q \in QuestIds, NEW n \in Nat,
         rows[q].delta = 0, new[q].delta = n,
         \A x \in QuestIds \ {q} : new[x] = rows[x]
  PROVE  Cardinality(Points(new)) = Cardinality(Points(rows)) + n
<1> DEFINE U == Points(rows)
           V == {q} \X (1 .. n)
<1>1. IsFiniteSet(U) /\ Cardinality(U) \in Nat
  BY PointsTyping
<1>2. Points(new) = U \cup V
  <2>1. {q} \X (1 .. rows[q].delta) = {}
    OBVIOUS
  <2> QED
    BY <2>1 DEF Points
<1>3. U \cap V = {}
  BY DEF Points
<1>4. IsFiniteSet(V) /\ Cardinality(V) = n
  <2> DEFINE I == 1 .. n
  <2>1. IsFiniteSet({q}) /\ Cardinality({q}) = 1
    BY FS_Singleton
  <2>2. IsFiniteSet(I) /\ Cardinality(I) = n
    <3>1. 1 \in Int /\ n \in Int
      OBVIOUS
    <3>2. IsFiniteSet(1 .. n) /\ Cardinality(1 .. n) = IF 1 > n THEN 0 ELSE n - 1 + 1
      BY <3>1, FS_Interval, Zenon
    <3> QED
      BY <3>2
  <2> HIDE DEF I
  <2>3. IsFiniteSet({q} \X I) /\ Cardinality({q} \X I) = Cardinality({q}) * Cardinality(I)
    BY <2>1, <2>2, FS_Product
  <2> QED
    BY <2>1, <2>2, <2>3 DEF I
<1> HIDE DEF U, V
<1>5. Cardinality(U \cup V) = Cardinality(U) + Cardinality(V) - Cardinality(U \cap V)
  BY <1>1, <1>4, FS_Union
<1>6. Cardinality(U \cap V) = 0
  BY <1>3, FS_EmptySet
<1> QED
  BY <1>1, <1>2, <1>4, <1>5, <1>6 DEF U

-----------------------------------------------------------------------------
(* The inductive invariant behind the award.                               *)

\* Types, but for the levels.
PartTypes ==
  /\ task \in [QuestIds -> Tasks]
  /\ logged \in [QuestIds -> [minutes : Nat, completions : Nat]]
  /\ timeline \in [QuestIds -> Nat]
  /\ request \in [Requests -> Handlers]
  /\ DOMAIN ledger = QuestIds /\ \A q \in QuestIds : ledger[q].delta \in Nat
  /\ DOMAIN seen = Requests

\* A quest that exists is worth something; a handler works on one that exists.
RewardsKnown ==
  /\ \A q \in QuestIds : task[q].status # "none" => task[q].reward > 0
  /\ \A r \in Requests : request[r].stage \in Reading =>
       /\ request[r].quest \in QuestIds /\ request[r].form \in Forms
       /\ task[request[r].quest].status # "none"

\* An award that was read is still there: rows are never removed.
AwardReadsHold ==
  \A r \in Requests :
    request[r].awarded => request[r].quest \in QuestIds /\ Awarded(request[r].quest)

AwardInv == PartTypes /\ RewardsKnown /\ AwardReadsHold /\ AwardedOnce /\ MinutesAccounted

\* What a finished handler leaves is typed and reads nothing.
LEMMA IdleTyping ==
  ASSUME NEW how \in Ended
  PROVE  /\ [Idle EXCEPT !.stage = how] \in Handlers
         /\ [Idle EXCEPT !.stage = how].stage \notin Reading
         /\ [Idle EXCEPT !.stage = how].awarded = FALSE
BY DEF Idle, Handlers, Ended, Reading, Statuses

LEMMA FormTyping ==
  ASSUME NEW sent \in Forms
  PROVE  /\ sent.kind \in Changes \cup {"update", "complete"}
         /\ sent.minutes \in Nat /\ sent.progress \in Int
<1>1. CASE sent \in [kind : Changes, minutes : {0}, progress : {0}]
  BY <1>1
<1>2. CASE sent \in [kind : {"update"}, minutes : Minutes, progress : Progresses]
  BY <1>2, QuestsAssumption
<1>3. CASE sent \in [kind : {"complete"}, minutes : Minutes, progress : {0}]
  <2>1. sent.kind = "complete" /\ sent.minutes \in Minutes /\ sent.progress = 0
    BY <1>3
  <2>2. sent.minutes \in Nat
    BY <2>1, QuestsAssumption
  <2>3. sent.progress \in Int
    BY <2>1
  <2> QED
    BY <2>1, <2>2, <2>3
<1> QED
  BY <1>1, <1>2, <1>3 DEF Forms

\* Answering disturbs nothing but the handler itself.
LEMMA AnswerKeeps ==
  ASSUME AwardInv, NEW r \in Requests, NEW how \in Ended, Answer(r, how)
  PROVE  /\ request' \in [Requests -> Handlers] /\ DOMAIN seen' = Requests
         /\ \A s \in Requests : request'[s].stage \in Reading \/ request'[s].awarded =>
              s # r /\ request'[s] = request[s]
<1>1. request' = [request EXCEPT ![r] = [Idle EXCEPT !.stage = how]]
      /\ seen' = [seen EXCEPT ![r] = FirstGame]
  BY DEF Answer
<1>2. request \in [Requests -> Handlers] /\ DOMAIN seen = Requests
  BY DEF AwardInv, PartTypes
<1>3. request' \in [Requests -> Handlers] /\ DOMAIN seen' = Requests
  BY <1>1, <1>2, IdleTyping
<1>4. request'[r] = [Idle EXCEPT !.stage = how]
  BY <1>1, <1>2
<1>5. request'[r].stage \notin Reading /\ request'[r].awarded = FALSE
  BY <1>4, IdleTyping
<1>6. \A s \in Requests : s # r => request'[s] = request[s]
  BY <1>1, <1>2
<1> QED
  BY <1>3, <1>5, <1>6

LEMMA AwardInit == Init => AwardInv
<1>1. SUFFICES ASSUME Init PROVE AwardInv
  OBVIOUS
<1>2. PartTypes
  BY <1>1 DEF Init, PartTypes, NoTask, Tasks, Statuses, Idle, Handlers, NoAward, Forms
<1>3. RewardsKnown /\ AwardReadsHold
  BY <1>1 DEF Init, RewardsKnown, AwardReadsHold, NoTask, Idle, Reading
<1>4. AwardedOnce /\ MinutesAccounted
  BY <1>1 DEF Init, AwardedOnce, MinutesAccounted, NoTask, NoAward, Awarded
<1> QED
  BY <1>2, <1>3, <1>4 DEF AwardInv

\* Creation: a new quest has neither row nor event.
LEMMA CreateKeeps ==
  ASSUME AwardInv, NEW q \in QuestIds, CreateQuest(q)
  PROVE  AwardInv'
<1>1. PICK d \in Difficulties :
        task' = [task EXCEPT ![q] = [status |-> "backlog", progress |-> 0, minutes |-> 0,
                                     reward |-> XpByDifficulty[d]]]
  BY DEF CreateQuest
<1>2. task[q] = NoTask
      /\ UNCHANGED <<logged, ledger, game, timeline, history, request, seen>>
  BY DEF CreateQuest
<1>3. XpByDifficulty[d] \in Nat /\ XpByDifficulty[d] > 0
  BY RewardTyping
<1>4. PartTypes'
  BY <1>1, <1>2, <1>3 DEF AwardInv, PartTypes, Tasks, Statuses
<1>5. RewardsKnown' /\ AwardReadsHold'
  BY <1>1, <1>2, <1>3 DEF AwardInv, PartTypes, RewardsKnown, AwardReadsHold, Awarded, NoTask
<1>6. AwardedOnce' /\ MinutesAccounted'
  BY <1>1, <1>2 DEF AwardInv, PartTypes, AwardedOnce, MinutesAccounted, Awarded, NoTask
<1> QED
  BY <1>4, <1>5, <1>6 DEF AwardInv

\* The reads.
LEMMA ReadsKeep ==
  ASSUME AwardInv, NEW r \in Requests, ReadQuest(r) \/ ReadGame(r) \/ ReadAward(r)
  PROVE  AwardInv'
<1>1. UNCHANGED <<task, logged, ledger, game, timeline, history>>
  BY DEF ReadQuest, ReadGame, ReadAward
<1>2. SUFFICES /\ request' \in [Requests -> Handlers] /\ DOMAIN seen' = Requests
               /\ \A s \in Requests : request'[s].stage \in Reading =>
                    /\ request'[s].quest \in QuestIds /\ request'[s].form \in Forms
                    /\ task[request'[s].quest].status # "none"
               /\ \A s \in Requests : request'[s].awarded =>
                    request'[s].quest \in QuestIds /\ Awarded(request'[s].quest)
  BY <1>1 DEF AwardInv, PartTypes, RewardsKnown, AwardReadsHold, AwardedOnce,
              MinutesAccounted, Awarded
<1>3. CASE ReadQuest(r)
  <2>1. PICK q \in Created, sent \in Forms :
          IF sent.kind # "complete" /\ task[q].status = "completed" THEN Answer(r, "answered")
          ELSE Proceed(r, Reader(q, sent))
    BY <1>3 DEF ReadQuest
  <2>2. CASE Answer(r, "answered")
    BY <2>2, AnswerKeeps DEF Ended, AwardInv, RewardsKnown, AwardReadsHold
  <2>3. CASE Proceed(r, Reader(q, sent))
    <3>1. /\ Reader(q, sent) \in Handlers /\ Reader(q, sent).quest = q
          /\ Reader(q, sent).form = sent /\ Reader(q, sent).awarded = FALSE
      BY DEF Reader, Idle, Handlers, Reading, AwardInv, PartTypes, Tasks, Created
    <3>2. request' = [request EXCEPT ![r] = Reader(q, sent)] /\ seen' = seen
      BY <2>3 DEF Proceed
    <3> QED
      BY <3>1, <3>2 DEF AwardInv, PartTypes, RewardsKnown, AwardReadsHold, Created
  <2> QED
    BY <2>1, <2>2, <2>3
<1>4. CASE ReadGame(r)
  BY <1>4 DEF ReadGame, AwardInv, PartTypes, RewardsKnown, AwardReadsHold, Handlers, Reading
<1>5. CASE ReadAward(r)
  <2>1. /\ request[r].stage = "award" /\ seen' = seen
        /\ request' = [request EXCEPT ![r] =
             [request[r] EXCEPT !.awarded = Awarded(request[r].quest), !.stage = "write"]]
    BY <1>5 DEF ReadAward, Proceed
  <2>2. Awarded(request[r].quest) \in BOOLEAN
    BY DEF Awarded
  <2>3. /\ request[r].quest \in QuestIds /\ request[r].form \in Forms
        /\ task[request[r].quest].status # "none"
    BY <2>1 DEF AwardInv, RewardsKnown, Reading
  <2>4. /\ request'[r].quest = request[r].quest /\ request'[r].form = request[r].form
        /\ request'[r].awarded = Awarded(request[r].quest) /\ request'[r] \in Handlers
    BY <2>1, <2>2 DEF AwardInv, PartTypes, Handlers, Reading
  <2>5. /\ request' \in [Requests -> Handlers]
        /\ \A s \in Requests : s # r => request'[s] = request[s]
    BY <2>1, <2>4 DEF AwardInv, PartTypes
  <2> QED
    BY <2>1, <2>3, <2>4, <2>5 DEF AwardInv, PartTypes, RewardsKnown, AwardReadsHold
<1> QED
  BY <1>3, <1>4, <1>5

\* Status changes and updates never reach 100 and never say completed.
LEMMA ChangesKeep ==
  ASSUME AwardInv, NEW r \in Requests, ChangeStatus(r) \/ UpdateProgress(r)
  PROVE  AwardInv'
<1> DEFINE q == request[r].quest
           sent == request[r].form
<1>1. Answer(r, "answered") /\ UNCHANGED <<ledger, timeline>>
  BY DEF ChangeStatus, UpdateProgress
<1>2. q \in QuestIds /\ sent \in Forms /\ task[q].status # "none"
  BY DEF ChangeStatus, UpdateProgress, AwardInv, RewardsKnown, Reading
<1>3. /\ request' \in [Requests -> Handlers] /\ DOMAIN seen' = Requests
      /\ \A s \in Requests : request'[s].stage \in Reading \/ request'[s].awarded =>
           request'[s] = request[s]
  BY <1>1, AnswerKeeps DEF Ended
<1>4. sent.minutes \in Nat /\ ClampProgress(sent.progress) \in 0 .. 99
  BY <1>2, FormTyping, ClampTyping
<1>5. /\ task \in [QuestIds -> Tasks] /\ task[q] \in Tasks
      /\ logged \in [QuestIds -> [minutes : Nat, completions : Nat]]
      /\ logged[q] \in [minutes : Nat, completions : Nat]
  BY <1>2 DEF AwardInv, PartTypes
<1>6. /\ task' \in [QuestIds -> Tasks]
      /\ logged' \in [QuestIds -> [minutes : Nat, completions : Nat]]
      /\ \A x \in QuestIds : x # q => task'[x] = task[x] /\ logged'[x] = logged[x]
      /\ task'[q].status \in Changes /\ task'[q].reward = task[q].reward
      /\ task'[q].progress = 100 => task[q].progress = 100
      /\ task'[q].minutes = logged'[q].minutes
  <2>1. task[q].minutes = logged[q].minutes
    BY <1>2 DEF AwardInv, MinutesAccounted
  <2>2. CASE ChangeStatus(r)
    <3>1. /\ sent.kind \in Changes /\ logged' = logged
          /\ task' = [task EXCEPT ![q].status = sent.kind]
      BY <2>2 DEF ChangeStatus
    <3>2. task'[q] = [task[q] EXCEPT !.status = sent.kind]
      BY <1>2, <1>5, <3>1
    <3>3. task'[q] \in Tasks
      BY <1>5, <3>1, <3>2, SMTT(30) DEF Tasks, Statuses
    <3>4. task' \in [QuestIds -> Tasks] /\ \A x \in QuestIds : x # q => task'[x] = task[x]
      BY <1>2, <1>5, <3>1, <3>3
    <3>5. /\ task'[q].status = sent.kind /\ task'[q].reward = task[q].reward
          /\ task'[q].progress = task[q].progress /\ task'[q].minutes = task[q].minutes
      BY <1>5, <3>2 DEF Tasks
    <3> QED
      BY <1>5, <2>1, <3>1, <3>4, <3>5
  <2>3. CASE UpdateProgress(r)
    <3> DEFINE status == IF task[q].status = "blocked" THEN "blocked" ELSE "active"
               progress == ClampProgress(sent.progress)
               total == task[q].minutes + sent.minutes
    <3>1. /\ task' = [task EXCEPT ![q].status = IF @ = "blocked" THEN "blocked" ELSE "active",
                                  ![q].progress = progress,
                                  ![q].minutes = @ + sent.minutes]
          /\ logged' = [logged EXCEPT ![q].minutes = @ + sent.minutes]
      BY <2>3 DEF UpdateProgress
    <3>2. status \in Changes /\ progress \in 0 .. 99 /\ progress \in 0 .. 100 /\ total \in Nat
      BY <1>4, <1>5, SMTT(30) DEF Changes, Tasks
    <3>3. task'[q] = [task[q] EXCEPT !.status = status, !.progress = progress, !.minutes = total]
      BY <1>2, <1>5, <3>1 DEF Tasks
    <3>4. \A x \in QuestIds : x # q => task'[x] = task[x]
      BY <1>5, <3>1
    <3>5. DOMAIN task' = QuestIds /\ task' = [x \in QuestIds |-> task'[x]]
      BY <1>5, <3>1
    <3> HIDE DEF status, progress, total
    <3>6. status \in Statuses
      BY <3>2 DEF Statuses
    <3> DEFINE old == task[q]
               new == task'[q]
    <3>7. old \in Tasks /\ new = [old EXCEPT !.status = status, !.progress = progress,
                                           !.minutes = total]
      BY <1>5, <3>3
    <3> HIDE DEF old, new
    <3>8. /\ new \in Tasks /\ new.status = status /\ new.progress = progress
          /\ new.minutes = total /\ new.reward = old.reward
      BY <3>2, <3>6, <3>7 DEF Tasks
    <3>10. task' \in [QuestIds -> Tasks]
      BY <1>5, <3>4, <3>5, <3>8 DEF new
    <3>9. /\ logged'[q].minutes = logged[q].minutes + sent.minutes
          /\ logged' \in [QuestIds -> [minutes : Nat, completions : Nat]]
          /\ \A x \in QuestIds : x # q => logged'[x] = logged[x]
      <4>1. \A x \in QuestIds : x # q => logged'[x] = logged[x]
        BY <1>5, <3>1
      <4>2. logged'[q] = [logged[q] EXCEPT !.minutes = @ + sent.minutes]
        BY <1>2, <1>5, <3>1
      <4>3. logged[q].minutes + sent.minutes \in Nat
        BY <1>4, <1>5
      <4>4. logged'[q].minutes = logged[q].minutes + sent.minutes
            /\ logged'[q] \in [minutes : Nat, completions : Nat]
        BY <1>5, <4>2, <4>3, SMTT(30)
      <4>5. logged' = [x \in QuestIds |-> logged'[x]]
        BY <1>5, <3>1
      <4> QED
        BY <1>5, <4>1, <4>4, <4>5
    <3> QED
      BY <2>1, <3>2, <3>4, <3>8, <3>9, <3>10 DEF total, old, new
  <2> QED
    BY <2>2, <2>3
<1>8. task'[q].status # "none" /\ task'[q].status # "completed"
  BY <1>6 DEF Changes
<1>9. PartTypes'
  BY <1>1, <1>3, <1>6 DEF AwardInv, PartTypes
<1>10. RewardsKnown'
  <2>1. \A x \in QuestIds : task'[x].status # "none" => task'[x].reward > 0
    BY <1>2, <1>6 DEF AwardInv, RewardsKnown
  <2>2. \A x \in QuestIds : task[x].status # "none" => task'[x].status # "none"
    BY <1>6, <1>8
  <2>3. \A s \in Requests : request'[s].stage \in Reading =>
          /\ request'[s].quest \in QuestIds /\ request'[s].form \in Forms
          /\ task[request'[s].quest].status # "none"
    BY <1>3 DEF AwardInv, RewardsKnown
  <2> QED
    BY <2>1, <2>2, <2>3 DEF RewardsKnown
<1>11. AwardReadsHold'
  BY <1>1, <1>3 DEF AwardInv, AwardReadsHold, Awarded
<1>12. AwardedOnce'
  BY <1>1, <1>2, <1>6, <1>8 DEF AwardInv, AwardedOnce, Awarded
<1>13. MinutesAccounted'
  BY <1>2, <1>6 DEF AwardInv, MinutesAccounted
<1> QED
  BY <1>9, <1>10, <1>11, <1>12, <1>13 DEF AwardInv

\* Marking a quest completed books the minutes on both sides.
LEMMA MarkKeeps ==
  ASSUME AwardInv, NEW r \in Requests, request[r].stage = "write", MarkCompleted(r)
  PROVE  LET q == request[r].quest
         IN  /\ q \in QuestIds /\ task[q].reward \in Nat /\ task[q].reward > 0
             /\ task' \in [QuestIds -> Tasks]
             /\ logged' \in [QuestIds -> [minutes : Nat, completions : Nat]]
             /\ \A x \in QuestIds : x # q => task'[x] = task[x] /\ logged'[x] = logged[x]
             /\ task'[q].status # "none" /\ task'[q].reward = task[q].reward
             /\ task'[q].minutes = logged'[q].minutes
             /\ \/ task'[q] = task[q]
                \/ task'[q].progress = 100
<1> DEFINE q == request[r].quest
           sent == request[r].form
<1>1. /\ q \in QuestIds /\ sent \in Forms /\ task[q].status # "none"
      /\ task[q].reward > 0 /\ task[q].minutes = logged[q].minutes
  BY DEF AwardInv, RewardsKnown, Reading, MinutesAccounted
<1>2. sent.minutes \in Nat
  BY <1>1, FormTyping
<1>3. /\ task \in [QuestIds -> Tasks] /\ task[q] \in Tasks /\ task[q].reward \in Nat
      /\ logged \in [QuestIds -> [minutes : Nat, completions : Nat]]
      /\ logged[q] \in [minutes : Nat, completions : Nat]
  BY <1>1 DEF AwardInv, PartTypes, Tasks
<1>4. CASE request[r].status = "completed"
  BY <1>1, <1>3, <1>4 DEF MarkCompleted
<1>5. CASE request[r].status # "completed"
  <2> DEFINE old == task[q]
             new == task'[q]
             total == task[q].minutes + sent.minutes
             log == logged[q]
             log2 == logged'[q]
  <2>1. /\ task' = [task EXCEPT ![q].status = "completed", ![q].progress = 100,
                                ![q].minutes = @ + sent.minutes]
        /\ logged' = [logged EXCEPT ![q].minutes = @ + sent.minutes, ![q].completions = @ + 1]
    BY <1>5 DEF MarkCompleted
  <2>2. /\ \A x \in QuestIds : x # q => task'[x] = task[x] /\ logged'[x] = logged[x]
        /\ task' = [x \in QuestIds |-> task'[x]] /\ logged' = [x \in QuestIds |-> logged'[x]]
    BY <1>3, <2>1
  <2>3. old \in Tasks /\ log \in [minutes : Nat, completions : Nat] /\ total \in Nat
    BY <1>2, <1>3 DEF Tasks
  <2>4. new = [old EXCEPT !.status = "completed", !.progress = 100, !.minutes = total]
    BY <1>1, <1>3, <2>1 DEF Tasks
  <2>8. log2 = [log EXCEPT !.minutes = total, !.completions = log.completions + 1]
    BY <1>1, <1>3, <2>1
  <2> HIDE DEF old, new, total, log, log2
  <2>5. /\ new \in Tasks /\ new.status = "completed" /\ new.progress = 100
        /\ new.minutes = total /\ new.reward = old.reward
    <3>1. "completed" \in Statuses /\ 100 \in 0 .. 100
      BY DEF Statuses
    <3> QED
      BY <2>3, <2>4, <3>1 DEF Tasks
  <2>6. log2 \in [minutes : Nat, completions : Nat] /\ log2.minutes = total
    <3>1. log.completions + 1 \in Nat
      BY <2>3
    <3>2. log2 = [minutes |-> total, completions |-> log.completions + 1]
      BY <2>3, <2>8
    <3> QED
      BY <2>3, <3>1, <3>2
  <2>7. /\ task' \in [QuestIds -> Tasks]
        /\ logged' \in [QuestIds -> [minutes : Nat, completions : Nat]]
    BY <1>3, <2>2, <2>5, <2>6 DEF new, log2
  <2> QED
    BY <1>1, <1>3, <2>2, <2>5, <2>6, <2>7 DEF new, log2, old
<1> QED
  BY <1>4, <1>5

\* Completion: refused, a duplicate, or the one award of the quest.
LEMMA CompleteKeeps ==
  ASSUME AwardInv, NEW r \in Requests, Complete(r)
  PROVE  AwardInv'
<1> DEFINE q == request[r].quest
<1>1. request[r].stage = "write"
  BY DEF Complete
<1>2. CASE Answer(r, "failed") /\ UNCHANGED <<task, logged, ledger, game, timeline, history>>
  BY <1>2, AnswerKeeps DEF Ended, AwardInv, PartTypes, RewardsKnown, AwardReadsHold,
     AwardedOnce, MinutesAccounted, Awarded
<1>3. ASSUME MarkCompleted(r), NEW how \in Ended, Answer(r, how),
             DOMAIN ledger' = QuestIds, timeline' \in [QuestIds -> Nat],
             \A x \in QuestIds : x # q => ledger'[x] = ledger[x] /\ timeline'[x] = timeline[x],
             ledger'[q].delta \in Nat, ledger'[q].delta > 0, timeline'[q] = 1
      PROVE  AwardInv'
  <2>1. /\ q \in QuestIds /\ task' \in [QuestIds -> Tasks]
        /\ logged' \in [QuestIds -> [minutes : Nat, completions : Nat]]
        /\ \A x \in QuestIds : x # q => task'[x] = task[x] /\ logged'[x] = logged[x]
        /\ task'[q].status # "none" /\ task'[q].reward > 0
        /\ task'[q].minutes = logged'[q].minutes
        /\ task'[q] = task[q] \/ task'[q].progress = 100
    BY <1>1, <1>3, MarkKeeps
  <2>2. /\ request' \in [Requests -> Handlers] /\ DOMAIN seen' = Requests
        /\ \A s \in Requests : request'[s].stage \in Reading \/ request'[s].awarded =>
             request'[s] = request[s]
    BY <1>3, AnswerKeeps
  <2>3. PartTypes'
    BY <1>3, <2>1, <2>2 DEF AwardInv, PartTypes
  <2>4. RewardsKnown'
    <3>1. \A x \in QuestIds : task'[x].status # "none" => task'[x].reward > 0
      BY <2>1 DEF AwardInv, RewardsKnown
    <3>2. \A x \in QuestIds : task[x].status # "none" => task'[x].status # "none"
      BY <2>1
    <3>3. \A s \in Requests : request'[s].stage \in Reading =>
            /\ request'[s].quest \in QuestIds /\ request'[s].form \in Forms
            /\ task[request'[s].quest].status # "none"
      BY <2>2 DEF AwardInv, RewardsKnown
    <3> QED
      BY <3>1, <3>2, <3>3 DEF RewardsKnown
  <2>5. AwardReadsHold'
    <3>1. \A x \in QuestIds : Awarded(x) => ledger'[x].delta > 0
      BY <1>3 DEF Awarded
    <3> QED
      BY <2>2, <3>1 DEF AwardInv, AwardReadsHold, Awarded
  <2>6. AwardedOnce'
    BY <1>3, <2>1 DEF AwardInv, AwardedOnce, Awarded
  <2>7. MinutesAccounted'
    BY <2>1 DEF AwardInv, MinutesAccounted
  <2> QED
    BY <2>3, <2>4, <2>5, <2>6, <2>7 DEF AwardInv
<1>4. CASE /\ request[r].awarded /\ MarkCompleted(r) /\ Answer(r, "duplicate")
           /\ UNCHANGED <<ledger, game, timeline, history>>
  <2>1. q \in QuestIds /\ Awarded(q)
    BY <1>4 DEF AwardInv, AwardReadsHold
  <2>2. DOMAIN ledger = QuestIds /\ timeline \in [QuestIds -> Nat] /\ ledger[q].delta \in Nat
    BY <2>1 DEF AwardInv, PartTypes
  <2>3. ledger[q].delta > 0 /\ timeline[q] = 1
    BY <2>1 DEF AwardInv, AwardedOnce, Awarded
  <2> QED
    BY <1>3, <1>4, <2>2, <2>3 DEF Ended
<1>5. CASE /\ ~Awarded(q) /\ MarkCompleted(r) /\ GiveAward(r) /\ Answer(r, "answered")
  <2>1. q \in QuestIds /\ task[q].reward \in Nat /\ task[q].reward > 0
    BY <1>1, <1>5, MarkKeeps
  <2> DEFINE row == [delta |-> task[q].reward, before |-> seen[r].level,
                     after |-> ApplyXp(seen[r], task[q].reward).level]
  <2>2. ledger' = [ledger EXCEPT ![q] = row] /\ row.delta = task[q].reward
    BY <1>5 DEF GiveAward
  <2> HIDE DEF row
  <2>3. timeline' = [timeline EXCEPT ![q] = @ + 1] /\ timeline[q] = 0
    BY <1>5, <2>1 DEF GiveAward, AwardInv, AwardedOnce
  <2>4. /\ DOMAIN ledger' = QuestIds /\ timeline' \in [QuestIds -> Nat]
        /\ \A x \in QuestIds : x # q => ledger'[x] = ledger[x] /\ timeline'[x] = timeline[x]
        /\ ledger'[q].delta = task[q].reward /\ timeline'[q] = 1
    BY <2>1, <2>2, <2>3 DEF AwardInv, PartTypes
  <2> QED
    BY <1>3, <1>5, <2>1, <2>4 DEF Ended
<1> QED
  BY <1>2, <1>4, <1>5 DEF Complete

LEMMA AwardStep ==
  ASSUME AwardInv, [Next]_vars
  PROVE  AwardInv'
<1>1. ASSUME NEW q \in QuestIds, CreateQuest(q) PROVE AwardInv'
  BY <1>1, CreateKeeps
<1>2. ASSUME NEW r \in Requests, Handle(r) PROVE AwardInv'
  BY <1>2, ReadsKeep, ChangesKeep, CompleteKeeps DEF Handle
<1>3. CASE UNCHANGED vars
  BY <1>3 DEF vars, AwardInv, PartTypes, RewardsKnown, AwardReadsHold, AwardedOnce,
     MinutesAccounted, Awarded
<1> QED
  BY <1>1, <1>2, <1>3 DEF Next

LEMMA AwardHolds == Spec => []AwardInv
BY AwardInit, AwardStep, PTL DEF Spec

\* One event and one row per completed quest, however the requests interleave
\* (complete_quest; the unique task_id is what stops a double submit).
THEOREM QuestAwardedOnce == Spec => []AwardedOnce
<1>1. AwardInv => AwardedOnce
  BY DEF AwardInv
<1> QED
  BY <1>1, AwardHolds, PTL

\* The minutes of a quest are those of its recorded sessions (update_quest_progress,
\* complete_quest).
THEOREM MinutesAreAccounted == Spec => []MinutesAccounted
<1>1. AwardInv => MinutesAccounted
  BY DEF AwardInv
<1> QED
  BY <1>1, AwardHolds, PTL

\* No step rewrites or removes a ledger row (complete_quest is the only writer).
THEOREM RowsAreImmutable == Spec => LedgerImmutable
<1>1. ASSUME AwardInv, [Next]_vars
      PROVE  [\A q \in QuestIds : Awarded(q) => ledger'[q] = ledger[q]]_vars
  <2>1. SUFFICES ASSUME NEW q \in QuestIds, Awarded(q), Next PROVE ledger'[q] = ledger[q]
    BY <1>1
  <2>2. CASE ledger' = ledger
    BY <2>2
  <2>3. ASSUME NEW r \in Requests, Complete(r), ledger' # ledger PROVE ledger'[q] = ledger[q]
    <3>1. ~Awarded(request[r].quest) /\ GiveAward(r)
      BY <2>3 DEF Complete
    <3>2. PICK row : ledger' = [ledger EXCEPT ![request[r].quest] = row]
      BY <3>1 DEF GiveAward
    <3> QED
      BY <1>1, <2>1, <3>1, <3>2 DEF AwardInv, PartTypes
  <2> QED
    BY <2>1, <2>2, <2>3 DEF Next, Handle, CreateQuest, ReadQuest, ReadGame, ReadAward,
       ChangeStatus, UpdateProgress
<1> QED
  BY <1>1, AwardHolds, PTL DEF Spec, LedgerImmutable

-----------------------------------------------------------------------------
(* Experience: stale reads are bounded by the ledger, which only grows.    *)

XpInv ==
  /\ game.total \in Nat /\ game.total <= Cardinality(Points(ledger))
  /\ \A r \in Requests :
       seen[r].total \in Nat /\ seen[r].total <= Cardinality(Points(ledger))

LEMMA XpInit == Init => XpInv
<1>1. SUFFICES ASSUME Init PROVE XpInv
  OBVIOUS
<1>2. \A q \in QuestIds : ledger[q].delta \in Nat
  BY <1>1 DEF Init, NoAward
<1>3. Cardinality(Points(ledger)) \in Nat
  BY <1>2, PointsTyping
<1>4. game.total = 0 /\ \A r \in Requests : seen[r].total = 0
  BY <1>1 DEF Init, FirstGame
<1> QED
  BY <1>3, <1>4 DEF XpInv

LEMMA XpStep ==
  ASSUME XpInv, AwardInv, [Next]_vars
  PROVE  XpInv'
<1> DEFINE sum == Cardinality(Points(ledger))
<1>1. (\A q \in QuestIds : ledger[q].delta \in Nat) /\ DOMAIN ledger = QuestIds
      /\ DOMAIN seen = Requests
  BY DEF AwardInv, PartTypes
<1>2. sum \in Nat
  BY <1>1, PointsTyping
<1>3. FirstGame.total = 0
  BY DEF FirstGame
<1>4. ASSUME UNCHANGED <<ledger, game>>,
             \/ seen' = seen
             \/ \E r \in Requests : seen' = [seen EXCEPT ![r] = FirstGame]
             \/ \E r \in Requests : seen' = [seen EXCEPT ![r] = game]
      PROVE  XpInv'
  BY <1>1, <1>2, <1>3, <1>4 DEF XpInv
<1>5. ASSUME NEW r \in Requests, ~Awarded(request[r].quest), request[r].stage = "write",
             MarkCompleted(r), GiveAward(r), Answer(r, "answered")
      PROVE  XpInv'
  <2> DEFINE q == request[r].quest
             reward == task[q].reward
  <2>1. q \in QuestIds /\ reward \in Nat
    BY <1>5, MarkKeeps
  <2> DEFINE row == [delta |-> reward, before |-> seen[r].level,
                     after |-> ApplyXp(seen[r], reward).level]
  <2>2. ledger' = [ledger EXCEPT ![q] = row] /\ row.delta = reward
    BY <1>5 DEF GiveAward
  <2> HIDE DEF row
  <2>3. ledger[q].delta = 0
    BY <1>1, <1>5, <2>1 DEF Awarded
  <2>4. /\ ledger'[q].delta = reward
        /\ \A x \in QuestIds \ {q} : ledger'[x] = ledger[x]
    BY <1>1, <2>1, <2>2
  <2>5. Cardinality(Points(ledger')) = sum + reward
    BY <1>1, <2>1, <2>3, <2>4, PointsAdded
  <2>6. game'.total = seen[r].total + reward
    BY <1>5 DEF GiveAward, ApplyXp
  <2>7. seen' = [seen EXCEPT ![r] = FirstGame]
    BY <1>5 DEF Answer
  <2>8. \A s \in Requests : seen'[s].total = seen[s].total \/ seen'[s].total = 0
    BY <1>1, <1>3, <2>7
  <2> HIDE DEF sum, reward
  <2>9. \A s \in Requests : seen[s].total \in Nat /\ seen[s].total <= sum
    BY DEF XpInv, sum
  <2>10. game'.total \in Nat /\ game'.total <= sum + reward
    BY <1>2, <2>1, <2>6, <2>9
  <2>11. \A s \in Requests : seen'[s].total \in Nat /\ seen'[s].total <= sum + reward
    BY <1>2, <2>1, <2>8, <2>9
  <2> QED
    BY <2>5, <2>10, <2>11 DEF XpInv
<1>6. CASE UNCHANGED vars
  BY <1>4, <1>6 DEF vars
<1>7. ASSUME NEW q \in QuestIds, CreateQuest(q) PROVE XpInv'
  BY <1>4, <1>7 DEF CreateQuest
<1>8. ASSUME NEW r \in Requests, Handle(r) PROVE XpInv'
  <2>1. CASE ReadQuest(r)
    BY <1>4, <2>1 DEF ReadQuest, Answer, Proceed
  <2>2. CASE ReadGame(r) \/ ReadAward(r)
    BY <1>4, <2>2 DEF ReadGame, ReadAward, Proceed
  <2>3. CASE ChangeStatus(r) \/ UpdateProgress(r)
    BY <1>4, <2>3 DEF ChangeStatus, UpdateProgress, Answer
  <2>4. CASE Complete(r)
    BY <1>4, <1>5, <2>4 DEF Complete, Answer
  <2> QED
    BY <1>8, <2>1, <2>2, <2>3, <2>4 DEF Handle
<1> QED
  BY <1>6, <1>7, <1>8 DEF Next

\* Racing completions may lose experience but never make any (complete_quest).
THEOREM NoXpInvented == Spec => []XpNeverInvented
<1>1. XpInv => XpNeverInvented
  BY DEF XpInv, XpNeverInvented
<1> QED
  BY <1>1, XpInit, XpStep, AwardHolds, PTL DEF Spec

\* Awards, minutes and experience together, as the model checker checks them.
THEOREM AwardsHold == Spec => []AwardsStand
<1>1. AwardedOnce /\ MinutesAccounted /\ XpNeverInvented => AwardsStand
  BY DEF AwardsStand
<1> QED
  BY <1>1, QuestAwardedOnce, MinutesAreAccounted, NoXpInvented, PTL

-----------------------------------------------------------------------------
(* The level curve: what the while loop of apply_xp computes.              *)

\* Twice the experience between the beginnings of two levels.
Twice(level) == 25 * level * level + 175 * level

\* The loop takes the least number of levels that leaves less than one more needs.
IsTop(level, into, top) ==
  /\ top \in [level : Nat \ {0}, into : Nat] /\ top.level >= level
  /\ Twice(top.level) + 2 * top.into = Twice(level) + 2 * into
  /\ top.into < Required(top.level)

LEMMA TwiceFacts ==
  ASSUME NEW l \in Nat
  PROVE  /\ Twice(l) \in Nat /\ Required(l) \in Nat /\ Required(l) > 0
         /\ Twice(l + 1) = Twice(l) + 2 * Required(l)
BY SMT DEF Twice, Required

LEMMA TwiceGrows ==
  ASSUME NEW l \in Nat, NEW m \in Nat, m > l
  PROVE  Twice(m) >= Twice(l) + 2 * Required(l)
<1>1. PICK k \in Nat : m = l + 1 + k
  <2>1. m - l - 1 \in Nat /\ m = l + 1 + (m - l - 1)
    OBVIOUS
  <2> QED
    BY <2>1
<1>2. Twice(m) = Twice(l + 1) + 25 * k * k + 50 * ((l + 1) * k) + 175 * k
  BY <1>1, SMT DEF Twice
<1>3. k * k \in Nat /\ (l + 1) * k \in Nat
  OBVIOUS
<1>4. Twice(l) \in Nat /\ Twice(l + 1) = Twice(l) + 2 * Required(l) /\ Required(l) \in Nat
  BY TwiceFacts
<1> HIDE DEF Twice, Required
<1> DEFINE a == k * k
           b == (l + 1) * k
<1>5. a \in Nat /\ b \in Nat
  BY <1>3
<1>6. Twice(m) = Twice(l + 1) + 25 * a + 50 * b + 175 * k
  <2>1. 25 * k * k = 25 * a
    BY SMT
  <2> QED
    BY <1>2, <2>1
<1> HIDE DEF a, b
<1> QED
  BY <1>1, <1>4, <1>5, <1>6

\* There is one such place, and one only.
LEMMA TopUnique ==
  ASSUME NEW l \in Nat \ {0}, NEW i \in Nat, NEW s, IsTop(l, i, s), NEW t, IsTop(l, i, t)
  PROVE  s = t
<1>1. /\ s.level \in Nat /\ t.level \in Nat /\ s.into \in Nat /\ t.into \in Nat
      /\ Twice(s.level) + 2 * s.into = Twice(t.level) + 2 * t.into
      /\ s.into < Required(s.level) /\ t.into < Required(t.level)
  BY DEF IsTop
<1>2. /\ Twice(s.level) \in Nat /\ Twice(t.level) \in Nat
      /\ Required(s.level) \in Nat /\ Required(t.level) \in Nat
  BY <1>1, TwiceFacts
<1>3. ~(s.level < t.level)
  BY <1>1, <1>2, TwiceGrows
<1>4. ~(t.level < s.level)
  BY <1>1, <1>2, TwiceGrows
<1>5. s.level = t.level /\ s.into = t.into
  BY <1>1, <1>2, <1>3, <1>4
<1> QED
  BY <1>5 DEF IsTop

LEMMA TopHere ==
  ASSUME NEW l \in Nat \ {0}, NEW i \in Nat, i < Required(l)
  PROVE  IsTop(l, i, [level |-> l, into |-> i])
BY DEF IsTop

LEMMA TopAbove ==
  ASSUME NEW l \in Nat \ {0}, NEW i \in Nat, ~(i < Required(l)),
         NEW t, IsTop(l + 1, i - Required(l), t)
  PROVE  IsTop(l, i, t)
<1>1. Twice(l + 1) = Twice(l) + 2 * Required(l) /\ Twice(l) \in Nat /\ Required(l) \in Nat
  BY TwiceFacts
<1>2. t.level \in Nat /\ t.into \in Nat /\ Twice(t.level) \in Nat
  BY TwiceFacts DEF IsTop
<1> QED
  BY <1>1, <1>2 DEF IsTop

\* By induction on the experience to spend.
LEMMA TopExists ==
  ASSUME NEW l \in Nat \ {0}, NEW i \in Nat
  PROVE  \E t : IsTop(l, i, t)
<1> DEFINE T == {n \in Nat : \A k \in Nat \ {0} : \A j \in 0 .. n : \E t : IsTop(k, j, t)}
<1>1. 0 \in T
  <2>1. ASSUME NEW k \in Nat \ {0}, NEW j \in 0 .. 0 PROVE \E t : IsTop(k, j, t)
    <3>1. j \in Nat /\ j < Required(k)
      BY TwiceFacts
    <3> QED
      BY <3>1, TopHere
  <2> QED
    BY <2>1
<1>2. ASSUME NEW n \in Nat, n \in T PROVE n + 1 \in T
  <2>1. \A k \in Nat \ {0} : \A j \in 0 .. n : \E t : IsTop(k, j, t)
    BY <1>2
  <2>2. ASSUME NEW k \in Nat \ {0}, NEW j \in 0 .. n + 1 PROVE \E t : IsTop(k, j, t)
    <3>1. j \in Nat /\ Required(k) \in Nat /\ Required(k) > 0
      BY TwiceFacts
    <3>2. CASE j < Required(k)
      BY <3>1, <3>2, TopHere
    <3>3. CASE ~(j < Required(k))
      <4>1. j - Required(k) \in 0 .. n /\ k + 1 \in Nat \ {0}
        BY <3>1, <3>3
      <4>2. PICK t : IsTop(k + 1, j - Required(k), t)
        BY <2>1, <4>1
      <4> QED
        BY <3>1, <3>3, <4>2, TopAbove
    <3> QED
      BY <3>2, <3>3
  <2>3. n + 1 \in Nat
    OBVIOUS
  <2> QED
    BY <2>2, <2>3
<1> HIDE DEF T
<1>3. i \in T
  BY <1>1, <1>2, InductionOverNat
<1> QED
  BY <1>3 DEF T

\* So the loop, written as a recursive function, is one.
Climbs(f) ==
  f = [place \in Places |->
         IF place.into < Required(place.level) THEN place
         ELSE f[[level |-> place.level + 1, into |-> place.into - Required(place.level)]]]

\* One level up.
Up(place) == [level |-> place.level + 1, into |-> place.into - Required(place.level)]

LEMMA UpIsPlace ==
  ASSUME NEW p \in Places, ~(p.into < Required(p.level))
  PROVE  /\ Up(p) \in Places /\ Up(p).level = p.level + 1
         /\ Up(p).into = p.into - Required(p.level) /\ Up(p).into < p.into
<1>1. p.level \in Nat /\ p.level > 0 /\ p.into \in Nat
  BY DEF Places
<1>2. Required(p.level) \in Nat /\ Required(p.level) > 0
  BY <1>1, TwiceFacts
<1> QED
  BY <1>1, <1>2 DEF Places, Up

LEMMA HereOrUp ==
  ASSUME NEW p \in Places, NEW t,
         IF p.into < Required(p.level) THEN t = p ELSE IsTop(Up(p).level, Up(p).into, t)
  PROVE  IsTop(p.level, p.into, t)
<1>1. p.level \in Nat \ {0} /\ p.into \in Nat /\ p = [level |-> p.level, into |-> p.into]
  BY DEF Places
<1>2. CASE p.into < Required(p.level)
  BY <1>1, <1>2, TopHere
<1>3. CASE ~(p.into < Required(p.level))
  BY <1>1, <1>3, UpIsPlace, TopAbove
<1> QED
  BY <1>2, <1>3

LEMMA ClimbExists == \E f : Climbs(f)
<1> DEFINE f == [p \in Places |-> CHOOSE t : IsTop(p.level, p.into, t)]
<1>1. ASSUME NEW p \in Places PROVE IsTop(p.level, p.into, f[p])
  <2>1. f[p] = CHOOSE t : IsTop(p.level, p.into, t)
    OBVIOUS
  <2>2. p.level \in Nat \ {0} /\ p.into \in Nat
    BY DEF Places
  <2>3. \E t : IsTop(p.level, p.into, t)
    BY <2>2, TopExists
  <2> HIDE DEF f
  <2> QED
    BY <2>1, <2>3, Zenon
<1>2. f = [p \in Places |-> f[p]]
  OBVIOUS
<1> HIDE DEF f
<1>3. ASSUME NEW p \in Places
      PROVE  f[p] = IF p.into < Required(p.level) THEN p ELSE f[Up(p)]
  <2>1. p.level \in Nat \ {0} /\ p.into \in Nat
    BY DEF Places
  <2>2. CASE p.into < Required(p.level)
    BY <1>1, <2>1, <2>2, HereOrUp, TopUnique
  <2>3. CASE ~(p.into < Required(p.level))
    <3>1. IsTop(Up(p).level, Up(p).into, f[Up(p)])
      BY <1>1, <2>3, UpIsPlace
    <3>2. IsTop(p.level, p.into, f[Up(p)])
      BY <2>3, <3>1, HereOrUp
    <3> QED
      BY <1>1, <2>1, <2>3, <3>2, TopUnique
  <2> QED
    BY <2>2, <2>3
<1> QED
  BY <1>2, <1>3 DEF Climbs, Up

LEMMA ClimbEquation ==
  ASSUME NEW p \in Places
  PROVE  Climb[p] = IF p.into < Required(p.level) THEN p ELSE Climb[Up(p)]
<1>1. Climb = CHOOSE f : Climbs(f)
  BY DEF Climb, Climbs
<1>2. Climbs(Climb)
  BY <1>1, ClimbExists, Zenon
<1> DEFINE g == Climb
<1>3. Climbs(g)
  BY <1>2
<1> HIDE DEF g
<1>4. g[p] = IF p.into < Required(p.level) THEN p ELSE g[Up(p)]
  BY <1>3 DEF Climbs, Up
<1> QED
  BY <1>4 DEF g

\* What the loop leaves: no threshold reached but not crossed, and no point lost.
LEMMA ClimbIsTop ==
  ASSUME NEW p \in Places
  PROVE  IsTop(p.level, p.into, Climb[p])
<1> DEFINE T == {n \in Nat : \A q \in Places : q.into <= n => IsTop(q.level, q.into, Climb[q])}
<1>0. \A q \in Places : q.level \in Nat \ {0} /\ q.into \in Nat /\ Required(q.level) \in Nat
                        /\ Required(q.level) > 0
  <2>1. ASSUME NEW q \in Places
        PROVE  q.level \in Nat \ {0} /\ q.into \in Nat
    BY DEF Places
  <2> QED
    BY <2>1, TwiceFacts
<1>1. 0 \in T
  <2>1. ASSUME NEW q \in Places, q.into <= 0 PROVE IsTop(q.level, q.into, Climb[q])
    <3>1. q.into < Required(q.level)
      BY <1>0, <2>1
    <3> QED
      BY <3>1, ClimbEquation, HereOrUp
  <2> QED
    BY <2>1
<1>2. ASSUME NEW n \in Nat, n \in T PROVE n + 1 \in T
  <2>1. \A q \in Places : q.into <= n => IsTop(q.level, q.into, Climb[q])
    BY <1>2
  <2>2. ASSUME NEW q \in Places, q.into <= n + 1 PROVE IsTop(q.level, q.into, Climb[q])
    <3>1. CASE q.into < Required(q.level)
      BY <3>1, ClimbEquation, HereOrUp
    <3>2. CASE ~(q.into < Required(q.level))
      <4>1. Up(q) \in Places /\ Up(q).into < q.into
        BY <3>2, UpIsPlace
      <4>2. Up(q).into <= n
        BY <1>0, <2>2, <4>1
      <4>3. IsTop(Up(q).level, Up(q).into, Climb[Up(q)])
        BY <2>1, <4>1, <4>2
      <4>4. Climb[q] = Climb[Up(q)]
        BY <3>2, ClimbEquation
      <4> QED
        BY <3>2, <4>3, <4>4, HereOrUp
    <3> QED
      BY <3>1, <3>2
  <2>3. n + 1 \in Nat
    OBVIOUS
  <2> QED
    BY <2>2, <2>3
<1> HIDE DEF T
<1>3. p.into \in T
  BY <1>0, <1>1, <1>2, InductionOverNat
<1>4. p.into <= p.into
  BY <1>0
<1> QED
  BY <1>3, <1>4 DEF T

\* The table of level thresholds is a function too, and counts the same.
Thresholds(f) ==
  f = [level \in Nat |-> IF level <= StartLevel THEN 0
                         ELSE f[level - 1] + Required(level - 1)]

LEMMA ThresholdExists == \E f : Thresholds(f)
<1>0. StartLevel \in Nat /\ Twice(StartLevel) \in Nat
  BY QuestsAssumption, TwiceFacts
<1> DEFINE Half(l, n) == n \in Nat /\ (IF l <= StartLevel THEN n = 0
                                       ELSE 2 * n = Twice(l) - Twice(StartLevel))
           T == {l \in Nat : \E n : Half(l, n)}
<1>1. 0 \in T
  <2>1. Half(0, 0)
    BY <1>0
  <2> QED
    BY <2>1
<1>2. ASSUME NEW l \in Nat, l \in T PROVE l + 1 \in T
  <2>1. PICK n : Half(l, n)
    BY <1>2
  <2>2. /\ Twice(l + 1) = Twice(l) + 2 * Required(l) /\ Required(l) \in Nat
        /\ Twice(l) \in Nat /\ Twice(l + 1) \in Nat
    BY TwiceFacts
  <2>3. ASSUME l + 1 <= StartLevel PROVE \E k : Half(l + 1, k)
    <3>1. Half(l + 1, 0)
      BY <2>3
    <3> QED
      BY <3>1
  <2>4. ASSUME ~(l + 1 <= StartLevel) PROVE \E k : Half(l + 1, k)
    <3>1. 2 * n = Twice(l) - Twice(StartLevel)
      <4>1. CASE l <= StartLevel
        <5>1. l = StartLevel /\ n = 0
          BY <1>0, <2>1, <2>4, <4>1
        <5> QED
          BY <1>0, <5>1
      <4> QED
        BY <2>1, <4>1
    <3>2. Half(l + 1, n + Required(l))
      BY <1>0, <2>1, <2>2, <2>4, <3>1
    <3> QED
      BY <3>2
  <2>5. \E k : Half(l + 1, k)
    BY <2>3, <2>4
  <2>6. l + 1 \in Nat
    OBVIOUS
  <2> HIDE DEF Half
  <2> QED
    BY <2>5, <2>6
<1> DEFINE f == [l \in Nat |-> CHOOSE n : Half(l, n)]
<1>3. \A l \in Nat : l \in T
  <2> HIDE DEF T
  <2> QED
    BY <1>1, <1>2, InductionOverNat
<1>4. ASSUME NEW l \in Nat PROVE Half(l, f[l])
  <2>1. f[l] = CHOOSE n : Half(l, n)
    OBVIOUS
  <2>2. \E n : Half(l, n)
    BY <1>3
  <2> HIDE DEF f, Half
  <2> QED
    BY <2>1, <2>2, Zenon
<1>5. f = [l \in Nat |-> f[l]]
  OBVIOUS
<1> HIDE DEF f
<1>6. ASSUME NEW l \in Nat
      PROVE  f[l] = IF l <= StartLevel THEN 0 ELSE f[l - 1] + Required(l - 1)
  <2>1. CASE l <= StartLevel
    BY <1>4, <2>1
  <2>2. CASE ~(l <= StartLevel)
    <3>1. l - 1 \in Nat
      BY <1>0, <2>2
    <3>2. /\ Twice(l) = Twice(l - 1) + 2 * Required(l - 1) /\ Required(l - 1) \in Nat
          /\ Twice(l) \in Nat /\ Twice(l - 1) \in Nat
      <4>1. (l - 1) + 1 = l
        BY <3>1
      <4> QED
        BY <3>1, <4>1, TwiceFacts
    <3>3. 2 * f[l - 1] = Twice(l - 1) - Twice(StartLevel) /\ f[l - 1] \in Nat
      <4>1. CASE l - 1 <= StartLevel
        <5>1. l - 1 = StartLevel
          BY <1>0, <2>2, <4>1
        <5>2. f[l - 1] = 0
          BY <1>4, <3>1, <4>1
        <5> QED
          BY <1>0, <5>1, <5>2
      <4>2. CASE ~(l - 1 <= StartLevel)
        BY <1>4, <3>1, <4>2
      <4> QED
        BY <4>1, <4>2
    <3>4. 2 * f[l] = Twice(l) - Twice(StartLevel) /\ f[l] \in Nat
      BY <1>4, <2>2
    <3>5. f[l] = f[l - 1] + Required(l - 1)
      BY <1>0, <3>2, <3>3, <3>4
    <3> QED
      BY <2>2, <3>5
  <2> QED
    BY <2>1, <2>2
<1> QED
  BY <1>5, <1>6 DEF Thresholds

LEMMA ThresholdCounts ==
  ASSUME NEW l \in Nat, l >= StartLevel
  PROVE  Threshold[l] \in Nat /\ 2 * Threshold[l] = Twice(l) - Twice(StartLevel)
<1>0. StartLevel \in Nat /\ Twice(StartLevel) \in Nat
  BY QuestsAssumption, TwiceFacts
<1>1. Threshold = CHOOSE f : Thresholds(f)
  BY DEF Threshold, Thresholds
<1>2. Thresholds(Threshold)
  BY <1>1, ThresholdExists, Zenon
<1> DEFINE g == Threshold
<1>3. Thresholds(g)
  BY <1>2
<1> HIDE DEF g
<1>4. \A k \in Nat : g[k] = IF k <= StartLevel THEN 0 ELSE g[k - 1] + Required(k - 1)
  BY <1>3 DEF Thresholds
<1> DEFINE T == {k \in Nat : k >= StartLevel =>
                              g[k] \in Nat /\ 2 * g[k] = Twice(k) - Twice(StartLevel)}
<1>5. 0 \in T
  BY <1>0, <1>4
<1>6. ASSUME NEW k \in Nat, k \in T PROVE k + 1 \in T
  <2>1. /\ Twice(k + 1) = Twice(k) + 2 * Required(k) /\ Required(k) \in Nat
        /\ Twice(k) \in Nat /\ Twice(k + 1) \in Nat
    BY TwiceFacts
  <2>2. CASE k >= StartLevel
    <3>1. g[k + 1] = g[k] + Required(k)
      <4>1. k + 1 \in Nat /\ ~(k + 1 <= StartLevel) /\ (k + 1) - 1 = k
        BY <1>0, <2>2
      <4> QED
        BY <1>4, <4>1
    <3>2. g[k] \in Nat /\ 2 * g[k] = Twice(k) - Twice(StartLevel)
      BY <1>6, <2>2
    <3> QED
      BY <1>0, <2>1, <3>1, <3>2
  <2>3. CASE ~(k >= StartLevel)
    <3>1. k + 1 >= StartLevel => k + 1 = StartLevel
      BY <1>0, <2>3
    <3>2. k + 1 = StartLevel => g[k + 1] = 0
      BY <1>0, <1>4
    <3> QED
      BY <1>0, <3>1, <3>2
  <2> QED
    BY <2>2, <2>3
<1> HIDE DEF T
<1>7. l \in T
  BY <1>5, <1>6, InductionOverNat
<1> QED
  BY <1>7 DEF T, g

-----------------------------------------------------------------------------
(* Levels: every game state, read or written, is on the curve.             *)

OnCurve(state) ==
  /\ state \in Games /\ state.level >= StartLevel
  /\ 2 * state.total = Twice(state.level) - Twice(StartLevel) + 2 * state.into
  /\ state.into < Required(state.level)

LEMMA FirstOnCurve == OnCurve(FirstGame)
<1>1. StartLevel \in Nat \ {0} /\ Twice(StartLevel) \in Nat
      /\ Required(StartLevel) \in Nat /\ Required(StartLevel) > 0
  BY QuestsAssumption, TwiceFacts
<1> QED
  BY <1>1 DEF OnCurve, FirstGame, Games

\* apply_xp: nothing is lost between total, level and what is left over.
LEMMA ApplyXpOnCurve ==
  ASSUME NEW state, OnCurve(state), NEW award \in Nat
  PROVE  LET after == ApplyXp(state, award)
         IN  /\ OnCurve(after) /\ after.level >= state.level
             /\ after.total = state.total + award
<1> DEFINE p == [level |-> state.level, into |-> state.into + award]
           top == Climb[p]
           after == ApplyXp(state, award)
<1>1. /\ state.level \in Nat \ {0} /\ state.into \in Nat /\ state.total \in Nat
      /\ state.level >= StartLevel
      /\ 2 * state.total = Twice(state.level) - Twice(StartLevel) + 2 * state.into
  BY DEF OnCurve, Games
<1>2. p \in Places /\ p.level = state.level /\ p.into = state.into + award
  BY <1>1 DEF Places
<1>3. IsTop(state.level, state.into + award, top)
  BY <1>2, ClimbIsTop
<1>4. after = [level |-> top.level, total |-> state.total + award, into |-> top.into]
  BY DEF ApplyXp
<1> HIDE DEF top, after, p
<1>5. /\ after.level = top.level /\ after.into = top.into
      /\ after.total = state.total + award
      /\ top.level \in Nat \ {0} /\ top.into \in Nat /\ top.level >= state.level
      /\ Twice(top.level) + 2 * top.into = Twice(state.level) + 2 * (state.into + award)
      /\ top.into < Required(top.level)
  BY <1>3, <1>4 DEF IsTop
<1>6. /\ Twice(top.level) \in Nat /\ Twice(state.level) \in Nat /\ Twice(StartLevel) \in Nat
      /\ StartLevel \in Nat
  BY <1>1, <1>5, QuestsAssumption, TwiceFacts
<1>7. after \in Games
  BY <1>1, <1>4, <1>5 DEF Games
<1>8. after.level >= StartLevel /\ after.level >= state.level
  BY <1>1, <1>5, <1>6
<1> DEFINE a == Twice(top.level)
           b == Twice(state.level)
           c == Twice(StartLevel)
<1>9. 2 * after.total = Twice(after.level) - Twice(StartLevel) + 2 * after.into
  <2>1. /\ 2 * state.total = b - c + 2 * state.into
        /\ a + 2 * top.into = b + 2 * (state.into + award)
        /\ a \in Nat /\ b \in Nat /\ c \in Nat
    BY <1>1, <1>5, <1>6
  <2> HIDE DEF a, b, c
  <2>2. 2 * (state.total + award) = a - c + 2 * top.into
    BY <1>1, <1>5, <2>1
  <2> QED
    BY <1>5, <2>2 DEF a, c
<1> QED
  BY <1>5, <1>7, <1>8, <1>9 DEF OnCurve, after

\* What a step does to the experience: nothing, or the one award of a completion.
Awards(r) ==
  /\ request[r].stage = "write" /\ request[r].form.kind = "complete"
  /\ ~request[r].awarded /\ ~Awarded(request[r].quest)
  /\ MarkCompleted(r) /\ GiveAward(r) /\ Answer(r, "answered")

Rests ==
  /\ UNCHANGED <<ledger, game, history>>
  /\ \/ seen' = seen
     \/ \E r \in Requests : seen' = [seen EXCEPT ![r] = FirstGame]
     \/ \E r \in Requests : seen' = [seen EXCEPT ![r] = game]

LEMMA AwardsOrRests ==
  ASSUME [Next]_vars
  PROVE  workers' = workers /\ (Rests \/ \E r \in Requests : Awards(r))
<1>1. CASE UNCHANGED vars
  BY <1>1 DEF vars, Rests
<1>2. ASSUME NEW q \in QuestIds, CreateQuest(q) PROVE workers' = workers /\ Rests
  BY <1>2 DEF CreateQuest, Rests
<1>3. ASSUME NEW r \in Requests, Handle(r)
      PROVE  workers' = workers /\ (Rests \/ \E s \in Requests : Awards(s))
  <2>1. CASE ReadQuest(r)
    BY <2>1 DEF ReadQuest, Answer, Proceed, Rests
  <2>2. CASE ReadGame(r) \/ ReadAward(r)
    BY <2>2 DEF ReadGame, ReadAward, Proceed, Rests
  <2>3. CASE ChangeStatus(r) \/ UpdateProgress(r)
    BY <2>3 DEF ChangeStatus, UpdateProgress, Answer, Rests
  <2>4. CASE Complete(r)
    <3>1. workers' = workers
      BY <2>4 DEF Complete, Answer
    <3>2. Rests \/ Awards(r)
      BY <2>4 DEF Complete, Answer, Rests, Awards
    <3> QED
      BY <3>1, <3>2
  <2> QED
    BY <1>3, <2>1, <2>2, <2>3, <2>4 DEF Handle
<1> QED
  BY <1>1, <1>2, <1>3 DEF Next

CurveInv ==
  /\ OnCurve(game) /\ seen \in [Requests -> Games] /\ \A r \in Requests : OnCurve(seen[r])
  /\ ledger \in [QuestIds -> [delta : Nat, before : Nat, after : Nat]]
  /\ history \in Seq(Nat) /\ workers \in WorkerCounts

\* The levels an award climbs.
Climbed(from, to) == [i \in 1 .. (to - from) |-> from + i]

LEMMA ClimbedIsSeq ==
  ASSUME NEW l \in Nat, NEW m \in Nat, l <= m
  PROVE  Climbed(l, m) \in Seq(Nat) /\ Len(Climbed(l, m)) = m - l
<1>1. m - l \in Nat
  OBVIOUS
<1>2. Climbed(l, m) \in [1 .. (m - l) -> Nat]
  BY DEF Climbed
<1> QED
  BY <1>1, <1>2

LEMMA CurveStep ==
  ASSUME AwardInv, CurveInv, [Next]_vars
  PROVE  CurveInv'
<1>1. workers' = workers /\ workers \in WorkerCounts
  BY AwardsOrRests DEF CurveInv
<1>2. CASE Rests
  <2>1. /\ seen' \in [Requests -> Games] /\ \A r \in Requests : OnCurve(seen'[r])
    <3>1. OnCurve(game) /\ OnCurve(FirstGame) /\ game \in Games /\ FirstGame \in Games
      BY FirstOnCurve DEF CurveInv, OnCurve
    <3> QED
      BY <1>2, <3>1 DEF Rests, CurveInv
  <2> QED
    BY <1>1, <1>2, <2>1 DEF Rests, CurveInv
<1>3. ASSUME NEW r \in Requests, Awards(r) PROVE CurveInv'
  <2> DEFINE q == request[r].quest
             state == seen[r]
             reward == task[q].reward
             after == ApplyXp(state, reward)
  <2>1. q \in QuestIds /\ reward \in Nat
    BY <1>3, MarkKeeps DEF Awards
  <2>2. OnCurve(state) /\ state \in Games
    BY DEF CurveInv, OnCurve
  <2>3. OnCurve(after) /\ after.level >= state.level
    BY <2>1, <2>2, ApplyXpOnCurve
  <2>4. /\ ledger' = [ledger EXCEPT ![q] = [delta |-> reward, before |-> state.level,
                                            after |-> after.level]]
        /\ game' = after /\ history' = history \o Climbed(state.level, after.level)
        /\ seen' = [seen EXCEPT ![r] = FirstGame]
    BY <1>3 DEF Awards, GiveAward, Answer, Climbed
  <2> HIDE DEF after, state, reward, q
  <2>5. state.level \in Nat /\ after.level \in Nat /\ state.level <= after.level
    BY <2>2, <2>3 DEF OnCurve, Games
  <2>6. ledger' \in [QuestIds -> [delta : Nat, before : Nat, after : Nat]]
    BY <2>1, <2>4, <2>5 DEF CurveInv
  <2>7. history' \in Seq(Nat)
    <3> DEFINE more == Climbed(state.level, after.level)
    <3>1. more \in Seq(Nat) /\ history \in Seq(Nat) /\ history' = history \o more
      BY <2>4, <2>5, ClimbedIsSeq DEF CurveInv
    <3> HIDE DEF more
    <3> QED
      BY <3>1
  <2>8. seen' \in [Requests -> Games] /\ \A s \in Requests : OnCurve(seen'[s])
    <3>1. OnCurve(FirstGame) /\ FirstGame \in Games
      BY FirstOnCurve DEF OnCurve
    <3> QED
      BY <2>4, <3>1 DEF CurveInv
  <2> QED
    BY <1>1, <2>3, <2>4, <2>6, <2>7, <2>8 DEF CurveInv
<1> QED
  BY <1>2, <1>3, AwardsOrRests

LEMMA CurveInit == Init => CurveInv
<1>1. SUFFICES ASSUME Init PROVE CurveInv
  OBVIOUS
<1>2. FirstGame \in Games
  BY FirstOnCurve DEF OnCurve
<1>3. <<>> \in Seq(Nat)
  OBVIOUS
<1>4. game = FirstGame /\ seen = [r \in Requests |-> FirstGame] /\ history = <<>>
      /\ workers \in WorkerCounts /\ ledger = [q \in QuestIds |-> NoAward]
  BY <1>1 DEF Init
<1>5. ledger \in [QuestIds -> [delta : Nat, before : Nat, after : Nat]]
  BY <1>4 DEF NoAward
<1> QED
  BY <1>2, <1>3, <1>4, <1>5, FirstOnCurve DEF CurveInv

LEMMA CurveHolds == Spec => []CurveInv
BY AwardHolds, CurveInit, CurveStep, PTL DEF Spec

\* Every variable of the quests keeps its type; the levels with them.
THEOREM QuestsTyped == Spec => []TypeOK
<1>1. AwardInv /\ CurveInv => TypeOK
  BY DEF AwardInv, PartTypes, CurveInv, OnCurve, TypeOK
<1> QED
  BY <1>1, AwardHolds, CurveHolds, PTL

\* However many awards race: total, level and what is left over within the level
\* tell one story, and no threshold stays reached but not crossed (apply_xp).
THEOREM LevelsExplained == Spec => []LevelExplained
<1>1. ASSUME CurveInv PROVE LevelExplained
  <2>1. OnCurve(game)
    BY <1>1 DEF CurveInv
  <2> DEFINE level == game.level
             total == game.total
             into == game.into
             start == Twice(StartLevel)
             here == Twice(level)
  <2>2. /\ level \in Nat /\ total \in Nat /\ into \in Nat /\ level >= StartLevel
        /\ 2 * total = here - start + 2 * into /\ into < Required(level)
    BY <2>1 DEF OnCurve, Games
  <2> DEFINE sum == Threshold[level]
  <2>3. sum \in Nat /\ 2 * sum = here - start
    BY <2>2, ThresholdCounts
  <2>4. start \in Nat /\ here \in Nat
    BY <2>2, TwiceFacts, QuestsAssumption
  <2>5. into < Required(level)
    BY <2>2
  <2> HIDE DEF level, total, into, start, here, sum
  <2>6. total = sum + into
    BY <2>2, <2>3, <2>4
  <2> QED
    BY <2>5, <2>6 DEF LevelExplained, level, total, into, sum
<1> QED
  BY <1>1, CurveHolds, PTL

-----------------------------------------------------------------------------
(* One request at a time: what was read is still so when it is written.    *)

LEMMA ClimbedJoins ==
  ASSUME NEW l \in Nat, NEW m \in Nat, NEW n \in Nat, l <= m, m <= n
  PROVE  Climbed(l, m) \o Climbed(m, n) = Climbed(l, n)
<1> DEFINE s == Climbed(l, m)
           t == Climbed(m, n)
           a == m - l
           b == n - m
<1>1. a \in Nat /\ b \in Nat /\ n - l = a + b /\ m = l + a
  OBVIOUS
<1>2. s \in Seq(Nat) /\ Len(s) = a /\ t \in Seq(Nat) /\ Len(t) = b
  BY ClimbedIsSeq
<1>3. /\ \A i \in 1 .. a : s[i] = l + i
      /\ \A i \in 1 .. b : t[i] = m + i
  BY DEF Climbed
<1>4. Climbed(l, n) = [i \in 1 .. (a + b) |-> l + i]
  BY <1>1 DEF Climbed
<1> HIDE DEF s, t, a, b
<1>5. s \o t \in Seq(Nat) /\ Len(s \o t) = a + b
  BY <1>2, ConcatProperties
<1>6. \A i \in 1 .. (a + b) : (s \o t)[i] = l + i
  <2>1. ASSUME NEW i \in 1 .. (a + b) PROVE (s \o t)[i] = l + i
    <3>1. CASE i <= a
      <4>1. i \in 1 .. a
        BY <1>1, <3>1
      <4>2. (s \o t)[i] = s[i]
        BY <1>2, <4>1
      <4> QED
        BY <1>3, <4>1, <4>2
    <3>2. CASE ~(i <= a)
      <4>1. i - a \in 1 .. b /\ i \in Int
        BY <1>1, <3>2
      <4>2. (s \o t)[i] = t[i - a]
        <5>1. i \in 1 .. (Len(s) + Len(t)) /\ ~(i <= Len(s))
          BY <1>2, <3>2
        <5>2. (s \o t)[i] = t[i - Len(s)]
          BY <1>2, <5>1, ConcatProperties
        <5> QED
          BY <1>2, <5>2
      <4>3. t[i - a] = m + (i - a)
        BY <1>3, <4>1
      <4> QED
        BY <1>1, <4>1, <4>2, <4>3
    <3> QED
      BY <3>1, <3>2
  <2> QED
    BY <2>1
<1>7. /\ Climbed(l, n) \in Seq(Nat) /\ Len(Climbed(l, n)) = a + b
      /\ \A i \in 1 .. (a + b) : Climbed(l, n)[i] = l + i
  <2>1. l <= n
    OBVIOUS
  <2> QED
    BY <1>1, <1>4, <2>1, ClimbedIsSeq
<1> DEFINE u == s \o t
           v == Climbed(l, n)
<1>9. /\ u \in Seq(Nat) /\ Len(u) = a + b /\ v \in Seq(Nat) /\ Len(v) = a + b
      /\ \A i \in 1 .. (a + b) : u[i] = v[i]
  BY <1>5, <1>6, <1>7
<1> HIDE DEF u, v
<1>10. u = v
  BY <1>9
<1>8. s \o t = Climbed(l, n)
  BY <1>10 DEF u, v
<1> QED
  BY <1>8 DEF s, t

ReadingNow == {s \in Requests : request[s].stage \in Reading}

\* What a handler has read holds still.
StillTrue(r) ==
  LET q == request[r].quest
      kind == request[r].form.kind
      stage == request[r].stage
  IN  /\ request[r].status = task[q].status
      /\ kind # "complete" => task[q].status # "completed"
      /\ kind = "complete" /\ stage \in {"award", "write"} => seen[r] = game
      /\ kind = "complete" /\ stage = "write" => request[r].awarded = Awarded(q)

AloneInv ==
  /\ IsFiniteSet(ReadingNow)
  /\ workers = 1 =>
       /\ \A r, s \in ReadingNow : r = s
       /\ \A r \in ReadingNow : StillTrue(r)
       /\ game.total = Cardinality(Points(ledger))
       /\ history = Climbed(StartLevel, game.level)

\* A handler that ends leaves no other behind, with one worker.
LEMMA EndsAlone ==
  ASSUME AwardInv, AloneInv, NEW r \in Requests, request[r].stage \in Reading,
         NEW how \in Ended, Answer(r, how)
  PROVE  /\ IsFiniteSet(ReadingNow')
         /\ workers = 1 => ReadingNow' = {}
<1>1. \A s \in Requests : request'[s].stage \in Reading => s # r /\ request'[s] = request[s]
  BY AnswerKeeps
<1>2. ReadingNow' \subseteq ReadingNow \ {r}
  BY <1>1 DEF ReadingNow
<1>3. IsFiniteSet(ReadingNow')
  BY <1>2, FS_Subset DEF AloneInv
<1>4. workers = 1 => ReadingNow' = {}
  BY <1>2 DEF AloneInv, ReadingNow
<1> QED
  BY <1>3, <1>4

\* So the invariant is about the experience alone when a handler ends.
LEMMA EndKeepsAlone ==
  ASSUME AwardInv, AloneInv, NEW r \in Requests, request[r].stage \in Reading,
         NEW how \in Ended, Answer(r, how),
         workers = 1 => /\ game'.total = Cardinality(Points(ledger'))
                        /\ history' = Climbed(StartLevel, game'.level)
  PROVE  AloneInv'
<1>1. workers' = workers
  BY DEF Answer
<1>2. IsFiniteSet(ReadingNow') /\ (workers = 1 => ReadingNow' = {})
  BY EndsAlone
<1> QED
  BY <1>1, <1>2 DEF AloneInv

LEMMA CreateKeepsAlone ==
  ASSUME AwardInv, AloneInv, NEW q \in QuestIds, CreateQuest(q)
  PROVE  AloneInv'
<1>1. UNCHANGED <<ledger, game, history, request, seen, workers>>
  BY DEF CreateQuest
<1>2. PICK t : task' = [task EXCEPT ![q] = t]
  BY DEF CreateQuest
<1>3. task[q].status = "none"
  BY DEF CreateQuest, NoTask
<1>4. \A r \in ReadingNow : request[r].quest # q /\ request[r].quest \in QuestIds
  BY <1>3 DEF ReadingNow, AwardInv, RewardsKnown
<1>5. \A r \in ReadingNow : task'[request[r].quest] = task[request[r].quest]
  BY <1>2, <1>4 DEF AwardInv, PartTypes
<1>6. ReadingNow' = ReadingNow
  BY <1>1 DEF ReadingNow
<1>7. ASSUME NEW r \in ReadingNow, StillTrue(r) PROVE StillTrue(r)'
  BY <1>1, <1>5, <1>7 DEF StillTrue, Awarded
<1> QED
  BY <1>1, <1>6, <1>7 DEF AloneInv

LEMMA ReadKeepsAlone ==
  ASSUME AwardInv, AloneInv, NEW r \in Requests, ReadQuest(r)
  PROVE  AloneInv'
<1>1. /\ UNCHANGED <<task, logged, ledger, game, timeline, history>>
      /\ request[r].stage = "idle"
      /\ Cardinality(ReadingNow) < workers
  BY DEF ReadQuest, MayStart, ReadingNow
<1>2. PICK q \in Created, sent \in Forms :
        IF sent.kind # "complete" /\ task[q].status = "completed" THEN Answer(r, "answered")
        ELSE Proceed(r, Reader(q, sent))
  BY DEF ReadQuest
<1>3. PICK state : /\ request' = [request EXCEPT ![r] = state] /\ workers' = workers
                   /\ \/ state = [Idle EXCEPT !.stage = "answered"]
                      \/ /\ ~(sent.kind # "complete" /\ task[q].status = "completed")
                         /\ state = Reader(q, sent)
  BY <1>2 DEF Answer, Proceed
<1>4. ReadingNow' \subseteq ReadingNow \cup {r}
  BY <1>3 DEF ReadingNow, AwardInv, PartTypes
<1>5. IsFiniteSet(ReadingNow')
  <2>1. IsFiniteSet(ReadingNow \cup {r})
    BY FS_AddElement DEF AloneInv
  <2> QED
    BY <1>4, <2>1, FS_Subset
<1>6. ASSUME workers = 1
      PROVE  ReadingNow' \subseteq {r} /\ \A s \in ReadingNow' : StillTrue(s)'
  <2>1. ReadingNow = {}
    <3>1. IsFiniteSet(ReadingNow) /\ Cardinality(ReadingNow) \in Nat
      BY FS_CardinalityType DEF AloneInv
    <3>2. Cardinality(ReadingNow) = 0
      BY <1>1, <1>6, <3>1
    <3> QED
      BY <3>1, <3>2, FS_EmptySet
  <2>2. ReadingNow' \subseteq {r}
    BY <1>4, <2>1
  <2>3. ASSUME r \in ReadingNow' PROVE StillTrue(r)'
    <3>1. request'[r] = state
      BY <1>3 DEF AwardInv, PartTypes
    <3>2. state.stage \in Reading
      BY <2>3, <3>1 DEF ReadingNow
    <3>3. /\ ~(sent.kind # "complete" /\ task[q].status = "completed")
          /\ state = Reader(q, sent)
      BY <1>3, <3>2, IdleTyping DEF Ended
    <3>4. /\ state.quest = q /\ state.form = sent /\ state.status = task[q].status
          /\ state.form.kind = "complete" => state.stage = "game"
      BY <3>3 DEF Reader, Idle
    <3> QED
      BY <1>1, <3>1, <3>3, <3>4 DEF StillTrue
  <2> QED
    BY <2>2, <2>3
<1> QED
  BY <1>1, <1>3, <1>5, <1>6 DEF AloneInv

\* The two later reads of complete_quest, which reads for nothing else.
LEMMA LaterReadsKeepAlone ==
  ASSUME AwardInv, AloneInv, NEW r \in Requests, ReadGame(r) \/ ReadAward(r)
  PROVE  AloneInv'
<1>1. /\ UNCHANGED <<task, logged, ledger, game, timeline, history, workers>>
      /\ r \in ReadingNow
  BY DEF ReadGame, ReadAward, Proceed, ReadingNow, Reading
<1>2. /\ \A s \in Requests : s # r => request'[s] = request[s]
      /\ request'[r].stage \in Reading
  <2>1. request \in [Requests -> Handlers] /\ request[r] \in Handlers
    BY DEF AwardInv, PartTypes
  <2>2. CASE ReadGame(r)
    <3>1. request' = [request EXCEPT ![r].stage = "award"]
      BY <2>2 DEF ReadGame
    <3>2. request'[r] = [request[r] EXCEPT !.stage = "award"]
      BY <2>1, <3>1
    <3>3. request'[r].stage = "award"
      BY <2>1, <3>2 DEF Handlers
    <3> QED
      BY <2>1, <3>1, <3>3 DEF Reading
  <2>3. CASE ReadAward(r)
    <3>1. request' = [request EXCEPT ![r] =
            [request[r] EXCEPT !.awarded = Awarded(request[r].quest), !.stage = "write"]]
      BY <2>3 DEF ReadAward, Proceed
    <3>2. request'[r] =
            [request[r] EXCEPT !.awarded = Awarded(request[r].quest), !.stage = "write"]
      BY <2>1, <3>1
    <3>3. request'[r].stage = "write"
      BY <2>1, <3>2 DEF Handlers
    <3> QED
      BY <2>1, <3>1, <3>3 DEF Reading
  <2> QED
    BY <2>2, <2>3
<1>3. ReadingNow' = ReadingNow
  BY <1>1, <1>2 DEF ReadingNow
<1>4. ASSUME StillTrue(r) PROVE StillTrue(r)'
  <2>1. request[r] \in Handlers
    BY DEF AwardInv, PartTypes
  <2>2. CASE ReadGame(r)
    <3>1. /\ request' = [request EXCEPT ![r].stage = "award"]
          /\ seen' = [seen EXCEPT ![r] = game]
      BY <2>2 DEF ReadGame
    <3>2. seen'[r] = game /\ request'[r] = [request[r] EXCEPT !.stage = "award"]
      BY <3>1 DEF AwardInv, PartTypes
    <3>3. /\ request'[r].stage = "award" /\ request'[r].quest = request[r].quest
          /\ request'[r].form = request[r].form /\ request'[r].status = request[r].status
      BY <2>1, <3>2 DEF Handlers
    <3> QED
      BY <1>1, <1>4, <3>2, <3>3 DEF StillTrue
  <2>3. CASE ReadAward(r)
    <3>1. /\ request' = [request EXCEPT ![r] =
               [request[r] EXCEPT !.awarded = Awarded(request[r].quest), !.stage = "write"]]
          /\ seen' = seen /\ request[r].stage = "award"
      BY <2>3 DEF ReadAward, Proceed
    <3>2. request'[r] =
            [request[r] EXCEPT !.awarded = Awarded(request[r].quest), !.stage = "write"]
      BY <3>1 DEF AwardInv, PartTypes
    <3>3. /\ request'[r].stage = "write" /\ request'[r].quest = request[r].quest
          /\ request'[r].form = request[r].form /\ request'[r].status = request[r].status
          /\ request'[r].awarded = Awarded(request[r].quest)
      BY <2>1, <3>2 DEF Handlers
    <3> QED
      BY <1>1, <1>4, <3>1, <3>3 DEF StillTrue, Awarded
  <2> QED
    BY <2>2, <2>3
<1>5. workers = 1 => \A s \in ReadingNow' : s = r
  BY <1>1, <1>3 DEF AloneInv
<1> QED
  BY <1>1, <1>3, <1>4, <1>5 DEF AloneInv

LEMMA AwardKeepsAlone ==
  ASSUME AwardInv, CurveInv, AloneInv, NEW r \in Requests, Awards(r)
  PROVE  AloneInv'
<1> DEFINE q == request[r].quest
           state == seen[r]
           reward == task[q].reward
           after == ApplyXp(state, reward)
<1>1. /\ request[r].stage = "write" /\ request[r].form.kind = "complete"
      /\ ~Awarded(q) /\ Answer(r, "answered")
  BY DEF Awards
<1>2. q \in QuestIds /\ reward \in Nat
  BY MarkKeeps DEF Awards
<1>3. /\ ledger' = [ledger EXCEPT ![q] = [delta |-> reward, before |-> state.level,
                                          after |-> after.level]]
      /\ game' = after /\ history' = history \o Climbed(state.level, after.level)
  BY DEF Awards, GiveAward, Climbed
<1>4. OnCurve(state)
  BY DEF CurveInv
<1>5. OnCurve(after) /\ after.level >= state.level /\ after.total = state.total + reward
  BY <1>2, <1>4, ApplyXpOnCurve
<1>6. ASSUME workers = 1
      PROVE  /\ game'.total = Cardinality(Points(ledger'))
             /\ history' = Climbed(StartLevel, game'.level)
  <2>1. /\ state = game /\ game.total = Cardinality(Points(ledger))
        /\ history = Climbed(StartLevel, game.level)
    BY <1>1, <1>6 DEF AloneInv, ReadingNow, Reading, StillTrue
  <2>2. \A x \in QuestIds : ledger[x].delta \in Nat
    BY DEF CurveInv
  <2>3. ledger[q].delta = 0
    BY <1>1, <1>2, <2>2 DEF Awarded
  <2> HIDE DEF after, reward
  <2>4. ledger'[q].delta = reward /\ \A x \in QuestIds \ {q} : ledger'[x] = ledger[x]
    BY <1>2, <1>3 DEF CurveInv
  <2>5. Cardinality(Points(ledger')) = Cardinality(Points(ledger)) + reward
    BY <1>2, <2>2, <2>3, <2>4, PointsAdded
  <2>6. history' = Climbed(StartLevel, after.level)
    <3>1. /\ StartLevel \in Nat /\ game.level \in Nat /\ after.level \in Nat
          /\ StartLevel <= game.level /\ game.level <= after.level
      BY <1>4, <1>5, <2>1, QuestsAssumption DEF OnCurve, Games
    <3> QED
      BY <1>3, <2>1, <3>1, ClimbedJoins
  <2> QED
    BY <1>3, <1>5, <2>1, <2>5, <2>6
<1> QED
  BY <1>1, <1>6, EndKeepsAlone DEF Reading, Ended

LEMMA AloneStep ==
  ASSUME AwardInv, CurveInv, AloneInv, [Next]_vars
  PROVE  AloneInv'
<1>1. CASE UNCHANGED vars
  BY <1>1 DEF vars, AloneInv, ReadingNow, StillTrue, Awarded
<1>2. ASSUME NEW q \in QuestIds, CreateQuest(q) PROVE AloneInv'
  BY <1>2, CreateKeepsAlone
<1>3. ASSUME NEW r \in Requests, Handle(r) PROVE AloneInv'
  <2>1. CASE ReadQuest(r)
    BY <2>1, ReadKeepsAlone
  <2>2. CASE ReadGame(r) \/ ReadAward(r)
    BY <2>2, LaterReadsKeepAlone
  <2>3. ASSUME request[r].stage = "write", UNCHANGED <<ledger, game, history>>,
               NEW how \in Ended, Answer(r, how)
        PROVE  AloneInv'
    BY <2>3, EndKeepsAlone DEF Reading, AloneInv
  <2>4. CASE ChangeStatus(r) \/ UpdateProgress(r)
    BY <2>3, <2>4 DEF ChangeStatus, UpdateProgress, Ended
  <2>5. CASE Complete(r)
    <3>1. Awards(r) \/ /\ UNCHANGED <<ledger, game, history>> /\ request[r].stage = "write"
                       /\ \E how \in Ended : Answer(r, how)
      BY <2>5 DEF Complete, Awards, Ended
    <3> QED
      BY <2>3, <3>1, AwardKeepsAlone
  <2> QED
    BY <1>3, <2>1, <2>2, <2>4, <2>5 DEF Handle
<1> QED
  BY <1>1, <1>2, <1>3 DEF Next

LEMMA AloneInit == Init => AloneInv
<1>1. SUFFICES ASSUME Init PROVE AloneInv
  OBVIOUS
<1>2. ReadingNow = {}
  BY <1>1 DEF Init, ReadingNow, Idle, Reading
<1>3. IsFiniteSet(ReadingNow)
  BY <1>2, FS_EmptySet
<1>4. game.total = Cardinality(Points(ledger))
  <2>1. \A q \in QuestIds : ledger[q].delta = 0
    BY <1>1 DEF Init, NoAward
  <2>2. \A q \in QuestIds : {q} \X (1 .. ledger[q].delta) = {}
    BY <2>1
  <2>3. Points(ledger) = {}
    BY <2>2 DEF Points
  <2>4. game.total = 0
    BY <1>1 DEF Init, FirstGame
  <2> QED
    BY <2>3, <2>4, FS_EmptySet
<1>5. history = Climbed(StartLevel, game.level)
  <2>1. history = <<>> /\ game.level = StartLevel /\ StartLevel \in Nat
    BY <1>1, QuestsAssumption DEF Init, FirstGame
  <2>2. Climbed(StartLevel, StartLevel) \in Seq(Nat) /\ Len(Climbed(StartLevel, StartLevel)) = 0
    BY <2>1, ClimbedIsSeq
  <2> QED
    BY <2>1, <2>2
<1> QED
  BY <1>2, <1>3, <1>4, <1>5 DEF AloneInv

LEMMA AloneHolds == Spec => []AloneInv
BY AwardHolds, CurveHolds, AloneInit, AloneStep, PTL DEF Spec

\* Level and total explain each other always; with one request at a time the total is
\* the sum of the ledger and each level is recorded (complete_quest, apply_xp).
THEOREM ExperienceHolds == Spec => []ExperienceExplained
<1>1. CurveInv /\ AloneInv /\ LevelExplained => ExperienceExplained
  <2> SUFFICES ASSUME CurveInv, AloneInv, LevelExplained PROVE ExperienceExplained
    OBVIOUS
  <2>1. XpTotalIsLedger
    BY DEF AloneInv, XpTotalIsLedger
  <2>2. LevelsRecorded
    BY DEF AloneInv, LevelsRecorded, Climbed
  <2> QED
    BY <2>1, <2>2 DEF ExperienceExplained
<1> QED
  BY <1>1, CurveHolds, AloneHolds, LevelsExplained, PTL

\* One request at a time, a completed quest stays completed (set_quest_status,
\* update_quest_progress and complete_quest look at the status first).
THEOREM CompletedQuestsStay == Spec => CompletedStays
<1> DEFINE Stays == workers = 1 =>
             \A q \in QuestIds : task[q].status = "completed" => task'[q].status = "completed"
<1>1. ASSUME AwardInv, AloneInv, [Next]_vars PROVE [Stays]_vars
  <2>1. SUFFICES ASSUME Next, workers = 1, NEW q \in QuestIds, task[q].status = "completed"
                 PROVE  task'[q].status = "completed"
    BY <1>1
  <2>2. CASE task' = task
    BY <2>1, <2>2
  <2>3. ASSUME NEW x \in QuestIds, CreateQuest(x) PROVE task'[q].status = "completed"
    <3>1. task[x] = NoTask /\ \E t : task' = [task EXCEPT ![x] = t]
      BY <2>3 DEF CreateQuest
    <3>2. x # q
      BY <2>1, <3>1 DEF NoTask
    <3> QED
      BY <1>1, <2>1, <3>1, <3>2 DEF AwardInv, PartTypes
  <2>4. ASSUME NEW r \in Requests, Handle(r) PROVE task'[q].status = "completed"
    <3>1. CASE ReadQuest(r) \/ ReadGame(r) \/ ReadAward(r)
      BY <2>2, <3>1 DEF ReadQuest, ReadGame, ReadAward
    <3>2. CASE ChangeStatus(r) \/ UpdateProgress(r)
      <4>1. request[r].stage = "write" /\ request[r].form.kind # "complete"
        BY <3>2 DEF ChangeStatus, UpdateProgress, Changes
      <4>2. task[request[r].quest].status # "completed"
        BY <1>1, <2>1, <4>1 DEF AloneInv, StillTrue, ReadingNow, Reading
      <4>3. request[r].quest # q
        BY <2>1, <4>2
      <4>4. task'[q] = task[q]
        BY <1>1, <3>2, <4>3, SMTT(30) DEF ChangeStatus, UpdateProgress, AwardInv, PartTypes
      <4> QED
        BY <2>1, <4>4, SMTT(30)
    <3>3. CASE Complete(r)
      <4>1. CASE task' = task
        BY <2>2, <4>1
      <4>2. CASE MarkCompleted(r) /\ request[r].status # "completed"
        <5>1. task' = [task EXCEPT ![request[r].quest].status = "completed",
                                   ![request[r].quest].progress = 100,
                                   ![request[r].quest].minutes = @ + request[r].form.minutes]
          BY <4>2 DEF MarkCompleted
        <5>2. task \in [QuestIds -> Tasks]
          BY <1>1 DEF AwardInv, PartTypes
        <5>3. CASE q = request[r].quest
          BY <5>1, <5>2, <5>3 DEF Tasks
        <5>4. CASE q # request[r].quest
          BY <2>1, <5>1, <5>2, <5>4
        <5> QED
          BY <5>3, <5>4, SMTT(30)
      <4> QED
        BY <3>3, <4>1, <4>2 DEF Complete, MarkCompleted
    <3> QED
      BY <2>4, <3>1, <3>2, <3>3 DEF Handle
  <2> QED
    BY <2>1, <2>3, <2>4 DEF Next
<1> QED
  BY <1>1, AwardHolds, AloneHolds, PTL DEF Spec, CompletedStays

-----------------------------------------------------------------------------
(* The chat and its audit: types, calls and links.                         *)

Ops == {"idle", "archive", "delete session", "save", "delete message", "run", "append",
        "finalize"}

SessionRows == [status : {"none", "active", "archived", "gone"}, last : MessageIds \cup {0}]
MessageRows == [status : {"none", "kept", "deleted", "gone"}, session : SessionIds \cup {0},
                user : BOOLEAN]
RunStatuses == {"none", "running"} \cup TerminalStatuses
RunRows == [status : RunStatuses, session : SessionIds \cup {0}, message : MessageIds \cup {0},
            steps : SUBSET StepRow, count : Nat, cost : Nat]

ChatTypes ==
  /\ session \in [SessionIds -> SessionRows]
  /\ message \in [MessageIds -> MessageRows]
  /\ agentRun \in [RunIds -> RunRows]
  /\ call \in [Callers -> [op : Ops, id : Nat]]
  /\ atOnce \in CallerCounts /\ chatRoom \in ChatRooms

\* A call is about a row that was there when it was looked up.
CallHasRow(k) ==
  /\ k.op \in {"archive", "delete session", "save"} =>
       k.id \in SessionIds /\ session[k.id].status # "none"
  /\ k.op \in {"delete message", "run"} =>
       k.id \in MessageIds /\ message[k.id].status # "none"
  /\ k.op \in {"append", "finalize"} =>
       k.id \in RunIds /\ agentRun[k.id].status # "none"

CallsHaveRows == \A c \in Callers : CallHasRow(call[c])

\* One caller at a time: the session it looked at is still active.
AloneChat ==
  /\ Cardinality(Busy) <= atOnce
  /\ atOnce = 1 =>
       /\ \A c, d \in Busy : c = d
       /\ \A c \in Callers : call[c].op = "save" => session[call[c].id].status = "active"

\* A message that can be seen is of a session that can be; a run names rows that
\* are there, and a message of its own session.
LinksHold ==
  /\ \A m \in MessageIds :
       /\ message[m].status = "none" => message[m].session = 0
       /\ message[m].status \in {"kept", "deleted"} => message[m].session \in LiveSessions
  /\ \A s \in SessionIds : session[s].status = "none" => session[s].last = 0
  /\ \A r \in RunIds :
       /\ agentRun[r].session \in LiveSessions \cup {0}
       /\ agentRun[r].message \in ChatMessages \cup {0}
       /\ agentRun[r].message # 0 => message[agentRun[r].message].session = agentRun[r].session

\* Message ids grow.
MessagesInOrder ==
  \A m, i \in MessageIds : message[m].status # "none" /\ i < m => message[i].status # "none"

\* The part of StepsAndTotalsAgree about one run.
RunAddsUp(run) ==
  /\ IsFiniteSet(run.steps)
  /\ {s.number : s \in run.steps} = 1 .. Cardinality(run.steps)
  /\ \A s, t \in run.steps : s.key = t.key /\ s.key # NoStepKey => s = t
  /\ run.count = Cardinality(run.steps)
  /\ run.cost = CostOf(run.steps) /\ run.cost <= MaxInteger

RunsAddUp == \A r \in RunIds : RunAddsUp(agentRun[r])

AuditInv ==
  /\ ChatTypes /\ CallsHaveRows /\ AloneChat /\ LinksHold /\ MessagesInOrder
  /\ ActivityIsNewest /\ RunsAddUp

LEMMA IdsArePositive ==
  /\ \A s \in SessionIds : s \in Nat /\ s # 0
  /\ \A m \in MessageIds : m \in Nat /\ m # 0
  /\ \A r \in RunIds : r \in Nat /\ r # 0
BY ChatAuditAssumption

LEMMA BusyIsFinite == IsFiniteSet(Busy) /\ Cardinality(Busy) \in Nat
<1>1. Busy \subseteq Callers
  BY DEF Busy
<1>2. IsFiniteSet(Busy)
  BY <1>1, FS_Subset, ChatAuditAssumption
<1> QED
  BY <1>2, FS_CardinalityType

\* No row is taken back to "none".
RowsStay ==
  /\ \A s \in SessionIds : session[s].status # "none" => session'[s].status # "none"
  /\ \A m \in MessageIds : message[m].status # "none" => message'[m].status # "none"
  /\ \A r \in RunIds : agentRun[r].status # "none" => agentRun'[r].status # "none"

\* A call ends: the others keep their rows.
LEMMA EndingCall ==
  ASSUME AuditInv, RowsStay, NEW c \in Callers, call[c].op # "idle",
         call' = [call EXCEPT ![c] = NoCall], UNCHANGED <<atOnce, chatRoom>>
  PROVE  /\ call' \in [Callers -> [op : Ops, id : Nat]]
         /\ CallsHaveRows'
         /\ AloneChat'
         /\ atOnce = 1 => \A d \in Callers : call'[d].op = "idle"
<1>0. ChatTypes /\ CallsHaveRows /\ AloneChat
  BY DEF AuditInv
<1>1. call \in [Callers -> [op : Ops, id : Nat]] /\ NoCall \in [op : Ops, id : Nat]
      /\ NoCall.op = "idle"
  BY <1>0 DEF ChatTypes, NoCall, Ops
<1>2. call' \in [Callers -> [op : Ops, id : Nat]]
  BY <1>1
<1>3. call'[c].op = "idle" /\ \A d \in Callers : d # c => call'[d] = call[d]
  BY <1>1
<1>4. CallsHaveRows'
  <2>1. ASSUME NEW d \in Callers PROVE CallHasRow(call[d])'
    <3>1. CASE d = c
      BY <1>3, <3>1 DEF CallHasRow
    <3>2. CASE d # c
      <4>1. call'[d] = call[d] /\ CallHasRow(call[d])
        BY <1>0, <1>3, <3>2 DEF CallsHaveRows
      <4> QED
        BY <4>1 DEF CallHasRow, RowsStay
    <3> QED
      BY <3>1, <3>2
  <2> QED
    BY <2>1 DEF CallsHaveRows
<1>5. Busy' \subseteq Busy \ {c} /\ c \in Busy
  BY <1>3 DEF Busy
<1>6. Cardinality(Busy') <= atOnce'
  <2>1. Cardinality(Busy') <= Cardinality(Busy) /\ Cardinality(Busy') \in Nat
    BY <1>5, BusyIsFinite, FS_Subset, FS_CardinalityType
  <2>2. atOnce' = atOnce /\ atOnce \in Nat /\ Cardinality(Busy) <= atOnce
    BY <1>0, ChatAuditAssumption DEF ChatTypes, AloneChat
  <2> QED
    BY <2>1, <2>2, BusyIsFinite
<1>7. atOnce = 1 => Busy' = {}
  BY <1>0, <1>5 DEF AloneChat
<1>8. atOnce = 1 => \A d \in Callers : call'[d].op = "idle"
  BY <1>7 DEF Busy
<1>9. AloneChat'
  <2>1. atOnce' = 1 => /\ \A d, e \in Busy' : d = e
                       /\ \A d \in Callers : call'[d].op # "save"
    BY <1>7, <1>8
  <2> QED
    BY <1>6, <2>1 DEF AloneChat
<1> QED
  BY <1>2, <1>4, <1>8, <1>9

\* A call begins: it has its row, and one caller at a time it is the only one.
LEMMA BeginningCall ==
  ASSUME AuditInv, NEW c \in Callers, NEW op \in Ops \ {"idle"}, NEW id \in Nat,
         CallHasRow([op |-> op, id |-> id]),
         op = "save" => session[id].status = "active",
         Begin(c, op, id), UNCHANGED <<atOnce, chatRoom>>
  PROVE  AuditInv'
<1>0. ChatTypes /\ CallsHaveRows /\ AloneChat
  BY DEF AuditInv
<1> DEFINE k == [op |-> op, id |-> id]
<1>1. /\ call' = [call EXCEPT ![c] = k] /\ call[c].op = "idle" /\ Cardinality(Busy) < atOnce
      /\ session' = session /\ message' = message /\ agentRun' = agentRun
  BY DEF Begin
<1>2. k \in [op : Ops, id : Nat] /\ k.op = op /\ k.id = id /\ CallHasRow(k)
  OBVIOUS
<1> HIDE DEF k
<1>3. call' \in [Callers -> [op : Ops, id : Nat]] /\ call'[c] = k
      /\ \A d \in Callers : d # c => call'[d] = call[d]
  BY <1>0, <1>1, <1>2 DEF ChatTypes
<1>4. CallsHaveRows'
  <2>1. ASSUME NEW d \in Callers PROVE CallHasRow(call[d])'
    <3>1. CallHasRow(call'[d])
      BY <1>0, <1>2, <1>3 DEF CallsHaveRows
    <3> QED
      BY <1>1, <3>1 DEF CallHasRow
  <2> QED
    BY <2>1 DEF CallsHaveRows
<1>5. Busy' \subseteq Busy \cup {c}
  BY <1>3 DEF Busy
<1>6. /\ IsFiniteSet(Busy \cup {c}) /\ Cardinality(Busy \cup {c}) \in Nat
      /\ Cardinality(Busy \cup {c}) <= Cardinality(Busy) + 1
  <2>1. c \notin Busy
    BY <1>1 DEF Busy
  <2>2. IsFiniteSet(Busy \cup {c}) /\ Cardinality(Busy \cup {c}) = Cardinality(Busy) + 1
    BY <2>1, BusyIsFinite, FS_AddElement
  <2> QED
    BY <2>2, BusyIsFinite
<1>7. atOnce \in Nat /\ atOnce' = atOnce
  BY <1>0, ChatAuditAssumption DEF ChatTypes
<1>8. Cardinality(Busy') <= atOnce'
  <2>1. Cardinality(Busy') <= Cardinality(Busy \cup {c}) /\ Cardinality(Busy') \in Nat
    BY <1>5, <1>6, FS_Subset, FS_CardinalityType
  <2> QED
    BY <1>1, <1>6, <1>7, <2>1, BusyIsFinite
<1>9. ASSUME atOnce = 1
      PROVE  /\ \A d, e \in Busy' : d = e
             /\ \A d \in Callers : call'[d].op = "save" => session'[call'[d].id].status = "active"
  <2>1. Busy = {}
    <3>1. Cardinality(Busy) = 0
      BY <1>1, <1>9, BusyIsFinite
    <3> QED
      BY <3>1, BusyIsFinite, FS_EmptySet
  <2>2. \A d, e \in Busy' : d = e
    BY <1>5, <2>1
  <2>3. \A d \in Callers : d # c => call[d].op = "idle"
    BY <2>1 DEF Busy
  <2> QED
    BY <1>1, <1>2, <1>3, <2>2, <2>3
<1>10. AloneChat'
  BY <1>7, <1>8, <1>9 DEF AloneChat
<1>11. ChatTypes'
  BY <1>0, <1>1, <1>3 DEF ChatTypes
<1>12. LinksHold' /\ MessagesInOrder' /\ ActivityIsNewest' /\ RunsAddUp'
  <2>1. LinksHold'
    BY <1>1 DEF AuditInv, LinksHold, LiveSessions, ChatMessages
  <2>2. MessagesInOrder' /\ RunsAddUp'
    BY <1>1 DEF AuditInv, MessagesInOrder, RunsAddUp
  <2>3. ActivityIsNewest'
    BY <1>1 DEF AuditInv, ActivityIsNewest, LiveSessions, ChatMessages
  <2> QED
    BY <2>1, <2>2, <2>3
<1> QED
  BY <1>4, <1>10, <1>11, <1>12 DEF AuditInv

-----------------------------------------------------------------------------
(* The sessions and their newest message.                                  *)

LEMMA MaxOfIds ==
  ASSUME NEW S, S \subseteq MessageIds, S # {}
  PROVE  Max(S) \in S /\ \A y \in S : Max(S) >= y
<1>1. IsFiniteSet(S) /\ \A x \in S : x \in Nat
  BY FS_Subset, ChatAuditAssumption, IdsArePositive
<1> QED
  BY <1>1, GreatestExists DEF Max

KeptOf(table, s) == {m \in MessageIds : table[m].status = "kept" /\ table[m].session = s}
LastOf(ids) == IF ids = {} THEN 0 ELSE Max(ids)
Shown(row) == row.status \in {"active", "archived"}

NewestIn(sessions, messages) ==
  \A s \in SessionIds : Shown(sessions[s]) => sessions[s].last = LastOf(KeptOf(messages, s))

LEMMA ActivityMeans == ActivityIsNewest <=> NewestIn(session, message)
<1> DEFINE kept(s) == {m \in ChatMessages : message[m].session = s /\ message[m].status = "kept"}
<1>1. \A s : kept(s) = KeptOf(message, s)
  BY DEF KeptOf, ChatMessages
<1>2. ActivityIsNewest <=>
        \A s \in LiveSessions : session[s].last = IF kept(s) = {} THEN 0 ELSE Max(kept(s))
  BY DEF ActivityIsNewest
<1> HIDE DEF kept
<1>3. \A s : (IF kept(s) = {} THEN 0 ELSE Max(kept(s))) = LastOf(KeptOf(message, s))
  BY <1>1 DEF LastOf
<1>4. \A s : s \in LiveSessions <=> s \in SessionIds /\ Shown(session[s])
  BY DEF LiveSessions, Shown
<1> QED
  BY <1>2, <1>3, <1>4 DEF NewestIn

LEMMA ActivityMeansNext == ActivityIsNewest' <=> NewestIn(session', message')
<1> DEFINE kept(s) == {m \in ChatMessages' : message'[m].session = s /\ message'[m].status = "kept"}
<1>1. \A s : kept(s) = KeptOf(message', s)
  BY DEF KeptOf, ChatMessages
<1>2. ActivityIsNewest' <=>
        \A s \in LiveSessions' : session'[s].last = IF kept(s) = {} THEN 0 ELSE Max(kept(s))
  BY DEF ActivityIsNewest
<1> HIDE DEF kept
<1>3. \A s : (IF kept(s) = {} THEN 0 ELSE Max(kept(s))) = LastOf(KeptOf(message', s))
  BY <1>1 DEF LastOf
<1>4. \A s : s \in LiveSessions' <=> s \in SessionIds /\ Shown(session'[s])
  BY DEF LiveSessions, Shown
<1> QED
  BY <1>2, <1>3, <1>4 DEF NewestIn

\* Runs whose steps and totals are as before add up as before.
LEMMA RunSame ==
  ASSUME NEW run, RunAddsUp(run), NEW other, other.steps = run.steps,
         other.count = run.count, other.cost = run.cost
  PROVE  RunAddsUp(other)
BY DEF RunAddsUp

\* What the steps of the chat itself come to.
LEMMA AuditParts ==
  ASSUME AuditInv
  PROVE  /\ ChatTypes /\ CallsHaveRows /\ AloneChat /\ LinksHold /\ MessagesInOrder /\ RunsAddUp
         /\ NewestIn(session, message)
BY ActivityMeans DEF AuditInv

LEMMA CallEnds ==
  ASSUME AuditInv, RowsStay, NEW c \in Callers, NEW op \in Ops \ {"idle"}, End(c, op),
         UNCHANGED <<atOnce, chatRoom>>,
         session' \in [SessionIds -> SessionRows], message' \in [MessageIds -> MessageRows],
         agentRun' \in [RunIds -> RunRows],
         LinksHold', MessagesInOrder', NewestIn(session', message'), RunsAddUp'
  PROVE  AuditInv'
<1>1. call[c].op # "idle" /\ call' = [call EXCEPT ![c] = NoCall]
  BY DEF End
<1>2. call' \in [Callers -> [op : Ops, id : Nat]] /\ CallsHaveRows' /\ AloneChat'
  BY <1>1, EndingCall
<1>3. ChatTypes'
  BY <1>2 DEF ChatTypes, AuditInv
<1> QED
  BY <1>2, <1>3, ActivityMeansNext DEF AuditInv

LEMMA CreateSessionKeeps ==
  ASSUME AuditInv, NEW s \in SessionIds, CreateSession(s), UNCHANGED <<atOnce, chatRoom>>
  PROVE  AuditInv'
<1>0. ChatTypes /\ CallsHaveRows /\ AloneChat /\ LinksHold /\ MessagesInOrder /\ RunsAddUp
      /\ NewestIn(session, message)
  BY AuditParts
<1>1. /\ session' = [session EXCEPT ![s].status = "active"]
      /\ message' = message /\ agentRun' = agentRun /\ call' = call
  BY DEF CreateSession
<1>2. session[s].status = "none"
  BY <1>0 DEF CreateSession, IsNext, TableRows, ChatTypes
<1>3. /\ session' \in [SessionIds -> SessionRows]
      /\ \A x \in SessionIds : x # s => session'[x] = session[x]
      /\ session'[s].status = "active" /\ session'[s].last = session[s].last
  <2>1. session \in [SessionIds -> SessionRows] /\ session[s] \in SessionRows
    BY <1>0 DEF ChatTypes
  <2>2. session'[s] = [session[s] EXCEPT !.status = "active"]
    BY <1>1, <2>1
  <2> QED
    BY <1>1, <2>1, <2>2 DEF SessionRows
<1>4. LiveSessions \subseteq LiveSessions'
  BY <1>2, <1>3 DEF LiveSessions
<1>5. NewestIn(session', message')
  <2>1. KeptOf(message, s) = {}
    <3>1. s \notin LiveSessions
      BY <1>2 DEF LiveSessions
    <3> QED
      BY <1>0, <3>1 DEF KeptOf, LinksHold
  <2>2. session'[s].last = 0
    BY <1>0, <1>2, <1>3 DEF LinksHold
  <2>3. session'[s].last = LastOf(KeptOf(message, s))
    BY <2>1, <2>2 DEF LastOf
  <2> QED
    BY <1>0, <1>1, <1>3, <2>3 DEF NewestIn
<1>6. LinksHold'
  <2>1. \A x \in SessionIds : session'[x].status = "none" => session'[x].last = 0
    BY <1>0, <1>3 DEF LinksHold
  <2> QED
    BY <1>0, <1>1, <1>4, <2>1 DEF LinksHold, ChatMessages
<1>7. MessagesInOrder' /\ RunsAddUp'
  BY <1>0, <1>1 DEF MessagesInOrder, RunsAddUp
<1>8. CallsHaveRows'
  <2>1. ASSUME NEW c \in Callers PROVE CallHasRow(call[c])'
    <3>1. CallHasRow(call[c])
      BY <1>0 DEF CallsHaveRows
    <3>2. \A x \in SessionIds : session[x].status # "none" => session'[x].status # "none"
      BY <1>2, <1>3
    <3> QED
      BY <1>1, <3>1, <3>2 DEF CallHasRow
  <2> QED
    BY <2>1 DEF CallsHaveRows
<1>9. AloneChat'
  <2>1. Busy' = Busy
    BY <1>1 DEF Busy
  <2>2. atOnce = 1 => \A c \in Callers :
          call[c].op = "save" => session'[call[c].id].status = "active"
    <3>1. ASSUME NEW c \in Callers, atOnce = 1, call[c].op = "save"
          PROVE  session'[call[c].id].status = "active"
      <4>1. call[c].id \in SessionIds /\ session[call[c].id].status = "active"
        BY <1>0, <3>1 DEF AloneChat, CallsHaveRows, CallHasRow
      <4>2. call[c].id # s
        BY <1>2, <4>1
      <4> QED
        BY <1>3, <4>1, <4>2
    <3> QED
      BY <3>1
  <2> QED
    BY <1>0, <1>1, <2>1, <2>2 DEF AloneChat
<1>10. ChatTypes'
  BY <1>0, <1>1, <1>3 DEF ChatTypes
<1> QED
  BY <1>5, <1>6, <1>7, <1>8, <1>9, <1>10, ActivityMeansNext DEF AuditInv

LEMMA ArchiveKeeps ==
  ASSUME AuditInv, NEW c \in Callers, ArchiveSession(c), UNCHANGED <<atOnce, chatRoom>>
  PROVE  AuditInv'
<1> DEFINE s == call[c].id
<1>0. ChatTypes /\ CallsHaveRows /\ LinksHold /\ MessagesInOrder /\ RunsAddUp
      /\ NewestIn(session, message)
  BY AuditParts
<1>1. /\ End(c, "archive") /\ session[s].status \in {"active", "archived"}
      /\ session' = [session EXCEPT ![s].status = "archived"]
      /\ message' = message /\ agentRun' = agentRun
  BY DEF ArchiveSession
<1>2. s \in SessionIds
  BY <1>0, <1>1 DEF End, CallsHaveRows, CallHasRow
<1> HIDE DEF s
<1>3. /\ session' \in [SessionIds -> SessionRows]
      /\ \A x \in SessionIds : x # s => session'[x] = session[x]
      /\ session'[s].status = "archived" /\ session'[s].last = session[s].last
  <2>1. session \in [SessionIds -> SessionRows] /\ session[s] \in SessionRows
    BY <1>0, <1>2 DEF ChatTypes
  <2>2. session'[s] = [session[s] EXCEPT !.status = "archived"]
    BY <1>1, <1>2, <2>1
  <2> QED
    BY <1>1, <2>1, <2>2 DEF SessionRows
<1>4. LiveSessions' = LiveSessions
  BY <1>1, <1>2, <1>3 DEF LiveSessions
<1>5. NewestIn(session', message')
  <2>1. session[s].last = LastOf(KeptOf(message, s))
    BY <1>0, <1>1, <1>2 DEF NewestIn, Shown
  <2> QED
    BY <1>0, <1>1, <1>3, <2>1 DEF NewestIn
<1>6. LinksHold'
  <2>1. \A x \in SessionIds : session'[x].status = "none" => session'[x].last = 0
    BY <1>0, <1>3 DEF LinksHold
  <2> QED
    BY <1>0, <1>1, <1>4, <2>1 DEF LinksHold, ChatMessages
<1>7. MessagesInOrder' /\ RunsAddUp'
  BY <1>0, <1>1 DEF MessagesInOrder, RunsAddUp
<1>8. RowsStay
  BY <1>1, <1>3 DEF RowsStay
<1>9. message' \in [MessageIds -> MessageRows] /\ agentRun' \in [RunIds -> RunRows]
  BY <1>0, <1>1, SMTT(30) DEF ChatTypes
<1> QED
  BY <1>1, <1>3, <1>5, <1>6, <1>7, <1>8, <1>9, CallEnds DEF Ops

\* The messages go with their session; the runs only lose the links.
LEMMA DeleteSessionKeeps ==
  ASSUME AuditInv, NEW c \in Callers, DeleteSession(c), UNCHANGED <<atOnce, chatRoom>>
  PROVE  AuditInv'
<1> DEFINE s == call[c].id
           own == {m \in MessageIds : message[m].session = s}
<1>0. ChatTypes /\ CallsHaveRows /\ LinksHold /\ MessagesInOrder /\ RunsAddUp
      /\ NewestIn(session, message)
  BY AuditParts
<1>1. /\ End(c, "delete session")
      /\ session' = [session EXCEPT ![s] = [status |-> "gone", last |-> 0]]
      /\ message' = [m \in MessageIds |->
           IF m \in own THEN [message[m] EXCEPT !.status = "gone"] ELSE message[m]]
      /\ agentRun' = [r \in RunIds |->
           IF agentRun[r].session = s THEN [agentRun[r] EXCEPT !.session = 0, !.message = 0]
                                      ELSE agentRun[r]]
  BY DEF DeleteSession
<1>2. s \in SessionIds /\ session[s].status # "none" /\ s # 0
  BY <1>0, <1>1, IdsArePositive DEF End, CallsHaveRows, CallHasRow
<1>3. \A m \in MessageIds : m \in own <=> message[m].session = s
  OBVIOUS
<1> HIDE DEF s, own
<1>4. /\ session' \in [SessionIds -> SessionRows]
      /\ \A x \in SessionIds : x # s => session'[x] = session[x]
      /\ session'[s].status = "gone" /\ session'[s].last = 0
  BY <1>0, <1>1, <1>2 DEF ChatTypes, SessionRows
<1>5. /\ message' \in [MessageIds -> MessageRows]
      /\ \A m \in MessageIds : m \notin own => message'[m] = message[m]
      /\ \A m \in own : m \in MessageIds => /\ message'[m].status = "gone"
                                            /\ message'[m].session = message[m].session
  <2>1. \A m \in MessageIds : message[m] \in MessageRows
    BY <1>0 DEF ChatTypes
  <2>2. \A m \in MessageIds : m \in own => message'[m] = [message[m] EXCEPT !.status = "gone"]
    BY <1>1
  <2>3. \A m \in MessageIds : m \notin own => message'[m] = message[m]
    BY <1>1
  <2>4. ASSUME NEW m \in MessageIds, m \in own
        PROVE  /\ message'[m].status = "gone" /\ message'[m].session = message[m].session
               /\ message'[m] \in MessageRows
    <3>1. message'[m] = [message[m] EXCEPT !.status = "gone"] /\ message[m] \in MessageRows
      BY <2>1, <2>2, <2>4
    <3> QED
      BY <3>1 DEF MessageRows
  <2>5. \A m \in MessageIds : message'[m] \in MessageRows
    BY <2>1, <2>3, <2>4
  <2>6. message' = [m \in MessageIds |-> message'[m]]
    BY <1>1
  <2> QED
    BY <2>3, <2>4, <2>5, <2>6
<1>6. /\ agentRun' \in [RunIds -> RunRows]
      /\ \A r \in RunIds :
           /\ agentRun'[r].status = agentRun[r].status /\ agentRun'[r].steps = agentRun[r].steps
           /\ agentRun'[r].count = agentRun[r].count /\ agentRun'[r].cost = agentRun[r].cost
           /\ \/ agentRun'[r].session = 0 /\ agentRun'[r].message = 0
              \/ /\ agentRun[r].session # s /\ agentRun'[r].session = agentRun[r].session
                 /\ agentRun'[r].message = agentRun[r].message
  <2>1. \A r \in RunIds : agentRun[r] \in RunRows
    BY <1>0 DEF ChatTypes
  <2>2. ASSUME NEW r \in RunIds
        PROVE  /\ agentRun'[r] \in RunRows
               /\ agentRun'[r].status = agentRun[r].status
               /\ agentRun'[r].steps = agentRun[r].steps
               /\ agentRun'[r].count = agentRun[r].count /\ agentRun'[r].cost = agentRun[r].cost
               /\ \/ agentRun'[r].session = 0 /\ agentRun'[r].message = 0
                  \/ /\ agentRun[r].session # s /\ agentRun'[r].session = agentRun[r].session
                     /\ agentRun'[r].message = agentRun[r].message
    <3>1. CASE agentRun[r].session = s
      <4>1. agentRun'[r] = [agentRun[r] EXCEPT !.session = 0, !.message = 0]
        BY <1>1, <3>1
      <4> QED
        BY <2>1, <4>1 DEF RunRows
    <3>2. CASE agentRun[r].session # s
      <4>1. agentRun'[r] = agentRun[r]
        BY <1>1, <3>2
      <4> QED
        BY <2>1, <3>2, <4>1
    <3> QED
      BY <3>1, <3>2
  <2>3. agentRun' = [r \in RunIds |-> agentRun'[r]]
    BY <1>1
  <2> QED
    BY <2>2, <2>3
<1>7. LiveSessions' = LiveSessions \ {s}
  BY <1>2, <1>4 DEF LiveSessions
<1>8. LinksHold'
  <2>1. \A x \in SessionIds : session'[x].status = "none" => session'[x].last = 0
    BY <1>0, <1>4 DEF LinksHold
  <2>2. ASSUME NEW m \in MessageIds
        PROVE  /\ message'[m].status = "none" => message'[m].session = 0
               /\ message'[m].status \in {"kept", "deleted"} =>
                    message'[m].session \in LiveSessions'
    BY <1>0, <1>3, <1>5, <1>7 DEF LinksHold
  <2>3. ASSUME NEW r \in RunIds
        PROVE  /\ agentRun'[r].session \in LiveSessions' \cup {0}
               /\ agentRun'[r].message \in ChatMessages' \cup {0}
               /\ agentRun'[r].message # 0 =>
                    message'[agentRun'[r].message].session = agentRun'[r].session
    <3>1. CASE agentRun'[r].session = 0 /\ agentRun'[r].message = 0
      BY <3>1
    <3>2. CASE /\ agentRun[r].session # s /\ agentRun'[r].session = agentRun[r].session
               /\ agentRun'[r].message = agentRun[r].message
      <4>1. agentRun'[r].session \in LiveSessions' \cup {0}
        BY <1>0, <1>7, <3>2 DEF LinksHold
      <4>2. ASSUME agentRun[r].message # 0
            PROVE  /\ agentRun[r].message \in ChatMessages'
                   /\ message'[agentRun[r].message].session = agentRun[r].session
        <5>1. /\ agentRun[r].message \in ChatMessages
              /\ message[agentRun[r].message].session = agentRun[r].session
          BY <1>0, <4>2 DEF LinksHold
        <5>2. agentRun[r].message \in MessageIds /\ agentRun[r].message \notin own
          BY <1>3, <3>2, <5>1 DEF ChatMessages
        <5> QED
          BY <1>5, <5>1, <5>2 DEF ChatMessages
      <4> QED
        BY <3>2, <4>1, <4>2
    <3> QED
      BY <1>6, <3>1, <3>2
  <2> QED
    BY <2>1, <2>2, <2>3 DEF LinksHold
<1>9. NewestIn(session', message')
  <2>1. ASSUME NEW x \in SessionIds, Shown(session'[x])
        PROVE  session'[x].last = LastOf(KeptOf(message', x))
    <3>1. x # s /\ session'[x] = session[x]
      BY <1>4, <2>1 DEF Shown
    <3>2. KeptOf(message', x) = KeptOf(message, x)
      BY <1>3, <1>5, <3>1 DEF KeptOf
    <3> QED
      BY <1>0, <2>1, <3>1, <3>2 DEF NewestIn
  <2> QED
    BY <2>1 DEF NewestIn
<1>10. \A m \in MessageIds : message'[m].status = "none" <=> message[m].status = "none"
  <2>1. ASSUME NEW m \in MessageIds, m \in own PROVE message[m].status # "none"
    BY <1>0, <1>2, <1>3, <2>1 DEF LinksHold
  <2> QED
    BY <1>5, <2>1
<1>11. MessagesInOrder'
  BY <1>0, <1>10 DEF MessagesInOrder
<1>12. RunsAddUp'
  BY <1>0, <1>6, RunSame DEF RunsAddUp
<1>13. RowsStay
  BY <1>4, <1>6, <1>10 DEF RowsStay
<1> QED
  BY <1>1, <1>4, <1>5, <1>6, <1>8, <1>9, <1>11, <1>12, <1>13, CallEnds DEF Ops

\* A new message is the newest.
LEMMA SaveKeeps ==
  ASSUME AuditInv, NEW c \in Callers, NEW m \in MessageIds, SaveMessage(c, m),
         UNCHANGED <<atOnce, chatRoom>>
  PROVE  AuditInv'
<1> DEFINE s == call[c].id
<1>0. ChatTypes /\ CallsHaveRows /\ LinksHold /\ MessagesInOrder /\ RunsAddUp
      /\ NewestIn(session, message)
  BY AuditParts
<1>1. PICK user \in BOOLEAN :
        message' = [message EXCEPT ![m] = [status |-> "kept", session |-> s, user |-> user]]
  BY DEF SaveMessage
<1>2. /\ End(c, "save") /\ session[s].status # "gone" /\ IsNext(m, message, chatRoom.messages)
      /\ session' = [session EXCEPT ![s].last = m] /\ agentRun' = agentRun
  BY DEF SaveMessage
<1>3. s \in SessionIds /\ session[s].status # "none"
  BY <1>0, <1>2 DEF End, CallsHaveRows, CallHasRow
<1> HIDE DEF s
<1>4. /\ message[m].status = "none"
      /\ \A i \in MessageIds : i < m => message[i].status # "none"
  BY <1>0, <1>2 DEF IsNext, TableRows, ChatTypes
<1>5. /\ session' \in [SessionIds -> SessionRows]
      /\ \A x \in SessionIds : x # s => session'[x] = session[x]
      /\ session'[s].status = session[s].status /\ session'[s].last = m
  <2>1. session \in [SessionIds -> SessionRows] /\ session[s] \in SessionRows
    BY <1>0, <1>3 DEF ChatTypes
  <2>2. session'[s] = [session[s] EXCEPT !.last = m]
    BY <1>2, <1>3, <2>1
  <2> QED
    BY <1>2, <2>1, <2>2 DEF SessionRows
<1>6. /\ message' \in [MessageIds -> MessageRows]
      /\ \A x \in MessageIds : x # m => message'[x] = message[x]
      /\ message'[m].status = "kept" /\ message'[m].session = s
  BY <1>0, <1>1, <1>3 DEF ChatTypes, MessageRows
<1>7. s \in LiveSessions /\ LiveSessions' = LiveSessions
  <2>1. session[s] \in SessionRows
    BY <1>0, <1>3 DEF ChatTypes
  <2> QED
    BY <1>2, <1>3, <1>5, <2>1 DEF LiveSessions, SessionRows
<1>8. NewestIn(session', message')
  <2>1. ASSUME NEW x \in SessionIds, Shown(session'[x]), x # s
        PROVE  session'[x].last = LastOf(KeptOf(message', x))
    <3>1. KeptOf(message', x) = KeptOf(message, x)
      BY <1>4, <1>6, <2>1 DEF KeptOf
    <3> QED
      BY <1>0, <1>5, <2>1, <3>1 DEF NewestIn
  <2>2. LastOf(KeptOf(message', s)) = m
    <3>1. m \in KeptOf(message', s) /\ KeptOf(message', s) \subseteq MessageIds
      BY <1>6 DEF KeptOf
    <3>2. \A y \in KeptOf(message', s) : m >= y
      <4>1. ASSUME NEW y \in KeptOf(message', s), y # m PROVE ~(m < y)
        <5>1. y \in MessageIds /\ message[y].status # "none"
          BY <1>6, <4>1 DEF KeptOf
        <5> QED
          BY <1>0, <1>4, <5>1 DEF MessagesInOrder
      <4> QED
        BY <3>1, <4>1, IdsArePositive
    <3> DEFINE top == Max(KeptOf(message', s))
    <3>3. top \in KeptOf(message', s) /\ \A y \in KeptOf(message', s) : top >= y
      BY <3>1, MaxOfIds
    <3> HIDE DEF top
    <3>4. top = m
      BY <3>1, <3>2, <3>3, IdsArePositive
    <3> QED
      BY <3>1, <3>4 DEF LastOf, top
  <2> QED
    BY <1>5, <2>1, <2>2 DEF NewestIn
<1>9. LinksHold'
  <2>1. \A x \in SessionIds : session'[x].status = "none" => session'[x].last = 0
    BY <1>0, <1>3, <1>5 DEF LinksHold
  <2>2. \A x \in MessageIds :
          /\ message'[x].status = "none" => message'[x].session = 0
          /\ message'[x].status \in {"kept", "deleted"} => message'[x].session \in LiveSessions'
    BY <1>0, <1>6, <1>7 DEF LinksHold
  <2>3. ASSUME NEW r \in RunIds
        PROVE  /\ agentRun'[r].session \in LiveSessions' \cup {0}
               /\ agentRun'[r].message \in ChatMessages' \cup {0}
               /\ agentRun'[r].message # 0 =>
                    message'[agentRun'[r].message].session = agentRun'[r].session
    <3>1. agentRun[r].message \in ChatMessages =>
            agentRun[r].message \in MessageIds /\ agentRun[r].message # m
      BY <1>4 DEF ChatMessages
    <3> QED
      BY <1>0, <1>2, <1>6, <1>7, <3>1 DEF LinksHold, ChatMessages
  <2> QED
    BY <2>1, <2>2, <2>3 DEF LinksHold
<1>10. MessagesInOrder'
  <2>1. ASSUME NEW x \in MessageIds, NEW i \in MessageIds, message'[x].status # "none", i < x
        PROVE  message'[i].status # "none"
    BY <1>0, <1>4, <1>6, <2>1 DEF MessagesInOrder
  <2> QED
    BY <2>1 DEF MessagesInOrder
<1>11. RunsAddUp' /\ agentRun' \in [RunIds -> RunRows]
  BY <1>0, <1>2 DEF RunsAddUp, ChatTypes
<1>12. RowsStay
  BY <1>2, <1>5, <1>6 DEF RowsStay
<1> QED
  BY <1>2, <1>5, <1>6, <1>8, <1>9, <1>10, <1>11, <1>12, CallEnds DEF Ops

\* A message that goes leaves the newest of the others.
LEMMA DeleteMessageKeeps ==
  ASSUME AuditInv, NEW c \in Callers, DeleteMessage(c), UNCHANGED <<atOnce, chatRoom>>
  PROVE  AuditInv'
<1> DEFINE m == call[c].id
           s == message[m].session
<1>0. ChatTypes /\ CallsHaveRows /\ LinksHold /\ MessagesInOrder /\ RunsAddUp
      /\ NewestIn(session, message)
  BY AuditParts
<1>1. PICK status \in {"deleted", "gone"} :
        /\ message' = [message EXCEPT ![m].status = status]
        /\ session' = Activity(m)
        /\ agentRun' = IF status = "gone" THEN Unlinked({m}) ELSE agentRun
  BY DEF DeleteMessage
<1>2. End(c, "delete message") /\ message[m].status # "gone"
  BY DEF DeleteMessage
<1>3. m \in MessageIds /\ message[m].status \in {"kept", "deleted"}
  <2>1. m \in MessageIds /\ message[m].status # "none"
    BY <1>0, <1>2 DEF End, CallsHaveRows, CallHasRow
  <2>2. message[m] \in MessageRows
    BY <1>0, <2>1 DEF ChatTypes
  <2> QED
    BY <1>2, <2>1, <2>2 DEF MessageRows
<1>4. s \in LiveSessions /\ s \in SessionIds /\ m # 0
  BY <1>0, <1>3, IdsArePositive DEF LinksHold, LiveSessions
<1>5. session' = [session EXCEPT ![s].last = LastOf(KeptOf(message, s) \ {m})]
  <2> DEFINE kept == {k \in ChatMessages : message[k].session = message[m].session
                                            /\ message[k].status = "kept" /\ k # m}
  <2>1. kept = KeptOf(message, s) \ {m}
    BY DEF KeptOf, ChatMessages
  <2>2. session' = IF message[m].session \in LiveSessions
                   THEN [session EXCEPT ![message[m].session].last =
                           IF kept = {} THEN 0 ELSE Max(kept)]
                   ELSE session
    BY <1>1 DEF Activity
  <2> HIDE DEF kept
  <2> QED
    BY <1>4, <2>1, <2>2 DEF LastOf
<1> HIDE DEF m, s
<1>6. /\ message' \in [MessageIds -> MessageRows]
      /\ \A x \in MessageIds : x # m => message'[x] = message[x]
      /\ message'[m].status = status /\ message'[m].session = s
  <2>1. message \in [MessageIds -> MessageRows] /\ message[m] \in MessageRows
    BY <1>0, <1>3 DEF ChatTypes
  <2>2. message'[m] = [message[m] EXCEPT !.status = status]
    BY <1>1, <1>3, <2>1
  <2> QED
    BY <1>1, <2>1, <2>2 DEF MessageRows, s
<1>7. KeptOf(message', s) = KeptOf(message, s) \ {m}
  BY <1>1, <1>6 DEF KeptOf
<1>8. LastOf(KeptOf(message', s)) \in MessageIds \cup {0}
  <2>1. KeptOf(message', s) \subseteq MessageIds
    BY DEF KeptOf
  <2> QED
    BY <2>1, MaxOfIds DEF LastOf
<1>9. /\ session' \in [SessionIds -> SessionRows]
      /\ \A x \in SessionIds : x # s => session'[x] = session[x]
      /\ session'[s].status = session[s].status
      /\ session'[s].last = LastOf(KeptOf(message', s))
  <2> DEFINE last == LastOf(KeptOf(message', s))
  <2>1. session \in [SessionIds -> SessionRows] /\ session[s] \in SessionRows
    BY <1>0, <1>4 DEF ChatTypes
  <2>2. session' = [session EXCEPT ![s].last = last] /\ last \in MessageIds \cup {0}
    BY <1>5, <1>7, <1>8
  <2> HIDE DEF last
  <2>3. session'[s] = [session[s] EXCEPT !.last = last]
    BY <1>4, <2>1, <2>2
  <2>4. session'[s].last = last /\ session'[s].status = session[s].status
        /\ session'[s] \in SessionRows
    BY <2>1, <2>2, <2>3 DEF SessionRows
  <2>5. session' \in [SessionIds -> SessionRows]
        /\ \A x \in SessionIds : x # s => session'[x] = session[x]
    BY <2>1, <2>2, <2>4
  <2> QED
    BY <2>4, <2>5 DEF last
<1>10. LiveSessions' = LiveSessions
  BY <1>9 DEF LiveSessions
<1>11. NewestIn(session', message')
  <2>1. ASSUME NEW x \in SessionIds, Shown(session'[x]), x # s
        PROVE  session'[x].last = LastOf(KeptOf(message', x))
    <3>1. KeptOf(message', x) = KeptOf(message, x)
      <4>1. \A y \in MessageIds : message'[y].status = "kept" /\ message'[y].session = x <=>
                                  message[y].status = "kept" /\ message[y].session = x
        BY <1>6, <2>1 DEF s
      <4> QED
        BY <4>1 DEF KeptOf
    <3> QED
      BY <1>0, <1>9, <2>1, <3>1 DEF NewestIn
  <2> QED
    BY <1>9, <2>1 DEF NewestIn
<1>12. /\ agentRun' \in [RunIds -> RunRows]
       /\ \A r \in RunIds :
            /\ agentRun'[r].status = agentRun[r].status /\ agentRun'[r].steps = agentRun[r].steps
            /\ agentRun'[r].count = agentRun[r].count /\ agentRun'[r].cost = agentRun[r].cost
            /\ agentRun'[r].session = agentRun[r].session
            /\ \/ agentRun'[r].message = 0
               \/ /\ agentRun'[r].message = agentRun[r].message
                  /\ status = "gone" => agentRun[r].message # m
  <2>1. \A r \in RunIds : agentRun[r] \in RunRows
    BY <1>0 DEF ChatTypes
  <2>2. CASE status # "gone"
    BY <1>0, <1>1, <2>2 DEF ChatTypes
  <2>3. CASE status = "gone"
    <3>1. agentRun' = [r \in RunIds |-> IF agentRun[r].message \in {m}
                          THEN [agentRun[r] EXCEPT !.message = 0] ELSE agentRun[r]]
      BY <1>1, <2>3 DEF Unlinked
    <3>2. ASSUME NEW r \in RunIds
          PROVE  /\ agentRun'[r] \in RunRows
                 /\ agentRun'[r].status = agentRun[r].status
                 /\ agentRun'[r].steps = agentRun[r].steps
                 /\ agentRun'[r].count = agentRun[r].count
                 /\ agentRun'[r].cost = agentRun[r].cost
                 /\ agentRun'[r].session = agentRun[r].session
                 /\ \/ agentRun'[r].message = 0
                    \/ agentRun'[r].message = agentRun[r].message /\ agentRun[r].message # m
      <4>1. CASE agentRun[r].message = m
        <5>1. agentRun'[r] = [agentRun[r] EXCEPT !.message = 0]
          BY <3>1, <4>1
        <5> QED
          BY <2>1, <5>1 DEF RunRows
      <4>2. CASE agentRun[r].message # m
        <5>1. agentRun'[r] = agentRun[r]
          BY <3>1, <4>2
        <5> QED
          BY <2>1, <4>2, <5>1
      <4> QED
        BY <4>1, <4>2
    <3>3. agentRun' = [r \in RunIds |-> agentRun'[r]]
      BY <3>1
    <3> QED
      BY <3>2, <3>3
  <2> QED
    BY <2>2, <2>3
<1>13. LinksHold'
  <2>1. \A x \in SessionIds : session'[x].status = "none" => session'[x].last = 0
    BY <1>0, <1>4, <1>9 DEF LinksHold, LiveSessions
  <2>2. \A x \in MessageIds :
          /\ message'[x].status = "none" => message'[x].session = 0
          /\ message'[x].status \in {"kept", "deleted"} => message'[x].session \in LiveSessions'
    BY <1>0, <1>1, <1>4, <1>6, <1>10 DEF LinksHold
  <2>3. ASSUME NEW r \in RunIds
        PROVE  /\ agentRun'[r].session \in LiveSessions' \cup {0}
               /\ agentRun'[r].message \in ChatMessages' \cup {0}
               /\ agentRun'[r].message # 0 =>
                    message'[agentRun'[r].message].session = agentRun'[r].session
    <3>1. agentRun'[r].session \in LiveSessions' \cup {0}
      BY <1>0, <1>10, <1>12 DEF LinksHold
    <3>2. ASSUME agentRun'[r].message # 0
          PROVE  /\ agentRun'[r].message \in ChatMessages'
                 /\ message'[agentRun'[r].message].session = agentRun'[r].session
      <4> DEFINE x == agentRun[r].message
      <4>1. agentRun'[r].message = x /\ x # 0 /\ (status = "gone" => x # m)
        BY <1>12, <3>2
      <4>2. x \in ChatMessages /\ message[x].session = agentRun[r].session
        BY <1>0, <4>1 DEF LinksHold
      <4> HIDE DEF x
      <4>3. x \in MessageIds /\ message'[x].session = message[x].session
        BY <1>6, <4>2 DEF ChatMessages, s
      <4>4. x \in ChatMessages'
        BY <1>1, <1>6, <4>1, <4>2, <4>3 DEF ChatMessages
      <4> QED
        BY <1>12, <4>1, <4>2, <4>3, <4>4
    <3> QED
      BY <3>1, <3>2
  <2> QED
    BY <2>1, <2>2, <2>3 DEF LinksHold
<1>14. \A x \in MessageIds : message'[x].status = "none" <=> message[x].status = "none"
  BY <1>1, <1>3, <1>6
<1>15. MessagesInOrder'
  BY <1>0, <1>14 DEF MessagesInOrder
<1>16. RunsAddUp'
  BY <1>0, <1>12, RunSame DEF RunsAddUp
<1>17. RowsStay
  BY <1>9, <1>12, <1>14 DEF RowsStay
<1> QED
  BY <1>2, <1>6, <1>9, <1>11, <1>12, <1>13, <1>15, <1>16, <1>17, CallEnds DEF Ops

-----------------------------------------------------------------------------
(* Runs and their steps.                                                   *)

\* What a run is worth when its steps are typed and finitely many.
LEMMA CostOfTyping ==
  ASSUME NEW steps \in SUBSET StepRow, IsFiniteSet(steps)
  PROVE  /\ CostOf(steps) \in Nat /\ Cardinality(steps) \in Nat
<1> DEFINE cost == [s \in steps |-> s.cost]
<1>1. \A s \in steps : cost[s] \in Nat
  BY ChatAuditAssumption DEF StepRow
<1> HIDE DEF cost
<1>2. SumOf(cost, steps) \in Nat
  BY <1>1, SumIsNat
<1> QED
  BY <1>2, FS_CardinalityType DEF CostOf, cost

\* The numbers of a run's steps are taken from 1 to their count, and the next is free.
LEMMA NextNumberIs ==
  ASSUME NEW r \in RunIds, RunAddsUp(agentRun[r]), agentRun[r].steps \in SUBSET StepRow
  PROVE  /\ NextNumber(r) = Cardinality(agentRun[r].steps) + 1
         /\ \A s \in agentRun[r].steps : s.number # NextNumber(r)
<1> DEFINE steps == agentRun[r].steps
           numbers == {s.number : s \in steps}
           n == Cardinality(steps)
           S == {0} \cup numbers
<1>1. n \in Nat /\ numbers = 1 .. n
  BY FS_CardinalityType DEF RunAddsUp
<1>2. NextNumber(r) = Max(S) + 1
  BY DEF NextNumber
<1>3. \A s \in steps : s.number \in numbers
  OBVIOUS
<1> HIDE DEF numbers, n
<1>4. n \in S /\ \A y \in S : y \in Nat /\ n >= y
  BY <1>1
<1>5. Max(S) = n
  <2>1. \A x \in S : (\A y \in S : x >= y) => x = n
    BY <1>1, <1>4
  <2> HIDE DEF S
  <2>2. \E x \in S : \A y \in S : x >= y
    BY <1>4
  <2>3. Max(S) \in S /\ \A y \in S : Max(S) >= y
    BY <2>2 DEF Max
  <2> QED
    BY <2>1, <2>3
<1>6. NextNumber(r) = n + 1
  BY <1>2, <1>5
<1>7. \A s \in steps : s.number # n + 1
  <2>1. n + 1 \notin 1 .. n
    BY <1>1
  <2> QED
    BY <1>1, <1>3, <2>1
<1> HIDE DEF steps
<1> QED
  BY <1>6, <1>7 DEF n, steps

\* One step more: numbers, keys and totals go on.
LEMMA OneStepMore ==
  ASSUME NEW run, run.steps \in SUBSET StepRow, RunAddsUp(run),
         NEW step \in StepRow, step.number = Cardinality(run.steps) + 1,
         \A s \in run.steps : s.key = step.key => s.key = NoStepKey,
         NEW other, other.steps = run.steps \cup {step},
         other.count = Cardinality(other.steps), other.cost = CostOf(other.steps),
         other.cost <= MaxInteger
  PROVE  RunAddsUp(other)
<1> DEFINE n == Cardinality(run.steps)
           steps == run.steps
<1>1. /\ IsFiniteSet(steps) /\ n \in Nat /\ {s.number : s \in steps} = 1 .. n
      /\ \A s, t \in steps : s.key = t.key /\ s.key # NoStepKey => s = t
  BY FS_CardinalityType DEF RunAddsUp
<1> HIDE DEF n, steps
<1>2. \A s \in steps : s.number \in 1 .. n
  BY <1>1
<1>3. step \notin steps
  BY <1>1, <1>2 DEF n
<1>4. IsFiniteSet(other.steps) /\ Cardinality(other.steps) = n + 1
  BY <1>1, <1>3, FS_AddElement DEF n, steps
<1>5. {s.number : s \in other.steps} = 1 .. (n + 1)
  <2>1. {s.number : s \in other.steps} = {s.number : s \in steps} \cup {step.number}
    BY DEF steps
  <2>2. step.number = n + 1
    BY DEF n
  <2> QED
    BY <1>1, <2>1, <2>2
<1>6. ASSUME NEW s \in other.steps, NEW t \in other.steps, s.key = t.key, s.key # NoStepKey
      PROVE  s = t
  BY <1>1, <1>6 DEF steps
<1> QED
  BY <1>4, <1>5, <1>6 DEF RunAddsUp

\* The status of a run changes, its steps do not: the totals are computed again.
LEMMA TotalsAgain ==
  ASSUME NEW run \in RunRows, RunAddsUp(run), NEW status \in RunStatuses
  PROVE  LET other == [Totals(run) EXCEPT !.status = status]
         IN  other = [run EXCEPT !.status = status]
<1>1. run.count = Cardinality(run.steps) /\ run.cost = CostOf(run.steps)
  BY DEF RunAddsUp
<1>2. Totals(run) = [run EXCEPT !.count = Cardinality(run.steps), !.cost = CostOf(run.steps)]
  BY DEF Totals
<1> DEFINE n == Cardinality(run.steps)
           cost == CostOf(run.steps)
<1>3. run.count = n /\ run.cost = cost /\ Totals(run) = [run EXCEPT !.count = n, !.cost = cost]
  BY <1>1, <1>2
<1> HIDE DEF n, cost
<1>4. Totals(run) = run
  BY <1>3 DEF RunRows
<1> QED
  BY <1>4

\* What a call about a run leaves alone.
LEMMA RunChangeKeeps ==
  ASSUME AuditInv, NEW c \in Callers, NEW op \in Ops \ {"idle"}, End(c, op),
         UNCHANGED <<session, message, atOnce, chatRoom>>,
         NEW r \in RunIds, NEW row \in RunRows, agentRun' = [agentRun EXCEPT ![r] = row],
         RunAddsUp(row), row.status # "none",
         row.session \in LiveSessions \cup {0}, row.message \in ChatMessages \cup {0},
         row.message # 0 => message[row.message].session = row.session
  PROVE  AuditInv'
<1>0. ChatTypes /\ LinksHold /\ MessagesInOrder /\ RunsAddUp /\ NewestIn(session, message)
  BY AuditParts
<1>1. /\ agentRun' \in [RunIds -> RunRows] /\ agentRun'[r] = row
      /\ \A x \in RunIds : x # r => agentRun'[x] = agentRun[x]
  BY <1>0 DEF ChatTypes
<1>2. session' \in [SessionIds -> SessionRows] /\ message' \in [MessageIds -> MessageRows]
  BY <1>0 DEF ChatTypes
<1>3. LinksHold'
  <2>1. LiveSessions' = LiveSessions /\ ChatMessages' = ChatMessages
    BY DEF LiveSessions, ChatMessages
  <2>2. ASSUME NEW x \in RunIds
        PROVE  /\ agentRun'[x].session \in LiveSessions \cup {0}
               /\ agentRun'[x].message \in ChatMessages \cup {0}
               /\ agentRun'[x].message # 0 =>
                    message[agentRun'[x].message].session = agentRun'[x].session
    BY <1>0, <1>1 DEF LinksHold
  <2> QED
    BY <1>0, <2>1, <2>2 DEF LinksHold
<1>4. RunsAddUp'
  BY <1>0, <1>1 DEF RunsAddUp
<1>5. MessagesInOrder' /\ NewestIn(session', message')
  BY <1>0 DEF MessagesInOrder
<1>6. RowsStay
  BY <1>1 DEF RowsStay
<1> QED
  BY <1>1, <1>2, <1>3, <1>4, <1>5, <1>6, CallEnds

LEMMA NoStepsAddUp ==
  ASSUME NEW run, run.steps = {}, run.count = 0, run.cost = 0
  PROVE  RunAddsUp(run)
<1>1. IsFiniteSet({}) /\ Cardinality({}) = 0
  BY FS_EmptySet
<1>2. CostOf({}) = 0
  <2> DEFINE cost == [s \in {} |-> s.cost]
  <2>1. IntValues(cost, {})
    BY DEF IntValues
  <2> HIDE DEF cost
  <2>2. SumOf(cost, {}) = 0
    BY <1>1, <2>1, SumFacts
  <2> QED
    BY <2>2 DEF CostOf, cost
<1>3. {s.number : s \in {}} = 1 .. 0
  OBVIOUS
<1> QED
  BY <1>1, <1>2, <1>3, ChatAuditAssumption DEF RunAddsUp

LEMMA CreateRunKeeps ==
  ASSUME AuditInv, NEW c \in Callers, NEW r \in RunIds, CreateRun(c, r),
         UNCHANGED <<atOnce, chatRoom>>
  PROVE  AuditInv'
<1> DEFINE m == call[c].id
           s == message[m].session
           row == [NoRun EXCEPT !.status = "running", !.session = s, !.message = m]
<1>0. ChatTypes /\ CallsHaveRows /\ LinksHold
  BY AuditParts
<1>1. /\ End(c, "run") /\ message[m].status = "kept"
      /\ agentRun' = [agentRun EXCEPT ![r] = row] /\ UNCHANGED <<session, message>>
  BY DEF CreateRun
<1>2. m \in MessageIds
  BY <1>0, <1>1 DEF End, CallsHaveRows, CallHasRow
<1>3. s \in LiveSessions /\ s \in SessionIds /\ m \in ChatMessages
  BY <1>0, <1>1, <1>2 DEF LinksHold, LiveSessions, ChatMessages
<1>4. /\ row \in RunRows /\ row.status = "running" /\ row.session = s /\ row.message = m
      /\ row.steps = {} /\ row.count = 0 /\ row.cost = 0
  BY <1>2, <1>3 DEF NoRun, RunRows, RunStatuses
<1> HIDE DEF row
<1>5. RunAddsUp(row)
  BY <1>4, NoStepsAddUp
<1> QED
  BY <1>1, <1>3, <1>4, <1>5, RunChangeKeeps DEF Ops

LEMMA AppendKeeps ==
  ASSUME AuditInv, NEW c \in Callers, AppendStep(c), UNCHANGED <<atOnce, chatRoom>>
  PROVE  AuditInv'
<1> DEFINE r == call[c].id
<1>0. ChatTypes /\ CallsHaveRows /\ LinksHold /\ RunsAddUp
  BY AuditParts
<1>1. /\ End(c, "append") /\ agentRun[r].status = "running" /\ UNCHANGED <<session, message>>
  BY DEF AppendStep
<1>2. r \in RunIds
  BY <1>0, <1>1 DEF End, CallsHaveRows, CallHasRow
<1>3. PICK key \in StepKeys, cost \in Costs :
        LET step == [number |-> NextNumber(r), key |-> key, cost |-> cost]
            run == Totals([agentRun[r] EXCEPT !.steps = @ \cup {step}])
        IN  /\ ~KeyTaken(r, key) /\ run.cost <= MaxInteger
            /\ agentRun' = [agentRun EXCEPT ![r] = run]
  BY DEF AppendStep
<1> DEFINE old == agentRun[r]
           step == [number |-> NextNumber(r), key |-> key, cost |-> cost]
           steps == old.steps \cup {step}
           row == [old EXCEPT !.steps = steps, !.count = Cardinality(steps), !.cost = CostOf(steps)]
<1>4. old \in RunRows /\ RunAddsUp(old) /\ old.steps \in SUBSET StepRow
  BY <1>0, <1>2 DEF ChatTypes, RunsAddUp, RunRows
<1>5. /\ NextNumber(r) = Cardinality(old.steps) + 1 /\ Cardinality(old.steps) \in Nat
  BY <1>2, <1>4, NextNumberIs, FS_CardinalityType DEF RunAddsUp
<1>6. step \in StepRow /\ step.number = Cardinality(old.steps) + 1 /\ step.key = key
  BY <1>5 DEF StepRow
<1>7. ~KeyTaken(r, key)
  BY <1>3
<1>8. \A s \in old.steps : s.key = step.key => s.key = NoStepKey
  BY <1>6, <1>7 DEF KeyTaken
<1> HIDE DEF step
<1>9. Totals([old EXCEPT !.steps = @ \cup {step}]) = row
  <2> DEFINE mid == [old EXCEPT !.steps = @ \cup {step}]
  <2>1. mid.steps = steps /\ mid = [old EXCEPT !.steps = steps]
    BY <1>4 DEF RunRows
  <2>2. Totals(mid) = [mid EXCEPT !.count = Cardinality(mid.steps), !.cost = CostOf(mid.steps)]
    BY DEF Totals
  <2> HIDE DEF mid, old
  <2> DEFINE n == Cardinality(steps)
             total == CostOf(steps)
  <2>3. Totals(mid) = [mid EXCEPT !.count = n, !.cost = total]
    BY <2>1, <2>2
  <2> HIDE DEF n, total, steps
  <2>4. Totals(mid) = [old EXCEPT !.steps = steps, !.count = n, !.cost = total]
    BY <1>4, <2>1, <2>3 DEF RunRows
  <2> QED
    BY <2>4 DEF n, total, mid
<1>10. agentRun' = [agentRun EXCEPT ![r] = row] /\ row.cost <= MaxInteger
  BY <1>3, <1>9 DEF step
<1>11. steps \in SUBSET StepRow /\ IsFiniteSet(steps)
  BY <1>4, <1>6, FS_AddElement DEF RunAddsUp
<1>12. CostOf(steps) \in Nat /\ Cardinality(steps) \in Nat
  BY <1>11, CostOfTyping
<1>13. /\ row \in RunRows /\ row.steps = steps /\ row.count = Cardinality(steps)
       /\ row.cost = CostOf(steps) /\ row.status = old.status /\ row.session = old.session
       /\ row.message = old.message
  <2> DEFINE n == Cardinality(steps)
             total == CostOf(steps)
  <2>1. row = [old EXCEPT !.steps = steps, !.count = n, !.cost = total]
    OBVIOUS
  <2>2. n \in Nat /\ total \in Nat
    BY <1>12
  <2> HIDE DEF n, total, steps, row, old
  <2>3. /\ row \in RunRows /\ row.steps = steps /\ row.count = n
        /\ row.cost = total /\ row.status = old.status /\ row.session = old.session
        /\ row.message = old.message
    BY <1>4, <1>11, <2>1, <2>2 DEF RunRows
  <2> QED
    BY <2>3 DEF n, total
<1> HIDE DEF row
<1>14. RunAddsUp(row)
  <2>1. row.steps = old.steps \cup {step}
    BY <1>13
  <2>2. row.count = Cardinality(row.steps) /\ row.cost = CostOf(row.steps)
    BY <1>13
  <2> HIDE DEF old, steps
  <2> QED
    BY <1>4, <1>6, <1>8, <1>10, <2>1, <2>2, OneStepMore
<1>15. /\ row.status # "none"
       /\ row.session \in LiveSessions \cup {0} /\ row.message \in ChatMessages \cup {0}
       /\ row.message # 0 => message[row.message].session = row.session
  BY <1>0, <1>1, <1>2, <1>13 DEF LinksHold
<1> HIDE DEF old, steps, r
<1> QED
  BY <1>1, <1>2, <1>10, <1>13, <1>14, <1>15, RunChangeKeeps DEF Ops

LEMMA FinalizeKeeps ==
  ASSUME AuditInv, NEW c \in Callers, FinalizeRun(c), UNCHANGED <<atOnce, chatRoom>>
  PROVE  AuditInv'
<1> DEFINE r == call[c].id
           old == agentRun[r]
<1>0. ChatTypes /\ CallsHaveRows /\ LinksHold /\ RunsAddUp
  BY AuditParts
<1>1. End(c, "finalize") /\ UNCHANGED <<session, message>>
  BY DEF FinalizeRun
<1>2. r \in RunIds
  BY <1>0, <1>1 DEF End, CallsHaveRows, CallHasRow
<1>3. PICK status \in TerminalStatuses :
        agentRun' = [agentRun EXCEPT ![r] = [Totals(agentRun[r]) EXCEPT !.status = status]]
  BY DEF FinalizeRun
<1>4. old \in RunRows /\ RunAddsUp(old)
  BY <1>0, <1>2 DEF ChatTypes, RunsAddUp
<1> DEFINE row == [old EXCEPT !.status = status]
<1>5. status \in RunStatuses /\ status # "none"
  BY DEF RunStatuses, TerminalStatuses
<1>6. agentRun' = [agentRun EXCEPT ![r] = row]
  BY <1>3, <1>4, <1>5, TotalsAgain
<1>7. /\ row \in RunRows /\ row.steps = old.steps /\ row.count = old.count
      /\ row.cost = old.cost /\ row.status # "none" /\ row.session = old.session
      /\ row.message = old.message
  BY <1>4, <1>5 DEF RunRows
<1> HIDE DEF row
<1>8. RunAddsUp(row)
  BY <1>4, <1>7, RunSame
<1>9. /\ row.session \in LiveSessions \cup {0} /\ row.message \in ChatMessages \cup {0}
      /\ row.message # 0 => message[row.message].session = row.session
  BY <1>0, <1>2, <1>7 DEF LinksHold
<1> QED
  BY <1>1, <1>2, <1>6, <1>7, <1>8, <1>9, RunChangeKeeps DEF Ops

-----------------------------------------------------------------------------
(* Every step.                                                             *)

LEMMA BeginsKeep ==
  ASSUME AuditInv, NEW c \in Callers, UNCHANGED <<atOnce, chatRoom>>,
         \/ BeginArchive(c) \/ BeginDeleteSession(c) \/ BeginSave(c) \/ BeginDeleteMessage(c)
         \/ BeginRun(c) \/ BeginAppend(c) \/ BeginFinalize(c)
  PROVE  AuditInv'
<1>0. ChatTypes
  BY AuditParts
<1>1. ASSUME NEW s \in LiveSessions, NEW op \in {"archive", "delete session", "save"},
             op = "save" => session[s].status = "active", Begin(c, op, s)
      PROVE  AuditInv'
  <2>1. s \in Nat /\ op \in Ops \ {"idle"}
    BY IdsArePositive DEF LiveSessions, Ops
  <2>2. CallHasRow([op |-> op, id |-> s])
    BY DEF CallHasRow, LiveSessions
  <2> QED
    BY <1>1, <2>1, <2>2, BeginningCall
<1>2. ASSUME NEW m \in ChatMessages, NEW op \in {"delete message", "run"}, Begin(c, op, m)
      PROVE  AuditInv'
  <2>1. m \in Nat /\ op \in Ops \ {"idle"}
    BY IdsArePositive DEF ChatMessages, Ops
  <2>2. CallHasRow([op |-> op, id |-> m])
    BY DEF CallHasRow, ChatMessages
  <2> QED
    BY <1>2, <2>1, <2>2, BeginningCall
<1>3. ASSUME NEW r \in AgentRuns, NEW op \in {"append", "finalize"}, Begin(c, op, r)
      PROVE  AuditInv'
  <2>1. r \in RunIds /\ agentRun[r].status # "none"
    BY <1>0 DEF AgentRuns, TableRows, ChatTypes
  <2>2. r \in Nat /\ op \in Ops \ {"idle"}
    BY <2>1, IdsArePositive DEF Ops
  <2>3. CallHasRow([op |-> op, id |-> r])
    BY <2>1 DEF CallHasRow
  <2> QED
    BY <1>3, <2>2, <2>3, BeginningCall
<1>4. CASE BeginArchive(c)
  BY <1>1, <1>4 DEF BeginArchive
<1>5. CASE BeginDeleteSession(c)
  BY <1>1, <1>5 DEF BeginDeleteSession
<1>6. CASE BeginSave(c)
  BY <1>1, <1>6 DEF BeginSave
<1>7. CASE BeginDeleteMessage(c) \/ BeginRun(c)
  BY <1>2, <1>7 DEF BeginDeleteMessage, BeginRun
<1>8. CASE BeginAppend(c) \/ BeginFinalize(c)
  BY <1>3, <1>8 DEF BeginAppend, BeginFinalize
<1> QED
  BY <1>4, <1>5, <1>6, <1>7, <1>8

LEMMA GiveUpKeeps ==
  ASSUME AuditInv, NEW c \in Callers, GiveUpCall(c), UNCHANGED <<atOnce, chatRoom>>
  PROVE  AuditInv'
<1>0. ChatTypes /\ LinksHold /\ MessagesInOrder /\ RunsAddUp /\ NewestIn(session, message)
  BY AuditParts
<1>1. /\ call[c].op # "idle" /\ call' = [call EXCEPT ![c] = NoCall]
      /\ UNCHANGED <<session, message, agentRun>>
  BY DEF GiveUpCall
<1> DEFINE op == call[c].op
<1>2. op \in Ops \ {"idle"} /\ End(c, op)
  BY <1>0, <1>1 DEF ChatTypes, End
<1>3. RowsStay
  BY <1>1 DEF RowsStay
<1>4. LinksHold' /\ MessagesInOrder' /\ RunsAddUp' /\ NewestIn(session', message')
  BY <1>0, <1>1 DEF LinksHold, LiveSessions, ChatMessages, MessagesInOrder, RunsAddUp
<1>5. /\ session' \in [SessionIds -> SessionRows] /\ message' \in [MessageIds -> MessageRows]
      /\ agentRun' \in [RunIds -> RunRows]
  BY <1>0, <1>1 DEF ChatTypes
<1> HIDE DEF op
<1> QED
  BY <1>2, <1>3, <1>4, <1>5, CallEnds

LEMMA AuditStep ==
  ASSUME AuditInv, [ChatAuditNext]_chatAuditVars
  PROVE  AuditInv'
<1>1. CASE UNCHANGED chatAuditVars
  <2>1. UNCHANGED <<session, message, agentRun, call, atOnce, chatRoom>>
    BY <1>1 DEF chatAuditVars
  <2>0. ChatTypes /\ CallsHaveRows /\ AloneChat /\ LinksHold /\ MessagesInOrder /\ RunsAddUp
        /\ NewestIn(session, message)
    BY AuditParts
  <2>2. ChatTypes' /\ MessagesInOrder' /\ RunsAddUp' /\ NewestIn(session', message')
    BY <2>0, <2>1 DEF ChatTypes, MessagesInOrder, RunsAddUp
  <2>3. CallsHaveRows'
    <3>1. ASSUME NEW c \in Callers PROVE CallHasRow(call[c])'
      <4>1. CallHasRow(call[c])
        BY <2>0 DEF CallsHaveRows
      <4> QED
        BY <2>1, <4>1 DEF CallHasRow
    <3> QED
      BY <3>1 DEF CallsHaveRows
  <2>4. AloneChat'
    <3>1. Busy' = Busy
      BY <2>1 DEF Busy
    <3> QED
      BY <2>0, <2>1, <3>1 DEF AloneChat
  <2>5. LinksHold'
    BY <2>0, <2>1 DEF LinksHold, LiveSessions, ChatMessages
  <2> QED
    BY <2>2, <2>3, <2>4, <2>5, ActivityMeansNext DEF AuditInv
<1>2. ASSUME UNCHANGED <<atOnce, chatRoom>>, NEW s \in SessionIds, CreateSession(s)
      PROVE  AuditInv'
  BY <1>2, CreateSessionKeeps
<1>3. ASSUME UNCHANGED <<atOnce, chatRoom>>, NEW c \in Callers,
             \/ BeginArchive(c) \/ BeginDeleteSession(c) \/ BeginSave(c) \/ BeginDeleteMessage(c)
             \/ BeginRun(c) \/ BeginAppend(c) \/ BeginFinalize(c)
      PROVE  AuditInv'
  BY <1>3, BeginsKeep
<1>4. ASSUME UNCHANGED <<atOnce, chatRoom>>, NEW c \in Callers,
             \/ ArchiveSession(c) \/ DeleteSession(c)
             \/ (\E m \in MessageIds : SaveMessage(c, m)) \/ DeleteMessage(c)
             \/ (\E r \in RunIds : CreateRun(c, r)) \/ AppendStep(c) \/ FinalizeRun(c)
             \/ GiveUpCall(c)
      PROVE  AuditInv'
  BY <1>4, ArchiveKeeps, DeleteSessionKeeps, SaveKeeps, DeleteMessageKeeps, CreateRunKeeps,
     AppendKeeps, FinalizeKeeps, GiveUpKeeps
<1>5. CASE ChatAuditNext
  BY <1>2, <1>3, <1>4, <1>5 DEF ChatAuditNext, ChatAuditStep
<1> QED
  BY <1>1, <1>5

LEMMA AuditInit == ChatAuditInit => AuditInv
<1>1. SUFFICES ASSUME ChatAuditInit PROVE AuditInv
  OBVIOUS
<1>2. /\ session = [s \in SessionIds |-> NoSession]
      /\ message = [m \in MessageIds |-> NoMessage]
      /\ agentRun = [r \in RunIds |-> NoRun]
      /\ call = [c \in Callers |-> NoCall]
      /\ atOnce \in CallerCounts /\ chatRoom \in ChatRooms
  BY <1>1 DEF ChatAuditInit
<1>3. /\ NoSession \in SessionRows /\ NoSession.status = "none" /\ NoSession.last = 0
      /\ NoMessage \in MessageRows /\ NoMessage.status = "none" /\ NoMessage.session = 0
      /\ NoRun.status = "none" /\ NoRun.session = 0 /\ NoRun.message = 0
      /\ NoRun.steps = {} /\ NoRun.count = 0 /\ NoRun.cost = 0
      /\ NoCall \in [op : Ops, id : Nat] /\ NoCall.op = "idle"
  BY DEF NoSession, SessionRows, NoMessage, MessageRows, NoRun, NoCall, Ops
<1>4. NoRun \in RunRows
  BY DEF NoRun, RunRows, RunStatuses
<1>5. ChatTypes
  BY <1>2, <1>3, <1>4 DEF ChatTypes
<1>6. CallsHaveRows
  BY <1>2, <1>3 DEF CallsHaveRows, CallHasRow
<1>7. AloneChat
  <2>1. Busy = {}
    BY <1>2, <1>3 DEF Busy
  <2>2. Cardinality(Busy) = 0 /\ atOnce \in Nat
    BY <1>2, <2>1, FS_EmptySet, ChatAuditAssumption
  <2> QED
    BY <1>2, <1>3, <2>1, <2>2 DEF AloneChat
<1>8. LinksHold /\ MessagesInOrder
  BY <1>2, <1>3 DEF LinksHold, MessagesInOrder
<1>9. ActivityIsNewest
  BY <1>2, <1>3 DEF ActivityIsNewest, LiveSessions
<1>10. RunsAddUp
  BY <1>2, <1>3, NoStepsAddUp DEF RunsAddUp
<1> QED
  BY <1>5, <1>6, <1>7, <1>8, <1>9, <1>10 DEF AuditInv

LEMMA AuditHolds == ChatAuditSpec => []AuditInv
BY AuditInit, AuditStep, PTL DEF ChatAuditSpec

\* The tables of the chat keep their types, and rows point at rows that are there.
THEOREM AuditTyped == ChatAuditSpec => []ChatAuditTypeOK
<1>1. ASSUME AuditInv PROVE ChatAuditTypeOK
  <2>1. ChatTypes /\ AloneChat /\ LinksHold /\ RunsAddUp
    BY <1>1, AuditParts
  <2>2. ASSUME NEW r \in RunIds
        PROVE  /\ agentRun[r].status \in {"none", "running"} \cup TerminalStatuses
               /\ agentRun[r].steps \in SUBSET StepRow
               /\ agentRun[r].cost \in 0 .. MaxInteger
    <3>1. agentRun[r] \in RunRows
      BY <2>1 DEF ChatTypes
    <3>2. agentRun[r].cost \in Nat /\ agentRun[r].cost <= MaxInteger
      BY <2>1, <3>1 DEF RunRows, RunsAddUp, RunAddsUp
    <3> QED
      BY <3>1, <3>2, ChatAuditAssumption DEF RunRows, RunStatuses
  <2> QED
    BY <2>1, <2>2 DEF ChatTypes, SessionRows, MessageRows, AloneChat, LinksHold, ChatAuditTypeOK
<1> QED
  BY <1>1, AuditHolds, PTL

\* The newest message of a session, the numbers and keys of a run's steps and its totals
\* agree with the rows they are derived from, for any number of callers
\* (_refresh_session_activity, append_agent_step, _refresh_agent_run_totals).
THEOREM ChatRowsFollow == ChatAuditSpec => []ChatRowsAgree
<1>1. ASSUME AuditInv PROVE ChatRowsAgree
  <2>1. RunsAddUp /\ ChatTypes
    BY <1>1, AuditParts
  <2>2. AgentRuns \subseteq RunIds
    BY <2>1 DEF AgentRuns, TableRows, ChatTypes
  <2>3. StepsAndTotalsAgree
    BY <2>1, <2>2 DEF StepsAndTotalsAgree, RunsAddUp, RunAddsUp
  <2> QED
    BY <1>1, <2>3 DEF ChatRowsAgree, AuditInv
<1> QED
  BY <1>1, AuditHolds, PTL

-----------------------------------------------------------------------------
(* What a step does to the audit rows and to the list of messages.         *)

\* The row is as it was, its links aside.
SameAudit(old, new) == new.status = old.status /\ new.steps = old.steps /\ new.cost = old.cost

\* The row begins, from a message that can be seen in an open session.
Started(old, new) ==
  /\ old.status = "none" /\ new.status # "none"
  /\ message[new.message].status = "kept" /\ message[new.message].user
  /\ session[message[new.message].session].status = "active"

\* The row goes on, or ends.
WentOn(old, new) == old.status = "running" /\ new.status # "none" /\ old.steps \subseteq new.steps

RunChanges(r) ==
  \/ SameAudit(agentRun[r], agentRun'[r])
  \/ Started(agentRun[r], agentRun'[r])
  \/ WentOn(agentRun[r], agentRun'[r])

LEMMA UnlinkingKeepsAudit ==
  ASSUME ChatTypes, NEW r \in RunIds,
         \/ agentRun' = agentRun
         \/ \E ids : agentRun' = Unlinked(ids)
         \/ \E s : agentRun' = [q \in RunIds |->
              IF agentRun[q].session = s THEN [agentRun[q] EXCEPT !.session = 0, !.message = 0]
                                         ELSE agentRun[q]]
  PROVE  SameAudit(agentRun[r], agentRun'[r])
<1>1. agentRun[r] \in RunRows
  BY DEF ChatTypes
<1>2. \/ agentRun'[r] = agentRun[r]
      \/ agentRun'[r] = [agentRun[r] EXCEPT !.message = 0]
      \/ agentRun'[r] = [agentRun[r] EXCEPT !.session = 0, !.message = 0]
  BY DEF Unlinked
<1> QED
  BY <1>1, <1>2 DEF SameAudit, RunRows

LEMMA CreateRunStarts ==
  ASSUME AuditInv, NEW c \in Callers, NEW r \in RunIds, CreateRun(c, r)
  PROVE  \A q \in RunIds : RunChanges(q)
<1> DEFINE m == call[c].id
           s == message[m].session
           row == [NoRun EXCEPT !.status = "running", !.session = s, !.message = m]
<1>0. ChatTypes /\ RunsAddUp
  BY AuditParts
<1>1. /\ agentRun' = [agentRun EXCEPT ![r] = row] /\ IsNext(r, agentRun, chatRoom.runs)
      /\ message[m].status = "kept" /\ message[m].user /\ session[s].status = "active"
  BY DEF CreateRun
<1>2. row.status = "running" /\ row.message = m
  BY DEF NoRun
<1> HIDE DEF row
<1>3. agentRun[r].status = "none"
  BY <1>0, <1>1 DEF IsNext, TableRows, ChatTypes
<1>4. agentRun'[r] = row /\ \A q \in RunIds : q # r => agentRun'[q] = agentRun[q]
  BY <1>0, <1>1 DEF ChatTypes
<1> QED
  BY <1>1, <1>2, <1>3, <1>4 DEF RunChanges, SameAudit, Started

LEMMA AppendGoesOn ==
  ASSUME AuditInv, NEW c \in Callers, AppendStep(c)
  PROVE  \A q \in RunIds : RunChanges(q)
<1> DEFINE r == call[c].id
<1>0. ChatTypes /\ CallsHaveRows
  BY AuditParts
<1>1. End(c, "append") /\ agentRun[r].status = "running"
  BY DEF AppendStep
<1>2. r \in RunIds
  BY <1>0, <1>1 DEF End, CallsHaveRows, CallHasRow
<1>3. PICK step : agentRun' = [agentRun EXCEPT ![r] =
                    Totals([agentRun[r] EXCEPT !.steps = @ \cup {step}])]
  BY DEF AppendStep
<1> DEFINE old == agentRun[r]
           row == Totals([old EXCEPT !.steps = @ \cup {step}])
<1>4. agentRun'[r] = row /\ \A q \in RunIds : q # r => agentRun'[q] = agentRun[q]
  BY <1>0, <1>2, <1>3 DEF ChatTypes
<1>5. old \in RunRows
  BY <1>0, <1>2 DEF ChatTypes
<1>6. row.status = old.status /\ old.steps \subseteq row.steps
  <2> DEFINE mid == [old EXCEPT !.steps = @ \cup {step}]
  <2> HIDE DEF old
  <2>1. mid.status = old.status /\ mid.steps = old.steps \cup {step} /\ mid \in [DOMAIN old -> {mid[f] : f \in DOMAIN old}]
    BY <1>5 DEF RunRows
  <2>2. row = [mid EXCEPT !.count = Cardinality(mid.steps), !.cost = CostOf(mid.steps)]
    BY DEF Totals
  <2>3. row.status = mid.status /\ row.steps = mid.steps
    <3> HIDE DEF row
    <3> DEFINE n == Cardinality(mid.steps)
               total == CostOf(mid.steps)
    <3>1. row = [mid EXCEPT !.count = n, !.cost = total]
      BY <2>2
    <3>2. mid = [old EXCEPT !.steps = @ \cup {step}]
      OBVIOUS
    <3> HIDE DEF n, total, mid
    <3> QED
      BY <1>5, <3>1, <3>2 DEF RunRows
  <2> QED
    BY <2>1, <2>3
<1> HIDE DEF row
<1> QED
  BY <1>1, <1>4, <1>6 DEF RunChanges, SameAudit, WentOn

LEMMA FinalizeEnds ==
  ASSUME AuditInv, NEW c \in Callers, FinalizeRun(c)
  PROVE  \A q \in RunIds : RunChanges(q)
<1> DEFINE r == call[c].id
<1>0. ChatTypes /\ CallsHaveRows /\ RunsAddUp
  BY AuditParts
<1>1. End(c, "finalize") /\ agentRun[r].status = "running"
  BY DEF FinalizeRun
<1>2. r \in RunIds
  BY <1>0, <1>1 DEF End, CallsHaveRows, CallHasRow
<1>3. PICK status \in TerminalStatuses :
        agentRun' = [agentRun EXCEPT ![r] = [Totals(agentRun[r]) EXCEPT !.status = status]]
  BY DEF FinalizeRun
<1>4. agentRun[r] \in RunRows /\ RunAddsUp(agentRun[r]) /\ status \in RunStatuses
  BY <1>0, <1>2 DEF ChatTypes, RunsAddUp, RunStatuses
<1>5. agentRun' = [agentRun EXCEPT ![r] = [agentRun[r] EXCEPT !.status = status]]
  BY <1>3, <1>4, TotalsAgain
<1>6. /\ agentRun'[r].status = status /\ agentRun'[r].steps = agentRun[r].steps
      /\ \A q \in RunIds : q # r => agentRun'[q] = agentRun[q]
  BY <1>0, <1>2, <1>4, <1>5 DEF ChatTypes, RunRows
<1>7. status # "none"
  BY DEF TerminalStatuses
<1> QED
  BY <1>1, <1>6, <1>7 DEF RunChanges, SameAudit, WentOn

\* Every step, run by run.
LEMMA RunsChange ==
  ASSUME AuditInv, [ChatAuditNext]_chatAuditVars
  PROVE  \A r \in RunIds : RunChanges(r)
<1>0. ChatTypes
  BY AuditParts
<1>1. ASSUME \/ agentRun' = agentRun
             \/ \E ids : agentRun' = Unlinked(ids)
             \/ \E s : agentRun' = [q \in RunIds |->
                  IF agentRun[q].session = s
                  THEN [agentRun[q] EXCEPT !.session = 0, !.message = 0] ELSE agentRun[q]]
      PROVE  \A r \in RunIds : RunChanges(r)
  BY <1>0, <1>1, UnlinkingKeepsAudit DEF RunChanges
<1>2. CASE UNCHANGED chatAuditVars
  BY <1>1, <1>2 DEF chatAuditVars
<1>3. ASSUME NEW s \in SessionIds, CreateSession(s) PROVE agentRun' = agentRun
  BY <1>3 DEF CreateSession
<1>4. ASSUME NEW c \in Callers,
             \/ BeginArchive(c) \/ BeginDeleteSession(c) \/ BeginSave(c) \/ BeginDeleteMessage(c)
             \/ BeginRun(c) \/ BeginAppend(c) \/ BeginFinalize(c)
      PROVE  agentRun' = agentRun
  BY <1>4 DEF BeginArchive, BeginDeleteSession, BeginSave, BeginDeleteMessage, BeginRun,
     BeginAppend, BeginFinalize, Begin
<1>5. ASSUME NEW c \in Callers,
             \/ ArchiveSession(c) \/ (\E m \in MessageIds : SaveMessage(c, m)) \/ GiveUpCall(c)
      PROVE  agentRun' = agentRun
  BY <1>5 DEF ArchiveSession, SaveMessage, GiveUpCall
<1>6. ASSUME NEW c \in Callers, DeleteSession(c)
      PROVE  \E s : agentRun' = [q \in RunIds |->
                  IF agentRun[q].session = s
                  THEN [agentRun[q] EXCEPT !.session = 0, !.message = 0] ELSE agentRun[q]]
  BY <1>6 DEF DeleteSession
<1>7. ASSUME NEW c \in Callers, DeleteMessage(c)
      PROVE  agentRun' = agentRun \/ \E ids : agentRun' = Unlinked(ids)
  BY <1>7 DEF DeleteMessage
<1>8. ASSUME NEW c \in Callers,
             (\E r \in RunIds : CreateRun(c, r)) \/ AppendStep(c) \/ FinalizeRun(c)
      PROVE  \A r \in RunIds : RunChanges(r)
  BY <1>8, CreateRunStarts, AppendGoesOn, FinalizeEnds
<1>9. CASE ChatAuditNext
  BY <1>1, <1>3, <1>4, <1>5, <1>6, <1>7, <1>8, <1>9 DEF ChatAuditNext, ChatAuditStep
<1> QED
  BY <1>2, <1>9

\* A message appears in a session that is open, one caller at a time.
LEMMA MessagesArriveOpen ==
  ASSUME AuditInv, [ChatAuditNext]_chatAuditVars, atOnce = 1,
         NEW m \in ChatMessages' \ ChatMessages
  PROVE  message'[m].session \in SessionIds /\ session[message'[m].session].status = "active"
<1>0. ChatTypes /\ CallsHaveRows /\ AloneChat
  BY AuditParts
<1>1. m \in MessageIds /\ message'[m].status \in {"kept", "deleted"}
      /\ message[m].status \notin {"kept", "deleted"}
  BY DEF ChatMessages
<1>2. ASSUME message' = message PROVE FALSE
  BY <1>1, <1>2
<1>3. CASE UNCHANGED chatAuditVars
  BY <1>2, <1>3 DEF chatAuditVars
<1>4. ASSUME NEW s \in SessionIds, CreateSession(s) PROVE FALSE
  BY <1>2, <1>4 DEF CreateSession
<1>5. ASSUME NEW c \in Callers,
             \/ BeginArchive(c) \/ BeginDeleteSession(c) \/ BeginSave(c) \/ BeginDeleteMessage(c)
             \/ BeginRun(c) \/ BeginAppend(c) \/ BeginFinalize(c)
      PROVE  FALSE
  BY <1>2, <1>5 DEF BeginArchive, BeginDeleteSession, BeginSave, BeginDeleteMessage, BeginRun,
     BeginAppend, BeginFinalize, Begin
<1>6. ASSUME NEW c \in Callers,
             \/ ArchiveSession(c) \/ (\E r \in RunIds : CreateRun(c, r)) \/ AppendStep(c)
             \/ FinalizeRun(c) \/ GiveUpCall(c)
      PROVE  FALSE
  BY <1>2, <1>6 DEF ArchiveSession, CreateRun, AppendStep, FinalizeRun, GiveUpCall
<1>7. ASSUME NEW c \in Callers, DeleteSession(c) PROVE FALSE
  <2>1. message'[m].status = "gone" \/ message'[m] = message[m]
    <3>1. message[m] \in MessageRows
      BY <1>0, <1>1 DEF ChatTypes
    <3>2. \/ message'[m] = [message[m] EXCEPT !.status = "gone"]
          \/ message'[m] = message[m]
      BY <1>1, <1>7 DEF DeleteSession
    <3> QED
      BY <3>1, <3>2 DEF MessageRows
  <2> QED
    BY <1>1, <2>1
<1>8. ASSUME NEW c \in Callers, DeleteMessage(c) PROVE FALSE
  <2>1. PICK status \in {"deleted", "gone"} : message' = [message EXCEPT ![call[c].id].status = status]
    BY <1>8 DEF DeleteMessage
  <2>2. call[c].id \in MessageIds /\ message[call[c].id].status \notin {"none", "gone"}
    BY <1>0, <1>8 DEF DeleteMessage, End, CallsHaveRows, CallHasRow
  <2>3. message[call[c].id].status \in {"kept", "deleted"}
    BY <1>0, <2>2 DEF ChatTypes, MessageRows
  <2>4. m # call[c].id
    BY <1>1, <2>3
  <2>5. message'[m] = message[m]
    BY <1>0, <1>1, <2>1, <2>4 DEF ChatTypes
  <2> QED
    BY <1>1, <2>5
<1>9. ASSUME NEW c \in Callers, NEW k \in MessageIds, SaveMessage(c, k)
      PROVE  message'[m].session \in SessionIds /\ session[message'[m].session].status = "active"
  <2>1. PICK user \in BOOLEAN : message' = [message EXCEPT ![k] =
                                   [status |-> "kept", session |-> call[c].id, user |-> user]]
    BY <1>9 DEF SaveMessage
  <2>2. m = k /\ message'[m].session = call[c].id
    BY <1>0, <1>1, <2>1 DEF ChatTypes
  <2>3. call[c].op = "save" /\ call[c].id \in SessionIds
    BY <1>0, <1>9 DEF SaveMessage, End, CallsHaveRows, CallHasRow
  <2> QED
    BY <1>0, <2>2, <2>3 DEF AloneChat
<1>10. CASE ChatAuditNext
  BY <1>4, <1>5, <1>6, <1>7, <1>8, <1>9, <1>10 DEF ChatAuditNext, ChatAuditStep
<1> QED
  BY <1>3, <1>10

\* The three action properties of AuditStands, as facts about one step.
LEMMA AuditStandsStep ==
  ASSUME AuditInv, AuditInv', [ChatAuditNext]_chatAuditVars
  PROVE  /\ \A r \in AgentRuns' \ AgentRuns :
              LET m == agentRun'[r].message
              IN  message[m].status = "kept" /\ message[m].user
                  /\ session[message[m].session].status = "active"
         /\ \A r \in AgentRuns :
              /\ r \in AgentRuns'
              /\ agentRun[r].steps \subseteq agentRun'[r].steps
              /\ agentRun[r].status # "running" =>
                   /\ agentRun'[r].status = agentRun[r].status
                   /\ agentRun'[r].steps = agentRun[r].steps
                   /\ agentRun'[r].cost = agentRun[r].cost
         /\ atOnce = 1 =>
              \A s \in SessionIds : session[s].status = "archived" =>
                \A m \in ChatMessages' \ ChatMessages : message'[m].session # s
<1>1. DOMAIN agentRun = RunIds /\ DOMAIN agentRun' = RunIds
  <2>1. ChatTypes /\ ChatTypes'
    BY DEF AuditInv
  <2> QED
    BY <2>1 DEF ChatTypes
<1>2. /\ AgentRuns = {r \in RunIds : agentRun[r].status # "none"}
      /\ AgentRuns' = {r \in RunIds : agentRun'[r].status # "none"}
  BY <1>1 DEF AgentRuns, TableRows
<1>3. \A r \in RunIds : RunChanges(r)
  BY RunsChange
<1>4. ASSUME NEW r \in AgentRuns' \ AgentRuns PROVE Started(agentRun[r], agentRun'[r])
  BY <1>2, <1>3 DEF RunChanges, SameAudit, WentOn
<1>5. ASSUME NEW r \in AgentRuns
      PROVE  /\ r \in AgentRuns'
             /\ agentRun[r].steps \subseteq agentRun'[r].steps
             /\ agentRun[r].status # "running" => SameAudit(agentRun[r], agentRun'[r])
  BY <1>2, <1>3 DEF RunChanges, SameAudit, WentOn, Started
<1>6. ASSUME atOnce = 1, NEW s \in SessionIds, session[s].status = "archived",
             NEW m \in ChatMessages' \ ChatMessages
      PROVE  message'[m].session # s
  BY <1>6, MessagesArriveOpen
<1> QED
  BY <1>4, <1>5, <1>6 DEF Started, SameAudit

\* A run starts from a user message that can be seen in an open session, an audit row
\* outlives its chat and keeps its outcome, and, one caller at a time, an archived
\* session gets no message (create_agent_run, append_agent_step, finalize_agent_run,
\* delete_chat_session, save_chat_message).
THEOREM AuditKeeps == ChatAuditSpec => AuditStands
<1>1. ChatAuditSpec => RunsStartFromLiveMessages
  BY AuditHolds, AuditStandsStep, PTL DEF ChatAuditSpec, RunsStartFromLiveMessages
<1>2. ChatAuditSpec => AuditOutlivesChat
  BY AuditHolds, AuditStandsStep, PTL DEF ChatAuditSpec, AuditOutlivesChat
<1>3. ChatAuditSpec => ArchivedStaysQuiet
  BY AuditHolds, AuditStandsStep, PTL DEF ChatAuditSpec, ArchivedStaysQuiet
<1> QED
  BY <1>1, <1>2, <1>3 DEF AuditStands

-----------------------------------------------------------------------------
(* The check-ins: sums of movements.                                       *)

CheckinMoves == Movements \cup {0, NoCash}
CheckinRows == [status : {"none", "kept", "gone"}, cash : Int, movement : CheckinMoves,
                key : CheckinKeys \cup {NoCheckinKey}]
CheckinTables == [CheckinIds -> CheckinRows]

KeptIn(table) == {c \in CheckinIds : table[c].status = "kept"}
UpTo(table, c) == {d \in KeptIn(table) : d <= c}
MovesOf(table) == [d \in CheckinIds |-> table[d].movement]

\* No movement was ever emptied.
AllMoved(table) == \A d \in CheckinIds : table[d].movement \in Int

\* Every balance is the sum of the movements up to it.
AddsUp(table) ==
  \A c \in KeptIn(table) : table[c].cash = SumOf(MovesOf(table), UpTo(table, c))

LEMMA KeptIsFinite ==
  ASSUME NEW table, NEW S, S \subseteq KeptIn(table)
  PROVE  IsFiniteSet(S) /\ \A c \in S : c \in CheckinIds /\ c \in Nat
BY FS_Subset, CheckinsAssumption DEF KeptIn

LEMMA MovesAreIntegers ==
  ASSUME NEW table, AllMoved(table), NEW S, S \subseteq KeptIn(table)
  PROVE  IntValues(MovesOf(table), S) /\ SumOf(MovesOf(table), S) \in Int
<1>1. IntValues(MovesOf(table), S)
  BY DEF IntValues, MovesOf, AllMoved, KeptIn
<1> QED
  BY <1>1, KeptIsFinite, SumFacts

\* One movement of some rows is another number.
LEMMA OneMoveChanges ==
  ASSUME NEW S, IsFiniteSet(S), NEW c \in S, NEW f, NEW g, IntValues(f, S), IntValues(g, S),
         SameValues(f, g, S \ {c})
  PROVE  SumOf(g, S) = SumOf(f, S) - f[c] + g[c]
<1>1. IsFiniteSet(S \ {c}) /\ IntValues(f, S \ {c}) /\ f[c] \in Int /\ g[c] \in Int
  BY FS_RemoveElement DEF IntValues
<1>2. SumOf(f, S \ {c}) = SumOf(g, S \ {c})
  BY <1>1, SumOfSame
<1>3. /\ SumOf(f, S) = f[c] + SumOf(f, S \ {c})
      /\ SumOf(g, S) = g[c] + SumOf(g, S \ {c})
      /\ SumOf(f, S \ {c}) \in Int
  BY <1>1, SumFacts
<1> QED
  BY <1>1, <1>2, <1>3

\* The newest balance of the first rows is the sum of their movements.
LEMMA NewestAddsUp ==
  ASSUME NEW table, AllMoved(table), AddsUp(table), NEW S, S \subseteq KeptIn(table),
         \A d \in S, e \in KeptIn(table) : e <= d => e \in S
  PROVE  (IF S = {} THEN 0 ELSE table[Max(S)].cash) = SumOf(MovesOf(table), S)
<1>1. CASE S = {}
  <2>1. SumOf(MovesOf(table), {}) = 0
    BY <1>1, KeptIsFinite, MovesAreIntegers, SumFacts
  <2> QED
    BY <1>1, <2>1
<1>2. CASE S # {}
  <2>1. \E x \in S : \A y \in S : x >= y
    BY <1>2, KeptIsFinite, GreatestExists
  <2>2. Max(S) \in S /\ \A y \in S : Max(S) >= y
    BY <2>1 DEF Max
  <2>3. S = UpTo(table, Max(S))
    BY <2>2, KeptIsFinite DEF UpTo
  <2>4. table[Max(S)].cash = SumOf(MovesOf(table), UpTo(table, Max(S)))
    BY <2>2 DEF AddsUp
  <2> QED
    BY <1>2, <2>3, <2>4
<1> QED
  BY <1>1, <1>2

\* A newest row is added.
LEMMA NewestRowAdds ==
  ASSUME NEW old \in CheckinTables, NEW new \in CheckinTables, AllMoved(old), AllMoved(new),
         AddsUp(old), NEW c \in CheckinIds, c \notin KeptIn(old), \A d \in KeptIn(old) : d < c,
         new[c].status = "kept",
         new[c].cash = SumOf(MovesOf(old), KeptIn(old)) + new[c].movement,
         \A d \in CheckinIds : d # c => new[d] = old[d]
  PROVE  AddsUp(new)
<1>1. KeptIn(new) = KeptIn(old) \cup {c}
  BY DEF KeptIn
<1>2. SameValues(MovesOf(old), MovesOf(new), KeptIn(old))
  BY DEF SameValues, MovesOf, KeptIn
<1>3. ASSUME NEW d \in KeptIn(old)
      PROVE  new[d].cash = SumOf(MovesOf(new), UpTo(new, d))
  <2>1. UpTo(new, d) = UpTo(old, d)
    BY <1>1, KeptIsFinite, CheckinsAssumption DEF UpTo
  <2>2. UpTo(old, d) \subseteq KeptIn(old) /\ SameValues(MovesOf(old), MovesOf(new), UpTo(old, d))
    BY <1>2 DEF UpTo, SameValues
  <2>3. SumOf(MovesOf(old), UpTo(old, d)) = SumOf(MovesOf(new), UpTo(old, d))
    BY <2>2, KeptIsFinite, MovesAreIntegers, SumOfSame
  <2>4. new[d] = old[d] /\ old[d].cash = SumOf(MovesOf(old), UpTo(old, d))
    BY DEF AddsUp, KeptIn
  <2> QED
    BY <2>1, <2>3, <2>4
<1>4. new[c].cash = SumOf(MovesOf(new), UpTo(new, c))
  <2>1. UpTo(new, c) = KeptIn(old) \cup {c}
    BY <1>1, KeptIsFinite, CheckinsAssumption, SMTT(30) DEF UpTo
  <2>2. SumOf(MovesOf(old), KeptIn(old)) = SumOf(MovesOf(new), KeptIn(old))
    BY <1>2, KeptIsFinite, MovesAreIntegers, SumOfSame
  <2>3. IntValues(MovesOf(new), KeptIn(old)) /\ MovesOf(new)[c] = new[c].movement
        /\ new[c].movement \in Int /\ IsFiniteSet(KeptIn(old))
    BY <1>1, MovesAreIntegers, KeptIsFinite DEF MovesOf, AllMoved
  <2>4. SumOf(MovesOf(new), KeptIn(old) \cup {c})
          = SumOf(MovesOf(new), KeptIn(old)) + new[c].movement
    BY <2>3, SumGrows
  <2> QED
    BY <2>1, <2>2, <2>4
<1> QED
  BY <1>1, <1>3, <1>4 DEF AddsUp

\* One of two rows is the earlier.
LEMMA Comparable ==
  ASSUME NEW a \in Nat, NEW b \in Nat
  PROVE  a < b \/ a > b \/ a = b
OBVIOUS

\* A row gets another movement, and the later balances the difference.
LEMMA ChangedRowAdds ==
  ASSUME NEW old \in CheckinTables, NEW new \in CheckinTables, AllMoved(old), AllMoved(new),
         AddsUp(old), NEW c \in KeptIn(old), KeptIn(new) = KeptIn(old),
         \A d \in CheckinIds : d # c => new[d].movement = old[d].movement,
         new[c].cash = SumOf(MovesOf(old), {d \in KeptIn(old) : d < c}) + new[c].movement,
         \A d \in KeptIn(old) : d < c => new[d].cash = old[d].cash,
         \A d \in KeptIn(old) : d > c =>
           new[d].cash = old[d].cash + (new[c].movement - old[c].movement)
  PROVE  AddsUp(new)
<1>0. c \in CheckinIds /\ c \in Nat /\ new[c].movement \in Int /\ old[c].movement \in Int
      /\ MovesOf(old)[c] = old[c].movement /\ MovesOf(new)[c] = new[c].movement
  BY CheckinsAssumption DEF KeptIn, AllMoved, MovesOf
<1>1. \A d : UpTo(new, d) = UpTo(old, d)
  BY DEF UpTo
<1>7. \A d \in KeptIn(old) : d \in CheckinIds /\ d \in Nat
  BY KeptIsFinite
<1>2. ASSUME NEW S, S \subseteq KeptIn(old)
      PROVE  /\ IsFiniteSet(S) /\ IntValues(MovesOf(old), S) /\ IntValues(MovesOf(new), S)
             /\ SameValues(MovesOf(old), MovesOf(new), S \ {c})
             /\ SumOf(MovesOf(old), S) \in Int
  BY <1>2, KeptIsFinite, MovesAreIntegers DEF SameValues, MovesOf, KeptIn
<1>3. ASSUME NEW d \in KeptIn(old), d < c
      PROVE  new[d].cash = SumOf(MovesOf(new), UpTo(new, d))
  <2>1. UpTo(old, d) \subseteq KeptIn(old) /\ UpTo(old, d) \ {c} = UpTo(old, d)
    BY <1>0, <1>3, KeptIsFinite DEF UpTo
  <2>2. SumOf(MovesOf(old), UpTo(old, d)) = SumOf(MovesOf(new), UpTo(old, d))
    BY <1>2, <2>1, SumOfSame
  <2> QED
    BY <1>1, <1>3, <2>2 DEF AddsUp
<1>4. ASSUME NEW d \in KeptIn(old), d > c
      PROVE  new[d].cash = SumOf(MovesOf(new), UpTo(new, d))
  <2>1. UpTo(old, d) \subseteq KeptIn(old) /\ c \in UpTo(old, d)
    BY <1>0, <1>4, KeptIsFinite DEF UpTo
  <2>2. SumOf(MovesOf(new), UpTo(old, d))
          = SumOf(MovesOf(old), UpTo(old, d)) - old[c].movement + new[c].movement
    <3>1. /\ IsFiniteSet(UpTo(old, d)) /\ IntValues(MovesOf(old), UpTo(old, d))
          /\ IntValues(MovesOf(new), UpTo(old, d))
          /\ SameValues(MovesOf(old), MovesOf(new), UpTo(old, d) \ {c})
      BY <1>2, <2>1
    <3>2. SumOf(MovesOf(new), UpTo(old, d))
            = SumOf(MovesOf(old), UpTo(old, d)) - MovesOf(old)[c] + MovesOf(new)[c]
      BY <2>1, <3>1, OneMoveChanges
    <3> QED
      BY <1>0, <3>2
  <2>3. old[d].cash = SumOf(MovesOf(old), UpTo(old, d)) /\ SumOf(MovesOf(old), UpTo(old, d)) \in Int
    BY <1>2, <2>1 DEF AddsUp
  <2> QED
    BY <1>0, <1>1, <1>4, <2>2, <2>3
<1>5. new[c].cash = SumOf(MovesOf(new), UpTo(new, c))
  <2> DEFINE before == {d \in KeptIn(old) : d < c}
  <2>1. before \subseteq KeptIn(old) /\ c \notin before /\ before \ {c} = before
    BY <1>0
  <2>2. UpTo(old, c) = before \cup {c}
    <3>1. \A d \in KeptIn(old) : d <= c <=> d < c \/ d = c
      BY <1>0, <1>7
    <3>2. \A d : d \in UpTo(old, c) <=> d \in before \cup {c}
      BY <1>0, <3>1 DEF UpTo
    <3> QED
      BY <3>2
  <2>3. new[c].cash = SumOf(MovesOf(old), before) + new[c].movement
    OBVIOUS
  <2> HIDE DEF before
  <2>4. SumOf(MovesOf(old), before) = SumOf(MovesOf(new), before)
    BY <1>2, <2>1, SumOfSame
  <2>5. SumOf(MovesOf(new), before \cup {c}) = SumOf(MovesOf(new), before) + new[c].movement
    <3>1. IsFiniteSet(before) /\ IntValues(MovesOf(new), before) /\ MovesOf(new)[c] \in Int
      BY <1>0, <1>2, <2>1
    <3>2. SumOf(MovesOf(new), before \cup {c}) = SumOf(MovesOf(new), before) + MovesOf(new)[c]
      BY <2>1, <3>1, SumGrows
    <3> QED
      BY <1>0, <3>2
  <2> QED
    BY <1>1, <2>2, <2>3, <2>4, <2>5
<1>6. ASSUME NEW d \in KeptIn(old) PROVE d < c \/ d > c \/ d = c
  <2>1. c \in Nat /\ d \in Nat
    BY <1>0, <1>7
  <2> QED
    BY <2>1, Comparable
<1> QED
  BY <1>3, <1>4, <1>5, <1>6 DEF AddsUp

\* A row goes, and the later balances lose its movement.
LEMMA GoneRowAdds ==
  ASSUME NEW old \in CheckinTables, NEW new \in CheckinTables, AllMoved(old), AllMoved(new),
         AddsUp(old), NEW c \in KeptIn(old), KeptIn(new) = KeptIn(old) \ {c},
         \A d \in CheckinIds : new[d].movement = old[d].movement,
         \A d \in KeptIn(new) : d < c => new[d].cash = old[d].cash,
         \A d \in KeptIn(new) : d > c => new[d].cash = old[d].cash - old[c].movement
  PROVE  AddsUp(new)
<1>0. c \in CheckinIds /\ c \in Nat /\ old[c].movement \in Int
      /\ MovesOf(old)[c] = old[c].movement
  BY CheckinsAssumption DEF KeptIn, AllMoved, MovesOf
<1>1. MovesOf(new) = MovesOf(old)
  BY DEF MovesOf
<1>5. \A d \in KeptIn(old) : d \in CheckinIds /\ d \in Nat
  BY KeptIsFinite
<1>2. ASSUME NEW d \in KeptIn(new), d < c
      PROVE  new[d].cash = SumOf(MovesOf(new), UpTo(new, d))
  <2>1. UpTo(new, d) = UpTo(old, d) /\ d \in KeptIn(old)
    BY <1>0, <1>2, KeptIsFinite DEF UpTo
  <2> QED
    BY <1>1, <1>2, <2>1 DEF AddsUp
<1>3. ASSUME NEW d \in KeptIn(new), d > c
      PROVE  new[d].cash = SumOf(MovesOf(new), UpTo(new, d))
  <2>0. d \in KeptIn(old) /\ d \in Nat /\ c \in Nat /\ c <= d
    <3>1. d \in KeptIn(old) /\ c \in Nat
      BY <1>0
    <3>2. d \in Nat
      BY <1>5, <3>1
    <3>3. c <= d
      BY <1>3, <3>1, <3>2
    <3> QED
      BY <3>1, <3>2, <3>3
  <2>1. /\ UpTo(new, d) = UpTo(old, d) \ {c} /\ c \in UpTo(old, d)
        /\ UpTo(old, d) \subseteq KeptIn(old)
    BY <2>0 DEF UpTo
  <2>2. IsFiniteSet(UpTo(old, d)) /\ IntValues(MovesOf(old), UpTo(old, d))
    BY <2>1, KeptIsFinite, MovesAreIntegers
  <2>3. SumOf(MovesOf(old), UpTo(old, d) \ {c})
          = SumOf(MovesOf(old), UpTo(old, d)) - old[c].movement
    <3>1. SumOf(MovesOf(old), UpTo(old, d) \ {c})
            = SumOf(MovesOf(old), UpTo(old, d)) - MovesOf(old)[c]
      BY <2>1, <2>2, SumShrinks
    <3> QED
      BY <1>0, <3>1
  <2>4. old[d].cash = SumOf(MovesOf(old), UpTo(old, d))
    BY <2>0 DEF AddsUp
  <2> QED
    BY <1>1, <1>3, <2>1, <2>3, <2>4
<1>4. \A d \in KeptIn(new) : d < c \/ d > c
  <2>1. c \in Nat
    BY <1>0
  <2>2. \A d \in KeptIn(new) : d \in Nat /\ d # c
    BY <1>5
  <2> QED
    BY <2>1, <2>2
<1> QED
  BY <1>2, <1>3, <1>4 DEF AddsUp

-----------------------------------------------------------------------------
(* The check-ins: what every state has.                                    *)

FormRows == [op : {"idle", "create", "edit", "delete"}, id : CheckinIds \cup {0}, cash : Int,
             old : CheckinMoves, new : CheckinMoves]

CheckinTypes ==
  /\ checkin \in CheckinTables /\ direction \in [CheckinIds -> {0, 1}]
  /\ form \in [Submitters -> FormRows] /\ balanceSet \in BOOLEAN
  /\ edits \in Nat /\ checkinRoom \in CheckinRooms /\ edits <= checkinRoom.edits

\* Ids are given out in order, and a form is about a row that was there.
RowsInOrder ==
  /\ \A c, d \in CheckinIds : checkin[c].status # "none" /\ d < c => checkin[d].status # "none"
  /\ \A w \in Submitters : form[w].op \in {"edit", "delete"} =>
       form[w].id \in CheckinIds /\ checkin[form[w].id].status # "none"

OpenForms == {v \in Submitters : form[v].op # "idle"}

\* What a form has read is what is stored.
Current(f) ==
  /\ f.op = "create" => f.cash = NewestCash(Rows)
  /\ f.op \in {"edit", "delete"} => f.id \in Rows /\ f.old = checkin[f.id].movement

\* One request at a time: the open form is the only one, and it is current.
AloneForm ==
  checkinRoom.submitters = 1 =>
    /\ \A v, w \in OpenForms : v = w
    /\ \A w \in Submitters : form[w].op # "idle" => Current(form[w])

\* Balances that were left to the program: every movement is a number, and with one
\* request at a time the balances are sums.
ProgramBalances ==
  ~balanceSet => /\ AllMoved(checkin)
                 /\ checkinRoom.submitters = 1 => AddsUp(checkin)

CheckinInv ==
  /\ CheckinTypes /\ RowsInOrder /\ AloneForm /\ ProgramBalances
  /\ OneDirectionEach /\ OneCheckinPerKey

LEMMA RowsAreKept == Rows = KeptIn(checkin) /\ Rows' = KeptIn(checkin')
BY DEF Rows, KeptIn

\* The open forms may be counted when there are at most as many as there is room for.
LEMMA NoOtherForm ==
  ASSUME CheckinTypes, checkinRoom.submitters = 1, AloneForm,
         Cardinality(OpenForms) < checkinRoom.submitters
  PROVE  OpenForms = {}
<1>1. IsFiniteSet(OpenForms)
  <2>1. CASE OpenForms = {}
    BY <2>1, FS_EmptySet
  <2>2. CASE OpenForms # {}
    <3>1. PICK v : v \in OpenForms
      BY <2>2
    <3>2. OpenForms = {v}
      BY <3>1 DEF AloneForm
    <3> QED
      BY <3>2, FS_Singleton
  <2> QED
    BY <2>1, <2>2
<1>2. Cardinality(OpenForms) \in Nat
  BY <1>1, FS_CardinalityType
<1>3. Cardinality(OpenForms) = 0
  BY <1>2
<1> QED
  BY <1>1, <1>3, FS_EmptySet

\* A form is opened on what is stored.
LEMMA BeginFormKeeps ==
  ASSUME CheckinInv, UNCHANGED checkinRoom, NEW w \in Submitters, NEW new \in FormRows,
         new.op # "idle", Current(new), BeginForm(w, new),
         new.op \in {"edit", "delete"} => new.id \in CheckinIds
  PROVE  CheckinInv'
<1>1. /\ form' = [form EXCEPT ![w] = new] /\ form[w].op = "idle"
      /\ Cardinality(OpenForms) < checkinRoom.submitters
      /\ checkin' = checkin /\ direction' = direction /\ balanceSet' = balanceSet
      /\ edits' = edits /\ checkinRoom' = checkinRoom
  BY DEF BeginForm, OpenForms
<1>0. CheckinTypes /\ RowsInOrder /\ AloneForm
  BY DEF CheckinInv
<1>2. /\ form' \in [Submitters -> FormRows] /\ form'[w] = new
      /\ \A v \in Submitters : v # w => form'[v] = form[v]
  BY <1>0, <1>1 DEF CheckinTypes
<1>3. CheckinTypes'
  BY <1>0, <1>1, <1>2 DEF CheckinTypes
<1>4. RowsInOrder'
  <2>1. new.op \in {"edit", "delete"} => checkin[new.id].status # "none"
    BY DEF Current, Rows
  <2>2. \A v \in Submitters : form'[v].op \in {"edit", "delete"} =>
          form'[v].id \in CheckinIds /\ checkin[form'[v].id].status # "none"
    BY <1>0, <1>2, <2>1 DEF RowsInOrder
  <2> QED
    BY <1>0, <1>1, <2>2 DEF RowsInOrder
<1>5. AloneForm'
  <2>1. SUFFICES ASSUME checkinRoom.submitters = 1
                 PROVE  /\ \A v, u \in OpenForms' : v = u
                        /\ \A v \in Submitters : form'[v].op # "idle" => Current(form[v])'
    BY <1>1 DEF AloneForm
  <2>2. OpenForms = {}
    BY <1>0, <1>1, <2>1, NoOtherForm
  <2>3. OpenForms' \subseteq {w}
    BY <1>2, <2>2 DEF OpenForms
  <2>4. ASSUME NEW v \in Submitters, form'[v].op # "idle" PROVE Current(form[v])'
    <3>1. v = w /\ form'[v] = new
      BY <1>2, <2>3, <2>4 DEF OpenForms
    <3>2. NewestCash(Rows)' = NewestCash(Rows) /\ Rows' = Rows
      BY <1>1 DEF NewestCash, Rows
    <3> QED
      BY <1>1, <3>1, <3>2 DEF Current
  <2> QED
    BY <2>3, <2>4
<1>6. ProgramBalances' /\ OneDirectionEach' /\ OneCheckinPerKey'
  <2>1. ProgramBalances'
    BY <1>1 DEF CheckinInv, ProgramBalances
  <2>2. Rows' = Rows
    BY <1>1 DEF Rows
  <2> QED
    BY <1>1, <2>1, <2>2 DEF CheckinInv, OneDirectionEach, OneCheckinPerKey
<1> QED
  BY <1>3, <1>4, <1>5, <1>6 DEF CheckinInv

-----------------------------------------------------------------------------
(* The check-ins: the writes.                                              *)

CheckinsStay == \A c \in CheckinIds : checkin[c].status # "none" => checkin'[c].status # "none"

InOrder(table) ==
  \A c, d \in CheckinIds : table[c].status # "none" /\ d < c => table[d].status # "none"

\* A form ends: what it wrote decides the rest.
LEMMA EndFormKeeps ==
  ASSUME CheckinInv, UNCHANGED checkinRoom, NEW w \in Submitters, form[w].op # "idle",
         form' = [form EXCEPT ![w] = NoForm], CheckinsStay,
         checkin' \in CheckinTables, direction' \in [CheckinIds -> {0, 1}],
         balanceSet' \in BOOLEAN, edits' \in Nat, edits' <= checkinRoom.edits,
         InOrder(checkin'), ProgramBalances', OneDirectionEach', OneCheckinPerKey'
  PROVE  CheckinInv'
<1>0. CheckinTypes /\ RowsInOrder /\ AloneForm
  BY DEF CheckinInv
<1>1. NoForm \in FormRows /\ NoForm.op = "idle"
  BY DEF NoForm, FormRows, CheckinMoves
<1>2. /\ form' \in [Submitters -> FormRows] /\ form'[w].op = "idle"
      /\ \A v \in Submitters : v # w => form'[v] = form[v]
  BY <1>0, <1>1 DEF CheckinTypes
<1>3. CheckinTypes'
  BY <1>0, <1>2 DEF CheckinTypes
<1>4. RowsInOrder'
  <2>1. \A v \in Submitters : form'[v].op \in {"edit", "delete"} =>
          form'[v].id \in CheckinIds /\ checkin'[form'[v].id].status # "none"
    BY <1>0, <1>2 DEF RowsInOrder, CheckinsStay
  <2> QED
    BY <2>1 DEF RowsInOrder, InOrder
<1>5. AloneForm'
  <2>1. SUFFICES ASSUME checkinRoom.submitters = 1 PROVE OpenForms' = {}
    BY DEF AloneForm, OpenForms
  <2>2. OpenForms = {w}
    BY <1>0, <2>1 DEF AloneForm, OpenForms
  <2> QED
    BY <1>2, <2>2 DEF OpenForms
<1> QED
  BY <1>3, <1>4, <1>5 DEF CheckinInv

LEMMA GiveUpFormKeeps ==
  ASSUME CheckinInv, UNCHANGED checkinRoom, NEW w \in Submitters, GiveUpForm(w)
  PROVE  CheckinInv'
<1>1. /\ form[w].op # "idle" /\ form' = [form EXCEPT ![w] = NoForm]
      /\ checkin' = checkin /\ direction' = direction /\ balanceSet' = balanceSet
      /\ edits' = edits
  BY DEF GiveUpForm
<1>2. CheckinTypes /\ InOrder(checkin)
  BY DEF CheckinInv, RowsInOrder, InOrder
<1>3. /\ checkin' \in CheckinTables /\ direction' \in [CheckinIds -> {0, 1}]
      /\ balanceSet' \in BOOLEAN /\ edits' \in Nat /\ edits' <= checkinRoom.edits
      /\ InOrder(checkin') /\ CheckinsStay
  BY <1>1, <1>2 DEF CheckinTypes, CheckinsStay
<1>4. ProgramBalances'
  BY <1>1 DEF CheckinInv, ProgramBalances
<1>5. OneDirectionEach' /\ OneCheckinPerKey'
  BY <1>1 DEF CheckinInv, OneDirectionEach, OneCheckinPerKey, Rows
<1> QED
  BY <1>1, <1>3, <1>4, <1>5, EndFormKeeps

LEMMA CreateCheckinKeeps ==
  ASSUME CheckinInv, UNCHANGED checkinRoom, NEW w \in Submitters, NEW c \in CheckinIds,
         CreateCheckin(w, c)
  PROVE  CheckinInv'
<1>0. CheckinTypes /\ RowsInOrder /\ AloneForm /\ ProgramBalances /\ OneDirectionEach
      /\ OneCheckinPerKey
  BY DEF CheckinInv
<1>1. /\ form[w].op = "create" /\ form' = [form EXCEPT ![w] = NoForm]
      /\ checkin[c].status = "none" /\ \A d \in CheckinIds : d < c => checkin[d].status # "none"
      /\ direction' = [direction EXCEPT ![c] = 1] /\ balanceSet' = balanceSet /\ edits' = edits
  BY DEF CreateCheckin, EndForm
<1>2. PICK m \in Movements, key \in CheckinKeys :
        /\ KeyUsedBy(key) = {}
        /\ checkin' = [checkin EXCEPT ![c] =
             [status |-> "kept", cash |-> form[w].cash + m, movement |-> m, key |-> key]]
  BY DEF CreateCheckin
<1> DEFINE row == [status |-> "kept", cash |-> form[w].cash + m, movement |-> m, key |-> key]
<1>3. m \in Int /\ form[w].cash \in Int
  BY <1>0, CheckinsAssumption DEF CheckinTypes, FormRows
<1>4. /\ row \in CheckinRows /\ row.status = "kept" /\ row.cash = form[w].cash + m
      /\ row.movement = m /\ row.key = key
  BY <1>3 DEF CheckinRows, CheckinMoves
<1>5. /\ checkin' \in CheckinTables /\ checkin'[c] = row
      /\ \A d \in CheckinIds : d # c => checkin'[d] = checkin[d]
  BY <1>0, <1>2, <1>4 DEF CheckinTypes, CheckinTables
<1> HIDE DEF row
<1>6. /\ direction' \in [CheckinIds -> {0, 1}] /\ direction'[c] = 1
      /\ \A d \in CheckinIds : d # c => direction'[d] = direction[d]
      /\ balanceSet' \in BOOLEAN /\ edits' \in Nat /\ edits' <= checkinRoom.edits
  BY <1>0, <1>1 DEF CheckinTypes
<1>7. CheckinsStay
  BY <1>4, <1>5 DEF CheckinsStay
<1>8. c \notin Rows /\ Rows' = Rows \cup {c}
  BY <1>1, <1>4, <1>5 DEF Rows
<1>9. InOrder(checkin')
  <2>1. ASSUME NEW a \in CheckinIds, NEW d \in CheckinIds, checkin'[a].status # "none", d < a
        PROVE  checkin'[d].status # "none"
    <3>1. CASE a = c
      BY <1>1, <1>7, <2>1, <3>1 DEF CheckinsStay
    <3>2. CASE a # c
      <4>1. checkin[a].status # "none"
        BY <1>5, <2>1, <3>2
      <4> QED
        BY <1>0, <1>7, <2>1, <4>1 DEF RowsInOrder, CheckinsStay
    <3> QED
      BY <3>1, <3>2
  <2> QED
    BY <2>1 DEF InOrder
<1>10. OneDirectionEach'
  BY <1>0, <1>6, <1>8 DEF OneDirectionEach
<1>11. OneCheckinPerKey'
  <2>1. ASSUME NEW d \in Rows, key # NoCheckinKey PROVE checkin[d].key # key
    BY <1>2, <2>1 DEF KeyUsedBy
  <2>2. \A d \in Rows : checkin'[d] = checkin[d]
    BY <1>5, <1>8 DEF Rows
  <2>3. checkin'[c].key = key
    BY <1>4, <1>5
  <2> QED
    BY <1>0, <1>8, <2>1, <2>2, <2>3 DEF OneCheckinPerKey
<1>12. ProgramBalances'
  <2>1. SUFFICES ASSUME ~balanceSet
                 PROVE  /\ AllMoved(checkin')
                        /\ checkinRoom.submitters = 1 => AddsUp(checkin')
    BY <1>1 DEF ProgramBalances
  <2>2. AllMoved(checkin) /\ AllMoved(checkin')
    BY <1>0, <1>3, <1>4, <1>5, <2>1 DEF ProgramBalances, AllMoved
  <2>3. SUFFICES ASSUME checkinRoom.submitters = 1 PROVE AddsUp(checkin')
    BY <2>2
  <2>4. AddsUp(checkin) /\ form[w].cash = NewestCash(Rows)
    BY <1>0, <1>1, <2>1, <2>3 DEF ProgramBalances, AloneForm, Current
  <2>5. NewestCash(Rows) = SumOf(MovesOf(checkin), KeptIn(checkin))
    <3>1. (IF Rows = {} THEN 0 ELSE checkin[Max(Rows)].cash) = SumOf(MovesOf(checkin), Rows)
      BY <2>2, <2>4, RowsAreKept, NewestAddsUp
    <3> QED
      BY <3>1, RowsAreKept DEF NewestCash
  <2>6. \A d \in KeptIn(checkin) : d < c
    <3>1. ASSUME NEW d \in KeptIn(checkin) PROVE d < c
      <4>1. d \in CheckinIds /\ checkin[d].status = "kept"
        BY DEF KeptIn
      <4>2. ~(c < d) /\ d # c
        BY <1>0, <1>1, <4>1 DEF RowsInOrder
      <4> QED
        BY <4>1, <4>2, CheckinsAssumption
    <3> QED
      BY <3>1
  <2>7. c \notin KeptIn(checkin)
    BY <1>8, RowsAreKept
  <2>8. checkin \in CheckinTables
    BY <1>0 DEF CheckinTypes
  <2>9. /\ checkin'[c].status = "kept" /\ checkin'[c].movement = m
        /\ checkin'[c].cash = SumOf(MovesOf(checkin), KeptIn(checkin)) + checkin'[c].movement
    BY <1>4, <1>5, <2>4, <2>5
  <2> QED
    BY <1>5, <2>2, <2>4, <2>6, <2>7, <2>8, <2>9, NewestRowAdds
<1> QED
  BY <1>1, <1>5, <1>6, <1>7, <1>9, <1>10, <1>11, <1>12, EndFormKeeps

\* The later balances are shifted, and nothing else.
LEMMA ShiftedRows ==
  ASSUME NEW rows \in CheckinTables, NEW after, NEW delta \in Int
  PROVE  /\ Shifted(rows, after, delta) \in CheckinTables
         /\ \A d \in CheckinIds :
              LET row == Shifted(rows, after, delta)[d]
              IN  /\ row.status = rows[d].status /\ row.movement = rows[d].movement
                  /\ row.key = rows[d].key
                  /\ row.cash = IF rows[d].status = "kept" /\ d > after
                                   /\ rows[d].movement # NoCash
                                THEN rows[d].cash + delta ELSE rows[d].cash
<1> DEFINE later(d) == rows[d].status = "kept" /\ d > after /\ rows[d].movement # NoCash
           moved(d) == [rows[d] EXCEPT !.cash = @ + delta]
<1>1. Shifted(rows, after, delta) = [d \in CheckinIds |-> IF later(d) THEN moved(d) ELSE rows[d]]
  BY DEF Shifted
<1> HIDE DEF later
<1>2. ASSUME NEW d \in CheckinIds
      PROVE  /\ moved(d) \in CheckinRows /\ rows[d] \in CheckinRows
             /\ moved(d).status = rows[d].status /\ moved(d).movement = rows[d].movement
             /\ moved(d).key = rows[d].key /\ moved(d).cash = rows[d].cash + delta
  <2>1. rows[d] \in CheckinRows
    BY DEF CheckinTables
  <2> QED
    BY <2>1 DEF CheckinRows
<1> HIDE DEF moved
<1>3. Shifted(rows, after, delta) \in CheckinTables
  BY <1>1, <1>2 DEF CheckinTables
<1>4. \A d \in CheckinIds :
        Shifted(rows, after, delta)[d] = IF later(d) THEN moved(d) ELSE rows[d]
  BY <1>1
<1>5. ASSUME NEW d \in CheckinIds
      PROVE  LET row == Shifted(rows, after, delta)[d]
             IN  /\ row.status = rows[d].status /\ row.movement = rows[d].movement
                 /\ row.key = rows[d].key
                 /\ row.cash = IF later(d) THEN rows[d].cash + delta ELSE rows[d].cash
  BY <1>2, <1>4
<1> QED
  BY <1>3, <1>5 DEF later

LEMMA MovesAreNumbers == CheckinMoves \subseteq Int \cup {NoCash}
<1>1. Movements \subseteq Int /\ 0 \in Int
  BY CheckinsAssumption
<1> QED
  BY <1>1, Zenon DEF CheckinMoves

\* Rows of which one is the same but for its balance and movement, and others but for
\* their balance.
LEMMA SameRowsKeep ==
  ASSUME CheckinInv, checkin' \in CheckinTables,
         \A d \in CheckinIds :
           checkin'[d].status = checkin[d].status /\ checkin'[d].key = checkin[d].key
  PROVE  Rows' = Rows /\ CheckinsStay /\ InOrder(checkin') /\ OneCheckinPerKey'
<1>1. RowsInOrder /\ OneCheckinPerKey
  BY DEF CheckinInv
<1>2. Rows' = Rows
  BY DEF Rows
<1>3. CheckinsStay /\ InOrder(checkin')
  BY <1>1 DEF CheckinsStay, InOrder, RowsInOrder
<1>4. \A d \in Rows : d \in CheckinIds
  BY DEF Rows
<1>5. OneCheckinPerKey'
  BY <1>1, <1>2, <1>4 DEF OneCheckinPerKey
<1> QED
  BY <1>2, <1>3, <1>5

LEMMA EditCheckinKeeps ==
  ASSUME CheckinInv, UNCHANGED checkinRoom, NEW w \in Submitters, EditCheckin(w)
  PROVE  CheckinInv'
<1> DEFINE c == form[w].id
           old == form[w].old
           new == form[w].new
           cash == form[w].cash
           edited == [checkin EXCEPT ![c].cash = cash, ![c].movement = new]
<1>0. CheckinTypes /\ AloneForm /\ ProgramBalances /\ OneDirectionEach
  BY DEF CheckinInv
<1>1. /\ form[w].op = "edit" /\ form' = [form EXCEPT ![w] = NoForm]
      /\ edits < checkinRoom.edits /\ edits' = edits + 1 /\ c \in Rows
      /\ checkin' = IF old # NoCash /\ new # NoCash THEN Shifted(edited, c, new - old) ELSE edited
      /\ direction' = [direction EXCEPT ![c] = 1]
      /\ balanceSet' = (balanceSet \/ old = NoCash \/ new = NoCash
                                   \/ form[w].cash # PreviousCash(c) + new)
  BY DEF EditCheckin, EndForm
<1>2. c \in CheckinIds /\ old \in CheckinMoves /\ new \in CheckinMoves /\ cash \in Int
  BY <1>0, <1>1 DEF CheckinTypes, FormRows, Rows
<1> HIDE DEF c, old, new, cash
<1>3. old \in Int \cup {NoCash} /\ new \in Int \cup {NoCash}
  BY <1>2, MovesAreNumbers
<1>4. checkin \in CheckinTables /\ checkin[c] \in CheckinRows
  BY <1>0, <1>2 DEF CheckinTypes, CheckinTables
<1>5. /\ edited \in CheckinTables
      /\ edited[c].status = checkin[c].status /\ edited[c].key = checkin[c].key
      /\ edited[c].cash = cash /\ edited[c].movement = new
      /\ \A d \in CheckinIds : d # c => edited[d] = checkin[d]
  <2> DEFINE row == [checkin[c] EXCEPT !.cash = cash, !.movement = new]
  <2>1. edited = [checkin EXCEPT ![c] = row]
    BY <1>2, <1>4 DEF CheckinTables
  <2>2. /\ row \in CheckinRows /\ row.status = checkin[c].status /\ row.key = checkin[c].key
        /\ row.cash = cash /\ row.movement = new
    BY <1>2, <1>4 DEF CheckinRows
  <2> HIDE DEF row, edited
  <2> QED
    BY <1>2, <1>4, <2>1, <2>2 DEF CheckinTables
<1> HIDE DEF edited
<1>6. /\ checkin' \in CheckinTables
      /\ \A d \in CheckinIds :
           checkin'[d].status = checkin[d].status /\ checkin'[d].key = checkin[d].key
      /\ \A d \in CheckinIds : checkin'[d].movement = edited[d].movement
  <2>1. CASE old # NoCash /\ new # NoCash
    <3>1. new - old \in Int /\ checkin' = Shifted(edited, c, new - old)
      BY <1>1, <1>3, <2>1
    <3>2. /\ checkin' \in CheckinTables
          /\ \A d \in CheckinIds : /\ checkin'[d].status = edited[d].status
                                   /\ checkin'[d].key = edited[d].key
                                   /\ checkin'[d].movement = edited[d].movement
      BY <1>5, <3>1, ShiftedRows
    <3> QED
      BY <1>5, <3>2
  <2>2. CASE ~(old # NoCash /\ new # NoCash)
    BY <1>1, <1>5, <2>2
  <2> QED
    BY <2>1, <2>2
<1>7. Rows' = Rows /\ CheckinsStay /\ InOrder(checkin') /\ OneCheckinPerKey'
  BY <1>6, SameRowsKeep
<1>8. /\ direction' \in [CheckinIds -> {0, 1}] /\ direction'[c] = 1
      /\ \A d \in CheckinIds : d # c => direction'[d] = direction[d]
  BY <1>0, <1>1, <1>2 DEF CheckinTypes
<1>9. OneDirectionEach'
  BY <1>0, <1>1, <1>7, <1>8 DEF OneDirectionEach
<1>10. balanceSet' \in BOOLEAN /\ edits' \in Nat /\ edits' <= checkinRoom.edits
  <2>1. balanceSet' \in BOOLEAN
    BY <1>0, <1>1 DEF CheckinTypes
  <2>2. edits \in Nat /\ checkinRoom.edits \in Nat
    BY <1>0, CheckinsAssumption DEF CheckinTypes
  <2> QED
    BY <1>1, <2>1, <2>2
<1>11. ProgramBalances'
  <2>1. SUFFICES ASSUME ~balanceSet'
                 PROVE  /\ AllMoved(checkin')
                        /\ checkinRoom.submitters = 1 => AddsUp(checkin')
    BY DEF ProgramBalances
  <2>2. /\ ~balanceSet /\ old \in Int /\ new \in Int /\ cash = PreviousCash(c) + new
        /\ old # NoCash /\ new # NoCash
    BY <1>0, <1>1, <1>3, <2>1 DEF cash, CheckinTypes
  <2>3. AllMoved(checkin)
    BY <1>0, <2>2 DEF ProgramBalances
  <2>4. checkin'[c].movement = new
        /\ \A d \in CheckinIds : d # c => checkin'[d].movement = checkin[d].movement
    BY <1>2, <1>5, <1>6
  <2>5. AllMoved(checkin')
    BY <2>2, <2>3, <2>4 DEF AllMoved
  <2>6. SUFFICES ASSUME checkinRoom.submitters = 1 PROVE AddsUp(checkin')
    BY <2>5
  <2>7. AddsUp(checkin) /\ old = checkin[c].movement
    BY <1>0, <1>1, <2>2, <2>6 DEF ProgramBalances, AloneForm, Current, old, c
  <2>8. new - old \in Int /\ checkin' = Shifted(edited, c, new - old)
    BY <1>1, <2>2
  <2>9. \A d \in CheckinIds :
          checkin'[d].cash = IF edited[d].status = "kept" /\ d > c /\ edited[d].movement # NoCash
                             THEN edited[d].cash + (new - old) ELSE edited[d].cash
    BY <1>5, <2>8, ShiftedRows
  <2>10. c \in Nat /\ \A d \in KeptIn(checkin) : d \in CheckinIds /\ d \in Nat
    BY <1>2, KeptIsFinite, CheckinsAssumption
  <2>11. PreviousCash(c) = SumOf(MovesOf(checkin), {d \in KeptIn(checkin) : d < c})
    <3> DEFINE before == {d \in KeptIn(checkin) : d < c}
    <3>1. PreviousCash(c) = IF before = {} THEN 0 ELSE checkin[Max(before)].cash
      BY RowsAreKept DEF PreviousCash, NewestCash
    <3>2. before \subseteq KeptIn(checkin)
          /\ \A d \in before, e \in KeptIn(checkin) : e <= d => e \in before
      BY <2>10
    <3> HIDE DEF before
    <3>3. (IF before = {} THEN 0 ELSE checkin[Max(before)].cash) = SumOf(MovesOf(checkin), before)
      BY <2>3, <2>7, <3>2, NewestAddsUp
    <3> QED
      BY <3>1, <3>3 DEF before
  <2>12. checkin'[c].cash = SumOf(MovesOf(checkin), {d \in KeptIn(checkin) : d < c})
                            + checkin'[c].movement
    <3>1. checkin'[c].cash = cash
      BY <1>2, <1>5, <2>9, <2>10
    <3> QED
      BY <2>2, <2>4, <2>11, <3>1
  <2>13. \A d \in KeptIn(checkin) : d < c => checkin'[d].cash = checkin[d].cash
    BY <1>5, <2>9, <2>10
  <2>14. \A d \in KeptIn(checkin) : d > c =>
           checkin'[d].cash = checkin[d].cash + (checkin'[c].movement - checkin[c].movement)
    <3>1. ASSUME NEW d \in KeptIn(checkin), d > c
          PROVE  checkin'[d].cash = checkin[d].cash + (new - old)
      <4>1. d # c /\ edited[d] = checkin[d] /\ d \in CheckinIds
        BY <1>5, <2>10, <3>1
      <4>2. checkin[d].status = "kept" /\ checkin[d].movement # NoCash
        BY <2>3, <4>1, CheckinsAssumption DEF KeptIn, AllMoved
      <4> QED
        BY <2>9, <3>1, <4>1, <4>2
    <3> QED
      BY <2>4, <2>7, <3>1
  <2>15. KeptIn(checkin') = KeptIn(checkin) /\ c \in KeptIn(checkin)
    BY <1>1, <1>7, RowsAreKept
  <2> QED
    BY <1>4, <1>6, <2>3, <2>4, <2>5, <2>7, <2>12, <2>13, <2>14, <2>15, ChangedRowAdds
<1> QED
  BY <1>1, <1>6, <1>7, <1>8, <1>9, <1>10, <1>11, EndFormKeeps

LEMMA DeleteCheckinKeeps ==
  ASSUME CheckinInv, UNCHANGED checkinRoom, NEW w \in Submitters, DeleteCheckin(w)
  PROVE  CheckinInv'
<1> DEFINE c == form[w].id
           old == form[w].old
           kept == [checkin EXCEPT ![c].status = "gone"]
<1>0. /\ CheckinTypes /\ RowsInOrder /\ AloneForm /\ ProgramBalances /\ OneDirectionEach
      /\ OneCheckinPerKey
  BY DEF CheckinInv
<1>1. /\ form[w].op = "delete" /\ form' = [form EXCEPT ![w] = NoForm]
      /\ checkin' = IF old = NoCash THEN kept ELSE Shifted(kept, c, -old)
      /\ direction' = [direction EXCEPT ![c] = 0]
      /\ balanceSet' = balanceSet /\ edits' = edits
  BY DEF DeleteCheckin, EndForm
<1>2. c \in CheckinIds /\ old \in CheckinMoves
  BY <1>0, <1>1 DEF CheckinTypes, FormRows, RowsInOrder
<1>12. checkin[c].status # "none"
  BY <1>0, <1>1 DEF RowsInOrder
<1> HIDE DEF c, old
<1>3. old \in Int \cup {NoCash}
  BY <1>2, MovesAreNumbers
<1>4. checkin \in CheckinTables /\ checkin[c] \in CheckinRows
  BY <1>0, <1>2 DEF CheckinTypes, CheckinTables
<1>5. /\ kept \in CheckinTables
      /\ kept[c].status = "gone" /\ kept[c].key = checkin[c].key
      /\ kept[c].movement = checkin[c].movement
      /\ \A d \in CheckinIds : d # c => kept[d] = checkin[d]
  <2> DEFINE row == [checkin[c] EXCEPT !.status = "gone"]
  <2>1. kept = [checkin EXCEPT ![c] = row]
    BY <1>2, <1>4 DEF CheckinTables
  <2>2. /\ row \in CheckinRows /\ row.status = "gone" /\ row.key = checkin[c].key
        /\ row.movement = checkin[c].movement
    BY <1>2, <1>4 DEF CheckinRows
  <2> HIDE DEF row, kept
  <2> QED
    BY <1>2, <1>4, <2>1, <2>2 DEF CheckinTables
<1> HIDE DEF kept
<1>6. /\ checkin' \in CheckinTables
      /\ \A d \in CheckinIds : /\ checkin'[d].status = kept[d].status
                               /\ checkin'[d].key = checkin[d].key
                               /\ checkin'[d].movement = checkin[d].movement
  <2>1. CASE old # NoCash
    <3>1. -old \in Int /\ checkin' = Shifted(kept, c, -old)
      BY <1>1, <1>3, <2>1
    <3>2. /\ checkin' \in CheckinTables
          /\ \A d \in CheckinIds : /\ checkin'[d].status = kept[d].status
                                   /\ checkin'[d].key = kept[d].key
                                   /\ checkin'[d].movement = kept[d].movement
      BY <1>5, <3>1, ShiftedRows
    <3> QED
      BY <1>5, <3>2
  <2>2. CASE old = NoCash
    BY <1>1, <1>5, <2>2
  <2> QED
    BY <2>1, <2>2
<1>7. /\ checkin'[c].status = "gone"
      /\ \A d \in CheckinIds : d # c => checkin'[d].status = checkin[d].status
  BY <1>2, <1>5, <1>6
<1>8. Rows' = Rows \ {c}
  BY <1>7 DEF Rows
<1>9. CheckinsStay /\ InOrder(checkin')
  <2>1. \A d \in CheckinIds : checkin'[d].status = "none" <=> checkin[d].status = "none"
    BY <1>7, <1>12
  <2> QED
    BY <1>0, <2>1 DEF CheckinsStay, InOrder, RowsInOrder
<1>10. OneCheckinPerKey'
  <2>1. \A d \in Rows : d \in CheckinIds /\ checkin'[d].key = checkin[d].key
    BY <1>6 DEF Rows
  <2> QED
    BY <1>0, <1>8, <2>1 DEF OneCheckinPerKey
<1>11. /\ direction' \in [CheckinIds -> {0, 1}] /\ direction'[c] = 0
       /\ \A d \in CheckinIds : d # c => direction'[d] = direction[d]
  BY <1>0, <1>1, <1>2 DEF CheckinTypes
<1>13. OneDirectionEach'
  BY <1>0, <1>8, <1>11 DEF OneDirectionEach
<1>14. balanceSet' \in BOOLEAN /\ edits' \in Nat /\ edits' <= checkinRoom.edits
  BY <1>0, <1>1 DEF CheckinTypes
<1>15. ProgramBalances'
  <2>1. SUFFICES ASSUME ~balanceSet
                 PROVE  /\ AllMoved(checkin')
                        /\ checkinRoom.submitters = 1 => AddsUp(checkin')
    BY <1>1 DEF ProgramBalances
  <2>2. AllMoved(checkin)
    BY <1>0, <2>1 DEF ProgramBalances
  <2>3. AllMoved(checkin')
    BY <1>6, <2>2 DEF AllMoved
  <2>4. SUFFICES ASSUME checkinRoom.submitters = 1 PROVE AddsUp(checkin')
    BY <2>3
  <2>5. AddsUp(checkin) /\ c \in Rows /\ old = checkin[c].movement
    BY <1>0, <1>1, <2>1, <2>4 DEF ProgramBalances, AloneForm, Current, old, c
  <2>6. old \in Int /\ old # NoCash
    BY <1>2, <2>2, <2>5, CheckinsAssumption DEF AllMoved
  <2>7. -old \in Int /\ checkin' = Shifted(kept, c, -old)
    BY <1>1, <2>6
  <2>8. \A d \in CheckinIds :
          checkin'[d].cash = IF kept[d].status = "kept" /\ d > c /\ kept[d].movement # NoCash
                             THEN kept[d].cash + (-old) ELSE kept[d].cash
    BY <1>5, <2>7, ShiftedRows
  <2>9. c \in Nat /\ \A d \in KeptIn(checkin) : d \in CheckinIds /\ d \in Nat
    BY <1>2, KeptIsFinite, CheckinsAssumption
  <2>10. KeptIn(checkin') = KeptIn(checkin) \ {c} /\ c \in KeptIn(checkin)
    BY <1>8, <2>5, RowsAreKept
  <2>11. ASSUME NEW d \in KeptIn(checkin')
         PROVE  /\ d \in CheckinIds /\ d \in Nat /\ kept[d] = checkin[d]
                /\ checkin[d].status = "kept" /\ checkin[d].movement # NoCash
                /\ checkin[d].cash \in Int
    <3>1. d \in CheckinIds /\ d \in Nat /\ d # c /\ checkin[d].status = "kept"
      BY <2>9, <2>10 DEF KeptIn
    <3>2. checkin[d] \in CheckinRows
      BY <1>4, <3>1 DEF CheckinTables
    <3> QED
      BY <1>5, <2>2, <3>1, <3>2, CheckinsAssumption DEF AllMoved, CheckinRows
  <2>12. \A d \in KeptIn(checkin') : d < c => checkin'[d].cash = checkin[d].cash
    BY <2>8, <2>9, <2>11
  <2>13. \A d \in KeptIn(checkin') :
           d > c => checkin'[d].cash = checkin[d].cash - checkin[c].movement
    <3>1. ASSUME NEW d \in KeptIn(checkin'), d > c
          PROVE  checkin'[d].cash = checkin[d].cash + (-old)
      BY <2>8, <2>11, <3>1
    <3> QED
      BY <2>5, <2>6, <2>11, <3>1
  <2> QED
    BY <1>4, <1>6, <2>2, <2>3, <2>5, <2>10, <2>12, <2>13, GoneRowAdds
<1> QED
  BY <1>1, <1>6, <1>9, <1>10, <1>11, <1>13, <1>14, <1>15, EndFormKeeps

-----------------------------------------------------------------------------
(* The check-ins: every step.                                              *)

LEMMA ReadingKeeps ==
  ASSUME CheckinInv, UNCHANGED checkinRoom, NEW w \in Submitters,
         ReadNewest(w) \/ ReadForEdit(w) \/ ReadForDelete(w)
  PROVE  CheckinInv'
<1>0. CheckinTypes
  BY DEF CheckinInv
<1>1. ASSUME NEW c \in Rows
      PROVE  /\ c \in CheckinIds /\ checkin[c].movement \in CheckinMoves
             /\ checkin[c].cash \in Int
  <2>1. c \in CheckinIds /\ checkin[c] \in CheckinRows
    BY <1>0 DEF CheckinTypes, CheckinTables, Rows
  <2> QED
    BY <2>1 DEF CheckinRows
<1>2. ASSUME NEW S, S \subseteq Rows PROVE NewestCash(S) \in Int
  <2>1. CASE S = {}
    BY <2>1 DEF NewestCash
  <2>2. CASE S # {}
    <3>1. \E x \in S : \A y \in S : x >= y
      BY <1>2, <2>2, RowsAreKept, KeptIsFinite, GreatestExists
    <3>2. Max(S) \in S
      BY <3>1 DEF Max
    <3> QED
      BY <1>1, <1>2, <2>2, <3>2 DEF NewestCash
  <2> QED
    BY <2>1, <2>2
<1>3. CASE ReadNewest(w)
  <2> DEFINE new == [op |-> "create", id |-> 0, cash |-> NewestCash(Rows), old |-> 0, new |-> 0]
  <2>1. new \in FormRows /\ new.op = "create" /\ new.cash = NewestCash(Rows)
    BY <1>2 DEF FormRows, CheckinMoves
  <2>2. BeginForm(w, new)
    BY <1>3 DEF ReadNewest
  <2> HIDE DEF new
  <2>3. Current(new)
    BY <2>1 DEF Current
  <2> QED
    BY <2>1, <2>2, <2>3, BeginFormKeeps
<1>4. CASE ReadForEdit(w)
  <2>1. PICK c \in Rows, balance \in Balances, m \in Movements \cup {NoCash} :
          BeginForm(w, [op |-> "edit", id |-> c, old |-> checkin[c].movement, new |-> m,
                        cash |-> CASE balance # NoCash -> balance
                                   [] balance = NoCash /\ m # NoCash -> PreviousCash(c) + m
                                   [] OTHER -> checkin[c].cash])
    BY <1>4 DEF ReadForEdit
  <2> DEFINE cash == CASE balance # NoCash -> balance
                       [] balance = NoCash /\ m # NoCash -> PreviousCash(c) + m
                       [] OTHER -> checkin[c].cash
             new == [op |-> "edit", id |-> c, old |-> checkin[c].movement, new |-> m,
                     cash |-> cash]
  <2>2. cash \in Int
    <3>1. PreviousCash(c) \in Int
      BY <1>2 DEF PreviousCash
    <3>2. balance # NoCash => balance \in Int
      BY CheckinsAssumption
    <3>3. m # NoCash => m \in Int
      BY CheckinsAssumption
    <3>4. checkin[c].cash \in Int
      BY <1>1
    <3>5. cash = IF balance # NoCash THEN balance
                 ELSE IF m # NoCash THEN PreviousCash(c) + m ELSE checkin[c].cash
      OBVIOUS
    <3> HIDE DEF cash
    <3> QED
      BY <3>1, <3>2, <3>3, <3>4, <3>5
  <2>3. m \in CheckinMoves
    BY DEF CheckinMoves
  <2>4. BeginForm(w, new)
    BY <2>1
  <2> HIDE DEF cash
  <2>5. /\ new \in FormRows /\ new.op = "edit" /\ new.id = c /\ c \in CheckinIds
        /\ new.old = checkin[c].movement
    BY <1>1, <2>2, <2>3 DEF FormRows
  <2> HIDE DEF new
  <2>6. Current(new)
    BY <2>5 DEF Current
  <2> QED
    BY <2>4, <2>5, <2>6, BeginFormKeeps
<1>5. CASE ReadForDelete(w)
  <2>1. PICK c \in Rows :
          BeginForm(w, [op |-> "delete", id |-> c, cash |-> 0, old |-> checkin[c].movement,
                        new |-> 0])
    BY <1>5 DEF ReadForDelete
  <2> DEFINE new == [op |-> "delete", id |-> c, cash |-> 0, old |-> checkin[c].movement,
                     new |-> 0]
  <2>2. BeginForm(w, new)
    BY <2>1
  <2>3. /\ new \in FormRows /\ new.op = "delete" /\ new.id = c /\ c \in CheckinIds
        /\ new.old = checkin[c].movement
    BY <1>1 DEF FormRows, CheckinMoves
  <2> HIDE DEF new
  <2>4. Current(new)
    BY <2>3 DEF Current
  <2> QED
    BY <2>2, <2>3, <2>4, BeginFormKeeps
<1> QED
  BY <1>3, <1>4, <1>5

LEMMA CheckinsAdvance ==
  ASSUME CheckinInv, [CheckinNext]_checkinVars
  PROVE  CheckinInv'
<1>1. CASE UNCHANGED checkinVars
  <2>1. /\ checkin' = checkin /\ direction' = direction /\ form' = form
        /\ balanceSet' = balanceSet /\ edits' = edits /\ checkinRoom' = checkinRoom
    BY <1>1 DEF checkinVars
  <2>2. Rows' = Rows /\ NewestCash(Rows)' = NewestCash(Rows) /\ OpenForms' = OpenForms
    BY <2>1 DEF Rows, NewestCash, OpenForms
  <2>3. CheckinTypes' /\ RowsInOrder' /\ ProgramBalances'
    BY <2>1 DEF CheckinInv, CheckinTypes, RowsInOrder, ProgramBalances
  <2>4. OneDirectionEach' /\ OneCheckinPerKey'
    BY <2>1, <2>2 DEF CheckinInv, OneDirectionEach, OneCheckinPerKey
  <2>5. AloneForm'
    <3>1. ASSUME NEW w \in Submitters, Current(form[w]) PROVE Current(form[w])'
      BY <2>1, <2>2, <3>1 DEF Current
    <3> QED
      BY <2>1, <2>2, <3>1 DEF CheckinInv, AloneForm
  <2> QED
    BY <2>3, <2>4, <2>5 DEF CheckinInv
<1>2. CASE CheckinNext
  <2>1. ASSUME NEW w \in Submitters, UNCHANGED checkinRoom,
               \/ ReadNewest(w) \/ ReadForEdit(w) \/ ReadForDelete(w)
               \/ (\E c \in CheckinIds : CreateCheckin(w, c)) \/ EditCheckin(w)
               \/ DeleteCheckin(w) \/ GiveUpForm(w)
        PROVE  CheckinInv'
    BY <2>1, ReadingKeeps, CreateCheckinKeeps, EditCheckinKeeps, DeleteCheckinKeeps,
       GiveUpFormKeeps
  <2> QED
    BY <1>2, <2>1 DEF CheckinNext, CheckinStep
<1> QED
  BY <1>1, <1>2

LEMMA CheckinsStart == CheckinInit => CheckinInv
<1>1. SUFFICES ASSUME CheckinInit PROVE CheckinInv
  OBVIOUS
<1>2. /\ checkin = [c \in CheckinIds |-> NoCheckin] /\ direction = [c \in CheckinIds |-> 0]
      /\ form = [w \in Submitters |-> NoForm] /\ balanceSet = FALSE /\ edits = 0
      /\ checkinRoom \in CheckinRooms
  BY <1>1 DEF CheckinInit
<1>3. /\ NoCheckin \in CheckinRows /\ NoCheckin.status = "none" /\ NoCheckin.movement = 0
      /\ NoForm \in FormRows /\ NoForm.op = "idle"
  BY DEF NoCheckin, CheckinRows, NoForm, FormRows, CheckinMoves
<1>4. checkinRoom.edits \in Nat
  BY <1>2, CheckinsAssumption
<1>5. CheckinTypes
  <2>1. checkin \in CheckinTables /\ direction \in [CheckinIds -> {0, 1}]
    BY <1>2, <1>3 DEF CheckinTables
  <2>2. form \in [Submitters -> FormRows]
    BY <1>2, <1>3
  <2>3. edits \in Nat /\ edits <= checkinRoom.edits
    BY <1>2, <1>4
  <2> QED
    BY <1>2, <2>1, <2>2, <2>3 DEF CheckinTypes
<1>6. Rows = {} /\ OpenForms = {}
  BY <1>2, <1>3 DEF Rows, OpenForms
<1>7. RowsInOrder /\ AloneForm
  BY <1>2, <1>3, <1>6 DEF RowsInOrder, AloneForm, OpenForms
<1>8. ProgramBalances
  BY <1>2, <1>3, <1>6, RowsAreKept DEF ProgramBalances, AllMoved, AddsUp
<1>9. OneDirectionEach /\ OneCheckinPerKey
  BY <1>2, <1>6 DEF OneDirectionEach, OneCheckinPerKey
<1> QED
  BY <1>5, <1>7, <1>8, <1>9 DEF CheckinInv

LEMMA CheckinsHold == CheckinSpec => []CheckinInv
BY CheckinsStart, CheckinsAdvance, PTL DEF CheckinSpec

\* The tables of the check-ins keep their types, and edits their bound.
THEOREM CheckinsTyped == CheckinSpec => []CheckinTypeOK
<1>1. ASSUME CheckinInv PROVE CheckinTypeOK
  <2>1. CheckinTypes
    BY <1>1 DEF CheckinInv
  <2>2. ASSUME NEW c \in CheckinIds
        PROVE  /\ checkin[c].status \in {"none", "kept", "gone"} /\ checkin[c].cash \in Int
               /\ checkin[c].movement \in Movements \cup {0, NoCash}
               /\ checkin[c].key \in CheckinKeys \cup {NoCheckinKey}
    <3>1. checkin[c] \in CheckinRows
      BY <2>1 DEF CheckinTypes, CheckinTables
    <3> QED
      BY <3>1 DEF CheckinRows, CheckinMoves
  <2> QED
    BY <2>1, <2>2 DEF CheckinTypes, CheckinTypeOK
<1> QED
  BY <1>1, CheckinsHold, PTL

\* Every check-in has one direction, a request key makes one check-in, and, one request
\* at a time, the balances left to the program are the sums of the movements up to them
\* (create_checkin, edit_checkin_submit, delete_checkin, _adjust_later_cash_balances).
THEOREM CheckinsFollow == CheckinSpec => []CheckinsAgree
<1>1. ASSUME CheckinInv PROVE CheckinsAgree
  <2>1. /\ CheckinTypes /\ ProgramBalances /\ OneDirectionEach /\ OneCheckinPerKey
    BY <1>1 DEF CheckinInv
  <2>2. BalancesAddUp
    <3>1. SUFFICES ASSUME checkinRoom.submitters = 1, ~balanceSet, NEW c \in Rows
                   PROVE  checkin[c].cash = SumOf([d \in Moved |-> checkin[d].movement],
                                                  {d \in Moved : d <= c})
      BY DEF BalancesAddUp
    <3>2. AllMoved(checkin) /\ AddsUp(checkin)
      BY <2>1, <3>1 DEF ProgramBalances
    <3>3. Moved = KeptIn(checkin)
      <4>1. \A d \in Rows : checkin[d].movement # NoCash
        BY <3>2, CheckinsAssumption DEF AllMoved, Rows
      <4> QED
        BY <4>1, RowsAreKept DEF Moved
    <3> DEFINE moves == [d \in Moved |-> checkin[d].movement]
               upTo == {d \in Moved : d <= c}
    <3>4. upTo = UpTo(checkin, c) /\ UpTo(checkin, c) \subseteq KeptIn(checkin)
      BY <3>3 DEF UpTo
    <3>5. SameValues(MovesOf(checkin), moves, UpTo(checkin, c))
      BY <3>3, <3>4 DEF SameValues, MovesOf, KeptIn
    <3>6. checkin[c].cash = SumOf(MovesOf(checkin), UpTo(checkin, c))
      BY <3>2, RowsAreKept DEF AddsUp
    <3> HIDE DEF moves, upTo
    <3>7. SumOf(MovesOf(checkin), UpTo(checkin, c)) = SumOf(moves, UpTo(checkin, c))
      BY <3>2, <3>4, <3>5, KeptIsFinite, MovesAreIntegers, SumOfSame
    <3>8. checkin[c].cash = SumOf(moves, upTo)
      BY <3>4, <3>6, <3>7
    <3> QED
      BY <3>8 DEF moves, upTo
  <2> QED
    BY <2>1, <2>2 DEF CheckinsAgree
<1> QED
  BY <1>1, CheckinsHold, PTL

-----------------------------------------------------------------------------
(* The desk: the three together.                                           *)

LEMMA DeskKeepsSpecs == DeskSpec => ChatAuditSpec /\ CheckinSpec /\ Spec
<1>1. DeskInit => ChatAuditInit /\ CheckinInit /\ Init
  BY DEF DeskInit
<1>2. [DeskNext]_deskVars =>
        [ChatAuditNext]_chatAuditVars /\ [CheckinNext]_checkinVars /\ [Next]_vars
  BY DEF DeskNext, deskVars
<1> QED
  BY <1>1, <1>2, PTL DEF DeskSpec, ChatAuditSpec, CheckinSpec, Spec

\* The tables of the three modules keep their types and references.
THEOREM DeskTyped == DeskSpec => []DeskTypeOK
BY DeskKeepsSpecs, AuditTyped, CheckinsTyped, QuestsTyped, PTL DEF DeskTypeOK

\* What is finished stays, of chats and their audit and of quests.
THEOREM FinishedIsKept == DeskSpec => FinishedStays
BY DeskKeepsSpecs, AuditKeeps, CompletedQuestsStay, PTL DEF FinishedStays
================================================================================
