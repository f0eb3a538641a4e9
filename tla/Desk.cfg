SPECIFICATION DeskSpec
CONSTANTS
  SessionIds = {1}
  MessageIds = {1, 2}
  RunIds = {1}
  StepKeys = {k1, NoStepKey}
  NoStepKey = NoStepKey
  Costs = {0, 1}
  MaxInteger = 2
  Callers = {c1, c2}
  CallerCounts = {1, 2}
  ChatRooms <- MCChatRooms
  CheckinIds = {1, 2, 3}
  Movements <- MCMovements
  CheckinKeys = {k1, NoCheckinKey}
  NoCheckinKey = NoCheckinKey
  NoCash = NoCash
  Balances = {NoCash, 5}
  Submitters = {c1, c2}
  CheckinRooms <- MCCheckinRooms
  QuestIds = {q1, q2}
  Requests = {r1, r2, r3}
  NoQuest = noquest
  Difficulties = {"epic", "hard"}
  Minutes = {0, 7}
  Progresses <- MCProgresses
  StartLevel = 1
  WorkerCounts = {1, 3}
SYMMETRY DeskSymmetry
CHECK_DEADLOCK FALSE
INVARIANTS
  DeskTypeOK
  ChatRowsAgree
  CheckinsAgree
  AwardsStand
  ExperienceExplained
PROPERTIES
  FinishedStays
  LedgerImmutable
