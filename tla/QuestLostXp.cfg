SPECIFICATION Spec
CONSTANTS
  QuestIds = {q1, q2}
  Requests = {r1, r2}
  NoQuest = noquest
  Difficulties = {"epic", "hard"}
  Minutes = {0, 7}
  Progresses <- MCProgresses
  StartLevel = 3
  WorkerCounts = {2}
SYMMETRY QuestSymmetry
CHECK_DEADLOCK FALSE
INVARIANTS
  XpAwardedExactlyOnce
