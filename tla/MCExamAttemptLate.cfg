CONSTANTS
  k1 = k1
  k2 = k2
  c0 = c0
  None = None
  SingleChoice = {1}
  Essays = {2}
  TotalPoints = 7
  AnswerValues = {"right", "wrong"}
  Grades = {2}
  Duration = 1
  Calls <- MCCalls
  Cron = c0
  MaxAttempts = 1
  MaxTime = 2
  MaxFaults = 0
SYMMETRY Symmetry
SPECIFICATION Spec
INVARIANT StoredAnswersGraded
CHECK_DEADLOCK FALSE
