CONSTANTS
  k1 = k1
  k2 = k2
  c0 = c0
  None = None
  SingleChoice = {1}
  Essays = {2}
  TotalPoints = 7
  AnswerValues = {"right"}
  Grades = {2}
  Duration = 1
  Calls <- MCCalls
  Cron = c0
  MaxAttempts = 1
  MaxTime = 3
  MaxFaults = 2
SPECIFICATION FairSpec
PROPERTIES
  EveryAttemptCloses
CHECK_DEADLOCK FALSE
