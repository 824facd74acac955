CONSTANTS
  k1 = k1
  k2 = k2
  c0 = c0
  None = None
  SingleChoice = {1}
  Essays = {2, 3}
  TotalPoints = 7
  AnswerValues = {"right"}
  Grades = {2, 8}
  Duration = 1
  Calls <- MCCalls
  Cron = c0
  MaxAttempts = 2
  MaxTime = 2
  MaxFaults = 1
SYMMETRY Symmetry
SPECIFICATION Spec
INVARIANTS
  TypeOK
  OneInProgress
  ScoreMatchesPatches
  CountedIsGraded
  GradedIsCounted
PROPERTIES
  ClosedIsFinal
CHECK_DEADLOCK FALSE
