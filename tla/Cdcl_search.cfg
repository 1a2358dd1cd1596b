SPECIFICATION Spec
CONSTANTS
  vc = 5
  Cnfs <- Problems
  Reported <- FirstThree
  ReportingTimes = {3, 4}
  MaxPauses = 1
INVARIANTS
  LongClausesFindModels
  AnswersAreDisjointCubes
  LearntFollows
  FinishedIsComplete
