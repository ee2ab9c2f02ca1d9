CONSTANTS
  NumTasks = 2
  MaxPerLanguage = 2
  MaxWorkers = 3
  MaxCrashes = 1
SPECIFICATION Spec
INVARIANTS
  FailureIsSurvived
