CONSTANTS
  NumTasks = 3
  MaxPerLanguage = 2
  MaxWorkers = 4
  MaxCrashes = 1
SPECIFICATION Spec
INVARIANTS
  AllAnswered
