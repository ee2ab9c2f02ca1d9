CONSTANTS
  NumTasks = 4
  MaxPerLanguage = 2
  MaxWorkers = 7
  MaxCrashes = 2
SPECIFICATION Spec
INVARIANTS
  AnswersAddUp
  JoinWaits
PROPERTIES
  LeftIsTaken
  DeletedUnused
  ListsAreUnanswered
  JoinReturns
