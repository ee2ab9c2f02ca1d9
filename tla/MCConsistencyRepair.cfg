CONSTANTS
  NumViews = 3
  Inputs <- MCInputs
SPECIFICATION Spec
INVARIANTS
  SuccessIsRendered
  GivesUpForReason
PROPERTIES
  Terminates
