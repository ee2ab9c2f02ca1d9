CONSTANTS
  Views = {1, 2}
  MaxLen = 3
  InitialRank = 1
  CoreStep = 1
  SweepStep = 1
  SweepEvery = 3
  MaxTries = 6
  RetryWithoutOpt = TRUE
  Problems <- MCProblems
SPECIFICATION Spec
INVARIANTS
  EncodesRanks
  ExpectedSat
  SuccessIsSolution
  CoreCanGrow
PROPERTIES
  Terminates
  SolvesSolvable
