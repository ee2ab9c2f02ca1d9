CONSTANTS
  NumViews = 3
  Designs <- MCDesigns
  OtherApps <- MCOtherApps
  Models = {"aligned", "centered", "close"}
  AttrProb <- MCAttrProb
SPECIFICATION Spec
INVARIANTS
  CandidatesRender
  NotBothWays
  ProbabilityDecides
  AlwaysAllowed
