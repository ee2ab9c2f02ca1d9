CONSTANTS
  p1 = p1
  p2 = p2
  minus = minus
  unset = unset
  d1 = d1
  Programs = {"nogis_iterative", "inferui_baseline"}
  Places <- AllPlaces
  AtMinusOne = {minus}
  Unset = unset
  NumViews = 3
  RefinementDevices = {d1}
  MaxCandidates = 2
  Views = {1, 2}
  RenderedPlaces <- OtherPlaces
  NumDevices = 2
  BaseSynFallback = TRUE
  FixInconsistencies = TRUE
SPECIFICATION Spec
INVARIANTS
  LastViewMovesIfSettled
  IterationsComplete
  FeedbackKept
  CorrectionsSuffice
PROPERTIES
  SettledViewsStay
  LoopsEnd
CHECK_DEADLOCK FALSE
