CONSTANTS
  p1 = p1
  p2 = p2
  minus = minus
  unset = unset
  d1 = d1
  Programs = {"nogis_iterative"}
  Places <- AllPlaces
  AtMinusOne = {minus}
  Unset = unset
  NumViews = 2
  RefinementDevices = {d1}
  MaxCandidates = 2
  Views = {1, 2}
  RenderedPlaces <- OtherPlaces
  NumDevices = 2
  BaseSynFallback = TRUE
  FixInconsistencies = TRUE
SPECIFICATION Spec
INVARIANT LastViewMoves
CHECK_DEADLOCK FALSE
