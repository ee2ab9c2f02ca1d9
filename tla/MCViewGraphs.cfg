CONSTANTS
  NumViews = 3
  MaxProb = 6
  MaxLevel = 7
  Caches <- MCCaches
SPECIFICATION MCSpec
INVARIANTS
  WalkReachesAll
  WalkFindsAnchors
  LevelsMeanAnchored
  ReferencesAcyclic
  AnchoredAtEnd
PROPERTIES
  AnchoredForGood
  Terminates
