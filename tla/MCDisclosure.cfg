CONSTANTS
  MaxMergeDelay = 1
  MinHeight = 1
  MaxHeight = 2
  Nothing = Nothing
  Asset = "c"
  OtherAsset = "d"
  Filing <- MCFiling
  Aside <- MCAside
  Id = {1, 2, 3}
  Heights = {1, 2}
  Low = {0, 7}
  ReleasedLow = 0
  MaxEpochs = 3
  MaxReplaced = 1
SPECIFICATION Spec
INVARIANTS
  ProvesExactlyWhatIsThere
  TreeIsItsSet
  ImplementationsAgree
  KeptMeansIncluded
  AcceptedIsFiled
  PositionIsAnchored
  GenuineAccepted
CHECK_DEADLOCK FALSE
