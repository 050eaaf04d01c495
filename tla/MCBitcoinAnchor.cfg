\* Two retargets, a median of three, one block above to confirm, one reorganisation.
CONSTANTS
  DigitBase = 4
  MantissaDigits = 2
  TargetDigits = 3
  PowLimit = 12
  RetargetInterval = 2
  TargetTimespan = 4
  MedianTimeSpan = 3
  VersionFloor = 4
  VersionFloorFrom = 2
  ConfirmationDepth = 1
  Nothing = Nothing
  MaxMergeDelay = 2
  EpochSeconds = 3
  PublishOffset = 2
  BuildLead = 1
  BlockHash <- MCBlockHash
  Environment <- MCEnvironment
  Times = {0, 2, 5}
  Bits <- MCBits
  Stamp <- MCStamp
  BatcherKey = "b"
  MaxU32 = 100
  MaxForks = 1
SPECIFICATION Spec
INVARIANTS
  AcceptsExactlyTheRules
  ConfirmedSurvives
  JudgmentStands
  DeadlineIsBounded
CHECK_DEADLOCK FALSE
