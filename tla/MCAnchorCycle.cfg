\* Three epochs and the day after them, three ticks a day, any two faults.
CONSTANTS
  EpochSeconds = 3
  PublishOffset = 2
  BuildLead = 1
  MaxEpochSlip = 1
  Absent = Absent
  Torn = Torn
  Root = {r1, r2}
  NoDigest = NoDigest
  StartEpoch = 1
  PublishAttempts = 2
  PartitionRetryLimit = 1
  StartLimitBurst = 3
  ConcurrentRuns = 1
  HostSkews = {0}
  HeartbeatGrace = 0
  PublicationGrace = 0
  SequenceLagLimit = 1
  ReceiptBudget = 4
  ConsecutiveRefusals = 3
  MaxClock = 14
  MaxFaults = 2
SPECIFICATION Spec
SYMMETRY RootSymmetry
INVARIANTS
  PublishedAsHandedOff
  AttachedIsBitcoins
  OnlyTheLastIsSingle
  StopsForCause
  WritableIsPublishable
  DualReconciles
PROPERTIES
  OperatorIsTold
