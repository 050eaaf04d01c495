\* One root, two epochs, any two faults: what is left must finish or be heard.
\* Hosts may be two days fast; with a slip of two epochs the program, not the
\* slip barrier, is what stops such a worker.
CONSTANTS
  EpochSeconds = 3
  PublishOffset = 2
  BuildLead = 1
  MaxEpochSlip = 2
  Absent = Absent
  Torn = Torn
  Root = {r1}
  NoDigest = NoDigest
  StartEpoch = 1
  PublishAttempts = 2
  PartitionRetryLimit = 1
  StartLimitBurst = 2
  ConcurrentRuns = 1
  HostSkews = {0, 6}
  HeartbeatGrace = 0
  PublicationGrace = 0
  SequenceLagLimit = 1
  ReceiptBudget = 2
  ConsecutiveRefusals = 2
  MaxClock = 11
  MaxFaults = 2
SPECIFICATION FairSpec
INVARIANTS
  NeverEarly
PROPERTIES
  AnchoredInTheEnd
  StallsAreHeard
