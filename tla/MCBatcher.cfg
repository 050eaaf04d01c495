\* Two leaves per epoch, a merge delay of two epochs, a queue that fills and a
\* counter that runs out.
CONSTANTS
  Leaf <- MCLeaf
  Capacity = 2
  MaxMergeDelay = 2
  StartEpoch = 0
  MaxU64 = 7
SPECIFICATION FairSpec
INVARIANTS
  PromisesKept
  ResumesItsOwn
PROPERTIES
  ImplementsLedger
  EventuallySealed
