\* Four days; two keys, two addresses per epoch, two receipts to choose from.
\* The program never reads the root, so one will do.
CONSTANTS
  NoDigest = NoDigest
  Key = {k1, k2}
  Root = {r1}
  Digest = {NoDigest, d1, d2}
  Bump = {254, 255}
  SecondsPerDay = 1
  MaxClock = 3
SPECIFICATION FairSpec
INVARIANTS
  OneRootPerEpoch
PROPERTIES
  ImplementsPublicLog
  CatchesUp
CHECK_DEADLOCK FALSE
