\* Two slots that fork or follow, two transactions each; a scan of three requests.
CONSTANTS
  StartEpoch = 1
  Tx <- TxChoice
  MaxSlot = 2
  MaxTxs = 2
  First = 0
  Final = 2
  OneViewLimit = 2
  Nothing = Nothing
SPECIFICATION Spec
INVARIANTS
  LagIsOneObservation
  PlacedIsTheEpochs
  MissingIsClassified
  RecoveredIsTheWriter
  BoundIsOneChain
CHECK_DEADLOCK FALSE
