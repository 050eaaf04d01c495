\* Three hosts, any two changes to the deployment, two processes, one
\* signature.
CONSTANTS
  Spare = {}
  Message = {m1}
  Unset = Unset
  Missing = Missing
  Garbled = Garbled
  NoManifest = NoManifest
  MaxChanges = 2
  MaxProcesses = 2
  MaxSigned = 1
SPECIFICATION CustodySpec
CHECK_DEADLOCK FALSE
INVARIANTS
  KeysAreSeparate
  SignedAsAsked
