SPECIFICATION Spec
CONSTANTS
  Node = {n1, n2}
  Client = Client
  Txn <- MixedTxn
  Kind <- MixedKind
  ExpectedTs <- MixedTs
  ReadQuorumSize = 2
  WriteQuorumSize = 2
  CleanWindow = 50
  MaxResends = 0
  MaxCrashes = 1
  MaxOverwrites = 1
SYMMETRY NodeSymmetry
INVARIANTS
  RefusedNeverVisible
  NoOrphanLock
  OneAnswer
