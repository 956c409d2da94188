SPECIFICATION Spec
CONSTANTS
  Node = {n1, n2, n3}
  Client = Client
  Txn <- WritesTxn
  Kind <- WritesKind
  ExpectedTs <- WritesTs
  ReadQuorumSize = 2
  WriteQuorumSize = 2
  CleanWindow = 50
  MaxResends = 2
  MaxCrashes = 0
  MaxOverwrites = 0
SYMMETRY NodeSymmetry
INVARIANTS
  WriteMutualExclusion
  OneValuePerTimestamp
  Durable
PROPERTIES
  StoreMovesForward
