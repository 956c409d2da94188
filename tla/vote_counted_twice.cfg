SPECIFICATION Spec
CONSTANTS
  Node = {n1, n2, n3}
  Client = Client
  Txn <- NearTxn
  Kind <- NearKind
  ExpectedTs <- NearTs
  ReadQuorumSize = 2
  WriteQuorumSize = 3
  CleanWindow = 50
  MaxResends = 1
  MaxCrashes = 0
  MaxOverwrites = 0
SYMMETRY NodeSymmetry
INVARIANTS
  Durable
