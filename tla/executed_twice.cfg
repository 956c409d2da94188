SPECIFICATION Spec
CONSTANTS
  Node = {n1, n2, n3}
  Client = Client
  Txn <- TrioTxn
  Kind <- TrioKind
  ExpectedTs <- TrioTs
  ReadQuorumSize = 2
  WriteQuorumSize = 2
  CleanWindow = 50
  MaxResends = 0
  MaxCrashes = 0
  MaxOverwrites = 1
SYMMETRY NodeSymmetry
INVARIANTS
  ExecutedAtMostOnce
