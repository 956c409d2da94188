SPECIFICATION Spec
CONSTANTS
  Node = {n1, n2, n3}
  Client = Client
  Txn <- MixedTxn
  Kind <- MixedKind
  ExpectedTs <- MixedTs
  ReadQuorumSize = 2
  WriteQuorumSize = 2
  CleanWindow = 50
  MaxResends = 0
  MaxCrashes = 0
  MaxOverwrites = 0
SYMMETRY NodeSymmetry
INVARIANTS
  TypeOK
  OrderInv
PROPERTIES
  Linearisable
