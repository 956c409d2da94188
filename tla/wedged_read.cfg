SPECIFICATION LiveSpec
CONSTANTS
  Node = {n1, n2, n3}
  Client = Client
  Txn <- PairTxn
  Kind <- PairKind
  ExpectedTs <- PairTs
  ReadQuorumSize = 2
  WriteQuorumSize = 2
  CleanWindow = 50
  MaxResends = 0
  MaxCrashes = 1
  MaxOverwrites = 0
PROPERTIES
  CoordinationEnds
