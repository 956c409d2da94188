SPECIFICATION LiveSpec
CONSTANTS
  Node = {n1, n2}
  Client = Client
  Txn <- TrioTxn
  Kind <- TrioKind
  ExpectedTs <- TrioTs
  ReadQuorumSize = 1
  WriteQuorumSize = 2
  CleanWindow = 50
  MaxResends = 0
  MaxCrashes = 1
  MaxOverwrites = 0
INVARIANTS
  RealTimeOrder
PROPERTIES
  LocksReleased
  CoordinationEnds
  WritesAnswered
