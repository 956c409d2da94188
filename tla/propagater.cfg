SPECIFICATION FairPropSpec
CONSTANTS
  Member = {n1, n2, n3}
  ReadQuorumSize = 1
  WriteQuorumSize = 2
  MaxWrites = 2
  MaxLost = 1
  MaxCrashed = 1
INVARIANTS
  PropInv
  ClashOnlyIfForgotten
  ConfirmedHold
  StuckOnlyIfHurried
PROPERTY SpreadsUnlessLost
CHECK_DEADLOCK FALSE
