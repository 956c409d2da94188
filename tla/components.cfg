SPECIFICATION Spec
CONSTANTS
  Clients = {c1, c2}
  NoClient = NoClient
  NumAttempts = 2
  MaxCalls = 2
  MaxFaults = 2
  Capacity = 2
  MaxArrivals = 5
  Requests <- AbortedWrite
  NumRetries = 2
  MaxDropped = 1
  MaxFailures = 1
  Caller = {p1, p2}
  ClientAttempts = 2
  MaxIds = 3
  MaxDoubled = 1
INVARIANTS
  LockerInv
  OneHolder
  LoopTypeOK
  NeverBlocks
  FalseTimeoutsAreStale
  RepeaterTypeOK
  NoneGivenUp
  ClientInv
  ResultHonest
  RouterFlows
PROPERTIES
  LockRefined
  FreeLockTaken
  UnlockFrees
  CallsReturn
  TicksGoOn
  RepeatingEnds
CHECK_DEADLOCK FALSE
