SPECIFICATION FairRingSpec
CONSTANTS
  N = 3
  MaxDisturbed = 1
  MaxRequests = 0
PROPERTY FailedLeaderDetected
