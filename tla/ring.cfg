SPECIFICATION FairRingSpec
CONSTANTS
  N = 3
  MaxDisturbed = 1
  MaxRequests = 1
INVARIANTS
  RingTypeOK
  OneLeader
PROPERTIES
  LeaderAgreed
  ElectionEnds
  RequestsForwarded
