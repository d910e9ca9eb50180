SPECIFICATION FairSpec
CONSTANTS
  ParticleCount = 3
  BoundaryCount = 2
  DrawUnits = 2
  LocalityCount = 4
  MaxWorldSize = 4
  Jobs <- MCJobs
  Canonical <- MCCanonical
CHECK_DEADLOCK FALSE
INVARIANTS CollectivesMatch FollowsCanonicalFilter ChildrenDelivered
PROPERTIES JobEnds
