SPECIFICATION Spec
CONSTANTS
  ParticleCount = 3
  BoundaryCount = 2
  DrawUnits = 2
  LocalityCount = 72
  MaxWorldSize = 2
  Jobs <- MCJobs
  Canonical <- MCCanonical
CHECK_DEADLOCK FALSE
INVARIANTS TransfersSucceed
