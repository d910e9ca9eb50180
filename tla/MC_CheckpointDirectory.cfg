SPECIFICATION Spec
CONSTANTS
  ParticleCount = 3
  MaxWorldSize = 3
  Results = {x, y}
  MaxJobs = 3
  RemoveBeforeRename = FALSE
  Missing = Missing
CHECK_DEADLOCK FALSE
INVARIANTS AcceptedIsOneRun PublishedIsReadable
PROPERTIES RerunKeepsCheckpoint
