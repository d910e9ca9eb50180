CONSTANTS
  ParticleCount = 2
  WorkersAsked = 2
  Nothing = Nothing
  MaxRaises = 1
  Oversize = {"import_parent_bundle", "snapshot"}
  Keys <- TeardownKeys
  Weeks = 1
  RestartEvery = 2
  MaxTrajectories = 3
  Draws <- NoDraws
  Selections <- TeardownSelections
  Stops = {3}
  MaxRuns = 1
  MaxCalls = 0
SPECIFICATION Spec
PROPERTIES TeardownEnds
CHECK_DEADLOCK FALSE
