CONSTANTS
  ParticleCount = 4
  WorkersAsked = 3
  Nothing = Nothing
  MaxRaises = 1
  Oversize = {"import_parent_bundle", "snapshot"}
  Keys <- MCKeys
  Weeks = 2
  RestartEvery = 1
  MaxTrajectories = 8
  Draws <- MCDraws
  Selections <- MCSelections
  Stops = {7}
  MaxRuns = 2
  MaxCalls = 2
SPECIFICATION Spec
INVARIANTS LayoutKept SameForecast PublishedIsLoadable
PROPERTIES ImplementsParticleStore CallsReturn WorkersExit
CHECK_DEADLOCK FALSE
