SPECIFICATION BothSpec
CONSTANTS
  Clocks <- MCClocks
  Interval <- MCInterval
  LongRoute = 3
  Worlds <- MCWorlds
  NativeWorlds <- MCNativeWorlds
  Engines = {"python", "native"}
  Drivers = {"run", "advance"}
  ParticleExecution = FALSE
  Horizon = 4
  Limits = {None, 0, 2}
  None = None
INVARIANTS NeverBackward OneEventPerClock ReturnsAtHorizon
PROPERTIES RunReturns EnginesAgree
