SPECIFICATION FilterSpec
CONSTANTS
  Configs = {c1, c2}
  Counts = {n1, n2}
  Observations = {o1, o2}
  MaxBoundary = 3
  MaxRuns = 3
  MaxFreshRuns = 2
  None = None
SYMMETRY Symmetry
CHECK_DEADLOCK FALSE
INVARIANTS ReportedIsResumable StateHasItsParticles
