SPECIFICATION Spec
CONSTANTS
  Batches <- MCBatches
  Scenarios <- MCScenarios
  Instant = 2
  Day = 8
  Interval = 4
  Memory = 4
  Tolerance = 1
  MaxReports = 3
  Horizon = 16
INVARIANTS WorkingSet
PROPERTIES ImplementsCommandRelays RelaysEnd
\* The calendar ends at its horizon.
CHECK_DEADLOCK FALSE
