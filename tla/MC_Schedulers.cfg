SPECIFICATION BothSpec
CONSTANTS
  Times <- MCTimes
  Priorities <- MCPriorities
  Keys = {k1, k2}
  AllowNegative = FALSE
  MaxSequence = 3
  None = None
INVARIANTS LengthExact CalendarExact SameReplies
PROPERTY ImplementsEventQueue
