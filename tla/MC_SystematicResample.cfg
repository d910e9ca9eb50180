SPECIFICATION PassSpec
CONSTANTS
  N = 4
  MaxWeight = 3
CHECK_DEADLOCK FALSE
INVARIANTS ParentsAreExact OffspringFollowsWeight
