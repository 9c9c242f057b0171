SPECIFICATION Spec
CONSTANTS
  Workers = {w1, w2}
  Origins <- Ways
  Own <- OwnWays
  CountersOf <- CountersOfWays
  Limit <- Limits
  Budgets <- Saves
SYMMETRY Alike
INVARIANTS NothingPilesUp
CHECK_DEADLOCK FALSE
