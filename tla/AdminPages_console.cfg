SPECIFICATION Spec
CONSTANTS
  Workers = {w1, w2}
  Origins <- Ways
  Own <- OwnWays
  CountersOf <- CountersOfWays
  Limit <- Limits
  Budgets <- Mixtures
SYMMETRY Alike
INVARIANTS TypeOK AttemptsBounded ActsOnlyAdmins KeysHaveAPlace
PROPERTIES SessionsLast
CHECK_DEADLOCK FALSE
