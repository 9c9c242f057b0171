SPECIFICATION Spec
CONSTANTS
  Workers = {w1, w2, w3}
  Recheck = 2
  Budgets <- Crossing
SYMMETRY Alike
INVARIANTS DisconnectTakesTheKey
CHECK_DEADLOCK FALSE
