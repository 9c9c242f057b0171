SPECIFICATION Spec
CONSTANTS
  Workers = {w1, w2, w3}
  Clients = {old, new, foreign}
  Old = {old, foreign}
  Foreign = {foreign}
  Nobody = Nobody
  Budgets <- Purged
SYMMETRY Alike
INVARIANTS UsedAreKnown
CHECK_DEADLOCK FALSE
