SPECIFICATION Spec
CONSTANTS
  Workers = {w1, w2, w3}
  Clients = {old, new, foreign}
  Old = {old, foreign}
  Foreign = {foreign}
  Nobody = Nobody
  Budgets <- Mixtures
SYMMETRY Alike
INVARIANTS TypeOK GrantIsOne EndedIsOver LockedOutForAReason GoneHaveNothing
CHECK_DEADLOCK FALSE
