SPECIFICATION Spec
CONSTANTS
  Workers = {w1, w2, w3}
  Recheck = 2
  Budgets <- Mixtures
SYMMETRY Alike
INVARIANTS TypeOK StaleAtMostRecheck StoredKeyWorks OnlyFaultsStrand
CHECK_DEADLOCK FALSE
