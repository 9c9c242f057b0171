SPECIFICATION Spec
CONSTANTS
  People = {ann, bob}
  Slots = 2
  Batch = 1
  Budgets <- Deploys
INVARIANTS StopsDropNothing
CHECK_DEADLOCK FALSE
