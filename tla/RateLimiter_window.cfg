SPECIFICATION Spec
CONSTANTS
  Workers = {w1, w2}
  Limit = 2
  Window = 3
  MaxSleep = 2
  MaxWait = 5
  Penalties = {1, 3}
  MaxRequests = 5
  MaxPenalties = 2
  MaxTime = 6
INVARIANTS TypeOK WaitIsExact
PROPERTIES KeepsBudget
CHECK_DEADLOCK FALSE
