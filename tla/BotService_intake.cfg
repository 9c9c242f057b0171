SPECIFICATION FairSpec
CONSTANTS
  People = {ann, bob}
  Slots = 2
  Batch = 1
  Budgets <- Mixtures
INVARIANTS TypeOK OneByOne NothingDropped AgainOnlyAfterStop AnswersAreTrue
PROPERTIES EveryUpdateHandled EveryRequestAnswered
CHECK_DEADLOCK FALSE
