SPECIFICATION Spec
CONSTANTS
  Topics = {t1}
  Projects = {"p"}
  NoProject = NoProject
  Nobody = Nobody
  FaultKinds = {"unanswered"}
  CliBlocks = FALSE
  MaxWrites = 2
  MaxDecisions = 0
  MaxFaults = 1
INVARIANTS NothingKeptIsLost
CHECK_DEADLOCK FALSE
