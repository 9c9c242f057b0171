SPECIFICATION FairSpec
CONSTANTS
  Topics = {t1, t2}
  Projects = {"p"}
  NoProject = NoProject
  Nobody = Nobody
  FaultKinds = {"refused", "unanswered", "crash"}
  CliBlocks = TRUE
  MaxWrites = 2
  MaxDecisions = 1
  MaxFaults = 1
INVARIANTS OnlyFaultsRepeat
PROPERTIES EverythingIsHandled
CHECK_DEADLOCK FALSE
