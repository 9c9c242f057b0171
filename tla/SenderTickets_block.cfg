SPECIFICATION Spec
CONSTANTS
  Topics = {t1}
  Projects = {"p"}
  NoProject = NoProject
  Nobody = Nobody
  FaultKinds = {}
  CliBlocks = TRUE
  MaxWrites = 2
  MaxDecisions = 2
  MaxFaults = 0
PROPERTIES BlockHolds
CHECK_DEADLOCK FALSE
