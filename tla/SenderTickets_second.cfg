SPECIFICATION Spec
CONSTANTS
  Topics = {t1}
  Projects = {"p"}
  NoProject = NoProject
  Nobody = Nobody
  FaultKinds = {}
  CliBlocks = FALSE
  MaxWrites = 2
  MaxDecisions = 1
  MaxFaults = 0
INVARIANTS OneTicketATopic
CHECK_DEADLOCK FALSE
