SPECIFICATION Spec
CONSTANTS
  Topics = {t1}
  Projects = {"p", "q"}
  NoProject = NoProject
  Nobody = Nobody
  FaultKinds = {"refused"}
  CliBlocks = FALSE
  MaxWrites = 3
  MaxDecisions = 2
  MaxFaults = 1
INVARIANTS TypeOK NothingKeptIsLost NoAccessNoTicket LinkedHasReached
PROPERTIES FiledWhereItBelongs
CHECK_DEADLOCK FALSE
