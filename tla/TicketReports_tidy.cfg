SPECIFICATION Spec
CONSTANTS
  Tasks = {t1}
  Retry = Retry
  Check = Check
  Nobody = Nobody
  Open = {"queue"}
  Closed = {"done"}
  Elsewhere = {"internal"}
  Hidden = {"secret"}
  FaultKinds = {"yougile"}
  HandoffRace = TRUE
  MaxChanges = 1
  MaxMessages = 1
  MaxFaults = 1
INVARIANTS OneRefreshAtATime
