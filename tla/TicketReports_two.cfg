SPECIFICATION Spec
CONSTANTS
  Tasks = {t1, t2}
  Retry = Retry
  Check = Check
  Nobody = Nobody
  Open = {"queue"}
  Closed = {"done"}
  Elsewhere = {"internal"}
  Hidden = {"secret"}
  FaultKinds = {"down", "unanswered", "yougile", "lost", "restart", "topic"}
  HandoffRace = FALSE
  MaxChanges = 0
  MaxMessages = 2
  MaxFaults = 1
INVARIANTS RepeatsAreCuts
PROPERTIES WatermarkNeverBack PendingUntilReported
