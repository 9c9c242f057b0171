SPECIFICATION FairSpec
CONSTANTS
  Tasks = {t1}
  Retry = Retry
  Check = Check
  Nobody = Nobody
  Open = {"queue"}
  Closed = {"done"}
  Elsewhere = {"internal"}
  Hidden = {"secret"}
  FaultKinds = {"down", "unanswered", "yougile", "lost", "restart"}
  HandoffRace = FALSE
  MaxChanges = 2
  MaxMessages = 1
  MaxFaults = 1
INVARIANTS TypeOK OneRefreshAtATime NothingLost
PROPERTIES SkippedStaysSkipped OpenTicketsCatchUp EveryEventCounts
