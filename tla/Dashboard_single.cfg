SPECIFICATION FairSpec
CONSTANTS
  MaxJobs = 2
  MaxAttempts = 1
  MaxInFlight = 1
  InOrder = TRUE
  MayFail = TRUE
CHECK_DEADLOCK FALSE
INVARIANTS KeepsAsking PanelAnswers
PROPERTIES StaysStopped PollingEnds ScreenCatchesUp
