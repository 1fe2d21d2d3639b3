SPECIFICATION JobSpec
CONSTANTS
  Attempts = 3
  NoReport = NoReport
INVARIANT ScheduledStands
CHECK_DEADLOCK FALSE
