SPECIFICATION MCFairSpec
CONSTANTS
  None = None
  MaxRuns = 2
  CrawlUnits = 1
  ScoreUnits = 1
  MaxBoots = 2
  Desktop = TRUE
INVARIANT CancelledIsQuiet
INVARIANT OneWorkerPerScope
PROPERTY SettledStaysSettled
PROPERTY RequestsEndTheRun
CHECK_DEADLOCK FALSE
