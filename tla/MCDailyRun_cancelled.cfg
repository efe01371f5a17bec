SPECIFICATION Spec
CONSTANTS
  None = None
  MaxRuns = 2
  CrawlUnits = 1
  ScoreUnits = 1
  MaxBoots = 2
  Desktop = TRUE
PROPERTY CancelIsNoResume
CHECK_DEADLOCK FALSE
