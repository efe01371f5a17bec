SPECIFICATION FairSpec
CONSTANTS
  daily = daily
  mailbox = mailbox
  None = None
  Runs <- MCRuns
  Cooperative <- MCDaily
  AutoContinue <- MCDaily
  Controlled <- MCRuns
  MaxRetries = 1
  MaxCheckpoint = 2
INVARIANT HandlerHoldsLock
INVARIANT ReportedAfterHandler
 
PROPERTY StartsAlone
 
 
CHECK_DEADLOCK FALSE
