SPECIFICATION FairSpec
CONSTANTS
  p1 = p1
  daily = daily
  None = None
  Procs <- MCProcs
  Schedules <- MCSchedules
  Day = 2
  MaxTime = 4
  MaxExecs = 2
  MaxUpsets = 1
INVARIANT StartsOnce
INVARIANT OneRowPerOccurrence
INVARIANT InFlightIsRunning
PROPERTY OverdueIsNotReplayed
PROPERTY ExecutionsClose
PROPERTY NothingStaysDue
CHECK_DEADLOCK FALSE
