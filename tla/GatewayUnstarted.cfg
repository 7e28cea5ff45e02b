SPECIFICATION Spec
CONSTANTS
  MaxSessions = 1
  MaxStarts = 1
  MaxAsks = 1
  MaxLives = 1
  MaxFaults = 2
  Endings = {}
INVARIANTS RunningMeansStarted
CHECK_DEADLOCK FALSE
