SPECIFICATION FairSpec
CONSTANTS
  MaxSessions = 3
  MaxStarts = 2
  MaxAsks = 2
  MaxLives = 2
  MaxFaults = 2
  Endings = {"stop", "abort", "fatal", "kill"}
INVARIANTS TypeOK ContinuedOnce CancelledWorkStaysDown JournalFollows LostMeansLost
PROPERTIES FatalIsReported RecordsSettle
CHECK_DEADLOCK FALSE
