SPECIFICATION FairSpec
CONSTANTS
  s1 = s1
  s2 = s2
  none = none
  Sockets = {s1, s2}
  NoSocket = none
  MaxEvents = 2
  MaxQueue = 1
  MaxTimers = 1
  MaxFaults = 2
  Faults = {"cut", "slow", "move", "revoke", "unpaired", "stop", "decline", "store"}
INVARIANTS TypeOK LiveSocketHasTheSlot EveryEventAccountedFor StoredOnceInOrder
PROPERTIES ShutForGood RejectionEnds ComesBack
CHECK_DEADLOCK FALSE
