SPECIFICATION FairSpec
CONSTANTS
    Users = {u1, u2}
    Kinds <- AllKinds
    Stores = {"memory", "firestore"}
    MaxCrashes = 1
    Disturbances = {"offline", "late", "policy", "sweep", "crash"}
INVARIANTS TypeOK RemindedOnce
PROPERTIES ImplementsOneDecision EverySettled AnsweredUnlessCut
CHECK_DEADLOCK FALSE
