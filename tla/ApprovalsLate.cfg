SPECIFICATION FairSpec
CONSTANTS
    Users = {u1}
    Kinds <- Agent
    Stores = {"memory"}
    MaxCrashes = 0
    Disturbances = {"late"}
PROPERTY WaitingIsAnswered
CHECK_DEADLOCK FALSE
