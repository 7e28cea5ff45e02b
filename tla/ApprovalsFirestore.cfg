SPECIFICATION Spec
CONSTANTS
    Users = {u1, u2}
    Kinds <- Agent
    Stores = {"firestore"}
    MaxCrashes = 0
    Disturbances = {}
PROPERTY FirstDecisionWins
CHECK_DEADLOCK FALSE
