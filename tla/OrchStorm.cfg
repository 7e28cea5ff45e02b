SPECIFICATION Spec
CONSTANTS
    UserPlans <- TurnPlans
    PlannerReplies <- NoReplies
    MaxFix = 1
    MaxSessions = 2
    MaxFaults = 1
    AdoptsIds = TRUE
    Policy = {"allow", "require_approval", "deny"}
    Disturbances = {"offline", "refuse", "overtake", "late", "sweep", "lose", "stop", "cancel", "crash"}
INVARIANT TypeOK
INVARIANT BuildersTakeTurns
INVARIANT EveryAgentHasAStep
INVARIANT OneWriterInTree
PROPERTY DoneRunIsFinal
