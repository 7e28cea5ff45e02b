SPECIFICATION FairSpec
CONSTANTS
    UserPlans <- OneBuild
    PlannerReplies <- NoReplies
    MaxFix = 1
    MaxSessions = 1
    MaxFaults = 0
    AdoptsIds = FALSE
    Policy = {"allow"}
    Disturbances = {}
PROPERTY RunEnds
