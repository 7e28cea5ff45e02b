SPECIFICATION Spec
CONSTANTS
    UserPlans <- OneBuild
    PlannerReplies <- NoReplies
    MaxFix = 1
    MaxSessions = 1
    MaxFaults = 1
    AdoptsIds = TRUE
    Policy = {"require_approval"}
    Disturbances = {"stop", "sweep"}
INVARIANT EndedStepsAreSeen
