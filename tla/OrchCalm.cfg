SPECIFICATION FairSpec
CONSTANTS
    UserPlans <- AllPlans
    PlannerReplies <- Replies
    MaxFix = 1
    MaxSessions = 8
    MaxFaults = 0
    AdoptsIds = TRUE
    Policy = {"require_approval", "deny"}
    Disturbances = {"cancel", "late", "sweep"}
INVARIANT CompletedRunIsChecked
INVARIANT NothingBuildsOnAFailedCheck
INVARIANT FixLoopsStop
INVARIANT RunNeverStranded
PROPERTY ImplementsTaskBoard
PROPERTY RunEnds
