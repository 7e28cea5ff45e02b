SPECIFICATION FairSpec
CONSTANTS
    N = 2
    Evaluations = {"passed", "failed", "empty"}
    Scores = {100}
    MaxFaults = 1
INVARIANTS TypeOK VerdictIsSound
PROPERTIES DecisionStands ContestEnds
CHECK_DEADLOCK FALSE
