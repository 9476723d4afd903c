CONSTANTS
    Runs = {r1, r2}
    Stages = 1
    Coordinator = 1
    Faults = {}
    Retries = 1
    MaxSelects = 2
    Network = TRUE
SPECIFICATION ViewerFairSpec
INVARIANTS ShownWhole
PROPERTIES FollowedToEnd
CHECK_DEADLOCK FALSE
