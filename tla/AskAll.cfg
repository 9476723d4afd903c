CONSTANTS
    Runs = {r1}
    Stages = 5
    Coordinator = 4
    Faults = {"stage", "output", "recorder", "spawn", "crash"}
SPECIFICATION FairSpec
INVARIANTS RunTellsStages
PROPERTIES ClosedForGood RunCloses
CHECK_DEADLOCK FALSE
