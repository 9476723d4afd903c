CONSTANTS
    N = 3
    Parallelism = 2
    Graphs <- AllGraphs
    Faults <- AllFaults
SPECIFICATION FairSpec
INVARIANTS ComputeSeesInputs EverythingReported
PROPERTIES ImplementsDataflow ExecutionEnds
CHECK_DEADLOCK FALSE
