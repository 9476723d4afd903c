CONSTANTS
    Null = Null
    NoRow = NoRow
    Cases <- DistinctCases
SPECIFICATION Spec
INVARIANTS DistinctFirst
CHECK_DEADLOCK FALSE
