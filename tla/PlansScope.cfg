CONSTANTS
    Null = Null
    NoRow = NoRow
    Cases <- OverTwoSources
SPECIFICATION Spec
INVARIANTS ScopeApplied
CHECK_DEADLOCK FALSE
