CONSTANTS
    Null = Null
    NoRow = NoRow
    Cases <- AllCases
SPECIFICATION Spec
INVARIANTS SameRows SameAnswer NothingInvented
CHECK_DEADLOCK FALSE
