CONSTANTS
    Rows <- MCRows
    Operators <- MCOperators

SPECIFICATION Spec
CHECK_DEADLOCK FALSE
INVARIANTS GroupingKept ValuesKept
