CONSTANTS
    Rows <- ArithmeticRows
    Operators <- MCArithmetic

SPECIFICATION Spec
CHECK_DEADLOCK FALSE
INVARIANT GroupingRegained
