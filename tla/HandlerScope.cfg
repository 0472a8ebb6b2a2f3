SPECIFICATION Spec
CONSTANTS
    Pairs <- MCPairs
    Idioms <- KeptIdioms
    None = None
    MaxDepth = 2
    MaxWrites = 2
INVARIANTS HandlersAsWritten WorkKept
CHECK_DEADLOCK FALSE
