SPECIFICATION Spec
CONSTANTS
    Pairs <- MCPairs
    Idioms <- KeptIdioms
    Names = {l, m}
    None = None
    MaxDepth = 3
    MaxLoops = 4
SYMMETRY NameSymmetry
INVARIANTS JumpsAsWritten LabelsDistinct
CHECK_DEADLOCK FALSE
