CONSTANTS
    Cursors = {c1, c2}
    MaxRows = 2
    Pairs <- MCPairs
    Idioms <- KeptIdioms

SPECIFICATION Spec
SYMMETRY CursorSymmetry
INVARIANTS AttributesAsOnSource StatusAsOnSource RowsAsOnSource
