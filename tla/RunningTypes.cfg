SPECIFICATION Spec
CONSTANTS
    Palette <- KeptPalette
    Tables = {t1}
    Columns = {a, b, c}
    Types = {int, bigint}
    None = None
    MaxCreates = 1
SYMMETRY Symmetry
INVARIANTS SchemaKept KnowledgeIsCurrent TargetAccepts
CHECK_DEADLOCK FALSE
