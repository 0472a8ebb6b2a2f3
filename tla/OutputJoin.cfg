SPECIFICATION Spec
CONSTANTS
    Inputs <- MCJoinInputs
    MaxBatches = 3
    Odd = {}
INVARIANTS ReadsAsEmitted NothingRunsTwice
