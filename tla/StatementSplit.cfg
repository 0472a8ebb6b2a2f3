CONSTANTS
  Inputs <- MCInputs
  MaxFragments = 3
SPECIFICATION Spec
INVARIANTS
  SplitsAsClient
  InStepWithClient
PROPERTY
  Splits
