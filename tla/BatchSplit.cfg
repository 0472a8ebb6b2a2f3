CONSTANTS
  Inputs <- MCInputs
  MaxFragments = 3
SPECIFICATION Spec
INVARIANTS
  BatchesReadAsScript
  NothingGlued
  TypesFitCode
  InStepWithClient
