CONSTANTS
  MaxLength = 4
  Texts <- MCTexts
  Within <- MCWithin
  OneLine <- MCTexts
  Outputs <- MCOutputs
SPECIFICATION Spec
INVARIANTS
  MalformedAreCommented
  NothingPersists
  NothingOverruns
