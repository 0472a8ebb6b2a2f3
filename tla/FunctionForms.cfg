CONSTANTS
    Carrier = Carrier
    Refused = Refused
    Fraction = Fraction
    Dates <- MCDates
    Amounts <- MCAmounts
    Null = Null
    Texts <- MCTexts
    Positions <- MCPositions

SPECIFICATION Spec
CHECK_DEADLOCK FALSE
INVARIANTS SumsKept CountsKept PartsKept TextsKept
