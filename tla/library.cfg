SPECIFICATION Spec
CONSTANTS
  Half = 32
  Texts <- MCTexts
  Bases = {0, 10, 16}
  MaxLen = 38
INVARIANTS
  CopiesExactly
  NumberRead
  RoundTrip
CHECK_DEADLOCK FALSE
