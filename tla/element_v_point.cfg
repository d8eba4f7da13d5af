CONSTANTS
  Texts <- MCTexts
  Calls = 2
  Fresh = TRUE
SPECIFICATION Spec
INVARIANT LiteralAccepted
