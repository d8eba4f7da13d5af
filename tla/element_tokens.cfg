CONSTANTS
  Texts <- MCTexts
  Calls = 2
  Fresh = TRUE
SPECIFICATION Spec
INVARIANTS TypeOK Positions LongestMatch NothingLost
