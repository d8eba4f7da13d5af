CONSTANTS
  nan = nan
  neg = neg
  Value <- MCValue
  NaN = nan
  Zero = 0
  One = 1
  MinusOne = neg
  PositiveInfinity = 3
  NonFinite <- MCNonFinite
  SignBit <- MCSign
  ToIndex <- MCToIndex
  ALU <- MCALU
  Compare <- MCCompare
  SizeMod <- MCSizeMod
  OffsetMod = 64
  ExtResults = {"OK"}
  ArgValues <- MCValue
  KnownLogs = {}
  MaxIterations = 8
  Limit = 2
  MaxTurns = 5
  Names <- MCNames
  Programs <- MCPrograms
  InputValues <- MCInputs
SPECIFICATION Spec
INVARIANTS TypeOK LexicalScope StacksRestored ArgumentsMatch
PROPERTY Terminates
