CONSTANTS
  nan = nan
  neg = neg
  None = None
  Value <- MCValue
  NaN = nan
  Zero = 0
  One = 1
  MinusOne = neg
  PositiveInfinity = 3
  NonFinite <- MCNonFinite
  SignBit <- MCSign
  ToIndex <- MCToIndex
  ALU <- MCALU
  Compare <- MCCompare
  SizeMod <- MCSizeMod
  OffsetMod = 64
  ExtResults = {"OK"}
  ArgValues <- MCValue
  KnownLogs <- MCKnownLogs
  MaxIterations = 6
  AllowBackbranches = TRUE
  AllowDynamic = TRUE
  ReuseThreshold = 1
  Exports <- MCConstants
  Arguments <- MCArguments
  Stale <- MCStale
  Memory = 60
SPECIFICATION Spec
INVARIANT CompiledMeans
