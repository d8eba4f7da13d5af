SPECIFICATION Spec
CONSTANTS
  nan = nan
  neg = neg
  None = None
  Value <- MCValue
  NaN = nan
  Zero = 0
  NonFinite <- MCNonFinite
  SignBit <- MCSign
  ToIndex <- MCToIndex
  ALU <- MCALU
  Compare <- MCCompare
  SizeMod = 64
  OffsetMod = 65536
  LOffsetMod = 8
  Images <- StraightImages
  Reloads <- StraightReloads
  ExtTables <- StraightTables
  ExtResults = {"OK"}
  Memory = 26
  Fill <- MCFill
  ArgValues = {1}
  Dispatch = "jumptable"
  Torn = FALSE
  Careful = TRUE
PROPERTY OkMeansFinished
