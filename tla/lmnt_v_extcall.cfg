SPECIFICATION QuietSpec
CONSTANTS
  nan = nan
  neg = neg
  None = None
  Value <- MCValue
  NaN = nan
  Zero = 0
  NonFinite <- MCNonFinite
  SignBit <- MCSign
  ToIndex <- MCToIndex
  ALU <- MCALU
  Compare <- MCCompare
  SizeMod = 64
  OffsetMod = 64
  LOffsetMod = 8
  Images <- FarDefImages
  Reloads <- FarDefReloads
  ExtTables <- FarDefTables
  ExtResults = {"OK"}
  Memory = 26
  Fill <- MCFill
  ArgValues = {1}
  Dispatch = "switch"
  Torn = FALSE
  Careful = TRUE
INVARIANT FrameSafe
