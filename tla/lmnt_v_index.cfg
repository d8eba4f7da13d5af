SPECIFICATION QuietSpec
CONSTANTS
  nan = nan
  neg = neg
  None = None
  Value <- MCValue
  NaN = nan
  Zero = 0
  NonFinite <- MCNonFinite
  SignBit <- MCSign
  ToIndex <- MCToIndex
  ALU <- MCALU
  Compare <- MCCompare
  SizeMod = 64
  OffsetMod = 65536
  LOffsetMod = 8
  Images <- ControlImages
  Reloads <- ControlReloads
  ExtTables <- ControlTables
  ExtResults = {"OK"}
  Memory = 26
  Fill <- MCFill
  ArgValues = {1, neg}
  Dispatch = "switch"
  Torn = FALSE
  Careful = TRUE
INVARIANT IndexReads
