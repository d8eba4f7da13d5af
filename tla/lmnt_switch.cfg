SPECIFICATION Spec
CONSTANTS
  nan = nan
  neg = neg
  None = None
  Value <- MCValue
  NaN = nan
  Zero = 0
  NonFinite <- MCNonFinite
  SignBit <- MCSign
  ToIndex <- MCToIndex
  ALU <- MCALU
  Compare <- MCCompare
  SizeMod = 64
  OffsetMod = 65536
  LOffsetMod = 8
  Images <- MixedImages
  Reloads <- MixedReloads
  ExtTables <- MixedTables
  ExtResults = {"OK", "ERROR"}
  Memory = 26
  Fill <- MCFill
  ArgValues = {0, 3, neg}
  Dispatch = "switch"
  Torn = FALSE
  Careful = TRUE
INVARIANT NoneSkipped
INVARIANT ExternsBound
INVARIANT FrameInv
PROPERTY Implements
INVARIANT FrameSafe
PROPERTY ConstantsKept
