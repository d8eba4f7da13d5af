SPECIFICATION FairSpec
CONSTANTS
  nan = nan
  neg = neg
  None = None
  Value <- MCValue
  NaN = nan
  Zero = 0
  NonFinite <- MCNonFinite
  SignBit <- MCSign
  ToIndex <- MCToIndex
  ALU <- MCALU
  Compare <- MCCompare
  SizeMod = 64
  OffsetMod = 65536
  LOffsetMod = 8
  Images <- CarelessImages
  Reloads <- CarelessReloads
  ExtTables <- CarelessTables
  ExtResults = {"OK"}
  Memory = 26
  Fill <- MCFill
  ArgValues = {1, 2}
  Dispatch = "goto"
  Torn = TRUE
  Careful = FALSE
PROPERTY Terminates
PROPERTY InterruptStops
INVARIANT TypeOK
INVARIANT AtMostOnce
PROPERTY OkMeansFinished
PROPERTY Implements
