SPECIFICATION Spec
CONSTANTS
  nan = nan
  None = None
  Value <- MCValue
  NaN = nan
  Zero = 0
  NonFinite <- MCNonFinite
  SignBit <- MCSign
  ToIndex <- MCToIndex
  ALU <- MCALU
  Compare <- MCCompare
  SizeMod = 128
  OffsetMod = 65536
  ExtResults = {"OK", "FAILED"}
  ArgValues = {1, 6}
  LastReg = 4
  FirstNV = 4
  Images <- JitImages
  ExtTable <- MCExtTable
  Memory = 36
  Truncated <- MCTruncated
  Rounded <- MCRounded
  WordMod = 64
  Fill <- MCFill
  Garbage = 5
INVARIANTS RegCacheValid Coherent JitAgrees
