CONSTANTS
  Names <- MCNames
  Alphabet <- MCAlphabet
  Beginnings <- MCBeginnings
  Intrinsics <- MCIntrinsics
  AsWritten = {}
SPECIFICATION Spec
INVARIANT IntrinsicsHaveNoBody
