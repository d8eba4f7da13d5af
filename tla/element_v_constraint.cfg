CONSTANTS
  Names <- MCNames
  Alphabet <- MCAlphabet
  Beginnings <- MCBeginnings
  Intrinsics <- MCIntrinsics
  AsWritten = {"constraint ports"}
SPECIFICATION Spec
INVARIANT AcceptsTheGrammar
