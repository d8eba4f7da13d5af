CONSTANTS
  Names <- MCNames
  Alphabet <- MCAlphabet
  Beginnings <- MCBeginnings
  Intrinsics <- MCIntrinsics
  AsWritten = {"struct ports"}
SPECIFICATION Spec
INVARIANT AcceptsTheGrammar
