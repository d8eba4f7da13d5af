CONSTANTS
  Names <- MCNames
  Alphabet <- MCAlphabet
  Beginnings <- MCBeginnings
  Intrinsics <- MCIntrinsics
  AsWritten = {"empty block"}
SPECIFICATION Spec
INVARIANT AcceptsTheGrammar
