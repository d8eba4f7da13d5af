CONSTANTS
  Names <- MCNames
  Alphabet <- MCAlphabet
  Beginnings <- LibertiesOnly
  Intrinsics <- MCIntrinsics
  AsWritten = {"brace", "last comma", "intrinsic body", "word function", "intrinsic constraint"}
SPECIFICATION Spec
INVARIANT AcceptsTheGrammar
