------------------------------ MODULE MCTokens ------------------------------
(* Texts for the tokeniser: every short text over characters of every class, *)
(* and longer ones of those that make numbers, and of those that make lines *)
EXTENDS ElementTokens

Characters ==
  {"0", "a", "e", "w", "_", "-", ".", "(", "#", Eol, " ", "!", Malformed}
OfNumbers == {"0", "e", "-", ".", "_"}
OfLines == {"a", "w", "_", "#", " ", Eol}

Of(S, lengths) == UNION {[1..n -> S] : n \in lengths}
MCTexts == Of(Characters, 0..3) \cup Of(OfNumbers, 4..6) \cup Of(OfLines, 4..5)
=============================================================================
