------------------------------ MODULE MCSyntax ------------------------------
(* Texts for the parser: every short one, and those that go on after the     *)
(* beginning of a declaration or an expression of each kind                  *)
EXTENDS ElementParser

MCNames == {"x", "Num", "add", "Any"}
MCAlphabet ==
  {"x", "Num", "return", "struct", "namespace", "constraint", "intrinsic", "1", "_", ".", "(", ")", ",",
   ":", "{", "}", "="}
MCIntrinsics == [n \in {"Num", "add", "Any"} |->
  CASE n = "Num" -> "STRUCT" [] n = "add" -> "FUNCTION" [] n = "Any" -> "CONSTRAINT"]

After(start, n) == [start |-> start, free |-> n]
MCBeginnings ==
  {After(<<>>, 5),
   \* what a function is, and what a lambda and a block in it
   After(<<"x", "=">>, 5),
   After(<<"x", "=", "x", "(">>, 4),
   After(<<"x", "=", "x", "(", "_", "(", "x", ")", "{">>, 3),
   After(<<"x", "=", "_", "(", "x", ")">>, 4),
   After(<<"x", "=", "_", "(", "x", ")", "{", "return">>, 4),
   After(<<"x", "=", "{", "x", "=">>, 5),
   After(<<"x", "=", "{", "x", "=", "1", ",">>, 4),
   After(<<"x", "{", "return", "=">>, 4),
   After(<<"x", "{", "x", "{", "return", "=", "1", "}">>, 4),
   After(<<"x", "{", "struct", "x", "(", "x", ")">>, 4),
   After(<<"x", "(", "x", ")", "{", "return", "=", "1">>, 4),
   \* ports
   After(<<"x", "(">>, 5),
   After(<<"x", "(", "_", ",">>, 5),
   After(<<"x", "(", "x", "=", "1", ",">>, 5),
   After(<<"x", "(", "x", ":", "x">>, 5),
   \* intrinsics
   After(<<"intrinsic", "function">>, 4),
   After(<<"intrinsic", "add", "(", "x", ")">>, 4),
   After(<<"intrinsic", "struct", "Num">>, 5),
   After(<<"intrinsic", "constraint", "Any">>, 4),
   \* what else is declared
   After(<<"struct", "x", "(", "x", ")", "{">>, 4),
   After(<<"struct", "x", "(", "x", ")", "{", "namespace", "x">>, 3),
   After(<<"struct", "x", "(", "_">>, 4),
   After(<<"constraint", "x", "(", "x", ")">>, 4),
   After(<<"namespace", "x", "{", "x", "=", "1">>, 5)}

\* One text in which the parser takes every liberty it has
Liberties ==
  <<"namespace", "x", "x", "=", "{", "x", "=", "1", ",", "}", "intrinsic", "add", "=", "1",
    "intrinsic", "constraint", "Any", "(", "x", ")", "}">>
LibertiesOnly == {After(Liberties, 0)}
ASSUME LibertiesAllNeeded ==
  \A taken \in SUBSET Looser : IsProgram(Rules(taken), Append(Liberties, "eof")) <=> taken = Looser
=============================================================================
