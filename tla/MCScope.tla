------------------------------- MODULE MCScope -------------------------------
(***************************************************************************)
(* Small instances of ElementInterpreter: a Prelude of two files, a        *)
(* package and single files that declare, clash, fail to build, or use a   *)
(* type that comes later, and the expressions over them.                   *)
(***************************************************************************)
EXTENDS ElementInterpreter

Input(name, type) == [name |-> name, type |-> type, default |-> FALSE]
Optional(name) == [name |-> name, type |-> <<>>, default |-> TRUE]
Decl(name, kind, params, out, body, inner, uses) ==
  [name |-> name, kind |-> kind, params |-> params, out |-> out, body |-> body, inner |-> inner, uses |-> uses]
IntrinsicStruct(n) == Decl(n, "struct", <<>>, <<>>, "intrinsic", <<>>, <<>>)
Struct(n, params, inner) == Decl(n, "struct", params, <<>>, "none", inner, <<>>)
Namespace(n, inner) == Decl(n, "namespace", <<>>, <<>>, "none", inner, <<>>)
Expr(n, params, out, uses) == Decl(n, "function", params, out, "expression", <<>>, uses)
Scoped(n, params, out, inner) == Decl(n, "function", params, out, "scope", inner, <<>>)

Num == <<"Num">>
Id == Expr("id", <<Input("a", Num)>>, Num, <<<<"a">>>>)
\* N.f uses a declaration of its own and one of the Prelude; S has a function on itself
N == Namespace("N", <<Scoped("f", <<Input("a", Num)>>, Num,
       <<Expr("b", <<>>, <<>>, <<<<"id">>, <<"a">>>>), Expr("return", <<>>, <<>>, <<<<"b">>>>)>>)>>)
S == Struct("S", <<Input("x", Num)>>, <<Expr("g", <<Input("s", <<"S">>)>>, Num, <<<<"s">>, <<"N", "f">>>>)>>)
NoReturn == Scoped("c", <<Input("a", Num)>>, <<>>, <<Expr("b", <<>>, <<>>, <<>>)>>)
Clash == Expr("c", <<Input("a", Num), Optional("a")>>, <<>>, <<>>)
Early == Expr("a", <<Input("x", <<"T">>), Input("y", Num)>>, <<>>, <<<<"x">>, <<"y">>>>)
Wrong == Expr("b", <<Input("x", <<"N">>), Input("y", Num)>>, <<>>, <<<<"x">>>>)

File(decls) == [found |-> TRUE, ele |-> TRUE, parses |-> TRUE, decls |-> decls]
MCFiles ==
  ("num"   :> File(<<IntrinsicStruct("Num")>>)) @@
  ("id"    :> File(<<Id>>)) @@
  ("n"     :> File(<<N>>)) @@
  ("s"     :> File(<<S>>)) @@
  ("twice" :> File(<<Expr("a", <<>>, <<>>, <<>>), Expr("id", <<>>, <<>>, <<>>)>>)) @@
  ("bad"   :> File(<<Expr("a", <<>>, <<>>, <<>>), NoReturn>>)) @@
  ("early" :> File(<<Early, Wrong>>)) @@
  ("type"  :> File(<<Struct("T", <<Input("x", Num)>>, <<>>)>>)) @@
  ("open"  :> [File(<<>>) EXCEPT !.parses = FALSE]) @@
  ("gone"  :> [File(<<>>) EXCEPT !.found = FALSE])
MCStrings == {"n", "type"}
MCPackages ==
  ("Prelude" :> [exists |-> TRUE, files |-> {"num", "id"}]) @@
  ("P" :> [exists |-> TRUE, files |-> {"n", "s"}]) @@
  ("Q" :> [exists |-> FALSE, files |-> {}])
MCPackageLists == {<<"Q", "Prelude", "P">>}
MCFileLists == {<<"gone", "num", "early">>, <<"open", "twice">>, <<"bad">>}
MCPaths == {<<"S", "g">>, <<"a">>}
MCIntrinsics == ("Num" :> "struct") @@ ("@list_indexer" :> "function")
MCListFold == Scoped("list_fold", <<Input("myList", <<"List">>)>>, <<"Any">>, <<Expr("return", <<>>, <<>>, <<>>)>>)
Expression(uses, function) == [parses |-> TRUE, uses |-> uses, function |-> function]
MCExpressions ==
  {[Expression(<<>>, "none") EXCEPT !.parses = FALSE], Expression(<<<<"N", "id">>>>, "none"),
   Expression(<<<<"id">>>>, "bounded"), Expression(<<<<"S">>>>, "unbounded")}
MCNames ==
  <<"<REMOVE>", "@list_fold", "@list_indexer", "Any", "Foo", "List", "N", "Num", "S", "T", "a", "b", "c", "f", "g", "id", "list_fold",
    "myList", "return", "s", "x", "y">>
Inside(decls) == UNION {Range(d.inner) : d \in decls}
MCDeclarations ==
  LET outer == UNION {Range(MCFiles[f].decls) : f \in DOMAIN MCFiles} \cup {MCListFold}
  IN  outer \cup Inside(outer) \cup Inside(Inside(outer))
MCAddr == 1..24
=============================================================================
