------------------------------- MODULE MCCalls -------------------------------
(***************************************************************************)
(* Small instances of ElementCalls: programs over a small prelude that     *)
(* nest functions, pass and return them, apply them partially, recurse,    *)
(* choose among values and loop.                                           *)
(***************************************************************************)
EXTENDS ElementLexical, MCNumbers

Lit(n)     == <<[e |-> "literal", n |-> n]>>
Nm(n)      == <<[e |-> "name", name |-> n]>>
Dot(c, n)  == Append(c, [e |-> "index", name |-> n])
On(c, as)  == Append(c, [e |-> "call", args |-> as])
Lambda(d)  == <<[e |-> "lambda", of |-> d]>>
Anon(d)    == <<[e |-> "block", of |-> d]>>
F(n, as)   == On(Nm(n), as)
Do(c, n, as) == On(Dot(c, n), as)
If3(c, t, f) == On(Dot(Nm("Bool"), "if"), <<c, t, f>>)

Decl(kind, parent, name, ins, out, body) ==
  [kind |-> kind, parent |-> parent, name |-> name, ins |-> ins, out |-> out, body |-> body]
Fn(parent, name, ins, out, body) == Decl("function", parent, name, ins, out, body)
Intrinsic(parent, name, ins, out) == Decl("intrinsic", parent, name, ins, out, <<>>)
Type(name, ins) == Decl("struct", Global, name, ins, "", <<>>)
Constraint(name, ins, out) == Decl("constraint", Global, name, ins, out, <<>>)
P(n) == Port(n, "")
Optional(n, c) == [name |-> n, type |-> "", default |-> c]
TwoNums == <<Port("a", "Num"), Port("b", "Num")>>

MCNames ==
  <<"Any", "Binary", "Bool", "Foo", "Indexer", "List", "Num", "Pair", "Predicate", "Unary", "a", "accumulate",
    "accumulated_value", "add", "at", "b", "count", "end_of_list", "f", "fold", "for", "g", "get", "h", "i", "idx", "if", "list", "lt",
    "m", "main", "n", "p", "plus", "q", "r", "return", "s", "t", "u", "v", "w", "x", "y">>

Prelude ==
  ("Num" :> Type("Num", <<>>)) @@ ("Bool" :> Type("Bool", <<>>)) @@
  ("List" :> Type("List", <<Port("at", "Indexer"), Port("count", "Num")>>)) @@
  ("Any" :> Constraint("Any", <<>>, "")) @@
  ("Indexer" :> Constraint("Indexer", <<Port("i", "Num")>>, "")) @@
  ("Unary" :> Constraint("Unary", <<P("a")>>, "")) @@
  ("Binary" :> Constraint("Binary", <<P("a"), P("b")>>, "")) @@
  ("Predicate" :> Constraint("Predicate", <<P("a")>>, "Bool")) @@
  ("add" :> Intrinsic("Num", "add", TwoNums, "Num")) @@
  ("lt" :> Intrinsic("Num", "lt", TwoNums, "Bool")) @@
  ("if" :> Intrinsic("Bool", "if", <<Port("condition", "Bool"), P("ifTrue"), P("ifFalse")>>, "")) @@
  ("list" :> Intrinsic(Global, "list", <<>>, "List")) @@
  ("for" :> Intrinsic(Global, "for", <<P("initial"), Port("condition", "Predicate"), Port("body", "Unary")>>, "")) @@
  ("fold" :> Intrinsic("List", "fold", <<Port("list", "List"), P("initial"), Port("accumulator", "Binary")>>, "")) @@
  ("@list_indexer" :> Intrinsic("compiler", "@list_indexer", <<Port("i", "Num")>>, "")) @@
  ("compiler" :> Decl("scope", Global, "compiler", <<>>, "", <<>>)) @@
  ("@list_fold" :> Fn("compiler", "@list_fold", <<Port("myList", "List"), Port("initial_value", "Any"), Port("someFunc", "Binary")>>, "Any", <<>>)) @@
  ("@end" :> Fn("@list_fold", "end_of_list", <<Port("tuple", "Any")>>, "Bool",
     Do(Dot(Nm("tuple"), "idx"), "lt", <<Dot(Nm("myList"), "count")>>))) @@
  ("@next" :> Fn("@list_fold", "accumulate", <<Port("tuple", "Any")>>, "Any", Anon("@pair"))) @@
  ("@pair" :> Decl("scope", "@next", "", <<>>, "", <<>>)) @@
  ("@idx" :> Fn("@pair", "idx", <<>>, "", Do(Dot(Nm("tuple"), "idx"), "add", <<Lit(1)>>))) @@
  ("@acc" :> Fn("@pair", "accumulated_value", <<>>, "",
     F("someFunc", <<Dot(Nm("tuple"), "accumulated_value"), Do(Nm("myList"), "at", <<Dot(Nm("tuple"), "idx")>>)>>))) @@
  ("@ret" :> Fn("@list_fold", "return", <<>>, "Any",
     Dot(F("for", <<Anon("@first"), Nm("end_of_list"), Nm("accumulate")>>), "accumulated_value"))) @@
  ("@first" :> Decl("scope", "@ret", "", <<>>, "", <<>>)) @@
  ("@idx0" :> Fn("@first", "idx", <<>>, "", Lit(0))) @@
  ("@acc0" :> Fn("@first", "accumulated_value", <<>>, "", Nm("initial_value")))

A == Nm("a")
N == Nm("n")
M == Nm("m")
G == Nm("g")
Num1(n) == <<Port(n, "Num")>>
Plus(c, d) == Do(c, "add", <<d>>)
Main(c) == "main" :> Fn(Global, "main", Num1("a"), "Num", c)
With(ds, c) == ds @@ Main(c) @@ Prelude

-----------------------------------------------------------------------------
(* f(n) has g(m) = inner inside and returns ret; h applies a function      *)
(* under another n.                                                        *)
Nested(inner, ret) ==
  ("f" :> Fn(Global, "f", <<P("n")>>, "", <<>>)) @@
  ("g" :> Fn("f", "g", <<P("m")>>, "", inner)) @@
  ("fr" :> Fn("f", "return", <<>>, "", ret)) @@
  ("r" :> Fn(Global, "r", <<P("u"), P("n")>>, "", F("u", <<N>>))) @@
  ("h" :> Fn(Global, "h", <<P("u")>>, "", On(F("f", <<Lit(0)>>), <<Nm("u")>>)))
Inners == {Plus(M, N), M, N, F("f", <<M>>), F("m", <<N>>), F("g", <<N>>), F("r", <<Nm("m"), Lit(2)>>)}
Returns == {G, F("g", <<N>>), Lambda("fl"), Do(F("list", <<G, N>>), "at", <<Lit(0)>>)}
FL == "fl" :> Fn("f", "", <<P("x")>>, "", Plus(Nm("x"), F("g", <<N>>)))
Uses ==
  {On(F("f", <<Lit(1)>>), <<A>>), On(F("f", <<F("f", <<A>>)>>), <<Lit(1)>>), F("r", <<F("f", <<A>>), Lit(2)>>),
   On(F("f", <<A>>), <<F("f", <<Lit(2)>>)>>), F("h", <<A>>), F("f", <<A>>), F("r", <<Nm("f"), A>>)}
Closures == {With(Nested(i, ret) @@ FL, u) : i \in Inners, ret \in Returns, u \in Uses}

\* Structs with functions on themselves, Pair of two fields
Structs ==
  ("Pair" :> Type("Pair", <<Port("x", "Num"), Port("y", "Num")>>)) @@
  ("get" :> Fn("Pair", "get", <<Port("s", "Pair")>>, "Num", Plus(Dot(Nm("s"), "x"), Dot(Nm("s"), "y")))) @@
  ("plus" :> Fn("Pair", "plus", <<Port("s", "Pair"), Port("n", "Num")>>, "Pair",
              F("Pair", <<Plus(Dot(Nm("s"), "x"), N), Dot(Nm("s"), "y")>>))) @@
  ("s" :> Fn("Pair", "t", <<P("s")>>, "", Lit(1))) @@
  ("u" :> Fn("Pair", "u", <<>>, "", Lit(1))) @@
  ("f" :> Fn(Global, "f", <<Port("f", "Unary"), Port("n", "Num")>>, "", F("f", <<N>>)))
PairOf(c, d) == F("Pair", <<c, d>>)
Less == Do(A, "lt", <<Lit(1)>>)
Picked == If3(Less, PairOf(A, Lit(1)), PairOf(Lit(2), A))
StructUses ==
  {Dot(Do(PairOf(A, Lit(1)), "plus", <<Lit(1)>>), "get"), Dot(Picked, "get"), Dot(Do(Picked, "plus", <<A>>), "get"),
   Dot(F("f", <<Dot(PairOf(Lit(1), A), "plus"), A>>), "x"), F("f", <<Dot(A, "add"), Lit(1)>>),
   F("f", <<Dot(Nm("Num"), "add"), Lit(1)>>), F("f", <<Dot(Nm("Pair"), "get"), PairOf(A, A)>>),
   F("f", <<Dot(Nm("Pair"), "get"), A>>), PairOf(A, Less), F("f", <<A, A>>), F("f", <<A>>), F("Num", <<Less>>), Plus(F("Num", <<A>>), F("Num", <<F("Bool", <<A>>)>>)),
   Dot(PairOf(A, A), "t"), Dot(PairOf(A, A), "u"), Dot(PairOf(A, A), "v"), Dot(Nm("Pair"), "v"), F("Pair", <<A>>), Dot(G, "x"),
   On(A, <<A>>), Dot(Nm("Num"), "x"), Dot(Dot(A, "add"), "x"), F("Num", <<Nm("f")>>), Dot(F("Bool", <<A>>), "lt"), F("Unary", <<A>>)}
StructPrograms == {With(Structs, u) : u \in StructUses}

-----------------------------------------------------------------------------
(* Recursion, through a name, a block, or a function handed to itself; a   *)
(* closure handed down a recursion; missing and default arguments.         *)
Again1 ==
  ("f" :> Fn(Global, "f", <<P("n"), P("u")>>, "", On(If3(Do(N, "lt", <<Lit(2)>>), Nm("h"), Nm("u")), <<Nm("n")>>))) @@
  ("h" :> Fn("f", "h", <<P("m")>>, "", F("f", <<Plus(N, Lit(1)), G>>))) @@
  ("g" :> Fn("f", "g", <<P("m")>>, "", Plus(N, M))) @@
  ("r" :> Fn(Global, "r", <<P("n")>>, "", F("r", <<N>>))) @@
  ("s" :> Fn(Global, "s", <<P("n")>>, "", F("t", <<N>>))) @@
  ("t" :> Fn(Global, "t", <<P("n")>>, "", F("s", <<N>>))) @@
  ("u" :> Fn(Global, "u", <<>>, "", Anon("b"))) @@
  ("b" :> Decl("scope", "u", "", <<>>, "", <<>>)) @@
  ("x" :> Fn("b", "x", <<>>, "", Lit(1))) @@ ("y" :> Fn("b", "y", <<>>, "", Plus(Nm("x"), Nm("x")))) @@
  ("m" :> Fn(Global, "m", <<>>, "", Anon("c"))) @@ ("c" :> Decl("scope", "m", "", <<>>, "", <<>>)) @@
  ("cx" :> Fn("c", "x", <<>>, "", Nm("y"))) @@ ("cy" :> Fn("c", "y", <<>>, "", Nm("x"))) @@
  ("i" :> Fn(Global, "i", <<P("n"), Optional("m", Lit(1)), Optional("x", Nm("u"))>>, "", Plus(N, M)))
AgainUses ==
  {F("f", <<Lit(0), Nm("r")>>), F("f", <<Lit(2), Nm("r")>>), F("f", <<A, Nm("r")>>), F("r", <<A>>), F("s", <<A>>), Dot(Nm("u"), "y"), Dot(Nm("u"), "v"),
   Dot(Nm("m"), "x"), F("i", <<A>>), F("i", <<A, Lit(2)>>), F("i", <<A, A, A, A>>), F("i", <<>>),
   F("f", <<A>>), If3(Less, Nm("u"), Nm("u")), Dot(If3(Less, Nm("u"), Nm("u")), "y"), Dot(If3(Less, Nm("u"), Nm("u")), "v")}
AgainPrograms == {With(Again1, u) : u \in AgainUses}

-----------------------------------------------------------------------------
(* Loops and folds, over constants and at run time.                        *)
Repeat(p, b, c) == F("for", <<c, Nm(p), Nm(b)>>)
Loops ==
  ("Pair" :> Structs["Pair"]) @@
  ("f" :> Fn(Global, "f", <<Port("n", "Num")>>, "Bool", Do(N, "lt", <<Lit(3)>>))) @@
  ("g" :> Fn(Global, "g", <<Port("n", "Num")>>, "Num", Plus(N, Lit(1)))) @@
  ("h" :> Fn(Global, "h", <<P("n")>>, "", Plus(N, Lit(2)))) @@
  ("m" :> Fn(Global, "m", <<P("n")>>, "Bool", F("Bool", <<Lit(1)>>))) @@
  ("i" :> Fn(Global, "i", <<P("n")>>, "", N)) @@
  ("s" :> Fn(Global, "s", <<Port("s", "Pair")>>, "Bool", Do(Dot(Nm("s"), "x"), "lt", <<Lit(2)>>))) @@
  ("t" :> Fn(Global, "t", <<Port("s", "Pair")>>, "Pair",
            F("Pair", <<Plus(Dot(Nm("s"), "x"), Lit(1)), Plus(Dot(Nm("s"), "y"), Dot(Nm("s"), "x"))>>))) @@
  ("u" :> Fn(Global, "u", TwoNums, "Num", Plus(Nm("a"), Nm("b")))) @@
  ("v" :> Fn(Global, "v", <<P("a"), P("b")>>, "", Nm("b"))) @@
  ("x" :> Fn(Global, "x", <<P("n")>>, "Bool", If3(F("f", <<N>>), F("f", <<N>>), Do(F("for", <<N, Nm("f"), Nm("g")>>), "lt", <<N>>)))) @@
  ("r" :> Fn(Global, "r", Num1("n"), "Num", F("for", <<N, Nm("f"), Nm("g")>>))) @@
  ("w" :> Fn(Global, "w", Num1("n"), "Num", Plus(Repeat("p", "g", Lit(0)), Repeat("f", "q", Lit(1))))) @@
  ("p" :> Fn("w", "p", Num1("m"), "Bool", Do(M, "lt", <<N>>))) @@
  ("q" :> Fn("w", "q", Num1("m"), "Num", Plus(Plus(M, N), Lit(1))))
Three(c) == F("list", <<Lit(1), c, Lit(2)>>)
LoopUses ==
  {Repeat("f", b, c) : b \in {"g", "h", "i", "v", "r"}, c \in {Lit(1), A}}
   \cup {F("w", <<A>>), Repeat("m", "i", A), Repeat("m", "g", Lit(0)), Repeat("m", "i", Lit(0)),
         Repeat("x", "g", Lit(2)), F("for", <<A, Lit(1), Lit(2)>>), F("for", <<Nm("u"), Nm("f"), Nm("g")>>),
         F("for", <<Picked, Nm("s"), Nm("g")>>), Dot(Repeat("s", "t", PairOf(Lit(0), Lit(1))), "y"), Dot(Repeat("s", "t", PairOf(A, Lit(1))), "y")}
   \cup {Do(Three(c), "fold", <<d, Nm(f)>>) : c \in {Lit(1), A}, d \in {Lit(0), A}, f \in {"u", "v", "g"}}
   \cup {Do(F("List", <<Nm("g"), n>>), "fold", <<Lit(0), Nm(f)>>) : n \in {A, Lit(0), Lit(2)}, f \in {"u", "v"}}
   \cup {Do(Three(A), "at", <<c>>) : c \in {A, Lit(1), Less}}
LoopPrograms == {With(Loops, u) : u \in LoopUses}

MCPrograms == Closures \cup StructPrograms \cup AgainPrograms \cup LoopPrograms
MCInputs == {0, 2}
=============================================================================
