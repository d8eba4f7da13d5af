------------------------------ MODULE MCElement ------------------------------
(***************************************************************************)
(* Small instances of ElementExport: families of trees.  Input 0 of a      *)
(* function is a Num, input 1 a Bool.                                      *)
(***************************************************************************)
EXTENDS ElementExport, MCNumbers

MCKnownLogs == (2 :> "LOG2" @@ 3 :> "LOG10")
MCArguments == <<{0, 2, neg}, {0, 1}>>
MCStale == {nan}

x == Input(0, 0)
p == Input(0, 1)
c(v) == Const(v)
Function(source) == [source |-> source, inputs |-> 2, raw |-> FALSE]
Tree1(tree) == [source |-> tree, inputs |-> 2, raw |-> TRUE]

Lt(a, b) == Binary("lt", a, b)
Abs == Unary("abs", x)
Plus1 == Binary("add", x, c(1))

Nums == {x, c(1), c(0), Nullary("nan")}
Scalars ==
  {Unary("not", p), Unary("not", Lt(x, c(1))), Unary("abs", c(neg)), Unary("Num", p), Unary("Bool", x)}
   \cup {Binary(op, a, b) : op \in {"add", "sub", "mul", "lt", "pow"}, a \in Nums, b \in {x, c(0), c(2), c(3)}}
   \cup {Binary(op, p, Lt(x, c(2))) : op \in {"and", "or"}}
   \cup {Binary(op, Binary("add", Abs, c(1)), b) : op \in {"sub", "rem"}, b \in {c(1), Binary("add", Abs, c(1))}}
   \cup {Binary("log", x, b) : b \in {c(2), c(3), Plus1}}
Conditionals ==
  {If(q, a, b) : q \in {p, Lt(x, c(2))}, a \in {x, c(2), Plus1}, b \in {c(3), Abs}}
   \cup {If(Lt(c(1), c(2)), x, Abs)}
   \cup {Select(Abs, os) : os \in {<<c(1), c(2), c(3)>>, <<c(3), c(1)>>}}
   \cup {Select(s, <<x, c(2), Abs>>) : s \in {x, c(neg), c(1), c(3)}}

y == Input(1, 0)
z == Input(1, 1)
Count(i, n, b) == For(1, i, Lt(y, n), b)
Pair(i) == For(1, Struct(<<i, c(0)>>), Lt(y, c(2)),
             Struct(<<Binary("add", y, c(1)), Binary("add", z, y)>>))
Loops ==
  {Count(i, c(n), Binary("add", y, c(1))) : i \in {x, c(0)}, n \in {2, 3}}
   \cup {Count(x, c(3), Binary("add", y, If(p, c(1), c(2)))), Count(c(0), Abs, Binary("add", y, c(1))),
         Pair(x), Indexer(Pair(c(1)), 1), Binary("add", Indexer(Pair(x), 0), p)}
Pairs == If(p, Struct(<<x, c(1)>>), Struct(<<c(2), Plus1>>))
Structs ==
  {Struct(<<a, b>>) : a, b \in {x, c(1), p, Plus1}}
   \cup {Pairs, Indexer(Pairs, 0), Indexer(Pairs, 1)}

\* What a tree may leave uncomputed, but for inputs and constants
Parts(t) == CASE t.k = "if" -> {t.deps[2], t.deps[3]} [] t.k = "select" -> Range(Options(t))
              [] t.k = "for" -> Range(t.deps) [] OTHER -> {}
Hidden(t) == {u \in UNION {Subterms(e) : e \in UNION {Parts(u) : u \in Subterms(t)}} : u.deps # <<>>}
Mixed == {Binary("add", a, b) : a \in Conditionals, b \in {x, Abs, Plus1}}
Tame == {t \in Mixed : Hidden(t.deps[1]) \cap Subterms(t.deps[2]) = {}}
Shared == {Binary("add", Abs, If(p, Binary("add", Abs, c(1)), c(2))),
           If(p, Binary("add", Abs, c(1)), Binary("mul", Abs, c(2)))}

\* Trees that the front end does not make: an If is of True and False there
Raw == {If(p, a, b) : a \in {c(2), Abs}, b \in {c(1), Plus1}} \cup {If(Lt(x, c(2)), If(p, x, Abs), c(1))}

Trees == Scalars \cup Conditionals \cup Loops \cup Structs \cup Tame \cup Shared \cup {x, c(1), Nullary("nan")}
MCExports ==
  {<<Function(t)>> : t \in Trees} \cup {<<Tree1(t)>> : t \in Raw}
   \cup {<<Function(Lt(x, a)), Function(b)>> : a \in {c(0), c(2)}, b \in {Plus1, If(p, c(1), c(2)), Lt(x, c(1))}}
   \cup {<<Function(Plus1), Function(Binary("mul", x, c(3)))>>}

\* A subexpression used in a branch and outside it
MCShared == {<<Function(Binary("add", If(p, Binary("add", Abs, c(1)), c(2)), Abs))>>}
\* The second function needs constants of its own
MCConstants == {<<Function(Plus1), Function(Lt(x, c(2)))>>}
=============================================================================
