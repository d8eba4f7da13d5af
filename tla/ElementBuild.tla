----------------------------- MODULE ElementBuild -----------------------------
(***************************************************************************)
(* How the front end makes instruction trees: the intrinsics fold what is  *)
(* constant, simplify binary operations, run loops over constants at       *)
(* compile time and choose among constants at once.                        *)
(*                                                                         *)
(* A source expression is itself a term: Unary("Num", b) and               *)
(* Unary("Bool", n) convert, If is the intrinsic if, Select indexes a      *)
(* list, Input(s, i) is parameter i of the s-th enclosing function.        *)
(***************************************************************************)
EXTENDS ElementTree

IsConst(t, v) == t.k = "constant" /\ t.n = v
NumericOps == DOMAIN NumOpcode \cup {"log"}

\* optimise_binary; t itself when there is nothing to gain
OptimiseBinary(t) ==
  LET a == t.deps[1]  b == t.deps[2]  same == a = b
      reciprocal == Const(ALU["DIVSS"][<<One, b.n>>])
  IN
  CASE t.op \in NumericOps /\ IsConst(a, NaN)  -> a
    [] t.op \in NumericOps /\ ~IsConst(a, NaN) /\ IsConst(b, NaN) -> b
    [] NaN \in {a.n, b.n} -> t
    [] t.op = "add" /\ IsConst(a, Zero)        -> b
    [] t.op \in {"add", "sub"} /\ IsConst(b, Zero) -> a
    [] t.op \in {"sub", "rem"} /\ same         -> Const(Zero)
    [] t.op = "mul" /\ (IsConst(a, One) \/ IsConst(b, Zero)) -> b
    [] t.op = "mul" /\ (IsConst(b, One) \/ IsConst(a, Zero)) -> a
    [] t.op = "div" /\ IsConst(b, One)         -> a
    [] t.op = "div" /\ IsConst(b, Zero)        -> Const(PositiveInfinity)
    [] t.op = "div" /\ same                    -> Const(One)
    [] t.op = "div" /\ b.k = "constant" /\ b.n \notin {Zero, One} -> Binary("mul", a, reciprocal)
    [] t.op = "rem" /\ IsConst(a, Zero)        -> a
    [] t.op = "pow" /\ IsConst(b, Zero)        -> Const(One)
    [] t.op = "pow" /\ IsConst(b, One)         -> a
    [] t.op = "pow" /\ b.k = "constant" /\ ALU["SUBSS"][<<b.n, One>>] = One -> Binary("mul", a, a)
    [] OTHER -> t

\* element::evaluate: a tree that reads no input is its value
Folded(t) ==
  LET v == DoEvaluate(t, <<<<>>>>, NoCache).v
  IN  IF v # <<>> THEN Const(v[1]) ELSE IF t.k = "binary" THEN OptimiseBinary(t) ELSE t

ToBoolTree(t) == Folded(If(t, Nullary("true"), Nullary("false")))

\* list_wrapper::create_or_optimise (a list of structs stays a wrapper until
\* it is serialised, into the same Select)
CreateOrOptimise(sel, os) ==
  IF sel.k = "constant" THEN os[1 + SelectIndex(sel.n, Len(os))]
  ELSE IF Len(os) = 1 /\ os[1].k # "struct" THEN os[1]
  ELSE Select(sel, os)

\* A field of a struct, and of each struct of a list
RECURSIVE Field(_, _)
Field(t, i) ==
  IF t.k = "select" THEN CreateOrOptimise(t.deps[1], [j \in DOMAIN Options(t) |-> Field(Options(t)[j], i)])
  ELSE t.deps[i + 1]

Fields(t) == IF t.k = "struct" THEN t.deps ELSE <<t>>
Placeholders(t, depth) == [i \in 1 .. SizeOf(t) |-> Input(depth, i - 1)]

\* env gives the arguments of each enclosing function, depth the number of
\* boundaries.  A loop over constants that cannot be run is <<>>.
RECURSIVE Build(_, _, _), CompileTimeFor(_, _, _, _, _)
RuntimeFor(t, env, depth, first) ==
  LET inside == Append(SubSeq(env, 1, t.scope), Placeholders(first, depth))
      loop == For(depth, first, Build(t.deps[2], inside, depth + 1), Build(t.deps[3], inside, depth + 1))
  IN  IF first.k # "struct" THEN loop
      ELSE Struct([i \in 1 .. SizeOf(first) |-> Indexer(loop, i - 1)])

CompileTimeFor(t, env, depth, state, fuel) ==
  LET inside == Append(SubSeq(env, 1, t.scope), Fields(state))
      again  == Build(t.deps[2], inside, depth)
      next   == Build(t.deps[3], inside, depth)
  IN  IF fuel = 0 \/ ~IsConstant(state) \/ ~IsConstant(again) THEN <<>>
      ELSE IF ToBool(Folded(again).n) THEN CompileTimeFor(t, env, depth, next, fuel - 1)
      ELSE <<state>>

Build(t, env, depth) ==
  LET b(i) == Build(t.deps[i], env, depth)
      all == [i \in DOMAIN t.deps |-> b(i)]
  IN
  CASE t.k \in {"constant", "nullary"} -> t
    [] t.k = "input" -> env[t.scope + 1][t.index + 1]
    [] t.k = "unary" /\ t.op = "Num"  -> Folded(If(b(1), Const(One), Const(Zero)))
    [] t.k = "unary" /\ t.op = "Bool" -> ToBoolTree(b(1))
    [] t.k = "unary" /\ t.op \notin {"Num", "Bool"} -> Folded(Unary(t.op, b(1)))
    [] t.k = "binary"  -> Folded(Binary(t.op, b(1), b(2)))
    [] t.k = "if"      -> CreateOrOptimise(ToBoolTree(b(1)), <<b(3), b(2)>>)
    [] t.k = "select"  -> CreateOrOptimise(b(1), Tail(all))
    [] t.k = "struct"  -> Struct(all)
    [] t.k = "indexer" -> Field(b(1), t.index)
    [] t.k = "for"     ->
         LET now == IF IsConstant(b(1)) THEN CompileTimeFor(t, env, depth, b(1), MaxIterations) ELSE <<>>
         IN  IF now # <<>> THEN now[1] ELSE RuntimeFor(t, env, depth, b(1))
=============================================================================
