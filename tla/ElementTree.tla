----------------------------- MODULE ElementTree -----------------------------
(***************************************************************************)
(* The instruction tree of libelement: what the front end compiles a       *)
(* function to, what the evaluator computes from it, and what it means.    *)
(*                                                                         *)
(* Every kind of instruction is made once per value by a compile-time      *)
(* cache, so that a pointer is identified with the term it points to: a    *)
(* record of the kind k, an operation op (of a constant, its type), a      *)
(* value n, an index, a scope (of an input; of a for, the scope of its     *)
(* inputs) and the dependents.  Numbers are the values of LmntArchive, and *)
(* the arithmetic of the evaluator is taken to be that of LMNT.            *)
(***************************************************************************)
EXTENDS LmntOps, SequencesExt

CONSTANTS
  One, MinusOne,   \* 1.0 and -1.0
  PositiveInfinity,
  KnownLogs,       \* the opcode of a logarithm to base 2, 10 and e, by base
  MaxIterations    \* more turns of a loop than any loop of an instance takes

Node(k, op, n, scope, index, deps) ==
  [k |-> k, op |-> op, n |-> n, scope |-> scope, index |-> index, deps |-> deps]

Const(v)         == Node("constant", "num", v, 0, 0, <<>>)
Input(s, i)      == Node("input", "", Zero, s, i, <<>>)
Struct(ds)       == Node("struct", "", Zero, 0, 0, ds)
Nullary(op)      == Node("nullary", op, Zero, 0, 0, <<>>)
Unary(op, a)     == Node("unary", op, Zero, 0, 0, <<a>>)
Binary(op, a, b) == Node("binary", op, Zero, 0, 0, <<a, b>>)
If(p, t, f)      == Node("if", "", Zero, 0, 0, <<p, t, f>>)
For(s, i, c, b)  == Node("for", "", Zero, s, 0, <<i, c, b>>)
Indexer(f, i)    == Node("indexer", "", Zero, 0, i, <<f>>)
Select(sel, os)  == Node("select", "", Zero, 0, 0, <<sel>> \o os)

Options(t) == Tail(t.deps)

RECURSIVE Subterms(_), SizeOf(_), IsConstant(_)
Subterms(t) == {t} \cup UNION {Subterms(t.deps[i]) : i \in DOMAIN t.deps}

SizeOf(t) ==
  CASE t.k = "struct" -> FoldLeft(LAMBDA n, d : n + SizeOf(d), 0, t.deps)
    [] t.k = "for"    -> SizeOf(t.deps[1])
    [] OTHER          -> 1

IsConstant(t) == t.k # "input" /\ \A i \in DOMAIN t.deps : IsConstant(t.deps[i])

ScalarConstants(ts) == \A i \in DOMAIN ts : IsConstant(ts[i]) /\ SizeOf(ts[i]) = 1

-----------------------------------------------------------------------------
(* The operations.                                                         *)

ToBool(v)   == "GT" \in Compare[<<v, Zero>>]
FromBool(b) == IF b THEN One ELSE Zero

Trunc(v) == IF v \in SignBit THEN 0 ELSE ToIndex[v]
FromNat(n) == CHOOSE v \in Value \ (SignBit \cup NonFinite) : ToIndex[v] = n

NullaryValue(op) ==
  CASE op = "nan" -> NaN [] op = "true" -> One [] op = "false" -> Zero

UnaryOpcode ==
  [abs |-> "ABSS", acos |-> "ACOS", asin |-> "ASIN", atan |-> "ATAN", ceil |-> "CEILS",
   cos |-> "COS", floor |-> "FLOORS", ln |-> "LN", sin |-> "SIN", tan |-> "TAN"]
NumOpcode ==
  [add |-> "ADDSS", atan2 |-> "ATAN2", div |-> "DIVSS", max |-> "MAXSS", min |-> "MINSS",
   mul |-> "MULSS", pow |-> "POWSS", rem |-> "REMSS", sub |-> "SUBSS"]
CompareOpcode ==
  [eq |-> "ASSIGNCEQ", neq |-> "ASSIGNCNE", lt |-> "ASSIGNCLT", leq |-> "ASSIGNCLE",
   gt |-> "ASSIGNCGT", geq |-> "ASSIGNCGE"]

\* Comparisons with a NaN are false, and unequal
Compares(op, bits) ==
  CASE op = "eq"  -> "EQ" \in bits
    [] op = "neq" -> "EQ" \notin bits
    [] op = "lt"  -> "LT" \in bits
    [] op = "leq" -> bits \cap {"LT", "EQ"} # {}
    [] op = "gt"  -> "GT" \in bits
    [] op = "geq" -> bits \cap {"GT", "EQ"} # {}

UnaryValue(op, a) ==
  IF op = "not" THEN FromBool("EQ" \in Compare[<<a, Zero>>])
  ELSE IF op \in {"Num", "Bool"} THEN FromBool(ToBool(a))   \* of source expressions only
  ELSE ALU[UnaryOpcode[op]][<<a, a>>]

BinaryValue(op, a, b) ==
  CASE op \in DOMAIN NumOpcode -> ALU[NumOpcode[op]][<<a, b>>]
    [] op = "log" -> IF b = Zero THEN NaN
                     ELSE ALU["DIVSS"][<<ALU["LOG10"][<<a, a>>], ALU["LOG10"][<<b, b>>]>>]
    [] op = "and" -> FromBool(ToBool(a) /\ ToBool(b))
    [] op = "or"  -> FromBool(ToBool(a) \/ ToBool(b))
    [] op \in DOMAIN CompareOpcode -> FromBool(Compares(op, Compare[<<a, b>>]))

\* The option a selector chooses among n, from 0
SelectIndex(v, n) == IF Trunc(v) < n THEN Trunc(v) ELSE n - 1

\* get_constant_value: the value in a sequence of one, or none
RECURSIVE ConstantValue(_)
ConstantValue(t) ==
  LET c(i) == ConstantValue(t.deps[i]) IN
  CASE t.k = "constant" -> <<t.n>>
    [] t.k = "nullary"  -> <<NullaryValue(t.op)>>
    [] t.k = "struct" /\ IsConstant(t) /\ SizeOf(t) = 1 -> c(1)
    [] t.k = "unary" /\ c(1) # <<>> -> <<UnaryValue(t.op, c(1)[1])>>
    [] t.k = "binary" /\ c(1) # <<>> /\ c(2) # <<>> ->
         <<BinaryValue(t.op, c(1)[1], c(2)[1])>>
    [] t.k = "if" /\ c(1) # <<>> -> IF ToBool(c(1)[1]) THEN c(2) ELSE c(3)
    [] t.k = "select" /\ c(1) # <<>> -> c(2 + SelectIndex(c(1)[1], Len(t.deps) - 1))
    [] OTHER -> <<>>

-----------------------------------------------------------------------------
(* What a tree means: env gives, for each scope, the values of its inputs. *)
(* A loop that does not end means nothing: <<>>.                           *)

RECURSIVE Meaning(_, _), Iterated(_, _, _, _)
Meaning(t, env) ==
  LET m(i) == Meaning(t.deps[i], env)
      all(n) == \A i \in 1 .. n : m(i) # <<>>
  IN
  CASE t.k \in {"constant", "nullary"} -> ConstantValue(t)
    [] t.k = "input"  -> <<env[t.scope + 1][t.index + 1]>>
    [] t.k = "struct" -> IF all(Len(t.deps)) THEN FlattenSeq([i \in DOMAIN t.deps |-> m(i)])
                         ELSE <<>>
    [] t.k = "unary"  -> IF all(1) THEN <<UnaryValue(t.op, m(1)[1])>> ELSE <<>>
    [] t.k = "binary" -> IF all(2) THEN <<BinaryValue(t.op, m(1)[1], m(2)[1])>> ELSE <<>>
    [] t.k = "if"     -> IF ~all(1) THEN <<>> ELSE IF ToBool(m(1)[1]) THEN m(2) ELSE m(3)
    [] t.k = "select" ->
         IF all(1) THEN m(2 + SelectIndex(m(1)[1], Len(t.deps) - 1)) ELSE <<>>
    [] t.k = "indexer" -> IF all(1) THEN <<m(1)[t.index + 1]>> ELSE <<>>
    [] t.k = "for"    -> Iterated(t, env, m(1), MaxIterations)

Iterated(t, env, state, fuel) ==
  LET inside == Append(SubSeq(env, 1, t.scope), state)
      again  == IF state = <<>> THEN <<>> ELSE Meaning(t.deps[2], inside)
  IN  IF fuel = 0 \/ again = <<>> THEN <<>>
      ELSE IF ToBool(again[1]) THEN Iterated(t, env, Meaning(t.deps[3], inside), fuel - 1)
      ELSE state

-----------------------------------------------------------------------------
(* The evaluator: bounds are the boundaries, one per loop entered, known   *)
(* the values the cache holds as present.  A loop, which sees changing     *)
(* boundaries, runs without a cache (off).  Every result carries its known *)
(* values on; an error or a loop without end is <<>>.                      *)

Known(on, vals) == [on |-> on, vals |-> vals]
NoCache == Known(FALSE, <<>>)
Result(v, known) == [v |-> v, known |-> known]

Cached(t, r) ==
  IF r.known.on /\ r.v # <<>> THEN [r EXCEPT !.known.vals = (t :> r.v[1]) @@ @] ELSE r

RECURSIVE DoEvaluate(_, _, _), EvaluateAll(_, _, _), Loop(_, _, _, _)
EvaluateAll(ts, bounds, known) ==
  FoldLeft(LAMBDA r, t : IF r.v = <<>> THEN r ELSE
             LET q == DoEvaluate(t, bounds, r.known)
             IN  Result(IF q.v = <<>> THEN <<>> ELSE Append(r.v, q.v), q.known),
           Result(<<<<>>>>, known), ts)

\* Mutant: the value of the condition is cached during a loop
LoopCached(t, bounds, state, fuel) ==
  LET inside == Append(bounds, state)
      again  == DoEvaluate(t.deps[2], inside, NoCache).v
  IN  IF state = <<>> \/ fuel = 0 THEN <<>>
      ELSE IF fuel < MaxIterations \/ ToBool(again[1])
           THEN Loop(t, bounds, DoEvaluate(t.deps[3], inside, NoCache).v, fuel - 1)
      ELSE state

\* element_evaluate_for
Loop(t, bounds, state, fuel) ==
  LET inside == Append(bounds, state)
      again  == DoEvaluate(t.deps[2], inside, NoCache).v
  IN  IF state = <<>> \/ fuel = 0 THEN <<>>
      ELSE IF again = <<>> THEN <<>>
      ELSE IF ToBool(again[1])
           THEN Loop(t, bounds, DoEvaluate(t.deps[3], inside, NoCache).v, fuel - 1)
      ELSE state

DoEvaluate(t, bounds, known) ==
  LET r == EvaluateAll(t.deps, bounds, known)   \* every dependent, in order
      a(i) == r.v[i + 1]
      first == DoEvaluate(t.deps[1], bounds, known)
  IN
  CASE t.k = "constant" -> Result(<<t.n>>, known)
    [] t.k = "struct" ->
         IF r.v = <<>> THEN r ELSE Result(FlattenSeq(Tail(r.v)), r.known)
    [] t.k = "for" ->
         \* the first value is evaluated once to no effect, and again inside
         LET zeros == [i \in 1 .. SizeOf(t.deps[1]) |-> Zero]
             start == DoEvaluate(t.deps[1], Append(bounds, zeros), NoCache).v
         IN  IF DoEvaluate(t.deps[1], bounds, NoCache).v = <<>> THEN Result(<<>>, known)
             ELSE Result(Loop(t, bounds, start, MaxIterations), known)
    [] t.k = "input" ->
         IF t.scope < Len(bounds) /\ t.index < Len(bounds[t.scope + 1])
         THEN Result(<<bounds[t.scope + 1][t.index + 1]>>, known) ELSE Result(<<>>, known)
    [] t.k = "select" ->
         IF first.v = <<>> THEN first
         ELSE DoEvaluate(t.deps[2 + SelectIndex(first.v[1], Len(t.deps) - 1)],
                         bounds, first.known)
    [] known.on /\ t \in DOMAIN known.vals -> Result(<<known.vals[t]>>, known)
    [] t.k = "nullary" -> Cached(t, Result(ConstantValue(t), known))
    [] t.k = "unary" ->
         IF r.v = <<>> THEN r ELSE Cached(t, Result(<<UnaryValue(t.op, a(1)[1])>>, r.known))
    [] t.k = "binary" ->
         IF r.v = <<>> THEN r
         ELSE Cached(t, Result(<<BinaryValue(t.op, a(1)[1], a(2)[1])>>, r.known))
    [] t.k = "if" ->   \* both branches are evaluated
         IF r.v = <<>> THEN r
         ELSE Cached(t, Result(IF ToBool(a(1)[1]) THEN a(2) ELSE a(3), r.known))
    [] t.k = "indexer" ->
         IF first.v = <<>> THEN first
         ELSE Cached(t, Result(<<first.v[t.index + 1]>>, first.known))

\* element_evaluate: the values of the cache are cleared first
Evaluate(t, inputs) == DoEvaluate(t, <<inputs>>, Known(TRUE, <<>>)).v
=============================================================================
