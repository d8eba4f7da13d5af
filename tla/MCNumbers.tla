------------------------------ MODULE MCNumbers ------------------------------
(***************************************************************************)
(* Numbers for the small instances of the libelement modules: -1 to 3 with *)
(* saturating arithmetic, and a NaN.                                       *)
(***************************************************************************)
EXTENDS LmntOps

CONSTANTS nan, neg

MCValue == {0, 1, 2, 3, neg, nan}
MCSizeMod == 64
MCToIndex == [v \in MCValue |-> IF v = nan THEN 0 ELSE IF v = neg THEN 62 ELSE v]
MCNonFinite == {nan}
MCSign == {neg}

Signed(v) == IF v = neg THEN -1 ELSE v
Clamp(n) == IF n < 0 THEN neg ELSE IF n > 3 THEN 3 ELSE n
Least(x, y) == IF x < y THEN x ELSE y

\* Logarithms are 0 of 1 and 1 above it, so that those to base 2 and 3 are one
Compute(op, x, y) ==
  CASE op = "ADDSS" -> Clamp(x + y)
    [] op = "SUBSS" -> Clamp(x - y)
    [] op = "MULSS" -> Clamp(x * y)
    [] op = "MINSS" -> Clamp(Least(x, y))
    [] op = "MAXSS" -> Clamp(x + y - Least(x, y))
    [] op = "ABSS"  -> Clamp(IF x < 0 THEN -x ELSE x)
    [] op \in {"CEILS", "TRUNCS"} -> Clamp(x)
    [] op \in {"LOG2", "LOG10", "LN"} -> IF x < 1 THEN nan ELSE Clamp(Least(x - 1, 1))
    [] op = "DIVSS" -> IF y = 0 THEN nan ELSE IF y < 0 THEN Clamp(-x) ELSE Clamp(x \div y)
    [] op = "REMSS" -> IF y = 0 THEN nan ELSE IF x > 0 /\ y > 0 THEN x % y ELSE 0
    [] op = "POWSS" -> IF y < 1 THEN 1 ELSE Clamp(IF y = 1 THEN x ELSE x * x)
    [] OTHER -> Clamp(x + 1)
MCALU ==
  [op \in ArithOps \cup {"SUM", "SINE", "COSINE"} |->
    [p \in MCValue \X MCValue |->
      IF nan \in {p[1], p[2]} THEN nan ELSE Compute(op, Signed(p[1]), Signed(p[2]))]]
MCCompare ==
  [p \in MCValue \X MCValue |->
    IF nan \in {p[1], p[2]} THEN {"UN"}
    ELSE IF p[1] = p[2] THEN {"EQ"}
    ELSE IF Signed(p[1]) < Signed(p[2]) THEN {"LT"} ELSE {"GT"}]
=============================================================================
