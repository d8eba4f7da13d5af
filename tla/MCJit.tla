-------------------------------- MODULE MCJit --------------------------------
(***************************************************************************)
(* Small instances of LmntJit: short functions over alphabets in which     *)
(* every template meets every other, on a machine with three registers for *)
(* the cache.  Arithmetic is modulo 7, with coefficients that tell one     *)
(* operand, one order and one operation from another; 6 is -1 and, where   *)
(* it is converted to an index, 5 is 5.5.                                  *)
(***************************************************************************)
EXTENDS LmntJit

CONSTANTS nan

Numbers == 0 .. 6
MCValue == Numbers \cup {nan}
MCSizeMod == 128
\* value_to_size_t, cvttss2si and cvtss2si of -1, of 5.5 and of what is not a
\* number: the first wraps to two below 0
MCToIndex == [v \in MCValue |-> IF v = nan THEN 0 ELSE IF v = 6 THEN MCSizeMod - 2 ELSE v]
MCTruncated == [v \in MCValue |-> IF v = nan THEN -32 ELSE IF v = 6 THEN -1 ELSE v]
MCRounded ==
  [v \in MCValue |-> CASE v = nan -> -32 [] v = 6 -> -1 [] v = 5 -> 6 [] OTHER -> v]
MCNonFinite == {nan}
MCSign == {6}
MCFill == [c \in 0 .. 36 |-> (3 * c + 1) % 7]

Num(v) == IF v = 6 THEN -1 ELSE v
MCCompare ==
  [p \in MCValue \X MCValue |->
    IF nan \in {p[1], p[2]} THEN {"UN"}
    ELSE IF p[1] = p[2] THEN {"EQ"}
    ELSE IF Num(p[1]) < Num(p[2]) THEN {"LT"} ELSE {"GT"}]

\* A square root of -1, and a quotient by it, is no number.  Sums are rounded: the
\* sum of four lanes depends on their order
Coefficient == [op \in ArithOps |-> IF op \in {"SUBSS", "SUBVV", "REMSS", "REMVV"} THEN 4 ELSE 2]
Computed(op, p) ==
  IF nan \in {p[1], p[2]} \/ (op \in {"SQRTS", "SQRTV"} /\ p[1] = 6) THEN nan
  ELSE IF op = "SUM" THEN IF p = <<2, 2>> THEN 5 ELSE (p[1] + p[2]) % 7
  ELSE IF op = "COSINE" THEN (5 * p[1] + 2) % 7
  ELSE IF op \in ScalarUnaryOps \cup VectorUnaryOps \cup {"SINE"} THEN (3 * p[1] + 1) % 7
  ELSE (p[1] + Coefficient[op] * p[2] + 1) % 7
MCALU ==
  [op \in ArithOps \cup {"SUM", "SINE", "COSINE"} |->
    [p \in MCValue \X MCValue |->
      IF op \in MinOps THEN IF "LT" \in MCCompare[<<p[2], p[1]>>] THEN p[2] ELSE p[1]
      ELSE IF op \in MaxOps THEN IF "LT" \in MCCompare[p] THEN p[2] ELSE p[1]
      ELSE Computed(op, p)]]

I(op, a, b, c) == [op |-> op, arg1 |-> a, arg2 |-> b, arg3 |-> c]

\* A def with one argument (cell 2), four results (3 to 6) and four locals (7
\* to 10), an external function of one argument and one result, and another
\* that has not been registered
Extern(code0) ==
  [name |-> "g", flags |-> {"EXTERN"}, code |-> <<>>, checked |-> <<>>, code0 |-> code0, stack_count |-> 2,
   args_count |-> 1, rvals_count |-> 1, default_args_index |-> 0]
Function(code) ==
  [name |-> "f", flags |-> {}, code |-> code, checked |-> code, code0 |-> 0, stack_count |-> 9,
   args_count |-> 1, rvals_count |-> 4, default_args_index |-> 0]
MCExtTable == <<[name |-> "g", args_count |-> 1, rvals_count |-> 1]>>

\* Constants 1 and 2 in cells 0 and 1; one section of four values
Archive(f) ==
  [base |-> 20, consts |-> <<1, 2>>,
   defs |-> <<[f EXCEPT !.flags = IF BranchesBack(f) THEN {"HAS_BACKBRANCHES"} ELSE {}],
              Extern(0), Extern(1)>>, stray |-> Extern(0),
   sections |-> <<[offset |-> 12, count |-> 4]>>, words |-> <<0, 0, 0, 3, 1, 0, 2>>]

Programs(n, ops) == UNION {[1 .. k -> ops] : k \in 1 .. n}
Legal(images) == {img \in images : ArchiveOk(img, Total(img), 36)}

-----------------------------------------------------------------------------
(* Scalars, control and calls; vectors, and scalars among their lanes; and *)
(* longer programs over a few of both.                                     *)

ScalarOps ==
  {I("ASSIGNSS", 7, 0, 3), I("ADDSS", 2, 0, 7), I("SUBSS", 7, 2, 3), I("ADDSS", 3, 7, 3),
   I("SQRTS", 7, 0, 3), I("ABSS", 3, 0, 7), I("REMSS", 2, 7, 3), I("FLOORS", 2, 0, 7),
   I("SIN", 3, 0, 7), I("POWSS", 2, 7, 3), I("CMP", 2, 7, 0), I("CMPZ", 7, 0, 0),
   I("ASSIGNCLT", 2, 7, 3), I("ASSIGNIBS", 3, 0, 7), I("RETURN", 0, 0, 0),
   I("BRANCHCLT", 0, 0, 0), I("BRANCHCNE", 0, 3, 0), I("BRANCHNEG", 7, 2, 0),
   I("INDEXRIS", 2, 2, 7), I("DLOADIRS", 0, 2, 7), I("EXTCALL", 16, 0, 2)}

VectorOps ==
  {I("MINVV", 3, 7, 3), I("SUBVV", 7, 3, 3), I("ASSIGNVV", 3, 0, 7), I("ASSIGNVV", 0, 0, 5),
   I("ASSIGNSV", 2, 0, 3), I("SUMV", 3, 0, 2), I("POWVS", 3, 2, 7), I("MINVS", 7, 8, 3),
   I("ADDSS", 2, 8, 5), I("SQRTV", 3, 0, 7), I("ABSV", 3, 0, 7), I("REMVV", 3, 7, 7),
   I("ROUNDV", 7, 0, 3), I("DLOADIRV", 0, 2, 7), I("DLOADIIV", 0, 0, 3),
   I("ASSIGNIBV", 3, 0, 7), I("ASSIGNSS", 7, 0, 2), I("SINCOS", 2, 7, 3),
   I("INDEXRIR", 2, 0, 7), I("DSECLEN", 0, 0, 8), I("EXTCALL", 32, 0, 2),
   I("INDEXRIR", 2, 1, 7), I("MULVV", 3, 5, 4), I("ASSIGNSV", 4, 0, 3)}

MixedOps ==
  {I("ADDSS", 2, 0, 3), I("MULSS", 3, 2, 4), I("ADDVV", 3, 3, 7), I("MAXSS", 7, 4, 2),
   I("CMP", 2, 1, 0), I("BRANCHCLT", 0, 1, 0), I("COS", 3, 0, 8)}

JitPrograms == Programs(3, ScalarOps) \cup Programs(3, VectorOps) \cup Programs(4, MixedOps)
JitImages == Legal({Archive(Function(c)) : c \in JitPrograms})

-----------------------------------------------------------------------------
(* INDEXRIS as it is documented.                                           *)

IndexImages == Legal({Archive(Function(<<I("INDEXRIS", 2, 2, 3)>>))})

\* "read_index = (int32)(stack[arg1]) + arg2": INDEXRIS reads the cell that the
\* value truncated to an integer and the constant add up to
\* (LMNT/doc/Instructions.md:835)
TruncatesIndex ==
  phase = "done" /\ result = "OK" =>
    LET in == TheDef.code[1]
        read_index == Truncated[stack[in.arg1]] + in.arg2
    IN  stack[in.arg3] = stack[read_index]
=============================================================================
