------------------------------- MODULE MCLmnt -------------------------------
(***************************************************************************)
(* Small instances of LmntInterpreter: a domain of six bit patterns, the  *)
(* one-def archives over small alphabets of instructions, and archives     *)
(* with extern defs; and the archives of the runs that are violated.       *)
(***************************************************************************)
EXTENDS LmntInterpreter, Functions

CONSTANTS nan, neg

\* neg stands for -1.0, which value_to_size_t turns into 2^64 - 2
MCValue == {0, 1, 2, 3, neg, nan}
MCSizeMod == 64
MCToIndex == [v \in MCValue |-> IF v = nan THEN 0 ELSE IF v = neg THEN 62 ELSE v]

Num(v) == IF v = neg THEN -1 ELSE v
Clamp(n) == IF n < 0 THEN neg ELSE IF n > 3 THEN 3 ELSE n
MCALU ==
  [op \in ArithOps \cup {"SUM", "SINE", "COSINE"} |->
    [p \in MCValue \X MCValue |->
      IF nan \in {p[1], p[2]} THEN nan
      ELSE IF op \in {"SINE", "SIN", "SUBSS"} THEN Clamp(2 - Num(p[1]))
      ELSE Clamp(Num(p[1]) + Num(p[2]))]]
MCCompare ==
  [p \in MCValue \X MCValue |->
    IF nan \in {p[1], p[2]} THEN {"UN"}
    ELSE IF p[1] = p[2] THEN {"EQ"}
    ELSE IF Num(p[1]) < Num(p[2]) THEN {"LT"} ELSE {"GT"}]
MCNonFinite == {nan}
MCSign == {neg}
MCFill == {0}

I(op, a, b, c) == [op |-> op, arg1 |-> a, arg2 |-> b, arg3 |-> c]

Function(code, fl, args, rvals, stk) ==
  [name |-> "f", flags |-> fl, code |-> code, checked |-> code, code0 |-> 0,
   stack_count |-> stk, args_count |-> args, rvals_count |-> rvals, default_args_index |-> 0]
Extern(name, fl, args, rvals, code0) ==
  [name |-> name, flags |-> fl \cup {"EXTERN"}, code |-> <<>>,
   checked |-> <<>>, code0 |-> code0, stack_count |-> args + rvals, args_count |-> args, rvals_count |-> rvals,
   default_args_index |-> 0]

\* Read as a def where there is none: it declares nothing and calls entry 1
Stray == [Function(<<>>, {}, 0, 0, 0) EXCEPT !.code0 = 1]

\* Constants 1 and 2 in cells 0 and 1, and one section of n values
Archive(defs, n) ==
  [base |-> 20, consts |-> <<1, 2>>, defs |-> defs, stray |-> Stray,
   sections |-> <<[offset |-> 12, count |-> n]>>, words |-> <<0, 0, 0, 3, 1, 0, 2>>]

Programs(n, ops) == UNION {[1 .. k -> ops] : k \in 1 .. n}

\* Loaded once, and no extcalls
Once(images) == [i \in images \cup {None} |-> IF i = None THEN images ELSE {}]
NoTables(images) == [i \in images \cup {None} |-> {}]

-----------------------------------------------------------------------------
(* Control: cells 0 and 1 are the constants, 2 the argument, 3 the result, *)
(* 4 a local.                                                              *)

ControlOps ==
  {I("ADDSS", 2, 0, 2), I("CMP", 2, 1, 0), I("BRANCHCLT", 0, 0, 0),
   I("BRANCHZ", 4, 2, 0), I("BRANCH", 0, 1, 0), I("BRANCHUN", 2, 3, 0),
   I("INDEXRIS", 2, 2, 3), I("RETURN", 0, 0, 0)}

One(c, fl) == Archive(<<Function(c, fl, 1, 1, 3)>>, 2)

\* A counting loop, a forward branch over an instruction, two branches that
\* never leave each other
Loop    == <<I("ADDSS", 2, 0, 2), I("CMP", 2, 1, 0), I("BRANCHCLT", 0, 0, 0)>>
Skip    == <<I("BRANCHZ", 2, 2, 0), I("ASSIGNSS", 0, 0, 3), I("RETURN", 0, 0, 0)>>
Spin    == <<I("BRANCH", 0, 1, 0), I("BRANCH", 0, 0, 0)>>
Straight == <<I("ADDSS", 2, 0, 3), I("ADDSS", 3, 0, 3)>>
Loads   == <<I("DLOADIIS", 0, 0, 3), I("ADDSS", 3, 0, 3)>>

\* Archives that leave too little room for themselves, and for their stack
TooBig == [One(Straight, {}) EXCEPT !.base = 24]
NoRoom == [One(Straight, {}) EXCEPT !.base = 22]

Mixed ==
  {One(Loop, {"HAS_BACKBRANCHES"}), One(Skip, {}), One(Spin, {"HAS_BACKBRANCHES"}),
   One(Straight, {}), One(Loads, {}), TooBig, NoRoom}

\* HAS_BACKBRANCHES is tried where there is a branch
Branching(c) == \E i \in DOMAIN c : c[i].op \in BranchOps
ControlImages ==
  {One(c, {}) : c \in Programs(2, ControlOps)}
    \cup {One(c, {"HAS_BACKBRANCHES"}) : c \in {p \in Programs(2, ControlOps) : Branching(p)}} \cup Mixed
ControlReloads == Once(ControlImages)
ControlTables == NoTables(ControlImages)

\* A single archive, and one whose code is not the code that is validated
StraightImages == {One(Straight, {})}
StraightReloads == Once(StraightImages)
StraightTables == NoTables(StraightImages)

FarCode == [Function(Straight, {}, 1, 1, 3) EXCEPT !.code = <<I("ADDSS", 6, 7, 9)>>]
FarImages == {Archive(<<FarCode>>, 2)}
FarReloads == Once(FarImages)
FarTables == NoTables(FarImages)

\* Instructions.md of INDEXRIS: (int32)(stack[arg1]) + arg2 is the cell that is read
\* whenever it is one of the frame.
IndexReads ==
  AboutToRun /\ Fetched.op = "INDEXRIS" /\ stack[Fetched.arg1] # nan =>
    LET k == Num(stack[Fetched.arg1]) + Fetched.arg2
    IN  k \in Frame => IndexOk(Fetched, stack, curStackCount) /\ Source(Fetched, stack) = k

-----------------------------------------------------------------------------
(* Externs: a def that calls "g", "g" itself, and an interface.            *)

Entry(name, args, rvals) == [name |-> name, args_count |-> args, rvals_count |-> rvals]

\* The def at offset 16, or the one that has 16 in its low bits only
Calls(pos) == Function(<<I("EXTCALL", 16, 0, pos)>>, {}, 1, 1, 3)
CallsFar == Function(<<I("EXTCALL", 16, 1, 3)>>, {}, 1, 1, 3)

ExternImages ==
  {Archive(<<Calls(pos), Extern("g", {}, 1, 1, 1), Extern("h", fl, 1, 1, 1)>>, 2) :
     pos \in {2, 3, 4}, fl \in {{}, {"INTERFACE"}}}

SomeTables ==
  <<<<>>, <<Entry("g", 1, 1), Entry("h", 1, 1)>>,
    <<Entry("g", 2, 1), Entry("h", 1, 1), Entry("g", 1, 1)>>>>

FarDefImages == {Archive(<<CallsFar, Extern("g", {}, 1, 1, 1)>>, 2)}
FarDefReloads == Once(FarDefImages)
FarDefTables ==
  [i \in FarDefImages \cup {None} |->
     IF i = None THEN {} ELSE {<<Entry("g", 1, 1), Entry("h", 3, 4)>>}]

-----------------------------------------------------------------------------
(* Operands: one instruction of each kind with every combination of cells  *)
(* around the edges of the frame 0..6, of which 0 and 1 are constants.     *)

Cells == {0, 3, 4, 7}
Threes ==
  {"ADDSS", "ADDVV", "POWVS", "SINCOS", "DLOADIIS", "DLOADIIV", "DLOADIRS", "DLOADIRV",
   "ASSIGNCEQ", "INDEXRIR"}
Twos == {"ASSIGNSS", "SQRTV", "ASSIGNSV", "SUMV", "DSECLEN"}

\* INDEXRIS writes past the span that is checked when its offset is 0
OperandOps ==
  {I(op, a, b, c) : op \in Threes, a \in Cells, b \in Cells, c \in Cells}
    \cup {I("INDEXRIS", a, b, c) : a \in Cells, b \in Cells \ {0}, c \in Cells}
    \cup {I(op, a, 0, c) : op \in Twos, a \in Cells, c \in Cells}
    \cup {I(op, a, b, 0) : op \in {"CMP", "CMPZ"}, a \in Cells, b \in Cells}
    \cup {I("BRANCHNEG", a, b, 0) : a \in Cells, b \in 0 .. 2}
    \cup {I(op, 0, 0, c) : op \in {"ASSIGNIBS", "ASSIGNIBV", "NOOP"}, c \in Cells}

\* An extcall at every such cell, of externs of several signatures
Signatures == {<<0, 1>>, <<1, 1>>, <<2, 3>>, <<3, 0>>}
ExtcallImages ==
  {Archive(<<Function(<<I("EXTCALL", 16, 0, c)>>, {}, 2, 1, 5),
             Extern("g", {}, sig[1], sig[2], 0)>>, 4) : c \in Cells, sig \in Signatures}

\* (with two cells more for the stack than the other archives have)
OperandImages ==
  {[img EXCEPT !.base = 18] :
     img \in {Archive(<<Function(<<op>>, {}, 2, 1, 5)>>, 4) : op \in OperandOps} \cup ExtcallImages}
OperandTable(i) ==
  IF Len(i.defs) = 1 THEN {}
  ELSE {<<Entry("g", 4, 4), Entry("g", i.defs[2].args_count, i.defs[2].rvals_count)>>}

-----------------------------------------------------------------------------
\* The control programs, and archives with externs loaded in any order under
\* tables that come and go; and the operands. (TLC keeps the value of a definition
\* but evaluates the body of one that stands for a constant at every use.)
AllMixed == ControlImages \cup ExternImages \cup OperandImages
MixedReload ==
  [i \in AllMixed \cup {None} |->
     IF i = None THEN AllMixed ELSE IF i \in ExternImages THEN ExternImages ELSE {}]
MixedTable ==
  [i \in AllMixed \cup {None} |->
     IF i \in ExternImages THEN Range(SomeTables)
     ELSE IF i \in OperandImages THEN OperandTable(i) ELSE {}]

MixedImages == AllMixed
MixedReloads == MixedReload
MixedTables == MixedTable

\* What a careless host may do to an archive with an extern as well
Careless == Archive(<<Calls(3), Extern("g", {}, 1, 1, 1)>>, 2)
AllCareless == ControlImages \cup {Careless}
CarelessImages == AllCareless
CarelessReloads == Once(AllCareless)
CarelessTables ==
  [i \in AllCareless \cup {None} |->
     IF i = Careless THEN {SomeTables[1], SomeTables[3]} ELSE {}]
=============================================================================
