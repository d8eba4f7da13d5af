------------------------------- MODULE LmntOps -------------------------------
(***************************************************************************)
(* What each function of LMNT/src/ops_*_impl.h does, as an operator on the *)
(* stack: none of them depends on how instructions are dispatched.  s is   *)
(* the stack (ctx->stack), a function from 0; img is the archive.          *)
(***************************************************************************)
EXTENDS LmntArchive

CONSTANTS
  ExtResults,  \* what an external function may return
  ArgValues    \* the values a host passes as arguments or writes as results

ExtEntry == [name : STRING, args_count : Nat, rvals_count : Nat]


ASSUME OpsAssumption ==
  /\ ArgValues \subseteq Value
  /\ ExtResults \cap {"BRANCHING", "RETURNING", "INTERRUPTED"} = {}

Span(b, n) == b .. (b + n - 1)

-----------------------------------------------------------------------------
(* Operations that cannot fail and change only the stack.                  *)

Put(s, d, v) == [s EXCEPT ![d] = v]
Put4(s, d, v0, v1, v2, v3) == Put(Put(Put(Put(s, d, v0), d + 1, v1), d + 2, v2), d + 3, v3)

\* One lane of an arithmetic operation
Lane(s, op, a, b, d) == Put(s, d, Apply(op, s[a], s[b]))

\* Four lanes in order, so that a lane sees the results of those before it;
\* ka and kb are 0 for an operand that is one cell for all lanes
Lanes(s, op, a, ka, b, kb, d) ==
  LET s1 == Lane(s,  op, a, b, d)
      s2 == Lane(s1, op, a + ka, b + kb, d + 1)
      s3 == Lane(s2, op, a + 2 * ka, b + 2 * kb, d + 2)
  IN  Lane(s3, op, a + 3 * ka, b + 3 * kb, d + 3)

Add(x, y) == ALU["SUM"][<<x, y>>]

PureOps ==
  ScalarUnaryOps \cup ScalarBinaryOps \cup VectorUnaryOps \cup VectorBinaryOps
    \cup VectorScalarOps \cup ImmediateOps \cup CondAssignOps
    \cup {"NOOP", "ASSIGNSV", "DSECLEN", "SUMV", "SINCOS"}

\* flags are the CMP_* bits the conditional assignments test
Pure(img, in, s, flags) ==
  LET a == in.arg1  b == in.arg2  d == in.arg3 IN
  CASE in.op = "NOOP" -> s
    [] in.op \in ScalarUnaryOps  -> Lane(s, in.op, a, a, d)
    [] in.op \in ScalarBinaryOps -> Lane(s, in.op, a, b, d)
    [] in.op \in VectorUnaryOps  -> Lanes(s, in.op, a, 1, a, 1, d)
    [] in.op \in VectorBinaryOps -> Lanes(s, in.op, a, 1, b, 1, d)
    [] in.op \in VectorScalarOps -> Lanes(s, in.op, a, 1, b, 0, d)
    [] in.op = "ASSIGNSV"  -> Lanes(s, in.op, a, 0, a, 0, d)
    [] in.op = "ASSIGNIBS" -> Put(s, d, FromBits(DefOffset(in)))
    [] in.op = "ASSIGNIBV" -> LET v == FromBits(DefOffset(in)) IN Put4(s, d, v, v, v, v)
    [] in.op = "DSECLEN"   -> Put(s, d, FromBits(img.sections[a + 1].count))
    [] in.op = "SUMV"   -> Put(s, d, Add(Add(Add(s[a], s[a + 1]), s[a + 2]), s[a + 3]))
    [] in.op = "SINCOS" -> LET s1 == Put(s, b, ALU["SINE"][<<s[a], s[a]>>])
                           IN  Put(s1, d, ALU["COSINE"][<<s1[a], s1[a]>>])
    [] in.op \in CondAssignOps ->
         Put(s, d, IF CondHolds(AssignCond[in.op], flags) THEN s[a] ELSE s[b])

-----------------------------------------------------------------------------
(* Data loads.                                                             *)

\* value_to_size_t; converting a NaN or an infinity is undefined
Indices(v) == IF v \in NonFinite THEN 0 .. SizeMod - 1 ELSE {ToIndex[v]}

\* The i-th value of a section.  The constants, and then the stack, follow the
\* data segment in memory
DataAt(img, s, sec, i) ==
  LET w == sec.offset \div 4 + i
      n == Len(img.words)
  IN  IF w < n THEN img.words[w + 1]
      ELSE IF w - n \in DOMAIN s THEN s[w - n] ELSE NaN

Outcome(s, res) == [stack |-> s, res |-> res]

\* k is the index an IR load takes from the stack
LoadOutcome(img, in, s, k) ==
  LET sec == img.sections[in.arg1 + 1]
      i == IF in.op \in {"DLOADIIS", "DLOADIIV"} THEN in.arg2 ELSE k
      ok == CASE in.op = "DLOADIRS" -> i < sec.count
              [] in.op = "DLOADIRV" -> sec.count >= 4 /\ i <= sec.count - 4
              [] OTHER -> TRUE
      at(j) == DataAt(img, s, sec, i + j)
  IN  IF ~ok THEN Outcome(s, "ACCESS_VIOLATION")
      ELSE IF in.op \in {"DLOADIIS", "DLOADIRS"}
           THEN Outcome(Put(s, in.arg3, at(0)), "OK")
           ELSE Outcome(Put4(s, in.arg3, at(0), at(1), at(2), at(3)), "OK")

LoadIndices(in, s) ==
  IF in.op \in {"DLOADIIS", "DLOADIIV"} THEN {in.arg2} ELSE Indices(s[in.arg2])

-----------------------------------------------------------------------------
(* INDEXRIS and INDEXRIR check the cells they compute against the frame.   *)

Source(in, s) == (ToIndex[s[in.arg1]] + in.arg2) % SizeMod
Dest(in, s)   == IF in.op = "INDEXRIS" THEN in.arg3 ELSE ToIndex[s[in.arg3]]

IndexOk(in, s, frame) ==
  /\ s[in.arg1] \notin NonFinite
  /\ in.op = "INDEXRIR" => s[in.arg3] \notin NonFinite
  /\ Source(in, s) < frame
  /\ in.op = "INDEXRIR" => Dest(in, s) < frame

IndexOutcome(in, s, frame) ==
  IF IndexOk(in, s, frame)
  THEN Outcome(Put(s, Dest(in, s), s[Source(in, s)]), "OK")
  ELSE Outcome(s, "ACCESS_VIOLATION")

-----------------------------------------------------------------------------
(* Comparisons, branches and external calls.                               *)

CompareBits(in, s) ==
  Compare[<<s[in.arg1], IF in.op = "CMP" THEN s[in.arg2] ELSE Zero>>]

Taken(in, s, flags) ==
  LET sign == Compare[<<s[in.arg1], Zero>>] IN
  CASE in.op = "BRANCH"    -> TRUE
    [] in.op = "BRANCHZ"   -> "EQ" \in sign
    [] in.op = "BRANCHNZ"  -> sign \cap {"LT", "GT"} # {}
    [] in.op = "BRANCHPOS" -> s[in.arg1] \notin SignBit
    [] in.op = "BRANCHNEG" -> s[in.arg1] \in SignBit
    [] in.op = "BRANCHUN"  -> "UN" \in sign
    [] in.op \in CondBranchOps -> CondHolds(BranchCond[in.op], flags)

\* What a well-behaved external function e, called with its arguments at a,
\* may leave: it writes its results and nothing else
StacksAfter(s, e, a) ==
  LET out == Span(a + e.args_count, e.rvals_count) \cap DOMAIN s
  IN  {[c \in DOMAIN s |-> IF c \in out THEN f[c] ELSE s[c]] : f \in [out -> ArgValues]}

ExtOutcomes(table, idx, s, a) ==
  IF idx >= Len(table) THEN {Outcome(s, "NOT_FOUND")}
  ELSE {Outcome(t, res) : t \in StacksAfter(s, table[idx + 1], a), res \in ExtResults}

-----------------------------------------------------------------------------
(* Any instruction: the stacks and results it may produce (a branch that   *)
(* is taken reports BRANCHING), and the CMP_* bits it leaves.              *)

Outcomes(img, table, defcode, frame, in, s, flags) ==
  CASE in.op \in PureOps   -> {Outcome(Pure(img, in, s, flags), "OK")}
    [] in.op = "RETURN"    -> {Outcome(s, "RETURNING")}
    [] in.op \in DataOps   -> {LoadOutcome(img, in, s, k) : k \in LoadIndices(in, s)}
    [] in.op \in {"INDEXRIS", "INDEXRIR"} -> {IndexOutcome(in, s, frame)}
    [] in.op \in BranchOps ->
         {Outcome(s, IF Taken(in, s, flags) THEN "BRANCHING" ELSE "OK")}
    [] in.op \in CompareOps -> {Outcome(s, "OK")}
    [] in.op = "EXTCALL" -> ExtOutcomes(table, CodeOf(img, defcode, DefOffset(in)), s, in.arg3)

NewFlags(in, s, flags) ==
  IF in.op \in CompareOps THEN (flags \ CmpBits) \cup CompareBits(in, s) ELSE flags

-----------------------------------------------------------------------------
(* The cells an instruction writes and reads, operand by operand.          *)

Written(img, table, defcode, frame, in, s) ==
  CASE in.op \in Vectorial \cup {"ASSIGNSV", "ASSIGNIBV", "DLOADIIV", "DLOADIRV"} ->
         Span(in.arg3, 4)
    [] in.op = "SINCOS" -> {in.arg2, in.arg3}
    [] in.op \in {"INDEXRIS", "INDEXRIR"} ->
         IF IndexOk(in, s, frame) THEN {Dest(in, s)} ELSE {}
    [] in.op = "EXTCALL" ->
         LET idx == CodeOf(img, defcode, DefOffset(in)) IN
           IF idx >= Len(table) THEN {}
           ELSE Span(in.arg3 + table[idx + 1].args_count, table[idx + 1].rvals_count)
    [] in.op \in BranchOps \cup CompareOps \cup {"NOOP", "RETURN"} -> {}
    [] OTHER -> {in.arg3}

ReadBy(img, table, defcode, frame, in, s) ==
  CASE in.op \in VectorUnaryOps \cup {"SUMV"} -> Span(in.arg1, 4)
    [] in.op \in VectorBinaryOps -> Span(in.arg1, 4) \cup Span(in.arg2, 4)
    [] in.op \in VectorScalarOps -> Span(in.arg1, 4) \cup {in.arg2}
    [] in.op \in ScalarBinaryOps \cup CondAssignOps \cup {"CMP"} -> {in.arg1, in.arg2}
    [] in.op \in ScalarUnaryOps \cup ValueBranchOps \cup {"ASSIGNSV", "SINCOS", "CMPZ"} ->
         {in.arg1}
    [] in.op \in {"DLOADIRS", "DLOADIRV"} -> {in.arg2}
    [] in.op = "INDEXRIS" ->
         {in.arg1} \cup (IF IndexOk(in, s, frame) THEN {Source(in, s)} ELSE {})
    [] in.op = "INDEXRIR" ->
         {in.arg1, in.arg3} \cup (IF IndexOk(in, s, frame) THEN {Source(in, s)} ELSE {})
    [] in.op = "EXTCALL" ->
         LET idx == CodeOf(img, defcode, DefOffset(in)) IN
           IF idx >= Len(table) THEN {} ELSE Span(in.arg3, table[idx + 1].args_count)
    [] OTHER -> {}
=============================================================================
