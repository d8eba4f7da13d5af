---------------------------- MODULE LmntOps_proofs ----------------------------
(***************************************************************************)
(* What validation guarantees about one instruction: the cells it touches  *)
(* lie in the frame, and it leaves a stack of lmnt_values.                 *)
(***************************************************************************)
EXTENDS LmntOps, TLAPS

\* A stack of n cells
Stack(n) == [0 .. n - 1 -> Value]

\* The code member of the def that the instruction refers to, wherever that is in
\* memory, is the index of an extcall of the signature found there
Bound(img, table, defcode, in) ==
  in.op = "EXTCALL" =>
    LET idx == CodeOf(img, defcode, DefOffset(in)) IN
      /\ idx \in 0 .. Len(table) - 1
      /\ table[idx + 1].args_count  = DefAt(img, DefOffset(in)).args_count
      /\ table[idx + 1].rvals_count = DefAt(img, DefOffset(in)).rvals_count

\* An unsigned remainder is smaller than the modulus; a small number is its own
LEMMA ModRange ==
  ASSUME NEW m \in Nat \ {0}, NEW x \in Int
  PROVE  x % m \in 0 .. m - 1
OBVIOUS

LEMMA ModSmall ==
  ASSUME NEW m \in Nat \ {0}, NEW x \in 0 .. m - 1
  PROVE  x % m = x
OBVIOUS

\* An unsigned remainder never exceeds the number
LEMMA ModLe ==
  ASSUME NEW m \in Nat \ {0}, NEW x \in Nat
  PROVE  x % m <= x
<1>1. CASE x < m
  BY <1>1, ModSmall
<1>2. CASE ~(x < m)
  BY <1>2, ModRange
<1> QED BY <1>1, <1>2

-----------------------------------------------------------------------------
(* Operations keep the stack a stack.                                      *)

LEMMA ApplyType ==
  ASSUME NEW op \in ArithOps \cup {"ASSIGNSS", "ASSIGNVV", "ASSIGNSV"},
         NEW x \in Value, NEW y \in Value
  PROVE  Apply(op, x, y) \in Value
BY ValueAssumption DEF Apply, ArithOps

LEMMA PutType ==
  ASSUME NEW n \in Nat, NEW s \in Stack(n), NEW d, NEW v \in Value
  PROVE  Put(s, d, v) \in Stack(n)
BY DEF Put, Stack

LEMMA LaneType ==
  ASSUME NEW n \in Nat, NEW s \in Stack(n), NEW d,
         NEW op \in ArithOps \cup {"ASSIGNSS", "ASSIGNVV", "ASSIGNSV"},
         NEW a \in 0 .. n - 1, NEW b \in 0 .. n - 1
  PROVE  Lane(s, op, a, b, d) \in Stack(n)
<1>1. s[a] \in Value /\ s[b] \in Value
  BY DEF Stack
<1> QED BY <1>1, ApplyType, PutType DEF Lane

\* The cells four lanes read, from a in steps of k, are cells of the stack
Fit(a, k, n) == a \in Nat /\ k \in {0, 1} /\ a + 3 * k < n

LEMMA LanesType ==
  ASSUME NEW n \in Nat, NEW s \in Stack(n), NEW d,
         NEW op \in ArithOps \cup {"ASSIGNSS", "ASSIGNVV", "ASSIGNSV"},
         NEW a, NEW ka, Fit(a, ka, n), NEW b, NEW kb, Fit(b, kb, n)
  PROVE  Lanes(s, op, a, ka, b, kb, d) \in Stack(n)
<1> DEFINE s1 == Lane(s, op, a, b, d)
           s2 == Lane(s1, op, a + ka, b + kb, d + 1)
           s3 == Lane(s2, op, a + 2 * ka, b + 2 * kb, d + 2)
<1> USE DEF Fit
<1>1. s1 \in Stack(n)
  BY LaneType
<1>2. s2 \in Stack(n)
  <2>1. a + ka \in 0 .. n - 1 /\ b + kb \in 0 .. n - 1
    OBVIOUS
  <2> HIDE DEF s1
  <2> QED BY <1>1, <2>1, LaneType
<1>3. s3 \in Stack(n)
  <2>1. a + 2 * ka \in 0 .. n - 1 /\ b + 2 * kb \in 0 .. n - 1
    OBVIOUS
  <2> HIDE DEF s2
  <2> QED BY <1>2, <2>1, LaneType
<1>4. a + 3 * ka \in 0 .. n - 1 /\ b + 3 * kb \in 0 .. n - 1
  OBVIOUS
<1>5. Lane(s3, op, a + 3 * ka, b + 3 * kb, d + 3) \in Stack(n)
  <2> HIDE DEF s3
  <2> QED BY <1>3, <1>4, LaneType
<1> QED BY <1>5 DEF Lanes

\* How many cells each kind of opcode reads through its first two operands
LEMMA Operands ==
  ASSUME NEW op
  PROVE  /\ op \in ScalarUnaryOps  => Reads1(op) = 1 /\ Writes3(op) = 1
         /\ op \in ScalarBinaryOps => Reads1(op) = 1 /\ Reads2(op) = 1 /\ Writes3(op) = 1
         /\ op \in VectorUnaryOps  => Reads1(op) = 4 /\ Writes3(op) = 4
         /\ op \in VectorBinaryOps => Reads1(op) = 4 /\ Reads2(op) = 4 /\ Writes3(op) = 4
         /\ op \in VectorScalarOps => Reads1(op) = 4 /\ Reads2(op) = 1 /\ Writes3(op) = 4
         /\ op \in CondAssignOps   => Reads1(op) = 1 /\ Reads2(op) = 1 /\ Writes3(op) = 1
         /\ op \in ValueBranchOps \cup {"ASSIGNSV", "SINCOS", "CMPZ", "CMP", "INDEXRIS",
                                     "INDEXRIR"} => Reads1(op) = 1
         /\ op \in {"CMP", "DLOADIRS", "DLOADIRV"} => Reads2(op) = 1
         /\ op = "SUMV" => Reads1(op) = 4
         /\ op \in {"ASSIGNSV", "ASSIGNIBV", "DLOADIIV", "DLOADIRV"} => Writes3(op) = 4
         /\ op \in {"ASSIGNIBS", "DLOADIIS", "DLOADIRS", "DSECLEN", "SUMV", "SINCOS"}
              => Writes3(op) = 1
BY DEF Reads1, Reads2, Writes3, Vectorial, VectorUnaryOps, VectorBinaryOps,
   VectorScalarOps, ImmediateOps, DataOps, CondBranchOps, BranchCond, CondAssignOps,
   AssignCond, ScalarUnaryOps, ScalarBinaryOps, ValueBranchOps

\* validate_operand_stack_read: the cells an accepted instruction reads
LEMMA ReadCells ==
  ASSUME NEW img, NEW d, NEW consts \in Nat, NEW rw \in Nat,
         NEW in \in Instruction, InstructionOk(img, d, in, consts, rw)
  PROVE  /\ Reads1(in.op) > 0 => in.arg1 + Reads1(in.op) <= consts + rw
         /\ Reads2(in.op) > 0 => in.arg2 + Reads2(in.op) <= consts + rw
BY DEF InstructionOk, StackRead

\* The groups of opcodes exclude each other
Singles == {"NOOP", "ASSIGNSV", "ASSIGNIBS", "ASSIGNIBV", "DSECLEN", "SUMV", "SINCOS"}

LEMMA Groups ==
  /\ ScalarUnaryOps \cap (ScalarBinaryOps \cup Vectorial \cup CondAssignOps \cup Singles) = {}
  /\ ScalarBinaryOps \cap (Vectorial \cup CondAssignOps \cup Singles) = {}
  /\ Vectorial \cap (CondAssignOps \cup Singles) = {}
  /\ CondAssignOps \cap Singles = {}
  /\ VectorUnaryOps \cap (VectorBinaryOps \cup VectorScalarOps) = {}
  /\ VectorBinaryOps \cap VectorScalarOps = {}
  /\ VectorUnaryOps \cup VectorBinaryOps \cup VectorScalarOps = Vectorial
<1>1. CondAssignOps = {"ASSIGNCEQ", "ASSIGNCNE", "ASSIGNCLT", "ASSIGNCLE", "ASSIGNCGT",
                       "ASSIGNCGE", "ASSIGNCUN"}
  BY DEF CondAssignOps, AssignCond
<1>2. ScalarUnaryOps \cap (ScalarBinaryOps \cup Vectorial \cup CondAssignOps \cup Singles) = {}
  BY <1>1 DEF ScalarUnaryOps, ScalarBinaryOps, Vectorial, VectorUnaryOps, VectorBinaryOps,
     VectorScalarOps, Singles
<1>3. ScalarBinaryOps \cap (Vectorial \cup CondAssignOps \cup Singles) = {}
  BY <1>1 DEF ScalarBinaryOps, Vectorial, VectorUnaryOps, VectorBinaryOps,
     VectorScalarOps, Singles
<1>4. Vectorial \cap (CondAssignOps \cup Singles) = {}
  BY <1>1 DEF Vectorial, VectorUnaryOps, VectorBinaryOps, VectorScalarOps, Singles
<1>5. CondAssignOps \cap Singles = {}
  BY <1>1 DEF Singles
<1>6. /\ VectorUnaryOps \cap (VectorBinaryOps \cup VectorScalarOps) = {}
      /\ VectorBinaryOps \cap VectorScalarOps = {}
  BY DEF VectorUnaryOps, VectorBinaryOps, VectorScalarOps
<1> QED BY <1>2, <1>3, <1>4, <1>5, <1>6 DEF Vectorial

\* Every opcode is of one kind
LEMMA Kinds ==
  /\ Opcodes = PureOps \cup DataOps \cup BranchOps \cup CompareOps
                 \cup {"RETURN", "INDEXRIS", "INDEXRIR", "EXTCALL"}
  /\ PureOps \cap (DataOps \cup BranchOps \cup CompareOps
                     \cup {"RETURN", "INDEXRIS", "INDEXRIR", "EXTCALL"}) = {}
  /\ DataOps \cap (BranchOps \cup CompareOps
                     \cup {"RETURN", "INDEXRIS", "INDEXRIR", "EXTCALL"}) = {}
  /\ BranchOps \cap (CompareOps \cup {"RETURN", "INDEXRIS", "INDEXRIR", "EXTCALL"}) = {}
  /\ CompareOps \cap {"RETURN", "INDEXRIS", "INDEXRIR", "EXTCALL"} = {}
<1>1. CondBranchOps = {"BRANCHCEQ", "BRANCHCNE", "BRANCHCLT", "BRANCHCLE", "BRANCHCGT",
                       "BRANCHCGE", "BRANCHCUN"}
  BY DEF CondBranchOps, BranchCond
<1>2. CondAssignOps = {"ASSIGNCEQ", "ASSIGNCNE", "ASSIGNCLT", "ASSIGNCLE", "ASSIGNCGT",
                       "ASSIGNCGE", "ASSIGNCUN"}
  BY DEF CondAssignOps, AssignCond
<1>3. Opcodes = PureOps \cup DataOps \cup BranchOps \cup CompareOps
                 \cup {"RETURN", "INDEXRIS", "INDEXRIR", "EXTCALL"}
  BY DEF Opcodes, PureOps
<1> DEFINE Rest == DataOps \cup BranchOps \cup CompareOps
                     \cup {"RETURN", "INDEXRIS", "INDEXRIR", "EXTCALL"}
<1>4. PureOps \cap Rest = {}
  <2>1. (ScalarUnaryOps \cup ScalarBinaryOps) \cap Rest = {}
    BY <1>1 DEF ScalarUnaryOps, ScalarBinaryOps, DataOps, BranchOps, ValueBranchOps, CompareOps
  <2>2. (VectorUnaryOps \cup VectorBinaryOps \cup VectorScalarOps) \cap Rest = {}
    BY <1>1 DEF VectorUnaryOps, VectorBinaryOps, VectorScalarOps, DataOps, BranchOps,
       ValueBranchOps, CompareOps
  <2>3. (ImmediateOps \cup CondAssignOps \cup {"NOOP", "ASSIGNSV", "DSECLEN", "SUMV", "SINCOS"})
          \cap Rest = {}
    BY <1>1, <1>2 DEF ImmediateOps, DataOps, BranchOps, ValueBranchOps, CompareOps
  <2> QED BY <2>1, <2>2, <2>3 DEF PureOps
<1>5. DataOps \cap (BranchOps \cup CompareOps
                     \cup {"RETURN", "INDEXRIS", "INDEXRIR", "EXTCALL"}) = {}
  BY <1>1 DEF DataOps, BranchOps, ValueBranchOps, CompareOps
<1>6. BranchOps \cap (CompareOps \cup {"RETURN", "INDEXRIS", "INDEXRIR", "EXTCALL"}) = {}
  BY <1>1 DEF BranchOps, ValueBranchOps, CompareOps
<1>7. CompareOps \cap {"RETURN", "INDEXRIS", "INDEXRIR", "EXTCALL"} = {}
  BY DEF CompareOps
<1> QED BY <1>3, <1>4, <1>5, <1>6, <1>7

\* ops_misc_impl.h, ops_math_impl.h, ops_bounds_impl.h and ops_trig_impl.h: an
\* operation that cannot fail leaves a stack of lmnt_values.
LEMMA PureType ==
  ASSUME NEW img \in Image, NEW d, NEW consts \in Nat, NEW rw \in Nat,
         NEW n \in Nat, consts + rw <= n, NEW s \in Stack(n), NEW flags,
         NEW in \in Instruction, InstructionOk(img, d, in, consts, rw), in.op \in PureOps
  PROVE  Pure(img, in, s, flags) \in Stack(n)
<1> DEFINE a == in.arg1
           b == in.arg2
           c == in.arg3
           Copied == ArithOps \cup {"ASSIGNSS", "ASSIGNVV", "ASSIGNSV"}
<1>0. a \in Nat /\ b \in Nat /\ c \in Nat
  BY DEF Instruction
<1>1. CASE in.op = "NOOP"
  BY <1>1, Groups DEF Pure, Singles
<1>2. CASE in.op \in ScalarUnaryOps
  <2>1. Pure(img, in, s, flags) = Lane(s, in.op, a, a, c)
    BY <1>2, Groups DEF Pure, Singles
  <2>2. a \in 0 .. n - 1
    BY <1>0, <1>2, ReadCells, Operands
  <2>3. in.op \in Copied
    BY <1>2 DEF ArithOps
  <2> QED BY <2>1, <2>2, <2>3, LaneType
<1>3. CASE in.op \in ScalarBinaryOps
  <2>1. Pure(img, in, s, flags) = Lane(s, in.op, a, b, c)
    BY <1>3, Groups DEF Pure, Singles
  <2>2. a \in 0 .. n - 1 /\ b \in 0 .. n - 1
    BY <1>0, <1>3, ReadCells, Operands
  <2>3. in.op \in Copied
    BY <1>3 DEF ArithOps
  <2> QED BY <2>1, <2>2, <2>3, LaneType
<1>4. CASE in.op \in VectorUnaryOps
  <2>1. Pure(img, in, s, flags) = Lanes(s, in.op, a, 1, a, 1, c)
    BY <1>4, Groups DEF Pure, Singles
  <2>2. Fit(a, 1, n)
    BY <1>0, <1>4, ReadCells, Operands DEF Fit
  <2>3. in.op \in Copied
    BY <1>4 DEF ArithOps
  <2> QED BY <2>1, <2>2, <2>3, LanesType
<1>5. CASE in.op \in VectorBinaryOps
  <2>1. Pure(img, in, s, flags) = Lanes(s, in.op, a, 1, b, 1, c)
    BY <1>5, Groups DEF Pure, Singles
  <2>2. Fit(a, 1, n) /\ Fit(b, 1, n)
    BY <1>0, <1>5, ReadCells, Operands DEF Fit
  <2>3. in.op \in Copied
    BY <1>5 DEF ArithOps
  <2> QED BY <2>1, <2>2, <2>3, LanesType
<1>6. CASE in.op \in VectorScalarOps
  <2>1. Pure(img, in, s, flags) = Lanes(s, in.op, a, 1, b, 0, c)
    BY <1>6, Groups DEF Pure, Singles
  <2>2. Fit(a, 1, n) /\ Fit(b, 0, n)
    BY <1>0, <1>6, ReadCells, Operands DEF Fit
  <2>3. in.op \in Copied
    BY <1>6 DEF ArithOps
  <2> QED BY <2>1, <2>2, <2>3, LanesType
<1>7. CASE in.op = "ASSIGNSV"
  <2>1. Pure(img, in, s, flags) = Lanes(s, in.op, a, 0, a, 0, c)
    BY <1>7, Groups DEF Pure, Singles
  <2>2. Fit(a, 0, n)
    BY <1>0, <1>7, ReadCells, Operands DEF Fit
  <2> QED BY <1>7, <2>1, <2>2, LanesType
<1>8. CASE in.op \in ImmediateOps \cup {"DSECLEN"}
  <2> DEFINE v == IF in.op = "DSECLEN" THEN FromBits(img.sections[a + 1].count)
                  ELSE FromBits(DefOffset(in))
  <2>1. v \in Value
    BY ValueAssumption DEF FromBits
  <2>2. CASE in.op = "DSECLEN"
    <3>1. Pure(img, in, s, flags) = Put(s, c, v)
      BY <2>2, Groups DEF Pure, Singles
    <3> HIDE DEF v
    <3> QED BY <2>1, <3>1, PutType
  <2>3. CASE in.op = "ASSIGNIBS"
    <3>1. Pure(img, in, s, flags) = Put(s, c, v)
      BY <2>3, Groups DEF Pure, Singles
    <3> HIDE DEF v
    <3> QED BY <2>1, <3>1, PutType
  <2>4. CASE in.op = "ASSIGNIBV"
    <3>1. Pure(img, in, s, flags) = Put4(s, c, v, v, v, v)
      BY <2>4, Groups DEF Pure, Singles
    <3> HIDE DEF v
    <3> QED BY <2>1, <3>1, PutType DEF Put4
  <2> QED BY <1>8, <2>2, <2>3, <2>4 DEF ImmediateOps
<1>9. CASE in.op = "SUMV"
  <2> DEFINE v == Add(Add(Add(s[a], s[a + 1]), s[a + 2]), s[a + 3])
  <2>1. Pure(img, in, s, flags) = Put(s, c, v)
    BY <1>9, Groups DEF Pure, Singles
  <2>2. \A x, y \in Value : Add(x, y) \in Value
    BY ValueAssumption DEF Add
  <2>3. a + 4 <= n
    BY <1>0, <1>9, ReadCells, Operands
  <2>. a \in 0 .. n - 1 /\ a + 1 \in 0 .. n - 1 /\ a + 2 \in 0 .. n - 1 /\ a + 3 \in 0 .. n - 1
    BY <1>0, <2>3
  <2>4. s[a] \in Value /\ s[a + 1] \in Value /\ s[a + 2] \in Value /\ s[a + 3] \in Value
    BY DEF Stack
  <2>5. v \in Value
    BY <2>2, <2>4
  <2> QED BY <2>1, <2>5, PutType
<1>10. CASE in.op = "SINCOS"
  <2> DEFINE s1 == Put(s, b, ALU["SINE"][<<s[a], s[a]>>])
  <2>1. Pure(img, in, s, flags) = Put(s1, c, ALU["COSINE"][<<s1[a], s1[a]>>])
    BY <1>10, Groups DEF Pure, Singles
  <2>2. \A x \in Value : ALU["SINE"][<<x, x>>] \in Value /\ ALU["COSINE"][<<x, x>>] \in Value
    BY ValueAssumption
  <2>3. a \in 0 .. n - 1
    BY <1>0, <1>10, ReadCells, Operands
  <2>4. s1 \in Stack(n)
    BY <2>2, <2>3, PutType DEF Stack
  <2> HIDE DEF s1
  <2>5. s1[a] \in Value
    BY <2>3, <2>4 DEF Stack
  <2> QED BY <2>1, <2>2, <2>4, <2>5, PutType
<1>11. CASE in.op \in CondAssignOps
  <2> DEFINE v == IF CondHolds(AssignCond[in.op], flags) THEN s[a] ELSE s[b]
  <2>1. Pure(img, in, s, flags) = Put(s, c, v)
    BY <1>11, Groups DEF Pure, Singles
  <2>2. a \in 0 .. n - 1 /\ b \in 0 .. n - 1
    BY <1>0, <1>11, ReadCells, Operands
  <2>3. v \in Value
    BY <2>2 DEF Stack
  <2> QED BY <2>1, <2>3, PutType
<1> QED
  BY <1>1, <1>2, <1>3, <1>4, <1>5, <1>6, <1>7, <1>8, <1>9, <1>10, <1>11 DEF PureOps

\* ops_misc_impl.h, lmnt_op_dload*: whatever index a load takes, what it copies
\* is a value of the data segment, a constant or a stack cell.
LEMMA LoadType ==
  ASSUME NEW img \in Image, NEW d, NEW consts \in Nat, NEW rw \in Nat,
         NEW n \in Nat, consts + rw <= n, NEW s \in Stack(n),
         NEW in \in Instruction, InstructionOk(img, d, in, consts, rw), in.op \in DataOps,
         NEW k \in LoadIndices(in, s)
  PROVE  LoadOutcome(img, in, s, k).stack \in Stack(n)
<1> DEFINE sec == img.sections[in.arg1 + 1]
           i == IF in.op \in {"DLOADIIS", "DLOADIIV"} THEN in.arg2 ELSE k
<1>1. in.arg1 \in Nat /\ in.arg2 \in Nat
  BY DEF Instruction
<1>2. sec \in Section
  <2>1. SectionOk(img, in.arg1)
    BY DEF InstructionOk, DataImmOk, DataOps
  <2>2. img.sections \in Seq(Section)
    BY DEF Image
  <2> DEFINE len == Len(img.sections)
  <2>3. OffsetMod \in Nat \ {0} /\ len \in Nat
    BY <2>2, ValueAssumption
  <2>4. NSections(img) \in 0 .. OffsetMod - 1 /\ NSections(img) <= len
    <3>1. NSections(img) = len % OffsetMod
      BY DEF NSections
    <3> HIDE DEF len
    <3>2. len % OffsetMod <= len
      BY <2>3, ModLe
    <3>3. len % OffsetMod \in 0 .. OffsetMod - 1
      BY <2>3, ModRange
    <3> QED BY <3>1, <3>2, <3>3
  <2>5. in.arg1 + 1 \in 1 .. Len(img.sections)
    BY <1>1, <2>1, <2>3, <2>4 DEF SectionOk
  <2> QED BY <2>2, <2>5
<1>3. i \in Nat
  <2>1. CASE in.op \in {"DLOADIIS", "DLOADIIV"}
    BY <1>1, <2>1
  <2>2. CASE in.op \in {"DLOADIRS", "DLOADIRV"}
    <3>1. Reads2(in.op) = 1
      BY <2>2, Operands
    <3>2. in.arg2 \in 0 .. n - 1
      BY <1>1, <3>1, ReadCells
    <3>3. s[in.arg2] \in Value
      BY <3>2 DEF Stack
    <3>4. k \in 0 .. SizeMod - 1
      BY <2>2, <3>3, ValueAssumption DEF LoadIndices, Indices
    <3> QED BY <2>2, <3>4
  <2> QED BY <2>1, <2>2 DEF DataOps
<1>4. ASSUME NEW j \in Nat PROVE DataAt(img, s, sec, j) \in Value
  <2> DEFINE w == sec.offset \div 4 + j
             m == Len(img.words)
  <2>1. w \in Nat /\ m \in Nat
    <3>1. sec.offset \in Nat
      BY <1>2 DEF Section
    <3>2. \A x \in Nat : x \div 4 \in Nat
      OBVIOUS
    <3>3. m \in Nat
      BY DEF Image
    <3> HIDE DEF sec, m
    <3> QED BY <1>4, <3>1, <3>2, <3>3
  <2>2. CASE w < m
    <3>1. img.words[w + 1] \in Value
      BY <2>1, <2>2 DEF Image
    <3> QED BY <2>2, <3>1 DEF DataAt
  <2>3. CASE ~(w < m)
    BY <2>3, ValueAssumption DEF DataAt, Stack
  <2> QED BY <2>2, <2>3
<1> DEFINE v(j) == DataAt(img, s, sec, i + j)
<1>5. v(0) \in Value /\ v(1) \in Value /\ v(2) \in Value /\ v(3) \in Value
  <2> HIDE DEF sec, i
  <2> QED BY <1>3, <1>4
<1>6. \/ LoadOutcome(img, in, s, k).stack = s
      \/ LoadOutcome(img, in, s, k).stack = Put(s, in.arg3, v(0))
      \/ LoadOutcome(img, in, s, k).stack = Put4(s, in.arg3, v(0), v(1), v(2), v(3))
  BY DEF LoadOutcome, Outcome
<1> HIDE DEF v
<1> QED BY <1>5, <1>6, PutType DEF Put4

\* ops_misc_impl.h, lmnt_op_indexris and lmnt_op_indexrir: the cell they copy is
\* one of the frame, because they check it as they run.
LEMMA IndexType ==
  ASSUME NEW n \in Nat, NEW s \in Stack(n), NEW frame \in Nat, frame <= n,
         NEW in \in Instruction, in.arg1 < n
  PROVE  IndexOutcome(in, s, frame).stack \in Stack(n)
<1>1. CASE ~IndexOk(in, s, frame)
  BY <1>1 DEF IndexOutcome, Outcome
<1>2. CASE IndexOk(in, s, frame)
  <2>1. in.arg1 \in 0 .. n - 1 /\ in.arg2 \in Nat
    BY DEF Instruction
  <2>2. s[in.arg1] \in Value
    BY <2>1 DEF Stack
  <2>3. ToIndex[s[in.arg1]] + in.arg2 \in Int /\ SizeMod \in Nat \ {0}
    BY <2>1, <2>2, ValueAssumption
  <2>4. Source(in, s) \in 0 .. SizeMod - 1
    BY <2>3, ModRange DEF Source
  <2>5. Source(in, s) \in 0 .. n - 1
    BY <1>2, <2>4, ValueAssumption DEF IndexOk
  <2>6. s[Source(in, s)] \in Value
    BY <2>5 DEF Stack
  <2>7. IndexOutcome(in, s, frame).stack = Put(s, Dest(in, s), s[Source(in, s)])
    BY <1>2 DEF IndexOutcome, Outcome
  <2> QED BY <2>6, <2>7, PutType
<1> QED BY <1>1, <1>2

\* An external function writes its results and nothing else: what it leaves is
\* a stack of the same size.
LEMMA ExtType ==
  ASSUME NEW n \in Nat, NEW s \in Stack(n), NEW table, NEW idx, NEW c,
         NEW o \in ExtOutcomes(table, idx, s, c)
  PROVE  o.stack \in Stack(n)
<1>1. CASE idx >= Len(table)
  BY <1>1 DEF ExtOutcomes, Outcome
<1>2. CASE ~(idx >= Len(table))
  <2>1. o.stack \in StacksAfter(s, table[idx + 1], c)
    BY <1>2 DEF ExtOutcomes, Outcome
  <2> DEFINE out == Span(c + table[idx + 1].args_count, table[idx + 1].rvals_count)
                      \cap DOMAIN s
  <2>2. PICK f \in [out -> ArgValues] :
          o.stack = [e \in DOMAIN s |-> IF e \in out THEN f[e] ELSE s[e]]
    BY <2>1 DEF StacksAfter
  <2>3. \A e \in 0 .. n - 1 : (IF e \in out THEN f[e] ELSE s[e]) \in Value
    <3> HIDE DEF out
    <3> QED BY OpsAssumption DEF Stack
  <2>4. DOMAIN s = 0 .. n - 1
    BY DEF Stack
  <2> HIDE DEF out
  <2> QED BY <2>2, <2>3, <2>4 DEF Stack
<1> QED BY <1>1, <1>2

\* Every instruction the validator accepts leaves a stack of lmnt_values of the
\* size it found, whatever the operands and whatever the result.
LEMMA OutcomesType ==
  ASSUME NEW img \in Image, NEW d, NEW consts \in Nat, NEW rw \in Nat,
         NEW n \in Nat, consts + rw <= n, NEW s \in Stack(n), NEW flags,
         NEW in \in Instruction, InstructionOk(img, d, in, consts, rw),
         NEW table, NEW defcode,
         NEW o \in Outcomes(img, table, defcode, consts + rw, in, s, flags)
  PROVE  o.stack \in Stack(n)
<1>1. CASE in.op \in PureOps
  <2>1. o.stack = Pure(img, in, s, flags)
    BY <1>1, Kinds DEF Outcomes, Outcome
  <2> QED BY <1>1, <2>1, PureType
<1>2. CASE in.op \in DataOps
  <2>1. \E k \in LoadIndices(in, s) : o = LoadOutcome(img, in, s, k)
    BY <1>2, Kinds DEF Outcomes
  <2> QED BY <1>2, <2>1, LoadType
<1>3. CASE in.op \in {"INDEXRIS", "INDEXRIR"}
  <2>1. o = IndexOutcome(in, s, consts + rw)
    BY <1>3, Kinds DEF Outcomes
  <2>2. Reads1(in.op) = 1
    BY <1>3, Operands
  <2>3. in.arg1 < n
    BY <2>2, ReadCells DEF Instruction
  <2> QED BY <2>1, <2>3, IndexType
<1>4. CASE in.op = "EXTCALL"
  <2>1. o \in ExtOutcomes(table, CodeOf(img, defcode, DefOffset(in)), s, in.arg3)
    BY <1>4, Kinds DEF Outcomes
  <2> QED BY <2>1, ExtType
<1>5. CASE in.op \in BranchOps \cup CompareOps \cup {"RETURN"}
  BY <1>5, Kinds DEF Outcomes, Outcome
<1> QED BY <1>1, <1>2, <1>3, <1>4, <1>5, Kinds DEF Instruction

-----------------------------------------------------------------------------
(* Operations stay in the frame.                                           *)

\* validate_operand_stack_write: the cells an accepted instruction writes
LEMMA WriteCells ==
  ASSUME NEW img, NEW d, NEW consts \in Nat, NEW rw \in Nat,
         NEW in \in Instruction, InstructionOk(img, d, in, consts, rw)
  PROVE  in.op \notin NoResultOps \cup {"INDEXRIS"}
           => in.arg3 + Writes3(in.op) <= consts + rw
BY DEF InstructionOk, StackWrite

\* A span that ends in the frame lies in it
LEMMA SpanFits ==
  ASSUME NEW b \in Nat, NEW n \in Nat, NEW frame \in Nat, b + n <= frame
  PROVE  Span(b, n) \subseteq 0 .. frame - 1
BY DEF Span

\* lmnt_op_indexris, lmnt_op_indexrir: the cells that pass their own test
LEMMA IndexCells ==
  ASSUME NEW n \in Nat, NEW s \in Stack(n), NEW frame \in Nat, frame <= n,
         NEW in \in Instruction, in.op \in {"INDEXRIS", "INDEXRIR"}, in.arg1 < n,
         in.op = "INDEXRIS" => in.arg3 < frame,
         in.op = "INDEXRIR" => in.arg3 < n,
         IndexOk(in, s, frame)
  PROVE  Source(in, s) \in 0 .. frame - 1 /\ Dest(in, s) \in 0 .. frame - 1
<1>1. in.arg1 \in 0 .. n - 1 /\ in.arg2 \in Nat /\ in.arg3 \in Nat
  BY DEF Instruction
<1>2. s[in.arg1] \in Value
  BY <1>1 DEF Stack
<1>3. ToIndex[s[in.arg1]] + in.arg2 \in Int /\ SizeMod \in Nat \ {0}
  BY <1>1, <1>2, ValueAssumption
<1>4. Source(in, s) \in 0 .. SizeMod - 1
  BY <1>3, ModRange DEF Source
<1>5. Source(in, s) \in 0 .. frame - 1
  BY <1>3, <1>4 DEF IndexOk
<1>6. CASE in.op = "INDEXRIS"
  BY <1>1, <1>5, <1>6 DEF Dest
<1>7. CASE in.op = "INDEXRIR"
  <2>1. s[in.arg3] \in Value
    BY <1>1, <1>7 DEF Stack
  <2>2. ToIndex[s[in.arg3]] \in Nat
    BY <2>1, ValueAssumption
  <2> QED BY <1>5, <1>7, <2>2 DEF Dest, IndexOk
<1> QED BY <1>6, <1>7

\* validate_operand_defptr: the arguments and the results of a call to an extern
\* lie in the caller's frame, provided that the 16-bit sum in which the
\* validator looks for the results does not wrap.
LEMMA CallCells ==
  ASSUME NEW img \in Image, NEW d, NEW consts \in Nat, NEW rw \in Nat,
         consts + rw < OffsetMod,
         NEW in \in Instruction, InstructionOk(img, d, in, consts, rw), in.op = "EXTCALL",
         NEW e \in ExtEntry,
         e.args_count = DefAt(img, DefOffset(in)).args_count,
         e.rvals_count = DefAt(img, DefOffset(in)).rvals_count
  PROVE  /\ Span(in.arg3, e.args_count) \subseteq 0 .. consts + rw - 1
         /\ Span(in.arg3 + e.args_count, e.rvals_count) \subseteq 0 .. consts + rw - 1
<1>1. DefPtrOk(img, DefOffset(in), in.arg3, consts, rw)
  BY DEF InstructionOk
<1>2. /\ StackRead(in.arg3, e.args_count, consts, rw)
      /\ StackWrite((in.arg3 + e.args_count) % OffsetMod, e.rvals_count, consts, rw)
  BY <1>1 DEF DefPtrOk
<1>3. in.arg3 \in Nat /\ e.args_count \in Nat /\ e.rvals_count \in Nat
  BY DEF Instruction, ExtEntry
<1>4. (in.arg3 + e.args_count) % OffsetMod = in.arg3 + e.args_count
  <2>1. in.arg3 + e.args_count \in 0 .. OffsetMod - 1
    <3>1. OffsetMod \in Nat \ {0}
      BY ValueAssumption
    <3> QED BY <1>2, <1>3, <3>1 DEF StackRead
  <2>2. OffsetMod \in Nat \ {0}
    BY ValueAssumption
  <2> QED BY <2>1, <2>2, ModSmall
<1> QED BY <1>2, <1>3, <1>4 DEF StackRead, StackWrite, Span

\* An instruction that validate_instruction accepts reads and writes cells of the
\* frame only, if it is not an INDEXRIS of offset 0, if the frame has fewer cells
\* than an lmnt_offset can count, and if an EXTCALL is bound to a function of the
\* signature found at its whole offset: of these counts, not of the def that
\* validate_def_with_flags has looked at, the validator checks the spans.
LEMMA OperandsInFrame ==
  ASSUME NEW img \in Image, NEW d, NEW consts \in Nat, NEW rw \in Nat,
         NEW n \in Nat, consts + rw <= n, NEW s \in Stack(n),
         NEW in \in Instruction, InstructionOk(img, d, in, consts, rw),
         consts + rw < OffsetMod,
         in.op = "INDEXRIS" => in.arg2 > 0,
         NEW table \in Seq(ExtEntry), NEW defcode, Bound(img, table, defcode, in)
  PROVE  /\ ReadBy(img, table, defcode, consts + rw, in, s) \subseteq 0 .. consts + rw - 1
         /\ Written(img, table, defcode, consts + rw, in, s) \subseteq 0 .. consts + rw - 1
<1> DEFINE frame == consts + rw
           F == 0 .. frame - 1
           R == ReadBy(img, table, defcode, frame, in, s)
           W == Written(img, table, defcode, frame, in, s)
<1>0. in.arg1 \in Nat /\ in.arg2 \in Nat /\ in.arg3 \in Nat
  BY DEF Instruction
<1>1. Reads1(in.op) > 0 => Span(in.arg1, Reads1(in.op)) \subseteq F
  <2>1. Reads1(in.op) \in Nat
    BY DEF Reads1
  <2>2. Reads1(in.op) > 0 => in.arg1 + Reads1(in.op) <= frame
    BY ReadCells
  <2>3. frame \in Nat
    OBVIOUS
  <2> HIDE DEF frame
  <2> QED BY <1>0, <2>1, <2>2, <2>3, SpanFits
<1>2. Reads2(in.op) > 0 => Span(in.arg2, Reads2(in.op)) \subseteq F
  <2>1. Reads2(in.op) \in Nat
    BY DEF Reads2
  <2>2. Reads2(in.op) > 0 => in.arg2 + Reads2(in.op) <= frame
    BY ReadCells
  <2>3. frame \in Nat
    OBVIOUS
  <2> HIDE DEF frame
  <2> QED BY <1>0, <2>1, <2>2, <2>3, SpanFits
<1>3. Vectorial \cup CondAssignOps \cup ScalarUnaryOps \cup ScalarBinaryOps
         \cup {"ASSIGNSV", "SINCOS", "SUMV", "NOOP"} \subseteq PureOps
  BY DEF Vectorial, PureOps
<1>4. CASE in.op \in {"INDEXRIS", "INDEXRIR"}
  <2>1. in.arg1 \in F
    <3>1. Reads1(in.op) = 1
      BY <1>4, Operands
    <3> QED BY <1>0, <1>1, <3>1 DEF Span
  <2>2. in.arg3 \in F
    BY <1>0, <1>4 DEF InstructionOk, StackRead, StackWrite
  <2>3. IndexOk(in, s, frame) => Source(in, s) \in F /\ Dest(in, s) \in F
    BY <1>4, <2>1, <2>2, IndexCells
  <2>4. R \subseteq {in.arg1, in.arg3} \cup (IF IndexOk(in, s, frame) THEN {Source(in, s)} ELSE {})
    BY <1>3, <1>4, Kinds, Groups DEF ReadBy
  <2>5. W = IF IndexOk(in, s, frame) THEN {Dest(in, s)} ELSE {}
    BY <1>3, <1>4, Kinds DEF Written, DataOps
  <2> QED BY <2>1, <2>2, <2>3, <2>4, <2>5
<1>5. CASE in.op = "EXTCALL"
  <2> DEFINE e == table[CodeOf(img, defcode, DefOffset(in)) + 1]
  <2>1. /\ CodeOf(img, defcode, DefOffset(in)) \in 0 .. Len(table) - 1
        /\ e.args_count = DefAt(img, DefOffset(in)).args_count
        /\ e.rvals_count = DefAt(img, DefOffset(in)).rvals_count
    BY <1>5 DEF Bound
  <2>2. e \in ExtEntry
    BY <2>1
  <2>3. R = Span(in.arg3, e.args_count)
    BY <1>3, <1>5, <2>1, Kinds DEF ReadBy
  <2>4. W = Span(in.arg3 + e.args_count, e.rvals_count)
    BY <1>3, <1>5, <2>1, Kinds DEF Written
  <2>5. /\ Span(in.arg3, e.args_count) \subseteq 0 .. consts + rw - 1
        /\ Span(in.arg3 + e.args_count, e.rvals_count) \subseteq 0 .. consts + rw - 1
    <3> HIDE DEF e
    <3> QED BY <1>5, <2>1, <2>2, CallCells
  <2> HIDE DEF e
  <2> QED BY <2>3, <2>4, <2>5
<1>6. CASE in.op \notin {"INDEXRIS", "INDEXRIR", "EXTCALL"}
  <2>0. /\ Vectorial \cap {"ASSIGNSV", "SINCOS", "SUMV"} = {}
        /\ (ScalarUnaryOps \cup ScalarBinaryOps \cup CondAssignOps)
             \cap (Vectorial \cup {"ASSIGNSV", "SINCOS", "SUMV"}) = {}
        /\ (Vectorial \cup ScalarUnaryOps \cup ScalarBinaryOps \cup CondAssignOps)
             \cap (ValueBranchOps \cup {"CMP", "CMPZ", "DLOADIRS", "DLOADIRV"}) = {}
        /\ ValueBranchOps \cap {"ASSIGNSV", "SINCOS", "SUMV", "CMP", "CMPZ", "DLOADIRS",
                               "DLOADIRV"} = {}
    BY <1>3, Groups, Kinds DEF Singles, CompareOps, DataOps, BranchOps
  <2>1. R \subseteq F
    <3>1. in.op \in VectorUnaryOps \cup {"SUMV"} => R = Span(in.arg1, 4)
      BY <1>6, <2>0, Groups DEF ReadBy
    <3>2. in.op \in VectorBinaryOps => R = Span(in.arg1, 4) \cup Span(in.arg2, 4)
      BY <1>6, <2>0, Groups DEF ReadBy
    <3>3. in.op \in VectorScalarOps => R = Span(in.arg1, 4) \cup {in.arg2}
      BY <1>6, <2>0, Groups DEF ReadBy
    <3>4. in.op \in ScalarBinaryOps \cup CondAssignOps \cup {"CMP"}
            => R = {in.arg1, in.arg2}
      BY <1>6, <2>0, Groups DEF ReadBy
    <3>5. in.op \in ScalarUnaryOps \cup ValueBranchOps \cup {"ASSIGNSV", "SINCOS", "CMPZ"}
            => R = {in.arg1}
      BY <1>6, <2>0, Groups DEF ReadBy
    <3>6. in.op \in {"DLOADIRS", "DLOADIRV"} => R = {in.arg2}
      BY <1>6, <2>0, Groups DEF ReadBy
    <3>7. \/ in.op \in VectorUnaryOps \cup {"SUMV"}
          \/ in.op \in VectorBinaryOps \cup VectorScalarOps
          \/ in.op \in ScalarBinaryOps \cup CondAssignOps \cup {"CMP"}
          \/ in.op \in ScalarUnaryOps \cup ValueBranchOps \cup {"ASSIGNSV", "SINCOS", "CMPZ"}
          \/ in.op \in {"DLOADIRS", "DLOADIRV"}
          \/ R = {}
      BY <1>6 DEF ReadBy
    <3>8. ~(in.op \in VectorUnaryOps \cup {"SUMV"}) \/ R \subseteq F
      BY <1>1, <3>1, Operands
    <3>9. ~(in.op \in VectorBinaryOps \cup VectorScalarOps) \/ R \subseteq F
      <4>1. CASE in.op \in VectorBinaryOps
        <5>1. Reads1(in.op) = 4 /\ Reads2(in.op) = 4
          BY <4>1, Operands
        <5> HIDE DEF R, F
        <5> QED BY <1>1, <1>2, <3>2, <4>1, <5>1
      <4>2. CASE in.op \in VectorScalarOps
        <5>1. Reads1(in.op) = 4 /\ Reads2(in.op) = 1
          BY <4>2, Operands
        <5>2. in.arg2 \in Span(in.arg2, 1)
          BY <1>0 DEF Span
        <5> HIDE DEF R, F
        <5> QED BY <1>1, <1>2, <3>3, <4>2, <5>1, <5>2
      <4> QED BY <4>1, <4>2
    <3>10. ~(in.op \in ScalarBinaryOps \cup CondAssignOps \cup {"CMP"}) \/ R \subseteq F
      BY <1>0, <1>1, <1>2, <3>4, Operands DEF Span
    <3>11. ~(in.op \in ScalarUnaryOps \cup ValueBranchOps \cup {"ASSIGNSV", "SINCOS", "CMPZ"})
             \/ R \subseteq F
      BY <1>0, <1>1, <3>5, Operands DEF Span
    <3>12. ~(in.op \in {"DLOADIRS", "DLOADIRV"}) \/ R \subseteq F
      BY <1>0, <1>2, <3>6, Operands DEF Span
    <3> HIDE DEF R, F
    <3> QED BY <3>7, <3>8, <3>9, <3>10, <3>11, <3>12
  <2>3. in.op \notin NoResultOps \cup {"INDEXRIS"} => Span(in.arg3, Writes3(in.op)) \subseteq F
    <3>1. Writes3(in.op) \in Nat
      BY DEF Writes3
    <3>2. in.op \notin NoResultOps \cup {"INDEXRIS"} => in.arg3 + Writes3(in.op) <= frame
      BY WriteCells
    <3>3. frame \in Nat
      OBVIOUS
    <3> HIDE DEF frame
    <3> QED BY <1>0, <3>1, <3>2, <3>3, SpanFits
  <2>2. W \subseteq F
    <3>1. CASE in.op \in BranchOps \cup CompareOps \cup {"NOOP", "RETURN"}
      BY <1>3, <3>1, Kinds, Groups DEF Written, DataOps, Singles
    <3>5. (Vectorial \cup {"ASSIGNSV", "ASSIGNIBV", "DLOADIIV", "DLOADIRV", "SINCOS"})
            \cap (BranchOps \cup CompareOps
                    \cup {"NOOP", "RETURN", "INDEXRIS", "INDEXRIR", "EXTCALL"}) = {}
      BY <1>3, Kinds, Groups DEF PureOps, DataOps, ImmediateOps, Singles
    <3>2. CASE in.op \in Vectorial \cup {"ASSIGNSV", "ASSIGNIBV", "DLOADIIV", "DLOADIRV"}
      <4>1. in.op \notin NoResultOps \cup {"INDEXRIS"}
        BY <3>2, <3>5 DEF NoResultOps
      <4>2. Writes3(in.op) = 4
        BY <3>2 DEF Writes3
      <4>3. in.op # "SINCOS"
        BY <2>0, <3>2
      <4>4. W = Span(in.arg3, 4)
        BY <3>2, <3>5, <4>3 DEF Written
      <4>5. Span(in.arg3, Writes3(in.op)) \subseteq F
        BY <2>3, <4>1, <4>2
      <4> QED BY <4>2, <4>4, <4>5
    <3>3. CASE in.op = "SINCOS"
      <4>1. in.op \notin NoResultOps \cup {"INDEXRIS"}
        BY <1>3, <3>3, Kinds DEF NoResultOps
      <4>2. Writes3(in.op) = 1
        BY <3>3, Operands
      <4>4. "SINCOS" \notin Vectorial /\ in.op \notin BranchOps \cup CompareOps
        BY <2>0, <3>3, <3>5
      <4>5. W = {in.arg2, in.arg3}
        BY <3>3, <4>4 DEF Written
      <4>6. in.arg2 \in F
        BY <1>0, <3>3 DEF InstructionOk, StackWrite
      <4>7. Span(in.arg3, Writes3(in.op)) \subseteq F
        BY <2>3, <4>1, <4>2
      <4>8. in.arg3 \in F
        BY <1>0, <4>2, <4>7 DEF Span
      <4> QED BY <4>5, <4>6, <4>8
    <3>4. CASE ~(\/ in.op \in BranchOps \cup CompareOps \cup {"NOOP", "RETURN", "SINCOS"}
                 \/ in.op \in Vectorial \cup {"ASSIGNSV", "ASSIGNIBV", "DLOADIIV", "DLOADIRV"})
      <4>1. in.op \notin NoResultOps \cup {"INDEXRIS"}
        BY <1>6, <3>4 DEF NoResultOps
      <4>2. Writes3(in.op) = 1
        BY <3>4 DEF Writes3
      <4>3. W = {in.arg3}
        BY <1>6, <3>4 DEF Written
      <4>4. Span(in.arg3, Writes3(in.op)) \subseteq F
        BY <2>3, <4>1, <4>2
      <4>5. in.arg3 \in F
        BY <1>0, <4>2, <4>4 DEF Span
      <4> QED BY <4>3, <4>5
    <3> QED BY <3>1, <3>2, <3>3, <3>4
  <2> QED BY <2>1, <2>2
<1> QED BY <1>4, <1>5, <1>6

-----------------------------------------------------------------------------
(* Operations leave the constants alone.                                   *)

\* Writing one cell, or four, leaves every other cell as it was
LEMMA PutElsewhere ==
  ASSUME NEW s, NEW d, NEW v, NEW c \in DOMAIN s, c # d
  PROVE  DOMAIN Put(s, d, v) = DOMAIN s /\ Put(s, d, v)[c] = s[c]
BY DEF Put

LEMMA Put4Elsewhere ==
  ASSUME NEW s, NEW d \in Nat, NEW v0, NEW v1, NEW v2, NEW v3, NEW c \in DOMAIN s,
         c \in Nat, c < d
  PROVE  Put4(s, d, v0, v1, v2, v3)[c] = s[c]
<1> DEFINE s1 == Put(s, d, v0)
           s2 == Put(s1, d + 1, v1)
           s3 == Put(s2, d + 2, v2)
<1>1. c # d /\ c # d + 1 /\ c # d + 2 /\ c # d + 3
  OBVIOUS
<1>2. DOMAIN s1 = DOMAIN s /\ s1[c] = s[c]
  BY <1>1, PutElsewhere
<1>3. DOMAIN s2 = DOMAIN s /\ s2[c] = s[c]
  <2> HIDE DEF s1
  <2> QED BY <1>1, <1>2, PutElsewhere
<1>4. DOMAIN s3 = DOMAIN s /\ s3[c] = s[c]
  <2> HIDE DEF s2
  <2> QED BY <1>1, <1>3, PutElsewhere
<1>5. Put(s3, d + 3, v3)[c] = s[c]
  <2> HIDE DEF s3
  <2> QED BY <1>1, <1>4, PutElsewhere
<1> QED BY <1>5 DEF Put4

LEMMA LanesElsewhere ==
  ASSUME NEW s, NEW op, NEW a, NEW ka, NEW b, NEW kb, NEW d \in Nat, NEW c \in DOMAIN s,
         c \in Nat, c < d
  PROVE  Lanes(s, op, a, ka, b, kb, d)[c] = s[c]
<1> DEFINE s1 == Lane(s, op, a, b, d)
           s2 == Lane(s1, op, a + ka, b + kb, d + 1)
           s3 == Lane(s2, op, a + 2 * ka, b + 2 * kb, d + 2)
<1>1. c # d /\ c # d + 1 /\ c # d + 2 /\ c # d + 3
  OBVIOUS
<1>2. DOMAIN s1 = DOMAIN s /\ s1[c] = s[c]
  BY <1>1, PutElsewhere DEF Lane
<1>3. DOMAIN s2 = DOMAIN s /\ s2[c] = s[c]
  <2> HIDE DEF s1
  <2> QED BY <1>1, <1>2, PutElsewhere DEF Lane
<1>4. DOMAIN s3 = DOMAIN s /\ s3[c] = s[c]
  <2> HIDE DEF s2
  <2> QED BY <1>1, <1>3, PutElsewhere DEF Lane
<1>5. Lane(s3, op, a + 3 * ka, b + 3 * kb, d + 3)[c] = s[c]
  <2> HIDE DEF s3
  <2> QED BY <1>1, <1>4, PutElsewhere DEF Lane
<1> QED BY <1>5 DEF Lanes

\* t has the constants of s
SameConstants(s, t, consts) == \A c \in DOMAIN s : c \in 0 .. consts - 1 => t[c] = s[c]

\* validate_operand_stack_write keeps every result above the constants
LEMMA PureElsewhere ==
  ASSUME NEW img, NEW d, NEW consts \in Nat, NEW rw, NEW s, NEW flags,
         NEW in \in Instruction, InstructionOk(img, d, in, consts, rw), in.op \in PureOps
  PROVE  SameConstants(s, Pure(img, in, s, flags), consts)
<1> SUFFICES ASSUME NEW c \in DOMAIN s, c \in 0 .. consts - 1
             PROVE  Pure(img, in, s, flags)[c] = s[c]
  BY DEF SameConstants
<1>0. in.arg2 \in Nat /\ in.arg3 \in Nat /\ c \in Nat
  BY DEF Instruction
<1>1. CASE in.op = "NOOP"
  BY <1>1, Groups DEF Pure, Singles
<1>2. CASE in.op # "NOOP"
  <2>1. in.op \notin NoResultOps \cup {"INDEXRIS"}
    BY <1>2, Kinds DEF NoResultOps
  <2>2. c < in.arg3 /\ (in.op = "SINCOS" => c < in.arg2)
    BY <1>0, <2>1 DEF InstructionOk, StackWrite
  <2>3. \/ \E a, ka, b, kb : Pure(img, in, s, flags) = Lanes(s, in.op, a, ka, b, kb, in.arg3)
        \/ \E v : Pure(img, in, s, flags) = Put4(s, in.arg3, v, v, v, v)
        \/ \E v : Pure(img, in, s, flags) = Put(s, in.arg3, v)
        \/ in.op = "SINCOS" /\ \E v, w : Pure(img, in, s, flags) = Put(Put(s, in.arg2, v), in.arg3, w)
    <3>1. CASE in.op \in ScalarUnaryOps \cup ScalarBinaryOps
      BY <3>1, Groups DEF Pure, Singles, Lane
    <3>2. CASE in.op \in VectorUnaryOps
      BY <3>2, Groups DEF Pure, Singles
    <3>3. CASE in.op \in VectorBinaryOps
      BY <3>3, Groups DEF Pure, Singles
    <3>4. CASE in.op \in VectorScalarOps
      BY <3>4, Groups DEF Pure, Singles
    <3>5. CASE in.op = "ASSIGNSV"
      BY <3>5, Groups DEF Pure, Singles
    <3>6. CASE in.op \in CondAssignOps
      BY <3>6, Groups DEF Pure, Singles
    <3>7. CASE in.op \in {"ASSIGNIBS", "DSECLEN", "SUMV"}
      BY <3>7, Groups DEF Pure, Singles
    <3>8. CASE in.op = "ASSIGNIBV"
      BY <3>8, Groups DEF Pure, Singles
    <3>9. CASE in.op = "SINCOS"
      BY <3>9, Groups DEF Pure, Singles
    <3> QED
      BY <1>2, <3>1, <3>2, <3>3, <3>4, <3>5, <3>6, <3>7, <3>8, <3>9 DEF PureOps, ImmediateOps
  <2>4. ASSUME NEW a, NEW ka, NEW b, NEW kb,
               Pure(img, in, s, flags) = Lanes(s, in.op, a, ka, b, kb, in.arg3)
        PROVE  Pure(img, in, s, flags)[c] = s[c]
    BY <1>0, <2>2, <2>4, LanesElsewhere
  <2>5. ASSUME NEW v, Pure(img, in, s, flags) = Put4(s, in.arg3, v, v, v, v)
        PROVE  Pure(img, in, s, flags)[c] = s[c]
    BY <1>0, <2>2, <2>5, Put4Elsewhere
  <2>6. ASSUME NEW v, Pure(img, in, s, flags) = Put(s, in.arg3, v)
        PROVE  Pure(img, in, s, flags)[c] = s[c]
    BY <1>0, <2>2, <2>6, PutElsewhere
  <2>7. ASSUME in.op = "SINCOS", NEW v, NEW w,
               Pure(img, in, s, flags) = Put(Put(s, in.arg2, v), in.arg3, w)
        PROVE  Pure(img, in, s, flags)[c] = s[c]
    <3>1. c # in.arg2 /\ c # in.arg3
      BY <1>0, <2>2, <2>7
    <3> DEFINE t == Put(s, in.arg2, v)
    <3>2. DOMAIN t = DOMAIN s /\ t[c] = s[c]
      BY <3>1, PutElsewhere
    <3>3. Put(t, in.arg3, w)[c] = s[c]
      <4> HIDE DEF t
      <4> QED BY <3>1, <3>2, PutElsewhere
    <3> QED BY <2>7, <3>3
  <2> QED BY <2>3, <2>4, <2>5, <2>6, <2>7
<1> QED BY <1>1, <1>2

\* A data load writes where its third operand says, or fails
LEMMA LoadElsewhere ==
  ASSUME NEW img, NEW d, NEW consts \in Nat, NEW rw, NEW s, NEW k,
         NEW in \in Instruction, InstructionOk(img, d, in, consts, rw), in.op \in DataOps
  PROVE  SameConstants(s, LoadOutcome(img, in, s, k).stack, consts)
<1> SUFFICES ASSUME NEW c \in DOMAIN s, c \in 0 .. consts - 1
             PROVE  LoadOutcome(img, in, s, k).stack[c] = s[c]
  BY DEF SameConstants
<1>1. in.op \notin NoResultOps \cup {"INDEXRIS"}
  BY Kinds DEF NoResultOps, DataOps
<1>2. in.arg3 \in Nat /\ c \in Nat /\ c < in.arg3
  BY <1>1 DEF InstructionOk, StackWrite, Instruction
<1>3. \/ LoadOutcome(img, in, s, k).stack = s
      \/ \E v : LoadOutcome(img, in, s, k).stack = Put(s, in.arg3, v)
      \/ \E u, v, w, x : LoadOutcome(img, in, s, k).stack = Put4(s, in.arg3, u, v, w, x)
  BY DEF LoadOutcome, Outcome
<1> QED BY <1>2, <1>3, PutElsewhere, Put4Elsewhere

\* An external function of the signature its caller was checked for writes its
\* results where validate_operand_defptr looked for them, which is above the
\* constants even where the 16-bit sum wraps.
LEMMA CallElsewhere ==
  ASSUME NEW img \in Image, NEW d, NEW consts \in Nat, NEW rw, NEW s,
         NEW table \in Seq(ExtEntry), NEW defcode,
         NEW in \in Instruction, InstructionOk(img, d, in, consts, rw), in.op = "EXTCALL",
         Bound(img, table, defcode, in),
         NEW o \in ExtOutcomes(table, CodeOf(img, defcode, DefOffset(in)), s, in.arg3)
  PROVE  SameConstants(s, o.stack, consts)
<1> SUFFICES ASSUME NEW c \in DOMAIN s, c \in 0 .. consts - 1
             PROVE  o.stack[c] = s[c]
  BY DEF SameConstants
<1> DEFINE idx == CodeOf(img, defcode, DefOffset(in))
           e == table[idx + 1]
           pos == in.arg3 + e.args_count
           out == Span(pos, e.rvals_count) \cap DOMAIN s
<1>1. /\ idx \in 0 .. Len(table) - 1
      /\ e.args_count = DefAt(img, DefOffset(in)).args_count
  BY DEF Bound
<1>2. e \in ExtEntry /\ ~(idx >= Len(table))
  BY <1>1
<1>3. in.arg3 \in Nat /\ e.args_count \in Nat /\ e.rvals_count \in Nat /\ OffsetMod \in Nat \ {0}
  BY <1>2, ValueAssumption DEF Instruction, ExtEntry
<1>4. pos % OffsetMod >= consts
  BY <1>1 DEF InstructionOk, DefPtrOk, StackWrite
<1>5. pos \in Nat
  <2> HIDE DEF e
  <2> QED BY <1>3
<1>6. pos >= consts
  <2> HIDE DEF pos
  <2>1. pos % OffsetMod <= pos /\ pos % OffsetMod \in Int
    <3>1. pos % OffsetMod <= pos
      BY <1>3, <1>5, ModLe
    <3>2. pos % OffsetMod \in 0 .. OffsetMod - 1
      <4>1. pos \in Int
        BY <1>5
      <4> QED BY <1>3, <4>1, ModRange
    <3> QED BY <1>3, <3>1, <3>2
  <2> QED BY <1>4, <1>5, <2>1
<1>7. c \notin out
  <2>1. c \notin Span(pos, e.rvals_count)
    <3> HIDE DEF e, pos
    <3> QED BY <1>3, <1>5, <1>6 DEF Span
  <2> QED BY <2>1
<1>8. o.stack \in StacksAfter(s, e, in.arg3)
  BY <1>2 DEF ExtOutcomes, Outcome
<1>9. PICK f \in [out -> ArgValues] :
        o.stack = [x \in DOMAIN s |-> IF x \in out THEN f[x] ELSE s[x]]
  BY <1>8 DEF StacksAfter
<1> HIDE DEF out
<1> QED BY <1>7, <1>9

\* No instruction the validator accepts changes a constant, except INDEXRIR,
\* whose destination is known only at run time.
LEMMA ConstantsElsewhere ==
  ASSUME NEW img \in Image, NEW d, NEW consts \in Nat, NEW rw, NEW s, NEW flags, NEW frame,
         NEW table \in Seq(ExtEntry), NEW defcode,
         NEW in \in Instruction, InstructionOk(img, d, in, consts, rw), in.op # "INDEXRIR",
         Bound(img, table, defcode, in),
         NEW o \in Outcomes(img, table, defcode, frame, in, s, flags)
  PROVE  SameConstants(s, o.stack, consts)
<1>1. CASE in.op \in PureOps
  <2>1. o.stack = Pure(img, in, s, flags)
    BY <1>1, Kinds DEF Outcomes, Outcome
  <2> QED BY <1>1, <2>1, PureElsewhere
<1>2. CASE in.op \in DataOps
  <2>1. \E k \in LoadIndices(in, s) : o = LoadOutcome(img, in, s, k)
    BY <1>2, Kinds DEF Outcomes
  <2> QED BY <1>2, <2>1, LoadElsewhere
<1>3. CASE in.op = "INDEXRIS"
  <2>1. o = IndexOutcome(in, s, frame)
    BY <1>3, Kinds DEF Outcomes
  <2>2. in.arg3 \in Nat /\ in.arg3 >= consts
    BY <1>3 DEF InstructionOk, StackWrite, Instruction
  <2>3. in.arg3 \notin 0 .. consts - 1
    BY <2>2
  <2>4. o.stack = s \/ \E v : o.stack = Put(s, in.arg3, v)
    BY <1>3, <2>1 DEF IndexOutcome, Outcome, Dest
  <2> QED BY <2>3, <2>4, PutElsewhere DEF SameConstants
<1>4. CASE in.op = "EXTCALL"
  <2>1. o \in ExtOutcomes(table, CodeOf(img, defcode, DefOffset(in)), s, in.arg3)
    BY <1>4, Kinds DEF Outcomes
  <2> QED BY <1>4, <2>1, CallElsewhere
<1>5. CASE in.op \in BranchOps \cup CompareOps \cup {"RETURN"}
  BY <1>5, Kinds DEF Outcomes, Outcome, SameConstants
<1> QED BY <1>1, <1>2, <1>3, <1>4, <1>5, Kinds DEF Instruction
=============================================================================
