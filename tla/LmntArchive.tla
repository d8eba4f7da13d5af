----------------------------- MODULE LmntArchive -----------------------------
(***************************************************************************)
(* The static half of LMNT: lmnt_value, the opcodes, an archive image as   *)
(* the interpreter sees it once it is in memory, and the validator that    *)
(* lmnt_prepare_archive runs over it (LMNT/src/validation.c).              *)
(*                                                                         *)
(* A 32-bit float is a member of the finite set Value: arithmetic is the   *)
(* table ALU, so every result below holds whatever the functions of        *)
(* ops_math_impl.h compute.  Offsets of strings and of code bodies are     *)
(* abstracted away (a def owns the code found at its offset); the offsets  *)
(* of data sections and of the defs that EXTCALL names are kept in bytes,  *)
(* because the validator and what runs do not count them alike.            *)
(***************************************************************************)
EXTENDS Integers, Sequences, FiniteSets

CONSTANTS
  Value,       \* the lmnt_value bit patterns that are told apart
  NaN,         \* the unordered one
  Zero,        \* 0.0
  NonFinite,   \* isnan(v) || isinf(v)
  SignBit,     \* signbit(v)
  ToIndex,     \* value_to_size_t on finite values
  ALU,         \* what each arithmetic opcode computes, from one or two values
  Compare,     \* the CMP_* bits lmnt_op_cmp computes from two values
  SizeMod,     \* 2^(bits of size_t)
  OffsetMod    \* 2^(bits of lmnt_offset), 65536 in the code

CmpBits == {"EQ", "LT", "GT", "UN"}

-----------------------------------------------------------------------------
(* The opcodes, grouped by the operands they take (opcodes.h).             *)

\* stack, null, stack
ScalarUnaryOps ==
  {"ASSIGNSS", "SIN", "COS", "TAN", "ASIN", "ACOS", "ATAN", "SQRTS", "LN",
   "LOG2", "LOG10", "ABSS", "FLOORS", "ROUNDS", "CEILS", "TRUNCS"}
\* stack, stack, stack
ScalarBinaryOps ==
  {"ADDSS", "SUBSS", "MULSS", "DIVSS", "REMSS", "POWSS", "MINSS", "MAXSS",
   "ATAN2"}
VectorUnaryOps ==
  {"ASSIGNVV", "SQRTV", "ABSV", "FLOORV", "ROUNDV", "CEILV", "TRUNCV"}
VectorBinaryOps ==
  {"ADDVV", "SUBVV", "MULVV", "DIVVV", "REMVV", "POWVV", "MINVV", "MAXVV"}
VectorScalarOps == {"POWVS", "MINVS", "MAXVS"}
ImmediateOps    == {"ASSIGNIBS", "ASSIGNIBV"}
DataOps         == {"DLOADIIS", "DLOADIIV", "DLOADIRS", "DLOADIRV"}

\* The condition a BRANCHC* or ASSIGNC* opcode tests
BranchCond ==
  [BRANCHCEQ |-> "EQ", BRANCHCNE |-> "NE", BRANCHCLT |-> "LT",
   BRANCHCLE |-> "LE", BRANCHCGT |-> "GT", BRANCHCGE |-> "GE",
   BRANCHCUN |-> "UN"]
AssignCond ==
  [ASSIGNCEQ |-> "EQ", ASSIGNCNE |-> "NE", ASSIGNCLT |-> "LT",
   ASSIGNCLE |-> "LE", ASSIGNCGT |-> "GT", ASSIGNCGE |-> "GE",
   ASSIGNCUN |-> "UN"]
CondBranchOps  == DOMAIN BranchCond
CondAssignOps  == DOMAIN AssignCond
ValueBranchOps == {"BRANCHZ", "BRANCHNZ", "BRANCHPOS", "BRANCHNEG", "BRANCHUN"}
BranchOps      == {"BRANCH"} \cup ValueBranchOps \cup CondBranchOps
CompareOps     == {"CMP", "CMPZ"}

ArithOps ==
  (ScalarUnaryOps \cup ScalarBinaryOps \cup VectorUnaryOps \cup VectorBinaryOps
     \cup VectorScalarOps) \ {"ASSIGNSS", "ASSIGNVV"}

Opcodes ==
  ScalarUnaryOps \cup ScalarBinaryOps \cup VectorUnaryOps \cup VectorBinaryOps
    \cup VectorScalarOps \cup ImmediateOps \cup DataOps \cup CondAssignOps
    \cup BranchOps \cup CompareOps
    \cup {"NOOP", "RETURN", "ASSIGNSV", "DSECLEN", "SUMV", "SINCOS",
          "INDEXRIS", "INDEXRIR", "EXTCALL"}

ASSUME ValueAssumption ==
  /\ NaN \in Value
  /\ Zero \in Value
  /\ NonFinite \subseteq Value
  /\ SignBit \subseteq Value
  /\ SizeMod \in Nat \ {0}
  /\ OffsetMod \in Nat \ {0}
  /\ ToIndex \in [Value -> 0 .. SizeMod - 1]
  /\ ALU \in [ArithOps \cup {"SUM", "SINE", "COSINE"} -> [Value \X Value -> Value]]
  /\ Compare \in [Value \X Value -> SUBSET CmpBits]

Apply(op, x, y) ==
  IF op \in {"ASSIGNSS", "ASSIGNVV", "ASSIGNSV"} THEN x ELSE ALU[op][<<x, y>>]

\* *(lmnt_value*)(&bits): a small pattern stands for itself
FromBits(n) == IF n \in Value THEN n ELSE NaN

CondHolds(c, flags) ==
  CASE c = "EQ" -> "EQ" \in flags
    [] c = "NE" -> "EQ" \notin flags
    [] c = "LT" -> "LT" \in flags
    [] c = "LE" -> flags \cap {"LT", "EQ"} # {}
    [] c = "GT" -> "GT" \in flags
    [] c = "GE" -> flags \cap {"GT", "EQ"} # {}
    [] c = "UN" -> "UN" \in flags

-----------------------------------------------------------------------------
(* An archive image.                                                       *)

DefFlags == {"INTERFACE", "EXTERN", "HAS_BACKBRANCHES", "HAS_DEFAULT_ARGS"}

Instruction == [op : Opcodes, arg1 : Nat, arg2 : Nat, arg3 : Nat]

\* code is what runs, the instructions at the def's 32-bit code offset; checked
\* is what validate_code reads, whose code_index keeps 16 bits of that offset
Def == [name : STRING, flags : SUBSET DefFlags,
        code : Seq(Instruction), checked : Seq(Instruction),
        code0 : Nat,       \* what the file has in an extern's code member
        stack_count : Nat, args_count : Nat, rvals_count : Nat,
        default_args_index : Nat]

Section == [offset : Nat, count : Nat]    \* bytes, values

\* base is the number of cells the archive takes before its constants; words
\* is the data segment, one value per 4-byte word; stray is what is read as a
\* def at an offset where no def of the archive begins
Image == [base : Nat, consts : Seq(Value), defs : Seq(Def), stray : Def,
          sections : Seq(Section), words : Seq(Value)]

DefIds(img)  == 1 .. Len(img.defs)

\* hdr->constants_length / sizeof(lmnt_value), which the validator uses, and
\* validated_get_constants_count, which returns it as a lmnt_offset
NConst(img)     == Len(img.consts)
ConstCount(img) == NConst(img) % OffsetMod

\* validated_get_data_sections_count, a lmnt_offset too
NSections(img) == Len(img.sections) % OffsetMod

Total(img)   == img.base + NConst(img)
DataLen(img) == 4 * Len(img.words)
DataStart(img) == 4 + 8 * NSections(img)

\* LMNT_COMBINE_OFFSET(arg2, arg3) of a branch and (arg1, arg2) of a call
Target(in)   == in.arg2 + in.arg3 * OffsetMod
DefOffset(in) == in.arg1 + in.arg2 * OffsetMod

\* validated_get_def: the def at a byte offset of the def segment
DefSize == 16
DefIdAt(off) == off \div DefSize + 1
NamesDef(img, off) == off % DefSize = 0 /\ DefIdAt(off) \in DefIds(img)
DefAt(img, off) == IF NamesDef(img, off) THEN img.defs[DefIdAt(off)] ELSE img.stray

\* Its code member in memory, once lmnt_prepare_archive has written those of the
\* defs
CodeOf(img, defcode, off) ==
  IF NamesDef(img, off) THEN defcode[DefIdAt(off)] ELSE img.stray.code0

-----------------------------------------------------------------------------
(* The validator.                                                          *)

\* Mutants: the limit is one cell too far; the lower limit is forgotten
StackReadPast(arg, count, consts, rw) == arg + count <= consts + rw + 1
StackWriteAnywhere(arg, count, consts, rw) == arg + count <= consts + rw

\* validate_operand_stack_read and validate_operand_stack_write
StackRead(arg, count, consts, rw)  == arg + count <= consts + rw
StackWrite(arg, count, consts, rw) ==
  /\ arg >= consts
  /\ arg + count <= consts + rw

SectionOk(img, arg1) == arg1 < NSections(img)
DataImmOk(img, arg1, arg2, size) ==
  /\ SectionOk(img, arg1)
  /\ arg2 + size <= img.sections[arg1 + 1].count

\* The part of validate_def_with_flags that does not look at code
DefHeaderOk(img, d, rw) ==
  /\ d.stack_count <= rw
  /\ d.stack_count >= (d.args_count + d.rvals_count) % OffsetMod
  /\ d.flags \cap {"EXTERN", "INTERFACE"} # {}
       => d.stack_count = (d.args_count + d.rvals_count) % OffsetMod
  /\ "HAS_DEFAULT_ARGS" \in d.flags => d.default_args_index < NSections(img)

\* The call of validate_def_with_flags in validate_operand_defptr, whose
\* def_index is a lmnt_offset: it looks at the def at the low 16 bits of off
ExternOk(img, off, rw) ==
  LET near == off % OffsetMod IN
  /\ near + DefSize <= DefSize * Len(img.defs)
  /\ DefHeaderOk(img, DefAt(img, near), rw)
  /\ "EXTERN" \in DefAt(img, near).flags

\* Mutant: the results are checked where the arguments are
DefPtrShort(img, off, pos, consts, rw) ==
  /\ ExternOk(img, off, rw)
  /\ LET t == DefAt(img, off) IN
       /\ "INTERFACE" \notin t.flags
       /\ StackRead(pos, t.args_count, consts, rw)
       /\ StackWrite(pos, t.rvals_count, consts, rw)

\* validate_operand_defptr: rw is the calling def's own stack count, and the
\* counts are those of the def at the whole offset
DefPtrOk(img, off, pos, consts, rw) ==
  /\ ExternOk(img, off, rw)
  /\ LET t == DefAt(img, off) IN
       /\ "INTERFACE" \notin t.flags
       /\ StackRead(pos, t.args_count, consts, rw)
       /\ StackWrite((pos + t.args_count) % OffsetMod, t.rvals_count, consts, rw)

\* one off the end means branching to the end of the function
CodePtrOk(d, target) == target <= Len(d.code)

\* The spans an opcode's operands cover: values read through arg1 and arg2,
\* values written through arg3 (validate_instruction)
Vectorial == VectorUnaryOps \cup VectorBinaryOps \cup VectorScalarOps
Reads1(op) ==
  IF op \in Vectorial \cup {"SUMV"} THEN 4
  ELSE IF op \in ImmediateOps \cup DataOps \cup {"DSECLEN", "NOOP", "RETURN", "EXTCALL", "BRANCH"}
                   \cup CondBranchOps
       THEN 0 ELSE 1
Reads2(op) ==
  IF op \in VectorBinaryOps THEN 4
  ELSE IF op \in ScalarBinaryOps \cup VectorScalarOps \cup CondAssignOps
                   \cup {"CMP", "DLOADIRS", "DLOADIRV"}
       THEN 1 ELSE 0
Writes3(op) ==
  IF op \in Vectorial \cup {"ASSIGNSV", "ASSIGNIBV", "DLOADIIV", "DLOADIRV"} THEN 4 ELSE 1

\* Opcodes that name no cell to write in arg3
NoResultOps == BranchOps \cup CompareOps \cup {"NOOP", "RETURN", "INDEXRIR", "EXTCALL"}

\* The cells an operand names are checked only when the opcode has that operand
InstructionOk(img, d, in, consts, rw) ==
  /\ in.op \in Opcodes
  /\ Reads1(in.op) > 0 => StackRead(in.arg1, Reads1(in.op), consts, rw)
  /\ Reads2(in.op) > 0 => StackRead(in.arg2, Reads2(in.op), consts, rw)
  /\ in.op = "INDEXRIR" => StackRead(in.arg3, 1, consts, rw)
  /\ in.op = "INDEXRIS" => StackWrite(in.arg3, in.arg2, consts, rw)
  /\ in.op \notin NoResultOps \cup {"INDEXRIS"}
       => StackWrite(in.arg3, Writes3(in.op), consts, rw)
  /\ in.op = "SINCOS"   => StackWrite(in.arg2, 1, consts, rw)
  /\ in.op = "DLOADIIS" => DataImmOk(img, in.arg1, in.arg2, 1)
  /\ in.op = "DLOADIIV" => DataImmOk(img, in.arg1, in.arg2, 4)
  /\ in.op \in {"DLOADIRS", "DLOADIRV", "DSECLEN"} => SectionOk(img, in.arg1)
  /\ in.op \in BranchOps => CodePtrOk(d, Target(in))
  /\ in.op = "EXTCALL"  => DefPtrOk(img, DefOffset(in), in.arg3, consts, rw)

\* Mutant: a branch to the instruction before is not seen
BranchesBackFar(d) ==
  \E i \in 1 .. Len(d.checked) : d.checked[i].op \in BranchOps /\ Target(d.checked[i]) < i - 2

\* Branches are compared by their 0-based position: i is 1-based
BranchesBack(d) ==
  \E i \in 1 .. Len(d.checked) : d.checked[i].op \in BranchOps /\ Target(d.checked[i]) < i - 1

\* Mutant: only a needless HAS_BACKBRANCHES is refused
CodeOkOneWay(img, d, consts, rw) ==
  /\ \A i \in 1 .. Len(d.checked) : InstructionOk(img, d, d.checked[i], consts, rw)
  /\ \A i \in 1 .. Len(d.checked) :
       d.checked[i].op \in BranchOps => Target(d.checked[i]) # i - 1
  /\ "HAS_BACKBRANCHES" \in d.flags => BranchesBack(d)

CodeOk(img, d, consts, rw) ==
  /\ \A i \in 1 .. Len(d.checked) : InstructionOk(img, d, d.checked[i], consts, rw)
  /\ \A i \in 1 .. Len(d.checked) :
       d.checked[i].op \in BranchOps => Target(d.checked[i]) # i - 1
  /\ BranchesBack(d) <=> "HAS_BACKBRANCHES" \in d.flags

DefOk(img, d, consts, rw) ==
  /\ DefHeaderOk(img, d, rw)
  /\ "EXTERN" \notin d.flags => CodeOk(img, d, consts, d.stack_count)

\* (the check adds a count of values to a count of bytes, as the code does)
DataOk(img) ==
  \A i \in 1 .. NSections(img) :
     /\ img.sections[i].offset >= DataStart(img)
     /\ img.sections[i].offset + img.sections[i].count < DataLen(img)

\* memory is in cells; the subtractions are on size_t
StackCount(img, memory)   == (memory - img.base) % SizeMod
RwStackCount(img, memory) == (StackCount(img, memory) - NConst(img)) % SizeMod

\* lmnt_archive_validate of an image of which size cells have been loaded: what
\* it tests before it walks the defs
SegmentsOk(img, size) ==
  /\ size = Total(img)
  /\ DataStart(img) <= DataLen(img)
  /\ DataOk(img)

\* The defs the walk comes to: def_index is a lmnt_offset
Visited(img) == {i \in DefIds(img) : DefSize * (i - 1) < OffsetMod}
VisitedOk(img, memory) ==
  \A i \in Visited(img) :
    DefOk(img, img.defs[i], NConst(img), RwStackCount(img, memory))

\* The walk ends only if def_index can reach the end of the segment
WalkEnds(img) == DefSize * Len(img.defs) < OffsetMod

ArchiveOk(img, size, memory) ==
  /\ SegmentsOk(img, size)
  /\ VisitedOk(img, memory)
  /\ WalkEnds(img)

\* It starts again at the first def, for ever
Endless(img, size, memory) ==
  /\ SegmentsOk(img, size)
  /\ VisitedOk(img, memory)
  /\ ~WalkEnds(img)

\* An archive whose offsets and counts fit in 16 bits: the code that is validated
\* is the code that runs, and every EXTCALL names a def of the archive
Near(img) ==
  /\ NConst(img) < OffsetMod
  /\ \A i \in DefIds(img) :
       /\ img.defs[i].checked = img.defs[i].code
       /\ \A j \in 1 .. Len(img.defs[i].code) :
            img.defs[i].code[j].op = "EXTCALL"
              => NamesDef(img, DefOffset(img.defs[i].code[j]))
=============================================================================
