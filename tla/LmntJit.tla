------------------------------- MODULE LmntJit -------------------------------
(***************************************************************************)
(* The LMNT JIT for x86-64 (jit.c and jit-x86_64.dasc): a host compiles a  *)
(* def of a prepared archive instruction by instruction, and calls the     *)
(* result.  The machine code of one LMNT instruction runs in one step, and *)
(* the interpreter runs the same instruction beside it (ref), so that the  *)
(* two can be compared.                                                    *)
(*                                                                         *)
(* The code generator goes wrong in situations it meets while compiling;   *)
(* jit.faults collects their names.  What the properties claim is that     *)
(* there are no others (and a function with one of them is not called):    *)
(*   aliased      the second operand of an operation is its result         *)
(*   reassigned   acquiring an operand takes the register of another       *)
(*   lost         the result has no register any more, or never had        *)
(*   unwritten    a register is stored before its result is in it          *)
(*   shadowed     a result is stored below a register that holds the cell  *)
(*   stale        a cell is loaded whose value is still in a register      *)
(*   lanes        a scalar loaded into the register of a vector clears it  *)
(*   one side     a conditional assignment caches an operand on one path   *)
(*   scalar read, one lane, masked, unloaded, offset: see LmntTemplates    *)
(*   unsaved      RETURN leaves a result in its register                   *)
(*   late store   a RETURN before the end runs the stores of the end       *)
(*   flags        a comparison is tested after something changed EFLAGS    *)
(*   context      an index is checked after a call, against what is then   *)
(*                in the first argument register                           *)
(*   conversion   an index is converted to another cell than the           *)
(*                interpreter's: cvtss2si rounds and 32 bits of it are     *)
(*                added to, value_to_size_t takes the floor in a size_t    *)
(*   unordered    minss or maxss returns the other of two operands         *)
(*   order        the lanes of SUMV are added in another order             *)
(***************************************************************************)
EXTENDS LmntTemplates


CONSTANTS
  Images,    \* archives as lmnt_prepare_archive leaves them (code0: an extcall)
  ExtTable,  \* and the extcalls it found
  Memory,    \* cells of the memory area
  Fill,      \* what the cells hold before anything is written to them
  Garbage,   \* what a register nobody wrote holds
  Truncated, \* cvttss2si into 32 bits: negative where the value does not fit
  Rounded,   \* cvtss2si into 64 bits, to the nearest integer
  WordMod,   \* 2^32: rtmp1 and etmp1 are a register and its lower half
  None

MinOps == {"MINSS", "MINVV", "MINVS"}
MaxOps == {"MAXSS", "MAXVV", "MAXVS"}

ASSUME JitAssumption ==
  /\ \A img \in Images : img \in Image /\ ArchiveOk(img, Total(img), Memory)
  /\ ExtTable \in Seq(ExtEntry)
  /\ Fill \in [0 .. Memory -> Value] /\ Garbage \in Value
  /\ Truncated \in [Value -> Int] /\ Rounded \in [Value -> Int]
  /\ WordMod \in Nat \ {0}
  \* MIN and MAX of ops_bounds_impl.h
  /\ \A x, y \in Value :
       /\ \A op \in MinOps : ALU[op][<<x, y>>] = IF "LT" \in Compare[<<y, x>>] THEN y ELSE x
       /\ \A op \in MaxOps : ALU[op][<<x, y>>] = IF "LT" \in Compare[<<x, y>>] THEN y ELSE x

VARIABLES
  image, def, cpuflags, phase,
  \* the compilation: entry[i + 1] and body[i + 1] are the code before and after
  \* the label of instruction i, kept[i + 1] the registers at that label
  jit, entry, body, kept,
  \* lmnt_ictx
  stack, curDef, curStackCount,
  \* the machine: XMM registers, EFLAGS, whether rArg1 is still the context, the
  \* next LMNT instruction, and where the code has jumped to instead
  fp, eflags, rArg1, ip, leaving,
  ref,             \* the interpreter
  result, rvals    \* of the call

contextVars == <<image, def, cpuflags, stack, curDef, curStackCount>>
codeVars    == <<jit, entry, body, kept>>
machineVars == <<fp, eflags, rArg1, ip, leaving, ref>>
outVars     == <<result, rvals>>
vars == <<phase, contextVars, codeVars, machineVars, outVars>>

TheDef  == image.defs[def]
ICount  == Len(TheDef.code)
defcode == [i \in DefIds(image) |-> image.defs[i].code0]
Results == Span(ConstCount(image) + TheDef.args_count, TheDef.rvals_count)

-----------------------------------------------------------------------------
(* Compiling.                                                              *)

LibmOps     == {"SIN", "COS", "TAN", "ASIN", "ACOS", "ATAN", "LN", "LOG2", "LOG10"}
RoundingOps == {"FLOORS", "FLOORV", "ROUNDS", "ROUNDV", "CEILS", "CEILV", "TRUNCS", "TRUNCV"}

\* getNextBranchTarget walks through them in order
Targets == {Target(TheDef.code[i]) : i \in {j \in 1 .. ICount : TheDef.code[j].op \in BranchOps}}

\* A RETURN skips a store of a result: it is not the last instruction, or is
\* followed by a label
Leaves(s) ==
  /\ s.cur_in < ICount - 1 \/ ICount \in Targets
  /\ \E r \in Cached : s.fpreg[r].mod /\ Covers(s.fpreg, r) \cap Results # {}

\* The switch on the opcode
Template(s, in) ==
  LET op == in.op
      n == IF op \in Vectorial THEN 4 ELSE 1
      imm == FromBits(DefOffset(in))
      data(k) == DataAt(image, stack, image.sections[in.arg1 + 1], in.arg2 + k)
  IN
  CASE op = "NOOP" -> s
    [] op = "RETURN" ->
         Blame(Emit(s, <<[u |-> "ret"]>>), IF Leaves(s) THEN {"unsaved"} ELSE {})
    [] op \in {"ASSIGNSS", "ASSIGNVV"} -> Assign(s, in, n)
    [] op = "ASSIGNSV"  -> AssignSV(s, in)
    [] op = "ASSIGNIBS" -> Constant(s, in, <<imm>>, Tmp1)
    [] op = "ASSIGNIBV" -> Constant(s, in, <<imm, imm, imm, imm>>, Tmp1)
    [] op = "DLOADIIS"  -> Constant(s, in, <<data(0)>>, Tmp1)
    [] op = "DLOADIIV"  -> Constant(s, in, <<data(0), data(1), data(2), data(3)>>, Tmp1)
    [] op = "DLOADIRS"  -> LoadIndexed(s, in, 1)
    [] op = "DLOADIRV"  -> LoadIndexed(s, in, 4)
    [] op = "DSECLEN"   -> DataLength(s, in, FromBits(image.sections[in.arg1 + 1].count))
    [] op \in {"SQRTS", "SQRTV"} -> Unary(s, in, n)
    [] op \in {"ABSS", "ABSV"}   -> Abs(s, in, n)
    [] op \in RoundingOps -> IF "SSE41" \in cpuflags THEN Unary(s, in, n)
                             ELSE IF n = 1 THEN Extern1(s, op, in.arg1, in.arg3)
                             ELSE Extern1x4(s, in)
    [] op \in {"REMSS", "REMVV"} -> IF "SSE41" \in cpuflags THEN Remainder(s, in, n)
                                    ELSE IF n = 1 THEN Extern2(s, op, in.arg1, in.arg2, in.arg3)
                                    ELSE Extern2x4(s, in, 1)
    [] op \in LibmOps -> Extern1(s, op, in.arg1, in.arg3)
    [] op = "SINCOS"  -> Extern1(Extern1(s, "SINE", in.arg1, in.arg2), "COSINE", in.arg1, in.arg3)
    [] op \in {"ATAN2", "POWSS"} -> Extern2(s, op, in.arg1, in.arg2, in.arg3)
    [] op = "POWVV" -> Extern2x4(s, in, 1)
    [] op = "POWVS" -> Extern2x4(s, in, 0)
    [] op = "SUMV"  -> SumV(s, in)
    [] op \in {"MINVS", "MAXVS"} -> MinMaxVS(s, in)
    [] op \in {"ADDSS", "SUBSS", "MULSS", "DIVSS", "MINSS", "MAXSS",
               "ADDVV", "SUBVV", "MULVV", "DIVVV", "MINVV", "MAXVV"} -> Math(s, in, n)
    [] op = "INDEXRIS" -> IndexRIS(s, in)
    [] op = "INDEXRIR" -> IndexRIR(s, in)
    [] op \in CompareOps -> Ucomiss(s, in)
    [] op \in CondAssignOps -> CondAssign(s, in)
    [] op \in CondBranchOps \cup {"BRANCH"} -> Branch(s, in)
    [] op \in ValueBranchOps -> BranchOnValue(s, in)
    [] op = "EXTCALL" -> ExtCall(s, in, ExtTable[CodeOf(image, defcode, DefOffset(in)) + 1])

\* The code of the next instruction, after its label
Instruct(s, in) ==
  Template([s EXCEPT !.out = <<>>, !.need = {}], in)

\* "if we may have just jumped here, our cache status is unknown"
Label(s, i) == IF i \in Targets THEN WriteAndEvict(s, Cached) ELSE s

Unbound(in) == in.op = "EXTCALL" /\ CodeOf(image, defcode, DefOffset(in)) >= Len(ExtTable)

Layout(img) ==
  [c \in 0 .. StackCount(img, Memory) - 1 |-> IF c < NConst(img) THEN img.consts[c + 1] ELSE Fill[c]]

Init ==
  /\ image = None /\ def = 0 /\ cpuflags = {} /\ phase = "none"
  /\ jit = None /\ entry = <<>> /\ body = <<>> /\ kept = <<>>
  /\ stack = <<>> /\ curDef = None /\ curStackCount = 0
  /\ fp = <<>> /\ eflags = None /\ rArg1 = FALSE /\ ip = 0 /\ leaving = "no" /\ ref = None
  /\ result = "OK" /\ rvals = <<>>

Compile(img, d, simd) ==
  /\ image' = img /\ def' = d /\ cpuflags' = simd
  /\ "EXTERN" \notin img.defs[d].flags
  /\ phase' = "compiling"
  /\ jit' = [code |-> img.defs[d].code, cur_in |-> 0, out |-> <<>>,
             fpreg |-> [r \in Cached |-> EmptyReg],
             reg |-> [k \in 1 .. 3 |-> Tmp1], got |-> [k \in 1 .. 3 |-> FALSE], need |-> {},
             faults |-> {}]
  /\ stack' = Layout(img)
  /\ UNCHANGED <<entry, body, kept, curDef, curStackCount, machineVars, outVars>>

CompileNext ==
  /\ phase = "compiling" /\ jit.cur_in < ICount
  /\ LET in == TheDef.code[jit.cur_in + 1] IN
     IF Unbound(in)
     THEN result' = "NOT_FOUND" /\ phase' = "done" /\ UNCHANGED codeVars
     ELSE \E l \in {Label(jit, jit.cur_in)} : \E t \in {Instruct(l, in)} :
            /\ entry' = Append(entry, l.out)
            /\ kept' = Append(kept, l.fpreg)
            /\ body' = Append(body, t.out)
            /\ jit' = [t EXCEPT !.out = <<>>, !.cur_in = @ + 1]
            /\ UNCHANGED <<phase, result>>
  /\ UNCHANGED <<contextVars, machineVars, rvals>>

\* ok_return: the results are stored, from the registers of the last instruction
CompileEnd ==
  /\ phase = "compiling" /\ jit.cur_in = ICount
  /\ LET l == Label(jit, ICount)
         first == (ConstCount(image) + TheDef.args_count) % OffsetMod
         t == WriteAndEvict([l EXCEPT !.out = <<>>],
                            ByStack(l.fpreg, first, first + TheDef.rvals_count))
         early == \E i \in 1 .. ICount - 1 : TheDef.code[i].op = "RETURN"
     IN  /\ entry' = Append(entry, l.out)
         /\ kept' = Append(kept, l.fpreg)
         /\ body' = Append(body, t.out)
         /\ jit' = Blame(t, IF early /\ t.out # <<>> THEN {"late store"} ELSE {})
  /\ phase' = "compiled"
  /\ UNCHANGED <<contextVars, machineVars, outVars>>

-----------------------------------------------------------------------------
(* The machine.  m holds the stack, the registers and EFLAGS; next says    *)
(* whether control falls through, seek which local label it is on the way  *)
(* to, addr is the address in rtmp1, ext what the external function does.  *)

Lanes4 == 0 .. 3

\* The first n lanes of r, the others unchanged
SetLanes(m, r, n, v(_)) ==
  [m EXCEPT !.fp[r] = [k \in Lanes4 |-> IF k < n THEN v(k) ELSE m.fp[r][k]]]
\* The others cleared
LoadLanes(m, r, n, v(_)) ==
  [m EXCEPT !.fp[r] = [k \in Lanes4 |-> IF k < n THEN v(k) ELSE Zero]]

\* What a call may change
AfterCall(m) ==
  [m EXCEPT !.fp = [r \in DOMAIN m.fp |-> IF r < FirstNV THEN [k \in Lanes4 |-> Garbage] ELSE @[r]],
            !.eflags = None, !.rArg1 = FALSE]

TwoArgs == ScalarBinaryOps \cup VectorBinaryOps \cup VectorScalarOps

Violation(m) == [m EXCEPT !.next = "ACCESS_VIOLATION"]
Unknown(m, what) == [m EXCEPT !.faults = @ \cup {what}]

UnknownIf(m, wrong, what) == IF wrong THEN Unknown(m, what) ELSE m

\* Two indices below a limit, or one of them, that are not the same
Elsewhere(j, k, limit) == j # k /\ {j, k} \cap 0 .. limit - 1 # {}

\* index < count of a data section, and four of them
Index(m, u) ==
  LET v == m.fp[u.q][0]
      k == Truncated[v]
      sec == image.sections[u.sec + 1]
      n == UnknownIf(m, \E j \in Indices(v) : Elsewhere(k, j, sec.count - u.n + 1), "conversion")
  IN  IF k + u.n > sec.count \/ k < 0 THEN Violation(n)
      ELSE LoadLanes(n, u.r, u.n, LAMBDA l : DataAt(image, m.stack, sec, k + l))

\* index >= cur_stack_count is tested against the context in rArg1, without sign
Locate(m, u) ==
  LET v == m.fp[u.r][0]
      a == (Rounded[v] + u.off) % WordMod
      n == UnknownIf(m, Elsewhere(a, (ToIndex[v] + u.off) % SizeMod, curStackCount), "conversion")
  IN  IF ~m.rArg1 THEN Unknown(m, "context")
      ELSE IF a >= curStackCount THEN Violation(n) ELSE [n EXCEPT !.addr = a]

\* addss, minss and the like, of a destination x and a source y
Lane1(op, x, y) ==
  IF op \in MinOps THEN IF "LT" \in Compare[<<x, y>>] THEN x ELSE y
  ELSE IF op \in MaxOps THEN IF "LT" \in Compare[<<y, x>>] THEN x ELSE y
  ELSE ALU[op][<<x, y>>]

Arithmetic(m, u) ==
  LET x(k) == m.fp[u.r][k]
      y(k) == m.fp[u.q][k]
      interpreted(k) == IF u.op \in VectorScalarOps THEN ALU[u.op][<<y(k), x(k)>>]
                        ELSE ALU[u.op][<<x(k), y(k)>>]
      other == \E k \in 0 .. u.n - 1 : Lane1(u.op, x(k), y(k)) # interpreted(k)
  IN  SetLanes(UnknownIf(m, other, "unordered"), u.r, u.n, LAMBDA k : Lane1(u.op, x(k), y(k)))

\* shufps, addps, movhlps and addss
SumLanes(m, u) ==
  LET f == m.fp[u.r]
      sum == Add(Add(f[0], f[1]), Add(f[2], f[3]))
      other == sum # Add(Add(Add(f[0], f[1]), f[2]), f[3])
  IN  SetLanes(UnknownIf(m, other, "order"), u.r, 1, LAMBDA k : sum)

Exec(m, u) ==
  LET f == m.fp IN
  IF m.seek # "no" THEN [m EXCEPT !.seek = IF u = At(@) THEN "no" ELSE @]
  ELSE IF m.next # "fall" THEN m
  ELSE
  CASE u.u \in {"load", "loads"} -> LoadLanes(m, u.r, u.n, LAMBDA k : m.stack[u.c + k])
    [] u.u = "store"  -> [m EXCEPT !.stack =
                           [c \in DOMAIN @ |-> IF c \in Span(u.c, u.n) THEN f[u.r][c - u.c] ELSE @[c]]]
    [] u.u = "move"   -> SetLanes(m, u.r, u.n, LAMBDA k : f[u.q][k])
    [] u.u = "imm"    -> LoadLanes(m, u.r, u.n, LAMBDA k : u.v[k + 1])
    [] u.u = "int"    -> SetLanes(m, u.r, 1, LAMBDA k : u.v)
    [] u.u = "arith"  -> Arithmetic(m, u)
    [] u.u = "map"    -> SetLanes(m, u.r, u.n, LAMBDA k : ALU[u.op][<<f[u.q][k], f[u.q][k]>>])
    [] u.u = "splat"  -> SetLanes(m, u.r, 4, LAMBDA k : f[u.r][0])
    [] u.u = "sum"    -> SumLanes(m, u)
    \* dividend and divisor are kept as a pair: the difference is the remainder
    \* only when the minuend is the dividend
    [] u.u = "quot"   -> SetLanes(m, u.r, u.n, LAMBDA k : <<f[u.r][k], f[u.q][k]>>)
    [] u.u = "rest"   -> SetLanes(m, u.r, u.n, LAMBDA k :
                           IF f[u.r][k] = f[u.q][k][1] THEN ALU[u.op][f[u.q][k]] ELSE NaN)
    [] u.u = "call"   ->
         LET y == f[IF u.f \in TwoArgs THEN Tmp1 ELSE Tmp2][0]
         IN  SetLanes(AfterCall(m), Tmp2, 1, LAMBDA k : ALU[u.f][<<f[Tmp2][0], y>>])
    [] u.u = "extcall" ->
         [AfterCall(m) EXCEPT
            !.stack = [c \in DOMAIN @ |-> IF c \in Span(u.c, u.n) THEN m.ext.stack[c] ELSE @[c]],
            !.next = IF m.ext.res = "OK" THEN @ ELSE m.ext.res]
    [] u.u = "clobber" -> [m EXCEPT !.eflags = None]
    [] u.u = "ucomiss" -> [m EXCEPT !.eflags = Compare[<<f[u.r][0], f[u.q][0]>>]]
    [] u.u = "unless"  -> IF m.eflags = None THEN Unknown(m, "flags")
                          ELSE [m EXCEPT !.seek = IF m.eflags \cap u.cond = {} THEN u.l ELSE "no"]
    [] u.u = "to"      -> [m EXCEPT !.seek = u.l]
    [] u.u = "at"      -> m
    [] u.u = "jump"    -> IF u.in.op # "BRANCH" /\ m.eflags = None THEN Unknown(m, "flags")
                          ELSE IF u.in.op = "BRANCH" \/ CondHolds(BranchCond[u.in.op], m.eflags)
                          THEN [m EXCEPT !.next = "jump"] ELSE m
    [] u.u = "test"    -> IF Taken(u.in, [c \in {u.in.arg1} |-> f[u.r][0]], {})
                          THEN [m EXCEPT !.next = "jump"] ELSE m
    [] u.u = "data"    -> Index(m, u)
    [] u.u = "finite"  -> IF f[u.r][0] \in NonFinite THEN Violation(m) ELSE m
    [] u.u = "address" -> Locate(m, u)
    [] u.u = "fetch"   -> LoadLanes(m, u.r, 1, LAMBDA k : m.stack[m.addr])
    [] u.u = "put"     -> [m EXCEPT !.stack[m.addr] = f[u.r][0]]
    [] u.u = "ret"     -> [m EXCEPT !.next = "ret"]

Run(m, us) == FoldLeft(Exec, m, us)

Machine(ext) ==
  [stack |-> stack, fp |-> fp, eflags |-> eflags, rArg1 |-> rArg1, next |-> "fall",
   seek |-> "no", addr |-> 0, ext |-> ext, faults |-> {}]

-----------------------------------------------------------------------------
(* lmnt_jit_execute.                                                       *)

ArgCells == Span(ConstCount(image), TheDef.args_count)

\* After lmnt_update_args; room says whether the results fit the caller's buffer.
\* Bound: a function is called once, and only if nothing was wrong with its code
Call(args, room) ==
  /\ phase = "compiled"
  /\ jit.faults = {}
  /\ curDef' = def
  /\ curStackCount' = ConstCount(image) + TheDef.stack_count
  /\ stack' = [c \in DOMAIN stack |-> IF c \in ArgCells THEN args[c] ELSE stack[c]]
  /\ IF room
     THEN /\ phase' = "running"
          /\ fp' = [r \in 0 .. LastReg |-> [k \in Lanes4 |-> Garbage]]
          /\ eflags' = None /\ rArg1' = TRUE
          /\ ip' = 0 /\ leaving' = "no"
          /\ ref' = [stack |-> stack', cmp |-> {}, pc |-> 0, res |-> "OK"]
          /\ UNCHANGED result
     ELSE result' = "RVALS_MISMATCH" /\ phase' = "done" /\ UNCHANGED machineVars
  /\ UNCHANGED <<image, def, cpuflags, codeVars, rvals>>

Together == ip = ref.pc /\ ref.res = "OK"

\* The code of instruction ip, and what follows it before the next label
RunNext ==
  /\ phase = "running" /\ leaving = "no" /\ ip < ICount
  /\ Together
  /\ LET in == TheDef.code[ip + 1] IN
     \E o \in Outcomes(image, ExtTable, defcode, curStackCount, in, ref.stack, ref.cmp) :
       LET m == Run(Machine(o), body[ip + 1])
           n == Run(m, entry[ip + 2])
       IN  /\ fp' = n.fp /\ eflags' = n.eflags /\ rArg1' = n.rArg1
           /\ stack' = n.stack
           /\ jit' = Blame(jit, n.faults)
           /\ ip' = IF m.next = "jump" THEN Target(in) ELSE IF m.next = "fall" THEN ip + 1 ELSE ip
           /\ leaving' = IF m.next \in {"jump", "fall"} THEN "no" ELSE m.next
           /\ ref' = [stack |-> o.stack, cmp |-> NewFlags(in, ref.stack, ref.cmp),
                      pc |-> IF o.res = "BRANCHING" THEN Target(in) ELSE ref.pc + 1,
                      res |-> IF o.res = "BRANCHING" THEN "OK" ELSE o.res]
  /\ UNCHANGED <<phase, image, def, cpuflags, curDef, curStackCount, entry, body, kept, outVars>>

\* The call returns, and the results are copied out
Return(res, mem) ==
  /\ phase' = "done"
  /\ stack' = mem
  /\ result' = res
  /\ rvals' = IF res = "OK" THEN [c \in Results |-> mem[c]] ELSE <<>>
  /\ curDef' = None /\ curStackCount' = 0
  /\ UNCHANGED <<image, def, cpuflags, codeVars, machineVars>>

ReturnOk ==
  /\ phase = "running"
  /\ leaving = "ret" \/ (leaving = "no" /\ ip = ICount)
  /\ Return("OK", Run(Machine(None), body[ICount + 1]).stack)

ReturnError ==
  /\ phase = "running" /\ leaving \notin {"no", "ret"}
  /\ Return(leaving, stack)

\* Bound: once the interpreter goes another way the run is not followed
Diverge ==
  /\ phase = "running" /\ leaving = "no" /\ ip < ICount
  /\ ~Together
  /\ Return("DIVERGED", stack)

\* lmnt_jit_delete_function; the host turns to another function
Delete ==
  /\ phase \in {"compiled", "done"}
  /\ image' = None /\ def' = 0 /\ cpuflags' = {} /\ phase' = "none"
  /\ jit' = None /\ entry' = <<>> /\ body' = <<>> /\ kept' = <<>>
  /\ stack' = <<>> /\ curDef' = None /\ curStackCount' = 0
  /\ fp' = <<>> /\ eflags' = None /\ rArg1' = FALSE /\ ip' = 0 /\ leaving' = "no" /\ ref' = None
  /\ result' = "OK" /\ rvals' = <<>>

Next ==
  \/ phase = "none" /\ \E img \in Images : \E d \in DefIds(img) :
       \E simd \in {{}, {"SSE41"}} : Compile(img, d, simd)
  \/ CompileNext \/ CompileEnd
  \/ phase = "compiled" /\ \E args \in [ArgCells -> ArgValues], room \in BOOLEAN : Call(args, room)
  \/ RunNext \/ ReturnOk \/ ReturnError \/ Diverge
  \/ Delete

Spec == Init /\ [][Next]_vars

-----------------------------------------------------------------------------
(* Properties.                                                             *)

\* However operands overlap, and whichever registers are taken for them, no cell
\* is held by two registers, and a register that holds none has no flags: what
\* validateRegCache tests in debug builds.
RegCacheValid ==
  phase # "none" =>
    LET x == jit.fpreg IN
    /\ "lost" \notin jit.faults => \A r \in Cached : x[r].count = 0 => ~x[r].mod /\ ~x[r].init
    /\ \A r, q \in Cached : r # q => Covers(x, r) \cap Covers(x, q) = {}

\* While a function runs the stack together with the registers holds, between
\* two instructions, what the interpreter's stack holds: a register that is loaded
\* agrees with it, and so does every cell that no register has changed, whichever
\* path led here.
Coherent ==
  phase = "running" /\ leaving = "no" /\ jit.faults = {} =>
    /\ Together
    /\ LET x == kept[ip + 1] IN
         \A c \in DOMAIN stack :
           /\ \A r \in Cached :
                x[r].init /\ c \in Covers(x, r) => fp[r][c - x[r].pos] = ref.stack[c]
           /\ (\A r \in Cached : x[r].mod => c \notin Covers(x, r))
                => stack[c] = ref.stack[c]

RefResult == IF ref.res \in {"OK", "RETURNING"} THEN "OK" ELSE ref.res

\* A compiled function returns what the interpreter returns for the same
\* arguments, results and errors alike.
JitAgrees ==
  phase = "done" /\ ref # None /\ jit.faults = {} =>
    /\ result = RefResult
    /\ result = "OK" => \A c \in Results : rvals[c] = ref.stack[c]
=============================================================================
