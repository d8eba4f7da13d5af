---------------------------- MODULE LmntTemplates ----------------------------
(***************************************************************************)
(* What the LMNT JIT emits for each instruction (the switch of             *)
(* LMNT/src/jit/jit-x86_64.dasc), as an operator on the state of the       *)
(* compilation.  The operands of a template are acquired in the order of   *)
(* the code, because one acquisition can disturb another.                  *)
(*                                                                         *)
(* A memory operand of an instruction is loaded into the free scratch      *)
(* register; what one instruction computes in a lane is left to LmntJit.   *)
(***************************************************************************)
EXTENDS LmntRegisters

Arith(op, r, q, n) == [u |-> "arith", op |-> op, r |-> r, q |-> q, n |-> n]  \* r := r op q
Map(op, r, q, n)   == [u |-> "map", op |-> op, r |-> r, q |-> q, n |-> n]    \* r := op q
Splat(r)           == [u |-> "splat", r |-> r]
Convert(r, v)      == [u |-> "int", r |-> r, v |-> v]         \* keeps the other lanes
Clobber            == [u |-> "clobber"]                      \* EFLAGS
JumpTo(l)          == [u |-> "to", l |-> l]                  \* a local label,
At(l)              == [u |-> "at", l |-> l]                  \* and its place
Unless(cond, l)    == [u |-> "unless", cond |-> cond, l |-> l]

\* writes_or_notify and writev_or_notify
WriteOrNotify(s, pos, n, tmp) ==
  IF s.reg[3] = tmp THEN Emit(s, <<Store(pos, tmp, n)>>) ELSE NotifyWritten(s, s.reg[3])

\* Operand k, from its register if it has one
Copied(s, k, n, into, pos) ==
  IF s.got[k] THEN <<Move(into, s.reg[k], n)>> ELSE <<Load(into, pos, n)>>

\* The scalar in tmp is the result
ResultFrom(s, tmp, pos) ==
  WriteOrNotify(EmitOf(s, LAMBDA t : IF t.reg[3] = tmp THEN <<>> ELSE <<Move(t.reg[3], tmp, 1)>>),
                pos, 1, tmp)

Result(s, in, n, tmp) == OrDefault(s, 3, in.arg3, n, TRUE, tmp)

-----------------------------------------------------------------------------
(* Assignments and constants.                                              *)

AssignTo(s, in, n) ==
  IF s.got[3] THEN NotifyWritten(Emit(s, <<Move(s.reg[3], s.reg[1], n)>>), s.reg[3])
  ELSE Emit(s, <<Store(in.arg3, s.reg[1], n)>>)

AssignFrom(s, in, n) ==
  IF s.got[1] THEN AssignTo(Acquire(Drop(s, {1}), 3, in.arg3, n, TRUE), in, n)
  ELSE WriteOrNotify(EmitOf(Result(s, in, n, Tmp1), LAMBDA t : <<Load(t.reg[3], in.arg1, n)>>),
                     in.arg3, n, Tmp1)

Assign(s, in, n) ==
  IF in.arg1 = in.arg3 THEN s ELSE AssignFrom(Acquire(s, 1, in.arg1, n, FALSE), in, n)

\* A scalar into every lane of the register of a vector
Broadcast(s, k, pos) ==
  LET a == Acquire(s, k, pos, 1, FALSE)
  IN  Drop(EmitOf(a, LAMBDA t : <<IF t.got[k] THEN Move(t.reg[3], t.reg[k], 1)
                               ELSE [Load(t.reg[3], pos, 1) EXCEPT !.u = "loads"],
                               Splat(t.reg[3])>>), {k})

AssignSV(s, in) ==
  WriteOrNotify(Broadcast(Result(s, in, 4, Tmp1), 1, in.arg1), in.arg3, 4, Tmp1)

\* ASSIGNIB* and DLOADII*: a constant of the machine code
Constant(s, in, v, tmp) ==
  LET r3 == Result(s, in, Len(v), tmp)
  IN  WriteOrNotify(EmitOf(r3, LAMBDA t : <<Imm(t.reg[3], v)>>), in.arg3, Len(v), tmp)

\* DSECLEN: an integer of the machine code, converted
DataLength(s, in, v) ==
  WriteOrNotify(EmitOf(Result(s, in, 1, Tmp2), LAMBDA t : <<Convert(t.reg[3], v)>>), in.arg3, 1, Tmp2)

\* ASSIGNC**: the two operands are acquired one after the other, each on its
\* own side of a jump, though what that puts out runs on one side only
Side(s, k, pos) ==
  LET a == Acquire(s, k, pos, 1, FALSE)
      b == BlameOf(a, LAMBDA t : IF t.out = s.out THEN {} ELSE {"one side"})
  IN  Drop(EmitOf(b, LAMBDA t : Copied(t, k, 1, t.reg[3], pos)), {k})

CondAssign(s, in) ==
  LET swap == in.op \in {"ASSIGNCNE", "ASSIGNCUN"}
      cond == CASE in.op = "ASSIGNCNE" -> {"EQ"}
                [] in.op = "ASSIGNCUN" -> CmpBits \ {"UN"}
                [] OTHER -> {f \in CmpBits : CondHolds(AssignCond[in.op], {f})}
      x == IF swap THEN in.arg2 ELSE in.arg1
      y == IF swap THEN in.arg1 ELSE in.arg2
      s1 == Side(Emit(Result(s, in, 1, Tmp1), <<Unless(cond, "else")>>), 1, x)
      s2 == Side(Emit(s1, <<JumpTo("end"), At("else")>>), 2, y)
  IN  WriteOrNotify(Emit(s2, <<At("end")>>), in.arg3, 1, Tmp1)

-----------------------------------------------------------------------------
(* Arithmetic.                                                             *)

MathFaults(s, in, n) ==
  (IF s.reg[2] = s.reg[3] /\ in.arg1 # in.arg3 THEN {"aliased"} ELSE {})
    \cup (IF n = 4 /\ ~s.got[1] THEN {"scalar read"} ELSE {})

\* Mutant: the first operand is not copied
MathInPlace(s, in, n) ==
  LET r2 == OrLoad(Result(s, in, n, Tmp1), 2, in.arg2, n, Tmp2)
  IN  WriteOrNotify(EmitOf(r2, LAMBDA t : <<Arith(in.op, t.reg[3], t.reg[2], n)>>),
                    in.arg3, n, Tmp1)

\* maths2 and mathv2; a first operand that has no register is read by movss,
\* also when it is a vector
Math(s, in, n) ==
  LET r1 == Acquire(Result(s, in, n, Tmp1), 1, in.arg1, n, FALSE)
      s1 == EmitOf(r1, LAMBDA t : IF ~t.got[1] THEN <<Load(t.reg[3], in.arg1, 1)>>
                               ELSE IF t.reg[1] = t.reg[3] THEN <<>>
                               ELSE <<Move(t.reg[3], t.reg[1], n)>>)
      r2 == OrLoad(Drop(s1, {1}), 2, in.arg2, n, Tmp2)
      s2 == EmitOf(r2, LAMBDA t : <<Arith(in.op, t.reg[3], t.reg[2], n)>>)
  IN  WriteOrNotify(BlameOf(s2, LAMBDA t : MathFaults(t, in, n)), in.arg3, n, Tmp1)

\* SQRT*, and FLOOR*, ROUND*, CEIL*, TRUNC* where there is SSE4.1
Unary(s, in, n) ==
  LET r1 == OrLoad(Result(s, in, n, Tmp1), 1, in.arg1, n, Tmp2)
  IN  WriteOrNotify(EmitOf(r1, LAMBDA t : <<Map(in.op, t.reg[3], t.reg[1], n)>>), in.arg3, n, Tmp1)

\* ABS*: the mask is loaded over a result that has no register of its own
Abs(s, in, n) ==
  LET r1 == Acquire(Result(s, in, n, Tmp1), 1, in.arg1, n, FALSE)
      s1 == EmitOf(r1, LAMBDA t : Copied(t, 1, n, t.reg[3], in.arg1)
                                 \o <<Imm(Tmp1, <<NaN, NaN, NaN, NaN>>),
                                      Map(in.op, t.reg[3], t.reg[3], n)>>)
  IN  WriteOrNotify(BlameOf(s1, LAMBDA t : IF t.reg[3] = Tmp1 THEN {"masked"} ELSE {}),
                    in.arg3, n, Tmp1)

\* REM* with SSE4.1: arg1 - floor(arg1 / arg2) * arg2, where the minuend is
\* always read from the stack; the scratch register for the result is not
\* the one writes_or_notify expects
Remainder(s, in, n) ==
  LET r1 == Acquire(OrLoad(s, 2, in.arg2, n, Tmp2), 1, in.arg1, n, FALSE)
      s1 == EmitOf(r1, LAMBDA t : Copied(t, 1, n, Tmp1, in.arg1)
                                 \o <<[u |-> "quot", r |-> Tmp1, q |-> t.reg[2], n |-> n]>>)
      r3 == Result(Drop(s1, {1, 2}), in, n, Tmp2)
      s3 == EmitOf(r3, LAMBDA t : <<Load(t.reg[3], in.arg1, n),
                                 [u |-> "rest", op |-> in.op, r |-> t.reg[3], q |-> Tmp1, n |-> n]>>)
  IN  WriteOrNotify(s3, in.arg3, n, Tmp1)

SumV(s, in) ==
  LET r1 == Acquire(Result(s, in, 1, Tmp1), 1, in.arg1, 4, FALSE)
      s1 == EmitOf(r1, LAMBDA t : Copied(t, 1, 4, Tmp1, in.arg1) \o <<[u |-> "sum", r |-> Tmp1]>>)
  IN  ResultFrom(s1, Tmp1, in.arg3)

\* MINVS and MAXVS: the scalar is the first operand of minps and maxps
MinMaxVS(s, in) ==
  LET r1 == OrLoad(Broadcast(Result(s, in, 4, Tmp1), 2, in.arg2), 1, in.arg1, 4, Tmp2)
      s1 == EmitOf(r1, LAMBDA t : <<Arith(in.op, t.reg[3], t.reg[1], 4)>>)
  IN  WriteOrNotify(BlameOf(s1, LAMBDA t : IF t.reg[1] = t.reg[3] THEN {"aliased"} ELSE {}),
                    in.arg3, 4, Tmp1)

-----------------------------------------------------------------------------
(* Calls: of libm, and of external functions.                              *)

\* The C function f of xmm0 (and xmm1), with what it may use evicted
CallC(s, f) ==
  Emit(WriteAndEvict(s, Volatile), <<[u |-> "call", f |-> f]>>)

Answer(s, pos) ==
  Drop(ResultFrom(OrDefault(s, 3, pos, 1, TRUE, Tmp2), Tmp2, pos), {3})

Argument(s, k, xmm, pos) ==
  Drop(EmitOf(Acquire(s, k, pos, 1, FALSE), LAMBDA t : Copied(t, k, 1, xmm, pos)), {k})

Extern1(s, f, arg, out) == Answer(CallC(Argument(s, 1, Tmp2, arg), f), out)
Extern2(s, f, arg1, arg2, out) ==
  Answer(CallC(Argument(Argument(s, 1, Tmp2, arg1), 2, Tmp1, arg2), f), out)

\* Lane after lane; k2 is 0 for a second operand that is one cell
Extern1x4(s, in) ==
  LET lane(t, k) == Extern1(t, in.op, in.arg1 + k, in.arg3 + k)
  IN  lane(lane(lane(lane(s, 0), 1), 2), 3)
Extern2x4(s, in, k2) ==
  LET lane(t, k) == Extern2(t, in.op, in.arg1 + k, in.arg2 + k * k2, in.arg3 + k)
  IN  lane(lane(lane(lane(s, 0), 1), 2), 3)

\* e is the extcall_info the def was bound to
ExtCall(s, in, e) ==
  LET n == e.args_count + e.rvals_count
      s1 == WriteAndEvict(s, ByStack(s.fpreg, in.arg3, in.arg3 + n))
  IN  Emit(WriteAndEvict(s1, Volatile),
           <<[u |-> "extcall", c |-> in.arg3 + e.args_count, n |-> e.rvals_count]>>)

-----------------------------------------------------------------------------
(* Indexed accesses: to the data segment, and to the stack.                *)

\* isLocationInRegisterCache decides whether the index is loaded
DataIndex(s, pos) ==
  IF Overlapping(s.fpreg, pos, 1) # {} THEN OrDefault(s, 2, pos, 1, FALSE, Tmp1)
  ELSE Emit([s EXCEPT !.reg[2] = Tmp1, !.got[2] = TRUE], <<Load(Tmp1, pos, 1)>>)

\* DLOADIR*: n is the number of values read, but only one is written to the
\* stack when the result has no register
LoadIndexed(s, in, n) ==
  LET r2 == DataIndex(Result(s, in, n, Tmp2), in.arg2)
      s1 == EmitOf(r2, LAMBDA t : <<Clobber,
              [u |-> "data", sec |-> in.arg1, r |-> t.reg[3], q |-> t.reg[2], n |-> n]>>)
      s2 == BlameOf(s1, LAMBDA t : (IF t.got[2] THEN {} ELSE {"unloaded"})
                                  \cup (IF n = 4 /\ t.reg[3] = Tmp2 THEN {"one lane"} ELSE {}))
  IN  WriteOrNotify(s2, in.arg3, 1, Tmp2)

Finite(r) == [u |-> "finite", r |-> r]
\* index >= cur_stack_count is tested against the context in rArg1
Address(r, off) == [u |-> "address", r |-> r, off |-> off]

IndexRIS(s, in) ==
  LET s1 == EmitOf(OrLoad(FlushAll(s), 1, in.arg1, 1, Tmp2),
                LAMBDA t : <<Clobber, Finite(t.reg[1]), Address(t.reg[1], in.arg2)>>)
      s3 == EmitOf(Result(Drop(s1, {1}), in, 1, Tmp1),
                LAMBDA t : <<[u |-> "fetch", r |-> t.reg[3], n |-> 1]>>)
  IN  WriteOrNotify(s3, in.arg3, 1, Tmp1)

\* (the immediate offset is added to both indices)
IndexRIR(s, in) ==
  LET s1 == EmitOf(OrLoad(WriteAndEvict(s, Cached), 1, in.arg1, 1, Tmp2),
                LAMBDA t : <<Clobber, Finite(t.reg[1])>>)
      s3 == EmitOf(OrLoad(s1, 3, in.arg3, 1, Tmp1),
                LAMBDA t : <<Finite(t.reg[3]),
                             Address(t.reg[1], in.arg2), [u |-> "fetch", r |-> Tmp2, n |-> 1],
                             Address(t.reg[3], in.arg2), [u |-> "put", r |-> Tmp2]>>)
  IN  Blame(WriteAndEvict(s3, Cached), IF in.arg2 = 0 THEN {} ELSE {"offset"})

-----------------------------------------------------------------------------
(* Comparisons and branches.                                               *)

Comparand(s, in) ==
  IF in.op = "CMP" THEN OrLoad(s, 2, in.arg2, 1, Tmp2)
  ELSE Emit([s EXCEPT !.reg[2] = Tmp2], <<Imm(Tmp2, <<Zero, Zero, Zero, Zero>>)>>)

Ucomiss(s, in) ==
  EmitOf(Comparand(OrLoad(s, 1, in.arg1, 1, Tmp1), in),
      LAMBDA t : <<[u |-> "ucomiss", r |-> t.reg[1], q |-> t.reg[2]]>>)

Branch(s, in) ==
  Emit(WriteAndEvict(s, Cached), <<[u |-> "jump", in |-> in]>>)

BranchOnValue(s, in) ==
  EmitOf(WriteAndEvict(OrLoad(s, 1, in.arg1, 1, Tmp1), Cached),
      LAMBDA t : <<Clobber, [u |-> "test", r |-> t.reg[1], in |-> in]>>)
=============================================================================
