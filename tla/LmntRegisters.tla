---------------------------- MODULE LmntRegisters ----------------------------
(***************************************************************************)
(* The register cache of the LMNT JIT (LMNT/src/jit: jithelpers.h and      *)
(* reghelpers-x86.h): which cells of the stack the XMM registers hold      *)
(* while a function is compiled, and the machine code that acquiring,      *)
(* flushing and evicting them adds to the output.                          *)
(*                                                                         *)
(* s is a jit_compile_state with the variables of the compiling function:  *)
(* the code, cur_in, the registers (fpreg), the output, and reg1 to reg3.  *)
(* Two fields are history: need, the operands whose registers are still to *)
(* be used, and faults, the situations met so far in which the output is   *)
(* not what the cache says (see LmntJit).                                  *)
(***************************************************************************)
EXTENDS LmntOps, SequencesExt


CONSTANTS
  LastReg,  \* xmm0 and xmm1 are scratch; 2 .. LastReg (15 in the code) cache cells
  FirstNV   \* from this register on a call leaves them alone (6 on Windows, else 16)

ASSUME RegistersAssumption ==
  /\ LastReg \in Nat \ {0, 1}
  /\ FirstNV \in 2 .. LastReg + 1

Tmp1 == 1    \* xmmtmp1
Tmp2 == 0    \* xmmtmp2
Cached    == 2 .. LastReg
Volatile  == 2 .. FirstNV - 1
Preferred == FirstNV .. LastReg

\* reg_status; a register is in use when count is not 0
EmptyReg == [pos |-> 0, count |-> 0, mod |-> FALSE, init |-> FALSE, importance |-> 0]

Least(S) == CHOOSE r \in S : \A q \in S : r <= q

Covers(x, r) == Span(x[r].pos, x[r].count)

-----------------------------------------------------------------------------
(* Machine code.  n is the number of lanes: 1 for movss, 4 for movups and  *)
(* movaps.                                                                 *)

Load(r, c, n)  == [u |-> "load", r |-> r, c |-> c, n |-> n]    \* clears the other lanes
Store(c, r, n) == [u |-> "store", r |-> r, c |-> c, n |-> n]
Move(r, q, n)  == [u |-> "move", r |-> r, q |-> q, n |-> n]    \* keeps the other lanes
Imm(r, v)      == [u |-> "imm", r |-> r, v |-> v, n |-> Len(v)]

\* The instructions that clear the lanes they do not write (cvtsi2ss does not)
Clearing == {"load", "imm", "data", "fetch"}

Overlap(x, r, c, n) ==
  x[r].count > 0 /\ x[r].pos < c + n /\ c < x[r].pos + x[r].count

InUse(x, r, c, n) == x[r].init /\ Overlap(x, r, c, n)

\* What is wrong with emitting u while the registers are x
EmitFaults(x, u) ==
  (IF u.u \in {"load", "loads"} /\ \E q \in Cached : x[q].mod /\ InUse(x, q, u.c, u.n)
   THEN {"stale"} ELSE {})
    \cup
  (IF u.u = "store" /\ \E q \in Cached : q # u.r /\ InUse(x, q, u.c, u.n)
   THEN {"shadowed"} ELSE {})
    \cup
  (IF u.u \in Clearing /\ u.r \in Cached /\ u.n < x[u.r].count THEN {"lanes"} ELSE {})

Emit(s, us) ==
  [s EXCEPT !.out = @ \o us,
            !.faults = @ \cup UNION {EmitFaults(s.fpreg, us[k]) : k \in DOMAIN us}]

Blame(s, what) == [s EXCEPT !.faults = @ \cup what]

\* Code, or a fault, that depends on the registers
EmitOf(s, code(_)) == Emit(s, code(s))
BlameOf(s, what(_)) == Blame(s, what(s))

-----------------------------------------------------------------------------
(* Reading, writing and evicting registers.                                *)

InitialiseRegister(s, r) ==
  LET e == Emit(s, <<Load(r, s.fpreg[r].pos, s.fpreg[r].count)>>)
  IN  [e EXCEPT !.fpreg[r].init = TRUE]

StoreOf(x, r) == <<Store(x[r].pos, r, x[r].count)>>

\* (a register that is to be written but has not been yet is stored as it is)
FlushRegister(s, r) ==
  IF s.fpreg[r].count = 0 \/ ~s.fpreg[r].mod THEN s
  ELSE LET e == Emit(s, StoreOf(s.fpreg, r))
       IN  Blame([e EXCEPT !.fpreg[r].mod = FALSE],
                 IF s.fpreg[r].init THEN {} ELSE {"unwritten"})

\* notifyRegisterWritten; the scratch registers have a status nobody looks at
NotifyWritten(s, r) ==
  IF r \in Cached
  THEN Blame([s EXCEPT !.fpreg[r].init = TRUE, !.fpreg[r].mod = TRUE],
             IF s.fpreg[r].count = 0 THEN {"lost"} ELSE {})
  ELSE Blame(s, {"lost"})

\* writeAndEvictRegister for each register of S in turn
WriteAndEvict(s, S) ==
  LET x == s.fpreg
      used == {r \in S : x[r].count > 0}
      stores == FlattenSeq([r \in 1 .. LastReg |->
                              IF r \in used /\ x[r].mod /\ x[r].init THEN StoreOf(x, r) ELSE <<>>])
      empty(r) == [x[r] EXCEPT !.count = 0, !.mod = FALSE, !.init = FALSE]
  IN  IF used = {} THEN s
      ELSE [Emit(s, stores) EXCEPT !.fpreg = [r \in Cached |-> IF r \in used THEN empty(r) ELSE x[r]]]

\* Mutant: modified registers are not stored
FlushNothing(s) == s

\* flushRegister for each register in turn
FlushAll(s) ==
  LET x == s.fpreg
      dirty == {r \in Cached : x[r].count > 0 /\ x[r].mod}
      stores == FlattenSeq([r \in 1 .. LastReg |-> IF r \in dirty THEN StoreOf(x, r) ELSE <<>>])
  IN  Blame([Emit(s, stores) EXCEPT
               !.fpreg = [r \in Cached |-> IF r \in dirty THEN [x[r] EXCEPT !.mod = FALSE] ELSE x[r]]],
            IF \A r \in dirty : x[r].init THEN {} ELSE {"unwritten"})

\* platformWriteAndEvictByStack
ByStack(x, first, end) ==
  {r \in Cached : x[r].pos < end /\ x[r].pos + x[r].count > first}

-----------------------------------------------------------------------------
(* Choosing a register.                                                    *)

\* getAccessSize: the cells an operand of an opcode is known to stand for
AccessSize ==
  [op \in Opcodes |->
     <<IF op \in {"INDEXRIS", "INDEXRIR"} THEN 0 ELSE Reads1(op),
       IF op = "SINCOS" THEN 1 ELSE Reads2(op),
       IF op \in NoResultOps THEN 0 ELSE Writes3(op)>>]

Args(in) == <<in.arg1, in.arg2, in.arg3>>

LookaheadSize == 8

\* How often the next instructions use the cell: reads and writes weigh the same
Lookahead(s, pos, n) ==
  LET last == s.cur_in + LookaheadSize
      near == {i \in DOMAIN s.code : i - 1 > s.cur_in /\ i - 1 <= last}
  IN  4 * Cardinality({p \in near \X (1 .. 3) :
            LET in == s.code[p[1]] IN
              /\ Args(in)[p[2]] = pos
              /\ AccessSize[in.op][p[2]] \in 1 .. n})

\* Mutant: only what begins at the cell counts
OverlappingAt(x, pos, n) == {r \in Cached : x[r].count > 0 /\ x[r].pos = pos}

\* checkForOverlap returns the first of them
Overlapping(x, pos, n) == {r \in Cached : Overlap(x, r, pos, n)}

\* OVERLAP_ALIGNED or OVERLAP_ALIGNED_SUBSET
Aligned(x, r, pos, n) == x[r].pos = pos /\ n <= x[r].count

Weakest(x) ==
  Least({r \in Cached : \A q \in Cached : x[r].importance <= x[q].importance})

\* chooseExistingRegister: at most one
Choose(x, importance) ==
  LET free == {r \in Cached : x[r].count = 0} IN
  IF free \cap Preferred # {} THEN {Least(free \cap Preferred)}
  ELSE IF free # {} THEN {Least(free)}
  ELSE {r \in {Weakest(x)} : importance > x[r].importance}

-----------------------------------------------------------------------------
(* Acquiring a register for operand k, which is one cell or four: reg[k]   *)
(* is the code's variable of that name, and got[k] what the function has   *)
(* returned.                                                               *)

\* History: these operands are not needed any more
Drop(s, K) == [s EXCEPT !.need = @ \ K]

InNeed(s, r) == \E k \in s.need : s.reg[k] = r

Miss(s, k) == [s EXCEPT !.got[k] = FALSE]
Got(s, k, r) == [s EXCEPT !.got[k] = TRUE, !.reg[k] = r, !.need = @ \cup {k}]

\* updateRegisterState
UpdateState(s, r, importance, write) ==
  [s EXCEPT !.fpreg[r].importance = importance, !.fpreg[r].mod = @ \/ write]

LoadedUnless(s, r, done) == IF done THEN s ELSE InitialiseRegister(s, r)

\* A register that holds the cell already
Hit(s, k, r, importance, write) ==
  Got(UpdateState(LoadedUnless(s, r, s.fpreg[r].init), r, importance, write), k, r)

\* updateRegister, after the register has been emptied
Update(s, r, pos, n, importance, write) ==
  UpdateState([s EXCEPT !.fpreg[r].pos = pos, !.fpreg[r].count = n], r, importance, write)

Take(s, k, r, pos, n, importance, write) ==
  LET w == Blame(WriteAndEvict(s, {r}), IF InNeed(s, r) THEN {"reassigned"} ELSE {})
  IN  Got(LoadedUnless(Update(w, r, pos, n, importance, write), r, write), k, r)

\* A register that is free, or that holds something less important
Fresh(s, k, pos, n, importance, write) ==
  LET S == Choose(s.fpreg, importance)
  IN  IF S = {} THEN Miss(s, k) ELSE Take(s, k, Least(S), pos, n, importance, write)

\* stops: the overlapping registers that end the search
Settle(s, k, pos, n, stops, importance, write) ==
  LET r == Least(stops) IN
  IF stops = {} THEN Fresh(s, k, pos, n, importance, write)
  ELSE IF Aligned(s.fpreg, r, pos, n) THEN Hit(s, k, r, importance, write)
  ELSE Miss(FlushRegister(s, r), k)

\* A scalar gives way to the first register that overlaps it.  For a vector,
\* registers that overlap without being aligned are evicted one after the
\* other, up to the first that is aligned or at least as important.
Acquire(s, k, pos, n, write) ==
  LET importance == Lookahead(s, pos, n)
      S == Overlapping(s.fpreg, pos, n)
      stops == {r \in S : n = 1 \/ Aligned(s.fpreg, r, pos, n) \/ importance <= s.fpreg[r].importance}
      before == {r \in S : \A q \in stops : r < q}
  IN  Settle(WriteAndEvict(s, before), k, pos, n, stops, importance, write)

\* acquire...RegisterOrDefault and acquire...RegisterOrLoad: a scratch register
\* when there is no other, loaded or not
Otherwise(s, k, tmp, us) ==
  IF s.got[k] THEN s ELSE Emit([s EXCEPT !.reg[k] = tmp], us)
OrDefault(s, k, pos, n, write, tmp) ==
  Otherwise(Acquire(s, k, pos, n, write), k, tmp, <<>>)
OrLoad(s, k, pos, n, tmp) ==
  Otherwise(Acquire(s, k, pos, n, FALSE), k, tmp, <<Load(tmp, pos, n)>>)
=============================================================================
