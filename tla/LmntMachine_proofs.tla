--------------------------- MODULE LmntMachine_proofs ---------------------------
(***************************************************************************)
(* A success is a completion, and the dispatch loops implement             *)
(* LmntMachine: every step of the interpreter is a step of the machine, or *)
(* changes nothing the machine sees.                                       *)
(***************************************************************************)
EXTENDS LmntProgress_proofs

-----------------------------------------------------------------------------
(* Success means the call was finished.                                    *)

\* What execute_function knows of its result at the labels it can leave from.
\* Leaving from endcheck, the code is at its end or an interrupt is pending;
\* leaving from dispatch, an instruction has failed or returned, or an
\* interrupt is pending; a branch never reaches the end of the goto loop.
LoopInv ==
  /\ Dispatch = "goto" => opres # "BRANCHING"
  /\ at \in {"endcheck", "stop"} => Dispatch = "goto"
  /\ at = "endcheck" => instr >= ICount \/ Interrupted
  /\ at = "stop" => opres # "OK" \/ Interrupted

\* The initial state and every step of the interpreter keep LoopInv.
LEMMA LoopInvInit == Init => LoopInv
BY DEF Init, LoopInv

LEMMA LoopInvStep == LoopInv /\ [Next]_vars => LoopInv'
<1> SUFFICES ASSUME LoopInv, [Next]_vars PROVE LoopInv'
  OBVIOUS
<1>1. CASE Loading
  BY <1>1 DEF Loading, Reinit, Reset, LoadBegin, LoadInplace, NewArchive, LoadAppend,
     ExtcallsSet, Prepare, Idle, LoopInv, runVars
<1>2. CASE image # None /\ Calling
  <2>1. CASE \E d \in DefIds(image), off \in {0, 1, Memory}, v \in ArgValues :
               UpdateArgs(d, off, v)
    BY <2>1 DEF UpdateArgs, MayCall, Idle, LoopInv, runVars
  <2>2. ASSUME NEW d, NEW room, Execute(d, room) PROVE LoopInv'
    BY <2>2 DEF Execute, RunDef, CallExtern, EnterLoop, Finish, MayCall, Idle, LoopInv, runVars
  <2>3. ASSUME NEW d, NEW room, Resume(d, room) PROVE LoopInv'
    BY <2>3 DEF Resume, RunDef, CallExtern, EnterLoop, Finish, MayCall, Idle, LoopInv, runVars
  <2> QED BY <1>2, <2>1, <2>2, <2>3 DEF Calling
<1>3. CASE Thread
  <2>1. CASE Step
    BY <2>1 DEF Step, RunWhole, TornCompare, After, LoopInv
  <2>2. CASE CmpStore
    BY <2>2 DEF CmpStore, After, LoopInv
  <2>3. CASE FetchEndGoto
    BY <2>3 DEF FetchEndGoto, LoopInv, ICount, TheDef, Interrupted, ctxVars
  <2>4. CASE CheckGoto
    BY <2>4 DEF CheckGoto, LoopInv, Interrupted
  <2>5. CASE EndCheck \/ FetchEndLoop \/ BreakLoop
    BY <2>5 DEF EndCheck, FetchEndLoop, BreakLoop, LeaveLoop, LoopInv
  <2>6. CASE CheckLoop
    BY <2>6 DEF CheckLoop, LoopInv
  <2> QED BY <1>3, <2>1, <2>2, <2>3, <2>4, <2>5, <2>6 DEF Thread
<1>4. CASE Interrupter
  BY <1>4 DEF Interrupter, Interrupt, InterruptLoad, InterruptStore, LoopInv, ICount,
     TheDef, Interrupted, ctxVars, runVars
<1>5. CASE UNCHANGED vars
  BY <1>5 DEF vars, ctxVars, runVars, LoopInv, ICount, TheDef, Interrupted
<1> QED BY <1>1, <1>2, <1>3, <1>4, <1>5 DEF Next

\* execute() and the dispatch loops of dispatch_computed_goto.h and
\* dispatch_switch.h: lmnt_execute and lmnt_resume report success only for a
\* call that reached the end of its code or a RETURN, whenever interrupts fall
\* and however the updates of status_flags interleave with them.
THEOREM SuccessIsCompletion ==
  ASSUME Dispatch # "jumptable"
  PROVE  Spec => OkMeansFinished
<1>1. LoopInv /\ [Next]_vars
        => [at # "idle" /\ at' = "idle" /\ result' = "OK" =>
              instr >= ICount \/ opres = "RETURNING"]_vars
  <2> SUFFICES ASSUME LoopInv, Next, at # "idle", at' = "idle", result' = "OK"
               PROVE  instr >= ICount \/ opres = "RETURNING"
    OBVIOUS
  <2>1. Thread
    <3>1. ~Loading
      BY DEF Loading, Reinit, LoadBegin, LoadInplace, NewArchive, LoadAppend, ExtcallsSet,
         Prepare, Idle
    <3>2. ~Calling
      BY DEF Calling, UpdateArgs, Execute, Resume, MayCall, Idle
    <3>3. ~Interrupter
      BY DEF Interrupter, Interrupt, InterruptLoad, InterruptStore, runVars
    <3> QED BY <3>1, <3>2, <3>3 DEF Next
  <2>2. CASE EndCheck
    BY <2>2 DEF EndCheck, LeaveLoop, Finish, LoopInv
  <2>3. CASE FetchEndLoop
    BY <2>3 DEF FetchEndLoop
  <2>4. CASE BreakLoop
    BY <2>4, InterpreterAssumption DEF BreakLoop, LeaveLoop, Finish
  <2>5. CASE Step \/ CmpStore \/ FetchEndGoto \/ CheckGoto \/ CheckLoop
    BY <2>5 DEF Step, RunWhole, TornCompare, After, CmpStore, FetchEndGoto, CheckGoto, CheckLoop
  <2> QED BY <2>1, <2>2, <2>3, <2>4, <2>5 DEF Thread
<1> QED BY <1>1, LoopInvInit, LoopInvStep, PTL DEF Spec, OkMeansFinished

-----------------------------------------------------------------------------
(* The machine speaks of the same instructions.                            *)

\* The operators LmntMachine has from LmntOps are those of the interpreter
LEMMA SameInstructions ==
  /\ Machine!CompareOps = CompareOps /\ Machine!CmpBits = CmpBits
  /\ \A img : Machine!DefIds(img) = DefIds(img) /\ Machine!ConstCount(img) = ConstCount(img)
  /\ \A in : Machine!Target(in) = Target(in)
  /\ \A in, s, fl : Machine!NewFlags(in, s, fl) = NewFlags(in, s, fl)
BY DEF Machine!CompareOps, Machine!CmpBits, Machine!DefIds, Machine!NConst,
   Machine!ConstCount, Machine!Target, Machine!NewFlags, Machine!CompareBits, CompareOps,
   CmpBits, DefIds, NConst, ConstCount, Target, NewFlags, CompareBits

LEMMA SameOutcomes ==
  \A img, table, defs, frm, in, s, fl :
    Machine!Outcomes(img, table, defs, frm, in, s, fl)
      = Outcomes(img, table, defs, frm, in, s, fl)
BY DEF Machine!Outcomes, Machine!Outcome, Machine!Pure, Machine!LoadOutcome,
   Machine!IndexOutcome, Machine!ExtOutcomes, Machine!Taken, Machine!StacksAfter,
   Machine!Span, Machine!LoadIndices, Machine!Indices, Machine!DataAt, Machine!Source,
   Machine!Dest, Machine!IndexOk, Machine!Lanes, Machine!Lane, Machine!Put, Machine!Put4,
   Machine!Apply, Machine!Add, Machine!FromBits, Machine!DefOffset, Machine!CodeOf,
   Machine!NamesDef, Machine!DefIdAt, Machine!DefSize, Machine!DefIds, Machine!CondHolds,
   Machine!CondBranchOps, Machine!CondAssignOps, Machine!BranchCond, Machine!AssignCond,
   Machine!ValueBranchOps, Machine!BranchOps, Machine!CompareOps, Machine!PureOps,
   Machine!DataOps, Machine!ScalarUnaryOps, Machine!ScalarBinaryOps, Machine!VectorUnaryOps,
   Machine!VectorBinaryOps, Machine!VectorScalarOps, Machine!ImmediateOps,
   Outcomes, Outcome, Pure, LoadOutcome, IndexOutcome, ExtOutcomes, Taken, StacksAfter,
   Span, LoadIndices, Indices, DataAt, Source, Dest, IndexOk, Lanes, Lane, Put, Put4,
   Apply, Add, FromBits, DefOffset, CodeOf, NamesDef, DefIdAt, DefSize, DefIds, CondHolds, CondBranchOps, CondAssignOps, BranchCond,
   AssignCond, ValueBranchOps, BranchOps, CompareOps, PureOps, DataOps, ScalarUnaryOps,
   ScalarBinaryOps, VectorUnaryOps, VectorBinaryOps, VectorScalarOps, ImmediateOps

\* No condition tests the interrupt flag
LEMMA CondIgnores ==
  ASSUME NEW fl, NEW in
  PROVE  /\ in.op \in CondBranchOps =>
              CondHolds(BranchCond[in.op], fl \ {"INT"}) = CondHolds(BranchCond[in.op], fl)
         /\ in.op \in CondAssignOps =>
              CondHolds(AssignCond[in.op], fl \ {"INT"}) = CondHolds(AssignCond[in.op], fl)
<1> DEFINE Conds == {"EQ", "NE", "LT", "LE", "GT", "GE", "UN"}
<1>1. \A c \in Conds : CondHolds(c, fl \ {"INT"}) = CondHolds(c, fl)
  BY DEF CondHolds
<1>2. in.op \in CondBranchOps => BranchCond[in.op] \in Conds
  BY DEF CondBranchOps, BranchCond
<1>3. in.op \in CondAssignOps => AssignCond[in.op] \in Conds
  BY DEF CondAssignOps, AssignCond
<1> QED BY <1>1, <1>2, <1>3

\* What an instruction does depends on the CMP_* bits only
LEMMA OutcomesIgnore ==
  ASSUME NEW img, NEW table, NEW defs, NEW frm, NEW in, in.op \in Opcodes, NEW s, NEW fl
  PROVE  Outcomes(img, table, defs, frm, in, s, fl \ {"INT"})
           = Outcomes(img, table, defs, frm, in, s, fl)
<1>1. CASE in.op \in PureOps
  <2>1. Pure(img, in, s, fl \ {"INT"}) = Pure(img, in, s, fl)
    <3>1. CASE in.op \in CondAssignOps
      BY <3>1, CondIgnores, Groups DEF Pure, Singles
    <3>2. CASE in.op \notin CondAssignOps
      BY <1>1, <3>2 DEF Pure, PureOps, ImmediateOps
    <3> QED BY <3>1, <3>2
  <2> QED BY <1>1, <2>1, Kinds DEF Outcomes
<1>2. CASE in.op \in BranchOps
  <2>1. Taken(in, s, fl \ {"INT"}) = Taken(in, s, fl)
    BY <1>2, CondIgnores DEF Taken, BranchOps, ValueBranchOps
  <2> QED BY <1>2, <2>1, Kinds DEF Outcomes
<1>3. CASE in.op \notin PureOps \cup BranchOps
  BY <1>3, Kinds DEF Outcomes
<1> QED BY <1>1, <1>2, <1>3

-----------------------------------------------------------------------------
(* What the loops know of opresult and of the latched flags.               *)

\* Between calls opresult is LMNT_OK.  An instruction is fetched only after one
\* that succeeded, or, by the loops that fetch a branch target in a turn of its
\* own, after a branch.  A comparison that has loaded status_flags has loaded an
\* interrupt only if it was there, so that its store can lose one, not add one.
ResultInv ==
  /\ Idle => opres = "OK"
  /\ at = "fetch" => opres = "OK" \/ (Dispatch # "goto" /\ opres = "BRANCHING")
  /\ at = "cmp" => /\ Torn /\ opres \in {"OK", "BRANCHING"}
                   /\ TheDef.code[instr + 1].op \in CompareOps
                   /\ "INT" \in latch => Interrupted
  /\ irq # None => Torn

LEMMA ResultInvInit == Init => ResultInv
BY DEF Init, ResultInv, Idle

LEMMA ResultInvStep ==
  ASSUME OffsetsNear, FrameInv, ResultInv, Step
  PROVE  ResultInv'
<1>1. /\ at = "fetch" /\ Pc < ICount /\ UNCHANGED <<image, curDef, irq>>
  BY DEF Step, ctxVars
<1>2. Fetched \in Instruction /\ UNCHANGED TheDef
  BY <1>1, FetchedBound DEF TheDef
<1>3. CASE RunWhole
  <2>1. PICK o \in Outcomes(image, extcalls, defcode, curStackCount, Fetched, stack, flags) :
          After(Fetched.op, Pc, o.res, curInstr')
    BY <1>3 DEF RunWhole
  <2>2. Fetched.op \in Opcodes
    BY <1>2 DEF Instruction
  <2>3. Fetched.op \in PureOps \cup CompareOps => o.res = "OK"
    BY <2>2, OutcomesResult
  <2>4. Fetched.op \notin FailingOps => Fetched.op \in PureOps \cup CompareOps
    BY <2>2, Kinds DEF FailingOps
  <2>5. \/ at' = "check"
        \/ at' = "fetch" /\ Dispatch = "goto" /\ Fetched.op \notin FailingOps /\ opres' = o.res
    BY <2>1 DEF After
  <2> QED BY <1>1, <2>3, <2>4, <2>5 DEF ResultInv, Idle
<1>4. CASE TornCompare
  BY <1>1, <1>2, <1>4 DEF TornCompare, ResultInv, Idle, Interrupted, Fetched
<1> QED BY <1>3, <1>4 DEF Step

LEMMA ResultInvNext ==
  ASSUME OffsetsNear, FrameInv, ResultInv, [Next]_vars
  PROVE  ResultInv'
<1>1. CASE Loading
  <2>1. Reset \/ UNCHANGED runVars
    BY <1>1 DEF Loading, Reinit, LoadBegin, LoadInplace, NewArchive, LoadAppend, ExtcallsSet,
       Prepare
  <2>2. Idle /\ Idle' /\ UNCHANGED irq
    BY <1>1 DEF Loading, Reinit, Reset, LoadBegin, LoadInplace, NewArchive, LoadAppend,
       ExtcallsSet, Prepare, Idle, runVars
  <2> QED BY <2>1, <2>2 DEF Reset, ResultInv, Idle, runVars
<1>2. CASE image # None /\ Calling
  <2>1. Idle /\ UNCHANGED irq
    BY <1>2 DEF Calling, UpdateArgs, Execute, Resume, MayCall
  <2>2. \/ UNCHANGED runVars
        \/ \E n : EnterLoop(n)
    BY <1>2 DEF Calling, UpdateArgs, Execute, Resume, RunDef, CallExtern
  <2> QED BY <2>1, <2>2 DEF EnterLoop, ResultInv, Idle, runVars
<1>3. CASE Thread
  <2>1. CASE Step
    BY <2>1, ResultInvStep
  <2>2. CASE CmpStore
    BY <2>2 DEF CmpStore, After, ResultInv, Idle
  <2>3. CASE FetchEndGoto \/ CheckGoto \/ CheckLoop
    BY <2>3 DEF FetchEndGoto, CheckGoto, CheckLoop, ResultInv, Idle
  <2>4. CASE EndCheck \/ FetchEndLoop \/ BreakLoop
    BY <2>4 DEF EndCheck, FetchEndLoop, BreakLoop, LeaveLoop, ResultInv, Idle
  <2> QED BY <1>3, <2>1, <2>2, <2>3, <2>4 DEF Thread
<1>4. CASE Interrupter \/ UNCHANGED vars
  BY <1>4 DEF Interrupter, Interrupt, InterruptLoad, InterruptStore, vars, ctxVars, runVars,
     ResultInv, Idle, Interrupted, TheDef
<1> QED BY <1>1, <1>2, <1>3, <1>4 DEF Next

-----------------------------------------------------------------------------
(* Each step, as a step of the machine.                                    *)

\* lmnt_init
LEMMA InitImplements == Init => Machine!MInit
BY DEF Init, Machine!MInit, Idle, Interrupted, MachinePc

\* Whatever the host does between two calls
LEMMA HostImplements ==
  ASSUME Idle, Idle', opres = "OK", opres' = "OK"
  PROVE  Machine!Host
BY DEF Machine!Host, Machine!local, MachinePc

\* execute() enters the loop: at the first instruction, or where the host resumes
LEMMA EnterImplements ==
  ASSUME Idle, image # None, NEW d \in DefIds(image), NEW n \in Nat,
         EnterLoop(n), curDef' = d, UNCHANGED <<ctxVars, flags>>,
         \/ n = 0 /\ curStackCount' = FrameOf(d)
         \/ curStackCount' \in Nat
  PROVE  Machine!MNext
<1>1. LOffsetMod \in Nat \ {0}
  BY InterpreterAssumption
<1>2. Machine!Enter(d)
  BY DEF Machine!Enter, Machine!env, EnterLoop, ctxVars, Idle, Interrupted
<1>3. MachinePc' \in Nat /\ (n = 0 => MachinePc' = 0)
  <2>1. CASE Dispatch = "goto"
    <3>1. MachinePc' = (((n - 1) % LOffsetMod) + 1) % LOffsetMod
      BY <2>1 DEF EnterLoop, MachinePc, Idle
    <3>2. (((0 - 1) % LOffsetMod) + 1) % LOffsetMod = 0
      BY <1>1, StepBack
    <3> DEFINE m == (n - 1) % LOffsetMod
    <3>3. m + 1 \in Int
      BY <1>1, ModRange
    <3>4. (m + 1) % LOffsetMod \in Nat
      <4> HIDE DEF m
      <4> QED BY <1>1, <3>3, ModRange
    <3> QED BY <3>1, <3>2, <3>4
  <2>2. CASE Dispatch # "goto"
    BY <2>2 DEF EnterLoop, MachinePc, Idle
  <2> QED BY <2>1, <2>2
<1>4. Machine!ConstCount(image) = ConstCount(image) /\ Machine!DefIds(image) = DefIds(image)
  BY SameInstructions
<1>5. ~Idle'
  BY DEF EnterLoop, Idle
<1>6. CASE n = 0 /\ curStackCount' = FrameOf(d)
  <2>1. Machine!Call(d)
    BY <1>2, <1>3, <1>4, <1>5, <1>6 DEF Machine!Call, FrameOf
  <2> QED BY <1>4, <2>1 DEF Machine!MNext
<1>7. CASE curStackCount' \in Nat
  <2>1. Machine!Continue(d)
    BY <1>2, <1>3, <1>5, <1>7 DEF Machine!Continue
  <2> QED BY <1>4, <2>1 DEF Machine!MNext
<1> QED BY <1>6, <1>7

\* A call that gives up, or that calls an extern, is over at once
LEMMA RunImplements ==
  ASSUME ResultInv, Idle, image # None, NEW d \in DefIds(image), NEW room, NEW n \in Nat,
         NEW frm, RunDef(d, room, n, frm), UNCHANGED <<ctxVars, flags>>,
         (n = 0 /\ frm = FrameOf(d)) \/ frm \in Nat
  PROVE  Machine!MNext
<1>1. CASE ~room \/ "EXTERN" \in image.defs[d].flags
  <2>1. UNCHANGED runVars
    BY <1>1 DEF RunDef, CallExtern
  <2>2. Idle' /\ opres = "OK" /\ opres' = "OK"
    BY <2>1 DEF runVars, ResultInv, Idle
  <2> QED BY <2>2, HostImplements DEF Machine!MNext
<1>2. CASE room /\ "EXTERN" \notin image.defs[d].flags
  <2>1. EnterLoop(n) /\ curDef' = d /\ curStackCount' = frm
    BY <1>2 DEF RunDef
  <2> QED BY <2>1, EnterImplements
<1> QED BY <1>1, <1>2

LEMMA CallingImplements ==
  ASSUME FrameInv, ResultInv, image # None, Calling
  PROVE  Machine!MNext
<1>1. ASSUME NEW d, NEW off, NEW v, UpdateArgs(d, off, v) PROVE Machine!MNext
  <2>1. Idle /\ UNCHANGED runVars
    BY <1>1 DEF UpdateArgs, MayCall
  <2>2. Idle' /\ opres = "OK" /\ opres' = "OK"
    BY <2>1 DEF runVars, ResultInv, Idle
  <2> QED BY <2>1, <2>2, HostImplements DEF Machine!MNext
<1>2. ASSUME NEW d \in DefIds(image), NEW room, Execute(d, room) PROVE Machine!MNext
  <2>1. Idle /\ RunDef(d, room, 0, FrameOf(d)) /\ UNCHANGED <<ctxVars, flags>>
    BY <1>2 DEF Execute, MayCall, FrameOf
  <2> QED BY <2>1, RunImplements
<1>3. ASSUME NEW d \in DefIds(image), NEW room, Resume(d, room) PROVE Machine!MNext
  <2>1. /\ Idle /\ UNCHANGED <<ctxVars, flags>> /\ curInstr \in Nat /\ curStackCount \in Nat
    BY <1>3 DEF Resume, MayCall, FrameInv, TypeOK
  <2>2. CASE curDef = d
    <3>1. RunDef(d, room, curInstr, curStackCount)
      BY <1>3, <2>2 DEF Resume
    <3> QED BY <2>1, <3>1, RunImplements
  <2>3. CASE curDef # d
    <3>1. UNCHANGED runVars
      BY <1>3, <2>3 DEF Resume
    <3>2. Idle' /\ opres = "OK" /\ opres' = "OK"
      BY <2>1, <3>1 DEF runVars, ResultInv, Idle
    <3> QED BY <2>1, <3>2, HostImplements DEF Machine!MNext
  <2> QED BY <2>2, <2>3
<1> QED BY <1>1, <1>2, <1>3 DEF Calling

\* FrameInv knows what ValidInv says
LEMMA FrameInvValid == FrameInv => ValidInv
BY DEF FrameInv, BindInv, Checked, LaidOut, Running, ValidInv, Idle

\* After an instruction the loops stand before the next one, or at the target of
\* the branch that was taken.
LEMMA PcAfter ==
  ASSUME OffsetsNear, CodeFits, FrameInv, ~Idle, NEW j \in Nat, j < ICount,
         NEW op, NEW res, After(op, j, res, curInstr'),
         res = "BRANCHING" =>
           curInstr' = Target(TheDef.code[j + 1]) /\ TheDef.code[j + 1].op \in BranchOps
  PROVE  /\ ~Idle'
         /\ MachinePc' = IF res = "BRANCHING" THEN Target(TheDef.code[j + 1]) ELSE j + 1
         /\ (IF opres' = "BRANCHING" THEN "OK" ELSE opres')
              = IF res = "BRANCHING" THEN "OK" ELSE res
<1>1. CASE Dispatch = "goto"
  BY <1>1, FrameInvValid, PcAfterGoto
<1>2. CASE Dispatch # "goto"
  <2>1. at' = "check" /\ opres' = res /\ instr' = j
    BY <1>2 DEF After
  <2> QED BY <1>2, <2>1 DEF MachinePc, Idle
<1> QED BY <1>1, <1>2

\* Only a comparison changes status_flags, and it replaces the CMP_* bits and
\* leaves the interrupt flag as it found it.
LEMMA FlagsOf ==
  ASSUME OffsetsNear, FrameInv, ~Idle, NEW j \in 1 .. ICount, NEW fl \in SUBSET (CmpBits \cup {"INT"})
  PROVE  LET in == TheDef.code[j] IN
         /\ NewFlags(in, stack, fl) \ {"INT"} = NewFlags(in, stack, fl \ {"INT"})
         /\ "INT" \in NewFlags(in, stack, fl) <=> "INT" \in fl
         /\ in.op \in CompareOps =>
              NewFlags(in, stack, fl) \ {"INT"} = NewFlags(in, stack, flags \ {"INT"})
<1> DEFINE in == TheDef.code[j]
<1>1. in.op \in CompareOps => CompareBits(in, stack) \subseteq CmpBits
  BY InFrame, CompareBitsType DEF Idle
<1>2. "INT" \notin CmpBits
  BY DEF CmpBits
<1>3. flags \subseteq CmpBits \cup {"INT"}
  BY DEF FrameInv, TypeOK
<1> HIDE DEF in
<1>4. CASE in.op \in CompareOps
  <2> DEFINE bits == CompareBits(in, stack)
  <2>1. bits \subseteq CmpBits
    BY <1>1, <1>4
  <2>2. NewFlags(in, stack, fl) = (fl \ CmpBits) \cup bits
    BY <1>4 DEF NewFlags
  <2>3. /\ NewFlags(in, stack, fl \ {"INT"}) = bits
        /\ NewFlags(in, stack, flags \ {"INT"}) = bits
    BY <1>2, <1>3, <1>4 DEF NewFlags
  <2> HIDE DEF bits
  <2> QED BY <1>2, <2>1, <2>2, <2>3 DEF in
<1>5. CASE in.op \notin CompareOps
  BY <1>5 DEF NewFlags, in
<1> QED BY <1>4, <1>5

\* One instruction, run in one go
LEMMA StepImplements ==
  ASSUME OffsetsNear, CodeFits, FrameInv, ResultInv, Step, RunWhole
  PROVE  Machine!Exec
<1>1. /\ at = "fetch" /\ Pc < ICount /\ ~Idle
      /\ UNCHANGED <<image, extcalls, defcode, curDef, curStackCount, result>>
  BY DEF Step, ctxVars, hostVars, Idle
<1>2. MachinePc = Pc /\ Pc \in Nat /\ opres \in {"OK", "BRANCHING"}
  BY <1>1, FetchedPlace DEF MachinePc, Idle, Pc, ResultInv
<1>3. Fetched \in Instruction /\ Fetched = TheDef.code[Pc + 1]
  BY <1>1, FetchedBound DEF Fetched, Idle
<1>4. PICK o \in Outcomes(image, extcalls, defcode, curStackCount, Fetched, stack, flags) :
        /\ stack' = o.stack
        /\ curInstr' = IF o.res = "BRANCHING" THEN Target(Fetched) ELSE curInstr
        /\ After(Fetched.op, Pc, o.res, curInstr')
  BY DEF RunWhole
<1>5. Fetched.op \in Opcodes
  BY <1>3 DEF Instruction
<1>6. o.res = "BRANCHING" => Fetched.op \in BranchOps
  BY <1>5, OutcomesResult
<1>7. /\ ~Idle'
      /\ MachinePc' = IF o.res = "BRANCHING" THEN Target(Fetched) ELSE Pc + 1
      /\ (IF opres' = "BRANCHING" THEN "OK" ELSE opres')
           = IF o.res = "BRANCHING" THEN "OK" ELSE o.res
  BY <1>1, <1>2, <1>3, <1>4, <1>6, PcAfter
<1>8. o \in Machine!Outcomes(image, extcalls, defcode, curStackCount, Fetched, stack,
                             flags \ {"INT"})
  BY <1>4, <1>5, OutcomesIgnore, SameOutcomes
<1>9. flags' = NewFlags(Fetched, stack, flags)
  BY DEF RunWhole
<1>10. /\ flags' \ {"INT"} = Machine!NewFlags(Fetched, stack, flags \ {"INT"})
       /\ Interrupted' <=> Interrupted
  <2>1. flags \in SUBSET (CmpBits \cup {"INT"}) /\ Pc + 1 \in 1 .. ICount
    BY <1>1, FetchedPlace DEF FrameInv, TypeOK, Idle
  <2> QED BY <1>1, <1>9, <2>1, FlagsOf, SameInstructions DEF Fetched, Interrupted
<1>11. opres = "OK" \/ opres = "BRANCHING"
  BY <1>2
<1> QED BY <1>1, <1>2, <1>3, <1>4, <1>7, <1>8, <1>10, <1>11, SameInstructions
        DEF Machine!Exec, Machine!env, Machine!code, TheDef, ICount

\* Between instructions, whatever only moves control changes nothing the machine
\* sees: a comparison that has loaded its copy of status_flags has not yet run.
LEMMA MovesImplement ==
  ASSUME FrameInv, LoopInv, ResultInv,
         \/ Step /\ TornCompare
         \/ FetchEndGoto \/ CheckGoto \/ CheckLoop \/ InterruptLoad
  PROVE  UNCHANGED Machine!mvars
<1>1. /\ UNCHANGED <<image, extcalls, defcode, stack, flags, curDef, curStackCount, result>>
      /\ Idle' <=> Idle
  BY DEF Step, TornCompare, FetchEndGoto, CheckGoto, CheckLoop, InterruptLoad, ctxVars,
     hostVars, runVars, Idle
<1>2. MachinePc' = MachinePc
  BY DEF Step, TornCompare, FetchEndGoto, CheckGoto, CheckLoop, InterruptLoad, runVars,
     MachinePc, Pc, Idle
<1>3. (IF opres' = "BRANCHING" THEN "OK" ELSE opres') = IF opres = "BRANCHING" THEN "OK" ELSE opres
  BY DEF Step, TornCompare, FetchEndGoto, CheckGoto, CheckLoop, InterruptLoad, runVars
<1> QED BY <1>1, <1>2, <1>3
        DEF Machine!mvars, Machine!env, Machine!local, Interrupted

\* The store of lmnt_op_cmp is where a comparison takes effect
LEMMA CmpStoreImplements ==
  ASSUME OffsetsNear, CodeFits, FrameInv, ResultInv, CmpStore
  PROVE  Machine!Exec
<1>1. /\ at = "cmp" /\ ~Idle /\ instr < ICount /\ Torn
      /\ flags' = NewFlags(TheDef.code[instr + 1], stack, latch)
      /\ After(TheDef.code[instr + 1].op, instr, "OK", curInstr)
      /\ UNCHANGED <<image, extcalls, defcode, stack, curDef, curInstr, curStackCount, result>>
      /\ "INT" \in latch => Interrupted
      /\ opres \in {"OK", "BRANCHING"}
  BY DEF CmpStore, ctxVars, hostVars, Idle, FrameInv, Comparing, ResultInv
<1> DEFINE in == TheDef.code[instr + 1]
<1>2. instr \in Nat /\ instr + 1 \in 1 .. ICount
  BY <1>1, FetchedPlace, InFrame DEF Idle, ICount
<1>3. in \in Instruction /\ in.op \in CompareOps /\ in.op \in Opcodes
  BY <1>1, <1>2, InFrame DEF ResultInv, Instruction, Idle
<1>4. /\ ~Idle' /\ MachinePc' = instr + 1
      /\ (IF opres' = "BRANCHING" THEN "OK" ELSE opres') = "OK"
  BY <1>1, <1>2, PcAfter
<1>5. /\ flags' \ {"INT"} = Machine!NewFlags(in, stack, flags \ {"INT"})
      /\ Interrupted' <=> "INT" \in latch
  <2>1. latch \in SUBSET (CmpBits \cup {"INT"})
    BY DEF FrameInv, TypeOK
  <2> QED BY <1>1, <1>2, <1>3, <2>1, FlagsOf, SameInstructions DEF Interrupted
<1>6. Outcome(stack, "OK")
        \in Machine!Outcomes(image, extcalls, defcode, curStackCount, in, stack, flags \ {"INT"})
  <2>1. Outcomes(image, extcalls, defcode, curStackCount, in, stack, flags \ {"INT"})
          = {Outcome(stack, "OK")}
    BY <1>3, Kinds DEF Outcomes
  <2> QED BY <2>1, SameOutcomes
<1>7. Outcome(stack, "OK").stack = stack /\ Outcome(stack, "OK").res = "OK"
  BY DEF Outcome
<1>8. MachinePc = instr
  BY <1>1 DEF MachinePc, Idle
<1>9. (Interrupted' = Interrupted) \/ (Torn /\ in.op \in CompareOps /\ Interrupted' = FALSE)
  BY <1>1, <1>3, <1>5 DEF Interrupted
<1> QED BY <1>1, <1>2, <1>3, <1>4, <1>5, <1>6, <1>7, <1>8, <1>9, SameInstructions
        DEF Machine!Exec, Machine!env, Machine!code, TheDef, ICount

\* Leaving the loop, the call returns what the machine allows: the error of the
\* instruction that failed, OK at the end or after a RETURN, or LMNT_INTERRUPTED.
LEMMA LeaveImplements ==
  ASSUME Dispatch # "jumptable", OffsetsNear, CodeFits, FrameInv, LoopInv, ResultInv,
         EndCheck \/ FetchEndLoop \/ BreakLoop
  PROVE  ~Idle /\ (Machine!Complete \/ Machine!Cancel)
<1>1. PICK res : /\ LeaveLoop(res) /\ ~Idle
                 /\ \/ EndCheck /\ res = IF opres = "OK" /\ Interrupted
                                         THEN "INTERRUPTED" ELSE opres
                    \/ FetchEndLoop /\ res = opres
                    \/ BreakLoop /\ res = IF opres = "OK" THEN "INTERRUPTED" ELSE opres
  BY InterpreterAssumption DEF EndCheck, FetchEndLoop, BreakLoop, Idle
<1> DEFINE r == IF res \in {"RETURNING", "BRANCHING"} THEN "OK" ELSE res
           mres == IF opres = "BRANCHING" THEN "OK" ELSE opres
<1>2. Machine!Leave(r)
  <2>1. /\ Idle' /\ result' = r /\ opres' = "OK"
        /\ UNCHANGED <<image, extcalls, defcode, stack, flags>>
    BY <1>1 DEF LeaveLoop, Finish, Idle, ctxVars
  <2>2. MachinePc' = 0
    BY <2>1 DEF MachinePc
  <2> QED BY <1>1, <2>1, <2>2 DEF Machine!Leave, Machine!env, Interrupted
<1>3. /\ ICount \in Nat /\ ICount = Len(image.defs[IF Idle THEN None ELSE curDef].code)
      /\ instr \in Nat /\ LOffsetMod \in Nat \ {0}
      /\ Dispatch = "goto" => ICount < LOffsetMod
  BY <1>1, FrameInvValid, Accepted, FetchedPlace, InterpreterAssumption DEF ICount, TheDef
<1>4. CASE opres \notin {"OK", "BRANCHING"}
  <2>1. mres = opres /\ res = opres
    BY <1>1, <1>4
  <2>2. CASE opres = "RETURNING"
    BY <1>1, <1>2, <2>1, <2>2 DEF Machine!Complete
  <2>3. CASE opres # "RETURNING"
    BY <1>1, <1>2, <1>4, <2>1, <2>3 DEF Machine!Complete
  <2> QED BY <2>2, <2>3
<1>5. CASE opres \in {"OK", "BRANCHING"} /\ r = "INTERRUPTED"
  <2>1. mres = "OK" /\ Interrupted
    BY <1>1, <1>5 DEF BreakLoop
  <2> QED BY <1>1, <1>2, <1>5, <2>1 DEF Machine!Cancel
<1>6. CASE opres \in {"OK", "BRANCHING"} /\ r # "INTERRUPTED"
  <2>1. r = "OK" /\ mres = "OK"
    BY <1>1, <1>6
  <2>2. MachinePc >= ICount
    <3>1. CASE EndCheck
      <4>1. Dispatch = "goto" /\ opres = "OK" /\ ~Interrupted /\ at = "endcheck"
        BY <1>1, <1>6, <3>1 DEF EndCheck, LoopInv, FetchEndLoop, BreakLoop
      <4> QED BY <1>1, <4>1 DEF LoopInv, MachinePc
    <3>2. CASE FetchEndLoop
      BY <1>1, <3>2 DEF FetchEndLoop, MachinePc
    <3>3. CASE BreakLoop
      BY <1>1, <1>6, <3>3 DEF BreakLoop, EndCheck, FetchEndLoop
    <3> QED BY <1>1, <3>1, <3>2, <3>3
  <2> QED BY <1>1, <1>2, <1>3, <2>1, <2>2 DEF Machine!Complete, Machine!code
<1> QED BY <1>1, <1>4, <1>5, <1>6

\* lmnt_interrupt is a request of the machine, even where its store undoes a
\* comparison that ran since its load.
LEMMA InterruptImplements ==
  ASSUME FrameInv, ResultInv, Interrupt \/ InterruptStore
  PROVE  Machine!RequestInterrupt
<1>1. /\ UNCHANGED <<image, extcalls, defcode, stack, curDef, curStackCount, at, instr, curInstr,
                     opres, result>>
      /\ "INT" \in flags'
      /\ \/ flags' = flags \cup {"INT"}
         \/ Torn /\ flags' \subseteq CmpBits \cup {"INT"}
  BY DEF Interrupt, InterruptStore, ctxVars, hostVars, runVars, ResultInv, FrameInv, TypeOK
<1>2. UNCHANGED <<Idle, MachinePc>>
  BY <1>1 DEF Idle, MachinePc
<1>3. flags' \ {"INT"} = flags \ {"INT"} \/ (Torn /\ flags' \ {"INT"} \subseteq Machine!CmpBits)
  BY <1>1, SameInstructions
<1> QED BY <1>1, <1>2, <1>3 DEF Machine!RequestInterrupt, Machine!env, Machine!local, Interrupted

-----------------------------------------------------------------------------
(* The theorem.                                                            *)

MachineInv == FrameInv /\ LoopInv /\ ResultInv

LEMMA MachineInvInit == Init => MachineInv
BY FrameInvInit, LoopInvInit, ResultInvInit DEF MachineInv

LEMMA MachineInvStep ==
  ASSUME Careful, OffsetsNear
  PROVE  MachineInv /\ [Next]_vars => MachineInv'
BY FrameInvStep, LoopInvStep, ResultInvNext DEF MachineInv

LEMMA StepsImplement ==
  ASSUME Dispatch # "jumptable", OffsetsNear, CodeFits
  PROVE  MachineInv /\ MachineInv' /\ [Next]_vars => [Machine!MNext]_Machine!mvars
<1> SUFFICES ASSUME MachineInv, MachineInv', [Next]_vars
             PROVE  Machine!MNext \/ UNCHANGED Machine!mvars
  OBVIOUS
<1>1. CASE Loading
  <2>1. Idle /\ Idle'
    BY <1>1 DEF Loading, Reinit, Reset, LoadBegin, LoadInplace, NewArchive, LoadAppend,
       ExtcallsSet, Prepare, Idle, runVars
  <2>2. opres = "OK" /\ opres' = "OK"
    BY <2>1 DEF MachineInv, ResultInv
  <2> QED BY <2>1, <2>2, HostImplements DEF Machine!MNext
<1>2. CASE image # None /\ Calling
  BY <1>2, CallingImplements DEF MachineInv
<1>3. CASE Thread
  <2>1. CASE Step
    <3>1. CASE TornCompare
      BY <2>1, <3>1, MovesImplement DEF MachineInv
    <3>2. CASE RunWhole
      BY <2>1, <3>2, StepImplements DEF MachineInv, Machine!MNext, Step, Idle
    <3> QED BY <2>1, <3>1, <3>2 DEF Step
  <2>2. CASE CmpStore
    BY <2>2, CmpStoreImplements DEF MachineInv, Machine!MNext, CmpStore, Idle
  <2>3. CASE FetchEndGoto \/ CheckGoto \/ CheckLoop
    BY <2>3, MovesImplement DEF MachineInv
  <2>4. CASE EndCheck \/ FetchEndLoop \/ BreakLoop
    BY <2>4, LeaveImplements DEF MachineInv, Machine!MNext
  <2> QED BY <1>3, <2>1, <2>2, <2>3, <2>4 DEF Thread
<1>4. CASE Interrupt \/ InterruptStore
  BY <1>4, InterruptImplements DEF MachineInv, Machine!MNext
<1>5. CASE InterruptLoad
  BY <1>5, MovesImplement DEF MachineInv
<1>6. CASE UNCHANGED vars
  BY <1>6 DEF vars, ctxVars, runVars, hostVars, Machine!mvars, Machine!env, Machine!local,
     Idle, Interrupted, MachinePc
<1> QED BY <1>1, <1>2, <1>3, <1>4, <1>5, <1>6 DEF Next, Interrupter

\* The loops of dispatch_computed_goto.h and dispatch_switch.h implement the
\* machine: whenever interrupts fall, and however their updates of status_flags
\* interleave with a comparison's, each call runs its instructions one at a time
\* and in program order, and returns what LmntMachine allows.  (The loop of
\* dispatch_jumptable.h does not: it reports success for an interrupted call; nor
\* need code that only a truncated offset has validated.)
THEOREM LoopsImplement ==
  ASSUME Careful, OffsetsNear, Dispatch # "jumptable", CodeFits
  PROVE  Spec => Implements
<1>1. Init => Machine!MInit
  BY InitImplements
<1>2. Spec => []MachineInv
  BY MachineInvInit, MachineInvStep, PTL DEF Spec
<1>3. MachineInv /\ MachineInv' /\ [Next]_vars => [Machine!MNext]_Machine!mvars
  BY StepsImplement
<1> QED BY <1>1, <1>2, <1>3, PTL DEF Spec, Implements, Machine!MSpec
=============================================================================
