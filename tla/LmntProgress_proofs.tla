-------------------------- MODULE LmntProgress_proofs --------------------------
(***************************************************************************)
(* Theorems about the progress of a call: which instructions it runs, how  *)
(* often, and which an interrupted and resumed call may have left out.     *)
(***************************************************************************)
EXTENDS LmntFrame_proofs

-----------------------------------------------------------------------------
(* Arithmetic on lmnt_loffset.                                             *)

\* 0 - 1 is the largest value of an unsigned type
LEMMA ModMinusOne ==
  ASSUME NEW m \in Nat \ {0}
  PROVE  (0 - 1) % m = m - 1
OBVIOUS

LEMMA ModSelf ==
  ASSUME NEW m \in Nat \ {0}
  PROVE  m % m = 0
OBVIOUS

\* The computed-goto loop enters a position by stepping to the one before it:
\* the decrement and the increment of the next fetch cancel, also at 0.
LEMMA StepBack ==
  ASSUME NEW m \in Nat \ {0}, NEW n \in Nat, n < m
  PROVE  (((n - 1) % m) + 1) % m = n
<1>1. CASE n = 0
  <2>1. (n - 1) % m = m - 1
    BY <1>1, ModMinusOne
  <2>2. (m - 1) + 1 = m
    OBVIOUS
  <2> QED BY <1>1, <2>1, <2>2, ModSelf
<1>2. CASE n # 0
  <2>1. n - 1 \in 0 .. m - 1
    BY <1>2
  <2>2. (n - 1) % m = n - 1
    BY <2>1, ModSmall
  <2>3. (n - 1) + 1 = n /\ n \in 0 .. m - 1
    OBVIOUS
  <2> QED BY <2>2, <2>3, ModSmall
<1> QED BY <1>1, <1>2

-----------------------------------------------------------------------------
(* A call runs only code that lmnt_archive_validate has accepted.          *)

\* Whatever the host does, the stack is laid out for archives that are valid, and
\* the loop is entered only while it is.
ValidInv ==
  /\ image \in Images \cup {None}
  /\ laid => image # None /\ ArchiveOk(image, size, Memory)
  /\ ~Idle => /\ laid /\ curDef \in DefIds(image)
              /\ "EXTERN" \notin TheDef.flags

LEMMA ValidInvInit == Init => ValidInv
BY DEF Init, ValidInv, Idle

LEMMA ValidInvLoad ==
  ASSUME ValidInv, Loading
  PROVE  ValidInv'
<1>1. CASE Reinit
  BY <1>1 DEF Reinit, Reset, ValidInv, Idle
<1>2. ASSUME NEW img \in Reloads[image], LoadBegin(img) \/ LoadInplace(img) PROVE ValidInv'
  <2>1. img \in Images
    BY InterpreterAssumption DEF ValidInv
  <2>2. image' = img /\ ~laid' /\ Idle'
    BY <1>2 DEF LoadBegin, LoadInplace, NewArchive, Idle, runVars
  <2> QED BY <2>1, <2>2 DEF ValidInv
<1>3. ASSUME image # None, NEW n, LoadAppend(n) PROVE ValidInv'
  <2>1. Total(image) \in Nat
    BY <1>3, InterpreterAssumption DEF ValidInv, Image, Total, NConst
  <2>2. ~laid
    BY <1>3, <2>1 DEF LoadAppend, ValidInv, ArchiveOk, SegmentsOk
  <2>3. UNCHANGED <<image, laid>> /\ Idle'
    BY <1>3 DEF LoadAppend, Idle, runVars
  <2> QED BY <2>2, <2>3 DEF ValidInv
<1>4. ASSUME NEW table, ExtcallsSet(table) PROVE ValidInv'
  BY <1>4 DEF ExtcallsSet, ValidInv, Idle, runVars
<1>5. ASSUME NEW fill, Prepare(fill) PROVE ValidInv'
  <2>1. UNCHANGED <<image, size>> /\ Idle'
    BY <1>5 DEF Prepare, Idle, runVars
  <2>2. image # None /\ (ArchiveOk(image, size, Memory) \/ UNCHANGED laid)
    BY <1>5 DEF Prepare
  <2> QED BY <2>1, <2>2 DEF ValidInv
<1> QED BY <1>1, <1>2, <1>3, <1>4, <1>5 DEF Loading

LEMMA ValidInvStep == ValidInv /\ [Next]_vars => ValidInv'
<1> SUFFICES ASSUME ValidInv, [Next]_vars PROVE ValidInv'
  OBVIOUS
<1>1. CASE Loading
  BY <1>1, ValidInvLoad
<1>2. CASE image # None /\ Calling
  <2>1. UNCHANGED <<image, size, laid>>
    BY <1>2 DEF Calling, UpdateArgs, Execute, Resume, ctxVars
  <2>2. ASSUME NEW d, NEW off, NEW v, UpdateArgs(d, off, v) PROVE ValidInv'
    BY <2>1, <2>2 DEF UpdateArgs, MayCall, ValidInv, Idle, runVars
  <2>3. ASSUME NEW d \in DefIds(image), NEW room, NEW n, NEW frame, MayCall(d),
               RunDef(d, room, n, frame)
        PROVE  ValidInv'
    <3>1. Idle' \/ (curDef' = d /\ "EXTERN" \notin image.defs[d].flags)
      <4>1. CASE ~room \/ "EXTERN" \in image.defs[d].flags
        BY <2>3, <4>1 DEF RunDef, CallExtern, MayCall, Idle, runVars
      <4>2. CASE room /\ "EXTERN" \notin image.defs[d].flags
        BY <2>3, <4>2 DEF RunDef
      <4> QED BY <4>1, <4>2
    <3> QED BY <2>1, <2>3, <3>1 DEF ValidInv, MayCall, TheDef, DefIds
  <2>4. ASSUME NEW d \in DefIds(image), NEW room, Execute(d, room) PROVE ValidInv'
    BY <2>3, <2>4 DEF Execute
  <2>5. ASSUME NEW d \in DefIds(image), NEW room, Resume(d, room) PROVE ValidInv'
    <3>1. CASE curDef # d
      BY <2>1, <2>5, <3>1 DEF Resume, MayCall, ValidInv, Idle, runVars
    <3>2. CASE curDef = d
      BY <2>3, <2>5, <3>2 DEF Resume
    <3> QED BY <3>1, <3>2
  <2> QED BY <1>2, <2>2, <2>4, <2>5 DEF Calling
<1>3. CASE Thread
  <2>1. UNCHANGED <<image, size, laid>> /\ ~Idle /\ (Idle' \/ UNCHANGED curDef)
    BY <1>3 DEF Thread, Step, CmpStore, FetchEndGoto, CheckGoto, EndCheck, FetchEndLoop,
       CheckLoop, BreakLoop, LeaveLoop, ctxVars, hostVars, Idle
  <2> QED BY <2>1 DEF ValidInv, TheDef, DefIds
<1>4. CASE Interrupter \/ UNCHANGED vars
  <2>1. UNCHANGED <<image, size, laid, curDef, at>>
    BY <1>4 DEF Interrupter, Interrupt, InterruptLoad, InterruptStore, vars, ctxVars, runVars,
       hostVars
  <2> QED BY <2>1 DEF ValidInv, TheDef, DefIds, Idle
<1> QED BY <1>1, <1>2, <1>3, <1>4 DEF Next

-----------------------------------------------------------------------------
(* Branches, and the results of instructions.                              *)

\* No archive has more instructions in a def than an lmnt_loffset can count
CodeFits ==
  \A img \in Images : \A i \in DefIds(img) : Len(img.defs[i].code) < LOffsetMod

\* validate_def: in code without the flag that is the code it has read, a branch
\* goes past its own position and at most to the end.
LEMMA Forward ==
  ASSUME NEW img \in Image, NEW i \in DefIds(img), NEW consts, NEW rw,
         img.defs[i].checked = img.defs[i].code,
         CodeOk(img, img.defs[i], consts, rw),
         NEW j \in 1 .. Len(img.defs[i].code), img.defs[i].code[j].op \in BranchOps
  PROVE  /\ Target(img.defs[i].code[j]) \in 0 .. Len(img.defs[i].code)
         /\ "HAS_BACKBRANCHES" \notin img.defs[i].flags => Target(img.defs[i].code[j]) >= j
<1> DEFINE d == img.defs[i]
           t == Target(d.code[j])
<1>1. d.code[j] \in Instruction /\ Len(d.code) \in Nat
  BY ImageParts
<1>2. t \in Nat
  <2>1. d.code[j].arg2 \in Nat /\ d.code[j].arg3 \in Nat /\ OffsetMod \in Nat
    BY <1>1, ValueAssumption DEF Instruction
  <2>2. \A x, y, z \in Nat : x + y * z \in Nat
    OBVIOUS
  <2> QED BY <2>1, <2>2 DEF Target
<1>3. t <= Len(d.code) /\ t # j - 1
  BY DEF CodeOk, InstructionOk, CodePtrOk
<1>4. "HAS_BACKBRANCHES" \notin d.flags => ~(t < j - 1)
  BY DEF CodeOk, BranchesBack
<1> HIDE DEF d, t
<1>5. /\ t \in 0 .. Len(d.code)
      /\ "HAS_BACKBRANCHES" \notin d.flags => t >= j
  BY <1>1, <1>2, <1>3, <1>4
<1> QED BY <1>5 DEF d, t

\* No operation reports LMNT_INTERRUPTED, and only branches report a jump
LEMMA OutcomesResult ==
  ASSUME NEW img, NEW table, NEW code, NEW frame, NEW in, in.op \in Opcodes, NEW s, NEW fl,
         NEW o \in Outcomes(img, table, code, frame, in, s, fl)
  PROVE  /\ o.res # "INTERRUPTED"
         /\ o.res = "BRANCHING" => in.op \in BranchOps
         /\ in.op \in PureOps \cup CompareOps => o.res = "OK"
<1>1. CASE in.op \in PureOps \cup CompareOps
  BY <1>1, Kinds DEF Outcomes, Outcome
<1>2. CASE in.op \in DataOps
  <2>1. PICK k \in LoadIndices(in, s) : o = LoadOutcome(img, in, s, k)
    BY <1>2, Kinds DEF Outcomes
  <2>2. o.res \in {"OK", "ACCESS_VIOLATION"}
    BY <2>1 DEF LoadOutcome, Outcome
  <2> QED BY <1>2, <2>2, Kinds
<1>3. CASE in.op \in {"INDEXRIS", "INDEXRIR"}
  <2>1. o = IndexOutcome(in, s, frame)
    BY <1>3, Kinds DEF Outcomes
  <2>2. o.res \in {"OK", "ACCESS_VIOLATION"}
    BY <2>1 DEF IndexOutcome, Outcome
  <2> QED BY <1>3, <2>2, Kinds
<1>4. CASE in.op = "EXTCALL"
  <2>1. o \in ExtOutcomes(table, CodeOf(img, code, DefOffset(in)), s, in.arg3)
    BY <1>4, Kinds DEF Outcomes
  <2>2. o.res \in ExtResults \cup {"NOT_FOUND"}
    BY <2>1 DEF ExtOutcomes, Outcome
  <2> QED BY <1>4, <2>2, Kinds, OpsAssumption
<1>5. CASE in.op \in BranchOps
  <2>1. o.res \in {"OK", "BRANCHING"}
    BY <1>5, Kinds DEF Outcomes, Outcome
  <2> QED BY <1>5, <2>1, Kinds
<1>6. CASE in.op = "RETURN"
  <2>1. o.res = "RETURNING"
    BY <1>6, Kinds DEF Outcomes, Outcome
  <2> QED BY <1>6, <2>1, Kinds
<1> QED BY <1>1, <1>2, <1>3, <1>4, <1>5, <1>6, Kinds

-----------------------------------------------------------------------------
(* No instruction runs twice.                                              *)

\* While a call runs, its code has been accepted
LEMMA Accepted ==
  ASSUME OffsetsNear, ValidInv, ~Idle
  PROVE  /\ image \in Image /\ image \in Images /\ image # None /\ curDef \in DefIds(image)
         /\ TheDef.code \in Seq(Instruction) /\ ICount \in Nat
         /\ CodeOk(image, TheDef, NConst(image), TheDef.stack_count)
         /\ TheDef.checked = TheDef.code
         /\ CodeFits => ICount < LOffsetMod
<1>1. /\ image \in Image /\ image \in Images /\ image # None /\ curDef \in DefIds(image)
      /\ "EXTERN" \notin TheDef.flags /\ ArchiveOk(image, size, Memory)
  BY InterpreterAssumption DEF ValidInv
<1>2. CodeOk(image, TheDef, NConst(image), TheDef.stack_count)
  BY <1>1, AllVisited DEF ArchiveOk, VisitedOk, DefOk, TheDef
<1>3. TheDef.code \in Seq(Instruction)
  BY <1>1, ImageParts DEF TheDef
<1>4. CodeFits => ICount < LOffsetMod
  BY <1>1 DEF CodeFits, ICount, TheDef
<1>5. TheDef.checked = TheDef.code
  BY <1>1 DEF OffsetsNear, Near, TheDef
<1> QED BY <1>1, <1>2, <1>3, <1>4, <1>5 DEF ICount

\* What dispatch_computed_goto.h keeps: in code without backward branches every
\* instruction that has run is before the next one, unless an interrupt is
\* pending.  A pending interrupt lets nothing run, and only a comparison that is
\* half done can lose it; an interrupted call therefore never goes on.
OnceInv ==
  /\ ran \subseteq Nat /\ instr \in Nat /\ curInstr \in Nat
  /\ opres # "INTERRUPTED"
  /\ Idle => \/ curDef = None
             \/ Interrupted
             \/ ran = {}
  /\ ~Idle /\ "HAS_BACKBRANCHES" \notin TheDef.flags =>
       /\ at = "cmp" => instr < ICount /\ \A k \in ran : k <= instr
       /\ at # "cmp" => Interrupted \/ \A k \in ran : k < MachinePc

LEMMA OnceInvInit == Init => OnceInv
BY DEF Init, OnceInv, Idle

\* lmnt_init, the archive and its preparation leave the interrupted call alone
LEMMA OnceInvHost ==
  ASSUME OnceInv, Idle, Idle',
         \/ Reset
         \/ UNCHANGED <<curDef, curInstr, flags, runVars, ran>>
  PROVE  OnceInv'
<1>1. CASE Reset
  BY <1>1 DEF Reset, OnceInv
<1>2. CASE UNCHANGED <<curDef, curInstr, flags, runVars, ran>>
  BY <1>2 DEF OnceInv, Interrupted, runVars
<1> QED BY <1>1, <1>2

\* execute(): a call starts with nothing run, or goes on with what it had
LEMMA OnceInvRun ==
  ASSUME Dispatch = "goto", OnceInv, Idle, NEW d \in DefIds(image), NEW room,
         NEW n \in Nat, NEW frame, RunDef(d, room, n, frame),
         UNCHANGED <<ctxVars, flags>>, curInstr' \in Nat,
         ran' = {} \/ (ran' = ran /\ curDef = d)
  PROVE  OnceInv'
<1>1. d \in Nat /\ None \notin Nat /\ LOffsetMod \in Nat \ {0}
  BY InterpreterAssumption DEF DefIds
<1>2. ran' \subseteq Nat /\ (Interrupted' \/ ran' = {})
  BY <1>1 DEF OnceInv, Interrupted
<1>3. CASE ~room \/ "EXTERN" \in image.defs[d].flags
  <2>1. UNCHANGED runVars
    BY <1>3 DEF RunDef, CallExtern
  <2> QED BY <1>2, <2>1 DEF OnceInv, Idle, runVars
<1>4. CASE room /\ "EXTERN" \notin image.defs[d].flags
  <2>1. at' = "check" /\ opres' = "OK" /\ instr' = (n - 1) % LOffsetMod
    BY <1>4 DEF RunDef, EnterLoop
  <2>2. instr' \in Nat
    BY <1>1, <2>1, ModRange
  <2> QED BY <1>2, <2>1, <2>2 DEF OnceInv, Idle
<1> QED BY <1>3, <1>4

\* The next instruction, after the one at Pc has run in one go: the following
\* one, or the target of the branch that was taken.
LEMMA PcAfterGoto ==
  ASSUME Dispatch = "goto", CodeFits, OffsetsNear, ValidInv, ~Idle, NEW j \in Nat, j < ICount,
         NEW op, NEW res, After(op, j, res, curInstr'),
         res = "BRANCHING" =>
           curInstr' = Target(TheDef.code[j + 1]) /\ TheDef.code[j + 1].op \in BranchOps
  PROVE  /\ ~Idle' /\ at' # "cmp" /\ instr' \in Nat
         /\ MachinePc' = IF res = "BRANCHING" THEN Target(TheDef.code[j + 1]) ELSE j + 1
         /\ opres' = IF res = "BRANCHING" THEN "OK" ELSE res
<1>1. /\ LOffsetMod \in Nat \ {0} /\ ICount \in Nat /\ ICount < LOffsetMod
      /\ image \in Image /\ curDef \in DefIds(image) /\ TheDef.checked = TheDef.code
      /\ CodeOk(image, TheDef, NConst(image), TheDef.stack_count)
  BY Accepted, InterpreterAssumption
<1>2. CASE res = "BRANCHING"
  <2> DEFINE t == Target(TheDef.code[j + 1])
  <2>1. at' = "check" /\ opres' = "OK" /\ instr' = (curInstr' - 1) % LOffsetMod
    BY <1>2 DEF After
  <2>2. j + 1 \in 1 .. Len(image.defs[curDef].code)
    BY <1>1 DEF ICount, TheDef
  <2>3. t \in 0 .. ICount
    BY <1>1, <1>2, <2>2, Forward DEF TheDef, ICount
  <2>4. curInstr' = t
    BY <1>2
  <2> HIDE DEF t
  <2>5. instr' \in Nat /\ t \in Nat /\ t < LOffsetMod
    BY <1>1, <2>1, <2>3, <2>4, ModRange
  <2>6. (((t - 1) % LOffsetMod) + 1) % LOffsetMod = t
    BY <1>1, <2>5, StepBack
  <2>7. MachinePc' = t
    BY <2>1, <2>4, <2>6 DEF MachinePc, Idle
  <2> QED BY <1>2, <2>1, <2>5, <2>7 DEF Idle, t
<1>3. CASE res # "BRANCHING"
  <2>1. at' \in {"check", "fetch"} /\ opres' = res /\ instr' = j
    BY <1>3 DEF After
  <2>2. j + 1 \in 0 .. LOffsetMod - 1
    BY <1>1
  <2>3. (j + 1) % LOffsetMod = j + 1
    BY <1>1, <2>2, ModSmall
  <2> QED BY <1>3, <2>1, <2>3 DEF MachinePc, Idle
<1> QED BY <1>2, <1>3

LEMMA OnceInvStep ==
  ASSUME Dispatch = "goto", CodeFits, OffsetsNear, ValidInv, OnceInv, Step
  PROVE  OnceInv'
<1>1. /\ at = "fetch" /\ Pc < ICount /\ ~Interrupted /\ ran' = ran \cup {Pc}
      /\ UNCHANGED <<image, curDef>>
  BY DEF Step, ctxVars
<1>2. ~Idle /\ MachinePc = Pc
  BY <1>1 DEF Idle, MachinePc, Pc
<1>3. /\ LOffsetMod \in Nat \ {0} /\ ICount \in Nat /\ ICount < LOffsetMod
      /\ image \in Image /\ curDef \in DefIds(image) /\ TheDef.code \in Seq(Instruction)
      /\ TheDef.checked = TheDef.code
      /\ CodeOk(image, TheDef, NConst(image), TheDef.stack_count)
  BY <1>2, Accepted, InterpreterAssumption
<1>4. Pc \in Nat
  BY <1>3, ModRange DEF Pc, OnceInv
<1>5. Pc + 1 \in 1 .. ICount /\ Fetched \in Instruction
  BY <1>1, <1>3, <1>4 DEF Fetched, ICount
<1>6. ran' \subseteq Nat
  BY <1>1, <1>4 DEF OnceInv
<1>7. UNCHANGED <<TheDef, ICount>>
  BY <1>1 DEF TheDef, ICount
<1>8. "HAS_BACKBRANCHES" \notin TheDef.flags => \A k \in ran : k < Pc
  BY <1>1, <1>2 DEF OnceInv
<1>9. CASE RunWhole
  <2>1. PICK o \in Outcomes(image, extcalls, defcode, curStackCount, Fetched, stack, flags) :
          /\ curInstr' = IF o.res = "BRANCHING" THEN Target(Fetched) ELSE curInstr
          /\ After(Fetched.op, Pc, o.res, curInstr')
    BY <1>9 DEF RunWhole
  <2>2. Fetched.op \in Opcodes
    BY <1>5 DEF Instruction
  <2>3. o.res # "INTERRUPTED" /\ (o.res = "BRANCHING" => Fetched.op \in BranchOps)
    BY <2>2, OutcomesResult
  <2>4. /\ ~Idle' /\ at' # "cmp" /\ instr' \in Nat
        /\ MachinePc' = IF o.res = "BRANCHING" THEN Target(Fetched) ELSE Pc + 1
        /\ opres' = IF o.res = "BRANCHING" THEN "OK" ELSE o.res
    BY <1>1, <1>2, <1>4, <2>1, <2>3, PcAfterGoto DEF Fetched
  <2>5. o.res = "BRANCHING" =>
          /\ Target(Fetched) \in Nat
          /\ "HAS_BACKBRANCHES" \notin TheDef.flags => Target(Fetched) >= Pc + 1
    <3>1. /\ Pc + 1 \in 1 .. Len(image.defs[curDef].code)
          /\ Fetched = image.defs[curDef].code[Pc + 1]
          /\ CodeOk(image, image.defs[curDef], NConst(image), TheDef.stack_count)
          /\ image.defs[curDef].checked = image.defs[curDef].code
      BY <1>3, <1>5 DEF Fetched, TheDef, ICount
    <3>2. Len(image.defs[curDef].code) \in Nat
      BY <1>3 DEF ICount, TheDef
    <3> DEFINE j == Pc + 1
    <3>3. j \in 1 .. Len(image.defs[curDef].code)
      BY <3>1
    <3>4. ASSUME image.defs[curDef].code[j].op \in BranchOps
          PROVE  /\ Target(image.defs[curDef].code[j]) \in 0 .. Len(image.defs[curDef].code)
                 /\ "HAS_BACKBRANCHES" \notin image.defs[curDef].flags
                      => Target(image.defs[curDef].code[j]) >= j
      <4> HIDE DEF j
      <4> QED BY <1>3, <3>1, <3>3, <3>4, Forward
    <3> QED BY <2>3, <3>1, <3>2, <3>4 DEF TheDef
  <2>6. curInstr' \in Nat
    BY <2>1, <2>5 DEF OnceInv
  <2>7. "HAS_BACKBRANCHES" \notin TheDef.flags => \A k \in ran' : k < MachinePc'
    <3> SUFFICES ASSUME "HAS_BACKBRANCHES" \notin TheDef.flags, NEW k \in ran'
                 PROVE  k < MachinePc'
      OBVIOUS
    <3>1. k \in Nat /\ k <= Pc
      BY <1>1, <1>4, <1>6, <1>8
    <3>2. MachinePc' \in Nat /\ MachinePc' >= Pc + 1
      BY <1>4, <2>4, <2>5
    <3> QED BY <1>4, <3>1, <3>2
  <2> QED BY <1>6, <1>7, <2>3, <2>4, <2>6, <2>7 DEF OnceInv
<1>10. CASE TornCompare
  <2>1. at' = "cmp" /\ instr' = Pc /\ UNCHANGED <<curInstr, opres>> /\ ~Idle'
    BY <1>10 DEF TornCompare, Idle
  <2>2. "HAS_BACKBRANCHES" \notin TheDef.flags => \A k \in ran' : k <= Pc
    BY <1>1, <1>4, <1>6, <1>8
  <2> QED BY <1>1, <1>4, <1>6, <1>7, <2>1, <2>2 DEF OnceInv
<1> QED BY <1>9, <1>10 DEF Step

\* Storing the flags of a comparison may lose an interrupt, but by then the
\* comparison counts as run.
LEMMA OnceInvCmpStore ==
  ASSUME Dispatch = "goto", CodeFits, OffsetsNear, ValidInv, OnceInv, CmpStore
  PROVE  OnceInv'
<1>1. /\ at = "cmp" /\ ~Idle /\ UNCHANGED <<image, curDef, curInstr, ran>>
      /\ After(TheDef.code[instr + 1].op, instr, "OK", curInstr)
  BY DEF CmpStore, Idle, ctxVars
<1>2. /\ LOffsetMod \in Nat \ {0} /\ ICount \in Nat
      /\ ICount < LOffsetMod /\ instr \in Nat
  BY <1>1, Accepted, InterpreterAssumption DEF OnceInv
<1>3. UNCHANGED <<TheDef, ICount>>
  BY <1>1 DEF TheDef, ICount
<1>4. opres' = "OK" /\ instr' = instr /\ at' \in {"check", "fetch"}
  BY <1>1 DEF After
<1>5. ASSUME "HAS_BACKBRANCHES" \notin TheDef.flags, NEW k \in ran'
      PROVE  k < MachinePc'
  <2>1. instr < ICount /\ k <= instr /\ k \in Nat
    BY <1>1, <1>5 DEF OnceInv
  <2>2. instr + 1 \in 0 .. LOffsetMod - 1
    BY <1>2, <2>1
  <2>3. (instr + 1) % LOffsetMod = instr + 1
    BY <1>2, <2>2, ModSmall
  <2>4. MachinePc' = instr + 1
    BY <1>4, <2>3 DEF MachinePc, Idle
  <2> QED BY <1>2, <2>1, <2>4
<1> QED BY <1>1, <1>3, <1>4, <1>5 DEF OnceInv, Idle

\* The tests between two instructions only move control
LEMMA OnceInvTests ==
  ASSUME Dispatch = "goto", OnceInv, FetchEndGoto \/ CheckGoto
  PROVE  OnceInv'
<1>1. /\ UNCHANGED <<image, curDef, curInstr, flags, opres, ran>> /\ ~Idle /\ ~Idle'
      /\ at # "cmp" /\ at' # "cmp"
  BY DEF FetchEndGoto, CheckGoto, ctxVars, Idle
<1>2. UNCHANGED <<TheDef, ICount, Interrupted>>
  BY <1>1 DEF TheDef, ICount, Interrupted
<1>3. MachinePc' = MachinePc
  BY DEF FetchEndGoto, CheckGoto, MachinePc, Pc, Idle
<1>4. instr' \in Nat
  <2>1. LOffsetMod \in Nat \ {0}
    BY InterpreterAssumption
  <2>2. (instr + 1) % LOffsetMod \in Nat
    BY <2>1, ModRange DEF OnceInv
  <2> QED BY <2>2 DEF OnceInv, FetchEndGoto, CheckGoto, Pc
<1> QED BY <1>1, <1>2, <1>3, <1>4 DEF OnceInv

\* Only an interrupt leaves a call behind
LEMMA OnceInvLeave ==
  ASSUME Dispatch = "goto", OnceInv, EndCheck
  PROVE  OnceInv'
<1> DEFINE res == IF opres = "OK" /\ Interrupted THEN "INTERRUPTED" ELSE opres
<1>1. /\ Idle' /\ instr' = 0 /\ opres' = "OK" /\ curInstr' = instr
      /\ UNCHANGED <<flags, ran>> /\ Finish(curDef, res, curStackCount)
  BY DEF EndCheck, LeaveLoop, Idle
<1>2. curDef' = None \/ Interrupted'
  BY <1>1 DEF Finish, Interrupted, OnceInv
<1> QED BY <1>1, <1>2 DEF OnceInv

\* lmnt_interrupt sets a flag
LEMMA OnceInvInterrupt ==
  ASSUME OnceInv, Interrupter \/ UNCHANGED vars
  PROVE  OnceInv'
<1>1. /\ UNCHANGED <<image, curDef, curInstr, at, instr, opres, ran>>
      /\ Interrupted => Interrupted'
  BY DEF Interrupter, Interrupt, InterruptLoad, InterruptStore, vars, ctxVars, runVars, Interrupted
<1>2. UNCHANGED <<TheDef, ICount, MachinePc, Idle>>
  BY <1>1 DEF TheDef, ICount, MachinePc, Idle
<1> QED BY <1>1, <1>2 DEF OnceInv

LEMMA OnceInvNext ==
  ASSUME Dispatch = "goto", CodeFits, OffsetsNear
  PROVE  ValidInv /\ OnceInv /\ [Next]_vars => OnceInv'
<1> SUFFICES ASSUME ValidInv, OnceInv, [Next]_vars PROVE OnceInv'
  OBVIOUS
<1>1. CASE Loading
  <2>1. Reset \/ UNCHANGED <<curDef, curInstr, flags, runVars, ran>>
    BY <1>1 DEF Loading, Reinit, LoadBegin, LoadInplace, NewArchive, LoadAppend, ExtcallsSet,
       Prepare
  <2>2. Idle /\ Idle'
    BY <1>1 DEF Loading, Reinit, Reset, LoadBegin, LoadInplace, NewArchive, LoadAppend,
       ExtcallsSet, Prepare, Idle, runVars
  <2> QED BY <2>1, <2>2, OnceInvHost
<1>2. CASE image # None /\ Calling
  <2>1. ASSUME NEW d, NEW off, NEW v, UpdateArgs(d, off, v) PROVE OnceInv'
    <3>1. Idle /\ UNCHANGED <<curDef, curInstr, flags, runVars, ran>>
      BY <2>1 DEF UpdateArgs, MayCall
    <3>2. Idle'
      BY <3>1 DEF Idle, runVars
    <3> QED BY <3>1, <3>2, OnceInvHost
  <2>2. ASSUME NEW d \in DefIds(image), NEW room, Execute(d, room) PROVE OnceInv'
    <3>1. /\ Idle /\ RunDef(d, room, 0, ConstCount(image) + image.defs[d].stack_count)
          /\ UNCHANGED <<ctxVars, flags>> /\ curInstr' = 0 /\ ran' = {}
      BY <2>2 DEF Execute, MayCall
    <3> QED BY <3>1, OnceInvRun
  <2>3. ASSUME NEW d \in DefIds(image), NEW room, Resume(d, room) PROVE OnceInv'
    <3>1. Idle /\ UNCHANGED <<ctxVars, curInstr, flags, ran>> /\ curInstr \in Nat
      BY <2>3 DEF Resume, MayCall, OnceInv
    <3>2. CASE curDef = d
      <4>1. RunDef(d, room, curInstr, curStackCount)
        BY <2>3, <3>2 DEF Resume
      <4> QED BY <3>1, <3>2, <4>1, OnceInvRun
    <3>3. CASE curDef # d
      <4>1. UNCHANGED <<curDef, runVars>>
        BY <2>3, <3>3 DEF Resume
      <4>2. Idle'
        BY <3>1, <4>1 DEF Idle, runVars
      <4> QED BY <3>1, <4>1, <4>2, OnceInvHost
    <3> QED BY <3>2, <3>3
  <2> QED BY <1>2, <2>1, <2>2, <2>3 DEF Calling
<1>3. CASE Thread
  <2>1. ~(FetchEndLoop \/ CheckLoop \/ BreakLoop)
    BY DEF FetchEndLoop, CheckLoop, BreakLoop
  <2> QED BY <1>3, <2>1, OnceInvStep, OnceInvCmpStore, OnceInvTests, OnceInvLeave DEF Thread
<1>4. CASE Interrupter \/ UNCHANGED vars
  BY <1>4, OnceInvInterrupt
<1> QED BY <1>1, <1>2, <1>3, <1>4 DEF Next

\* dispatch_computed_goto.h with validate_def: while what runs is what was
\* validated (the offsets fit in 16 bits), a def that does not declare backward
\* branches runs no instruction twice in one call, whenever interrupts fall,
\* whatever the host resumes, and however the updates of status_flags interleave.
THEOREM RunsAtMostOnce ==
  ASSUME Dispatch = "goto", CodeFits, OffsetsNear
  PROVE  Spec => []AtMostOnce
<1>1. OnceInv => AtMostOnce
  <2> SUFFICES ASSUME OnceInv, AboutToRun, Pc \in ran,
                      "HAS_BACKBRANCHES" \notin TheDef.flags
               PROVE  FALSE
    BY DEF AtMostOnce
  <2>1. ~Idle /\ at # "cmp" /\ ~Interrupted /\ MachinePc = Pc
    BY DEF AboutToRun, Idle, MachinePc, Pc
  <2>2. Pc < Pc /\ Pc \in Nat
    BY <2>1 DEF OnceInv
  <2> QED BY <2>2
<1> QED BY <1>1, ValidInvInit, ValidInvStep, OnceInvInit, OnceInvNext, PTL DEF Spec

-----------------------------------------------------------------------------
(* No instruction is left out.                                             *)

Branchless(d) == \A j \in 1 .. Len(image.defs[d].code) : image.defs[d].code[j].op \notin BranchOps

\* What resumption rests on.  Between two calls cur_instr is not past the first
\* instruction that has not run; that is where the loops of dispatch_switch.h and
\* dispatch_jumptable.h go on.  The computed-goto loop leaves cur_instr one
\* instruction too far when it stops between two, but there the interrupt that
\* stopped it is still pending, and lets nothing run.
SkipInv ==
  /\ opres # "INTERRUPTED"
  /\ Idle /\ curDef \in suspended /\ Branchless(curDef) =>
       IF Dispatch = "goto" THEN Interrupted \/ curInstr = 0
       ELSE 0 .. curInstr - 1 \subseteq ran
  /\ ~Idle /\ Branchless(curDef) =>
       /\ opres # "BRANCHING"
       /\ at = "cmp" => 0 .. instr \subseteq ran
       /\ at # "cmp" => \/ Dispatch = "goto" /\ Interrupted
                        \/ 0 .. MachinePc - 1 \subseteq ran

LEMMA SkipInvInit == Init => SkipInv
BY DEF Init, SkipInv, Idle

\* What the host does between calls
LEMMA SkipInvHost ==
  ASSUME SkipInv, Idle, Idle',
         \/ Reset
         \/ UNCHANGED <<image, curDef, curInstr, flags, runVars, suspended, ran>>
         \/ UNCHANGED runVars /\ suspended' = {}
  PROVE  SkipInv'
<1>1. CASE Reset
  BY <1>1 DEF Reset, SkipInv
<1>2. CASE UNCHANGED <<image, curDef, curInstr, flags, runVars, suspended, ran>>
  BY <1>2 DEF SkipInv, Interrupted, Branchless, runVars
<1>3. CASE UNCHANGED runVars /\ suspended' = {}
  BY <1>3 DEF SkipInv, runVars
<1> QED BY <1>1, <1>2, <1>3

\* execute(): from the start, or from where an interrupted call left off
LEMMA SkipInvRun ==
  ASSUME FrameInv, SkipInv, Idle, NEW d \in DefIds(image), NEW room,
         NEW n \in Nat, NEW frame, RunDef(d, room, n, frame),
         UNCHANGED <<ctxVars, flags>>,
         curInstr' = n,
         n = 0 \/ (d \in suspended /\ curDef = d /\ ran' = ran /\ n = curInstr)
  PROVE  SkipInv'
<1>1. d \in Nat /\ None \notin Nat /\ LOffsetMod \in Nat \ {0} /\ suspended \subseteq Nat
  BY InterpreterAssumption DEF DefIds, FrameInv, Suspended
<1>2. UNCHANGED <<image, flags>>
  BY DEF ctxVars
<1>3. Branchless(d) => \/ Dispatch = "goto" /\ (Interrupted \/ n = 0)
                       \/ Dispatch # "goto" /\ 0 .. n - 1 \subseteq ran'
  BY DEF SkipInv
<1>4. Branchless(d)' <=> Branchless(d)
  BY <1>2 DEF Branchless
<1>5. CASE ~room
  <2>1. curDef' = d /\ UNCHANGED <<suspended, runVars>>
    BY <1>5 DEF RunDef
  <2> QED BY <1>2, <1>3, <1>4, <2>1 DEF SkipInv, Idle, Interrupted, runVars
<1>6. CASE room /\ "EXTERN" \in image.defs[d].flags
  <2>1. CallExtern(d, defcode[d], frame)
    BY <1>6 DEF RunDef
  <2>2. /\ UNCHANGED runVars
        /\ \/ curDef' = d /\ UNCHANGED suspended
           \/ curDef' = None /\ suspended' \subseteq suspended
    <3>1. CASE defcode[d] >= Len(extcalls)
      BY <2>1, <3>1 DEF CallExtern
    <3>2. CASE ~(defcode[d] >= Len(extcalls))
      <4>1. PICK o \in ExtOutcomes(extcalls, defcode[d], stack, writable) :
              Finish(d, o.res, frame)
        BY <2>1, <3>2 DEF CallExtern
      <4>2. o.res # "INTERRUPTED"
        BY <3>2, <4>1, OpsAssumption DEF ExtOutcomes, Outcome
      <4> QED BY <2>1, <4>1, <4>2 DEF Finish, CallExtern
    <3> QED BY <3>1, <3>2
  <2> QED BY <1>1, <1>2, <1>3, <1>4, <2>2 DEF SkipInv, Idle, Interrupted, runVars
<1>7. CASE room /\ "EXTERN" \notin image.defs[d].flags
  <2>1. EnterLoop(n) /\ curDef' = d /\ opres' = "OK"
    BY <1>7 DEF RunDef, EnterLoop
  <2>2. CASE Dispatch = "goto"
    <3>1. at' = "check" /\ instr' = (n - 1) % LOffsetMod
      BY <2>1, <2>2 DEF EnterLoop
    <3>2. n = 0 => 0 .. MachinePc' - 1 = {}
      <4>1. (((0 - 1) % LOffsetMod) + 1) % LOffsetMod = 0
        BY <1>1, StepBack
      <4>2. n = 0 => MachinePc' = 0
        BY <2>2, <3>1, <4>1 DEF MachinePc, Idle
      <4> QED BY <4>2
    <3> QED BY <1>2, <1>3, <1>4, <2>1, <2>2, <3>1, <3>2 DEF SkipInv, Idle, Interrupted
  <2>3. CASE Dispatch # "goto"
    <3>1. at' = "fetch" /\ instr' = n
      BY <2>1, <2>3 DEF EnterLoop
    <3>2. MachinePc' = n
      BY <2>3, <3>1 DEF MachinePc, Idle
    <3> QED BY <1>3, <1>4, <2>1, <2>3, <3>1, <3>2 DEF SkipInv, Idle
  <2> QED BY <2>2, <2>3
<1> QED BY <1>5, <1>6, <1>7

\* An instruction of branchless code, once it has run, counts as run and is
\* followed by the next one.
LEMMA SkipInvRan ==
  ASSUME OffsetsNear, FrameInv, SkipInv, ~Idle, UNCHANGED <<image, curDef>>, NEW j \in Nat,
         NEW op, NEW res, After(op, j, res, curInstr'),
         res # "INTERRUPTED", Branchless(curDef) => res # "BRANCHING",
         Branchless(curDef) => 0 .. j \subseteq ran'
  PROVE  SkipInv'
<1>1. LOffsetMod \in Nat \ {0}
  BY InterpreterAssumption
<1>2. Branchless(curDef)' <=> Branchless(curDef)
  BY DEF Branchless
<1>3. at' \in {"check", "fetch"} /\ opres' # "INTERRUPTED"
  BY DEF After
<1>4. ASSUME Branchless(curDef)
      PROVE  /\ opres' # "BRANCHING"
             /\ \/ Dispatch = "goto" /\ Interrupted'
                \/ 0 .. MachinePc' - 1 \subseteq ran'
  <2>1. opres' = res /\ res # "BRANCHING" /\ instr' = j
    BY <1>4 DEF After
  <2>2. CASE Dispatch = "goto"
    <3>1. MachinePc' = (j + 1) % LOffsetMod
      BY <1>3, <2>1, <2>2 DEF MachinePc, Idle
    <3> DEFINE r == (j + 1) % LOffsetMod
    <3>2. r \in Nat /\ r <= j + 1
      <4>1. j + 1 \in Nat
        OBVIOUS
      <4>2. r \in 0 .. LOffsetMod - 1
        BY <1>1, <4>1, ModRange
      <4>3. r <= j + 1
        BY <1>1, <4>1, ModLe
      <4> HIDE DEF r
      <4> QED BY <1>1, <4>2, <4>3
    <3>3. 0 .. r - 1 \subseteq 0 .. j
      <4> HIDE DEF r
      <4> QED BY <3>2
    <3> QED BY <1>4, <2>1, <3>1, <3>3
  <2>3. CASE Dispatch # "goto"
    <3>1. at' = "check"
      BY <2>1, <2>3 DEF After
    <3>2. MachinePc' = j + 1
      BY <2>1, <2>3, <3>1 DEF MachinePc, Idle
    <3>3. 0 .. MachinePc' - 1 \subseteq 0 .. j
      BY <3>2
    <3> QED BY <1>4, <2>1, <2>3, <3>3
  <2> QED BY <2>2, <2>3
<1> QED BY <1>2, <1>3, <1>4 DEF SkipInv, Idle

LEMMA SkipInvStep ==
  ASSUME OffsetsNear, FrameInv, SkipInv, Step
  PROVE  SkipInv'
<1>1. /\ at = "fetch" /\ Pc < ICount /\ (Dispatch = "goto" => ~Interrupted)
      /\ ran' = ran \cup {Pc} /\ UNCHANGED <<image, curDef>> /\ ~Idle
  BY DEF Step, ctxVars, Idle
<1>2. MachinePc = Pc
  BY <1>1 DEF Idle, MachinePc, Pc
<1>3. Pc \in Nat /\ Pc + 1 \in 1 .. ICount /\ Fetched \in Instruction
  BY <1>1, FetchedPlace, InFrame DEF Fetched
<1>4. Branchless(curDef) => 0 .. Pc \subseteq ran'
  <2>1. Branchless(curDef) => 0 .. Pc - 1 \subseteq ran
    BY <1>1, <1>2 DEF SkipInv
  <2>2. 0 .. Pc = (0 .. Pc - 1) \cup {Pc}
    BY <1>3
  <2> QED BY <1>1, <2>1, <2>2
<1>5. Branchless(curDef)' <=> Branchless(curDef)
  BY <1>1 DEF Branchless
<1>6. CASE RunWhole
  <2>1. PICK o \in Outcomes(image, extcalls, defcode, curStackCount, Fetched, stack, flags) :
          After(Fetched.op, Pc, o.res, curInstr')
    BY <1>6 DEF RunWhole
  <2>2. Fetched.op \in Opcodes
    BY <1>3 DEF Instruction
  <2>3. o.res # "INTERRUPTED" /\ (o.res = "BRANCHING" => Fetched.op \in BranchOps)
    BY <2>2, OutcomesResult
  <2>4. Branchless(curDef) => Fetched.op \notin BranchOps
    BY <1>3 DEF Branchless, Fetched, TheDef, ICount
  <2> QED BY <1>1, <1>3, <1>4, <2>1, <2>3, <2>4, SkipInvRan
<1>7. CASE TornCompare
  <2>1. at' = "cmp" /\ instr' = Pc /\ UNCHANGED opres
    BY <1>7 DEF TornCompare
  <2> QED BY <1>1, <1>4, <1>5, <2>1 DEF SkipInv, Idle
<1> QED BY <1>6, <1>7 DEF Step

LEMMA SkipInvCmpStore ==
  ASSUME OffsetsNear, FrameInv, SkipInv, CmpStore
  PROVE  SkipInv'
<1>1. /\ at = "cmp" /\ ~Idle /\ UNCHANGED <<image, curDef, curInstr, ran>>
      /\ After(TheDef.code[instr + 1].op, instr, "OK", curInstr')
  BY DEF CmpStore, Idle, ctxVars
<1>2. instr \in Nat
  BY FetchedPlace
<1>3. Branchless(curDef) => 0 .. instr \subseteq ran'
  BY <1>1 DEF SkipInv
<1> QED BY <1>1, <1>2, <1>3, SkipInvRan

\* Moving on is not running
LEMMA SkipInvTests ==
  ASSUME OffsetsNear, FrameInv, SkipInv, FetchEndGoto \/ CheckGoto \/ CheckLoop
  PROVE  SkipInv'
<1>1. /\ UNCHANGED <<image, curDef, curInstr, flags, opres, ran>> /\ ~Idle /\ ~Idle'
      /\ at # "cmp" /\ at' # "cmp"
  BY DEF FetchEndGoto, CheckGoto, CheckLoop, ctxVars, Idle
<1>2. Branchless(curDef)' <=> Branchless(curDef)
  BY <1>1 DEF Branchless
<1>3. MachinePc' = MachinePc
  BY DEF FetchEndGoto, CheckGoto, CheckLoop, MachinePc, Pc, Idle
<1> QED BY <1>1, <1>2, <1>3 DEF SkipInv, Interrupted

\* An interrupted call is left with cur_instr at the last instruction it ran, or
\* with the interrupt still pending.
LEMMA SkipInvLeave ==
  ASSUME OffsetsNear, FrameInv, SkipInv, EndCheck \/ FetchEndLoop \/ BreakLoop
  PROVE  SkipInv'
<1>1. PICK res : LeaveLoop(res) /\ (res = "INTERRUPTED" => opres = "OK" /\ Interrupted)
  BY DEF EndCheck, FetchEndLoop, BreakLoop, SkipInv
<1>2. /\ Idle' /\ opres' = "OK" /\ curInstr' = instr
      /\ UNCHANGED <<image, flags, ran>> /\ Finish(curDef, res, curStackCount)
  BY <1>1 DEF LeaveLoop, Idle, ctxVars
<1>3. None \notin suspended /\ instr \in Nat
  BY InterpreterAssumption, FetchedPlace DEF FrameInv, Suspended
<1>4. CASE res # "INTERRUPTED"
  <2>1. curDef' \notin suspended'
    BY <1>2, <1>3, <1>4 DEF Finish
  <2> QED BY <1>2, <2>1 DEF SkipInv
<1>5. CASE res = "INTERRUPTED"
  <2>1. curDef' = curDef /\ Interrupted' /\ opres = "OK"
    BY <1>1, <1>2, <1>5 DEF Finish, Interrupted
  <2>2. Branchless(curDef)' <=> Branchless(curDef)
    BY <1>2, <2>1 DEF Branchless
  <2>3. CASE Dispatch = "goto"
    BY <1>2, <2>1, <2>3 DEF SkipInv
  <2>4. CASE Dispatch # "goto"
    <3>1. ~Idle /\ at # "cmp"
      BY DEF EndCheck, FetchEndLoop, BreakLoop, Idle
    <3>2. MachinePc \in {instr, instr + 1}
      BY <2>1, <2>4, <3>1 DEF MachinePc
    <3>3. 0 .. instr - 1 \subseteq 0 .. MachinePc - 1
      BY <1>3, <3>2
    <3>4. Branchless(curDef) => 0 .. curInstr' - 1 \subseteq ran'
      BY <1>2, <2>4, <3>1, <3>3 DEF SkipInv
    <3> QED BY <1>2, <2>1, <2>2, <2>4, <3>4 DEF SkipInv
  <2> QED BY <2>3, <2>4
<1> QED BY <1>4, <1>5

LEMMA SkipInvNext ==
  ASSUME Careful, OffsetsNear
  PROVE  FrameInv /\ SkipInv /\ [Next]_vars => SkipInv'
<1> SUFFICES ASSUME FrameInv, SkipInv, [Next]_vars PROVE SkipInv'
  OBVIOUS
<1>1. CASE Loading
  <2>1. Idle /\ Idle'
    BY <1>1 DEF Loading, Reinit, Reset, LoadBegin, LoadInplace, NewArchive, LoadAppend,
       ExtcallsSet, Prepare, Idle, runVars
  <2>2. \/ Reset
        \/ UNCHANGED <<image, curDef, curInstr, flags, runVars, suspended, ran>>
        \/ UNCHANGED runVars /\ suspended' = {}
    BY <1>1 DEF Loading, Reinit, LoadBegin, LoadInplace, NewArchive, LoadAppend, ExtcallsSet,
       Prepare
  <2> QED BY <2>1, <2>2, SkipInvHost
<1>2. CASE image # None /\ Calling
  <2>1. ASSUME NEW d, NEW off, NEW v, UpdateArgs(d, off, v) PROVE SkipInv'
    <3>1. Idle /\ UNCHANGED <<image, curDef, curInstr, flags, runVars, suspended, ran>>
      BY <2>1 DEF UpdateArgs, MayCall, ctxVars
    <3>2. Idle'
      BY <3>1 DEF Idle, runVars
    <3> QED BY <3>1, <3>2, SkipInvHost
  <2>2. ASSUME NEW d \in DefIds(image), NEW room, Execute(d, room) PROVE SkipInv'
    <3>1. /\ Idle /\ RunDef(d, room, 0, ConstCount(image) + image.defs[d].stack_count)
          /\ UNCHANGED <<ctxVars, flags>> /\ curInstr' = 0
      BY <2>2 DEF Execute, MayCall
    <3> QED BY <3>1, SkipInvRun
  <2>3. ASSUME NEW d \in DefIds(image), NEW room, Resume(d, room) PROVE SkipInv'
    <3>1. /\ Idle /\ UNCHANGED <<ctxVars, curInstr, flags, ran>> /\ curInstr \in Nat
          /\ d \in suspended
      BY <2>3 DEF Resume, MayCall, FrameInv, TypeOK
    <3>2. CASE curDef = d
      <4>1. RunDef(d, room, curInstr, curStackCount)
        BY <2>3, <3>2 DEF Resume
      <4> QED BY <3>1, <3>2, <4>1, SkipInvRun
    <3>3. CASE curDef # d
      <4>1. UNCHANGED <<image, curDef, curInstr, flags, runVars, suspended, ran>>
        BY <2>3, <3>3 DEF Resume, ctxVars
      <4>2. Idle'
        BY <3>1, <4>1 DEF Idle, runVars
      <4> QED BY <3>1, <4>1, <4>2, SkipInvHost
    <3> QED BY <3>2, <3>3
  <2> QED BY <1>2, <2>1, <2>2, <2>3 DEF Calling
<1>3. CASE Thread
  BY <1>3, SkipInvStep, SkipInvCmpStore, SkipInvTests, SkipInvLeave DEF Thread
<1>4. CASE Interrupter \/ UNCHANGED vars
  <2>1. /\ UNCHANGED <<image, curDef, curInstr, at, instr, opres, suspended, ran>>
        /\ Interrupted => Interrupted'
    BY <1>4 DEF Interrupter, Interrupt, InterruptLoad, InterruptStore, vars, ctxVars, runVars,
       hostVars, Interrupted
  <2>2. UNCHANGED <<MachinePc, Idle>> /\ (Branchless(curDef)' <=> Branchless(curDef))
    BY <2>1 DEF MachinePc, Idle, Branchless
  <2> QED BY <2>1, <2>2 DEF SkipInv
<1> QED BY <1>1, <1>2, <1>3, <1>4 DEF Next

\* execute() and the three dispatch loops: with a host that resumes only calls it
\* has seen interrupted, of archives whose offsets fit in 16 bits, a call of
\* branchless code has run everything before the instruction it is about to run,
\* however often it was interrupted and resumed.
THEOREM LeavesNothingOut ==
  ASSUME Careful, OffsetsNear
  PROVE  Spec => []NoneSkipped
<1>1. FrameInv /\ SkipInv => NoneSkipped
  <2> SUFFICES ASSUME SkipInv, AboutToRun,
                      \A i \in 1 .. ICount : TheDef.code[i].op \notin BranchOps
               PROVE  0 .. Pc - 1 \subseteq ran
    BY DEF NoneSkipped
  <2>1. ~Idle /\ at # "cmp" /\ ~(Dispatch = "goto" /\ Interrupted) /\ MachinePc = Pc
    BY DEF AboutToRun, Idle, MachinePc, Pc
  <2>2. Branchless(curDef)
    BY DEF Branchless, TheDef, ICount
  <2> QED BY <2>1, <2>2 DEF SkipInv
<1> QED BY <1>1, FramesKept, SkipInvInit, SkipInvNext, FrameInvInit, FrameInvStep, PTL DEF Spec
=============================================================================
