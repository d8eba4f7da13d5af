--------------------------- MODULE LmntInterpreter ---------------------------
(***************************************************************************)
(* The LMNT interpreter: one lmnt_ictx, the host that drives it through    *)
(* the functions of interpreter.h, and a second thread (or an interrupt    *)
(* handler) that calls lmnt_interrupt.                                     *)
(*                                                                         *)
(* A call of lmnt_execute is not atomic: each instruction, and each test   *)
(* of the status flags between two instructions, is a step, so that an     *)
(* interrupt can fall anywhere.  The three dispatch_*.h headers differ in  *)
(* where they test the flags and in what they leave in cur_instr; Dispatch *)
(* chooses the one the build includes.                                     *)
(***************************************************************************)
EXTENDS LmntOps

CONSTANTS
  Images,      \* the archives a host may load
  Reloads,     \* bound: those it may load after each of them (None: at first)
  ExtTables,   \* bound: the extcall tables it may set while one is loaded
  Memory,      \* cells of the memory area given to lmnt_init
  Fill,        \* what the cells after the constants may hold at first
  Dispatch,    \* "goto", "switch" or "jumptable"
  Torn,        \* TRUE: the read-modify-writes of status_flags may interleave
  Careful,     \* TRUE: the host resumes only what it saw interrupted
  LOffsetMod,  \* 2^(bits of lmnt_loffset)
  None

ASSUME InterpreterAssumption ==
  /\ Images \subseteq Image
  /\ Reloads \in [Images \cup {None} -> SUBSET Images]
  /\ ExtTables \in [Images \cup {None} -> SUBSET Seq(ExtEntry)]
  /\ Memory \in 16 .. SizeMod - 1     \* lmnt_init refuses a smaller area
  /\ Fill \subseteq Value
  /\ Dispatch \in {"goto", "switch", "jumptable"}
  /\ Torn \in BOOLEAN /\ Careful \in BOOLEAN
  /\ LOffsetMod \in Nat \ {0}
  /\ None \notin Nat /\ None \notin Image

VARIABLES
  \* lmnt_ictx.archive; defcode is the code member of each def in memory
  image, size, aflags, defcode,
  \* lmnt_ictx
  extcalls, stack, stackCount, writable, curDef, curInstr, curStackCount, flags,
  \* the locals of execute_function
  at, instr, opres,
  \* a latched copy of status_flags in lmnt_op_cmp and in lmnt_interrupt
  latch, irq,
  \* the host: the last result, what it believes, and whether the memory area
  \* holds a stack laid out for this image
  result, prepared, suspended, laid,
  \* history: the instructions run since lmnt_execute set cur_def
  ran

ctxVars  == <<image, size, aflags, defcode, extcalls, stackCount, writable>>
runVars  == <<at, instr, opres, latch>>
hostVars == <<result, prepared, suspended, laid>>
vars == <<ctxVars, stack, curDef, curInstr, curStackCount, flags, runVars, irq,
          hostVars, ran>>

-----------------------------------------------------------------------------
\* Where control is in execute_function
Idle == at = "idle"

TheDef == image.defs[curDef]
ICount == Len(TheDef.code)

\* The next instruction to fetch: the computed-goto loop increments first
Pc == IF Dispatch = "goto" THEN (instr + 1) % LOffsetMod ELSE instr
Fetched == TheDef.code[Pc + 1]

\* Mutant: the mask of the test is that of another status bit
InterruptedByUnordered == "UN" \in flags

Interrupted == "INT" \in flags

Frame == 0 .. (curStackCount - 1)

-----------------------------------------------------------------------------
(* The host: setting up a context.                                         *)

Reset ==
  /\ image' = None /\ size' = 0 /\ aflags' = {} /\ defcode' = <<>>
  /\ extcalls' = <<>>
  /\ stack' = <<>> /\ stackCount' = 0 /\ writable' = 0
  /\ curDef' = None /\ curInstr' = 0 /\ curStackCount' = 0 /\ flags' = {}
  /\ at' = "idle" /\ instr' = 0 /\ opres' = "OK" /\ latch' = {}
  /\ result' = "OK" /\ prepared' = FALSE /\ suspended' = {} /\ laid' = FALSE
  /\ ran' = {}

Init ==
  /\ image = None /\ size = 0 /\ aflags = {} /\ defcode = <<>>
  /\ extcalls = <<>>
  /\ stack = <<>> /\ stackCount = 0 /\ writable = 0
  /\ curDef = None /\ curInstr = 0 /\ curStackCount = 0 /\ flags = {}
  /\ at = "idle" /\ instr = 0 /\ opres = "OK" /\ latch = {}
  /\ irq = None
  /\ result = "OK" /\ prepared = FALSE /\ suspended = {} /\ laid = FALSE
  /\ ran = {}

\* lmnt_init again: the context is cleared, whatever it held
Reinit ==
  /\ Idle /\ image # None
  /\ irq = None
  /\ Reset
  /\ UNCHANGED irq

\* lmnt_archive_init: neither the stack nor the current def is touched
NewArchive(img, n, fl) ==
  /\ Idle
  /\ image' = img /\ size' = n /\ aflags' = fl
  /\ defcode' = [i \in DefIds(img) |-> img.defs[i].code0]
  /\ prepared' = FALSE /\ suspended' = {} /\ laid' = FALSE /\ result' = "OK"
  /\ UNCHANGED <<extcalls, stack, stackCount, writable, curDef, curInstr,
                 curStackCount, flags, runVars, irq, ran>>

LoadBegin(img)   == NewArchive(img, 0, {})
LoadInplace(img) == NewArchive(img, Total(img), {"INPLACE"})

\* The next n cells of the archive; a partly loaded one fails validation
LoadAppend(n) ==
  /\ Idle /\ image # None /\ "INPLACE" \notin aflags
  /\ size < Total(image)
  /\ size + n <= Total(image)
  /\ IF n >= Memory - size
     THEN result' = "MEMORY_SIZE" /\ UNCHANGED size
     ELSE result' = "OK" /\ size' = size + n
  /\ UNCHANGED <<image, aflags, defcode, extcalls, stack, stackCount, writable,
                 curDef, curInstr, curStackCount, flags, runVars, irq, prepared,
                 suspended, laid, ran>>

\* Mutant: the archive stays validated
ExtcallsSetOnly(table) ==
  /\ Idle
  /\ extcalls' = table
  /\ result' = "OK"
  /\ UNCHANGED <<image, size, aflags, defcode, stack, stackCount, writable, curDef,
                 curInstr, curStackCount, flags, runVars, irq, prepared,
                 suspended, laid, ran>>

ExtcallsSet(table) ==
  /\ Idle
  /\ extcalls' = table
  /\ aflags' = aflags \ {"VALIDATED"}
  /\ result' = "OK"
  /\ UNCHANGED <<image, size, defcode, stack, stackCount, writable, curDef,
                 curInstr, curStackCount, flags, runVars, irq, prepared,
                 suspended, laid, ran>>

\* lmnt_extcall_find_index
Matches(table, d) ==
  {i \in 1 .. Len(table) :
     /\ table[i].name = d.name
     /\ table[i].args_count = d.args_count
     /\ table[i].rvals_count = d.rvals_count}
FindIndex(table, d) ==
  (CHOOSE i \in Matches(table, d) : \A j \in Matches(table, d) : i <= j) - 1

NeedsExtcall(d) == "EXTERN" \in d.flags /\ "INTERFACE" \notin d.flags

\* lmnt_archive_update_def_extcalls stops at the first extern it cannot find
Unfound == {i \in DefIds(image) :
              NeedsExtcall(image.defs[i]) /\ Matches(extcalls, image.defs[i]) = {}}
Bindable == {i \in DefIds(image) :
               /\ NeedsExtcall(image.defs[i])
               /\ \A j \in Unfound : i < j}

UpdateDefExtcalls ==
  IF "INPLACE" \in aflags
  THEN /\ result' = "ACCESS_VIOLATION"
       /\ prepared' = FALSE
       /\ aflags' = aflags \cup {"VALIDATED"}
       /\ UNCHANGED defcode
  ELSE /\ defcode' = [i \in DOMAIN defcode |->
                        IF i \in Bindable THEN FindIndex(extcalls, image.defs[i])
                        ELSE defcode[i]]
       /\ aflags' = (aflags \ {"USES_EXTCALLS"}) \cup {"VALIDATED"}
                      \cup (IF Bindable = {} THEN {} ELSE {"USES_EXTCALLS"})
       /\ result' = IF Unfound = {} THEN "OK" ELSE "MISSING_EXTCALL"
       /\ prepared' = (Unfound = {})

\* The stack begins with the constants: where they were loaded, or, for an
\* archive in place, as many as validated_get_constants_count has copied
Layout(img, n, fill) ==
  LET copied == IF "INPLACE" \in aflags THEN ConstCount(img) ELSE NConst(img)
  IN  [c \in 0 .. n - 1 |-> IF c < copied THEN img.consts[c + 1] ELSE fill]

\* lmnt_prepare_archive, when its validator comes to an end
Prepare(fill) ==
  /\ Idle /\ image # None
  /\ ~Endless(image, size, Memory)
  /\ IF ArchiveOk(image, size, Memory)
     THEN /\ stackCount' = StackCount(image, Memory)
          /\ writable' = ConstCount(image)
          /\ stack' = IF laid THEN stack
                      ELSE Layout(image, StackCount(image, Memory), fill)
          /\ laid' = TRUE
          /\ UpdateDefExtcalls
     ELSE /\ result' = "INVALID_ARCHIVE" /\ prepared' = FALSE
          /\ UNCHANGED <<stackCount, writable, stack, laid, aflags, defcode>>
  /\ UNCHANGED <<image, size, extcalls, curDef, curInstr, curStackCount, flags,
                 runVars, irq, suspended, ran>>

-----------------------------------------------------------------------------
(* The host: calling a def of the archive.  It has the def from            *)
(* lmnt_find_def, which refuses an archive that is not validated: so the   *)
(* stack has been laid out once.  lmnt_execute, lmnt_resume and            *)
(* lmnt_update_args check nothing of the archive; that it is still         *)
(* validated, and was prepared with success, is up to a careful host.      *)

MayCall(d) ==
  /\ Idle /\ laid
  /\ d \in DefIds(image)
  /\ Careful => prepared /\ "VALIDATED" \in aflags

UpdateArgs(d, off, v) ==
  /\ MayCall(d)
  /\ IF off + 1 > stackCount
     THEN result' = "ACCESS_VIOLATION" /\ UNCHANGED stack
     ELSE IF off + 1 > image.defs[d].args_count
          THEN result' = "ARGS_MISMATCH" /\ UNCHANGED stack
          ELSE result' = "OK" /\ stack' = [stack EXCEPT ![writable + off] = v]
  /\ UNCHANGED <<ctxVars, curDef, curInstr, curStackCount, flags, runVars, irq,
                 prepared, suspended, laid, ran>>

\* Mutant: the decrement does not wrap
EnterLoopSigned(n) ==
  /\ opres' = "OK"
  /\ IF Dispatch = "goto"
     THEN instr' = n - 1 /\ at' = "check"
     ELSE instr' = n /\ at' = "fetch"
  /\ UNCHANGED <<stack, result, suspended, latch>>

\* Into the loop of the dispatch header, from instruction n of curDef
EnterLoop(n) ==
  /\ opres' = "OK"
  /\ IF Dispatch = "goto"
     THEN instr' = (n - 1) % LOffsetMod /\ at' = "check"
     ELSE instr' = n /\ at' = "fetch"
  /\ UNCHANGED <<stack, result, suspended, latch>>

\* Mutant: the frame of an interrupted call is forgotten
FinishNoFrame(d, res, frame) ==
  /\ result' = IF res \in {"RETURNING", "BRANCHING"} THEN "OK" ELSE res
  /\ curStackCount' = 0
  /\ IF res = "INTERRUPTED"
     THEN curDef' = d /\ suspended' = suspended \cup {d}
     ELSE curDef' = None /\ suspended' = suspended \ {d}

\* The end of execute(): only an interrupted call stays current
Finish(d, res, frame) ==
  /\ result' = IF res \in {"RETURNING", "BRANCHING"} THEN "OK" ELSE res
  /\ IF res = "INTERRUPTED"
     THEN curDef' = d /\ curStackCount' = frame /\ suspended' = suspended \cup {d}
     ELSE curDef' = None /\ curStackCount' = 0 /\ suspended' = suspended \ {d}

\* execute() of a def with the EXTERN flag: no loop, and an extcall that is
\* not in the table returns early with cur_def still set
CallExtern(d, idx, frame) ==
  /\ UNCHANGED runVars
  /\ IF idx >= Len(extcalls)
     THEN /\ result' = "NOT_FOUND" /\ curDef' = d /\ curStackCount' = frame
          /\ UNCHANGED <<stack, suspended>>
     ELSE \E o \in ExtOutcomes(extcalls, idx, stack, writable) :
            stack' = o.stack /\ Finish(d, o.res, frame)

\* execute(), with curDef = d: room says whether the caller's buffer can take
\* the results, n is cur_instr and frame is cur_stack_count
RunDef(d, room, n, frame) ==
  IF ~room
  THEN /\ result' = "RVALS_MISMATCH" /\ curDef' = d /\ curStackCount' = frame
       /\ UNCHANGED <<stack, suspended, runVars>>
  ELSE IF "EXTERN" \in image.defs[d].flags
       THEN CallExtern(d, defcode[d], frame)
       ELSE EnterLoop(n) /\ curDef' = d /\ curStackCount' = frame

\* Mutant: cur_instr is not reset
ExecuteFromHere(d, room) ==
  /\ MayCall(d)
  /\ ran' = {}
  /\ RunDef(d, room, curInstr, ConstCount(image) + image.defs[d].stack_count)
  /\ UNCHANGED <<ctxVars, curInstr, flags, irq, prepared, laid>>

Execute(d, room) ==
  /\ MayCall(d)
  /\ curInstr' = 0
  /\ ran' = {}
  /\ RunDef(d, room, 0, ConstCount(image) + image.defs[d].stack_count)
  /\ UNCHANGED <<ctxVars, flags, irq, prepared, laid>>

Resume(d, room) ==
  /\ MayCall(d)
  /\ Careful => d \in suspended
  /\ IF curDef # d
     THEN /\ result' = "DEF_MISMATCH"
          /\ UNCHANGED <<stack, curDef, curStackCount, suspended, runVars>>
     ELSE RunDef(d, room, curInstr, curStackCount)
  /\ UNCHANGED <<ctxVars, curInstr, flags, irq, prepared, laid, ran>>

-----------------------------------------------------------------------------
(* execute_function: fetching and running one instruction.                 *)

\* The computed-goto loop tests opresult only after the operations generated
\* by GENERATE_OP; those of GENERATE_OP_NOFAIL go straight to the next fetch
FailingOps == DataOps \cup BranchOps \cup {"RETURN", "INDEXRIS", "INDEXRIR", "EXTCALL"}

\* After the operation at j, whose result is res and which left ci in cur_instr
After(op, j, res, ci) ==
  IF Dispatch = "goto" /\ res = "BRANCHING"
  THEN at' = "check" /\ opres' = "OK" /\ instr' = (ci - 1) % LOffsetMod
  ELSE /\ opres' = res /\ instr' = j
       /\ at' = IF Dispatch = "goto" /\ op \notin FailingOps THEN "fetch" ELSE "check"

\* lmnt_op_cmp rewrites status_flags: in one step, or loading a copy first
TornCompare ==
  /\ Torn
  /\ Fetched.op \in CompareOps
  /\ latch' = flags /\ at' = "cmp" /\ instr' = Pc
  /\ UNCHANGED <<stack, curInstr, flags, opres>>

RunWhole ==
  /\ Torn => Fetched.op \notin CompareOps
  /\ \E o \in Outcomes(image, extcalls, defcode, curStackCount, Fetched, stack, flags) :
       /\ stack' = o.stack
       /\ curInstr' = IF o.res = "BRANCHING" THEN Target(Fetched) ELSE curInstr
       /\ After(Fetched.op, Pc, o.res, curInstr')
  /\ flags' = NewFlags(Fetched, stack, flags)
  /\ UNCHANGED latch

Step ==
  /\ at = "fetch"
  /\ Pc < ICount
  /\ Dispatch = "goto" => ~Interrupted
  /\ RunWhole \/ TornCompare
  /\ ran' = ran \cup {Pc}
  /\ UNCHANGED <<ctxVars, curDef, curStackCount, irq, hostVars>>

CmpStore ==
  /\ at = "cmp"
  /\ flags' = NewFlags(TheDef.code[instr + 1], stack, latch)
  /\ After(TheDef.code[instr + 1].op, instr, "OK", curInstr)
  /\ latch' = {}
  /\ UNCHANGED <<ctxVars, stack, curDef, curInstr, curStackCount, irq, hostVars, ran>>

-----------------------------------------------------------------------------
(* execute_function: the tests between two instructions, and the way out.  *)

LeaveLoop(res) ==
  /\ at' = "idle"
  /\ curInstr' = instr
  /\ Finish(curDef, res, curStackCount)
  /\ instr' = 0 /\ opres' = "OK"      \* dead locals
  /\ UNCHANGED <<ctxVars, stack, flags, latch, irq, prepared, laid, ran>>

\* GENERATE_DISPATCHOK has incremented instr before it gives up
FetchEndGoto ==
  /\ at = "fetch" /\ Dispatch = "goto"
  /\ Pc >= ICount \/ Interrupted
  /\ instr' = Pc /\ at' = "endcheck"
  /\ UNCHANGED <<ctxVars, stack, curDef, curInstr, curStackCount, flags, opres,
                 latch, irq, hostVars, ran>>

\* Mutant: the result of the operation is not looked at
CheckGotoFlagsOnly ==
  /\ at = "check" /\ Dispatch = "goto"
  /\ at' = IF Interrupted THEN "stop" ELSE "fetch"
  /\ UNCHANGED <<ctxVars, stack, curDef, curInstr, curStackCount, flags, instr,
                 opres, latch, irq, hostVars, ran>>

\* the label dispatch; leaving from here, instr is the last instruction run
CheckGoto ==
  /\ at = "check" /\ Dispatch = "goto"
  /\ at' = IF opres # "OK" \/ Interrupted THEN "stop" ELSE "fetch"
  /\ UNCHANGED <<ctxVars, stack, curDef, curInstr, curStackCount, flags, instr,
                 opres, latch, irq, hostVars, ran>>

\* Mutant: the interrupt is not reported
EndCheckSilent ==
  /\ at \in {"endcheck", "stop"}
  /\ LeaveLoop(opres)

EndCheck ==
  /\ at \in {"endcheck", "stop"}
  /\ LeaveLoop(IF opres = "OK" /\ Interrupted THEN "INTERRUPTED" ELSE opres)

\* The loops of dispatch_switch.h and dispatch_jumptable.h
FetchEndLoop ==
  /\ at = "fetch" /\ Dispatch # "goto"
  /\ instr >= ICount
  /\ LeaveLoop(opres)

\* Mutant: the loop increments a branch target
CheckLoopPast ==
  /\ at = "check" /\ Dispatch # "goto"
  /\ IF opres = "BRANCHING"
     THEN instr' = curInstr + 1
     ELSE opres = "OK" /\ ~Interrupted /\ instr' = instr + 1
  /\ at' = "fetch"
  /\ UNCHANGED <<ctxVars, stack, curDef, curInstr, curStackCount, flags, opres,
                 latch, irq, hostVars, ran>>

CheckLoop ==
  /\ at = "check" /\ Dispatch # "goto"
  /\ IF opres = "BRANCHING"
     THEN instr' = curInstr
     ELSE opres = "OK" /\ ~Interrupted /\ instr' = instr + 1
  /\ at' = "fetch"
  /\ UNCHANGED <<ctxVars, stack, curDef, curInstr, curStackCount, flags, opres,
                 latch, irq, hostVars, ran>>

BreakLoop ==
  /\ at = "check" /\ Dispatch # "goto"
  /\ opres # "BRANCHING"
  /\ opres # "OK" \/ Interrupted
  /\ LeaveLoop(IF Dispatch = "switch" /\ opres = "OK" THEN "INTERRUPTED" ELSE opres)

-----------------------------------------------------------------------------
(* lmnt_interrupt, from another thread or an interrupt handler.            *)

Interrupt ==
  /\ ~Torn
  /\ flags' = flags \cup {"INT"}
  /\ UNCHANGED <<ctxVars, stack, curDef, curInstr, curStackCount, runVars, irq,
                 hostVars, ran>>

InterruptLoad ==
  /\ Torn /\ irq = None
  /\ irq' = flags
  /\ UNCHANGED <<ctxVars, stack, curDef, curInstr, curStackCount, flags, runVars,
                 hostVars, ran>>

InterruptStore ==
  /\ irq # None
  /\ flags' = irq \cup {"INT"}
  /\ irq' = None
  /\ UNCHANGED <<ctxVars, stack, curDef, curInstr, curStackCount, runVars,
                 hostVars, ran>>

-----------------------------------------------------------------------------
\* Bound: an archive arrives whole, or in two parts
Chunks == IF size = 0 THEN {1, Total(image)} ELSE {Total(image) - size}

Loading ==
  \/ Reinit
  \/ \E img \in Reloads[image] : LoadBegin(img) \/ LoadInplace(img)
  \/ image # None /\ \E n \in Chunks : LoadAppend(n)
  \/ \E table \in ExtTables[image] : ExtcallsSet(table)
  \/ \E fill \in Fill : Prepare(fill)

Calling ==
  \/ \E d \in DefIds(image), off \in {0, 1, Memory}, v \in ArgValues : UpdateArgs(d, off, v)
  \/ \E d \in DefIds(image), room \in BOOLEAN : Execute(d, room) \/ Resume(d, room)

\* The thread that is inside lmnt_execute or lmnt_resume
Thread ==
  \/ Step \/ CmpStore
  \/ FetchEndGoto \/ CheckGoto \/ EndCheck
  \/ FetchEndLoop \/ CheckLoop \/ BreakLoop

Interrupter == Interrupt \/ InterruptLoad \/ InterruptStore

Next == Loading \/ (image # None /\ Calling) \/ Thread \/ Interrupter

Spec == Init /\ [][Next]_vars

\* A host that never interrupts
QuietNext == Loading \/ (image # None /\ Calling) \/ Thread
QuietSpec == Init /\ [][QuietNext]_vars

\* An executing thread keeps running: external functions return, and a thread
\* that has loaded status_flags eventually stores them
FairSpec == Spec /\ WF_vars(Thread) /\ WF_vars(InterruptStore)

\* A host that does not give up on an interrupted call of def 1
ResumeFirst == image # None /\ 1 \in DefIds(image) /\ Resume(1, TRUE)
PatientSpec == FairSpec /\ SF_vars(ResumeFirst)

-----------------------------------------------------------------------------
(* Properties.                                                             *)

AboutToRun == at = "fetch" /\ Pc < ICount /\ (Dispatch = "goto" => ~Interrupted)

\* The abstract program counter: the instruction that runs next
MachinePc ==
  IF Idle THEN 0
  ELSE IF at \in {"endcheck", "cmp"} THEN instr
  ELSE IF Dispatch = "goto" THEN (instr + 1) % LOffsetMod
  ELSE IF at = "fetch" THEN instr
  ELSE IF opres = "BRANCHING" THEN curInstr ELSE instr + 1

Machine == INSTANCE LmntMachine WITH
  cmp     <- flags \ {"INT"},
  pending <- Interrupted,
  running <- ~Idle,
  def     <- IF Idle THEN None ELSE curDef,
  frame   <- IF Idle THEN 0 ELSE curStackCount,
  res     <- IF opres = "BRANCHING" THEN "OK" ELSE opres,
  pc      <- MachinePc

\* Each dispatch loop runs the instructions of a call one at a time and in
\* program order, and returns what LmntMachine allows: execute_function
\* implements the machine, with instr and cur_instr standing for its pc.
Implements == Machine!MSpec

\* Every variable holds what its C type and its invariants allow; in
\* particular the stack always has stack_count cells of lmnt_value.
TypeOK ==
  /\ image \in Images \cup {None}
  /\ size \in Nat
  /\ aflags \subseteq {"VALIDATED", "USES_EXTCALLS", "INPLACE"}
  /\ extcalls \in Seq(ExtEntry)
  /\ stackCount \in Nat /\ writable \in Nat
  /\ stack \in [0 .. stackCount - 1 -> Value]
  /\ curInstr \in Nat /\ curStackCount \in Nat
  /\ flags \subseteq CmpBits \cup {"INT"}
  /\ at \in {"idle", "fetch", "check", "endcheck", "stop", "cmp"}
  /\ instr \in Nat
  /\ latch \subseteq CmpBits \cup {"INT"}
  /\ irq = None \/ irq \subseteq CmpBits \cup {"INT"}
  /\ prepared \in BOOLEAN /\ laid \in BOOLEAN
  /\ image # None => /\ defcode \in [DefIds(image) -> Nat]
                     /\ suspended \subseteq DefIds(image)
  /\ at # "idle" => image # None /\ curDef \in DefIds(image)

\* Validation is sound: an instruction of a prepared archive reads and writes
\* only cells of the current frame, and the frame lies inside the memory
\* area, although the dispatch loops check no operand at run time.
FrameSafe ==
  AboutToRun =>
    /\ Frame \subseteq DOMAIN stack
    /\ ReadBy(image, extcalls, defcode, curStackCount, Fetched, stack) \subseteq Frame
    /\ Written(image, extcalls, defcode, curStackCount, Fetched, stack) \subseteq Frame

\* A def that does not declare backward branches runs no instruction twice in
\* one call, interrupted or not: its running time is bounded by its length.
AtMostOnce ==
  AboutToRun /\ Pc \in ran => "HAS_BACKBRANCHES" \in TheDef.flags

\* Once lmnt_prepare_archive has returned LMNT_OK, and until the table or the
\* archive changes, the code member of every extern def is the index of an
\* extcall of its name and signature.
ExternsBound ==
  prepared /\ "VALIDATED" \in aflags =>
    \A i \in DefIds(image) :
      NeedsExtcall(image.defs[i]) => defcode[i] + 1 \in Matches(extcalls, image.defs[i])

-----------------------------------------------------------------------------
(* The inductive invariants of the proofs.                                 *)

\* What ExternsBound rests on
BindInv ==
  /\ image \in Images \cup {None}
  /\ extcalls \in Seq(ExtEntry)
  /\ image # None => defcode \in [DefIds(image) -> Nat]
  /\ prepared => image # None
  /\ ExternsBound

\* cur_stack_count of a call of d
FrameOf(d) == ConstCount(image) + image.defs[d].stack_count

\* lmnt_ictx.stack spans what the archive leaves of the memory area
LaidOut ==
  laid => /\ image # None
          /\ stackCount = StackCount(image, Memory)
          /\ writable = ConstCount(image)

\* The flag is set and the stack laid out only by lmnt_prepare_archive, and only
\* after it has checked
Checked ==
  /\ "VALIDATED" \in aflags => laid
  /\ laid => ArchiveOk(image, size, Memory)

\* What lmnt_load_archive accepts leaves room for a stack
Loaded ==
  image # None /\ "INPLACE" \notin aflags => size < Memory

Ready == prepared => "INPLACE" \notin aflags

\* An interrupted call keeps its frame until it is resumed
Suspended ==
  /\ suspended \subseteq Nat
  /\ curDef \in suspended =>
       image # None /\ curDef \in DefIds(image) /\ curStackCount = FrameOf(curDef)

Running ==
  at # "idle" =>
    /\ prepared /\ "VALIDATED" \in aflags
    /\ curDef \in DefIds(image)
    /\ "EXTERN" \notin TheDef.flags
    /\ curStackCount = FrameOf(curDef)

Comparing == at = "cmp" => instr < ICount

\* FrameSafe and TypeOK rest on all of this: what the host and an interrupted
\* call leave in the context between two calls of the API, and in particular the
\* frame of a suspended def and the meaning of LMNT_ARCHIVE_VALIDATED, always
\* fits the archive that is loaded.
FrameInv ==
  /\ BindInv /\ TypeOK
  /\ LaidOut /\ Checked /\ Loaded /\ Ready
  /\ Suspended /\ Running /\ Comparing

-----------------------------------------------------------------------------
(* More properties: constants, completion, resumption, liveness.           *)

IndexesStack(img) ==
  \E i \in DefIds(img) : \E j \in 1 .. Len(img.defs[i].code) :
    img.defs[i].code[j].op = "INDEXRIR"

\* The constants at the bottom of the stack never change while an archive is
\* loaded, unless it uses INDEXRIR, whose destination is checked only against
\* the frame.
ConstantsKept ==
  [][laid /\ laid' /\ image' = image /\ ~IndexesStack(image) =>
       \A c \in 0 .. NConst(image) - 1 : stack'[c] = stack[c]]_vars

\* lmnt_execute and lmnt_resume report success only for a call that ran to its
\* end: past the last instruction or to a RETURN.
OkMeansFinished ==
  [][at # "idle" /\ at' = "idle" /\ result' = "OK" =>
       instr >= ICount \/ opres = "RETURNING"]_vars

\* A call that was interrupted and resumed has not lost an instruction: in code
\* without branches, everything before the next instruction has run.
NoneSkipped ==
  AboutToRun /\ (\A i \in 1 .. ICount : TheDef.code[i].op \notin BranchOps)
    => 0 .. Pc - 1 \subseteq ran

\* A def without backward branches always comes back to its caller.
Terminates ==
  (at # "idle" /\ "HAS_BACKBRANCHES" \notin TheDef.flags) ~> at = "idle"

\* A call that runs while an interrupt is pending comes back to its caller,
\* infinite loops included.  (An interrupt that falls inside the read-modify-
\* write of a comparison, at = "cmp", is lost.)
InterruptStops == (at \notin {"idle", "cmp"} /\ "INT" \in flags) ~> at = "idle"

\* A def that was interrupted and is resumed again and again is eventually done.
ResumeFinishes == (image # None /\ 1 \in suspended) ~> 1 \notin suspended
=============================================================================
