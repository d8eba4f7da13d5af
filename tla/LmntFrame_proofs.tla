--------------------------- MODULE LmntFrame_proofs ---------------------------
(***************************************************************************)
(* Theorems about what lmnt_prepare_archive establishes: externs are bound *)
(* to functions of their own signature, every variable keeps its type, and *)
(* no instruction leaves its frame.                                        *)
(***************************************************************************)
EXTENDS LmntInterpreter, LmntOps_proofs, WellFoundedInduction

-----------------------------------------------------------------------------
(* Externs are bound to what they name.                                    *)

\* A set of naturals that is not empty has a least member
LEMMA Least ==
  ASSUME NEW S \in SUBSET Nat, S # {}
  PROVE  \E m \in S : \A k \in S : m <= k
<1>1. IsWellFoundedOn({p \in Nat \X Nat : p[1] < p[2]}, Nat)
  <2>1. OpToRel(<, Nat) = {p \in Nat \X Nat : p[1] < p[2]}
    BY DEF OpToRel
  <2> QED BY <2>1, NatLessThanWellFounded
<1>2. PICK m \in S : \A k \in S : ~(<<k, m>> \in {p \in Nat \X Nat : p[1] < p[2]})
  BY <1>1, WFMin
<1>3. \A k \in S : ~(k < m)
  BY <1>2
<1> QED BY <1>3

\* lmnt_extcall_find_index returns the index of an extcall of the name and the
\* signature it is given, when the table has one.
LEMMA FindIndexMatches ==
  ASSUME NEW table \in Seq(ExtEntry), NEW d, Matches(table, d) # {}
  PROVE  FindIndex(table, d) \in Nat /\ FindIndex(table, d) + 1 \in Matches(table, d)
<1> DEFINE M == Matches(table, d)
           m0 == CHOOSE i \in M : \A j \in M : i <= j
<1>1. M \in SUBSET Nat /\ M # {}
  BY DEF Matches
<1>2. \E m \in M : \A k \in M : m <= k
  <2> HIDE DEF M
  <2> QED BY <1>1, Least
<1>3. m0 \in M
  <2> HIDE DEF M
  <2> QED BY <1>2
<1>4. \A m \in M : m \in Nat /\ m >= 1
  BY DEF Matches
<1>5. FindIndex(table, d) = m0 - 1
  BY DEF FindIndex
<1> HIDE DEF m0
<1> QED BY <1>3, <1>4, <1>5

\* lmnt_init clears the context
LEMMA BindInvInit == Init => BindInv
BY DEF Init, BindInv, ExternsBound, ExtEntry

\* lmnt_prepare_archive binds every extern, or it does not return LMNT_OK
LEMMA BindInvPrepare ==
  ASSUME BindInv, image # None, NEW fill, Prepare(fill)
  PROVE  BindInv'
<1>1. UNCHANGED <<image, extcalls>>
  BY DEF Prepare
<1>2. CASE ~ArchiveOk(image, size, Memory)
  BY <1>1, <1>2 DEF Prepare, BindInv, ExternsBound
<1>3. CASE ArchiveOk(image, size, Memory) /\ "INPLACE" \in aflags
  BY <1>1, <1>3 DEF Prepare, UpdateDefExtcalls, BindInv, ExternsBound
<1>4. CASE ArchiveOk(image, size, Memory) /\ "INPLACE" \notin aflags
  <2>1. /\ defcode' = [i \in DOMAIN defcode |->
                         IF i \in Bindable THEN FindIndex(extcalls, image.defs[i])
                         ELSE defcode[i]]
        /\ prepared' = (Unfound = {})
    BY <1>4 DEF Prepare, UpdateDefExtcalls
  <2>2. \A i \in Bindable : Matches(extcalls, image.defs[i]) # {}
    <3> SUFFICES ASSUME NEW i \in Bindable, Matches(extcalls, image.defs[i]) = {}
                 PROVE  FALSE
      OBVIOUS
    <3>1. i \in Unfound /\ i \in Nat
      BY DEF Bindable, Unfound, DefIds
    <3>2. i < i
      BY <3>1 DEF Bindable
    <3> QED BY <3>1, <3>2
  <2>3. defcode' \in [DefIds(image) -> Nat]
    BY <2>1, <2>2, FindIndexMatches DEF BindInv
  <2>4. ASSUME Unfound = {}, NEW i \in DefIds(image), NeedsExtcall(image.defs[i])
        PROVE  defcode'[i] + 1 \in Matches(extcalls, image.defs[i])
    <3>1. i \in Bindable
      BY <2>4 DEF Bindable
    <3>2. defcode'[i] = FindIndex(extcalls, image.defs[i])
      BY <2>1, <3>1 DEF BindInv
    <3> QED BY <2>2, <3>1, <3>2, FindIndexMatches DEF BindInv
  <2>5. ExternsBound'
    <3> SUFFICES ASSUME prepared', NEW i \in DefIds(image), NeedsExtcall(image.defs[i])
                 PROVE  defcode'[i] + 1 \in Matches(extcalls, image.defs[i])
      BY <1>1 DEF ExternsBound, DefIds, NeedsExtcall, Matches
    <3> QED BY <2>1, <2>4
  <2> QED BY <1>1, <2>3, <2>5 DEF BindInv
<1> QED BY <1>2, <1>3, <1>4

\* Every step keeps the binding: the table, the archive and the code members
\* change only where `prepared' or the flag is withdrawn as well.
LEMMA BindInvStep == BindInv /\ [Next]_vars => BindInv'
<1> SUFFICES ASSUME BindInv, [Next]_vars PROVE BindInv'
  OBVIOUS
<1>1. CASE Loading
  <2>1. CASE Reinit
    BY <2>1 DEF Reinit, Reset, BindInv, ExternsBound
  <2>2. ASSUME NEW img \in Reloads[image], LoadBegin(img) \/ LoadInplace(img) PROVE BindInv'
    <3>1. img \in Images
      BY InterpreterAssumption DEF BindInv
    <3>2. img \in Image
      BY <3>1, InterpreterAssumption
    <3>3. \A i \in DefIds(img) : img.defs[i].code0 \in Nat
      <4>1. img.defs \in Seq(Def)
        BY <3>2 DEF Image
      <4>2. \A i \in DefIds(img) : img.defs[i] \in Def
        BY <4>1 DEF DefIds
      <4> QED BY <4>2 DEF Def
    <3>4. /\ image' = img /\ ~prepared' /\ UNCHANGED extcalls
          /\ defcode' = [i \in DefIds(img) |-> img.defs[i].code0]
      BY <2>2 DEF LoadBegin, LoadInplace, NewArchive
    <3>5. defcode' \in [DefIds(img) -> Nat]
      BY <3>3, <3>4
    <3>6. (image # None => defcode \in [DefIds(image) -> Nat])'
      BY <3>4, <3>5 DEF DefIds
    <3> QED BY <3>1, <3>4, <3>6 DEF BindInv, ExternsBound
  <2>3. CASE image # None /\ \E n \in Chunks : LoadAppend(n)
    BY <2>3 DEF LoadAppend, BindInv, ExternsBound, DefIds, NeedsExtcall, Matches
  <2>4. ASSUME NEW table \in ExtTables[image], ExtcallsSet(table) PROVE BindInv'
    BY <2>4, InterpreterAssumption DEF ExtcallsSet, BindInv, ExternsBound, DefIds
  <2>5. ASSUME NEW fill \in Fill, Prepare(fill) PROVE BindInv'
    <3>1. image # None
      BY <2>5 DEF Prepare
    <3> QED BY <2>5, <3>1, BindInvPrepare
  <2> QED BY <1>1, <2>1, <2>2, <2>3, <2>4, <2>5 DEF Loading
<1>2. CASE UNCHANGED <<image, defcode, extcalls, prepared, aflags>>
  BY <1>2 DEF BindInv, ExternsBound, DefIds, NeedsExtcall, Matches
<1>3. CASE image # None /\ Calling
  <2>1. UNCHANGED <<image, defcode, extcalls, prepared, aflags>>
    BY <1>3 DEF Calling, UpdateArgs, Execute, Resume, ctxVars
  <2> QED BY <1>2, <2>1
<1>4. CASE Thread
  <2>1. UNCHANGED <<image, defcode, extcalls, prepared, aflags>>
    BY <1>4 DEF Thread, Step, CmpStore, FetchEndGoto, CheckGoto, EndCheck, FetchEndLoop,
       CheckLoop, BreakLoop, LeaveLoop, ctxVars, hostVars
  <2> QED BY <1>2, <2>1
<1>5. CASE Interrupter
  BY <1>2, <1>5 DEF Interrupter, Interrupt, InterruptLoad, InterruptStore, ctxVars, hostVars
<1>6. CASE UNCHANGED vars
  BY <1>2, <1>6 DEF vars, ctxVars, hostVars
<1> QED BY <1>1, <1>3, <1>4, <1>5, <1>6 DEF Next

\* lmnt_prepare_archive and lmnt_archive_update_def_extcalls: once it has
\* returned LMNT_OK, an EXTCALL reaches a function of the name and signature
\* that its def declares, whatever archives and tables the host goes through.
THEOREM ExternsStayBound == Spec => []ExternsBound
<1>1. BindInv => ExternsBound
  BY DEF BindInv
<1> QED BY <1>1, BindInvInit, BindInvStep, PTL DEF Spec

-----------------------------------------------------------------------------
(* The frame of a validated def fits the stack.                            *)

\* The parts of an image have the types the reader of the archive gives them
LEMMA ImageParts ==
  ASSUME NEW img \in Image, NEW i \in DefIds(img)
  PROVE  /\ img.base \in Nat /\ NConst(img) \in Nat /\ Total(img) = img.base + NConst(img)
         /\ ConstCount(img) \in Nat /\ (NConst(img) < OffsetMod => ConstCount(img) = NConst(img))
         /\ img.defs[i] \in Def
         /\ img.defs[i].stack_count \in Nat /\ img.defs[i].code \in Seq(Instruction)
<1>1. img.defs \in Seq(Def) /\ img.consts \in Seq(Value)
  BY DEF Image
<1>2. img.defs[i] \in Def
  BY <1>1 DEF DefIds
<1>3. img.base \in Nat
  BY DEF Image
<1>4. NConst(img) \in Nat
  BY <1>1 DEF NConst
<1>5. img.defs[i].stack_count \in Nat /\ img.defs[i].code \in Seq(Instruction)
  BY <1>2 DEF Def
<1>6. ConstCount(img) \in Nat /\ (NConst(img) < OffsetMod => ConstCount(img) = NConst(img))
  <2>1. OffsetMod \in Nat \ {0} /\ NConst(img) \in Int
    BY <1>4, ValueAssumption
  <2>2. NConst(img) % OffsetMod \in 0 .. OffsetMod - 1
    BY <2>1, ModRange
  <2>3. NConst(img) < OffsetMod => NConst(img) % OffsetMod = NConst(img)
    <3>1. NConst(img) < OffsetMod => NConst(img) \in 0 .. OffsetMod - 1
      BY <1>4, <2>1
    <3> QED BY <2>1, <3>1, ModSmall
  <2> QED BY <2>2, <2>3 DEF ConstCount
<1> QED BY <1>2, <1>3, <1>4, <1>5, <1>6 DEF Total

\* An EXTCALL of an archive that is Near names the def that was validated for it
LEMMA CallNamed ==
  ASSUME NEW img \in Image, NEW in \in Instruction, in.op = "EXTCALL",
         NamesDef(img, DefOffset(in)), WalkEnds(img),
         NEW d, NEW consts, NEW rw, InstructionOk(img, d, in, consts, rw)
  PROVE  LET k == DefIdAt(DefOffset(in)) IN
           /\ k \in DefIds(img)
           /\ DefAt(img, DefOffset(in)) = img.defs[k]
           /\ "EXTERN" \in img.defs[k].flags /\ "INTERFACE" \notin img.defs[k].flags
<1> DEFINE off == DefOffset(in)
           k == DefIdAt(off)
<1>1. k \in DefIds(img) /\ off % DefSize = 0 /\ DefAt(img, off) = img.defs[k]
  BY DEF NamesDef, DefAt
<1>2. off \in Nat
  <2>1. in.arg1 \in Nat /\ in.arg2 \in Nat /\ OffsetMod \in Nat
    BY ValueAssumption DEF Instruction
  <2>2. \A x, y, z \in Nat : x + y * z \in Nat
    OBVIOUS
  <2> QED BY <2>1, <2>2 DEF DefOffset
<1>3. Len(img.defs) \in Nat
  BY DEF Image
<1>4. off < OffsetMod
  <2>1. off \div 16 + 1 \in 1 .. Len(img.defs) /\ off % 16 = 0 /\ 16 * Len(img.defs) < OffsetMod
    BY <1>1 DEF WalkEnds, DefSize, DefIdAt, DefIds
  <2>2. off = 16 * (off \div 16) + (off % 16) /\ off \div 16 \in Nat
    <3> HIDE DEF off
    <3> QED BY <1>2
  <2>3. OffsetMod \in Nat
    BY ValueAssumption
  <2> HIDE DEF off
  <2> QED BY <1>2, <1>3, <2>1, <2>2, <2>3
<1>5. off % OffsetMod = off
  <2>1. off \in 0 .. OffsetMod - 1 /\ OffsetMod \in Nat \ {0}
    <3> HIDE DEF off
    <3> QED BY <1>2, <1>4, ValueAssumption
  <2> HIDE DEF off
  <2> QED BY <2>1, ModSmall
<1>6. DefPtrOk(img, off, in.arg3, consts, rw)
  BY DEF InstructionOk
<1>7. "EXTERN" \in DefAt(img, off).flags /\ "INTERFACE" \notin DefAt(img, off).flags
  BY <1>5, <1>6 DEF DefPtrOk, ExternOk
<1> QED BY <1>1, <1>7

\* The walk of lmnt_archive_validate comes to every def, if it ends
LEMMA AllVisited ==
  ASSUME NEW img \in Image, WalkEnds(img)
  PROVE  Visited(img) = DefIds(img)
<1>1. Len(img.defs) \in Nat /\ OffsetMod \in Nat
  BY ValueAssumption DEF Image
<1> QED BY <1>1 DEF Visited, WalkEnds, DefIds, DefSize

\* lmnt_archive_validate: the frame of every def of an archive that leaves room
\* in the memory area lies in the stack, and its code has been checked.
LEMMA FrameFits ==
  ASSUME NEW img \in Image, NEW sz \in Nat, sz < Memory, ArchiveOk(img, sz, Memory),
         NEW i \in DefIds(img)
  PROVE  /\ NConst(img) + img.defs[i].stack_count <= StackCount(img, Memory)
         /\ "EXTERN" \notin img.defs[i].flags
              => \A j \in 1 .. Len(img.defs[i].checked) :
                   InstructionOk(img, img.defs[i], img.defs[i].checked[j], NConst(img),
                                 img.defs[i].stack_count)
<1> DEFINE consts == NConst(img)
           rw == RwStackCount(img, Memory)
<1>1. /\ sz = Total(img)
      /\ DefOk(img, img.defs[i], consts, rw)
  BY AllVisited DEF ArchiveOk, SegmentsOk, VisitedOk
<1>2. /\ img.base \in Nat /\ consts \in Nat /\ img.base + consts < Memory
      /\ Memory \in Nat /\ SizeMod \in Nat \ {0} /\ Memory < SizeMod
  <2>1. Memory \in Nat /\ SizeMod \in Nat \ {0} /\ Memory < SizeMod
    BY InterpreterAssumption, ValueAssumption
  <2>2. img.base \in Nat /\ consts \in Nat /\ Total(img) = img.base + consts
    BY ImageParts
  <2> HIDE DEF consts
  <2> QED BY <1>1, <2>1, <2>2
<1>3. StackCount(img, Memory) = Memory - img.base
  <2>1. Memory - img.base \in 0 .. SizeMod - 1
    BY <1>2
  <2> QED BY <1>2, <2>1, ModSmall DEF StackCount
<1>4. rw = Memory - img.base - consts
  <2>1. rw = (Memory - img.base - consts) % SizeMod
    BY <1>3 DEF RwStackCount
  <2>2. Memory - img.base - consts \in 0 .. SizeMod - 1
    BY <1>2
  <2> QED BY <1>2, <2>1, <2>2, ModSmall
<1>5. img.defs[i].stack_count <= rw
  BY <1>1 DEF DefOk, DefHeaderOk
<1>6. consts + img.defs[i].stack_count <= StackCount(img, Memory)
  <2>1. img.defs[i].stack_count \in Nat
    BY ImageParts
  <2> HIDE DEF consts, rw
  <2> QED BY <1>2, <1>3, <1>4, <1>5, <2>1
<1> QED BY <1>1, <1>6 DEF DefOk, CodeOk

\* The archives of which the 16-bit offsets and counts of the validator say all:
\* lmnt_offset can count their constants, each def's code is at the offset that
\* is validated, and every EXTCALL names a def.
OffsetsNear == \A img \in Images : Near(img)

\* While a call runs, its frame lies in the stack and every instruction of its
\* code has been checked against that frame.
LEMMA InFrame ==
  ASSUME OffsetsNear, FrameInv, at # "idle"
  PROVE  /\ image \in Image /\ image # None
         /\ NConst(image) \in Nat /\ TheDef.stack_count \in Nat
         /\ TheDef.code \in Seq(Instruction)
         /\ stackCount \in Nat /\ stack \in Stack(stackCount)
         /\ curStackCount = NConst(image) + TheDef.stack_count
         /\ curStackCount <= stackCount
         /\ \A j \in 1 .. ICount :
              /\ TheDef.code[j] \in Instruction
              /\ InstructionOk(image, TheDef, TheDef.code[j], NConst(image), TheDef.stack_count)
<1>1. /\ prepared /\ "VALIDATED" \in aflags /\ curDef \in DefIds(image)
      /\ "EXTERN" \notin TheDef.flags /\ curStackCount = FrameOf(curDef)
  BY DEF FrameInv, Running
<1>2. image # None /\ image \in Images /\ image \in Image
  BY <1>1, InterpreterAssumption DEF FrameInv, BindInv
<1>3. "INPLACE" \notin aflags /\ size < Memory /\ size \in Nat
  BY <1>1, <1>2 DEF FrameInv, Ready, Loaded, TypeOK
<1>4. laid /\ ArchiveOk(image, size, Memory)
  BY <1>1 DEF FrameInv, Checked
<1>5. stackCount = StackCount(image, Memory)
  BY <1>4 DEF FrameInv, LaidOut
<1>6. stackCount \in Nat /\ stack \in Stack(stackCount)
  BY DEF FrameInv, TypeOK, Stack
<1>7. /\ NConst(image) \in Nat /\ TheDef.stack_count \in Nat
      /\ TheDef.code \in Seq(Instruction)
  BY <1>1, <1>2, ImageParts DEF TheDef
<1>8. /\ NConst(image) + TheDef.stack_count <= stackCount
      /\ \A j \in 1 .. ICount :
           InstructionOk(image, TheDef, TheDef.code[j], NConst(image), TheDef.stack_count)
  BY <1>1, <1>2, <1>3, <1>4, <1>5, FrameFits DEF TheDef, ICount, OffsetsNear, Near
<1>9. ConstCount(image) = NConst(image)
  BY <1>1, <1>2, ImageParts DEF OffsetsNear, Near
<1> QED BY <1>1, <1>2, <1>6, <1>7, <1>8, <1>9 DEF FrameOf, TheDef, ICount

\* Two more things validation leaves to the archive: no frame has more cells than
\* an lmnt_offset can count, and no INDEXRIS has an offset of 0.
OffsetsFit ==
  \A img \in Images : \A i \in DefIds(img) :
    NConst(img) + img.defs[i].stack_count < OffsetMod

IndexesApart ==
  \A img \in Images : \A i \in DefIds(img) : \A j \in 1 .. Len(img.defs[i].code) :
    img.defs[i].code[j].op = "INDEXRIS" => img.defs[i].code[j].arg2 > 0

\* The position of an instruction that is about to run is one of its code
LEMMA FetchedPlace ==
  ASSUME OffsetsNear, FrameInv
  PROVE  /\ instr \in Nat /\ Pc \in Nat
         /\ Pc < ICount /\ at # "idle" => Pc + 1 \in 1 .. ICount
<1>1. instr \in Nat /\ LOffsetMod \in Nat \ {0}
  BY InterpreterAssumption DEF FrameInv, TypeOK
<1>2. (instr + 1) % LOffsetMod \in 0 .. LOffsetMod - 1
  BY <1>1, ModRange
<1>3. Pc \in Nat
  BY <1>1, <1>2 DEF Pc
<1>4. at # "idle" => ICount \in Nat
  BY InFrame DEF ICount
<1> QED BY <1>1, <1>3, <1>4

\* The instruction that is about to run has been validated, and if it calls an
\* extern, it reaches a function of the signature that was validated.
LEMMA FetchedBound ==
  ASSUME OffsetsNear, FrameInv, at # "idle", Pc < ICount
  PROVE  /\ Fetched \in Instruction
         /\ InstructionOk(image, TheDef, Fetched, NConst(image), TheDef.stack_count)
         /\ Bound(image, extcalls, defcode, Fetched)
<1>1. /\ Fetched \in Instruction
      /\ InstructionOk(image, TheDef, Fetched, NConst(image), TheDef.stack_count)
  BY InFrame, FetchedPlace DEF Fetched
<1>2. /\ image # None /\ prepared /\ "VALIDATED" \in aflags /\ extcalls \in Seq(ExtEntry)
  BY InFrame DEF FrameInv, BindInv, Running
<1>3. Bound(image, extcalls, defcode, Fetched)
  <2> SUFFICES ASSUME Fetched.op = "EXTCALL"
               PROVE  Bound(image, extcalls, defcode, Fetched)
    BY DEF Bound
  <2> DEFINE off == DefOffset(Fetched)
             k == DefIdAt(off)
             idx == defcode[k]
  <2>1. /\ image \in Image /\ image \in Images /\ curDef \in DefIds(image)
        /\ laid /\ WalkEnds(image)
    BY InFrame DEF FrameInv, BindInv, Running, Checked, ArchiveOk
  <2>2. NamesDef(image, off)
    BY <2>1, FetchedPlace DEF OffsetsNear, Near, TheDef, Fetched, ICount
  <2>3. /\ k \in DefIds(image) /\ DefAt(image, off) = image.defs[k]
        /\ NeedsExtcall(image.defs[k])
    BY <1>1, <2>1, <2>2, CallNamed DEF NeedsExtcall
  <2>4. CodeOf(image, defcode, off) = idx
    BY <2>2 DEF CodeOf
  <2>5. idx + 1 \in Matches(extcalls, image.defs[k]) /\ idx \in Nat
    BY <1>2, <2>3 DEF FrameInv, BindInv, ExternsBound
  <2>6. /\ idx + 1 \in 1 .. Len(extcalls)
        /\ extcalls[idx + 1].args_count  = image.defs[k].args_count
        /\ extcalls[idx + 1].rvals_count = image.defs[k].rvals_count
    BY <2>5 DEF Matches
  <2>7. Len(extcalls) \in Nat
    BY <1>2
  <2>8. idx \in 0 .. Len(extcalls) - 1
    <3> HIDE DEF idx
    <3> QED BY <2>5, <2>6, <2>7
  <2> HIDE DEF idx, k, off
  <2>9. /\ CodeOf(image, defcode, DefOffset(Fetched)) = idx
        /\ DefAt(image, DefOffset(Fetched)) = image.defs[k]
    BY <2>3, <2>4 DEF off
  <2> QED BY <2>6, <2>8, <2>9 DEF Bound
<1> QED BY <1>1, <1>3

\* The invariant is what FrameSafe needs
LEMMA FrameInvSafe ==
  ASSUME OffsetsNear, OffsetsFit, IndexesApart, FrameInv
  PROVE  FrameSafe
<1> SUFFICES ASSUME AboutToRun
             PROVE  /\ Frame \subseteq DOMAIN stack
                    /\ ReadBy(image, extcalls, defcode, curStackCount, Fetched, stack) \subseteq Frame
                    /\ Written(image, extcalls, defcode, curStackCount, Fetched, stack) \subseteq Frame
  BY DEF FrameSafe
<1> DEFINE consts == NConst(image)
           rw == TheDef.stack_count
<1>1. at # "idle"
  BY DEF AboutToRun
<1>2. /\ image \in Image /\ image # None /\ consts \in Nat /\ rw \in Nat
      /\ stackCount \in Nat /\ stack \in Stack(stackCount)
      /\ curStackCount = consts + rw /\ consts + rw <= stackCount
  BY <1>1, InFrame
<1>3. Fetched \in Instruction /\ InstructionOk(image, TheDef, Fetched, consts, rw)
  BY <1>1, InFrame, FetchedPlace DEF AboutToRun, Fetched
<1>4. /\ image \in Images /\ curDef \in DefIds(image) /\ prepared /\ "VALIDATED" \in aflags
      /\ extcalls \in Seq(ExtEntry)
  BY <1>1, <1>2, InterpreterAssumption DEF FrameInv, BindInv, Running
<1>5. consts + rw < OffsetMod
  BY <1>4 DEF OffsetsFit, TheDef
<1>6. Fetched.op = "INDEXRIS" => Fetched.arg2 > 0
  BY <1>1, <1>4, FetchedPlace DEF AboutToRun, IndexesApart, TheDef, Fetched, ICount
<1>7. Bound(image, extcalls, defcode, Fetched)
  BY <1>1, FetchedBound DEF AboutToRun
<1>8. Frame = 0 .. consts + rw - 1 /\ DOMAIN stack = 0 .. stackCount - 1
  BY <1>2 DEF Frame, Stack
<1> HIDE DEF consts, rw
<1>9. Frame \subseteq DOMAIN stack
  BY <1>2, <1>8
<1> QED
  BY <1>2, <1>3, <1>4, <1>5, <1>6, <1>7, <1>8, <1>9, OperandsInFrame

-----------------------------------------------------------------------------
(* The invariant is inductive.                                             *)

\* A stack of no cells
LEMMA NoCells == <<>> \in Stack(0)
<1>1. <<>> \in [1 .. 0 -> Value]
  OBVIOUS
<1>2. 1 .. 0 = 0 .. 0 - 1
  OBVIOUS
<1> QED BY <1>1, <1>2 DEF Stack

\* lmnt_init: nothing is loaded and nothing runs
LEMMA FrameInvInit == Init => FrameInv
<1> SUFFICES ASSUME Init PROVE FrameInv
  OBVIOUS
<1>1. BindInv
  BY BindInvInit
<1>2. TypeOK
  <2>1. stack \in [0 .. stackCount - 1 -> Value]
    BY NoCells DEF Init, Stack
  <2> QED BY <1>1, <2>1 DEF Init, TypeOK, BindInv
<1>3. LaidOut /\ Checked /\ Loaded /\ Ready /\ Suspended /\ Running /\ Comparing
  BY DEF Init, LaidOut, Checked, Loaded, Ready, Suspended, Running, Comparing
<1> QED BY <1>1, <1>2, <1>3 DEF FrameInv

\* What concerns the archive does not change while the context does not
Prepared == LaidOut /\ Checked /\ Loaded /\ Ready

LEMMA PreparedKept ==
  ASSUME Prepared, UNCHANGED <<ctxVars, prepared, laid>>
  PROVE  Prepared'
BY DEF Prepared, LaidOut, Checked, Loaded, Ready, ctxVars

\* lmnt_init, lmnt_load_archive and lmnt_load_inplace_archive
LEMMA FrameInvLoad ==
  ASSUME FrameInv, BindInv',
         Reinit \/ \E img \in Reloads[image] : LoadBegin(img) \/ LoadInplace(img)
  PROVE  FrameInv'
<1>1. CASE Reinit
  <2>1. TypeOK'
    BY <1>1, NoCells DEF Reinit, Reset, TypeOK, FrameInv, BindInv, Stack
  <2>2. Prepared'
    BY <1>1 DEF Reinit, Reset, Prepared, LaidOut, Checked, Loaded, Ready
  <2>3. Suspended' /\ Running' /\ Comparing'
    BY <1>1 DEF Reinit, Reset, Suspended, Running, Comparing
  <2> QED BY <2>1, <2>2, <2>3 DEF FrameInv, Prepared
<1>2. ASSUME NEW img \in Reloads[image], NEW n \in Nat, NEW fl \in {{}, {"INPLACE"}},
             n = 0 \/ "INPLACE" \in fl, NewArchive(img, n, fl)
      PROVE  FrameInv'
  <2>1. img \in Images /\ img # None
    BY InterpreterAssumption DEF FrameInv, BindInv
  <2>2. TypeOK'
    <3>1. /\ image' = img /\ size' = n /\ aflags' = fl /\ at = "idle" /\ at' = "idle"
          /\ prepared' = FALSE /\ suspended' = {} /\ laid' = FALSE
          /\ UNCHANGED <<extcalls, stack, stackCount, writable, curDef, curInstr,
                        curStackCount, flags, instr, latch, irq>>
      BY <1>2 DEF NewArchive, Idle, runVars
    <3> QED BY <2>1, <3>1 DEF TypeOK, FrameInv, BindInv
  <2>3. Prepared'
    BY <1>2, <2>1, InterpreterAssumption
       DEF NewArchive, Prepared, LaidOut, Checked, Loaded, Ready
  <2>4. Suspended' /\ Running' /\ Comparing'
    BY <1>2 DEF NewArchive, Idle, runVars, Suspended, Running, Comparing
  <2> QED BY <2>2, <2>3, <2>4 DEF FrameInv, Prepared
<1>3. ASSUME NEW img \in Reloads[image], LoadBegin(img) PROVE FrameInv'
  BY <1>2, <1>3 DEF LoadBegin
<1>4. ASSUME NEW img \in Reloads[image], LoadInplace(img) PROVE FrameInv'
  <2>1. img \in Image
    BY InterpreterAssumption DEF FrameInv, BindInv
  <2>2. Total(img) \in Nat
    BY <2>1 DEF Image, Total, NConst
  <2>3. NewArchive(img, Total(img), {"INPLACE"})
    BY <1>4 DEF LoadInplace
  <2> HIDE DEF NewArchive
  <2> QED BY <1>2, <2>2, <2>3
<1> QED BY <1>1, <1>3, <1>4

\* lmnt_load_archive, a part at a time, and lmnt_ictx_extcalls_set
LEMMA FrameInvFill ==
  ASSUME FrameInv, BindInv',
         \/ image # None /\ \E n \in Chunks : LoadAppend(n)
         \/ \E table \in ExtTables[image] : ExtcallsSet(table)
  PROVE  FrameInv'
<1>1. ASSUME image # None, NEW n \in Chunks, LoadAppend(n) PROVE FrameInv'
  <2>1. image \in Image /\ Total(image) \in Nat /\ size \in Nat /\ Memory \in Nat
    <3>1. image \in Image /\ size \in Nat /\ Memory \in Nat
      BY <1>1, InterpreterAssumption DEF FrameInv, BindInv, TypeOK
    <3> QED BY <3>1 DEF Image, Total, NConst
  <2>2. size' \in Nat /\ (size < Memory => size' < Memory)
    <3>1. n \in Nat
      BY <1>1, <2>1 DEF Chunks, LoadAppend
    <3> QED BY <1>1, <2>1, <3>1 DEF LoadAppend
  <2>3. TypeOK'
    BY <1>1, <2>2 DEF LoadAppend, TypeOK, FrameInv, BindInv, Idle, runVars
  <2>4. Prepared'
    BY <1>1, <2>1, <2>2 DEF LoadAppend, FrameInv, Prepared, LaidOut, Checked, Loaded, Ready,
       ArchiveOk, SegmentsOk
  <2>5. Suspended' /\ Running' /\ Comparing'
    BY <1>1 DEF LoadAppend, Idle, runVars, FrameInv, Suspended, Running, Comparing, FrameOf
  <2> QED BY <2>3, <2>4, <2>5 DEF FrameInv, Prepared
<1>2. ASSUME NEW table \in ExtTables[image], ExtcallsSet(table) PROVE FrameInv'
  <2>1. TypeOK'
    BY <1>2 DEF ExtcallsSet, TypeOK, FrameInv, BindInv, Idle, runVars
  <2>2. Prepared'
    BY <1>2 DEF ExtcallsSet, FrameInv, Prepared, LaidOut, Checked, Loaded, Ready
  <2>3. Suspended' /\ Running' /\ Comparing'
    BY <1>2 DEF ExtcallsSet, Idle, runVars, FrameInv, Suspended, Running, Comparing, FrameOf
  <2> QED BY <2>1, <2>2, <2>3 DEF FrameInv, Prepared
<1> QED BY <1>1, <1>2

\* lmnt_prepare_archive marks an archive validated only if it is, and lays out
\* the stack only when the memory area does not hold it already.
LEMMA FrameInvPrepare ==
  ASSUME FrameInv, BindInv', NEW fill \in Fill, Prepare(fill)
  PROVE  FrameInv'
<1>1. /\ image # None /\ image \in Image /\ at = "idle"
      /\ UNCHANGED <<image, size, extcalls, curDef, curInstr, curStackCount, flags,
                    at, instr, latch, irq, suspended>>
  BY InterpreterAssumption DEF Prepare, Idle, runVars, FrameInv, BindInv
<1>2. Suspended' /\ Running' /\ Comparing'
  BY <1>1 DEF FrameInv, Suspended, Running, Comparing, FrameOf
<1>3. CASE ~ArchiveOk(image, size, Memory)
  <2>1. ~prepared' /\ prepared' \in BOOLEAN /\ UNCHANGED <<stackCount, writable, stack, laid, aflags>>
    BY <1>3 DEF Prepare
  <2>2. TypeOK'
    BY <1>1, <2>1 DEF FrameInv, TypeOK, BindInv
  <2>3. Prepared'
    BY <1>1, <2>1 DEF FrameInv, Prepared, LaidOut, Checked, Loaded, Ready
  <2> QED BY <1>2, <2>2, <2>3 DEF FrameInv, Prepared
<1>4. CASE ArchiveOk(image, size, Memory)
  <2>1. /\ stackCount' = StackCount(image, Memory)
        /\ writable' = ConstCount(image)
        /\ stack' = IF laid THEN stack ELSE Layout(image, StackCount(image, Memory), fill)
        /\ laid' = TRUE
        /\ UpdateDefExtcalls
    BY <1>4 DEF Prepare
  <2>2. /\ aflags' \subseteq {"VALIDATED", "USES_EXTCALLS", "INPLACE"}
        /\ "INPLACE" \in aflags' <=> "INPLACE" \in aflags
        /\ prepared' \in BOOLEAN /\ (prepared' => "INPLACE" \notin aflags)
    BY <2>1 DEF UpdateDefExtcalls, FrameInv, TypeOK
  <2>3. stackCount' \in Nat /\ writable' \in Nat
    <3>1. Memory - image.base \in Int /\ SizeMod \in Nat \ {0} /\ ConstCount(image) \in Nat
      <4>1. Len(image.consts) \in Int /\ OffsetMod \in Nat \ {0}
        BY <1>1, ValueAssumption DEF Image
      <4>2. ConstCount(image) \in 0 .. OffsetMod - 1
        BY <4>1, ModRange DEF ConstCount, NConst
      <4>3. ConstCount(image) \in Nat
        BY <4>1, <4>2
      <4> QED BY <1>1, <4>3, InterpreterAssumption, ValueAssumption DEF Image
    <3>2. StackCount(image, Memory) \in 0 .. SizeMod - 1
      BY <3>1, ModRange DEF StackCount
    <3> QED BY <2>1, <3>1, <3>2
  <2>4. stack' \in [0 .. stackCount' - 1 -> Value]
    <3>1. CASE laid
      BY <2>1, <3>1 DEF FrameInv, TypeOK, LaidOut
    <3>2. CASE ~laid
      <4>1. \A c \in 0 .. stackCount' - 1 :
              /\ (IF c < NConst(image) THEN image.consts[c + 1] ELSE fill) \in Value
              /\ (IF c < ConstCount(image) THEN image.consts[c + 1] ELSE fill) \in Value
        <5>1. image.consts \in Seq(Value) /\ fill \in Value
          BY <1>1, InterpreterAssumption DEF Image
        <5>2. NConst(image) \in Nat /\ ConstCount(image) \in Nat /\ ConstCount(image) <= NConst(image)
          <6>1. NConst(image) \in Nat /\ OffsetMod \in Nat \ {0}
            BY <5>1, ValueAssumption DEF NConst
          <6>2. NConst(image) % OffsetMod \in 0 .. OffsetMod - 1
            <7>1. NConst(image) \in Int
              BY <6>1
            <7> QED BY <6>1, <7>1, ModRange
          <6>3. NConst(image) % OffsetMod <= NConst(image)
            BY <6>1, ModLe
          <6> QED BY <6>1, <6>2, <6>3 DEF ConstCount
        <5>3. \A c \in 0 .. stackCount' - 1 : c < NConst(image) => c + 1 \in 1 .. Len(image.consts)
          BY <2>3, <5>1 DEF NConst
        <5> QED BY <2>3, <5>1, <5>2, <5>3
      <4> QED BY <2>1, <3>2, <4>1 DEF Layout
    <3> QED BY <3>1, <3>2
  <2>5. TypeOK'
    BY <1>1, <2>1, <2>2, <2>3, <2>4 DEF FrameInv, TypeOK, BindInv
  <2>6. Prepared'
    BY <1>1, <1>4, <2>1, <2>2 DEF FrameInv, Prepared, LaidOut, Checked, Loaded, Ready
  <2> QED BY <1>2, <2>5, <2>6 DEF FrameInv, Prepared
<1> QED BY <1>3, <1>4

\* lmnt_update_args writes lmnt_values, wherever they fall
LEMMA FrameInvArgs ==
  ASSUME FrameInv, BindInv', NEW d, NEW off, NEW v \in ArgValues, UpdateArgs(d, off, v)
  PROVE  FrameInv'
<1>1. /\ at = "idle"
      /\ UNCHANGED <<ctxVars, curDef, curInstr, curStackCount, flags, at, instr, latch, irq,
                    prepared, suspended, laid>>
  BY DEF UpdateArgs, MayCall, Idle, runVars
<1>2. stack' \in [0 .. stackCount' - 1 -> Value]
  <2>1. stack \in [0 .. stackCount - 1 -> Value] /\ v \in Value
    BY OpsAssumption DEF FrameInv, TypeOK
  <2> QED BY <1>1, <2>1 DEF UpdateArgs, ctxVars
<1>3. TypeOK'
  BY <1>1, <1>2 DEF FrameInv, TypeOK, ctxVars, DefIds
<1>4. Prepared'
  BY <1>1, PreparedKept DEF FrameInv, Prepared
<1>5. Suspended' /\ Running' /\ Comparing'
  BY <1>1 DEF FrameInv, Suspended, Running, Comparing, FrameOf, ctxVars
<1> QED BY <1>3, <1>4, <1>5 DEF FrameInv, Prepared

\* execute() enters the loop, calls an extern, or gives up, always in the frame
\* of the def it was given.
LEMMA FrameInvRun ==
  ASSUME FrameInv, BindInv', at = "idle", prepared, "VALIDATED" \in aflags,
         image # None, NEW d \in DefIds(image), NEW room, NEW n \in Nat,
         RunDef(d, room, n, FrameOf(d)),
         UNCHANGED <<ctxVars, flags, irq, prepared, laid>>, curInstr' \in Nat
  PROVE  FrameInv'
<1>1. /\ image \in Image /\ FrameOf(d) \in Nat /\ d \in Nat /\ suspended \subseteq DefIds(image)
      /\ None \notin Nat /\ LOffsetMod \in Nat \ {0} /\ stack \in Stack(stackCount)
      /\ stackCount \in Nat
  <2>1. image \in Image /\ suspended \subseteq DefIds(image)
    BY InterpreterAssumption DEF FrameInv, BindInv, TypeOK
  <2>2. FrameOf(d) \in Nat
    BY <2>1, ImageParts DEF FrameOf
  <2> QED BY <2>1, <2>2, InterpreterAssumption DEF FrameInv, TypeOK, DefIds, Stack
<1>2. Prepared'
  BY PreparedKept DEF FrameInv, Prepared
<1>3. UNCHANGED <<image, defcode, size, aflags, extcalls, stackCount, writable>>
  BY DEF ctxVars
<1>4. CASE ~room
  <2>1. /\ curDef' = d /\ curStackCount' = FrameOf(d)
        /\ UNCHANGED <<stack, suspended, at, instr, latch>>
    BY <1>4 DEF RunDef, runVars
  <2>2. TypeOK'
    BY <1>1, <1>3, <2>1 DEF FrameInv, TypeOK, DefIds
  <2>3. Suspended' /\ Running' /\ Comparing'
    BY <1>3, <2>1 DEF FrameInv, Suspended, Running, Comparing, FrameOf, DefIds
  <2> QED BY <1>2, <2>2, <2>3 DEF FrameInv, Prepared
<1>5. CASE room /\ "EXTERN" \in image.defs[d].flags
  <2>1. CallExtern(d, defcode[d], FrameOf(d))
    BY <1>5 DEF RunDef
  <2>2. UNCHANGED <<at, instr, latch>>
    BY <2>1 DEF CallExtern, runVars
  <2>3. /\ stack' \in Stack(stackCount)
        /\ \/ curDef' = d /\ curStackCount' = FrameOf(d) /\ suspended' \subseteq suspended \cup {d}
           \/ curDef' = None /\ curStackCount' = 0 /\ suspended' \subseteq suspended
    <3>1. CASE defcode[d] >= Len(extcalls)
      BY <1>1, <2>1, <3>1 DEF CallExtern
    <3>2. CASE ~(defcode[d] >= Len(extcalls))
      <4>1. PICK o \in ExtOutcomes(extcalls, defcode[d], stack, writable) :
              stack' = o.stack /\ Finish(d, o.res, FrameOf(d))
        BY <2>1, <3>2 DEF CallExtern
      <4> QED BY <1>1, <4>1, ExtType DEF Finish
    <3> QED BY <3>1, <3>2
  <2>4. suspended' \subseteq DefIds(image)
    BY <1>1, <2>3
  <2>5. TypeOK'
    BY <1>1, <1>3, <2>2, <2>3, <2>4 DEF FrameInv, TypeOK, DefIds, Stack
  <2>6. Suspended' /\ Running' /\ Comparing'
    BY <1>1, <1>3, <2>2, <2>3, <2>4 DEF FrameInv, Suspended, Running, Comparing, FrameOf, DefIds
  <2> QED BY <1>2, <2>5, <2>6 DEF FrameInv, Prepared
<1>6. CASE room /\ "EXTERN" \notin image.defs[d].flags
  <2>1. EnterLoop(n) /\ curDef' = d /\ curStackCount' = FrameOf(d)
    BY <1>6 DEF RunDef
  <2>2. (n - 1) % LOffsetMod \in Nat
    BY <1>1, ModRange
  <2>3. instr' \in Nat /\ at' \in {"check", "fetch"} /\ UNCHANGED <<stack, suspended, latch>>
    BY <2>1, <2>2 DEF EnterLoop
  <2>4. TypeOK'
    BY <1>1, <1>3, <2>1, <2>3 DEF FrameInv, TypeOK, DefIds
  <2>5. Suspended' /\ Running' /\ Comparing'
    BY <1>1, <1>3, <1>6, <2>1, <2>3
       DEF FrameInv, Suspended, Running, Comparing, FrameOf, DefIds, TheDef
  <2> QED BY <1>2, <2>4, <2>5 DEF FrameInv, Prepared
<1> QED BY <1>4, <1>5, <1>6

\* lmnt_execute, and lmnt_resume of a def the host saw interrupted
LEMMA FrameInvCall ==
  ASSUME Careful, FrameInv, BindInv', image # None, Calling
  PROVE  FrameInv'
<1>1. ASSUME NEW d \in DefIds(image), NEW room, Execute(d, room) PROVE FrameInv'
  <2>1. /\ at = "idle" /\ prepared /\ "VALIDATED" \in aflags /\ curInstr' \in Nat
        /\ RunDef(d, room, 0, FrameOf(d))
        /\ UNCHANGED <<ctxVars, flags, irq, prepared, laid>>
    BY <1>1 DEF Execute, MayCall, Idle, FrameOf
  <2> QED BY <2>1, FrameInvRun
<1>2. ASSUME NEW d \in DefIds(image), NEW room, Resume(d, room) PROVE FrameInv'
  <2>1. /\ at = "idle" /\ prepared /\ "VALIDATED" \in aflags /\ d \in suspended
        /\ UNCHANGED <<ctxVars, curInstr, flags, irq, prepared, laid>>
    BY <1>2 DEF Resume, MayCall, Idle
  <2>2. CASE curDef # d
    <3>1. UNCHANGED <<stack, curDef, curStackCount, suspended, at, instr, latch>>
      BY <1>2, <2>2 DEF Resume, runVars
    <3>2. TypeOK'
      BY <2>1, <3>1 DEF FrameInv, TypeOK, ctxVars, DefIds
    <3>3. Prepared'
      BY <2>1, PreparedKept DEF FrameInv, Prepared
    <3>4. Suspended' /\ Running' /\ Comparing'
      BY <2>1, <3>1 DEF FrameInv, Suspended, Running, Comparing, FrameOf, ctxVars
    <3> QED BY <3>2, <3>3, <3>4 DEF FrameInv, Prepared
  <2>3. CASE curDef = d
    <3>1. curStackCount = FrameOf(d)
      BY <2>1, <2>3 DEF FrameInv, Suspended
    <3>2. RunDef(d, room, curInstr, FrameOf(d)) /\ curInstr \in Nat
      BY <1>2, <2>3, <3>1 DEF Resume, FrameInv, TypeOK
    <3> QED BY <2>1, <3>2, FrameInvRun
  <2> QED BY <2>2, <2>3
<1>3. ASSUME NEW d, NEW off, NEW v \in ArgValues, UpdateArgs(d, off, v) PROVE FrameInv'
  BY <1>3, FrameInvArgs
<1> QED BY <1>1, <1>2, <1>3 DEF Calling

\* A comparison of two cells of the stack yields CMP_* bits
LEMMA CompareBitsType ==
  ASSUME NEW img, NEW d, NEW consts \in Nat, NEW rw \in Nat, NEW n \in Nat, consts + rw <= n,
         NEW s \in Stack(n), NEW in \in Instruction, InstructionOk(img, d, in, consts, rw),
         in.op \in CompareOps
  PROVE  CompareBits(in, s) \subseteq CmpBits
<1>1. in.arg1 \in 0 .. n - 1 /\ (in.op = "CMP" => in.arg2 \in 0 .. n - 1)
  BY ReadCells, Operands DEF CompareOps, Instruction
<1>2. s[in.arg1] \in Value /\ (in.op = "CMP" => s[in.arg2] \in Value)
  BY <1>1 DEF Stack
<1> QED BY <1>2, ValueAssumption DEF CompareBits

\* A comparison leaves CMP_* bits and the interrupt flag in status_flags
LEMMA NewFlagsType ==
  ASSUME NEW img, NEW d, NEW consts \in Nat, NEW rw \in Nat, NEW n \in Nat, consts + rw <= n,
         NEW s \in Stack(n), NEW in \in Instruction, InstructionOk(img, d, in, consts, rw),
         NEW fl \in SUBSET (CmpBits \cup {"INT"})
  PROVE  NewFlags(in, s, fl) \subseteq CmpBits \cup {"INT"}
BY CompareBitsType DEF NewFlags

\* Inside a call nothing of the context changes but the stack, the flags and
\* cur_instr, so that only their types are at stake.
LEMMA FrameInvInside ==
  ASSUME FrameInv, BindInv', at # "idle",
         UNCHANGED <<ctxVars, curDef, curStackCount, hostVars>>,
         stack' \in Stack(stackCount), curInstr' \in Nat, instr' \in Nat,
         flags' \subseteq CmpBits \cup {"INT"}, latch' \subseteq CmpBits \cup {"INT"},
         irq' = None \/ irq' \subseteq CmpBits \cup {"INT"},
         at' \in {"fetch", "check", "endcheck", "stop", "cmp"},
         at' = "cmp" => instr' < ICount
  PROVE  FrameInv'
<1>1. UNCHANGED <<image, defcode, size, aflags, extcalls, stackCount, writable, prepared,
                  suspended, laid>>
  BY DEF ctxVars, hostVars
<1>2. TypeOK'
  BY <1>1 DEF FrameInv, TypeOK, DefIds, Stack
<1>3. Prepared'
  BY <1>1, PreparedKept DEF FrameInv, Prepared
<1>4. Suspended' /\ Running' /\ Comparing'
  BY <1>1 DEF FrameInv, Suspended, Running, Comparing, FrameOf, TheDef, ICount, DefIds
<1> QED BY <1>2, <1>3, <1>4 DEF FrameInv, Prepared

\* Leaving the loop: only an interrupted call stays current, with its frame
LEMMA FrameInvLeave ==
  ASSUME OffsetsNear, FrameInv, BindInv', at # "idle", NEW res, LeaveLoop(res)
  PROVE  FrameInv'
<1>1. /\ curDef \in DefIds(image) /\ curDef \in Nat /\ curStackCount = FrameOf(curDef)
      /\ None \notin Nat /\ image # None /\ suspended \subseteq DefIds(image)
      /\ curStackCount \in Nat
  BY InFrame, InterpreterAssumption DEF FrameInv, TypeOK, Running, DefIds
<1>2. UNCHANGED <<image, defcode, size, aflags, extcalls, stackCount, writable, stack, flags,
                  latch, irq, prepared, laid>>
  BY DEF LeaveLoop, ctxVars
<1>3. /\ at' = "idle" /\ instr' = 0 /\ curInstr' \in Nat
      /\ \/ curDef' = curDef /\ curStackCount' = curStackCount
              /\ suspended' = suspended \cup {curDef}
         \/ curDef' = None /\ curStackCount' = 0 /\ suspended' = suspended \ {curDef}
  BY DEF LeaveLoop, Finish, FrameInv, TypeOK
<1>4. TypeOK'
  <2>1. suspended' \subseteq DefIds(image)
    <3>1. suspended' = suspended \cup {curDef} \/ suspended' = suspended \ {curDef}
      BY <1>3
    <3> QED BY <1>1, <3>1
  <2>2. curStackCount' \in Nat /\ curInstr' \in Nat /\ at' = "idle" /\ instr' \in Nat
    BY <1>1, <1>3
  <2> QED BY <1>1, <1>2, <2>1, <2>2 DEF FrameInv, TypeOK, DefIds
<1>5. Prepared'
  BY <1>2, PreparedKept DEF FrameInv, Prepared, ctxVars
<1>6. Suspended' /\ Running' /\ Comparing'
  BY <1>1, <1>2, <1>3 DEF FrameInv, Suspended, Running, Comparing, FrameOf, DefIds
<1> QED BY <1>4, <1>5, <1>6 DEF FrameInv, Prepared

\* execute_function, one step at a time
LEMMA FrameInvThread ==
  ASSUME OffsetsNear, FrameInv, BindInv', Thread
  PROVE  FrameInv'
<1>1. /\ LOffsetMod \in Nat \ {0} /\ instr \in Nat /\ curInstr \in Nat /\ Pc \in Nat
      /\ flags \in SUBSET (CmpBits \cup {"INT"}) /\ latch \in SUBSET (CmpBits \cup {"INT"})
      /\ irq = None \/ irq \subseteq CmpBits \cup {"INT"}
      /\ stack \in Stack(stackCount)
  BY FetchedPlace, InterpreterAssumption DEF FrameInv, TypeOK, Stack
<1>2. ASSUME at # "idle", NEW op, NEW j \in Nat, NEW res, NEW ci \in Nat, After(op, j, res, ci)
      PROVE  instr' \in Nat /\ at' \in {"check", "fetch"}
  <2>1. (ci - 1) % LOffsetMod \in Nat
    BY <1>1, ModRange
  <2> QED BY <1>2, <2>1 DEF After
<1>3. CASE Step
  <2>1. /\ at # "idle" /\ Pc < ICount
        /\ UNCHANGED <<ctxVars, curDef, curStackCount, irq, hostVars>>
    BY <1>3 DEF Step
  <2> DEFINE consts == NConst(image)
             rw == TheDef.stack_count
  <2>2. /\ Fetched \in Instruction /\ InstructionOk(image, TheDef, Fetched, consts, rw)
        /\ image \in Image /\ consts \in Nat /\ rw \in Nat /\ stackCount \in Nat
        /\ curStackCount = consts + rw /\ consts + rw <= stackCount
    BY <2>1, InFrame, FetchedPlace DEF Fetched
  <2> HIDE DEF consts, rw
  <2>3. CASE RunWhole
    <3>1. PICK o \in Outcomes(image, extcalls, defcode, curStackCount, Fetched, stack, flags) :
            /\ stack' = o.stack
            /\ curInstr' = IF o.res = "BRANCHING" THEN Target(Fetched) ELSE curInstr
            /\ After(Fetched.op, Pc, o.res, curInstr')
      BY <2>3 DEF RunWhole
    <3>2. stack' \in Stack(stackCount)
      BY <1>1, <2>2, <3>1, OutcomesType
    <3>3. Target(Fetched) \in Nat
      <4>1. Fetched.arg2 \in Nat /\ Fetched.arg3 \in Nat /\ OffsetMod \in Nat
        BY <2>2, ValueAssumption DEF Instruction
      <4>2. \A x, y, z \in Nat : x + y * z \in Nat
        OBVIOUS
      <4> QED BY <4>1, <4>2 DEF Target
    <3>4. curInstr' \in Nat
      BY <1>1, <3>1, <3>3
    <3>5. instr' \in Nat /\ at' \in {"check", "fetch"}
      BY <1>1, <1>2, <2>1, <3>1, <3>4
    <3>6. flags' \subseteq CmpBits \cup {"INT"} /\ latch' = latch
      BY <1>1, <2>2, <2>3, NewFlagsType DEF RunWhole
    <3> QED BY <1>1, <2>1, <3>2, <3>4, <3>5, <3>6, FrameInvInside
  <2>4. CASE TornCompare
    <3>1. /\ latch' = flags /\ at' = "cmp" /\ instr' = Pc
          /\ UNCHANGED <<stack, curInstr, flags>>
      BY <2>4 DEF TornCompare
    <3> QED BY <1>1, <2>1, <3>1, FrameInvInside
  <2> QED BY <1>3, <2>3, <2>4 DEF Step
<1>4. CASE CmpStore
  <2>1. /\ at = "cmp" /\ instr < ICount
        /\ flags' = NewFlags(TheDef.code[instr + 1], stack, latch)
        /\ After(TheDef.code[instr + 1].op, instr, "OK", curInstr)
        /\ latch' = {}
        /\ UNCHANGED <<ctxVars, stack, curDef, curInstr, curStackCount, irq, hostVars>>
    BY <1>4 DEF CmpStore, FrameInv, Comparing
  <2>2. instr' \in Nat /\ at' \in {"check", "fetch"}
    BY <1>1, <1>2, <2>1
  <2>3. instr + 1 \in 1 .. ICount
    BY <1>1, <2>1, InFrame DEF ICount
  <2>4. /\ NConst(image) \in Nat /\ TheDef.stack_count \in Nat /\ stackCount \in Nat
        /\ NConst(image) + TheDef.stack_count <= stackCount
        /\ TheDef.code[instr + 1] \in Instruction
        /\ InstructionOk(image, TheDef, TheDef.code[instr + 1], NConst(image), TheDef.stack_count)
    BY <2>1, <2>3, InFrame
  <2>5. flags' \subseteq CmpBits \cup {"INT"}
    BY <1>1, <2>1, <2>4, NewFlagsType
  <2> QED BY <1>1, <2>1, <2>2, <2>5, FrameInvInside
<1>5. CASE FetchEndGoto \/ CheckGoto
  <2>1. /\ at # "idle" /\ instr' \in Nat /\ at' \in {"endcheck", "stop", "fetch"}
        /\ UNCHANGED <<ctxVars, stack, curDef, curInstr, curStackCount, flags, latch, irq, hostVars>>
    BY <1>1, <1>5 DEF FetchEndGoto, CheckGoto
  <2> QED BY <1>1, <2>1, FrameInvInside
<1>6. CASE CheckLoop
  <2>1. /\ at # "idle" /\ instr' \in Nat /\ at' = "fetch"
        /\ UNCHANGED <<ctxVars, stack, curDef, curInstr, curStackCount, flags, latch, irq, hostVars>>
    BY <1>1, <1>6 DEF CheckLoop
  <2> QED BY <1>1, <2>1, FrameInvInside
<1>7. CASE EndCheck \/ FetchEndLoop \/ BreakLoop
  <2>1. at # "idle" /\ \E res : LeaveLoop(res)
    BY <1>7 DEF EndCheck, FetchEndLoop, BreakLoop
  <2> QED BY <2>1, FrameInvLeave
<1> QED BY <1>3, <1>4, <1>5, <1>6, <1>7 DEF Thread

\* lmnt_interrupt changes status_flags only
LEMMA FrameInvInterrupt ==
  ASSUME FrameInv, BindInv', Interrupter \/ UNCHANGED vars
  PROVE  FrameInv'
<1>1. /\ UNCHANGED <<image, defcode, size, aflags, extcalls, stackCount, writable, stack, curDef,
                    curInstr, curStackCount, at, instr, latch, prepared, suspended, laid>>
      /\ flags' \subseteq CmpBits \cup {"INT"}
      /\ irq' = None \/ irq' \subseteq CmpBits \cup {"INT"}
  BY DEF Interrupter, Interrupt, InterruptLoad, InterruptStore, vars, ctxVars, runVars, hostVars,
     FrameInv, TypeOK
<1>2. TypeOK'
  BY <1>1 DEF FrameInv, TypeOK, DefIds
<1>3. Prepared'
  BY <1>1, PreparedKept DEF FrameInv, Prepared, ctxVars
<1>4. Suspended' /\ Running' /\ Comparing'
  BY <1>1 DEF FrameInv, Suspended, Running, Comparing, FrameOf, TheDef, ICount, DefIds
<1> QED BY <1>2, <1>3, <1>4 DEF FrameInv, Prepared

\* A host that resumes only what it saw interrupted keeps the invariant
LEMMA FrameInvStep ==
  ASSUME Careful, OffsetsNear
  PROVE  FrameInv /\ [Next]_vars => FrameInv'
<1> SUFFICES ASSUME FrameInv, [Next]_vars PROVE FrameInv'
  OBVIOUS
<1>1. BindInv'
  BY BindInvStep DEF FrameInv
<1>2. CASE Loading
  <2>1. ASSUME NEW fill \in Fill, Prepare(fill) PROVE FrameInv'
    BY <1>1, <2>1, FrameInvPrepare
  <2> QED BY <1>1, <1>2, <2>1, FrameInvLoad, FrameInvFill DEF Loading
<1>3. CASE image # None /\ Calling
  BY <1>1, <1>3, FrameInvCall
<1>4. CASE Thread
  BY <1>1, <1>4, FrameInvThread
<1>5. CASE Interrupter \/ UNCHANGED vars
  BY <1>1, <1>5, FrameInvInterrupt
<1> QED BY <1>2, <1>3, <1>4, <1>5 DEF Next

-----------------------------------------------------------------------------
(* The theorems.                                                           *)

\* With a host that calls only what it has prepared and resumes only what it has
\* seen interrupted, and archives of which the validator's 16-bit offsets say all,
\* the inductive invariant holds of every reachable state.
THEOREM FramesKept == ASSUME Careful, OffsetsNear PROVE Spec => []FrameInv
BY FrameInvInit, FrameInvStep, PTL DEF Spec

\* Every variable of the context and of the loop keeps its type; in particular
\* the stack keeps stack_count cells, each of them a lmnt_value.
THEOREM TypeCorrectness == ASSUME Careful, OffsetsNear PROVE Spec => []TypeOK
<1>1. FrameInv => TypeOK
  BY DEF FrameInv
<1> QED BY <1>1, FramesKept, PTL

\* Validation replaces run-time checks: an instruction of a prepared archive
\* reads and writes only cells of its own frame, which lies in the memory area,
\* for every archive whose frames have fewer than 2^16 cells, whose INDEXRIS
\* instructions have offsets other than 0, and of which 16 bits say all: its
\* constants number fewer than 2^16, the code of a def is at the offset that
\* validate_code keeps, and an EXTCALL names a def.  (For the archives beyond, what
\* was validated need not be what runs, and frames are left.)
THEOREM FrameSafety ==
  ASSUME Careful, OffsetsNear, OffsetsFit, IndexesApart
  PROVE  Spec => []FrameSafe
<1>1. FrameInv => FrameSafe
  BY FrameInvSafe
<1> QED BY <1>1, FramesKept, PTL

-----------------------------------------------------------------------------
(* The constants.                                                          *)

\* A stack that is laid out begins with the constants, and results and arguments
\* come after them.
LEMMA LaidImage ==
  ASSUME OffsetsNear, FrameInv, laid
  PROVE  /\ image # None /\ image \in Image
         /\ writable = NConst(image) /\ NConst(image) \in Nat
         /\ stackCount \in Nat /\ DOMAIN stack = 0 .. stackCount - 1
<1>1. image # None /\ image \in Images /\ image \in Image
  BY InterpreterAssumption DEF FrameInv, LaidOut, TypeOK
<1>2. NConst(image) \in Nat /\ ConstCount(image) = NConst(image)
  <2>1. Len(image.consts) \in Nat /\ OffsetMod \in Nat \ {0} /\ NConst(image) < OffsetMod
    BY <1>1, ValueAssumption DEF Image, OffsetsNear, Near
  <2>2. NConst(image) \in 0 .. OffsetMod - 1
    BY <2>1 DEF NConst
  <2> QED BY <2>1, <2>2, ModSmall DEF ConstCount
<1> QED BY <1>1, <1>2 DEF FrameInv, LaidOut, TypeOK

\* What a call leaves of the constants: an extern that the host calls directly
\* writes after its arguments, which begin at writable_stack.
LEMMA ConstantsInRun ==
  ASSUME OffsetsNear, FrameInv, laid, NEW d \in DefIds(image), NEW room, NEW n, NEW frame, RunDef(d, room, n, frame)
  PROVE  SameConstants(stack, stack', NConst(image))
<1>1. writable = NConst(image) /\ NConst(image) \in Nat
  BY LaidImage
<1>2. CASE stack' = stack
  BY <1>2 DEF SameConstants
<1>3. CASE stack' # stack
  <2>1. CallExtern(d, defcode[d], frame) /\ ~(defcode[d] >= Len(extcalls))
    BY <1>3 DEF RunDef, EnterLoop, CallExtern
  <2> DEFINE e == extcalls[defcode[d] + 1]
  <2>2. stack' \in StacksAfter(stack, e, writable) \cup {stack}
    BY <2>1 DEF CallExtern, ExtOutcomes, Outcome
  <2>3. PICK out, f : /\ stack' = [c \in DOMAIN stack |-> IF c \in out THEN f[c] ELSE stack[c]]
                      /\ out \subseteq Span(writable + e.args_count, e.rvals_count)
    BY <1>3, <2>2 DEF StacksAfter
  <2>4. \A c \in 0 .. NConst(image) - 1 : c \notin Span(writable + e.args_count, e.rvals_count)
    <3>1. e.args_count \in Nat
      <4>1. defcode[d] \in Nat /\ extcalls \in Seq(ExtEntry)
        BY LaidImage DEF FrameInv, BindInv
      <4>2. defcode[d] + 1 \in 1 .. Len(extcalls)
        BY <2>1, <4>1
      <4>3. e \in ExtEntry
        BY <4>1, <4>2
      <4> HIDE DEF e
      <4> QED BY <4>3 DEF ExtEntry
    <3> HIDE DEF e
    <3> QED BY <1>1, <3>1 DEF Span
  <2> QED BY <2>3, <2>4 DEF SameConstants
<1> QED BY <1>2, <1>3

\* What an instruction leaves of them
LEMMA ConstantsInStep ==
  ASSUME OffsetsNear, FrameInv, laid, ~IndexesStack(image), Step
  PROVE  SameConstants(stack, stack', NConst(image))
<1>1. at # "idle" /\ Pc < ICount
  BY DEF Step
<1>2. CASE TornCompare
  BY <1>2 DEF TornCompare, SameConstants
<1>3. CASE RunWhole
  <2>1. PICK o \in Outcomes(image, extcalls, defcode, curStackCount, Fetched, stack, flags) :
          stack' = o.stack
    BY <1>3 DEF RunWhole
  <2>2. /\ Fetched \in Instruction
        /\ InstructionOk(image, TheDef, Fetched, NConst(image), TheDef.stack_count)
        /\ Bound(image, extcalls, defcode, Fetched)
    BY <1>1, FetchedBound
  <2>3. Fetched.op # "INDEXRIR"
    BY <1>1, InFrame, FetchedPlace DEF IndexesStack, Fetched, TheDef, ICount, FrameInv, Running
  <2>4. image \in Image /\ NConst(image) \in Nat /\ extcalls \in Seq(ExtEntry)
    BY LaidImage DEF FrameInv, BindInv
  <2> QED BY <2>1, <2>2, <2>3, <2>4, ConstantsElsewhere
<1> QED BY <1>2, <1>3 DEF Step

\* Only these steps write the stack, once it is laid out
LEMMA ConstantsInNext ==
  ASSUME OffsetsNear, FrameInv, Next, laid, laid', image' = image, ~IndexesStack(image)
  PROVE  SameConstants(stack, stack', NConst(image))
<1>1. CASE stack' = stack
  BY <1>1 DEF SameConstants
<1>2. CASE Loading
  <2>1. stack' = stack
    BY <1>2 DEF Loading, Reinit, Reset, LoadBegin, LoadInplace, NewArchive, LoadAppend,
       ExtcallsSet, Prepare
  <2> QED BY <1>1, <2>1
<1>3. CASE image # None /\ Calling
  <2>1. ASSUME NEW d, NEW off \in {0, 1, Memory}, NEW v, UpdateArgs(d, off, v)
        PROVE  SameConstants(stack, stack', NConst(image))
    <3>1. stack' = stack \/ stack' = [stack EXCEPT ![writable + off] = v]
      BY <2>1 DEF UpdateArgs
    <3>2. writable + off \notin 0 .. NConst(image) - 1
      BY LaidImage, InterpreterAssumption
    <3> QED BY <1>1, <3>1, <3>2 DEF SameConstants
  <2>2. ASSUME NEW d \in DefIds(image), NEW room, Execute(d, room)
        PROVE  SameConstants(stack, stack', NConst(image))
    BY <2>2, ConstantsInRun DEF Execute
  <2>3. ASSUME NEW d \in DefIds(image), NEW room, Resume(d, room)
        PROVE  SameConstants(stack, stack', NConst(image))
    BY <1>1, <2>3, ConstantsInRun DEF Resume
  <2> QED BY <1>3, <2>1, <2>2, <2>3 DEF Calling
<1>4. CASE Thread
  <2>1. Step \/ stack' = stack
    BY <1>4 DEF Thread, CmpStore, FetchEndGoto, CheckGoto, EndCheck, FetchEndLoop, CheckLoop,
       BreakLoop, LeaveLoop
  <2> QED BY <1>1, <2>1, ConstantsInStep
<1>5. CASE Interrupter
  BY <1>1, <1>5 DEF Interrupter, Interrupt, InterruptLoad, InterruptStore
<1> QED BY <1>2, <1>3, <1>4, <1>5 DEF Next

\* A host that writes the stack has prepared the archive, so that the constants
\* are cells of the stack.
LEMMA ConstantsFit ==
  ASSUME Careful, OffsetsNear, FrameInv, Next, laid, laid', stack' # stack
  PROVE  0 .. NConst(image) - 1 \subseteq DOMAIN stack
<1>1. prepared /\ "VALIDATED" \in aflags /\ \E d \in DefIds(image) : TRUE
  <2>1. ~Loading
    BY DEF Loading, Reinit, Reset, LoadBegin, LoadInplace, NewArchive, LoadAppend,
       ExtcallsSet, Prepare
  <2>2. ~Interrupter
    BY DEF Interrupter, Interrupt, InterruptLoad, InterruptStore
  <2>3. CASE Calling
    BY <2>3 DEF Calling, UpdateArgs, Execute, Resume, MayCall
  <2>4. CASE Thread
    <3>1. Step
      BY <2>4 DEF Thread, CmpStore, FetchEndGoto, CheckGoto, EndCheck, FetchEndLoop, CheckLoop,
         BreakLoop, LeaveLoop
    <3> QED BY <3>1 DEF Step, FrameInv, Running
  <2> QED BY <2>1, <2>2, <2>3, <2>4 DEF Next
<1>2. PICK d \in DefIds(image) : TRUE
  BY <1>1
<1>3. image # None /\ image \in Image /\ NConst(image) \in Nat /\ DOMAIN stack = 0 .. stackCount - 1
  BY LaidImage
<1>4. /\ size \in Nat /\ size < Memory /\ ArchiveOk(image, size, Memory)
      /\ stackCount = StackCount(image, Memory) /\ stackCount \in Nat
  BY <1>1, <1>3 DEF FrameInv, Ready, Loaded, Checked, LaidOut, TypeOK
<1>5. NConst(image) + image.defs[d].stack_count <= stackCount
  BY <1>3, <1>4, FrameFits
<1>6. image.defs[d].stack_count \in Nat
  BY <1>3, ImageParts
<1> QED BY <1>3, <1>4, <1>5, <1>6

\* Validation protects the constants: while an archive is loaded and laid out, and
\* 16 bits are enough for its offsets and the number of its constants, no
\* instruction, extcall or argument changes a constant, unless the archive uses
\* INDEXRIR, the one instruction that computes where it writes.
THEOREM ConstantsStay ==
  ASSUME Careful, OffsetsNear
  PROVE  Spec => ConstantsKept
<1>1. FrameInv /\ [Next]_vars
        => [laid /\ laid' /\ image' = image /\ ~IndexesStack(image) =>
              \A c \in 0 .. NConst(image) - 1 : stack'[c] = stack[c]]_vars
  <2> SUFFICES ASSUME FrameInv, Next, laid, laid', image' = image, ~IndexesStack(image),
                      NEW c \in 0 .. NConst(image) - 1
               PROVE  stack'[c] = stack[c]
    OBVIOUS
  <2>1. CASE stack' = stack
    BY <2>1
  <2>2. CASE stack' # stack
    BY <2>2, ConstantsFit, ConstantsInNext DEF SameConstants
  <2> QED BY <2>1, <2>2
<1> QED BY <1>1, FramesKept, PTL DEF Spec, ConstantsKept
=============================================================================
