--------------------------- MODULE ElementCompiler ---------------------------
(***************************************************************************)
(* libelement's compiler from instruction trees to LMNT code               *)
(* (lmnt/compiler.cpp, compiler_state.cpp, naive_allocator.hpp): four      *)
(* passes over a tree.  Create gives every instruction an allocation,      *)
(* Prepare decides which share the cells of another or are pinned to a     *)
(* constant, an input or an output, Allocate numbers the rest, Compile     *)
(* emits code.                                                             *)
(*                                                                         *)
(* The state of the passes is a record s:                                  *)
(*   root, inputs   the function's tree and its number of inputs           *)
(*   consts         the constants of the archive, which all functions share *)
(*   alloc          per instruction, its allocations in order              *)
(*   next           the first local cell naive_allocator has not given out *)
(*   ctx            the execution contexts, the innermost last             *)
(*   code, back     the instructions, and whether HAS_BACKBRANCHES is set  *)
(*   res            "OK", or the error that stopped the compilation        *)
(* What only future allocators would read (the first and last use of an    *)
(* allocation, the allocations of a context) is left out.                  *)
(***************************************************************************)
EXTENDS ElementTree

CONSTANTS
  AllowBackbranches, AllowDynamic,   \* element_lmnt_compiler_settings
  ReuseThreshold                     \* constant_reuse_threshold

\* compilation_stage and execution_type
CreatedStage == 1    PreparedStage == 2    AllocatedStage == 3    CompiledStage == 4
Never == 0    Conditional == 1    Unconditional == 2

Wrap(n) == n % OffsetMod
Ins(op, a, b, c) == [op |-> op, arg1 |-> Wrap(a), arg2 |-> Wrap(b), arg3 |-> Wrap(c)]

Begin(t, consts, inputs) ==
  [root |-> t, inputs |-> inputs, consts |-> consts, alloc |-> <<>>, next |-> 0,
   ctx |-> <<[type |-> Unconditional, done |-> {}]>>,
   code |-> <<>>, back |-> FALSE, res |-> "OK"]

Ok(s) == s.res = "OK"
Fail(s, e) == IF Ok(s) THEN [s EXCEPT !.res = e] ELSE s
Require(s, cond) == IF cond THEN s ELSE Fail(s, "UNKNOWN")

-----------------------------------------------------------------------------
(* Contexts.                                                               *)

\* The weakest of the contexts on the stack
ContextType(s) ==
  CHOOSE e \in {s.ctx[i].type : i \in DOMAIN s.ctx} :
    \A i \in DOMAIN s.ctx : e <= s.ctx[i].type

Push(s, e) == IF Ok(s) THEN [s EXCEPT !.ctx = Append(@, [type |-> e, done |-> {}])] ELSE s
Pop(s) == IF Ok(s) THEN [s EXCEPT !.ctx = Front(@)] ELSE s

-----------------------------------------------------------------------------
(* Constants.                                                              *)

\* std::find compares floats: a NaN is never found
HasConstant(s, v) == v # NaN /\ \E i \in DOMAIN s.consts : s.consts[i] = v
FindConstant(s, v) == (CHOOSE i \in DOMAIN s.consts : s.consts[i] = v) - 1
AddConstant(s, v) ==
  IF ~Ok(s) THEN s
  ELSE IF Len(s.consts) >= OffsetMod - 1 THEN Fail(s, "UNKNOWN")
  ELSE IF HasConstant(s, v) THEN s ELSE [s EXCEPT !.consts = Append(@, v)]

\* add_candidate_constant, for a threshold of one
AddCandidate(s, v) == IF 1 >= ReuseThreshold THEN AddConstant(s, v) ELSE s

-----------------------------------------------------------------------------
(* Allocations: parent is the allocation another one lies in (none or one  *)
(* pair of an instruction and the position among its allocations).         *)

NewAllocation(n) ==
  [count |-> n, stage |-> 0, exec |-> Never, parent |-> <<>>,
   type |-> "local", index |-> 0, pinned |-> FALSE]

Allocs(s, t) == IF t \in DOMAIN s.alloc THEN s.alloc[t] ELSE <<>>
CountOf(s, t) == s.alloc[t][1].count

AddAlloc(s, t, n) ==
  IF Ok(s) THEN [s EXCEPT !.alloc = (t :> Append(Allocs(s, t), NewAllocation(Wrap(n)))) @@ @] ELSE s

RECURSIVE TopOf(_, _, _), CellOf(_, _, _)
TopOf(s, t, i) ==
  LET a == s.alloc[t][i] IN IF a.parent = <<>> THEN a ELSE TopOf(s, a.parent[1], a.parent[2])
CellOf(s, t, i) ==
  LET a == s.alloc[t][i]
  IN  Wrap(a.index + (IF a.parent = <<>> THEN 0 ELSE CellOf(s, a.parent[1], a.parent[2])))

\* set_parent, whose failures nobody looks at
SetParent(s, child, parent, rel) ==
  IF \/ ~Ok(s) \/ Allocs(s, child) = <<>> \/ Allocs(s, parent) = <<>>
     \/ TopOf(s, child, 1).pinned
     \/ CountOf(s, child) > CountOf(s, parent)
  THEN s
  ELSE [s EXCEPT !.alloc[child][1].parent = <<parent, 1>>, !.alloc[child][1].index = Wrap(rel)]

SetPinned(s, t, type, index, n) ==
  IF ~Ok(s) THEN s
  ELSE [s EXCEPT !.alloc[t][1] =
          [@ EXCEPT !.parent = <<>>, !.type = type, !.index = Wrap(index),
                    !.count = n, !.pinned = TRUE]]

SetStage(s, t, stage) ==
  IF ~Ok(s) THEN s
  ELSE [s EXCEPT !.alloc[t] = [i \in DOMAIN @ |-> [@[i] EXCEPT !.stage = stage]]]

\* use_in_context
UseInContext(s, t) ==
  IF Allocs(s, t) = <<>> THEN s
  ELSE [s EXCEPT !.alloc[t] =
          [i \in DOMAIN @ |-> [@[i] EXCEPT !.exec = IF @ > ContextType(s) THEN @ ELSE ContextType(s)]]]

\* Mutant: an allocation within another takes cells of its own space
PlaceAnyway(s, t, i) ==
  IF TopOf(s, t, i).type # "local" \/ TopOf(s, t, i).pinned THEN s
  ELSE [s EXCEPT !.alloc[t][i].index = s.next]

\* naive_allocator::allocate
Place(s, t, i) ==
  IF \/ TopOf(s, t, i).type # "local" \/ TopOf(s, t, i).pinned
     \/ s.alloc[t][i].parent # <<>>
  THEN s
  ELSE [s EXCEPT !.alloc[t][i].index = s.next, !.next = Wrap(@ + s.alloc[t][i].count)]

PlaceAll(s, t) == FoldLeft(LAMBDA r, i : Place(r, t, i), s, [i \in DOMAIN s.alloc[t] |-> i])

\* calculate_stack_index: constants, inputs, outputs, locals
Cell(s, type, index) ==
  LET c == Len(s.consts) IN
  Wrap(CASE type = "constant" -> index
         [] type = "input"    -> index + c
         [] type = "output"   -> index + c + s.inputs
         [] type = "local"    -> index + c + s.inputs + CountOf(s, s.root))
StackCell(s, t, i) == Cell(s, TopOf(s, t, i).type, CellOf(s, t, i))
At(s, t) == StackCell(s, t, 1)

\* get_max_stack_usage
MaxStackUsage(s) ==
  LET ends == {Wrap(CellOf(s, p[1], p[2]) + s.alloc[p[1]][p[2]].count) :
                 p \in {q \in UNION {{t} \X DOMAIN s.alloc[t] : t \in DOMAIN s.alloc} :
                          TopOf(s, q[1], q[2]).type = "local"}}
  IN  CHOOSE n \in ends \cup {0} : \A e \in ends : e <= n

-----------------------------------------------------------------------------
(* Create.                                                                 *)

ScalarConstantIf(t) == ScalarConstants(<<t.deps[2], t.deps[3]>>)
BranchType(s, t) == IF ScalarConstantIf(t) THEN ContextType(s) ELSE Conditional

RECURSIVE Create(_, _)
CreateIn(s, e, t) == Pop(Create(Push(s, e), t))

CreateStruct(s, t) ==
  LET s1 == FoldLeft(Create, s, t.deps)
  IN  IF Ok(s1)
      THEN AddAlloc(s1, t, FoldLeft(LAMBDA n, d : n + CountOf(s1, d), 0, t.deps)) ELSE s1

CreateUnary(s, t) ==
  LET s1 == Create(AddAlloc(s, t, 1), t.deps[1])
      s2 == IF Ok(s1) THEN Require(s1, CountOf(s1, t.deps[1]) = 1) ELSE s1
  IN  IF t.op = "not" THEN AddConstant(AddConstant(s2, MinusOne), One) ELSE s2

CreateBinary(s, t) ==
  LET s1 == Create(Create(AddAlloc(s, t, 1), t.deps[1]), t.deps[2])
      s2 == IF Ok(s1)
            THEN Require(s1, CountOf(s1, t.deps[1]) = 1 /\ CountOf(s1, t.deps[2]) = 1) ELSE s1
      base == ConstantValue(t.deps[2])
  IN  CASE t.op \in DOMAIN CompareOpcode -> AddConstant(AddConstant(s2, Zero), One)
        [] t.op = "log" /\ base = <<>> -> AddAlloc(s2, t, 1)   \* room for the base
        [] t.op = "log" /\ base # <<>> /\ base[1] \notin DOMAIN KnownLogs ->
             AddConstant(s2, ALU["LOG2"][<<base[1], base[1]>>])
        [] OTHER -> s2

CreateIf(s, t) ==
  LET s1 == Create(s, t.deps[1])
      s2 == IF Ok(s1) THEN Require(s1, CountOf(s1, t.deps[1]) = 1) ELSE s1
      s3 == CreateIn(s2, BranchType(s, t), t.deps[2])
      s4 == CreateIn(s3, BranchType(s, t), t.deps[3])
      s5 == IF Ok(s4) THEN Require(s4, CountOf(s4, t.deps[2]) = CountOf(s4, t.deps[3])) ELSE s4
  IN  IF Ok(s5) THEN AddAlloc(s5, t, CountOf(s5, t.deps[2])) ELSE s5

CreateFor(s, t) ==
  IF ~AllowBackbranches THEN Fail(s, "CANNOT_COMPILE_WITH_CURRENT_SETTINGS")
  ELSE LET s1 == Create(Create(s, t.deps[1]), t.deps[2])
           s2 == CreateIn(s1, Conditional, t.deps[3])
           s3 == IF Ok(s2) THEN Require(s2, /\ CountOf(s2, t.deps[2]) = 1
                                            /\ CountOf(s2, t.deps[1]) = CountOf(s2, t.deps[3]))
                 ELSE s2
       IN  IF Ok(s3) THEN AddAlloc(s3, t, CountOf(s3, t.deps[1])) ELSE s3

CreateIndexer(s, t) ==
  LET s1 == Create(s, t.deps[1])
  IN  IF Ok(s1) THEN AddAlloc(Require(s1, t.index < CountOf(s1, t.deps[1])), t, 1) ELSE s1

CreateSelect(s, t) ==
  LET s1 == Create(s, t.deps[1])
      s2 == IF Ok(s1) THEN Require(s1, CountOf(s1, t.deps[1]) = 1 /\ Options(t) # <<>>) ELSE s1
      s3 == AddConstant(AddConstant(s2, One), FromNat(Len(Options(t)) - 1))
      s4 == FoldLeft(LAMBDA r, o : CreateIn(r, Conditional, o), s3, Options(t))
      counts == {CountOf(s4, Options(t)[i]) : i \in DOMAIN Options(t)}
      most == CHOOSE n \in counts : \A c \in counts : c <= n
  IN  IF Ok(s4) THEN AddAlloc(AddAlloc(s4, t, most), t, 1) ELSE s4   \* and the selector's scratch

\* create_virtual_result
Create(s, t) ==
  IF ~Ok(s) \/ Allocs(s, t) # <<>> THEN s
  ELSE LET v == ConstantValue(t)
           c == CASE v # <<>> -> AddCandidate(AddAlloc(s, t, 1), v[1])
                  [] v = <<>> /\ t.k = "input"   -> AddAlloc(s, t, 1)
                  [] v = <<>> /\ t.k = "struct"  -> CreateStruct(s, t)
                  [] v = <<>> /\ t.k = "unary"   -> CreateUnary(s, t)
                  [] v = <<>> /\ t.k = "binary"  -> CreateBinary(s, t)
                  [] v = <<>> /\ t.k = "if"      -> CreateIf(s, t)
                  [] v = <<>> /\ t.k = "for"     -> CreateFor(s, t)
                  [] v = <<>> /\ t.k = "indexer" -> CreateIndexer(s, t)
                  [] v = <<>> /\ t.k = "select"  -> CreateSelect(s, t)
       IN  SetStage(c, t, CreatedStage)

-----------------------------------------------------------------------------
(* Prepare.                                                                *)

\* instruction_at: the instruction that owns cell index of t; <<>> if none.
\* Within a struct the first dependent that starts at or after the index
RECURSIVE InstructionAt(_, _, _)
InstructionAt(s, t, index) ==
  LET start(i) == FoldLeft(LAMBDA n, j : n + CountOf(s, t.deps[j]), 0, [j \in 1 .. i - 1 |-> j])
      at == {i \in DOMAIN t.deps : start(i) >= index}
      first == CHOOSE i \in at : \A j \in at : i <= j
  IN
  CASE t.k = "struct"  -> IF at = {} THEN <<>> ELSE InstructionAt(s, t.deps[first], start(first) - index)
    [] t.k = "for"     -> InstructionAt(s, t.deps[3], index)
    [] t.k = "indexer" -> InstructionAt(s, t.deps[1], index + t.index)
    [] OTHER -> IF index + 1 <= CountOf(s, t) THEN <<t>> ELSE <<>>

RECURSIVE Prepare(_, _)
PrepareIn(s, e, t) == Pop(Prepare(Push(s, e), t))

\* Constants and top-level inputs are used where they are, unless they are the output
PrepareConstant(s, t, v) ==
  IF TopOf(s, t, 1).type # "output" /\ HasConstant(s, v)
  THEN SetPinned(s, t, "constant", FindConstant(s, v), 1) ELSE s
PrepareInput(s, t) ==
  IF t.scope = 0 /\ TopOf(s, t, 1).type # "output"
  THEN SetPinned(s, t, "input", t.index, 1) ELSE s

PrepareStruct(s, t) ==
  FoldLeft(LAMBDA r, i :
             LET p == Prepare(r.s, t.deps[i])
             IN  [s |-> SetParent(p, t.deps[i], t, r.at), at |-> r.at + CountOf(p, t.deps[i])],
           [s |-> s, at |-> 0], [i \in DOMAIN t.deps |-> i]).s

PrepareIf(s, t) ==
  LET s1 == Prepare(s, t.deps[1])
      s2 == PrepareIn(s1, BranchType(s, t), t.deps[2])
      s3 == PrepareIn(s2, BranchType(s, t), t.deps[3])
  IN  SetParent(SetParent(s3, t.deps[2], t, 0), t.deps[3], t, 0)

PrepareFor(s, t) ==
  LET s1 == Prepare(Prepare(s, t.deps[1]), t.deps[2])
      s2 == PrepareIn(s1, Conditional, t.deps[3])
  IN  SetParent(SetParent(s2, t.deps[1], t, 0), t.deps[3], t, 0)

PrepareIndexer(s, t) ==
  LET s1 == Prepare(s, t.deps[1])
      at == IF Ok(s1) THEN InstructionAt(s1, t.deps[1], t.index) ELSE <<>>
  IN  IF at = <<>> THEN Fail(s1, "UNKNOWN") ELSE SetParent(s1, t, at[1], t.index)

PrepareSelect(s, t) ==
  FoldLeft(LAMBDA r, o : SetParent(PrepareIn(r, Conditional, o), o, t, 0),
           Prepare(s, t.deps[1]), Options(t))

\* prepare_virtual_result
Prepare(s0, t) ==
  LET s == UseInContext(s0, t)
      a == s.alloc[t][1]
      v == ConstantValue(t)
      p == CASE v # <<>> -> PrepareConstant(s, t, v[1])
             [] v = <<>> /\ t.k = "input"   -> PrepareInput(s, t)
             [] v = <<>> /\ t.k = "struct"  -> PrepareStruct(s, t)
             [] v = <<>> /\ t.k \in {"unary", "binary"} -> FoldLeft(Prepare, s, t.deps)
             [] v = <<>> /\ t.k = "if"      -> PrepareIf(s, t)
             [] v = <<>> /\ t.k = "for"     -> PrepareFor(s, t)
             [] v = <<>> /\ t.k = "indexer" -> PrepareIndexer(s, t)
             [] v = <<>> /\ t.k = "select"  -> PrepareSelect(s, t)
  IN  IF ~Ok(s0) THEN s0
      ELSE IF Allocs(s0, t) = <<>> THEN Fail(s0, "UNKNOWN")
      ELSE IF a.stage >= PreparedStage /\ a.exec = Unconditional THEN s
      ELSE SetStage(p, t, PreparedStage)

-----------------------------------------------------------------------------
(* Allocate: dependents first.  (The contexts pushed meanwhile are not     *)
(* looked at.)                                                             *)

RECURSIVE Allocate(_, _)
Allocate(s, t) ==
  IF ~Ok(s) THEN s
  ELSE IF Allocs(s, t) = <<>> THEN Fail(s, "UNKNOWN")
  ELSE IF s.alloc[t][1].stage >= AllocatedStage THEN s
  ELSE LET below == IF ConstantValue(t) # <<>> THEN s ELSE FoldLeft(Allocate, s, t.deps)
       IN  IF Ok(below) THEN SetStage(PlaceAll(below, t), t, AllocatedStage) ELSE below

-----------------------------------------------------------------------------
(* Compile.                                                                *)

Here(s) == Len(s.code)   \* output.size()
Emit(s, in) == IF Ok(s) THEN [s EXCEPT !.code = Append(@, in)] ELSE s
EmitAll(s, ins) == IF Ok(s) THEN [s EXCEPT !.code = @ \o ins] ELSE s

\* LMNT_COMBINE_OFFSET's halves of a branch target or of a bit pattern
Branch(op, target) == Ins(op, 0, target % OffsetMod, target \div OffsetMod)
SetTarget(s, i, target) ==
  IF Ok(s) THEN [s EXCEPT !.code[i + 1] = Branch(@.op, target)] ELSE s
Immediate(v, d) ==
  LET n == CHOOSE n \in 0 .. 2 * OffsetMod : FromBits(n) = v
  IN  Ins("ASSIGNIBS", n % OffsetMod, n \div OffsetMod, d)

\* copy_stack_values: four at a time, then one at a time
CopyCells(s, src, dst, n) ==
  LET fours == n \div 4 IN
  IF src = dst THEN s
  ELSE EmitAll(s, [i \in 1 .. fours |-> Ins("ASSIGNVV", src + 4 * (i - 1), 0, dst + 4 * (i - 1))]
                  \o [i \in 1 .. n % 4 |->
                        Ins("ASSIGNSS", src + 4 * fours + i - 1, 0, dst + 4 * fours + i - 1)])

RECURSIVE Compile(_, _)
CompileIn(s, e, t) == Pop(Compile(Push(s, e), t))

CompileConstant(s, v, d) ==
  IF HasConstant(s, v) THEN CopyCells(s, FindConstant(s, v), d, 1) ELSE Emit(s, Immediate(v, d))

CompileInput(s, t, d) ==
  IF t.scope = 0 THEN CopyCells(s, Cell(s, "input", t.index), d, 1) ELSE s

CompileStruct(s, t, d) ==
  FoldLeft(LAMBDA r, e : LET c == Compile(r.s, e)
                         IN  [s |-> CopyCells(c, At(c, e), d + r.at, CountOf(c, e)),
                              at |-> r.at + CountOf(c, e)],
           [s |-> s, at |-> 0], t.deps).s

Not(one, minus, a, d) ==
  <<Ins("CEILS", a, 0, d), Ins("MINSS", d, one, d), Ins("MULSS", d, minus, d), Ins("ADDSS", d, one, d)>>

CompileUnary(s, t, d) ==
  LET a == At(s, t.deps[1])
      s1 == Compile(s, t.deps[1])
  IN  IF t.op = "not"
      THEN EmitAll(s1, Not(FindConstant(s1, One), FindConstant(s1, MinusOne), a, d))
      ELSE Emit(s1, Ins(UnaryOpcode[t.op], a, 0, d))

\* The operands are on either side of a short circuit: the branches leave
\* for the second value, wins is the first
ShortCircuit(op, wins, a, b, d, start) ==
  <<Ins("CMPZ", a, 0, 0), Branch(op, start + 6), Ins("CMPZ", b, 0, 0), Branch(op, start + 6),
    Immediate(wins, d), Branch("BRANCH", start + 7),
    Immediate(IF wins = One THEN Zero ELSE One, d)>>

CompileLog(s, t, a, b, d) ==
  LET base == ConstantValue(t.deps[2])
      log2(v) == ALU["LOG2"][<<v, v>>]
  IN  CASE base # <<>> /\ base[1] \in DOMAIN KnownLogs ->
             Emit(s, Ins(KnownLogs[base[1]], a, 0, d))
        [] base # <<>> /\ base[1] \notin DOMAIN KnownLogs ->
             IF ~HasConstant(s, log2(base[1])) THEN Fail(s, "NOT_FOUND")
             ELSE EmitAll(s, <<Ins("LOG2", a, 0, d), Ins("DIVSS", d, FindConstant(s, log2(base[1])), d)>>)
        [] OTHER ->
             LET scratch == StackCell(s, t, 2)
             IN  EmitAll(s, <<Ins("LOG2", b, 0, scratch), Ins("LOG2", a, 0, d),
                              Ins("DIVSS", d, scratch, d)>>)

CompileBinary(s, t, d) ==
  LET a == At(s, t.deps[1])
      b == At(s, t.deps[2])
      s1 == Compile(Compile(s, t.deps[1]), t.deps[2])
  IN  CASE t.op \in DOMAIN NumOpcode -> Emit(s1, Ins(NumOpcode[t.op], a, b, d))
        [] t.op = "log" -> CompileLog(s1, t, a, b, d)
        [] t.op = "and" -> EmitAll(s1, ShortCircuit("BRANCHCLE", One, a, b, d, Here(s1)))
        [] t.op = "or"  -> EmitAll(s1, ShortCircuit("BRANCHCGT", Zero, a, b, d, Here(s1)))
        [] t.op \in DOMAIN CompareOpcode ->
             EmitAll(s1, <<Ins("CMP", a, b, 0),
                           Ins(CompareOpcode[t.op], FindConstant(s1, One), FindConstant(s1, Zero), d)>>)

CompileIf(s, t, d) ==
  LET p == At(s, t.deps[1])
      a == At(s, t.deps[2])
      b == At(s, t.deps[3])
      s1 == Emit(Compile(s, t.deps[1]), Ins("CMPZ", p, 0, 0))
      \* with two constants, a conditional assignment
      c1 == Compile(Compile(s1, t.deps[2]), t.deps[3])
      \* otherwise, branches
      s2 == CompileIn(Emit(s1, Branch("BRANCHCLE", 0)), Conditional, t.deps[2])
      s3 == Emit(CopyCells(s2, a, d, CountOf(s, t.deps[2])), Branch("BRANCH", 0))
      s4 == CompileIn(s3, Conditional, t.deps[3])
      s5 == CopyCells(s4, b, d, CountOf(s, t.deps[3]))
  IN  IF ScalarConstantIf(t) THEN Emit(c1, Ins("ASSIGNCLE", b, a, d))
      ELSE SetTarget(SetTarget(s5, Here(s1), Here(s3)), Here(s3) - 1, Here(s5))

\* The inputs of a loop that a condition or a body reads, and the copies of
\* the loop's state, which lies at cell state, to them
LoopInputs(t, e) == {x \in Subterms(e) : x.k = "input" /\ x.scope = t.scope}
FillInputs(s, t, e, state) ==
  FoldLeft(LAMBDA r, i :
             FoldLeft(LAMBDA q, x : CopyCells(q, state + i, At(q, x), 1), r,
                      SetToSeq({x \in LoopInputs(t, e) : x.index = i})),
           s, [i \in 1 .. SizeOf(t) |-> i - 1])

CompileFor(s, t, d) ==
  LET initial == At(s, t.deps[1])  condition == At(s, t.deps[2])  body == At(s, t.deps[3])
      n == CountOf(s, t.deps[1])
      s1 == CopyCells(Compile([s EXCEPT !.back = TRUE], t.deps[1]), initial, body, n)
      s2 == FillInputs(s1, t, t.deps[2], body)
      s3 == Emit(Compile(s2, t.deps[2]), Ins("CMPZ", condition, 0, 0))
      s4 == FillInputs(Emit(s3, Branch("BRANCHCLE", 0)), t, t.deps[3], body)
      s5 == CompileIn(s4, Conditional, t.deps[3])
      s6 == Emit(s5, Branch("BRANCH", Here(s1)))
      s7 == CopyCells(s6, body, d, CountOf(s, t.deps[3]))
  IN  SetTarget(s7, Here(s3), Here(s6))

CompileIndexer(s, t, d) ==
  LET s1 == Compile(s, t.deps[1])
      at == InstructionAt(s1, t.deps[1], t.index)
  IN  IF ~Ok(s1) THEN s1
      ELSE IF at = <<>> THEN Fail(s1, "UNKNOWN") ELSE CopyCells(s1, At(s1, at[1]), d, 1)

\* all_options_contiguous_scalar_constants
Contiguous(s, t) ==
  /\ ScalarConstants(Options(t))
  /\ \A i \in 2 .. Len(Options(t)) : At(s, Options(t)[i]) = At(s, Options(t)[i - 1]) + 1

\* Mutant: the selector loses one before every test
SelectorTestsEager(n, scratch, one) ==
  FlattenSeq([i \in 1 .. n |-> <<Ins("SUBSS", scratch, one, scratch), Branch("BRANCHCLE", 0),
                                 Ins("CMPZ", scratch, 0, 0)>>])

\* A test per option that leaves for its code when no more than zero is left
\* of the selector, which loses one after every test
SelectorTests(n, scratch, one) ==
  FlattenSeq([i \in 1 .. n |-> <<Ins("CMPZ", scratch, 0, 0), Branch("BRANCHCLE", 0),
                                 Ins("SUBSS", scratch, one, scratch)>>])

CompileOptions(s, t, d) ==
  LET tests == Here(s) - 3 * Len(Options(t))
      each == FoldLeft(LAMBDA r, i :
                 LET o == Options(t)[i]
                     s1 == SetTarget(r.s, tests + 3 * (i - 1) + 1, Here(r.s))
                     s2 == CopyCells(CompileIn(s1, Conditional, o), At(r.s, o), d, CountOf(r.s, o))
                 IN  [s |-> Emit(s2, Branch("BRANCH", 0)), outs |-> Append(r.outs, Here(s2))],
               [s |-> s, outs |-> <<>>], [i \in DOMAIN Options(t) |-> i])
  IN  FoldLeft(LAMBDA r, i : SetTarget(r, i, Here(each.s)), each.s, each.outs)

CompileSelect(s, t, d) ==
  LET scratch == StackCell(s, t, 2)
      selector == At(s, t.deps[1])
      one == FindConstant(s, One)
      last == FindConstant(s, FromNat(Len(Options(t)) - 1))
      s1 == EmitAll(Compile(s, t.deps[1]),
                    <<Ins("MINSS", selector, last, scratch), Ins("TRUNCS", scratch, 0, scratch)>>)
      all == FoldLeft(LAMBDA r, o : CompileIn(r, Conditional, o), s1, Options(t))
  IN  IF AllowDynamic /\ Contiguous(s1, t)
      THEN Emit(all, Ins("INDEXRIS", scratch, At(s1, Options(t)[1]), d))
      ELSE CompileOptions(EmitAll(s1, SelectorTests(Len(Options(t)), scratch, one)), t, d)

\* Mutant: what has been compiled once is not compiled again
DefinitelyExecutedOnce(s, t) == s.alloc[t][1].stage >= CompiledStage

\* The test of compile_instruction that an instruction need not be emitted again
DefinitelyExecuted(s, t) ==
  /\ s.alloc[t][1].stage >= CompiledStage
  /\ s.alloc[t][1].exec = Unconditional \/ t \in Last(s.ctx).done

\* compile_instruction
Compile(s, t) ==
  IF ~Ok(s) THEN s
  ELSE IF Allocs(s, t) = <<>> THEN Fail(s, "UNKNOWN")
  ELSE IF DefinitelyExecuted(s, t) THEN s
  ELSE LET d == At(s, t)
           v == ConstantValue(t)
           c == CASE v # <<>> -> CompileConstant(s, v[1], d)
                  [] v = <<>> /\ t.k = "input"   -> CompileInput(s, t, d)
                  [] v = <<>> /\ t.k = "struct"  -> CompileStruct(s, t, d)
                  [] v = <<>> /\ t.k = "unary"   -> CompileUnary(s, t, d)
                  [] v = <<>> /\ t.k = "binary"  -> CompileBinary(s, t, d)
                  [] v = <<>> /\ t.k = "if"      -> CompileIf(s, t, d)
                  [] v = <<>> /\ t.k = "for"     -> CompileFor(s, t, d)
                  [] v = <<>> /\ t.k = "indexer" -> CompileIndexer(s, t, d)
                  [] v = <<>> /\ t.k = "select"  -> CompileSelect(s, t, d)
           e == SetStage(c, t, CompiledStage)
       IN  IF Ok(e) THEN [e EXCEPT !.ctx[Len(e.ctx)].done = @ \cup {t}] ELSE e

-----------------------------------------------------------------------------
(* The constants an export collects before it compiles anything.           *)

ConstantsOf(t) == {x.n : x \in {y \in Subterms(t) : y.k = "constant"}}
=============================================================================
