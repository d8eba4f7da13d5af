---------------------------- MODULE ElementExport ----------------------------
(***************************************************************************)
(* Exporting functions to an LMNT archive (lmnt/exporter.cpp) with the     *)
(* compiler's passes as steps, and calling what was exported on the LMNT   *)
(* operations of LmntOps.  The archive goes from the exporter to the       *)
(* machine through the validator, as lmnt_prepare_archive does it.         *)
(***************************************************************************)
EXTENDS ElementCompiler, ElementBuild

CONSTANTS
  None,
  Exports,       \* the exports to make: sequences of [source, inputs, raw]
  Arguments,     \* the values an input of a function may have, by its index
  Stale,         \* what a cell nobody has written yet may hold
  Memory         \* the cells given to the interpreter

VARIABLES
  functions,   \* the functions being exported, <<>> before the first
  phase,       \* what is done next
  st,          \* the state of the compiler's passes, or None
  consts,      \* the constants of the archive so far
  compiled,    \* the functions compiled so far
  image,       \* the archive, once there is one
  call,        \* the call in progress: def, args, pc, cmp, and the cells written
  stack        \* the interpreter's stack during a call

vars == <<functions, phase, st, consts, compiled, image, call, stack>>

Init ==
  /\ functions = <<>> /\ phase = "start" /\ st = None /\ consts = <<>>
  /\ compiled = <<>> /\ image = None /\ call = None /\ stack = <<>>

\* element_lmnt_find_constants, of all functions
Collect(fs) == UNION {ConstantsOf(fs[i].tree) : i \in DOMAIN fs}

\* element_interpreter_compile_declaration; what is raw is a tree already
Compiled(f) ==
  IF f.raw THEN f.source
  ELSE Build(f.source, <<[i \in 1 .. f.inputs |-> Input(0, i - 1)]>>, 1)

\* The constants come out of an unordered_map, in any order
Start ==
  /\ phase = "start"
  /\ \E fs \in Exports :
       /\ functions' = [i \in DOMAIN fs |->
            [source |-> fs[i].source, inputs |-> fs[i].inputs, tree |-> Compiled(fs[i])]]
       /\ \E order \in SetToSeqs(Collect(functions')) : consts' = order
  /\ phase' = "create"
  /\ UNCHANGED <<st, compiled, image, call, stack>>

Current == functions[Len(compiled) + 1]

\* A pass over the current function; an error ends the export
Pass(from, result, to) ==
  /\ phase = from
  /\ st' = result
  /\ phase' = IF Ok(result) THEN to ELSE "failed"
  /\ UNCHANGED <<functions, consts, compiled, image, call, stack>>

CreateRoot(s)  == LET c == Create(s, s.root) IN
                  IF Ok(c) THEN SetPinned(c, c.root, "output", 0, CountOf(c, c.root)) ELSE c

CreatePass   == Pass("create", CreateRoot(Begin(Current.tree, consts, Current.inputs)), "prepare")
PreparePass  == phase = "prepare" /\ Pass("prepare", Prepare(st, st.root), "allocate")
AllocatePass == phase = "allocate" /\ Pass("allocate", Allocate(st, st.root), "compile")
CompilePass  == phase = "compile" /\ Pass("compile", Compile(st, st.root), "compiled")

\* element_lmnt_compiled_function, the end of element_lmnt_compile_function
Finished(s) ==
  [code |-> s.code, back |-> s.back, inputs |-> s.inputs,
   outputs |-> CountOf(s, s.root), locals |-> MaxStackUsage(s)]

NextFunction ==
  /\ phase = "compiled"
  /\ compiled' = Append(compiled, Finished(st))
  /\ consts' = st.consts
  /\ st' = None
  /\ phase' = IF Len(compiled') = Len(functions) THEN "archive" ELSE "create"
  /\ UNCHANGED <<functions, image, call, stack>>

\* Mutant: the flags of the compiler are lost
DefOfUnflagged(f) ==
  [name |-> "f", flags |-> {}, code |-> f.code,
   checked |-> f.code, code0 |-> 0, stack_count |-> Wrap(f.inputs + f.outputs + f.locals),
   args_count |-> f.inputs, rvals_count |-> f.outputs, default_args_index |-> 0]

\* create_archive: no data sections; a def's flags are those of the compiler.
\* Bound: the archive is so small that the offsets of its code fit in 16 bits
DefOf(f) ==
  [name |-> "f", flags |-> IF f.back THEN {"HAS_BACKBRANCHES"} ELSE {}, code |-> f.code,
   checked |-> f.code, code0 |-> 0, stack_count |-> Wrap(f.inputs + f.outputs + f.locals),
   args_count |-> f.inputs, rvals_count |-> f.outputs, default_args_index |-> 0]

CreateArchive ==
  /\ phase = "archive"
  /\ image' = [base |-> 0, consts |-> consts, defs |-> [i \in DOMAIN compiled |-> DefOf(compiled[i])],
               stray |-> DefOf(compiled[1]), sections |-> <<>>, words |-> <<Zero>>]
  /\ phase' = "validate"
  /\ UNCHANGED <<functions, st, consts, compiled, call, stack>>

Validate ==
  /\ phase = "validate"
  /\ phase' = IF ArchiveOk(image, Total(image), Memory) THEN "ready" ELSE "rejected"
  /\ UNCHANGED <<functions, st, consts, compiled, image, call, stack>>

-----------------------------------------------------------------------------
(* Calls.                                                                  *)

Def1(d) == image.defs[d]
Frame(d) == ConstCount(image) + Def1(d).stack_count

Call(d, args, stale) ==
  /\ phase = "ready"
  /\ Len(args) = Def1(d).args_count
  /\ stack' = [c \in 0 .. Frame(d) - 1 |->
                 IF c - ConstCount(image) \in 0 .. Len(args) - 1
                 THEN args[c - ConstCount(image) + 1]
                 ELSE IF c < NConst(image) THEN image.consts[c + 1] ELSE stale]
  /\ call' = [def |-> d, args |-> args, pc |-> 0, cmp |-> {}, res |-> "OK",
              written |-> 0 .. ConstCount(image) + Len(args) - 1]
  /\ phase' = "run"
  /\ UNCHANGED <<functions, st, consts, compiled, image>>

Running == phase = "run" /\ call.res = "OK" /\ call.pc < Len(Def1(call.def).code)
Instr == Def1(call.def).code[call.pc + 1]

Step ==
  /\ Running
  /\ \E o \in Outcomes(image, <<>>, <<>>, Frame(call.def), Instr, stack, call.cmp) :
       /\ stack' = o.stack
       /\ call' = [call EXCEPT
            !.pc  = IF o.res = "BRANCHING" THEN Target(Instr) ELSE @ + 1,
            !.res = IF o.res = "BRANCHING" THEN "OK" ELSE o.res,
            !.cmp = NewFlags(Instr, stack, @),
            !.written = @ \cup Written(image, <<>>, <<>>, Frame(call.def), Instr, stack)]
  /\ UNCHANGED <<functions, phase, st, consts, compiled, image>>

\* The call returns; the host looks at the results
Return ==
  /\ phase = "run" /\ ~Running
  /\ phase' = "returned"
  /\ UNCHANGED <<functions, st, consts, compiled, image, call, stack>>

Again ==
  /\ phase = "returned"
  /\ phase' = "ready" /\ call' = None /\ stack' = <<>>
  /\ UNCHANGED <<functions, st, consts, compiled, image>>

Next ==
  \/ Start \/ CreatePass \/ PreparePass \/ AllocatePass \/ CompilePass \/ NextFunction
  \/ CreateArchive \/ Validate
  \/ phase = "ready" /\ \E d \in DefIds(image), stale \in Stale :
       \E args \in {a \in [1 .. Def1(d).args_count -> ArgValues] :
                      \A i \in DOMAIN a : a[i] \in Arguments[i]} : Call(d, args, stale)
  \/ Step \/ Return \/ Again

Spec == Init /\ [][Next]_vars

-----------------------------------------------------------------------------
Outputs == [i \in 1 .. Def1(call.def).rvals_count |->
              stack[ConstCount(image) + Def1(call.def).args_count + i - 1]]
Tree == functions[call.def].tree
Expected == Meaning(functions[call.def].source, <<call.args>>)

\* A finished call of a compiled function leaves in its results what its tree
\* means: the cells that instructions share, the code that is emitted once for
\* several uses, the branches and the loops lose no value
\* (element_lmnt_compile_function)
CompiledMeans ==
  phase = "returned" => call.res = "OK" /\ Outputs = Expected

\* The evaluator agrees with the tree's meaning, with its cache of values and
\* its stack of loop boundaries (element_evaluate)
EvaluatorMeans == phase = "returned" => Evaluate(Tree, call.args) = Expected

\* No instruction reads a cell that this call has not written: what an earlier
\* call left on the stack is never seen (lmnt_execute clears nothing)
ReadsWritten ==
  Running => ReadBy(image, <<>>, <<>>, Frame(call.def), Instr, stack) \subseteq call.written

\* Whatever the exporter writes is accepted by the validator of LMNT
\* (lmnt_archive_validate): operands, branch targets and HAS_BACKBRANCHES
ExportsValid == phase # "rejected"

\* The cells given out by the allocator: instructions of one function share a
\* cell only if one lies in the other's allocation, and a dependent lies
\* within its parent (naive_allocator::allocate, set_parent)
CellsOf(s, t, i) == Span(CellOf(s, t, i), s.alloc[t][i].count)
AllocRefs(s) == UNION {{t} \X DOMAIN s.alloc[t] : t \in DOMAIN s.alloc}
AllocationsSound ==
  phase = "compile" =>
    LET local == {p \in AllocRefs(st) : TopOf(st, p[1], p[2]).type = "local"}
        own == {p \in local : st.alloc[p[1]][p[2]].parent = <<>>}
    IN  /\ \A p, q \in own : p # q => CellsOf(st, p[1], p[2]) \cap CellsOf(st, q[1], q[2]) = {}
        /\ \A p \in AllocRefs(st) :
             LET up == st.alloc[p[1]][p[2]].parent IN
               up # <<>> => CellsOf(st, p[1], p[2]) \subseteq CellsOf(st, up[1], up[2])
=============================================================================
