# A TLA+ model of Element and LMNT

Element is a small functional language for geometry and mathematics. libelement (C++) reads it,
builds an object model, compiles a function of it to an instruction tree, and evaluates the tree or
compiles it to LMNT. LMNT (C) is a bytecode format with an interpreter that also runs in real-time
and embedded hosts. This directory models that path from the characters of a source text to the
cells of the interpreter's stack. TLC checks the models on small instances; TLAPS proves, for
every archive, text and program that meets the hypotheses named below, the central results about LMNT and its JIT's
registers, what the tokeniser makes of a text, who owns the scopes of an interpreter, and what its cached lookups find.

Contents: [inventory](#inventory), [modules](#modules), [state and actions](#state-and-actions),
[runs](#runs), [bounds](#bounds-and-why-they-are-enough), [fairness](#fairness), [proofs](#proofs),
[disagreements](#disagreements-between-code-and-texts), [not modelled](#what-is-not-modelled),
[plan](#plan).

## Inventory

Paths are under `src/`. *S* is state, *O* operations, *H* what is hard, *P* what makes the
component correct.

### libelement (C++, `libelement/src`)

* **Tokeniser** (`token.cpp`, `token_internal.cpp`). *S*: the text, an iterator, byte, line and column
  counters kept beside it, the tokens, the token being built. *O*: run, clear, text_on_line.
  *H*: positions are counted along three ways through the text (tokens, blanks, comments); wide
  characters; errors in the middle of a token. *P*: each token is the longest lexeme where it stands
  and says rightly where that is; nothing is lost or read twice.
* **Parser, validation, model builder** (`ast/parser_internal.cpp`, `object_model_builder.cpp`).
  *S*: the nodes being built, the current token. *O*: one function per rule. *H*: one token of
  lookahead and no way back, names checked after the parser has moved on, three passes that must
  visit every expression. *P*: exactly the grammar is accepted; the tree says what the text says;
  what loads is sound in every scope.
* **Scopes and caches** (`object_model/scope.cpp`, `scope_caches.cpp`). *S*: declarations by scope, past
  lookups by scope address. *O*: add, merge, remove, find, clear. *H*: a merge that stops half way,
  cached answers (negative ones too) that outlive their cause, reused addresses. *P*: a cached lookup
  is what a fresh one would find; what a host holds stays.
* **Interpreter API** (`interpreter.cpp`, `interpreter_internal.cpp`). *S*: global scope, Prelude flag,
  compilation contexts, the declaration `<REMOVE>` of an expression. *O*: load strings, files,
  packages, the Prelude; find; compile declarations and expressions. *H*: loads that fail part way and
  are tried again; clean-up on every way out. *P*: the Prelude is whole once it counts as loaded; no
  temporary is left; names mean what the language says.
* **Object model** (`object_model/`). *S*: capture stack, call stack, boundaries, function instances that
  carry captures. *O*: resolve a name, call, index, construct, the control intrinsics. *H*: captures
  swapped for the length of a call; errors on every way out; recursion found by counting frames;
  compile-time and run-time loops. *P*: lexical scope; stacks balanced; arguments of their types;
  compiling ends.
* **Instruction tree, evaluator** (`instruction_tree/`). *S*: per-evaluation cache, loop boundaries.
  *H*: a shared instruction in a loop is a new value every turn. *P*: the value of the tree.
* **LMNT compiler, exporter** (`lmnt/`). *S*: constants of the archive, allocations and contexts of a
  function, code. *O*: four passes over a tree, then export. *H*: cells shared by a result and what
  feeds it, code emitted once for several uses, constants added while compiling. *P*: compiled code
  computes the tree's value, reads only what it wrote, and validates.

### LMNT (C, `LMNT/`)

* **Archive and validator** (`src/validation.c`, `archive.c`, `helpers.h`). *S*: a header, strings, defs,
  code, data sections and constants in one memory area; flags `VALIDATED`, `USES_EXTCALLS`, `INPLACE`.
  *O*: init, append, validate, find def, bind externs. *H*: every operand is checked once, with its own
  span, and never again; 16-bit and unsigned arithmetic. *P*: a validated archive cannot leave its
  frame; code without `HAS_BACKBRANCHES` halts.
* **Interpreter** (`interpreter.c`, `dispatch_*.h`, `ops_*_impl.h`). *S*: `lmnt_ictx`: stack, current def,
  `cur_instr`, `cur_stack_count`, status flags; locals of `execute_function`. *O*: init, load (whole, in
  parts, in place), prepare, update args, execute, resume, interrupt. *H*: `lmnt_interrupt` comes from
  another thread or a handler while comparisons rewrite the same word; three loops with one
  contract; a call is suspended while the host does something else. *P*: program order; success
  means the end was reached; resumption loses nothing; constants are constant.
* **Extcalls** (`extcalls.c`, `ops_fncall_impl.h`). *S*: a table owned by the host, indices into it in the
  archive. *H*: the table is replaced under bound archives; binding stops half way. *P*: a call reaches
  a function of the right name and signature.
* **JIT** (`jit/`). *S*: while compiling, which cells of the stack the XMM registers hold, whether they are loaded and
  changed, and the code put out so far. *O*: compile, execute, delete; one template per opcode over acquire, flush, evict and
  notify. *H*: a cell can be in a register, in part of one, and on the stack; the next eight instructions decide which copy is
  kept; every branch and call must leave what the next code expects. *P*: registers and stack together hold what the
  interpreter's stack holds; the same results.

### Others

Element.NET and Result.NET (a second implementation in C#), Alchemist, Laboratory, Element.Unity,
libelement.CLI, element-vscode, ContentFiles, Language, Documentation: front ends, data and texts.
Listed in PROJECT.json, not modelled.

### How the parts interact

    text -> tokeniser -> parser -> object model builder -> scopes <- interpreter API <- host
                                                             |  find (cached)
                                                       object model: calls, captures
                                                             |  instruction tree
                                             evaluator <-----+-----> LMNT compiler, exporter
                                                 |                        |  archive
                                                 v                        v
                                               values    =     LMNT: validate, bind, execute
                                                                  ^          ^         ^
                                                     host thread -+  extcalls+   interrupter

All of libelement is sequential: calls and shared state (the global scope, the caches, the stacks of
a compilation context). LMNT has one more actor, whoever calls `lmnt_interrupt`.

## Modules

| module | models | uses |
|---|---|---|
| `ElementTokens` | the tokeniser, one iteration of its loop per step, and the lexical rules | |
| `ElementGrammar` | the grammar as data, and a recogniser: the reference for the parser | |
| `ElementParser` | the parser, `ast_node` validation, the object model builder | `ElementGrammar` |
| `ElementScope` | scopes, merging, lookup and its cache, on a heap of addresses | |
| `ElementInterpreter` | the C API: loading, finding, compiling, contexts | `ElementScope` |
| `ElementTree` | instruction trees, what they mean, the evaluator | `LmntOps` |
| `ElementBuild` | the simplifications of the intrinsics when trees are made | `ElementTree` |
| `ElementCalls` | expressions over an object model: captures, instances, calls, structs, loops | `ElementBuild` |
| `ElementLexical` | what a program means under lexical scope: the reference for `ElementCalls` | `ElementCalls` |
| `ElementCompiler` | the four passes from a tree to LMNT code | `ElementTree` |
| `ElementExport` | the exporter, the validator and the machine on what was exported | `ElementCompiler`, `ElementBuild`, `LmntOps` |
| `LmntArchive` | values, opcodes, the archive image, the whole of `validation.c` | |
| `LmntOps` | each `lmnt_op_*` as an operator on a stack; the cells it reads and writes | `LmntArchive` |
| `LmntMachine` | the abstract specification: what a call of LMNT promises | `LmntOps` |
| `LmntInterpreter` | `lmnt_ictx`, the host, the dispatch loops, the interrupter | `LmntOps`, instance of `LmntMachine` |
| `LmntRegisters` | the register cache of the JIT, and the loads and stores it puts out | `LmntOps` |
| `LmntTemplates` | what the JIT puts out for each opcode | `LmntRegisters` |
| `LmntJit` | compiling a def, calling the result, the machine it runs on, the interpreter beside it | `LmntTemplates` |
| `LmntOps_proofs` | proofs: one instruction keeps types, frames and constants | `LmntOps` |
| `LmntFrame_proofs` | proofs: binding, types, frames, constants | `LmntInterpreter`, `LmntOps_proofs` |
| `LmntProgress_proofs` | proofs: nothing runs twice, nothing is left out | `LmntFrame_proofs` |
| `LmntMachine_proofs` | proofs: a success is a completion, the interpreter implements `LmntMachine` | `LmntProgress_proofs` |
| `LmntJit_proofs` | proof: no cell is in two registers | `LmntJit` |
| `ElementTokens_proofs` | proofs: types and positions of tokens, longest match, nothing lost | `ElementTokens` |
| `ElementInterpreter_proofs` | proofs: ownership of scopes, clean-up, the Prelude | `ElementInterpreter` |
| `ElementLookup_proofs` | proofs: the cache of lookups, the host's handles, remembered verdicts | `ElementInterpreter_proofs` |
| `MCTokens`, `MCSyntax`, `MCScope`, `MCCalls`, `MCElement`, `MCLmnt`, `MCNumbers`, `MCJit` | instances for TLC | the module above each |

Compositions: `ElementInterpreter` drives `ElementScope`; `ElementCalls` builds with `ElementBuild` and its
trees are run by the evaluator of `ElementTree`; `ElementExport` goes from source expressions through
compiler, exporter and `ArchiveOk` of `LmntArchive` to the operations of `LmntOps`, which `LmntInterpreter`
runs and, beside machine code, `LmntJit` run too. Between the parser and the scopes the link is one bit (does this file parse), between scopes
and calls it is that types are given resolved.

## State and actions

### `ElementTokens`

`input`/`it` are the text and the iterator, `pos`, `line`, `character`, `lineStart`, `lineNumberToPos` the counters
of the context, `cur` is `cur_token`, `tokens` the vector, `called` what the host has done. `Run` and
`Clear` are API calls; while `Running`, one of `Punctuate`, `Name`, `Underscore`, `Number`, `Comment`, `Space`,
`EndOfLine`, `Invalid` is one turn of the loop, `EndOfInput` the code after it. A character stands for
its class in `token_internal.cpp`; `w` is a two-byte one, `malformed` a byte that is no UTF-8, on which the
UTF-8 iterator throws. The lexical rules (`IsLiteral`, `IsIdentifier`) are those of `Grammar.ebnf` and of the comments in
`token_internal.hpp`; `Departs` names the two places where the code does not follow them. Positions are bytes. `Throws(i)` is that exception, wherever the iterator meets it.

### `ElementGrammar`, `ElementParser`

The functions of the parser call each other; `todo` holds the calls still to make, `open` the nodes under
construction, innermost last, `text` the tokens read so far, of which the last is `current_token`. An action
runs one function up to its next call (`FunctionItem`, `Port`, `Arguments`, `Lambda`, ...). Tokens are chosen when
the parser advances, so TLC enumerates all continuations of each text and stops at the first error.
`Validate` is `validate_ast` over the finished tree, `BuildRootScope` the builder. Type annotations keep
their tokens; the expressions they could hide are not built by the code, so `LoadsTheSound` speaks of
trees whose types are names (`SimpleTypes`).

`Rules` in `ElementGrammar` translates `Language/Grammar.ebnf`. Where the parser differs, the departure has a name, and
`Rules(parsed)` reads those in `parsed` as the parser does and all others as they are written: `Looser` ones, where the
parser takes more, and `Stricter` ones, where it takes less. `AsWritten` says which are held against the parser: none in the run
`syntax`, all the looser ones in `v_grammar`. Two readings of the file are ours: `declaration` has no rule for the intrinsic
kinds, which are taken to be functions, structs and constraints; and the words the Reference Manual reserves (lines 43-53, 75-76)
are no identifiers, except `return` where a function's body declares it. It is a recogniser over data, with no relation to how
the parser goes about it. `BodiedIntrinsic` are the texts of which the builder asserts that they do not exist; `LoadsTheSound`
does not speak of them.

### `ElementScope`, `ElementInterpreter`

`heap` maps addresses to cells: a declaration and the scope it owns live and die together. An allocation takes one
of the lowest `Choice` unused addresses, so that a new scope reuses the address of a dead one at once, the case
the raw-pointer keys of `cache` and `intrinsics` are exposed to. `task` is the API call in progress: its phase,
the files still to load, the names still to resolve; `frames` are the scopes being built. `LoadString`, `LoadFiles`,
`LoadPackage`, `LoadPackages`, `LoadPrelude`, `SetParseOnly`, `FindDeclaration`, `CompileDeclaration`, `ContextCreate`,
`Simplify`, `ContextDelete` and `ExpressionCall` are API calls, or their beginnings; `NextFile`, `EndGroup`, `EndLoad`,
`BuildEnter`, `BuildLeave`, `BuildEnd`, `NewContext`, `LoadListFold`, `Boundary`, `CheckType`, `BuildExpression`, `Ready`,
`CompileStep`, `EndCompile`, `RemoveExpression` are the steps of those that take more than one. `handles` is what the host was given, `resolved` what the last step
resolved. `Careful` hosts set `parse_only` only where it makes sense (see the disagreements).

### `ElementCalls`, `ElementLexical`

The C++ call stack is `stack`, a sequence of handlers waiting for a value, and `task` the object being computed:
`StartChain`, `ResolveName`, `ResolveCall`, `Argument`, `MakeInstance`, `CallFunction`, `CallStruct`, `FillDefault`, `Refuse`,
`Enter`, `Return`, the `Index...` actions, `RunOperation`, `RunIf`, `RunList`, `RunFor`, `RunFold` and the steps of loops each
are a function of the object model up to its next call. `heap` holds the instances, for a call swaps the
captures of the instance with those of the context (`SwapBack` undoes it, on errors too). `captures`, `calls` and
`boundaries` are those of `compilation_context`. What ends in a null dereference is the error `crash` (`Crash`,
`CrashFor`, `CrashForBody`, `CrashOption`), so that it is visible and cannot be taken for a value.

`ElementLexical` is a denotational semantics: closures over environments, inputs with values, loops run to their
end. It shares with `ElementCalls` the program and the numbers, none of the stacks.

### `ElementTree`, `ElementBuild`, `ElementCompiler`, `ElementExport`

An instruction is identified with the term it stands for, because the instruction cache makes each of them once.
`Meaning` is the reference, `Evaluate` the evaluator with its cache and boundaries. The compiler's state is the record
`st` (allocations, contexts, constants, code); `Create`, `Prepare`, `Allocate`, `Compile` have one operator per kind of
instruction and pass, as `compiler.cpp` has. `ElementExport` makes each pass a step, collects the constants first,
creates the archive, has it validated by `ArchiveOk`, then `Call`s each function with all arguments and steps
through it with `Outcomes` of `LmntOps`, recording the cells written.

### `LmntInterpreter`

| variables | code |
|---|---|
| `image`, `size`, `aflags` | `ictx.archive`: contents, bytes loaded, flags |
| `defcode` | the `code` member of each def in memory: for an extern, an index into the table |
| `extcalls` | `ictx.extcalls` |
| `stack`, `stackCount`, `writable` | `ictx.stack`, `stack_count`, `writable_stack` (as an offset) |
| `curDef`, `curInstr`, `curStackCount`, `flags` | `cur_def`, `cur_instr`, `cur_stack_count`, `status_flags` |
| `at`, `instr`, `opres` | where `execute_function` is; its locals |
| `latch`, `irq` | `status_flags` as loaded into a register by `lmnt_op_cmp` / by `interrupt_function` |
| `result`, `prepared`, `suspended`, `laid` | the host: last result; what it was told; which defs it saw interrupted |
| `ran` | history: instructions run since `lmnt_execute` |

Host actions are one call each (`Reinit`, `LoadBegin`, `LoadInplace`, `LoadAppend`, `ExtcallsSet`, `Prepare`,
`UpdateArgs`, `Execute`, `Resume`), with every early return. `Execute` and `Resume` end where `execute_function` is
entered; from there each instruction and each test of the flags is a step (`Step`, `CmpStore`, `CheckGoto`,
`FetchEndGoto`, `EndCheck` for the computed goto; `CheckLoop`, `FetchEndLoop`, `BreakLoop` for the other two), so that
an interrupt can fall between any two of them. `Dispatch` selects the header that is built in. The switch and the
jump-table loops are the same here except for the result of an interrupted call (`BreakLoop`); the runs use the
computed goto and the switch.

`at` has the labels of `dispatch_computed_goto.h`: `check` is `dispatch:`, `fetch` is the body of
`GENERATE_DISPATCHOK`, `endcheck` the way out when it gives up, `stop` the way out of `dispatch:`. In the
computed-goto loop only the operations of `GENERATE_OP` come back to `check`; those of `GENERATE_OP_NOFAIL` go to the
next fetch (`FailingOps`). With `Torn = TRUE` the compiler's freedom is modelled: `status_flags` is a plain
word, so a comparison and an interrupt each load it and store it back, and either can be lost.

`LmntMachine` knows nothing of labels: a call has a program counter, executes one instruction atomically per step,
and returns OK at its end or at RETURN, the error of the instruction that failed, or INTERRUPTED when an interrupt
is pending. `Implements` states that `LmntInterpreter` implements it; the refinement mapping computes the abstract pc
from `instr`, `cur_instr` and the label (`MachinePc`), which is where the loops differ. Where an interrupted call
continues is left open there; `NoneSkipped` and `AtMostOnce` say it.

### `LmntRegisters`, `LmntTemplates`, `LmntJit`

`jit` is a `jit_compile_state` with the output of the current instruction and the variables `reg1` to `reg3`; an operator of `LmntRegisters` or `LmntTemplates`
takes one and returns the next, as the C functions and DynASM macros change it in place. `CompileNext` is one turn of the
compiler's loop: the label, then the template. `Call` is `lmnt_jit_execute` up to the jump into the code, `RunNext` runs the
code of one LMNT instruction (`Exec`, an external model of the machine instructions the templates use) and lets the
interpreter (`Outcomes` of `LmntOps`) run it beside, in `ref`. `kept` remembers the registers at each label, so that
`Coherent` can compare what the compiler believes with what the machine holds on every path.

The code generator has many ways to go wrong; they are listed under Disagreements. Each is recognised where it happens while
compiling (`EmitFaults`, `Blame`) and named in `jit.faults`, and a function with one of them is not called; or while
running (`Unknown`: *flags*, *context*, *conversion*, *unordered*, *order*), and the call is not followed any further. So the
properties say that these are all. The machine converts, compares and adds as the x86 instructions do (`Index`, `Locate`, `Lane1`,
`SumLanes`, with tables of their own for `cvttss2si` and `cvtss2si`), the interpreter as its C code does; *conversion*, *unordered* and
*order* are the places where the two come to different cells or values. None of the names is a condition on results: a name is the situation in the code
(two live copies of a cell when one is read, an operand whose register has been taken), and each occurs in the run.

### Abstractions

* `lmnt_value` is a finite set `Value`; arithmetic is a table `ALU`, comparison a table `Compare`, conversion to
  `size_t` a table `ToIndex`. The theorems hold for all tables of the right type. Conversion of a NaN or an
  infinity is undefined in C: any index. The evaluator's arithmetic is taken to be LMNT's, except where the
  disagreements say so.
* LMNT's validator and interpreter address the same def or code through integers of different widths, and the model
  keeps both: `DefAt` takes a byte offset, the validator takes its low 16 bits (`ExternOk`), the interpreter all of it. What
  lies at an offset where no def begins is one arbitrary def of the archive's (`stray`). A def has the code that runs (`code`) and the
  code at the low half of its offset, which is validated (`checked`); both are made of the modelled opcodes. An archive whose def
  segment the 16-bit walk cannot leave is `Endless`: `lmnt_prepare_archive` does not return, so the model has no step for it.
* Strings and the byte layout of other segments are left out. Data sections keep byte offsets,
  because the validator and the loads use different units. Constants, then the stack, follow the data segment in
  memory: a load past the segment reads them. Sizes are in cells; `SizeMod`, `OffsetMod`, `LOffsetMod` are 2^w of
  `size_t`, `lmnt_offset`, `lmnt_loffset`, and sums wrap where they do in C.
* An external function writes its results and nothing else and never calls back.
* The host of LMNT calls defs it got from `lmnt_find_def`, so `VALIDATED` must be set (`MayCall`). This is an assumption about
  the host: `lmnt_execute`, `lmnt_resume` and `lmnt_update_args` (`interpreter.c:197-245`) test nothing. Between the
  extremes, `Careful` hosts also wait for `lmnt_prepare_archive` to succeed and resume only what returned `LMNT_INTERRUPTED`; the
  others (run `goto`, and the theorems without the hypothesis `Careful`) resume what they like, after a failed preparation or
  `lmnt_extcalls_set` too, as long as the archive is flagged.
* Names, paths and texts are strings or tokens from small sets; messages, logging and source locations of
  declarations are left out. Positions of tokens are kept, for `Positions` is about them.

## Runs

Passing runs:

| run | instance | properties |
|---|---|---|
| `tokens` | every text of up to 3 characters over all classes, of 4 to 6 over those that make numbers, of 4 to 5 over those that make lines; two calls | `TypeOK`, `Positions`, `LongestMatch`, `NothingLost` |
| `syntax` | every text of up to 5 tokens over 17, and 3 to 5 more after each of 24 beginnings of declarations and expressions; `AsWritten = {}` | `TypeOK`, `AcceptsTheGrammar`, `TreeSpells`, `LoadsTheSound` |
| `scopes` | ten files that clash, fail to build, miss a type, do not parse or are not there; packages, a Prelude, four expressions; any three calls | `TypeOK`, `CacheAgrees`, `HandlesResolve`, `NoLeftover`, `PreludeWhole`, `VerdictsSound`, `ResolvesByTheRules` |
| `calls` | 278 programs: closures returned, handed over and applied elsewhere; structs; recursion; defaults; loops and folds, over constants and at run time | `TypeOK`, `LexicalScope`, `StacksRestored`, `ArgumentsMatch`, `Terminates` |
| `compile` | 200 exports of one or two functions: every kind of instruction, nested conditionals and loops, shared subtrees; called with every argument | `CompiledMeans`, `EvaluatorMeans`, `ReadsWritten`, `ExportsValid`, `AllocationsSound` |
| `goto` | computed-goto loop: every program of 1 or 2 instructions over 8 control instructions, those with a branch flagged and not; a counting loop, a forward branch, two branches that never leave each other, loads; archives too big for the area. Interrupts anywhere (`Torn = TRUE`), careless host, fairness | `TypeOK`, `AtMostOnce`, `OkMeansFinished`, `Implements`, `Terminates`, `InterruptStops` |
| `switch` | switch loop: the same; six archives with extern and interface defs, loaded and reloaded under three extcall tables; and one instruction of each of 23 kinds with operands from {0, 3, 4, 7}, around the frame 0..6 whose first two cells are constants, an extcall of four signatures among them; interrupts between instructions (`Torn = FALSE`), careful host | `NoneSkipped`, `ExternsBound`, `FrameInv`, `Implements`, `FrameSafe`, `ConstantsKept` |
| `jit` | functions the validator accepts: up to 3 of 21 scalar, control and call instructions, up to 3 of 24 over vectors and their lanes, up to 4 of 7 mixed; each with and without SSE4.1, on three cache registers, one of them not volatile; called with two arguments and with too small a buffer | `RegCacheValid`, `Coherent`, `JitAgrees` |

Runs that show a disagreement:

| run | instance | violated |
|---|---|---|
| `v_resume` | straight-line code in the switch loop, a host that resumes as often as it takes | `ResumeFinishes` |
| `v_shared` | one function: a subexpression in a conditional's option and outside it | `ReadsWritten` |
| `v_constants` | two functions; the second needs constants of its own | `CompiledMeans` |
| `v_grammar` | one text that needs each of the five looser departures (`LibertiesAllNeeded`, an ASSUME of `MCSyntax`) | `AcceptsTheGrammar` |

Smaller disagreements have a configuration beside these; `tlc -config <file> <module>` finds the property violated:

| configuration | module | violated | what it shows |
|---|---|---|---|
| `lmnt_v_code.cfg` | `MCLmnt` | `FrameSafe` | code at a 32-bit offset runs, the code at its low 16 bits is validated (`validation.c:74`) |
| `lmnt_v_extcall.cfg` | `MCLmnt` | `FrameSafe` | the same of the def that an EXTCALL names (`validation.c:130`) |
| `lmnt_v_jumptable.cfg` | `MCLmnt` | `OkMeansFinished` | an interrupted call of the jump-table loop succeeds |
| `lmnt_v_index.cfg` | `MCLmnt` | `IndexReads` | INDEXRIS of a negative index, interpreter against `Instructions.md` |
| `lmnt_v_jitindex.cfg` | `MCJit` | `TruncatesIndex` | the JIT rounds a fractional index, the interpreter truncates it |
| `element_v_literal.cfg` | `MCTokens` | `LiteralIsNumber` | `0.e0` is three tokens |
| `element_v_point.cfg` | `MCTokens` | `LiteralAccepted` | `0.` is refused |
| `element_v_identifier.cfg` | `MCTokens` | `NamesAreIdentifiers` | `__` is a name |
| `element_v_struct.cfg`, `element_v_constraint.cfg`, `element_v_block.cfg` | `MCSyntax` | `AcceptsTheGrammar` | a struct or a constraint without ports and an empty block are refused |
| `element_v_assert.cfg` | `MCSyntax` | `IntrinsicsHaveNoBody` | `intrinsic add(x) = 1` comes to the builder that asserts it cannot |

What the passing runs show:

* `Positions`: line, column and byte of every token are right whatever comments, blanks and wide characters came
  before, and `text_on_line` shows each non-empty line as written. `LongestMatch`, `NothingLost`: the tokens and what
  lies between them are the text, each is the longest lexeme where it stands, and a text is refused only where no
  lexeme goes on; both except where `Departs` says that the code does not follow the written rules, and for the reasons under Disagreements.
* `AcceptsTheGrammar`: but for the named departures, what the parser accepts is a program of the written grammar, and it gives up
  only on a text that no continuation could save, although it never looks further than one token. `TreeSpells`: the tree written out
  again is the text. `LoadsTheSound`: between them the passes find every repeated name, every missing default, every
  `return` amiss and every unknown intrinsic in every scope, those inside arguments, defaults and blocks included, and
  nothing else, in texts whose intrinsic functions have no body.
* `CacheAgrees`: between calls nothing in the cache differs from a fresh lookup. `ResolvesByTheRules`: nor does it during
  one. `HandlesResolve`: a failed load never takes from the host what it holds, although merging stops half way.
  `PreludeWhole`: once counted as loaded the Prelude is complete, and its own. `NoLeftover`, `VerdictsSound`: no temporary
  outlives its call; a remembered "valid" stays true.
* `LexicalScope`: compiling by two stacks and swapped captures computes what closures over environments mean, for all
  inputs; what means nothing does not compile. `StacksRestored`: every way out of a call undoes what the way in did.
  `ArgumentsMatch`: a body only ever runs with arguments of its ports' types, up to the first port without one.
  `Terminates`: the two limits are enough to end every compilation.
* `CompiledMeans`: exported code, run on stale stacks, leaves what the source means. `ReadsWritten`: it reads no cell that an
  earlier call, rather than this one, has written. `AllocationsSound`: the four passes agree about who lies in whose cells.
  `ExportsValid`: LMNT's validator accepts what the exporter writes. `EvaluatorMeans`: evaluator and machine agree.
* `AtMostOnce`, `Terminates` (of `goto`): the validator's comparison of every branch with its own position does bound
  running time; interruption and resumption do not break that. `NoneSkipped`: with the switch loop, a call that is
  interrupted and resumed has skipped nothing (it may repeat an instruction, see below). `ExternsBound`: no sequence of
  loads, tables and preparations leaves a prepared, validated archive with an index to a function of another name or
  signature. `FrameSafe`, `ConstantsKept`: the static checks are enough, opcode by opcode. `FrameInv` is the inductive
  invariant of the proofs. `InterruptStops`: a pending interrupt stops any call of the goto loop, infinite
  loops included; it excludes `at = "cmp"`, for an interrupt inside the rewrite of a comparison is lost, as the mechanism
  allows, although `interpreter.h:125` describes the call as a single pointer write. `OkMeansFinished` and `Terminates` hold
  with such losses.
* `RegCacheValid`: no cell of the stack is in two registers and an empty register has no flags, the assertions `validateRegCache`
  makes in debug builds, while a function is compiled and afterwards, whatever operands overlap. `Coherent`: at every label and
  between any two instructions, on every path, a loaded register holds the interpreter's value of its cells, the stack holds that
  of every cell no register has changed, and control is where the interpreter's is. `JitAgrees`: the call returns the interpreter's results or its error. Of the 47 836 compilations in the run,
  26 350 meet none of the named situations, and both hold of all of these. Of the others, each name is the only one of some function,
  except the five that are found at run time.

## Bounds, and why they are enough

* **Texts** (`Texts`, `Calls`, `Fresh`). The tokeniser keeps no more state across characters than the token it is in and its
  counters; three characters of any class give every pair of tokens with something between, six are the longest number with
  each of its parts, five give several lines with a comment and a wide character. `Fresh` hosts use a tokeniser as
  libelement does, once, and clear it only after success.
* **Beginnings** of the parser. A short text reaches little of the grammar, so each construct gets the text that leads into it,
  and then every continuation. Three to five tokens are what each decision of the parser spans, plus one.
* **Calls of the API** (`Calls` = 3). Each hazard listed takes two calls (fail, retry; find, load; compile, reuse) and a
  third to see the damage. `Choice` = 1 makes each allocation reuse the lowest address.
* **Programs.** `Limit` = 2 for 100 frames and `MaxTurns` = 5 for 10000 turns: the programs reach both. Programs of the
  run are restricted where the disagreements below say what the code does instead: arguments of `for` are of the right
  kinds, and functions that are called again from within end in an error.
* **Trees.** Numbers are -1 to 3, saturating, and a NaN, so that each side of every test, each index of a selection and one
  beyond it is there. Inputs are a Num from {0, 2, -1} and a Bool. Cells nobody has written hold the NaN. The trees of the
  passing run leave out what is listed below as a disagreement: sharing out of a conditional (`Tame`), negative selectors of
  constant lists, division by constants, `rem` of negatives.
* **LMNT.** `Images` (all programs over an alphabet), `Reloads` (what may be loaded after what), `ExtTables`, `Chunks` (an archive
  arrives whole or in two parts), `UpdateArgs` offsets {0, 1, Memory}. Two instructions suffice for each pairing of an
  instruction with the way in, the next fetch, a branch to either, itself or the end, and an interrupt between; the
  longer programs add nested cases. Operands are a constant, the last cell a span of 4 can begin at, the next one, and the first
  cell beyond the frame. `size_t` is modulo 64 so that a negative index wraps beyond the frame.
  The operands of `switch` exclude INDEXRIS with an offset of 0, and `ConstantsKept` excludes INDEXRIR (see below).

* **JIT.** Three registers for the cache (14 in the code, 16 xmm), so that three operands already compete and importance decides;
  the last one survives calls, as xmm6 to xmm15 do on Windows. Three instructions put one between the instruction that fills a
  register and the one that uses it; the mixed programs have four. Cells are chosen so that operands are equal, disjoint,
  a lane of each other, and unaligned. Among the values are a fraction and -1, on which the conversions differ, and a
  NaN. Arithmetic is modulo 7 with different coefficients for the two operands and each
  operation, so that an exchange shows; a function is called once, for it keeps nothing between calls.

CHECK_DEADLOCK is left on in every run: the API models rest in `Rest`, the others in a final stuttering step.

## Fairness

`goto` uses `FairSpec`: weak fairness of the executing thread (`lmnt_execute` is a running thread; extcalls return) and of
`InterruptStore` (a thread that has loaded a word stores it). The host is free to stop. `v_resume` uses `PatientSpec`,
which adds strong fairness of resuming def 1, the host the documentation of `lmnt_resume` addresses, to show that even it
never gets an answer. `calls` has weak fairness of `Next`: compiling is one sequential call, which goes on while it can. All
other runs check safety and state no fairness.

## Proofs

`tlapm` checks eight modules of proofs. The assumptions on constants are those named in the modules they are about
(`ValueAssumption`, `OpsAssumption`, `InterpreterAssumption`, `TokensAssumption`, `AddrAssumption`, `NamesAssumption`,
`SourcesAssumption`, `DeclarationsAssumption`): types of the constants; the memory area is at least 16 cells and smaller than the address space; extcalls do not
return the interpreter's own codes; null is no address and addresses are finitely many; the order of the map of declarations has each
name once; no source declares or names as a type `<REMOVE>`, which is no identifier; the sources are records of the shape the parser makes, and
no path is empty; what the host names is there to be tried. What else a theorem supposes
stands in its ASSUME:

| hypothesis | why the code justifies it | theorems |
|---|---|---|
| `Careful` | the host waits for `lmnt_prepare_archive` and resumes only what returned `LMNT_INTERRUPTED` (`interpreter.h`) | `FramesKept`, `TypeCorrectness`, `FrameSafety`, `ConstantsStay`, `LeavesNothingOut`, `LoopsImplement` |
| `Dispatch = "goto"` or `# "jumptable"` | the loop that is built in; the other loops differ in just this (see the disagreements) | `SuccessIsCompletion`, `RunsAtMostOnce`, `LoopsImplement` |
| `Careful` (of `ElementInterpreter`) | a Prelude loaded with `parse_only` on counts as loaded and is empty (see the disagreements) | `PreludeIsWhole` |
| `CodeFits` | `instructions` of a def is counted by a `lmnt_loffset` | `RunsAtMostOnce`, `LoopsImplement` |
| `OffsetsNear` | not ensured by validation: the validator sees 16 bits of the offsets of code (`validation.c:74`) and of called defs (`:130`), and of the number of constants (`helpers.h:78`). Archives have code that is validated as it runs, EXTCALLs of their own defs, and fewer than 2^16 constants. The exporter writes such archives | `FramesKept`, `TypeCorrectness`, `FrameSafety`, `ConstantsStay`, `RunsAtMostOnce`, `LeavesNothingOut`, `LoopsImplement` |
| an EXTCALL's offset is below 2^16 and names a def | the same, of one instruction | `OperandsInFrame` |
| `OffsetsFit`, `IndexesApart` | not ensured by validation: 16-bit sums at `validation.c:137`, INDEXRIS of offset 0 | `FrameSafety` |

### The interpreter of LMNT

* `SuccessIsCompletion` (`OkMeansFinished`, goto and switch loops, any host, torn flags too). `LoopInv` records what is
  known at each label: from `endcheck`, the end of the code or a pending interrupt; from `stop`, a failed result or a
  pending interrupt; in the goto loop a branch never stays in `opresult`.
* `ExternsStayBound` (`ExternsBound`, any host). `BindInv` adds the types of the table and of `defcode`; `FindIndexMatches`
  needs the least matching index.
* `FramesKept`, `TypeCorrectness`, `FrameSafety` (`FrameInv`, `TypeOK`, `FrameSafe`). The invariant says: the
  stack in the context is that of the loaded archive once it is laid out; `VALIDATED` implies a stack laid out and a
  successful check; what `lmnt_load_archive` accepted leaves room; a suspended def keeps its frame; a running one is a
  validated def in its own frame. Without the clause on suspended defs `lmnt_resume` could run a def in another's frame;
  without the clause on room, `StackCount` could wrap (an in-place archive does not have it, and never prepares). One lemma
  per action follows, and two about one instruction: `OutcomesType` (a stack of values stays one) and `OperandsInFrame`
  (validated operands are in the frame), each by a case per kind of opcode.
* `ConstantsStay` (`ConstantsKept`, an action property). `SameConstants` goes through the same cases of opcodes: a
  validated instruction other than INDEXRIR writes above the constants, since `validate_operand_stack_write` tests just that;
  then through the actions that touch the stack, with `FrameInv` for the place of the constants.
* `RunsAtMostOnce` (`AtMostOnce`, goto loop, any host). `ValidInv`: the loop is only entered with code the validator accepted. `OnceInv`:
  without `HAS_BACKBRANCHES` everything that has run lies before the next instruction, or an interrupt is pending, which in this loop
  nothing clears between calls and so lets nothing run; the exception is a comparison half done, which can lose it. That is why `at = "cmp"`
  has a clause of its own.
* `LeavesNothingOut` (`NoneSkipped`, all loops). `SkipInv`: between calls `cur_instr` is not past the first instruction that has not run,
  except in the goto loop, whose `cur_instr` is one too far when it is stopped between two, and which still holds the interrupt then.
* `LoopsImplement` (`Implements`, goto and switch loops, torn flags too). Each step of the interpreter, its host and the interrupter maps to a
  step of `LmntMachine` or a stutter, under `MachineInv`: `FrameInv`, `LoopInv`, and `ResultInv`, which ties `opresult` to the label and
  says that a comparison that loaded the flags can lose an interrupt but not make one up.

### The registers of the JIT

* `CellsHeldOnce` (`RegCacheValid`, for every program, any number of registers, with and without SSE4.1, overlapping operands included).
  `CacheInv` says of the state of the compiler that registers are apart and clear. One lemma per operator of `LmntRegisters`
  (flush, evict, load, update, acquire) shows that it keeps this, the crux being `WriteAndEvict`: what overlaps the new operand is written
  and evicted before a register takes the operand. One lemma per template carries it through every opcode.

### The tokeniser

* `TokenTypes` (`TypeOK`, every text, every host). `it` stays within the text and every counter natural.
* `TokensSayWhere` (`Positions`, every text). `PositionInv`: `Counted`, byte, line and column are functions of where the iterator is;
  `TokensPlaced`, each token has them of the character it began at; `LinesKnown`, each line's start is the byte after the last end of line;
  `Passed`, no malformed byte is behind the iterator; `Session`, what a context that is run once has. The text is measured by `Span`,
  whose additivity (`SpanSplit`) replaces the code's three ways of counting, and `TextOnLine` follows from the
  starts of two lines being strictly apart (`SpanApart`).
* `TokensAreLongest` (`LongestMatch`) and `NothingIsLost` (`NothingLost`), every text of every class, for a context that is run once.
  Neither is inductive: both speak of a run that is over. `TextInv` says of a run that is not what it has done up to its iterator:
  `TokensMade`, each token covers, in bytes, a longest lexeme of its type; `InOrder`, each ends where or before the next begins; `Covered`,
  every character behind the iterator is blank, in a comment or in a token; `Outside`, the iterator is in no comment unless it is at the end of the
  comment's line; and a result that is an error was earned by what stands at the iterator. The lexical rules are stated over sequences, of which the
  prover can count little, so `LexemePiece` restates each over positions of the text (`LexemeAt`). What remains is arithmetic: a number is
  longest by where its mantissa, fraction and exponent can end (`MantissaEnds`, `FractionEnds`, `ExponentEnds`), the others by
  their first character that does not belong. One lemma per action (`*Reads`) says where the run takes a lexeme, passes blanks or gives up.
  TLC has checked `TextInv` on the instance of `tokens` as well. A context that is run again is left out by the properties, for the half-built token of an
  error is then pushed (see *Disagreements*).

### The scopes

`Inv` of `ElementInterpreter_proofs` is inductive; TLC has checked it, `PreludeInv` and `[][Stays(heap, heap')]_vars` on the instance of
`scopes` as well. It has five parts besides the types of three variables.

* `HeapInv`: the heap is a `Forest` (what a scope declares lives, lies in it and has the name it is declared under), and the scopes
  that nothing declares, `Apart`, are exactly the global one, the contexts of the host and of the call, and those being built. `TypeOK`
  alone is not inductive: it does not say that a scope being built is nobody's declaration, without which finishing it would give it two owners.
* `StackInv`: the scopes being built are distinct, none is global, and each lies in the one before it; without this, a declaration that
  fails to build could take another scope on the stack with it.
* `BaseInv`: the outermost scope being built declares what its source has up to where building has got, under names of its source only, so
  that what is merged is what was written, and is never `<REMOVE>`.
* `TempInv`: only a call that compiles an expression has a `<REMOVE>`. `CallInv`: which calls are in which phases, with which contexts.

Theorems: `ScopesOwnTheirDeclarations` (`TypeOK`), `NothingLeftOver` (`NoLeftover`), `GlobalsStay` (an action property no run lists: a
declaration in the global scope keeps its address and its source through every step, failed merges included) and, from that and
`PreludeInv`, `PreludeIsWhole` (`PreludeWhole`). `PreludeInv` says what a load of the Prelude has tried so far is there unless an error is
recorded, which is why nothing may take it away while the other files are loaded.

The proofs treat each operation on the heap once (`AllocateIs`, `AddIs`, `DestroyIs`, `RemoveIs`, `MergeIs`, `MarkIs`): what it keeps of a
`Forest`, and what of `Apart`. `Destroy` removes all that lies in a scope, an iteration with as many turns as there are scopes; `LyingIs` shows
that the recursive function exists and collects the ends of paths inwards, `EndsGrow` that it has stopped growing by then, `WithinIs` that
the result is closed: what lies in something destroyed is destroyed. `MergedIs` covers a merge that stops half way: what was not moved goes down with
the scope it came from, what was moved does not.

### Lookups

`TheCacheAgrees` (`CacheAgrees`), `HandlesGoOnResolving` (`HandlesResolve`) and `VerdictsStaySound` (`VerdictsSound`), for all sources, hosts and any
reuse of addresses. `LookInv` of `ElementLookup_proofs` is inductive beside `Inv`. `Look` has the three properties at every step, between calls and
within them, in the form that is inductive:

* `Good`: the chain of parents of each live scope ends (`Grounded`; a forest of owners may still have a cycle), what is declared has a source of the parser's making, no scope
  but the global one declares `<REMOVE>`, and a declaration with the verdict "valid" lies in the global scope and has its types found there.
* the cache is *sound* for the scopes of the program, those within the global one (`Settled`). It says nothing of scopes still being built or just
  destroyed: building looks names up in them, and that leaves entries that are wrong as soon as the scope is filled or its address
  reused. What makes this harmless is when the cache is marked for clearing: a scope joins the program only by a merge, and whoever has
  built something to merge has marked it (`MarkedFit`). So `CacheAgrees` between calls, when all that lives is in the program (`AllSettled`), is a
  consequence and not the invariant.
* `Held`: what the host holds is what its path names, where the path is of identifiers; `<REMOVE>` could shadow nothing else.

`TaskFit` says of the call in progress that what it is to compile are declarations of the program, none of a scope that is gone, and that while
`list_fold` is merged into a context no verdict depends on what the context declares (`Untried`). `FramesFit` is about the sources of scopes being built.

The lemmas are in three layers. Lookup: a fold over a path is the last of a sequence of values (`FoldValues`), a climb along parents exists and obeys its
equation on a grounded heap (`ClimbExists`, `OutwardsIs`), so that `Named` depends only on what the scopes it passes declare (`NamedKept`, `NamedSame`), and
`Find`, started with a sound cache, returns what `Named` says and a sound cache, in each of its two kinds of search (`FindIs`). Changes: most are `Quiet`,
they leave the scopes of the program as they are, destroying a context among them; adding, merging and removing are not, and each keeps the
names of identifiers that already had a meaning (`Kept`). Steps: one lemma per action.

Where an argument is inductive over numbers it takes the least counterexample (`HasLeast`), since the library's induction theorems
cannot be instantiated here.

### Only model-checked

* Liveness (`Terminates`, `InterruptStops`, `Terminates` of `calls`) stays with TLC.
* `ElementBuild`, `ElementCalls`, `ElementLexical`, `ElementCompiler`, `ElementExport`, `ElementTree`, `ElementGrammar` and `ElementParser`
  take nested data apart with RECURSIVE operators, which the prover cannot use, and what those compute for every input needs
  induction over data, which it cannot do either.
* `Coherent` and `JitAgrees`: the
  faults that they except are found by inspecting code and run together, a proof about each template would be needed.
* `ResolvesByTheRules`: it holds of the sources of the run, not of all. A lookup that went outwards leaves an answer in each scope it passed, and
  a later search of that scope alone takes it, so that a member that is not there is found further out (see *Disagreements*).

## Disagreements between code and texts

With a run (details in PROJECT.json, `findings`; further configurations are listed under [runs](#runs)):

* LMNT: a resumed call never finishes, as nothing clears the interrupted flag, and in the switch loop it repeats an
  instruction each time (`v_resume`).
* Compiler: a subtree first compiled in one option of a conditional and then used unconditionally is skipped
  (`v_shared`, `compiler.cpp:1384`); constants added while the second function is compiled move the inputs of the first
  (`v_constants`, `exporter.cpp:166`).
* Parser: a namespace without its brace, a comma after the last declaration of a block, an intrinsic function with a body or
  without the word `function`, an intrinsic constraint with ports and a type are all accepted (`v_grammar`, against
  `Language/Grammar.ebnf:13`, `:26`, `:32`, `:34`), and of the intrinsic with a body the builder asserts that it does not exist
  (`object_model_builder.cpp:244`, `:255`): a debug build stops there.

Without a run of their own; the models do what the code does, and the instances or the properties leave the case out:

* **LMNT.** The jump-table loop reports an interrupted call as success (`dispatch_jumptable.h:129`, against
  `doc/ExecutionModel.md:70`). The switch loop cannot interrupt a cycle of taken branches. An in-place archive never
  prepares. INDEXRIS with offset 0 can write one cell past the frame; INDEXRIR can write a constant. The validator adds bytes and
  values for data sections. An interrupt during a comparison can be lost. `execute()` has early returns that leave `cur_def`
  set, so `lmnt_resume` would run a def that was never started. The goto loop moves `cur_instr` back by one on each
  resumption that is at once interrupted. 16-bit sums wrap in `validation.c:51` and `:137`; the offsets of code and of called
  defs are cut to 16 bits where they are validated and not where they are used (`validation.c:74`, `:130`; `lmnt_v_code.cfg`,
  `lmnt_v_extcall.cfg`), constants are counted in 16 bits in one place and in `size_t` in another (`helpers.h:78`), and the walk over
  64 KB of defs starts again at the first (`validation.c:415`). `value_to_size_t` is one low for
  negative integers and is applied to NaN by DLOADIRS and DLOADIRV.
* **JIT** (`jit-x86_64.dasc` unless said otherwise; in brackets the name of the fault). `doc/Instructions.md:26` allows input and
  output locations to be aliased, but `maths2`, `mathv2` and MINVS/MAXVS put the first operand into the register of the result before
  they read the second, which may be the same (*aliased*). Acquiring an operand can take the register of the result or of the
  other operand (*reassigned*), or flush a result not yet written (*unwritten*); a store for a result without a register leaves
  an overlapping register as it was (*shadowed*; `jithelpers.h:283` has a TODO about it), a load reads below one (*stale*), and a scalar load into
  the register of a vector clears its other lanes (*lanes*). `mathv2` reads a first operand without a register by `movss` (*scalar read*),
  DLOADIRV writes one lane of a result without one (*one lane*), DLOADIR* does not load an index that is cached elsewhere
  (*unloaded*), ABS* loads its mask over such a result (*masked*), REM* reads its dividend from the stack again and uses another
  scratch register than it stores from (*stale*, *lost*), INDEXRIR adds its offset to both indices (*offset*). A conditional assignment acquires each
  operand on one side of its jump only (*one side*). RETURN leaves results in registers (*unsaved*) and runs the stores
  of the end for registers that are filled only later (*late store*), although `doc/JIT.md` counts on the end result being accurate. EFLAGS
  do not survive calls and index operations, while the interpreter's flags do (*flags*); indices are compared with the context through `rArg1`,
  which calls overwrite (*context*). INDEXRIS and INDEXRIR round a fractional index (`cvtss2si`, line 885) where the interpreter and
  `doc/Instructions.md` truncate, and add in 32 bits, so that -1.0 and an offset of 1 are cell 0 there and 2^64 - 1 in the interpreter
  (*conversion*, `lmnt_v_jitindex.cfg`); `minss` and `maxss` return the second operand when one is NaN, where the interpreter's result
  differs (*unordered*; `Instructions.md` leaves the result undefined); SUMV adds in another order (*order*, line 711). Not in the model: more than 32
  branches overrun `branch_targets`. `lmnt_jit_execute` returns early with
  `cur_def` set, like `execute()`.
* **Compiler.** Sequential loops that share their condition have the fault of `v_shared`. A `for` whose body is a pinned input or
  constant gets its initial value copied into it. The allocation of an indexer is placed relative to the leaf rather than to
  what it indexes (near `compiler.cpp:1005`). A selection among contiguous constants becomes INDEXRIS, and a
  negative selector an access violation. `not` of a negative number, `rem`, logarithms of base 0 and predicates that are NaN differ
  between evaluator and LMNT; the evaluator evaluates the initial value again with an extra boundary (`evaluator.cpp:327`);
  `optimise_binary` folds x/0, x-x, x rem x and x/x without regard to NaN; `element::evaluate` folds loops without a limit.
* **Calls.** A struct that a run-time loop returns has fields numbered by name while they lie as declared
  (`struct_instance.hpp:69`). Defaults are compiled with the captures of the caller. A missing argument before the first default
  is a null default (`function_instance.cpp:97`). A call of an instance from within itself runs with the caller's captures
  (`function_instance.cpp:149`), and `index_type` calls the functions of a struct with the indexer's (`object_internal.cpp:144`).
  An error in the predicate of a compile-time loop ends the loop with its current value (`intrinsic_for.cpp:30`).
  `valid_call` stops at the first untyped input, so `for(x, 1, 2)` dereferences null, and a predicate of two arguments reads a loop
  input that does not exist. `user_function_constraint` accepts a function for a struct type with the same ports. A list
  whose options all fail, and a run-time `for` from a choice of structs, dereference null; nothing relates the type of a run-time
  loop's initial value to its body. An erroneous default that is not used is no error. `capture_stack.cpp` says it "can never
  contain more frames than the callstack", which closures refute. The Reference Manual disallows recursion (line 342); the code
  allows it up to 100 frames. A run-time fold always fails, for its block has no instruction.
* **Scopes and API.** `intrinsic_map` is keyed by addresses and never erased. A declaration that fails to build leaves cache entries for a
  dead scope: when a function with a `return` fails and the next one, an empty `f() {}`, gets its address, the check for a return
  (`object_model_builder.cpp:247`) is answered by the dead one's, and the function is accepted with a body that is gone. `validate_ports` remembers a negative verdict for ever. `load_packages` never reports a failure (`interpreter.h:139`
  promises `ELEMENT_ERROR_DIRECTORY_NOT_FOUND`); a Prelude that failed can never be loaded again; with `parse_only` an empty Prelude counts
  as loaded. `compile_declaration` returns OK with no instruction when compiling fails; an empty expression dereferences null.
  The order of files in a package is the file system's, and a merge that meets a duplicate keeps what it has moved.
  A lookup remembered for one kind of search answers the other kind, so that a parameter named like its type is taken
  for the type (against `ReferenceManual.md:193`). `total_boundary_size_at_index` assigns where it should add.
* **Tokeniser.** `1.` with no digit after it is an error (`token_internal.cpp:251`), although `Grammar.ebnf:2` and `token_internal.hpp:23`
  have `'.' [0-9]*` (`element_v_point.cfg`); `0.e0` is three tokens (`token_internal.cpp:248`, `element_v_literal.cfg`); `1e` is an error; `__` is
  an identifier (`token_internal.cpp:137`, against `token_internal.hpp:26` and `Grammar.ebnf:4`, `element_v_identifier.cfg`; `ElementReferenceManual.md:43`
  has another rule again); `_` at the end of a text throws, although
  `test/tokeniser.test.cpp` runs "_" and requires an underscore. An error leaves the token half built, and the next `clear` or `run`
  pushes it; `clear` keeps the positions of lines. Columns count bytes. `text_on_line` of an empty line shows the next one as well.
  The identifiers of the grammar begin at U+0080, those of the code at U+00F0; no character between them is in the alphabet of
  the run. `_1` is an underscore and a number, as the production of `Grammar.ebnf:4` has it, although the comment in line 3 would have it a name.
* **Parser.** `{}` cannot be an expression (`parser_internal.cpp:355`, against `Grammar.ebnf:13`, `element_v_block.cfg`); a struct needs ports
  (`:429`, against `Grammar.ebnf:28`, while the Reference Manual, lines 57-59, has them; `element_v_struct.cfg`), and so does a constraint (`:461`,
  against `Grammar.ebnf:31`, `element_v_constraint.cfg`); an intrinsic function with a body is not looked up; two `_` ports are a multiple definition; `return` is reserved except directly
  in functions and lambdas; a namespace in a struct may have the struct's name, other members may not; lambdas are not
  checked for the order of defaults or for repeated parameters; the type of a call is flattened to a name with empty parts.
  `element_parser_build_ast` drops the result of `ast_build`, and a second `ast_build` starts at the old token.

## What is not modelled

* Of the JIT: the ARMv7-M back end (a second set of templates over the same helpers), interruption of compiled code
  (`is_interruptible`), DynASM's linking and encoding, statistics, and what is listed above as not in the model.
* Strings and segment offsets of the archive file (parsed in sequence, with no state of their own); teardown.
* In libelement: accessors that change nothing, logging, the directory walk, the C wrappers around finished objects;
  namespaces as values and concatenation of lists in `ElementCalls` (lookup in namespaces is in `ElementInterpreter`).
* Wrapping of 16-bit stack indices in the compiler: no instance comes near 65536 cells.
* Words of `status_flags` torn other than as whole words: it is an aligned word.
* Element.NET, Result.NET, the front ends, packages, texts and test programs.

## Plan

1. Registers: that eviction stores every changed lane, the part of `Coherent` that does not depend on templates.
2. Scopes: `ResolvesByTheRules` for sources whose types and members have no name in common, with what a lookup may find in each scope it passes.
3. JIT: the ARMv7-M templates over the same register operators.
