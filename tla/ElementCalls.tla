----------------------------- MODULE ElementCalls -----------------------------
(***************************************************************************)
(* How libelement compiles expressions over an object model: identifiers   *)
(* are looked up in the stack of captures, functions are instances that    *)
(* carry the captures of the place they were made at, calls push and pop   *)
(* both stacks, and what comes out is an instruction tree.                 *)
(*                                                                         *)
(* The C++ call stack is the variable stack, a sequence of handlers that   *)
(* wait for the object of task; instances live in heap, for a call swaps   *)
(* the captures of the instance with those of the compilation context.     *)
(* A program gives each declaration its kind, its parent (Global is the    *)
(* root), its name, ports, output and body; a port has a name, a type and  *)
(* a default, and types are given resolved (ElementInterpreter has how     *)
(* they are found).  A scope for a body is the body <<>>.                  *)
(***************************************************************************)
EXTENDS ElementBuild

CONSTANTS
  Programs,   \* the programs, each with a function main
  Names,      \* the identifiers in the order of a std::map
  Limit,      \* reasonable_function_call_limit
  MaxTurns    \* max_loop_iterations

VARIABLES
  program,
  heap,         \* the function instances made so far
  captures,     \* context.captures: frames of a scope and arguments
  calls,        \* context.calls: frames of an instance and its arguments
  boundaries,   \* how many boundaries there are
  stack, task

cvars == <<program, heap, captures, calls, boundaries, stack, task>>

Global == "global"
Ins(d) == program[d].ins
Out(d) == program[d].out
Named(s, n) == {d \in DOMAIN program : program[d].parent = s /\ program[d].name = n}
IsFunction(d)  == program[d].kind \in {"function", "intrinsic"}
IsIntrinsic(d) == program[d].kind = "intrinsic"
IsVariadic(d)  == d = "list"
\* The declarations of a scope, in the order of its map
Inside(s) == FlattenSeq([i \in DOMAIN Names |-> SetToSeq(Named(s, Names[i]))])

Port(n, type) == [name |-> n, type |-> type, default |-> <<>>]

-----------------------------------------------------------------------------
(* Objects, besides instructions.                                          *)

Instance(i)    == [k |-> "instance", i |-> i]
Object(d, fs)  == [k |-> "object", of |-> d, fields |-> fs]
Block(fs)      == [k |-> "block", fields |-> fs]
Declared(d)    == [k |-> "declaration", of |-> d]
Wrapper(s, os) == [k |-> "wrapper", sel |-> s, os |-> os]
Error(code)    == [k |-> "error", code |-> code]
Nothing        == [k |-> "nothing"]

IsError(v) == v.k = "error"
IsInstruction(v) == v.k \notin {"instance", "object", "block", "declaration", "wrapper", "error", "nothing"}
FirstError(vs) == Head(SelectSeq(vs, IsError))

\* actual_type: the operation of a constant, input or indexer tells its type
RECURSIVE TypeOf(_), ConstraintOf(_), IsConstantObject(_)
TypeOf(t) ==
  CASE t.k \in {"if", "select"} -> TypeOf(t.deps[2])
    [] t.k = "for"    -> TypeOf(t.deps[1])
    [] t.k = "struct" -> ""
    [] t.op \in DOMAIN CompareOpcode \cup {"and", "or", "not", "bool"} -> "Bool"
    [] OTHER -> "Num"
Typed(t, type) == IF t.k \in {"constant", "input", "indexer"}
                  THEN [t EXCEPT !.op = IF type = "Bool" THEN "bool" ELSE "num"] ELSE t

\* The constraint of an instance is its own
ConstraintOf(v) ==
  CASE IsInstruction(v)  -> TypeOf(v)
    [] v.k = "object"    -> v.of
    [] v.k = "instance"  -> v
    [] v.k = "wrapper"   -> ConstraintOf(v.os[1])
    [] OTHER -> ""

IsConstantObject(v) ==
  CASE IsInstruction(v) -> IsConstant(v)
    [] v.k = "object"   -> \A i \in DOMAIN v.fields : IsConstantObject(v.fields[i])
    [] OTHER -> v.k \in {"block", "instance", "error"}

PortMatches(ours, theirs) == theirs \in {"", "Any"} \/ ours = theirs

\* Mutant: the argument an instance function is applied to is not left out
PortsMatchAll(d, applied, type) ==
  /\ type \notin {"Num", "Bool"}
  /\ Len(Ins(d)) >= Len(Ins(type))
  /\ \A i \in DOMAIN Ins(type) : PortMatches(Ins(d)[i].type, Ins(type)[i].type)

\* A partially applied function is taken to have been given one argument
PortsMatch(d, applied, type) ==
  LET off == IF applied THEN 1 ELSE 0 IN
  /\ type \notin {"Num", "Bool"}
  /\ Len(Ins(d)) = Len(Ins(type)) + off
  /\ \A i \in DOMAIN Ins(type) : PortMatches(Ins(d)[i + off].type, Ins(type)[i].type)
  /\ PortMatches(Out(d), Out(type))

RECURSIVE Matches(_, _)
Matches(v, type) ==
  \/ type \in {"", "Any"} \/ IsError(v)
  \/ IsInstruction(v) /\ TypeOf(v) = type
  \/ v.k = "object" /\ v.of = type
  \/ v.k = "instance" /\ PortsMatch(heap[v.i].of, heap[v.i].given # <<>>, type)
  \/ v.k = "wrapper" /\ Matches(v.os[1], type)

\* A port without a type ends the check
ValidCall(d, args) ==
  /\ Len(args) = Len(Ins(d))
  /\ \A i \in DOMAIN args :
       (\E j \in 1 .. i : Ins(d)[j].type = "") \/ Matches(args[i], Ins(d)[i].type)

-----------------------------------------------------------------------------
(* Choosing, serialising and taking apart.                                 *)

Choose(sel, os) ==
  CASE IsError(sel) -> sel
    [] sel.k = "constant" -> os[1 + SelectIndex(sel.n, Len(os))]
    [] ~IsInstruction(sel) -> Error("selector")
    [] \E i \in DOMAIN os : ConstraintOf(os[i]) # ConstraintOf(os[1]) -> Error("heterogeneous")
    [] \A i \in DOMAIN os : IsInstruction(os[i]) -> IF Len(os) = 1 THEN os[1] ELSE Select(sel, os)
    [] OTHER -> Wrapper(sel, os)

RECURSIVE ToInstruction(_), FillWith(_, _), Serialises(_), PlaceholderFor(_, _, _)
\* Nothing for what has no instruction
ToInstruction(v) ==
  LET all(vs) == [i \in DOMAIN vs |-> ToInstruction(vs[i])] IN
  CASE IsInstruction(v)  -> v
    [] v.k = "object" /\ Nothing \notin Range(all(v.fields)) -> Struct(all(v.fields))
    [] v.k = "wrapper" /\ Nothing \notin Range(all(v.os)) -> Choose(v.sel, all(v.os))
    [] OTHER -> Nothing

\* clone_and_fill_with_expressions: the fields are numbered by name, and those
\* of a struct within from 0 again
FieldRank(v, i) ==
  LET place(j) == IndexFirstSubSeq(<<Ins(v.of)[j].name>>, Names) IN
  Cardinality({j \in DOMAIN v.fields : IsInstruction(v.fields[j]) /\ place(j) < place(i)})
FillWith(v, loop) ==
  Object(v.of, [i \in DOMAIN v.fields |->
    IF IsInstruction(v.fields[i])
    THEN Typed(Indexer(loop, FieldRank(v, i)), TypeOf(v.fields[i]))
    ELSE FillWith(v.fields[i], loop)])

Serialises(type) ==
  \/ type \in {"Num", "Bool"}
  \/ /\ type \in DOMAIN program \ {"List"} /\ program[type].kind = "struct"
     /\ \A i \in DOMAIN Ins(type) : Serialises(Ins(type)[i].type)
AtBoundary(d) == \A t \in {Out(d)} \cup {Ins(d)[i].type : i \in DOMAIN Ins(d)} : Serialises(t)

RECURSIVE Width(_)
Width(type) == IF type \in {"Num", "Bool"} THEN 1
               ELSE FoldLeft(LAMBDA n, p : n + Width(p.type), 0, Ins(type))
Offset(ps, i) == FoldLeft(LAMBDA n, p : n + Width(p.type), 0, SubSeq(ps, 1, i - 1))
PlaceholderFor(type, scope, at) ==
  IF type \in {"Num", "Bool"} THEN Typed(Input(scope, at), type)
  ELSE Object(type, [i \in DOMAIN Ins(type) |->
         PlaceholderFor(Ins(type)[i].type, scope, at + Offset(Ins(type), i))])
PlaceholdersOf(ps) ==
  [i \in DOMAIN ps |-> PlaceholderFor(ps[i].type, boundaries - 1, Offset(ps, i))]

-----------------------------------------------------------------------------
(* What the handler on top of the stack does next.                         *)

Chain(c, s)        == [do |-> "chain", chain |-> c, scope |-> s]
Resolve(e, s, obj) == [do |-> "resolve", e |-> e, scope |-> s, obj |-> obj]
Compile(v)         == [do |-> "compile", v |-> v]
Call(v, args)      == [do |-> "call", v |-> v, args |-> args]
Index(v, n)        == [do |-> "index", v |-> v, name |-> n]
Give(v)            == [do |-> "give", v |-> v]
Fail(code)         == Give(Error(code))

top == Last(stack)
Doing(what)   == task.do = what
Handing(at)   == task.do = "give" /\ stack # <<>> /\ top.at = at
Resolving(e)  == task.do = "resolve" /\ task.e.e = e
Keeps         == UNCHANGED <<program, heap, captures, calls, boundaries>>
Become(t)     == task' = t /\ UNCHANGED stack /\ Keeps
Suspend(f, t) == task' = t /\ stack' = Append(stack, f) /\ Keeps
Resume(t)     == task' = t /\ stack' = Front(stack) /\ Keeps
Again(f, t)   == task' = t /\ stack' = Append(Front(stack), f) /\ Keeps

Finished == task.do = "give" /\ stack = <<>>

\* expression_chain::compile: every expression is resolved on the object of
\* the one before, and what comes of it compiled
StartChain ==
  /\ Doing("chain")
  /\ Suspend([at |-> "resolved", chain |-> task.chain, scope |-> task.scope, i |-> 1],
             Resolve(task.chain[1], task.scope, Nothing))
Resolved ==
  /\ Handing("resolved")
  /\ Again([top EXCEPT !.at = "compiled"],
           Compile(IF task.v = Nothing THEN Error("not_found") ELSE task.v))
Compiled ==
  /\ Handing("compiled")
  /\ IF top.i = Len(top.chain) THEN Resume(task)
     ELSE Again([top EXCEPT !.at = "resolved", !.i = @ + 1],
                Resolve(top.chain[top.i + 1], top.scope, task.v))

ResolveLiteral == Resolving("literal") /\ Become(Give(Const(task.e.n)))
ResolveLambda  == Resolving("lambda") /\ Become(Compile(Declared(task.e.of)))
ResolveIndex   == Resolving("index") /\ Become(Index(task.obj, task.e.name))

FramesOf(s) == {i \in DOMAIN captures : captures[i].scope = s}
ParamsOf(s, n) == IF s = Global THEN {} ELSE {i \in DOMAIN Ins(s) : Ins(s)[i].name = n}

\* Mutant: the oldest frame of a scope is searched
RECURSIVE CaptureFindOldest(_, _)
CaptureFindOldest(s, n) ==
  IF Named(s, n) # {} THEN Compile(Declared(CHOOSE d \in Named(s, n) : TRUE))
  ELSE IF FramesOf(s) # {} /\ ParamsOf(s, n) # {}
       THEN Give(captures[Min(FramesOf(s))].args[Min(ParamsOf(s, n))])
  ELSE IF s = Global THEN Fail("not_found")
  ELSE CaptureFindOldest(program[s].parent, n)

\* capture_stack::find: what a scope declares, then the arguments of the last
\* call whose scope it is, then outwards
RECURSIVE CaptureFind(_, _)
CaptureFind(s, n) ==
  IF Named(s, n) # {} THEN Compile(Declared(CHOOSE d \in Named(s, n) : TRUE))
  ELSE IF FramesOf(s) # {} /\ ParamsOf(s, n) # {}
       THEN Give(captures[Max(FramesOf(s))].args[Min(ParamsOf(s, n))])
  ELSE IF s = Global THEN Fail("not_found")
  ELSE CaptureFind(program[s].parent, n)
ResolveName == Resolving("name") /\ Become(CaptureFind(task.scope, task.e.name))

\* call_expression: the first argument that is an error is the result
ResolveCall ==
  /\ Resolving("call")
  /\ IF task.e.args = <<>> THEN Become(Call(task.obj, <<>>))
     ELSE Suspend([at |-> "argument", obj |-> task.obj, left |-> Tail(task.e.args),
                   scope |-> task.scope, done |-> <<>>],
                  Chain(Head(task.e.args), task.scope))
Argument ==
  /\ Handing("argument")
  /\ LET done == Append(top.done, task.v) IN
     IF top.left # <<>>
     THEN Again([top EXCEPT !.done = done, !.left = Tail(@)], Chain(Head(top.left), top.scope))
     ELSE Resume(IF \E v \in Range(done) : IsError(v) THEN Give(FirstError(done))
                 ELSE Call(top.obj, done))

\* An anonymous block compiles what it declares, and gives the first error
ResolveBlock ==
  /\ Resolving("block")
  /\ LET ds == Inside(task.e.of) IN
     Suspend([at |-> "field", names |-> [i \in DOMAIN ds |-> program[ds[i]].name],
              left |-> Tail(ds), done |-> <<>>], Compile(Declared(Head(ds))))
BlockField ==
  /\ Handing("field")
  /\ LET done == Append(top.done, task.v) IN
     IF top.left # <<>>
     THEN Again([top EXCEPT !.done = done, !.left = Tail(@)], Compile(Declared(Head(top.left))))
     ELSE Resume(Give(IF \E v \in Range(done) : IsError(v) THEN FirstError(done)
                      ELSE Block([n \in Range(top.names) |->
                             done[CHOOSE i \in DOMAIN done : top.names[i] = n]])))

-----------------------------------------------------------------------------
(* Instances.                                                              *)

New(d, given) ==
  [of |-> d, given |-> given, captures |-> captures, born |-> captures]
MakeInstance(d, given) ==
  /\ heap' = Append(heap, New(d, given))
  /\ task' = Compile(Instance(Len(heap) + 1))
  /\ UNCHANGED <<program, captures, calls, boundaries, stack>>

Complete(i) ==
  LET f == heap[i] IN
  IF IsVariadic(f.of) THEN f.given # <<>> ELSE Len(f.given) = Len(Ins(f.of))

CompileFunction == Doing("compile") /\ task.v.k = "declaration" /\ IsFunction(task.v.of)
                   /\ MakeInstance(task.v.of, <<>>)
CompileInstance ==
  /\ Doing("compile") /\ task.v.k = "instance"
  /\ Become(IF Complete(task.v.i) THEN Call(task.v, <<>>) ELSE Give(task.v))
CompileSelf ==
  /\ Doing("compile") /\ task.v.k \notin {"instance", "wrapper"}
  /\ ~(task.v.k = "declaration" /\ IsFunction(task.v.of))
  /\ Become(Give(task.v))

CallFunction == Doing("call") /\ task.v.k = "declaration" /\ IsFunction(task.v.of)
                /\ MakeInstance(task.v.of, task.args)

\* The constructors of Num and Bool convert, the one of List takes anything
Construct(d, args) ==
  CASE d = "Num" /\ IsInstruction(args[1]) ->
         IF TypeOf(args[1]) = "Num" THEN args[1]
         ELSE Typed(Folded(If(args[1], Const(One), Const(Zero))), "Num")
    [] d = "Bool" /\ IsInstruction(args[1]) ->
         IF TypeOf(args[1]) = "Bool" THEN args[1] ELSE Typed(ToBoolTree(args[1]), "Bool")
    [] d \in {"Num", "Bool"} -> Error("constraint")
    [] d = "List" \/ ValidCall(d, args) -> Object(d, args)
    [] OTHER -> Error("constraint")
CallStruct == Doing("call") /\ task.v.k = "declaration" /\ ~IsFunction(task.v.of)
              /\ Become(Give(IF program[task.v.of].kind = "struct"
                             THEN Construct(task.v.of, task.args) ELSE Error("not_callable")))
CallOther ==
  /\ Doing("call") /\ task.v.k \notin {"declaration", "instance", "wrapper"}
  /\ Become(Give(IF IsError(task.v) THEN task.v ELSE Error("not_callable")))

CallInstance ==
  /\ Doing("call") /\ task.v.k = "instance"
  /\ Become([do |-> "enter", i |-> task.v.i, args |-> heap[task.v.i].given \o task.args])

\* function_instance::call: missing arguments are filled in when any port has
\* a default, and a default is compiled where the function is called
Wanting ==
  LET d == heap[task.i].of IN
  /\ ~IsVariadic(d)
  /\ \E p \in Range(Ins(d)) : p.default # <<>>
  /\ Len(task.args) < Len(Ins(d))
FillDefault ==
  /\ Doing("enter") /\ Wanting
  /\ LET d == heap[task.i].of
         default == Ins(d)[Len(task.args) + 1].default
     IN  /\ default # <<>>
         /\ Suspend([at |-> "default", i |-> task.i, args |-> task.args], Chain(default, d))
\* A missing argument before the first default: the default is a null pointer
\* that is called through
Crash ==
  /\ Doing("enter") /\ Wanting /\ Ins(heap[task.i].of)[Len(task.args) + 1].default = <<>>
  /\ task' = Fail("crash") /\ stack' = <<>> /\ Keeps
Default ==
  /\ Handing("default")
  /\ Resume([do |-> "enter", i |-> top.i, args |-> Append(top.args, task.v)])

\* Mutant: only the calls on top of the stack are counted
RecursiveCallsAbove(d) ==
  IF \A i \in DOMAIN calls : heap[calls[i].i].of # d THEN 0
  ELSE Cardinality({i \in DOMAIN calls : \A j \in i .. Len(calls) : heap[calls[j].i].of = d})

RecursiveCalls(d) ==
  IF IsIntrinsic(d) THEN 0 ELSE Cardinality({i \in DOMAIN calls : heap[calls[i].i].of = d})

Refusal(d, args) ==
  CASE Len(args) < Len(Ins(d)) -> <<"not_enough_arguments">>
    [] ~IsVariadic(d) /\ Len(args) > Len(Ins(d)) -> <<"too_many_arguments">>
    [] ~IsVariadic(d) /\ ~ValidCall(d, args) -> <<"constraint">>
    [] RecursiveCalls(d) > Limit -> <<"recursion">>
    [] OTHER -> <<>>
Refuse ==
  /\ Doing("enter") /\ ~Wanting /\ Refusal(heap[task.i].of, task.args) # <<>>
  /\ Become(Fail(Refusal(heap[task.i].of, task.args)[1]))

\* The instance and the context exchange their captures
Body(d) ==
  IF IsIntrinsic(d) THEN [do |-> "intrinsic", d |-> d]
  ELSE IF program[d].body # <<>> THEN Chain(program[d].body, d)
  ELSE Compile(Declared(CHOOSE r \in Named(d, "return") : TRUE))
Enter ==
  /\ Doing("enter") /\ ~Wanting
  /\ LET i == task.i
         d == heap[i].of
     IN  /\ Refusal(d, task.args) = <<>>
         /\ calls' = Append(calls, [i |-> i, args |-> task.args])
         /\ captures' = Append(heap[i].captures, [scope |-> d, args |-> task.args])
         /\ heap' = [heap EXCEPT ![i].captures = captures]
         /\ stack' = Append(stack, [at |-> "body", i |-> i])
         /\ task' = Body(d)
  /\ UNCHANGED <<program, boundaries>>

\* Mutant: an error leaves before the frame of the captures is popped
SwapBackEarly(i) ==
  /\ captures' = heap[i].captures
  /\ heap' = [heap EXCEPT ![i].captures = IF IsError(task.v) THEN captures ELSE Front(captures)]

SwapBack(i) ==
  /\ captures' = heap[i].captures
  /\ heap' = [heap EXCEPT ![i].captures = Front(captures)]
Return ==
  /\ Handing("body")
  /\ SwapBack(top.i)
  /\ calls' = Front(calls) /\ stack' = Front(stack)
  /\ task' = IF Matches(task.v, Out(heap[top.i].of)) THEN task ELSE Fail("return")
  /\ UNCHANGED <<program, boundaries>>

-----------------------------------------------------------------------------
(* Indexing.                                                               *)

\* Mutant: a function without a parameter is called with the instance
IndexTypeAny(type, v, n) ==
  LET ds == Named(type, n) IN
  IF \E d \in ds : IsFunction(d)
  THEN Call(Declared(CHOOSE d \in ds : TRUE), <<v>>) ELSE Give(Nothing)

\* index_type: a function of the type whose first port has the type's name
IndexType(type, v, n) ==
  LET ds == {d \in Named(type, n) : IsFunction(d)}
      d  == CHOOSE d \in ds : TRUE
  IN  IF Inside(type) = <<>> THEN Fail("empty_scope")
      ELSE IF ds = {} THEN Give(Nothing)
      ELSE IF Ins(d) = <<>> \/ Ins(d)[1].type # type THEN Fail("not_an_instance_function")
      ELSE Call(Declared(d), <<v>>)

FieldOf(v, n) == {i \in DOMAIN v.fields : Ins(v.of)[i].name = n}
IndexObject ==
  /\ Doing("index") /\ task.v.k = "object"
  /\ Become(IF FieldOf(task.v, task.name) # {}
            THEN Give(task.v.fields[Min(FieldOf(task.v, task.name))])
            ELSE IndexType(task.v.of, task.v, task.name))
IndexInstruction ==
  Doing("index") /\ IsInstruction(task.v) /\ Become(IndexType(TypeOf(task.v), task.v, task.name))
IndexBlock ==
  /\ Doing("index") /\ task.v.k = "block"
  /\ Become(Give(IF task.name \in DOMAIN task.v.fields THEN task.v.fields[task.name] ELSE Nothing))
IndexDeclaration ==
  /\ Doing("index") /\ task.v.k = "declaration"
  /\ LET ds == Named(task.v.of, task.name) IN
     Become(IF ds = {} THEN Fail("not_found") ELSE Compile(Declared(CHOOSE d \in ds : TRUE)))
IndexOther ==
  /\ Doing("index") /\ task.v.k \in {"instance", "error", "nothing"}
  /\ Become(Give(IF IsError(task.v) THEN task.v ELSE Error("not_indexable")))

\* What is done to a list_wrapper is done to each of its options
Through ==
  /\ task.do \in {"compile", "call", "index"} /\ task.v.k = "wrapper"
  /\ Suspend([at |-> "option", sel |-> task.v.sel, how |-> task, left |-> Tail(task.v.os), done |-> <<>>],
             [task EXCEPT !.v = Head(task.v.os)])
Option ==
  /\ Handing("option") /\ (top.how.do = "index" => task.v # Nothing)
  /\ LET done == Append(top.done, task.v) IN
     IF top.left # <<>>
     THEN Again([top EXCEPT !.done = done, !.left = Tail(@)], [top.how EXCEPT !.v = Head(top.left)])
     ELSE Resume(Give(Choose(top.sel, done)))
\* An option that has no such field: a null pointer among the options
CrashOption ==
  /\ Handing("option") /\ top.how.do = "index" /\ task.v = Nothing
  /\ task' = Fail("crash") /\ stack' = <<>> /\ Keeps

-----------------------------------------------------------------------------
(* Intrinsics, which find their arguments on top of the calls.             *)

Given == Last(calls).args
Running(ds) == Doing("intrinsic") /\ task.d \in ds

Operations == DOMAIN NumOpcode \cup DOMAIN CompareOpcode
RunOperation ==
  /\ Running(Operations)
  /\ LET type == IF task.d \in DOMAIN CompareOpcode THEN "Bool" ELSE "Num" IN
     Become(Give(IF \E v \in Range(Given) : IsError(v) THEN FirstError(Given)
                 ELSE Typed(Folded(Binary(task.d, Given[1], Given[2])), type)))
RunIf ==
  /\ Running({"if"})
  /\ Become(Give(IF IsInstruction(Given[1])
                 THEN Choose(Typed(ToBoolTree(Given[1]), "Bool"), <<Given[3], Given[2]>>)
                 ELSE Error("condition")))
\* The indexer of a list is an instance that captures the call of list
RunList ==
  /\ Running({"list"})
  /\ heap' = Append(heap, New("@list_indexer", <<>>))
  /\ task' = Give(Object("List", <<Instance(Len(heap) + 1), Const(FromNat(Len(Given)))>>))
  /\ UNCHANGED <<program, captures, calls, boundaries, stack>>
RunListIndexer ==
  /\ Running({"@list_indexer"})
  /\ Become(Give(Choose(Given[1], captures[Len(captures) - 1].args)))

\* compile_placeholder_expression: f is called with inputs of a new boundary,
\* and frame waits for what it compiles to
WithPlaceholders(frame, f) ==
  /\ boundaries' = boundaries + 1
  /\ stack' = Append(Front(stack), frame) \o <<[at |-> "boundary"]>>
  /\ task' = Call(f, PlaceholdersOf(SubSeq(Ins(heap[f.i].of), Len(heap[f.i].given) + 1, Len(Ins(heap[f.i].of)))))
  /\ UNCHANGED <<program, heap, captures, calls>>
LeaveBoundary ==
  /\ Handing("boundary")
  /\ boundaries' = boundaries - 1 /\ stack' = Front(stack)
  /\ UNCHANGED <<program, heap, captures, calls, task>>

Loop0(first, pred, body) ==
  [at |-> "predicate", first |-> first, now |-> first, pred |-> pred, body |-> body, turn |-> 0]
AtRuntime(frame) ==
  IF ~AtBoundary(heap[frame.pred.i].of) \/ ~AtBoundary(heap[frame.body.i].of)
  THEN Resume(Fail("boundary"))
  ELSE WithPlaceholders([at |-> "for predicate", first |-> frame.first, body |-> frame.body], frame.pred)

\* The first port of for has no type, so that nothing checks the others
CrashFor ==
  /\ Running({"for"}) /\ "instance" \notin {Given[2].k} \cap {Given[3].k}
  /\ task' = Fail("crash") /\ stack' = <<>> /\ Keeps
RunFor ==
  /\ Running({"for"}) /\ Given[2].k = "instance" /\ Given[3].k = "instance"
  /\ IF IsError(Given[1]) THEN Become(Give(Given[1]))
     ELSE LET frame == Loop0(Given[1], Given[2], Given[3]) IN
          IF IsConstantObject(Given[1]) THEN Suspend(frame, Call(Given[2], <<Given[1]>>))
          ELSE Suspend(frame, [do |-> "runtime for"])
StartRuntimeFor == Doing("runtime for") /\ AtRuntime(top)

\* Mutant: the turns are not counted
NextTurnUncounted(frame, v) == [frame EXCEPT !.at = "predicate", !.now = v]
NextTurn(frame, v) == [frame EXCEPT !.at = "predicate", !.now = v, !.turn = @ + 1]

\* compile_time_for.  An error in the predicate ends the loop
Predicate ==
  /\ Handing("predicate")
  /\ IF IsError(task.v) THEN Resume(Give(top.now))
     ELSE IF ~IsInstruction(task.v) \/ ~IsConstant(task.v) THEN AtRuntime(top)
     ELSE IF ~ToBool(Folded(task.v).n) THEN Resume(Give(top.now))
     ELSE IF top.turn > MaxTurns THEN Resume(Fail("infinite_loop"))
     ELSE Again([top EXCEPT !.at = "turn"], Call(top.body, <<top.now>>))
Turn ==
  /\ Handing("turn")
  /\ IF \/ ~IsConstantObject(task.v)
        \/ ~Matches(task.v, IF top.first.k = "instance" THEN heap[top.first.i].of ELSE ConstraintOf(top.first))
     THEN AtRuntime(top)
     ELSE Again(NextTurn(top, task.v), Call(top.pred, <<task.v>>))

ForPredicate ==
  /\ Handing("for predicate")
  /\ WithPlaceholders([at |-> "for body", first |-> top.first, pred |-> task.v], top.body)
Unserialised(frame, body) == Nothing \in {ToInstruction(v) : v \in {frame.first, frame.pred, body}}
FirstIsNoStruct == ~Unserialised(top, task.v) /\ top.first.k = "wrapper"
ForOver(first, pred, body) ==
  LET loop == For(boundaries - 1, ToInstruction(first), ToInstruction(pred), ToInstruction(body)) IN
  IF IsInstruction(first) THEN loop ELSE FillWith(first, loop)
ForBody ==
  /\ Handing("for body") /\ (IsError(top.pred) \/ IsError(task.v) \/ ~FirstIsNoStruct)
  /\ Resume(IF IsError(top.pred) THEN Give(top.pred)
            ELSE IF IsError(task.v) THEN task
            ELSE IF Unserialised(top, task.v) THEN Fail("not_an_instruction")
            ELSE Give(ForOver(top.first, top.pred, task.v)))
\* A choice of structs at run time has an instruction but no fields to fill
CrashForBody ==
  /\ Handing("for body") /\ ~IsError(top.pred) /\ ~IsError(task.v) /\ FirstIsNoStruct
  /\ task' = Fail("crash") /\ stack' = <<>> /\ Keeps

\* compile_time_fold: while every element is constant
ElementAt(list, i) == Call(list.fields[1], <<Const(FromNat(i))>>)
RunFold ==
  /\ Running({"fold"})
  /\ IF Given[1].k # "object" \/ Given[3].k # "instance" THEN Become(Fail("fold"))
     ELSE LET frame == [at |-> "element", list |-> Given[1], init |-> Given[2],
                        now |-> Given[2], f |-> Given[3], i |-> 0]
          IN  CASE ~IsConstantObject(frame.list)    -> Suspend(frame, [do |-> "runtime fold"])
                [] frame.list.fields[2].n = Zero -> Become(Give(frame.init))
                [] OTHER -> Suspend(frame, ElementAt(frame.list, 0))
FoldAtRuntime ==
  IF AtBoundary(heap[top.f.i].of) THEN WithPlaceholders([top EXCEPT !.at = "fold body"], top.f)
  ELSE Resume(Fail("boundary"))
StartRuntimeFold == Doing("runtime fold") /\ FoldAtRuntime
Element ==
  /\ Handing("element")
  /\ IF IsConstantObject(task.v)
     THEN Again([top EXCEPT !.at = "aggregate"], Call(top.f, <<top.now, task.v>>))
     ELSE FoldAtRuntime
Aggregate ==
  /\ Handing("aggregate")
  /\ IF FromNat(top.i + 1) = top.list.fields[2].n THEN Resume(task)
     ELSE Again([top EXCEPT !.at = "element", !.now = task.v, !.i = @ + 1], ElementAt(top.list, top.i + 1))
FoldBody ==
  /\ Handing("fold body")
  /\ Resume(IF IsError(task.v) THEN task
            ELSE IF ToInstruction(task.v) = Nothing THEN Fail("not_an_instruction")
            ELSE Call(Declared("@list_fold"), <<top.list, top.init, top.f>>))

-----------------------------------------------------------------------------
Init ==
  /\ program \in Programs
  /\ heap = <<>> /\ captures = <<>> /\ calls = <<>> /\ boundaries = 2
  /\ stack = <<[at |-> "boundary"]>>
  /\ task = Call(Declared("main"),
                 [i \in DOMAIN program["main"].ins |->
                    PlaceholderFor(program["main"].ins[i].type, 0, Offset(program["main"].ins, i))])

Done == Finished /\ UNCHANGED cvars

Next ==
  \/ StartChain \/ Resolved \/ Compiled
  \/ ResolveLiteral \/ ResolveLambda \/ ResolveIndex \/ ResolveName
  \/ ResolveCall \/ Argument \/ ResolveBlock \/ BlockField
  \/ CompileFunction \/ CompileInstance \/ CompileSelf
  \/ CallFunction \/ CallStruct \/ CallOther \/ CallInstance
  \/ FillDefault \/ Default \/ Crash \/ Refuse \/ Enter \/ Return
  \/ IndexObject \/ IndexInstruction \/ IndexBlock \/ IndexDeclaration \/ IndexOther
  \/ Through \/ Option \/ CrashOption
  \/ RunOperation \/ RunIf \/ RunList \/ RunListIndexer \/ LeaveBoundary
  \/ RunFor \/ CrashFor \/ StartRuntimeFor \/ Predicate \/ Turn \/ ForPredicate \/ ForBody \/ CrashForBody
  \/ RunFold \/ StartRuntimeFold \/ Element \/ Aggregate \/ FoldBody
  \/ Done

Spec == Init /\ [][Next]_cvars /\ WF_cvars(Next)
=============================================================================
