---------------------------- MODULE ElementLexical ----------------------------
(***************************************************************************)
(* What an Element program means: lexical scope with closures.  The        *)
(* arguments of the enclosing functions are an environment, which a        *)
(* function value and a struct declaration carry with them; inputs have    *)
(* values, so that nothing is left for later.  The properties compare what *)
(* ElementCalls compiles with it.                                          *)
(***************************************************************************)
EXTENDS ElementCalls

CONSTANT InputValues   \* the values of an input of type Num; one of Bool has 0 and 1

Closure(d, env, given) == [k |-> "closure", of |-> d, env |-> env, given |-> given]
Structure(d, env, fs)  == [k |-> "structure", of |-> d, env |-> env, fields |-> fs]
Declaration(d, env)    == [k |-> "declaration", of |-> d, env |-> env]
List(at, vs)           == [k |-> "list", at |-> at, items |-> vs]
Wrong                  == Error("meaning")

RECURSIVE Enclosing(_)
Enclosing(s) == IF s = Global THEN {} ELSE {s} \cup Enclosing(program[s].parent)
Within(env, s) == [e \in DOMAIN env \cap Enclosing(s) |-> env[e]]
TimesIn(d, active) == Cardinality({i \in DOMAIN active : active[i] = d})

Conforms(v, type) ==
  \/ type \in {"", "Any"}
  \/ v.k = "constant" /\ TypeOf(v) = type
  \/ v.k = "structure" /\ v.of = type
  \/ v.k = "list" /\ type = "List"
  \/ v.k = "closure" /\ PortsMatch(v.of, v.given # <<>>, type)

Anyhow(vs, v) == IF \E w \in Range(vs) : IsError(w) THEN Wrong ELSE v

RECURSIVE ChainMeans(_, _, _, _), StepMeans(_, _, _, _, _), LookupMeans(_, _, _, _), Forced(_, _, _)
RECURSIVE CallMeans(_, _, _), EnterMeans(_, _, _, _), IndexMeans(_, _, _), LoopMeans(_, _, _, _, _), WithDefaults(_, _, _, _)

ChainMeans(chain, s, env, active) ==
  FoldLeft(LAMBDA v, e : StepMeans(e, s, env, active, v), Nothing, chain)

StepMeans(e, s, env, active, v) ==
  CASE e.e = "literal" -> Const(e.n)
    [] e.e = "name"    -> LookupMeans(s, e.name, env, active)
    [] e.e = "index"   -> IndexMeans(v, e.name, active)
    [] e.e = "lambda"  -> Forced(e.of, env, active)
    [] e.e = "call"    ->
         LET args == [i \in DOMAIN e.args |-> ChainMeans(e.args[i], s, env, active)]
         IN  Anyhow(<<v>> \o args, CallMeans(v, args, active))
    [] e.e = "block"   ->
         LET ds == Inside(e.of)
             vs == [i \in DOMAIN ds |-> Forced(ds[i], env, active)]
         IN  Anyhow(vs, Block([n \in {program[d].name : d \in Range(ds)} |->
               vs[CHOOSE i \in DOMAIN ds : program[ds[i]].name = n]]))

LookupMeans(s, n, env, active) ==
  IF Named(s, n) # {} THEN Forced(CHOOSE d \in Named(s, n) : TRUE, env, active)
  ELSE IF s \in DOMAIN env /\ ParamsOf(s, n) # {} THEN env[s][Min(ParamsOf(s, n))]
  ELSE IF s = Global THEN Wrong
  ELSE LookupMeans(program[s].parent, n, env, active)

\* A function without parameters is its value
Forced(d, env, active) ==
  CASE ~IsFunction(d) -> Declaration(d, Within(env, d))
    [] Ins(d) = <<>> /\ ~IsVariadic(d) -> EnterMeans(d, Within(env, d), <<>>, active)
    [] OTHER -> Closure(d, Within(env, d), <<>>)

\* A default belongs to its function
WithDefaults(d, env, args, active) ==
  IF Len(args) >= Len(Ins(d)) \/ IsVariadic(d) THEN args
  ELSE IF Ins(d)[Len(args) + 1].default = <<>> THEN args
  ELSE WithDefaults(d, env, Append(args, ChainMeans(Ins(d)[Len(args) + 1].default, d, env, active)), active)

CallMeans(v, args, active) ==
  CASE v.k = "closure" -> EnterMeans(v.of, v.env, WithDefaults(v.of, v.env, v.given \o args, active), active)
    [] v.k = "at" -> IF Len(args) = 1 /\ Conforms(args[1], "Num") THEN v.items[1 + SelectIndex(args[1].n, Len(v.items))] ELSE Wrong
    [] v.k = "declaration" /\ v.of \in {"Num", "Bool"} ->
         IF args[1].k # "constant" THEN Wrong
         ELSE IF v.of = "Bool" \/ TypeOf(args[1]) = "Bool"
              THEN Typed(Const(FromBool(ToBool(args[1].n))), v.of) ELSE args[1]
    [] v.k = "declaration" /\ v.of \notin {"Num", "Bool"} /\ program[v.of].kind = "struct" ->
         IF Len(args) # Len(Ins(v.of)) \/ \E i \in DOMAIN args : ~Conforms(args[i], Ins(v.of)[i].type) THEN Wrong
         ELSE IF v.of # "List" THEN Structure(v.of, v.env, args)
         ELSE List(args[1], [i \in 1 .. ToIndex[args[2].n] |-> CallMeans(args[1], <<Const(FromNat(i - 1))>>, active)])
    [] OTHER -> Wrong

EnterMeans(d, env, args, active) ==
  LET fits == /\ IsVariadic(d) \/ Len(args) = Len(Ins(d))
              /\ \A i \in DOMAIN Ins(d) : Conforms(args[i], Ins(d)[i].type)
      inside == (d :> args) @@ env
      now == Append(active, d)
      a == args
      v == CASE d \in Operations ->
                  Typed(Const(BinaryValue(d, a[1].n, a[2].n)), IF d \in DOMAIN CompareOpcode THEN "Bool" ELSE "Num")
             [] d = "if"   -> IF ToBool(a[1].n) THEN a[2] ELSE a[3]
             [] d = "list" -> List([k |-> "at", items |-> a], a)
             [] d = "fold" -> FoldLeft(LAMBDA w, x : CallMeans(a[3], <<w, x>>, now), a[2], a[1].items)
             [] d = "for"  -> LoopMeans(a[1], a[2], a[3], now, MaxTurns + 1)
             [] program[d].body # <<>> -> ChainMeans(program[d].body, d, inside, now)
             [] OTHER -> Forced(CHOOSE r \in Named(d, "return") : TRUE, inside, now)
  IN  IF ~fits \/ (\E w \in Range(args) : IsError(w)) \/ (~IsIntrinsic(d) /\ TimesIn(d, active) > Limit) THEN Wrong
      ELSE IF Conforms(v, Out(d)) THEN v ELSE Wrong

LoopMeans(v, pred, body, active, fuel) ==
  LET again == CallMeans(pred, <<v>>, active) IN
  IF IsError(v) \/ again.k # "constant" THEN Wrong
  ELSE IF ~ToBool(again.n) THEN v
  ELSE IF fuel = 0 THEN Wrong
  ELSE LoopMeans(CallMeans(body, <<v>>, active), pred, body, active, fuel - 1)

\* A function of a type is applied to the value it is selected from
IndexMeans(v, n, active) ==
  LET of == CASE v.k = "constant" -> TypeOf(v) [] v.k = "list" -> "List"
              [] v.k = "structure" -> v.of [] OTHER -> Global
      env == IF v.k = "structure" THEN v.env ELSE <<>>
      ds == {d \in Named(of, n) : IsFunction(d) /\ Ins(d) # <<>> /\ Ins(d)[1].type = of}
      d  == CHOOSE d \in ds : TRUE
  IN
  CASE v.k = "block" -> IF n \in DOMAIN v.fields THEN v.fields[n] ELSE Wrong
    [] v.k = "declaration" ->
         IF Named(v.of, n) = {} THEN Wrong ELSE Forced(CHOOSE m \in Named(v.of, n) : TRUE, v.env, active)
    [] v.k = "list" /\ n = "count" -> Const(FromNat(Len(v.items)))
    [] v.k = "list" /\ n = "at"    -> v.at
    [] v.k = "structure" /\ FieldOf(v, n) # {} -> v.fields[Min(FieldOf(v, n))]
    [] v.k \in {"constant", "structure", "list"} /\ of # Global /\ ds # {} ->
         IF Len(Ins(d)) = 1 THEN EnterMeans(d, env, <<v>>, active) ELSE Closure(d, env, <<v>>)
    [] OTHER -> Wrong

\* The numbers of a value that can be given to the host, or <<>>
RECURSIVE Flat(_)
Flat(v) ==
  CASE v.k = "constant"  -> <<v.n>>
    [] v.k = "structure" -> FoldLeft(LAMBDA ns, f : ns \o Flat(f), <<>>, v.fields)
    [] OTHER -> <<>>

Domain(type) == IF type = "Bool" THEN {Zero, One} ELSE InputValues
Assignments ==
  LET ps == Ins("main") IN
  {a \in [DOMAIN ps -> InputValues \cup {Zero, One}] : \A i \in DOMAIN ps : a[i] \in Domain(ps[i].type)}
MeaningAt(a) == EnterMeans("main", <<>>, [i \in DOMAIN a |-> Typed(Const(a[i]), Ins("main")[i].type)], <<>>)

-----------------------------------------------------------------------------
(* Properties.                                                             *)

\* Every frame of captures is of a declaration with ports for its arguments,
\* no instance is given more arguments than its function takes, and there is
\* always a boundary.
TypeOK ==
  /\ \A f \in Range(captures) : f.scope \in DOMAIN program /\ Len(f.args) >= Len(Ins(f.scope))
  /\ \A i \in DOMAIN heap : /\ IsFunction(heap[i].of)
                            /\ IsVariadic(heap[i].of) \/ Len(heap[i].given) <= Len(Ins(heap[i].of))
  /\ \A c \in Range(calls) : c.i \in DOMAIN heap
  /\ program \in Programs /\ boundaries > 0
  /\ task.do \in {"chain", "resolve", "compile", "call", "index", "give", "enter",
                  "intrinsic", "runtime for", "runtime fold"}

\* Reasons for which the language has no compiled form: a choice at run time
\* between values of different types or of functions, or a function or value
\* that does not pass the boundary
Unserialisable == {"heterogeneous", "boundary", "not_an_instruction", "selector"}

\* A program compiles to a tree only if it means something, and the tree has,
\* for all inputs, the value the program means: every name is what it is in
\* the lexically enclosing call, whatever the stacks of the compiler hold when
\* it is looked up.  (capture_stack::find, function_instance::call)
LexicalScope ==
  Finished =>
    \A a \in Assignments :
      \E want \in {MeaningAt(a)}, tree \in {ToInstruction(task.v)} :
        IF tree = Nothing THEN \/ IsError(want) \/ Flat(want) = <<>>
                               \/ IsError(task.v) /\ task.v.code \in Unserialisable
        ELSE ~IsError(want) /\ Evaluate(tree, a) = Flat(want)

\* Between the calls they are in, the instances keep the captures they were
\* made with, however a call ended; the stack of calls has one frame for each
\* body that runs, and nothing is left of the stacks in the end.
\* (the pushes, swaps and pops of function_instance::call)
StacksRestored ==
  LET running == {c.i : c \in Range(calls)}
      bodies  == SelectSeq(stack, LAMBDA f : f.at = "body")
      crashed == Finished /\ IsError(task.v) /\ task.v.code = "crash"
  IN  ~crashed =>
      /\ \A i \in DOMAIN heap \ running : heap[i].captures = heap[i].born
      /\ [j \in DOMAIN bodies |-> bodies[j].i] = [j \in DOMAIN calls |-> calls[j].i]
      /\ boundaries = 1 + Len(SelectSeq(stack, LAMBDA f : f.at = "boundary"))
      /\ Finished => captures = <<>> /\ calls = <<>>

\* The arguments of every function that runs are of the types of its ports, up
\* to the first port without a type: a number, a struct of that type, or a
\* function that can be called as the type says.  (valid_call,
\* user_function_constraint)
ArgumentsMatch ==
  \A c \in Range(calls) :
    LET d == heap[c.i].of
        ok(v, type) ==
          \/ type \in {"", "Any"} \/ IsError(v)
          \/ IsInstruction(v) /\ TypeOf(v) = type
          \/ v.k = "object" /\ v.of = type
          \/ v.k = "wrapper" /\ \A i \in DOMAIN v.os : v.os[i].k = "object" => v.os[i].of = type
          \/ /\ v.k = "instance" /\ program[type].kind = "constraint"
             /\ Len(Ins(heap[v.i].of)) = Len(heap[v.i].given) + Len(Ins(type))
             /\ \A i \in DOMAIN Ins(type) :
                  PortMatches(Ins(heap[v.i].of)[i + Len(heap[v.i].given)].type, Ins(type)[i].type)
        checked == {i \in DOMAIN Ins(d) : \A j \in 1 .. i : Ins(d)[j].type # ""}
    IN  \A i \in checked : ok(c.args[i], Ins(d)[i].type)

\* Compiling ends, for programs without end too.  (reasonable_function_call_limit,
\* max_loop_iterations)
Terminates == <>Finished
=============================================================================
