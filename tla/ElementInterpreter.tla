------------------------- MODULE ElementInterpreter -------------------------
(***************************************************************************)
(* The interpreter of libelement as its host sees it: loading of source    *)
(* text, files, packages and the Prelude, finding and compiling of         *)
(* declarations, and expressions compiled through a temporary declaration. *)
(*                                                                         *)
(* A declaration of the source is a record of its name, kind, ports (name, *)
(* type as a path, whether it has a default), type of its result, kind of  *)
(* body, declarations in its scope and the paths its expression uses.      *)
(* Tokenising and parsing are the one bit that says whether a file parses. *)
(* One action is one step of building or compiling; the host starts one    *)
(* call at a time.  Calls bounds how many it makes, those that only find   *)
(* aside.                                                                  *)
(***************************************************************************)
EXTENDS ElementScope

CONSTANTS
  Files,        \* file name -> [found, ele, parses, decls]
  Strings,      \* the files whose text the host loads as a string
  Packages,     \* package name -> [exists, files]
  PackageLists, \* the lists of packages the host loads at once
  FileLists,    \* the lists of files the host loads at once
  Expressions,  \* [parses, uses, function: whether it yields a function and one valid on the boundary]
  Paths,        \* what the host looks for
  Intrinsics,   \* name of an intrinsic -> the kind it has to be declared as
  ListFold,     \* the source of list_fold that every compilation context loads
  Declarations, \* all declarations of the sources, those inside others among them
  Careful,      \* whether the host compiles expressions and loads the Prelude only with parse_only off
  Calls

VARIABLES
  heap, cache,       \* scopes and declarations; cache_scope_find
  intrinsics,        \* intrinsic_map, from addresses to names
  parseOnly, preludeLoaded,
  handles,           \* the element_declarations the host holds: pairs of a path and an address
  hostContext,       \* the compiler scope of the host's element_object_model_ctx
  task,              \* the call in progress
  frames,            \* the scopes being built, innermost last
  resolved,          \* the names the last step of compiling resolved, and what to
  result, calls

vars == <<heap, cache, intrinsics, parseOnly, preludeLoaded, handles, hostContext, task, frames, resolved, result, calls>>

Temp == "<REMOVE>"
Idle == [api |-> "none"]
OK   == "OK"

(* What the host names is there to be tried, and no source names a declaration as the temporary one is named, for
   that is not an identifier. *)
ASSUME SourcesAssumption ==
  /\ \A f \in DOMAIN Files :
       /\ Files[f].decls \in Seq(Range(Files[f].decls))
       /\ \A i \in DOMAIN Files[f].decls : Files[f].decls[i].name # Temp
  /\ Strings \subseteq DOMAIN Files
  /\ \A p \in DOMAIN Packages : Packages[p] \in [exists : BOOLEAN, files : SUBSET DOMAIN Files]
  /\ \A fs \in FileLists : fs \in Seq(DOMAIN Files)
  /\ \A ps \in PackageLists : ps \in Seq(Range(ps))
  /\ ListFold.name = "list_fold"
  /\ Calls \in Nat
(* What the parser makes of a source: what it declares, names and uses are identifiers, and nothing has the empty path. *)
Identifiers == Names \ {Temp}
Uses == Seq(Seq(Names) \ {<<>>})
Port == [name : Names, type : Seq(Identifiers), default : BOOLEAN]
ASSUME DeclarationsAssumption ==
  /\ {"return", Temp} \subseteq Names
  /\ \A src \in Declarations :
       /\ src.name \in Identifiers /\ src.kind # "scope"
       /\ src.inner \in Seq(Declarations) /\ src.params \in Seq(Port) /\ src.out \in Seq(Identifiers) /\ src.uses \in Uses
  /\ \A f \in DOMAIN Files : Files[f].decls \in Seq(Declarations)
  /\ ListFold \in Declarations
  /\ Paths \subseteq Seq(Names) \ {<<>>} /\ \A e \in Expressions : e.uses \in Uses
KeepFirst(ret, r) == IF ret = OK THEN r ELSE ret

(* A list of files or of packages is loaded group by group; the order of the files in a group,
   a directory, is the file system's. *)
Loading(api, groups) ==
  [api |-> api, phase |-> "files", groups |-> groups, ret |-> OK, outer |-> OK, dest |-> Global]
Compiling(api, decl, expr) ==
  [api |-> api, phase |-> "context", ctx |-> Nowhere, dest |-> Nowhere, decl |-> decl, expr |-> expr,
   todo |-> <<>>, types |-> <<>>, error |-> OK, second |-> FALSE]
NoExpression == [parses |-> TRUE, uses |-> <<>>, function |-> "none"]

Init ==
  /\ heap = [a \in Addr |-> IF a = Global THEN Cell("", Nowhere, [kind |-> "scope", inner |-> <<>>, params |-> <<>>]) ELSE Free]
  /\ cache = [entries |-> {}, marked |-> FALSE]
  /\ intrinsics = [a \in {} |-> ""]
  /\ parseOnly = FALSE /\ preludeLoaded = FALSE
  /\ handles = {} /\ hostContext = Nowhere
  /\ task = Idle /\ frames = <<>> /\ resolved = {} /\ result = OK /\ calls = 0

-----------------------------------------------------------------------------
(* The host's calls. *)

Start(t) ==
  /\ task = Idle /\ calls < Calls
  /\ task' = t /\ calls' = calls + 1 /\ result' = "PENDING"
  /\ UNCHANGED <<heap, cache, intrinsics, parseOnly, preludeLoaded, handles, hostContext, frames, resolved>>

Group(p) == IF p \in DOMAIN Packages THEN Packages[p] ELSE [exists |-> FALSE, files |-> {}]
OneFile(f) == [exists |-> TRUE, files |-> {f}]

LoadString  == \E f \in Strings : Start([Loading("load_string", <<OneFile(f)>>) EXCEPT !.phase = "string"])
LoadFiles   == \E fs \in FileLists : Start(Loading("load_files", [k \in DOMAIN fs |-> OneFile(fs[k])]))
LoadPackage == \E p \in DOMAIN Packages : Start(Loading("load_package", <<Group(p)>>))
LoadPackages == \E ps \in PackageLists : Start(Loading("load_packages", [k \in DOMAIN ps |-> Group(ps[k])]))

(* A call that is over in one step. *)
Answer(r) ==
  /\ task = Idle /\ calls < Calls
  /\ calls' = calls + 1 /\ result' = r
  /\ UNCHANGED <<task, intrinsics, frames, resolved>>

LoadPrelude ==
  \/ ~preludeLoaded /\ (Careful => ~parseOnly) /\ Start(Loading("load_prelude", <<Group("Prelude")>>))
  \/ /\ preludeLoaded /\ Answer("PRELUDE_ALREADY_LOADED")
     /\ UNCHANGED <<heap, cache, parseOnly, preludeLoaded, handles, hostContext>>

SetParseOnly(b) ==
  /\ parseOnly # b /\ parseOnly' = b /\ Answer(OK)
  /\ UNCHANGED <<heap, cache, preludeLoaded, handles, hostContext>>

FindDeclaration(p) ==
  /\ task = Idle /\ calls < Calls
  /\ \E found \in {Find(heap, cache, Global, p, FALSE)} :
       /\ result' = IF found.decl = Nowhere THEN "IDENTIFIER_NOT_FOUND" ELSE OK
       /\ cache' = found.cache
       /\ handles' = IF found.decl = Nowhere THEN handles ELSE handles \cup {<<p, found.decl>>}
  /\ UNCHANGED <<heap, intrinsics, parseOnly, preludeLoaded, hostContext, task, frames, resolved, calls>>

CompileDeclaration == \E h \in handles : Start(Compiling("compile_declaration", h[2], NoExpression))
ContextCreate == hostContext = Nowhere /\ Start(Compiling("context_create", Nowhere, NoExpression))
Simplify ==
  /\ hostContext # Nowhere
  /\ \E h \in handles :
       Start([Compiling("simplify", h[2], NoExpression) EXCEPT !.phase = "compile", !.ctx = hostContext, !.todo = <<h[2]>>])
ContextDelete ==
  /\ hostContext # Nowhere /\ Answer(OK)
  /\ heap' = Destroy(heap, hostContext) /\ hostContext' = Nowhere
  /\ UNCHANGED <<cache, parseOnly, preludeLoaded, handles>>

(* In parse-only mode an expression yields no object, and both calls go on to use it. *)
ExpressionCall(api) ==
  /\ Careful => ~parseOnly
  /\ \E e \in Expressions : Start(Compiling(api, Nowhere, e))

-----------------------------------------------------------------------------
(* Loading. *)

Allocate(a, cell) == a \in Unused(heap) /\ heap' = [heap EXCEPT ![a] = cell]
RootFrame(a) == [at |-> a, next |-> 1, ret |-> OK]
Root(decls) == Cell("", Nowhere, [kind |-> "scope", inner |-> decls, params |-> <<>>])

FileError(f) ==
  IF task.phase = "files" /\ ~Files[f].ele THEN "INVALID_FILE_TYPE"
  ELSE IF task.phase = "files" /\ ~Files[f].found THEN "FILE_NOT_FOUND"
  ELSE IF ~Files[f].parses THEN "PARSE" ELSE OK

NextFile ==
  /\ task.api # "none" /\ task.phase \in {"files", "string"} /\ frames = <<>>
  /\ task.groups # <<>>
  /\ \E f \in Head(task.groups).files :
       LET rest == [task EXCEPT !.groups[1].files = @ \ {f}] IN
       \/ /\ FileError(f) # OK \/ parseOnly
          /\ task' = [rest EXCEPT !.ret = KeepFirst(@, FileError(f))]
          /\ UNCHANGED <<heap, frames>>
       \/ /\ FileError(f) = OK /\ ~parseOnly
          /\ \E a \in Unused(heap) : Allocate(a, Root(Files[f].decls)) /\ frames' = <<RootFrame(a)>>
          /\ task' = rest
  /\ UNCHANGED <<cache, intrinsics, parseOnly, preludeLoaded, handles, hostContext, resolved, result, calls>>

(* load_packages keeps an error only if it already has one. *)
GroupResult(t) ==
  LET r == IF Head(t.groups).exists THEN t.ret ELSE "DIRECTORY_NOT_FOUND"
  IN  IF t.api # "load_packages" THEN r
      ELSE IF r # OK /\ t.outer # OK THEN r ELSE t.outer

EndGroup ==
  /\ task.api # "none" /\ task.phase \in {"files", "string"} /\ frames = <<>>
  /\ task.groups # <<>> /\ Head(task.groups).files = {}
  /\ task' = [task EXCEPT !.outer = GroupResult(task), !.groups = Tail(@),
                          !.ret = IF task.api = "load_files" THEN @ ELSE OK]
  /\ UNCHANGED <<heap, cache, intrinsics, parseOnly, preludeLoaded, handles, hostContext, frames, resolved, result, calls>>

(* ...as if a Prelude that was tried had been loaded: *)
EndLoadRegardless ==
  /\ task.api # "none" /\ task.phase \in {"files", "string"} /\ frames = <<>> /\ task.groups = <<>>
  /\ result' = task.outer /\ task' = Idle
  /\ preludeLoaded' = (preludeLoaded \/ task.api = "load_prelude")
  /\ UNCHANGED <<heap, cache, intrinsics, parseOnly, handles, hostContext, frames, resolved, calls>>

EndLoad ==
  /\ task.api # "none" /\ task.phase \in {"files", "string"} /\ frames = <<>> /\ task.groups = <<>>
  /\ result' = task.outer /\ task' = Idle
  /\ preludeLoaded' = IF task.api = "load_prelude" THEN task.outer = OK ELSE preludeLoaded
  /\ UNCHANGED <<heap, cache, intrinsics, parseOnly, handles, hostContext, frames, resolved, calls>>
-----------------------------------------------------------------------------
(* Building the object model: build_scope, build_declaration. *)

Frame == Last(frames)
Children(f) == heap[f.at].src.inner
(* intrinsic_map.insert leaves an entry that is already there alone. *)
Register(a, name) == IF a \in DOMAIN intrinsics THEN intrinsics ELSE With(intrinsics, a, name)
Registered(c) == c.name \in DOMAIN Intrinsics /\ Intrinsics[c.name] = c.kind

BuildEnter ==
  /\ frames # <<>> /\ Frame.next <= Len(Children(Frame))
  /\ LET c == Children(Frame)[Frame.next]
         ok == c.body = "intrinsic" => Registered(c)
     IN  \E a \in Unused(heap) :
           /\ Allocate(a, Cell(c.name, Frame.at, c))
           /\ intrinsics' = IF c.body = "intrinsic" /\ ok THEN Register(a, c.name) ELSE intrinsics
           /\ frames' = Append([frames EXCEPT ![Len(frames)].next = @ + 1],
                               [at |-> a, next |-> IF ok THEN 1 ELSE Len(c.inner) + 1, ret |-> IF ok THEN OK ELSE "UNKNOWN"])
  /\ UNCHANGED <<cache, parseOnly, preludeLoaded, handles, hostContext, task, resolved, result, calls>>

(* The checks at the end of a declaration: [ret, cache]. *)
CheckPorts(d, ret, c) ==
  LET ps == heap[d].src.params
      Late(k) == ~ps[k].default /\ \E i \in 1..(k - 1) : ps[i].default
      Checked(last, k, r) ==
        [ret |-> IF Late(k) THEN "DEFAULT_ARGUMENT_NOT_AT_END"
                 ELSE IF r.decl # Nowhere THEN "MULTIPLE_DEFINITIONS" ELSE last.ret,
         cache |-> r.cache]
  IN  FoldLeft(LAMBDA last, k : Checked(last, k, Find(heap, last.cache, d, <<ps[k].name>>, FALSE)),
               [ret |-> ret, cache |-> c], [k \in DOMAIN ps |-> k])
FinishScope(d, ret, return) ==
  IF return.decl = Nowhere THEN [ret |-> "MISSING_FUNCTION_RETURN", cache |-> return.cache]
  ELSE CheckPorts(d, ret, return.cache)
Finish(d, ret) ==
  LET c == heap[d].src IN
  IF c.kind # "function" \/ (c.body = "intrinsic" /\ ret # OK) THEN [ret |-> ret, cache |-> cache]
  ELSE IF c.body # "scope" THEN CheckPorts(d, ret, cache)
  ELSE FinishScope(d, ret, Find(heap, cache, d, <<"return">>, FALSE))

BuildLeave ==
  /\ Len(frames) > 1 /\ Frame.next > Len(Children(Frame))
  /\ \E built \in {Finish(Frame.at, Frame.ret)} :
       LET d == Frame.at
           outer == frames[Len(frames) - 1].at
           ret == IF built.ret = OK /\ Declares(heap, outer, heap[d].name) THEN "UNKNOWN" ELSE built.ret
       IN  /\ heap' = IF ret = OK THEN AddDeclaration(heap, outer, d) ELSE Destroy(heap, d)
           /\ cache' = [built.cache EXCEPT !.marked = @ \/ ret = OK]
           /\ frames' = [Front(frames) EXCEPT ![Len(frames) - 1].ret = KeepFirst(@, ret)]
  /\ UNCHANGED <<intrinsics, parseOnly, preludeLoaded, handles, hostContext, task, resolved, result, calls>>

(* load_into_scope ends: the new scope is merged into the one loaded into, or dropped. *)
BuildEnd ==
  /\ Len(frames) = 1 /\ Frame.next > Len(Children(Frame))
  /\ \E merged \in {IF Frame.ret = OK THEN Merge(heap, task.dest, Frame.at)
                      ELSE [heap |-> Destroy(heap, Frame.at), ok |-> FALSE]} :
       \/ /\ task.phase \in {"files", "string"} /\ heap' = merged.heap
          /\ task' = [task EXCEPT !.ret = KeepFirst(@, IF Frame.ret = OK /\ ~merged.ok THEN "MULTIPLE_DEFINITIONS" ELSE Frame.ret)]
       \/ /\ task.phase = "fold" /\ heap' = MarkCompilerGenerated(merged.heap, task.ctx, "list_fold", "@list_fold")
          /\ task' = [task EXCEPT !.phase = "ready"]
  /\ frames' = <<>>
  /\ UNCHANGED <<cache, intrinsics, parseOnly, preludeLoaded, handles, hostContext, resolved, result, calls>>

-----------------------------------------------------------------------------
(* A compilation context: its scope, the hidden list indexer, and list_fold loaded from source. *)

ListIndexer == [name |-> "@list_indexer", kind |-> "function", params |-> <<>>, out |-> <<>>, body |-> "intrinsic",
                inner |-> <<>>, uses |-> <<>>]
NewContext ==
  /\ task.api # "none" /\ task.phase = "context"
  /\ \E s \in Unused(heap) : \E i \in Unused([heap EXCEPT ![s] = Root(<<>>)]) :
       /\ heap' = [heap EXCEPT ![s] = [Cell("", Global, Root(<<>>).src) EXCEPT !.decls = With(NoDecls, "@list_indexer", i)],
                               ![i] = Cell("@list_indexer", s, ListIndexer)]
       /\ intrinsics' = Register(i, "@list_indexer")
       /\ task' = [task EXCEPT !.ctx = s, !.dest = s, !.phase = IF parseOnly THEN "ready" ELSE "list_fold"]
  /\ cache' = [cache EXCEPT !.marked = TRUE]
  /\ UNCHANGED <<parseOnly, preludeLoaded, handles, hostContext, frames, resolved, result, calls>>

LoadListFold ==
  /\ task.api # "none" /\ task.phase = "list_fold"
  /\ \E a \in Unused(heap) : Allocate(a, Root(<<ListFold>>)) /\ frames' = <<RootFrame(a)>>
  /\ task' = [task EXCEPT !.phase = "fold"]
  /\ UNCHANGED <<cache, intrinsics, parseOnly, preludeLoaded, handles, hostContext, resolved, result, calls>>

-----------------------------------------------------------------------------
(* Compiling: the ports of a declaration are validated once, then the names its body uses are resolved. *)

IsType(d) == heap[d].src.kind \in {"struct", "constraint"}
Annotations(src) ==
  FoldLeft(LAMBDA paths, t : IF t = <<>> THEN paths ELSE Append(paths, t), <<>>,
           [k \in DOMAIN src.params |-> src.params[k].type] \o <<src.out>>)

Validation(ports, r, types) ==
  [ports |-> IF r.decl = Nowhere THEN "invalid" ELSE IF IsType(r.decl) THEN ports ELSE "invalid",
   cache |-> r.cache, types |-> IF r.decl = Nowhere THEN types ELSE Append(types, r.decl)]
Unvalidated(c) == [ports |-> "valid", cache |-> c, types |-> <<>>]

(* port::validate for every port of d, if the last port decided: *)
ValidateLast(d, c) ==
  FoldLeft(LAMBDA last, t : Validation("valid", Find(heap, last.cache, d, t, TRUE), last.types), Unvalidated(c), Annotations(heap[d].src))
(* port::validate for every port of d: [ports, cache, types], the types being what was found. *)
ValidatePorts(d, c) ==
  FoldLeft(LAMBDA last, t : Validation(last.ports, Find(heap, last.cache, d, t, TRUE), last.types), Unvalidated(c), Annotations(heap[d].src))
Validated(d, c) ==
  IF heap[d].src.kind # "function" THEN Unvalidated(c)
  ELSE IF heap[d].ports # "unchecked" THEN [Unvalidated(c) EXCEPT !.ports = heap[d].ports]
  ELSE ValidatePorts(d, c)

Thing(is, at) == [is |-> is, at |-> at]
Nothing == Thing("nothing", Nowhere)
IsParameter(s, n) == \E k \in DOMAIN heap[s].src.params : heap[s].src.params[k].name = n

(* capture_stack::find: the declarations of each scope outwards, then its parameters: [thing, cache]. *)
CaptureFind(s, n, c) ==
  LET Seen(a, r) == [thing |-> IF r.decl # Nowhere THEN Thing("declaration", r.decl)
                               ELSE IF IsParameter(a, n) THEN Thing("parameter", a) ELSE Nothing,
                     cache |-> r.cache]
  IN  FoldLeft(LAMBDA last, a : IF last.thing # Nothing THEN last ELSE Seen(a, Find(heap, last.cache, a, <<n>>, FALSE)),
               [thing |-> Nothing, cache |-> c], Chain(heap, s))

IndexIn(thing, n, c, recurse) ==
  LET Found(r) == [thing |-> IF r.decl = Nowhere THEN Nothing ELSE Thing("declaration", r.decl), cache |-> r.cache] IN
  IF thing.is # "declaration" THEN [thing |-> thing, cache |-> c]
  ELSE IF heap[thing.at].src.kind \notin {"struct", "namespace"} \/ heap[thing.at].decls = NoDecls
       THEN [thing |-> Nothing, cache |-> c]
  ELSE Found(Find(heap, c, thing.at, <<n>>, recurse))
(* ...if what an index does not find were looked for further out: *)
IndexOutwards(thing, n, c) == IndexIn(thing, n, c, TRUE)
(* namespace_declaration::index, struct_declaration::index; what a parameter is indexed with is left open. *)
Index(thing, n, c) == IndexIn(thing, n, c, FALSE)
Resolve(s, p, c) == FoldLeft(LAMBDA last, n : Index(last.thing, n, last.cache), CaptureFind(s, Head(p), c), Tail(p))
ResolveUses(d, c) ==
  LET Added(last, r) == [things |-> Append(last.things, r.thing), cache |-> r.cache] IN
  FoldLeft(LAMBDA last, p : Added(last, Resolve(d, p, last.cache)), [things |-> <<>>, cache |-> c], heap[d].src.uses)
(* A return that a stale entry of the cache found for a scope without one, a pointer to what is gone, is left out. *)
Body(d) ==
  IF heap[d].src.kind = "function" /\ heap[d].src.body = "scope" /\ Declares(heap, d, "return")
  THEN <<heap[d].decls["return"]>> ELSE <<>>
Callees(things) == FoldLeft(LAMBDA ds, t : IF t.is = "declaration" THEN Append(ds, t.at) ELSE ds, <<>>, things)

(* The host's declaration is on the boundary: every port has a type that is a struct of such types. *)
Checked(d) == heap[d].src.kind = "function"
Boundary ==
  /\ task.api # "none" /\ task.phase = "ready" /\ task.api = "compile_declaration"
  /\ LET d == task.decl IN
     \E v \in {IF Checked(d) THEN ValidatePorts(d, cache) ELSE [Unvalidated(cache) EXCEPT !.ports = "invalid"]} :
       /\ heap' = IF Checked(d) /\ heap[d].ports = "unchecked" THEN [heap EXCEPT ![d].ports = v.ports] ELSE heap
       /\ cache' = v.cache
       /\ \/ /\ Checked(d) /\ heap[d].ports # "invalid" /\ v.ports = "valid"
             /\ Len(v.types) = Len(heap[d].src.params) + 1 /\ \A k \in DOMAIN v.types : heap[v.types[k]].src.kind = "struct"
             /\ task' = [task EXCEPT !.types = v.types, !.phase = "types"]
          \/ /\ \/ ~Checked(d) \/ heap[d].ports = "invalid" \/ v.ports = "invalid"
                \/ Len(v.types) # Len(heap[d].src.params) + 1 \/ \E k \in DOMAIN v.types : heap[v.types[k]].src.kind # "struct"
             /\ task' = [task EXCEPT !.error = "INVALID_BOUNDARY", !.phase = "compile"]
  /\ UNCHANGED <<intrinsics, parseOnly, preludeLoaded, handles, hostContext, frames, resolved, result, calls>>

(* struct_declaration::deserializable, one struct at a time. *)
CheckType ==
  /\ task.api # "none" /\ task.phase = "types"
  /\ \/ /\ task.types = <<>> /\ task' = [task EXCEPT !.phase = "compile", !.todo = <<task.decl>>] /\ UNCHANGED cache
     \/ /\ task.types # <<>>
        /\ \E v \in {ValidatePorts(Head(task.types), cache)} :
             cache' = v.cache /\ task' = [task EXCEPT !.types = v.types \o Tail(@)]
  /\ UNCHANGED <<heap, intrinsics, parseOnly, preludeLoaded, handles, hostContext, frames, resolved, result, calls>>

(* An expression becomes the temporary declaration <REMOVE> of the global scope. *)
Temporary(e) == [name |-> Temp, kind |-> "function", params |-> <<>>, out |-> <<>>, body |-> "expression",
                 inner |-> <<>>, uses |-> e.uses]
BuildExpression ==
  /\ task.api \in {"compile_expression", "typeof_expression"} /\ task.phase = "ready" /\ ~task.second
  /\ \/ /\ ~task.expr.parses \/ Declares(heap, Global, Temp)
        /\ task' = [task EXCEPT !.error = IF task.expr.parses THEN "UNKNOWN" ELSE "PARSE", !.phase = "compile"]
        /\ UNCHANGED <<heap, cache>>
     \/ /\ task.expr.parses /\ ~Declares(heap, Global, Temp)
        /\ \E a \in Unused(heap) :
             \E heap2 \in {AddDeclaration([heap EXCEPT ![a] = Cell(Temp, Global, Temporary(task.expr))], Global, a)} :
             \E found \in {Find(heap2, [cache EXCEPT !.marked = TRUE], Global, <<Temp>>, FALSE)} :
                 /\ heap' = heap2 /\ cache' = found.cache
                 /\ task' = [task EXCEPT !.todo = <<found.decl>>, !.decl = found.decl, !.phase = "compile"]
  /\ UNCHANGED <<intrinsics, parseOnly, preludeLoaded, handles, hostContext, frames, resolved, result, calls>>

(* A context for its own sake, or the second one an expression that is a function is compiled in. *)
Ready ==
  /\ task.api # "none" /\ task.phase = "ready"
  /\ \/ task.api = "context_create" /\ task' = [task EXCEPT !.phase = "compile"]
     \/ /\ task.second
        /\ task' = IF task.expr.function = "unbounded" THEN [task EXCEPT !.error = "INVALID_BOUNDARY", !.phase = "compile"]
                   ELSE [task EXCEPT !.phase = "compile", !.todo = <<task.decl>>]
  /\ UNCHANGED <<heap, cache, intrinsics, parseOnly, preludeLoaded, handles, hostContext, frames, resolved, result, calls>>

CompileStep ==
  /\ task.api # "none" /\ task.phase = "compile" /\ task.todo # <<>>
  /\ LET d == Head(task.todo) IN
     \E v \in {Validated(d, cache)} :
     \E r \in {IF v.ports = "invalid" THEN [things |-> <<>>, cache |-> v.cache] ELSE ResolveUses(d, v.cache)} :
       /\ heap' = IF heap[d].src.kind = "function" THEN [heap EXCEPT ![d].ports = v.ports] ELSE heap
       /\ cache' = r.cache
       /\ resolved' = {<<d, k, r.things[k]>> : k \in DOMAIN r.things}
       /\ task' = IF v.ports = "invalid" \/ Nothing \in Range(r.things)
                  THEN [task EXCEPT !.error = "IDENTIFIER_NOT_FOUND", !.todo = <<>>]
                  ELSE [task EXCEPT !.todo = Callees(r.things) \o Body(d) \o Tail(@)]
  /\ UNCHANGED <<intrinsics, parseOnly, preludeLoaded, handles, hostContext, frames, result, calls>>

(* The context is destroyed when its call ends, and nothing is marked. *)
EndCompile ==
  /\ task.api # "none" /\ task.phase = "compile" /\ task.todo = <<>>
  /\ resolved' = {}
  /\ \/ /\ task.api = "compile_declaration"
        /\ heap' = Destroy(heap, task.ctx) /\ task' = Idle
        /\ result' = IF task.error = "INVALID_BOUNDARY" THEN task.error ELSE OK
        /\ UNCHANGED hostContext
     \/ /\ task.api = "simplify" /\ task' = Idle /\ result' = task.error /\ UNCHANGED <<heap, hostContext>>
     \/ /\ task.api = "context_create" /\ task' = Idle /\ result' = OK /\ hostContext' = task.ctx /\ UNCHANGED heap
     \/ /\ task.api \in {"compile_expression", "typeof_expression"}
        /\ heap' = Destroy(heap, task.ctx)
        /\ task' = IF task.api = "compile_expression" /\ task.error = OK /\ task.expr.function # "none" /\ ~task.second
                   THEN [task EXCEPT !.phase = "context", !.second = TRUE] ELSE [task EXCEPT !.phase = "remove"]
        /\ UNCHANGED <<result, hostContext>>
  /\ UNCHANGED <<cache, intrinsics, parseOnly, preludeLoaded, handles, frames, calls>>

(* ...with the temporary declaration left behind when the expression fails: *)
RemoveCompiled ==
  /\ task.api # "none" /\ task.phase = "remove"
  /\ LET r == RemoveDeclaration(heap, cache, Global, Temp) IN
       IF task.error = OK THEN heap' = r.heap /\ cache' = r.cache ELSE UNCHANGED <<heap, cache>>
  /\ result' = IF task.second /\ task.error # "INVALID_BOUNDARY" THEN OK ELSE task.error
  /\ task' = Idle
  /\ UNCHANGED <<intrinsics, parseOnly, preludeLoaded, handles, hostContext, frames, resolved, calls>>

(* Every way out of the two calls removes the temporary declaration; a function that does not compile is no error. *)
RemoveExpression ==
  /\ task.api # "none" /\ task.phase = "remove"
  /\ LET r == RemoveDeclaration(heap, cache, Global, Temp) IN heap' = r.heap /\ cache' = r.cache
  /\ result' = IF task.second /\ task.error # "INVALID_BOUNDARY" THEN OK ELSE task.error
  /\ task' = Idle
  /\ UNCHANGED <<intrinsics, parseOnly, preludeLoaded, handles, hostContext, frames, resolved, calls>>

-----------------------------------------------------------------------------
(* A host that has made all its calls rests; a call that could not go on would be a deadlock. *)
Rest == task = Idle /\ calls = Calls /\ UNCHANGED vars

Next ==
  \/ LoadString \/ LoadFiles \/ LoadPackage \/ LoadPackages \/ LoadPrelude
  \/ \E b \in BOOLEAN : SetParseOnly(b)
  \/ \E p \in Paths : FindDeclaration(p)
  \/ CompileDeclaration \/ ContextCreate \/ Simplify \/ ContextDelete
  \/ ExpressionCall("compile_expression") \/ ExpressionCall("typeof_expression")
  \/ NextFile \/ EndGroup \/ EndLoad \/ BuildEnter \/ BuildLeave \/ BuildEnd
  \/ NewContext \/ LoadListFold \/ Boundary \/ CheckType \/ BuildExpression \/ Ready
  \/ CompileStep \/ EndCompile \/ RemoveExpression
  \/ Rest

Spec == Init /\ [][Next]_vars
-----------------------------------------------------------------------------
(* Properties *)

Roots == {Global, hostContext} \cup (IF "ctx" \in DOMAIN task THEN {task.ctx} ELSE {})
Building == {frames[k].at : k \in DOMAIN frames}

(* The heap is a forest of scopes that own their declarations: what is declared is live and lies in the scope
   that declares it, and what is live is declared by its parent, being built, or a scope of its own
   (scope::declarations, our_scope, parent_scope). *)
TypeOK ==
  /\ parseOnly \in BOOLEAN /\ preludeLoaded \in BOOLEAN /\ calls \in 0..Calls
  /\ heap[Global].live /\ heap[Global].parent = Nowhere
  /\ \A s \in Live(heap) : \A n \in DOMAIN heap[s].decls :
       LET d == heap[s].decls[n] IN d \in Live(heap) /\ heap[d].parent = s /\ heap[d].name = n
  /\ \A d \in Live(heap) \ (Building \cup Roots) :
       heap[d].parent \in Live(heap) /\ Declares(heap, heap[d].parent, heap[d].name)
       /\ heap[heap[d].parent].decls[heap[d].name] = d

(* Between calls the cache agrees with the scopes: whatever is remembered for a scope that still exists is what
   looking it up would find, though declarations have come and gone since (scope_caches::get, mark_to_clear). *)
CacheAgrees ==
  task = Idle /\ ~cache.marked =>
    \A e \in cache.entries : e[1] \in Live(heap) => e[3] = Named(heap, e[1], e[2])

(* A declaration handed to the host stays: no later load, failed ones included, and no expression destroys it
   or makes its path name another one (element_declaration, scope::merge). *)
HandlesResolve == \A h \in handles : h[2] \in Live(heap) /\ Named(heap, Global, h[1]) = h[2]

(* No call leaves the temporary declaration of an expression in the program, whichever way it failed
   (element_interpreter_compile_expression, typeof_expression). *)
NoLeftover == task = Idle => ~Declares(heap, Global, Temp)

PreludeDecls == IF Group("Prelude").exists THEN UNION {Range(Files[f].decls) : f \in Group("Prelude").files} ELSE {}
(* Once the interpreter counts the Prelude as loaded all of it is there, and is the Prelude's own, however many
   attempts failed half way before and whatever else was loaded in between (load_prelude, prelude_loaded). *)
PreludeWhole ==
  preludeLoaded => \A d \in PreludeDecls : Declares(heap, Global, d.name) /\ heap[heap[Global].decls[d.name]].src = d

(* A remembered verdict that a declaration's ports are valid stays right: every type they name still is found,
   and still is a type (function_declaration::validate_ports, port::validate). *)
VerdictsSound ==
  \A d \in Live(heap) : heap[d].ports = "valid" =>
    \A k \in DOMAIN Annotations(heap[d].src) :
      LET t == Named(heap, d, Annotations(heap[d].src)[k]) IN t # Nowhere /\ IsType(t)

(* The rules for names: a name is the nearest declaration or parameter outwards of the scope it is used in; what follows a
   dot is looked for in what the name before it stands for and nowhere else. *)
Nearest(s, n) ==
  LET Out[a \in Live(heap) \cup {Nowhere}] ==
        IF a = Nowhere THEN Nothing
        ELSE IF Declares(heap, a, n) THEN Thing("declaration", heap[a].decls[n])
        ELSE IF IsParameter(a, n) THEN Thing("parameter", a) ELSE Out[heap[a].parent]
  IN  Out[s]
Member(t, n) ==
  IF t.is # "declaration" THEN t
  ELSE IF Declares(heap, t.at, n) THEN Thing("declaration", heap[t.at].decls[n]) ELSE Nothing
Meaning(s, p) == FoldLeft(Member, Nearest(s, Head(p)), Tail(p))
(* Every name that compiling resolves means what the rules say, whatever lookups were made and remembered before
   (capture_stack::find, struct_declaration::index, namespace_declaration::index, scope::find). *)
ResolvesByTheRules ==
  \A r \in resolved : r[3] = Meaning(r[1], heap[r[1]].src.uses[r[2]])
=============================================================================
