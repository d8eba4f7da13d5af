---------------------------- MODULE ElementParser ----------------------------
(***************************************************************************)
(* The parser, the validation of its tree, and the object model built from *)
(* that: parser_internal.cpp and object_model_builder.cpp of libelement.   *)
(*                                                                         *)
(* The functions of the parser call each other; here the calls still to    *)
(* make are goals, first one first, and one step runs one function up to   *)
(* the next call.  A node has its type, its identifier, whether its        *)
(* declaration is intrinsic, and its children.  The tokens are chosen as   *)
(* the parser reads them: each run begins with one of Beginnings and goes  *)
(* on with as many tokens of Alphabet as that allows.                      *)
(***************************************************************************)
EXTENDS ElementGrammar, SequencesExt

CONSTANTS
  Alphabet,     \* tokens that continue a text
  Beginnings,   \* [start |-> tokens, free |-> how many more may follow]
  Intrinsics    \* the name of each intrinsic there is, and the kind it has to be

VARIABLES
  given,        \* the beginning of this run
  text,         \* the tokens read; the last one is current_token
  todo,         \* goals
  open,         \* nodes being built, each one inside the one before it
  result

pvars == <<given, text, todo, open, result>>

Cur == Last(text)
Node(type) == [type |-> type, name |-> "", intrinsic |-> FALSE, kids |-> <<>>]
Declaration(intrinsic) == [Node("DECLARATION") EXCEPT !.intrinsic = intrinsic]

Upcoming ==
  IF Len(text) < Len(given.start) THEN {given.start[Len(text) + 1]}
  ELSE IF Len(text) < Len(given.start) + given.free THEN Alphabet \cup {"eof"}
  ELSE {"eof"}

-----------------------------------------------------------------------------
(* What a function of the parser does                                       *)

Goal(g) == result = "PARSING" /\ todo # <<>> /\ Head(todo) = g
Advance == \E t \in Upcoming : text' = Append(text, t)
Stay == text' = text
Then(goals) == todo' = goals \o Tail(todo) /\ UNCHANGED <<given, result>>
Fail(error) == result' = error /\ UNCHANGED <<given, todo, open>>
Refuse == Fail("PARSE") /\ Stay

Inner == Last(open)
Opened(nodes) == open' = open \o nodes
Within(nodes, kid) == [nodes EXCEPT ![Len(nodes)].kids = Append(@, kid)]
Leaf(type) == open' = Within(open, Node(type))
SameNodes == open' = open

\* Goals that stand for an optional part: a mark, and what follows it
Optional(g, mark, goals, absent) ==
  /\ Goal(g)
  /\ IF Cur = mark THEN Advance /\ SameNodes /\ Then(goals)
     ELSE Stay /\ Then(<<>>) /\ IF absent = "" THEN SameNodes ELSE Leaf(absent)

\* The node being built is complete
Close ==
  /\ Goal("close")
  /\ open' = Within(Front(open), Inner)
  /\ Stay /\ Then(<<>>)

\* A node that encloses the rest of the tokens of one goal
Enclosed(g, mark, type, goals) ==
  /\ Goal(g) /\ Cur = mark
  /\ Advance /\ Opened(<<Node(type)>>)
  /\ Then(goals \o <<"close">>)

-----------------------------------------------------------------------------
(* Declarations                                                             *)

\* parse
Root ==
  /\ Goal("root")
  /\ Stay /\ SameNodes
  /\ Then(IF Cur = "eof" THEN <<>> ELSE <<"item", "root">>)

\* parse_item and what it calls
Items == {"item", "intrinsic item"}
IsItem == \E g \in Items : Goal(g)
Flag == Head(todo) = "intrinsic item"

Namespace == Enclosed("item", "namespace", "NAMESPACE", <<"identifier", "scope">>)

Qualifier ==
  /\ Goal("item") /\ Cur = "intrinsic"
  /\ Advance /\ SameNodes
  /\ Then(<<"intrinsic item">>)

\* parse_struct and parse_constraint, up to the end of the declaration
Construct(word, type, goal) ==
  /\ IsItem /\ Cur = word
  /\ Advance /\ Opened(<<Node(type), Declaration(Flag)>>)
  /\ Then(<<"identifier", "inputs", "type", "close", goal, "close">>)
StructItem == Construct("struct", "STRUCT", "struct body")
ConstraintItem == Construct("constraint", "CONSTRAINT", "constraint end")

FunctionItem ==
  /\ IsItem
  /\ Cur \notin {"struct", "constraint"}
  /\ ~Flag => Cur \notin {"namespace", "intrinsic"}
  /\ IF Cur = "function" /\ Flag THEN Advance ELSE Stay
  /\ Opened(<<Node("FUNCTION"), Declaration(Flag)>>)
  /\ Then(<<"identifier", "inputs", "type", "close", "function body", "close">>)

\* Only a function directly in the scope of another, or of a lambda, is named return
MayReturn ==
  LET n == Len(open) IN
  /\ n > 3
  /\ open[n].type = "DECLARATION" /\ open[n - 1].type = "FUNCTION" /\ open[n - 2].type = "SCOPE"
  /\ open[n - 3].type \in {"FUNCTION", "LAMBDA"}
\* Mutant: any function may be named return
ReservedElsewhere(word) ==
  word \in Constructs \/ (word = "return" /\ open[Len(open) - 1].type # "FUNCTION")
Reserved(word) == word \in Constructs \/ (word = "return" /\ ~MayReturn)

Identifier ==
  /\ Goal("identifier")
  /\ IF Cur \notin Words THEN Refuse
     ELSE /\ Advance
          /\ IF Reserved(Cur) THEN Fail("RESERVED_IDENTIFIER")
             ELSE open' = [open EXCEPT ![Len(open)].name = Cur] /\ Then(<<>>)

HasPorts(decl) == decl.kids[1].type = "PORTLIST"
StructBody ==
  /\ Goal("struct body")
  /\ LET decl == Inner.kids[1] IN
     IF (~decl.intrinsic /\ ~HasPorts(decl)) \/ decl.kids[2].type # "UNSPECIFIED_TYPE" THEN Refuse
     ELSE Stay /\ IF Cur = "{" THEN SameNodes /\ Then(<<"scope">>) ELSE Leaf("NO_BODY") /\ Then(<<>>)

ConstraintEnd ==
  /\ Goal("constraint end")
  /\ LET decl == Inner.kids[1] IN
     IF (~decl.intrinsic /\ ~HasPorts(decl)) \/ Cur = "{" THEN Refuse
     ELSE Stay /\ Leaf("NO_BODY") /\ Then(<<>>)

\* parse_function and parse_function_body
FunctionBody ==
  /\ Goal("function body")
  /\ IF Cur = "{" THEN Stay /\ SameNodes /\ Then(<<"scope">>)
     ELSE IF Cur = "=" THEN Advance /\ SameNodes /\ Then(<<"expression">>)
     ELSE IF Inner.type = "FUNCTION" /\ Inner.kids[1].intrinsic THEN Stay /\ Leaf("NO_BODY") /\ Then(<<>>)
     ELSE Refuse

Scope ==
  /\ Goal("scope")
  /\ Opened(<<Node("SCOPE")>>)
  /\ IF Cur = "{" THEN Advance ELSE Stay
  /\ Then(<<"items", "close">>)
\* Mutant: a scope ends with the text, too
ScopeItemsToEnd ==
  /\ Goal("items") /\ SameNodes
  /\ IF Cur \in {"}", "eof"} THEN Advance /\ Then(<<>>) ELSE Stay /\ Then(<<"item", "items">>)
ScopeItems ==
  /\ Goal("items") /\ SameNodes
  /\ IF Cur = "}" THEN Advance /\ Then(<<>>) ELSE Stay /\ Then(<<"item", "items">>)

-----------------------------------------------------------------------------
(* Ports and types                                                          *)

Inputs ==
  /\ Goal("inputs")
  /\ IF Cur = "(" THEN Advance /\ Opened(<<Node("PORTLIST")>>) /\ Then(<<"port", "ports", "close", ")">>)
     ELSE Stay /\ Leaf("NONE") /\ Then(<<>>)
LambdaPorts ==
  /\ Goal("lambda ports")
  /\ IF Cur = "(" THEN Advance /\ Opened(<<Node("PORTLIST")>>) /\ Then(<<"port", "ports", "close", ")">>)
     ELSE Refuse
Port ==
  /\ Goal("port")
  /\ IF Cur \notin Words \cup {"_"} THEN Refuse
     ELSE /\ Opened(<<Node("PORT")>>)
          /\ IF Cur = "_" THEN Advance ELSE Stay
          /\ Then((IF Cur = "_" THEN <<>> ELSE <<"identifier">>) \o <<"type", "default", "close">>)
MorePorts == Optional("ports", ",", <<"port", "ports">>, "")
Default == Optional("default", "=", <<"expression">>, "UNSPECIFIED_DEFAULT")
Type ==
  /\ Goal("type")
  /\ IF Cur = ":" THEN Advance /\ Opened(<<Node("TYPENAME")>>) /\ Then(<<"expression", "close">>)
     ELSE Stay /\ Leaf("UNSPECIFIED_TYPE") /\ Then(<<>>)
ClosingBracket ==
  /\ Goal(")")
  /\ IF Cur = ")" THEN Advance /\ SameNodes /\ Then(<<>>) ELSE Refuse

-----------------------------------------------------------------------------
(* Expressions                                                              *)

Expression ==
  /\ Goal("expression")
  /\ Stay
  /\ IF Cur \in Words \cup Numbers
       THEN /\ Opened(<<Node("CALL")>>)
            /\ Then(<<IF Cur \in Words THEN "identifier" ELSE "literal", "chain", "close">>)
     ELSE IF Cur \in {"_", "{"} THEN SameNodes /\ Then(<<IF Cur = "_" THEN "lambda" ELSE "block">>)
     ELSE Fail("PARSE")

Literal ==
  /\ Goal("literal")
  /\ Advance
  /\ open' = [open EXCEPT ![Len(open)].type = "LITERAL", ![Len(open)].name = Cur]
  /\ Then(<<>>)

\* parse_call after its first part
Arguments ==
  /\ Goal("chain") /\ Cur = "("
  /\ Advance
  /\ IF Last(text') = ")" THEN Fail("PARSE")
     ELSE Opened(<<Node("EXPRLIST")>>) /\ Then(<<"expression", "arguments", "close", ")", "chain">>)
MoreArguments == Optional("arguments", ",", <<"expression", "arguments">>, "")
\* Mutant: no node of its own
IndexInto == Goal("chain") /\ Cur = "." /\ Advance /\ SameNodes /\ Then(<<"identifier", "chain">>)
Index ==
  /\ Goal("chain") /\ Cur = "."
  /\ Advance /\ Opened(<<Node("CALL")>>) /\ Then(<<"identifier", "close", "chain">>)
EndOfChain == Goal("chain") /\ Cur \notin {"(", "."} /\ Stay /\ SameNodes /\ Then(<<>>)

Lambda == Enclosed("lambda", "_", "LAMBDA", <<"lambda ports", "type", "function body">>)

AnonymousBlock ==
  /\ Goal("block")
  /\ Advance
  /\ IF Last(text') = "}" THEN Fail("PARSE")
     ELSE Opened(<<Node("ANONYMOUS_BLOCK")>>) /\ Then(<<"block items", "close">>)
BlockItems ==
  /\ Goal("block items") /\ SameNodes
  /\ IF Cur = "}" THEN Advance /\ Then(<<>>) ELSE Stay /\ Then(<<"item", "comma", "block items">>)
Comma ==
  /\ Goal("comma")
  /\ CASE Cur = "," -> Advance /\ SameNodes /\ Then(<<>>)
       [] Cur = "}" -> Stay /\ SameNodes /\ Then(<<>>)
       [] OTHER     -> Fail("MISSING_COMMA_IN_ANONYMOUS_BLOCK") /\ Stay

Parse ==
  \/ Root \/ Namespace \/ Qualifier \/ StructItem \/ ConstraintItem \/ FunctionItem \/ Identifier
  \/ StructBody \/ ConstraintEnd \/ FunctionBody \/ Scope \/ ScopeItems
  \/ Inputs \/ LambdaPorts \/ Port \/ MorePorts \/ Default \/ Type \/ ClosingBracket
  \/ Expression \/ Literal \/ Arguments \/ MoreArguments \/ Index \/ EndOfChain
  \/ Lambda \/ AnonymousBlock \/ BlockItems \/ Comma \/ Close

-----------------------------------------------------------------------------
(* The tree: validate and what it calls                                     *)

Tree == open[1]
DeclaredAs(n) == IF n.type = "NAMESPACE" THEN n.name ELSE n.kids[1].name
Repeats(names) == \E i, j \in DOMAIN names : i < j /\ names[i] = names[j]
NamesOf(kids) == [i \in DOMAIN kids |-> kids[i].name]
Functions(n) == SelectSeq(n.kids, LAMBDA k : k.type = "FUNCTION")

\* validate_portlist, validate_struct, validate_scope: the complaint about one node
ValidateType(n) ==
  CASE n.type = "PORTLIST" -> IF Repeats(NamesOf(n.kids)) THEN "MULTIPLE_DEFINITIONS" ELSE "OK"
    [] n.type = "STRUCT" ->
         \* the first child of a member is its declaration, but the scope of a namespace
         IF n.kids[2].type = "SCOPE"
              /\ \E i \in DOMAIN n.kids[2].kids : n.kids[1].name = n.kids[2].kids[i].kids[1].name
           THEN "INVALID_IDENTIFIER" ELSE "OK"
    [] n.type \in {"ROOT", "SCOPE"} ->
         IF Repeats([i \in DOMAIN Functions(n) |-> DeclaredAs(Functions(n)[i])]) THEN "MULTIPLE_DEFINITIONS" ELSE "OK"
    [] OTHER -> "OK"

\* The first complaint, a node before its children
RECURSIVE ValidateNode(_)
ValidateNode(n) ==
  IF ValidateType(n) # "OK" THEN ValidateType(n)
  ELSE FoldLeft(LAMBDA r, k : IF r = "OK" THEN ValidateNode(k) ELSE r, "OK", n.kids)

Validate ==
  /\ result = "PARSING" /\ todo = <<>>
  /\ result' = IF ValidateNode(Tree) = "OK" THEN "VALID" ELSE ValidateNode(Tree)
  /\ UNCHANGED <<given, text, todo, open>>

-----------------------------------------------------------------------------
(* The object model: whether building it complains of nothing               *)

RegisterIntrinsic(name, kind) == name \in DOMAIN Intrinsics /\ Intrinsics[name] = kind
Defaults(inputs) == {i \in DOMAIN inputs : inputs[i].kids[2].type # "UNSPECIFIED_DEFAULT"}

RECURSIVE BuildScope(_), BuildDeclaration(_), BuildExpressionChain(_)
\* What is declared in the scope of n, and whether all of it was built
BuildScope(n) ==
  FoldLeft(LAMBDA built, k :
             IF BuildDeclaration(k) /\ DeclaredAs(k) \notin built.names
               THEN [built EXCEPT !.names = @ \cup {DeclaredAs(k)}]
               ELSE [built EXCEPT !.ok = FALSE],
           [ok |-> TRUE, names |-> {}], n.kids)

\* Annotations become text, whatever they hold
BuildInputs(inputs) == \A i \in Defaults(inputs) : BuildExpressionChain(inputs[i].kids[2])

\* A body that is a scope has to declare a return
BuildBody(body) ==
  IF body.type = "SCOPE"
    THEN LET built == BuildScope(body) IN built.ok /\ "return" \in built.names
  ELSE BuildExpressionChain(body)

BuildFunction(n) ==
  LET decl == n.kids[1]  body == n.kids[2]  inputs == decl.kids[1].kids IN
  /\ BuildInputs(inputs)
  /\ IF body.type = "NO_BODY" THEN RegisterIntrinsic(decl.name, "FUNCTION") ELSE BuildBody(body)
  /\ \A i \in DOMAIN inputs :
       /\ body.type = "SCOPE" => inputs[i].name \notin BuildScope(body).names
       /\ i \notin Defaults(inputs) => \A j \in 1..(i - 1) : j \notin Defaults(inputs)

BuildStruct(n) ==
  LET decl == n.kids[1]  inputs == decl.kids[1].kids IN
  /\ BuildInputs(inputs)
  /\ decl.intrinsic => RegisterIntrinsic(decl.name, "STRUCT")
  /\ n.kids[2].type = "SCOPE" => BuildScope(n.kids[2]).ok
  /\ \A i \in DOMAIN inputs : inputs[i].name # ""

BuildConstraint(n) ==
  /\ BuildInputs(n.kids[1].kids[1].kids)
  /\ n.kids[1].intrinsic => RegisterIntrinsic(n.kids[1].name, "CONSTRAINT")

BuildDeclaration(n) ==
  CASE n.type = "STRUCT" -> BuildStruct(n)
    [] n.type = "FUNCTION" -> BuildFunction(n)
    [] n.type = "NAMESPACE" -> BuildScope(n.kids[1]).ok
    [] n.type = "CONSTRAINT" ->
         /\ BuildInputs(n.kids[1].kids[1].kids)
         /\ n.kids[1].intrinsic => RegisterIntrinsic(n.kids[1].name, "CONSTRAINT")

\* Mutant: arguments are not looked into
BuildShallowChain(e) ==
  CASE e.type = "LAMBDA" -> BuildInputs(e.kids[1].kids) /\ BuildBody(e.kids[3])
    [] e.type = "ANONYMOUS_BLOCK" -> BuildScope(e).ok
    [] OTHER -> TRUE
BuildExpressionChain(e) ==
  CASE e.type = "LAMBDA" -> BuildInputs(e.kids[1].kids) /\ BuildBody(e.kids[3])
    [] e.type = "ANONYMOUS_BLOCK" -> BuildScope(e).ok
    [] OTHER -> \A i \in DOMAIN e.kids :
                  e.kids[i].type = "EXPRLIST" =>
                    \A j \in DOMAIN e.kids[i].kids : BuildExpressionChain(e.kids[i].kids[j])

BuildRootScope ==
  /\ result = "VALID"
  /\ result' = IF BuildScope(Tree).ok THEN "OK" ELSE "REFUSED"
  /\ UNCHANGED <<given, text, todo, open>>

-----------------------------------------------------------------------------

Init ==
  /\ given \in Beginnings
  /\ text = <<>>
  /\ todo = <<"root">>
  /\ open = <<Node("ROOT")>>
  /\ result = "READING"

\* current_token, before the first call
Start ==
  /\ result = "READING" /\ result' = "PARSING"
  /\ Advance
  /\ UNCHANGED <<given, todo, open>>

Done == result \notin {"READING", "PARSING", "VALID"} /\ UNCHANGED pvars

Next == Start \/ Parse \/ Validate \/ BuildRootScope \/ Done
Spec == Init /\ [][Next]_pvars

-----------------------------------------------------------------------------
(* Reading the tree back                                                    *)

\* The kids as texts with a mark between them
Marked(texts, mark) ==
  FoldLeft(LAMBDA sofar, t : IF sofar = <<>> THEN t ELSE sofar \o <<mark>> \o t, <<>>, texts)

RECURSIVE Spell(_)
Spell(n) ==
  LET kids == [i \in DOMAIN n.kids |-> Spell(n.kids[i])]
      all == FlattenSeq(kids)
      Bodied(k, body) == IF n.kids[k].type \in {"SCOPE", "NO_BODY"} THEN body ELSE <<"=">> \o body IN
  CASE n.type = "ROOT" -> all
    [] n.type = "NAMESPACE" -> <<"namespace", n.name>> \o Tail(all)    \* see Plain
    [] n.type = "STRUCT" ->
         IF n.kids[1].intrinsic THEN <<"intrinsic", "struct">> \o Tail(all) ELSE <<"struct">> \o all
    [] n.type = "CONSTRAINT" ->
         IF n.kids[1].intrinsic THEN <<"intrinsic", "constraint">> \o Tail(all) ELSE <<"constraint">> \o all
    [] n.type = "FUNCTION" -> kids[1] \o Bodied(2, kids[2])
    [] n.type = "DECLARATION" -> (IF n.intrinsic THEN <<"intrinsic">> ELSE <<>>) \o <<n.name>> \o all
    [] n.type \in {"SCOPE", "ANONYMOUS_BLOCK"} ->
         <<"{">> \o (IF n.type = "SCOPE" THEN all ELSE Marked(kids, ",")) \o <<"}">>
    [] n.type \in {"PORTLIST", "EXPRLIST"} -> <<"(">> \o Marked(kids, ",") \o <<")">>
    [] n.type = "PORT" ->
         <<IF n.name = "" THEN "_" ELSE n.name>> \o kids[1]
           \o (IF n.kids[2].type = "UNSPECIFIED_DEFAULT" THEN <<>> ELSE <<"=">> \o kids[2])
    [] n.type = "TYPENAME" -> <<":">> \o all
    [] n.type \in {"CALL", "LITERAL"} ->
         <<n.name>> \o FlattenSeq([i \in DOMAIN kids |-> IF n.kids[i].type = "CALL" THEN <<".">> \o kids[i] ELSE kids[i]])
    [] n.type = "LAMBDA" -> <<"_">> \o kids[1] \o kids[2] \o Bodied(3, kids[3])
    [] OTHER -> <<>>

\* text without what is optional in it: the word function, the brace of a
\* namespace, a last comma, and the end
Plain(t) ==
  LET Drop(i) ==
        \/ t[i] = "eof"
        \/ t[i] = "function" /\ i > 1 /\ t[i - 1] = "intrinsic"
        \/ t[i] = "{" /\ i > 2 /\ t[i - 2] = "namespace"
        \/ t[i] = "," /\ t[i + 1] = "}"
      Kept == SelectSeq([i \in DOMAIN t |-> i], LAMBDA i : ~Drop(i)) IN
  [k \in DOMAIN Kept |-> t[Kept[k]]]

-----------------------------------------------------------------------------
(* A sound program, said of its nodes one by one                            *)

RECURSIVE Nodes(_)
Nodes(n) == {n} \cup UNION {Nodes(n.kids[i]) : i \in DOMAIN n.kids}
RECURSIVE Annotations(_)
Annotations(n) ==
  IF n.type = "TYPENAME" THEN {n} ELSE UNION {Annotations(n.kids[i]) : i \in DOMAIN n.kids}
SimpleTypes(n) == \A a \in Annotations(n) : \A k \in Nodes(a) : k.type \in {"TYPENAME", "CALL", "LITERAL"}

Members(n) == [i \in DOMAIN n.kids |-> DeclaredAs(n.kids[i])]
Sound(n) ==
  CASE n.type \in {"ROOT", "SCOPE", "ANONYMOUS_BLOCK"} -> ~Repeats(Members(n))
    [] n.type = "PORTLIST" -> ~Repeats(NamesOf(n.kids))
    [] n.type \in {"FUNCTION", "LAMBDA"} ->
         LET body == Last(n.kids)
             ports == IF n.type = "LAMBDA" THEN n.kids[1].kids ELSE n.kids[1].kids[1].kids
             names == {ports[i].name : i \in DOMAIN ports} IN
         /\ body.type = "SCOPE" => "return" \in ToSet(Members(body))
         /\ n.type = "FUNCTION" =>
              /\ body.type = "SCOPE" => names \cap ToSet(Members(body)) = {}
              /\ \A i \in 2..Len(ports) :
                   ports[i - 1].kids[2].type # "UNSPECIFIED_DEFAULT" => ports[i].kids[2].type # "UNSPECIFIED_DEFAULT"
              /\ body.type = "NO_BODY" => RegisterIntrinsic(n.kids[1].name, "FUNCTION")
    [] n.type = "STRUCT" ->
         /\ "" \notin ToSet(NamesOf(n.kids[1].kids[1].kids))
         \* a namespace in it may have its name
         /\ \A i \in DOMAIN n.kids[2].kids :
              n.kids[2].kids[i].type # "NAMESPACE" => n.kids[1].name # DeclaredAs(n.kids[2].kids[i])
         /\ n.kids[1].intrinsic => RegisterIntrinsic(n.kids[1].name, "STRUCT")
    [] n.type = "CONSTRAINT" -> n.kids[1].intrinsic => RegisterIntrinsic(n.kids[1].name, "CONSTRAINT")
    [] OTHER -> TRUE

-----------------------------------------------------------------------------

NodeTypes ==
  {"ROOT", "FUNCTION", "STRUCT", "NAMESPACE", "CONSTRAINT", "DECLARATION", "SCOPE", "EXPRLIST", "PORTLIST",
   "PORT", "TYPENAME", "CALL", "LITERAL", "LAMBDA", "ANONYMOUS_BLOCK"}
Results ==
  {"READING", "PARSING", "VALID", "OK", "PARSE", "RESERVED_IDENTIFIER", "MISSING_COMMA_IN_ANONYMOUS_BLOCK",
   "MULTIPLE_DEFINITIONS", "INVALID_IDENTIFIER", "REFUSED"}

\* Each node being built but the root has one call that will close it, and
\* nothing is read after the end of the text
TypeOK ==
  /\ result \in Results
  /\ \A i \in DOMAIN open : open[i].type \in NodeTypes
  /\ Len(SelectSeq(todo, LAMBDA g : g = "close")) = Len(open) - 1
  /\ \A i \in 1..(Len(text) - 1) : text[i] # "eof"
  /\ result \in {"VALID", "OK", "REFUSED"} => todo = <<>> /\ Cur = "eof"

\* The parser accepts no text that is not a program of the written grammar, and
\* gives up on none that more tokens could make one, but for the departures that
\* are not held against it
AcceptsTheGrammar ==
  /\ result = "VALID" => IsProgram(AtMost, text)
  /\ result \in {"PARSE", "RESERVED_IDENTIFIER", "MISSING_COMMA_IN_ANONYMOUS_BLOCK"} =>
       ~IsBeginning(AtLeast, text) /\ ~IsProgram(AtLeast, text)

\* The tree says what was read: every token in its place and nothing else
TreeSpells == result \in {"VALID", "MULTIPLE_DEFINITIONS", "INVALID_IDENTIFIER"} => Spell(Tree) = Plain(text)

\* What build_function_declaration asserts: an intrinsic function has no body.
\* All that the root declares is built
BodiedIntrinsic(n) == n.type = "FUNCTION" /\ n.kids[1].intrinsic /\ n.kids[2].type # "NO_BODY"
IntrinsicsHaveNoBody ==
  result \in {"OK", "REFUSED"} => \A i \in DOMAIN Tree.kids : ~BodiedIntrinsic(Tree.kids[i])

\* What is loaded is sound in every scope, however deep and wherever expressions
\* hide it, and what is refused is not; unless an assertion fails
LoadsTheSound ==
  (/\ result \in {"OK", "REFUSED", "MULTIPLE_DEFINITIONS", "INVALID_IDENTIFIER"}
   /\ SimpleTypes(Tree) /\ \A n \in Nodes(Tree) : ~BodiedIntrinsic(n)) =>
    ((result = "OK") <=> \A n \in Nodes(Tree) : Sound(n))
=============================================================================
