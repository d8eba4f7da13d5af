--------------------------- MODULE ElementGrammar ---------------------------
(***************************************************************************)
(* The grammar of the language, as src/Language/Grammar.ebnf writes it, and *)
(* a recogniser for it: what the parser is measured against.  A text is a  *)
(* sequence of tokens; words stand for themselves.                         *)
(*                                                                         *)
(* The file leaves two things to its reader: a declaration is one of a     *)
(* function, a struct or a constraint of either kind, and the words that   *)
(* the reference manual reserves are no identifiers (return is one inside  *)
(* the body of a function).  Where the parser departs from the file, the   *)
(* departure has a name, and the rules can be read either way.             *)
(***************************************************************************)
EXTENDS Naturals, Sequences, TLC

CONSTANTS
  Names,       \* the identifiers in use that are no words of the language
  AsWritten    \* departures of the parser that are held against it

\* The parser takes more than the rules: a namespace without its brace, a comma
\* after the last declaration of a block, an intrinsic function with a body or
\* without its second word, an intrinsic constraint with ports and a type
Looser == {"brace", "last comma", "intrinsic body", "word function", "intrinsic constraint"}
\* It refuses what the rules allow: a struct or a constraint without ports, and
\* a block with nothing in it
Stricter == {"struct ports", "constraint ports", "empty block"}

ASSUME GrammarAssumption == AsWritten \subseteq Looser \cup Stricter

Constructs == {"intrinsic", "struct", "namespace", "constraint"}   \* reserved everywhere
Words == Names \cup {"function", "return"} \cup Constructs         \* tokens that are identifiers
Numbers == {"1"}

\* Symbols in angle brackets are rules; all others are tokens.  The departures
\* in parsed are read as the parser does
Rules(parsed) ==
  LET More(d, reading) == IF d \in parsed THEN reading ELSE {}
      Less(d, reading) == IF d \in parsed THEN {} ELSE reading IN
  ("<name>" :> {<<n>> : n \in Names \cup {"function"}})
  @@ ("<declarations>" :> {<<>>, <<"<declaration>", "<declarations>">>})
  @@ ("<declaration>" :>
       {<<"<name>", "<ports?>", "<type?>", "<body>">>,
        <<"struct", "<name>", "<structPorts>", "<structBody?>">>,
        <<"namespace", "<name>", "<{>", "<declarations>", "}">>,
        <<"constraint", "<name>", "<constraintPorts>", "<type?>">>,
        <<"intrinsic", "<functionName>", "<ports?>", "<type?>", "<intrinsicBody>">>,
        <<"intrinsic", "struct", "<name>", "<ports?>", "<structBody?>">>,
        <<"intrinsic", "constraint", "<name>", "<intrinsicEnd>">>})
  @@ ("<structPorts>" :> {<<"<ports>">>} \cup Less("struct ports", {<<>>}))
  @@ ("<constraintPorts>" :> {<<"<ports>">>} \cup Less("constraint ports", {<<>>}))
  @@ ("<{>" :> {<<"{">>} \cup More("brace", {<<>>}))
  @@ ("<functionName>" :>
       {<<"function", "<name>">>} \cup More("word function", {<<n>> : n \in Names}))
  @@ ("<functionReturn>" :>
       {<<"function", "return">>} \cup More("word function", {<<"return">>}))
  @@ ("<intrinsicBody>" :> {<<>>} \cup More("intrinsic body", {<<"<body>">>}))
  @@ ("<intrinsicEnd>" :> {<<>>} \cup More("intrinsic constraint", {<<"<ports?>", "<type?>">>}))
  @@ ("<locals>" :> {<<>>, <<"<local>", "<locals>">>})
  @@ ("<local>" :>
       {<<"<declaration>">>, <<"return", "<ports?>", "<type?>", "<body>">>,
        <<"intrinsic", "<functionReturn>", "<ports?>", "<type?>", "<intrinsicBody>">>})
  @@ ("<block>" :> {<<"{", "<declarations>", "}">>})
  @@ ("<structBody?>" :> {<<>>, <<"<block>">>})
  @@ ("<body>" :> {<<"=", "<expression>">>, <<"{", "<locals>", "}">>})
  @@ ("<ports>" :> {<<"(", "<port>", "<moreports>", ")">>})
  @@ ("<ports?>" :> {<<>>, <<"<ports>">>})
  @@ ("<moreports>" :> {<<>>, <<",", "<port>", "<moreports>">>})
  @@ ("<port>" :> {<<"<name>", "<type?>", "<=?>">>, <<"_", "<type?>", "<=?>">>})
  @@ ("<type?>" :> {<<>>, <<":", "<expression>">>})
  @@ ("<=?>" :> {<<>>, <<"=", "<expression>">>})
  @@ ("<expression>" :>
       {<<"<name>", "<chain>">>} \cup {<<n, "<chain>">> : n \in Numbers}
         \cup {<<"_", "<ports>", "<type?>", "<body>">>}
         \cup {<<"{", "<declaration>", "<anonymous>", "}">>}
         \cup Less("empty block", {<<"{", "}">>}))
  @@ ("<chain>" :>
       {<<>>, <<".", "<name>", "<chain>">>, <<"(", "<expression>", "<more>", ")", "<chain>">>})
  @@ ("<more>" :> {<<>>, <<",", "<expression>", "<more>">>})
  @@ ("<anonymous>" :>
       {<<>>, <<",", "<declaration>", "<anonymous>">>} \cup More("last comma", {<<",">>}))

\* The most and the least that the parser may accept
AtMost == Rules(Looser \ AsWritten)
AtLeast == Rules(Stricter \ AsWritten)

\* Where a reading of symbols from the token at i can stop in text; Beyond when
\* the text ends before the symbols do
Beyond == 0
RECURSIVE Reads(_, _, _, _)
Reads(rules, text, symbols, i) ==
  IF symbols = <<>> THEN {i}
  ELSE LET s == Head(symbols) IN
       IF s \in DOMAIN rules
         THEN UNION {Reads(rules, text, rule \o Tail(symbols), i) : rule \in rules[s]}
       ELSE IF i > Len(text) THEN {Beyond}
       ELSE IF text[i] = s THEN Reads(rules, text, Tail(symbols), i + 1)
       ELSE {}

\* text, which ends with eof, is a program; text can be continued to one
IsProgram(rules, text) == Len(text) + 1 \in Reads(rules, text, <<"<declarations>", "eof">>, 1)
IsBeginning(rules, text) == Beyond \in Reads(rules, text, <<"<declarations>", "eof">>, 1)
=============================================================================
