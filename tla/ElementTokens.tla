---------------------------- MODULE ElementTokens ----------------------------
(* The tokeniser: one context on which a host calls run and clear.  A text  *)
(* is a sequence of characters, each standing for its class in             *)
(* token_internal.cpp; positions are in bytes, as the code counts them.     *)
(* One iteration of the loop of run is one step.                            *)
EXTENDS Naturals, Sequences, FiniteSets, FiniteSetsExt

CONSTANTS
  Texts,      \* the texts that are tokenised
  Calls,      \* how often the host calls run or clear (a bound)
  Fresh       \* the host runs each tokeniser once, as libelement itself does,
              \* and clears it only after a run that succeeded

ASSUME TokensAssumption ==
  Texts \subseteq Seq(STRING) /\ Calls \in Nat /\ Fresh \in BOOLEAN

VARIABLES
  input, it,                  \* the text and where the loop is in it
  pos, line, character,       \* counted along with it
  lineStart, lineNumberToPos,
  tokens,
  cur,                        \* cur_token: the token being built
  result, called

tvars == <<input, it, pos, line, character, lineStart, lineNumberToPos, tokens, cur, result, called>>

-----------------------------------------------------------------------------
(* Characters                                                               *)

Digits == {"0", "1"}
Letters == {"a", "e"}            \* e stands for e and E
Wide == {"w"}                    \* U+00F0 to U+FFFF, two bytes here
Malformed == "malformed"         \* a byte that is no UTF-8
Eol == "eol"
Spaces == {" "}
Signs == {"-"}                   \* - and +
Punctuation ==
  [c \in {".", "(", ")", ",", ":", "{", "}", "="} |->
     CASE c = "." -> "DOT" [] c = "(" -> "BRACKETL" [] c = ")" -> "BRACKETR"
       [] c = "," -> "COMMA" [] c = ":" -> "COLON" [] c = "{" -> "BRACEL"
       [] c = "}" -> "BRACER" [] c = "=" -> "EQUALS"]

IdAlpha == Letters \cup Wide \cup {"_"}
IdAlnum == Letters \cup Wide \cup Digits

\* std::distance of two iterators: a byte for each character, and one more for
\* each that is wide
Span(from, to) == (to - from) + Cardinality({i \in from..(to - 1) : input[i] \in Wide})

\* UTF8_PEEK_NEXT throws at the end and at what is no UTF-8
Throws(i) == i > Len(input) \/ input[i] = Malformed
\* Where a loop over characters of S that starts at i stops, or throws
Past(S, i) == Min({j \in i..(Len(input) + 1) : j > Len(input) \/ input[j] \notin S})
ThrowsIn(S, i) == Past(S, i) <= Len(input) /\ Throws(Past(S, i))

-----------------------------------------------------------------------------
(* The token being built                                                    *)

Types ==
  {"NONE", "NUMBER", "IDENTIFIER", "UNDERSCORE", "EOF"} \cup
  {Punctuation[c] : c \in DOMAIN Punctuation}
Token == [type : Types, pos : Nat, len : Nat, line : Nat, character : Nat, lineStart : Nat]
NoToken == [type |-> "NONE", pos |-> 0, len |-> 0, line |-> 0, character |-> 0, lineStart |-> 0]
Started(type) ==
  [type |-> type, pos |-> pos, len |-> 0, line |-> line, character |-> character,
   lineStart |-> lineStart]

\* reset_token keeps what was being built, finished or not
Kept(t) == IF t.type = "NONE" THEN tokens ELSE Append(tokens, t)

\* Mutant: the token is saved and not forgotten
EndTokenKept(type, j) ==
  /\ tokens' = Kept([Started(type) EXCEPT !.len = Span(it, j)])
  /\ cur' = [Started(type) EXCEPT !.len = Span(it, j)]
  /\ it' = j
  /\ pos' = pos + Span(it, j)
  /\ character' = character + Span(it, j)
  /\ UNCHANGED <<input, line, lineStart, lineNumberToPos, result, called>>

\* Ends the token that began at it, before character j
EndToken(type, j) ==
  /\ tokens' = Kept([Started(type) EXCEPT !.len = Span(it, j)])
  /\ cur' = NoToken
  /\ it' = j
  /\ pos' = pos + Span(it, j)
  /\ character' = character + Span(it, j)
  /\ UNCHANGED <<input, line, lineStart, lineNumberToPos, result, called>>

\* run returns; a token that was being built stays in cur_token
Fail(error, building) ==
  /\ result' = error
  /\ cur' = building
  /\ UNCHANGED <<input, it, pos, line, character, lineStart, lineNumberToPos, tokens, called>>

-----------------------------------------------------------------------------
(* run                                                                      *)

Running == result = "RUNNING"
At(S) == Running /\ it <= Len(input) /\ input[it] \in S

Run ==
  /\ ~Running /\ Len(called) < Calls
  /\ Fresh => called = <<>>
  /\ \E text \in Texts : input' = text
  /\ it' = 1
  /\ pos' = 0 /\ line' = 1 /\ character' = 1
  /\ tokens' = Kept(cur) /\ cur' = NoToken
  /\ result' = "RUNNING"
  /\ called' = Append(called, "run")
  /\ UNCHANGED <<lineStart, lineNumberToPos>>

Punctuate == \E c \in DOMAIN Punctuation : At({c}) /\ EndToken(Punctuation[c], it + 1)

\* tokenise_identifier; j is where it starts to loop
Identifier(j) ==
  IF ThrowsIn(IdAlnum \cup {"_"}, j) THEN Fail("EXCEPTION", Started("IDENTIFIER"))
  ELSE EndToken("IDENTIFIER", Past(IdAlnum \cup {"_"}, j))
Name == At(Letters \cup Wide) /\ Identifier(it)
\* Mutant: what follows is not looked at
UnderscoreAlone == At({"_"}) /\ EndToken("UNDERSCORE", it + 1)
Underscore ==
  /\ At({"_"})
  /\ IF Throws(it + 1) THEN Fail("EXCEPTION", cur)
     ELSE IF input[it + 1] \in IdAlpha THEN Identifier(it + 1)
     ELSE EndToken("UNDERSCORE", it + 1)

\* tokenise_number after its whole part and fraction, up to j
Exponent(j) ==
  LET sign == IF ~Throws(j + 1) /\ input[j + 1] \in Signs THEN j + 2 ELSE j + 1 IN
  IF j > Len(input) THEN EndToken("NUMBER", j)
  ELSE IF Throws(j) THEN Fail("EXCEPTION", Started("NUMBER"))
  ELSE IF input[j] # "e" THEN EndToken("NUMBER", j)
  ELSE IF Throws(sign) \/ (input[sign] \in Digits /\ ThrowsIn(Digits, sign))
    THEN Fail("EXCEPTION", Started("NUMBER"))
  ELSE IF input[sign] \notin Digits THEN Fail("BAD_NUMBER_EXPONENT", Started("NUMBER"))
  ELSE EndToken("NUMBER", Past(Digits, sign))

\* ... after its whole part, at a dot at j
Fraction(j) ==
  IF Throws(j + 1) \/ (input[j + 1] \in Digits /\ ThrowsIn(Digits, j + 1))
    THEN Fail("EXCEPTION", Started("NUMBER"))
  ELSE IF input[j + 1] \in Digits THEN Exponent(Past(Digits, j + 1))
  ELSE IF input[j + 1] \in Letters THEN Exponent(j)   \* an index into a literal
  ELSE Fail("BAD_INDEX_INTO_NUMBER", Started("NUMBER"))

Number ==
  /\ At(Digits \cup Signs)
  /\ LET whole == IF input[it] \in Signs THEN it + 1 ELSE it
         j == Past(Digits, whole) IN
     IF Throws(whole) THEN Fail("EXCEPTION", Started("NUMBER"))
     ELSE IF input[whole] \notin Digits THEN Fail("PARSE", Started("NUMBER"))
     ELSE IF ThrowsIn(Digits, whole) THEN Fail("EXCEPTION", Started("NUMBER"))
     ELSE IF j <= Len(input) /\ input[j] = "." THEN Fraction(j) ELSE Exponent(j)

\* Mutant: characters are counted, not bytes
SkipCharacters(j) ==
  /\ it' = j
  /\ pos' = pos + (j - it)
  /\ character' = character + (j - it)
  /\ UNCHANGED <<input, line, lineStart, lineNumberToPos, tokens, cur, result, called>>

\* Characters that make no token, up to j
Skip(j) ==
  /\ it' = j
  /\ pos' = pos + Span(it, j)
  /\ character' = character + Span(it, j)
  /\ UNCHANGED <<input, line, lineStart, lineNumberToPos, tokens, cur, result, called>>

\* Mutant: a comment runs to the end of the text
CommentToEnd == At({"#"}) /\ Skip(Min({j \in it..(Len(input) + 1) : Throws(j)}))
Comment ==
  /\ At({"#"})
  /\ Skip(Min({j \in it..(Len(input) + 1) : Throws(j) \/ input[j] = Eol}))
Space == At(Spaces) /\ Skip(it + 1)

EndOfLine ==
  /\ At({Eol})
  /\ line' = line + 1
  /\ character' = 1
  /\ pos' = pos + 1
  /\ lineStart' = pos + 1
  /\ lineNumberToPos' = Append(lineNumberToPos, pos + 1)
  /\ tokens' = Kept(cur) /\ cur' = NoToken
  /\ it' = it + 1
  /\ UNCHANGED <<input, result, called>>

Invalid == At({"!"}) /\ Fail("PARSE", cur)
NoUtf8 == At({Malformed}) /\ Fail("EXCEPTION", cur)

EndOfInput ==
  /\ Running /\ it > Len(input)
  /\ tokens' = Append(tokens, Started("EOF"))
  /\ cur' = NoToken
  /\ result' = "OK"
  /\ UNCHANGED <<input, it, pos, line, character, lineStart, lineNumberToPos, called>>

Clear ==
  /\ ~Running /\ Len(called) < Calls
  /\ Fresh => result = "OK" /\ called = <<"run">>
  /\ tokens' = IF cur.type = "NONE" THEN <<>> ELSE <<cur>>
  /\ cur' = NoToken
  /\ input' = <<>> /\ it' = 1
  /\ pos' = 0 /\ line' = 1 /\ character' = 1 /\ lineStart' = 0
  /\ called' = Append(called, "clear")
  /\ UNCHANGED <<lineNumberToPos, result>>

IndexAt(p) == CHOOSE i \in 1..(Len(input) + 1) : Span(1, i) = p
\* advance_to_end_of_line always takes one character
TextOnLine(n) ==
  LET start == IndexAt(lineNumberToPos[n])
      end == IF Throws(start) THEN start
             ELSE Min({j \in (start + 1)..(Len(input) + 1) : Throws(j) \/ input[j] = Eol}) IN
  SubSeq(input, start, end - 1)

-----------------------------------------------------------------------------

Init ==
  /\ input = <<>> /\ it = 1
  /\ pos = 0 /\ line = 1 /\ character = 1
  /\ lineStart = 0 /\ lineNumberToPos = <<0>>
  /\ tokens = <<>> /\ cur = NoToken
  /\ result = "NONE" /\ called = <<>>

\* The host calls no more
Idle == ~Running /\ (Len(called) = Calls \/ (Fresh /\ called # <<>>)) /\ UNCHANGED tvars

Next ==
  \/ Run
  \/ Punctuate \/ Name \/ Underscore \/ Number \/ Comment \/ Space
  \/ EndOfLine \/ Invalid \/ NoUtf8 \/ EndOfInput
  \/ Clear \/ Idle

Spec == Init /\ [][Next]_tvars

-----------------------------------------------------------------------------
(* What the tokens should be: the lexical rules of the language, as         *)
(* Grammar.ebnf and the comments of token_internal.hpp write them.          *)

AllDigits(s) == s # <<>> /\ \A i \in DOMAIN s : s[i] \in Digits
Unsigned(s) == IF s # <<>> /\ s[1] \in Signs THEN Tail(s) ELSE s
From(s, k) == SubSeq(s, k, Len(s))
\* [0-9]+ ('.' [0-9]*)?
IsMantissa(s) ==
  \/ AllDigits(s)
  \/ \E k \in DOMAIN s : /\ s[k] = "." /\ AllDigits(SubSeq(s, 1, k - 1))
                         /\ k = Len(s) \/ AllDigits(From(s, k + 1))
\* [-+]? [0-9]+ ('.' [0-9]*)? ([eE] [-+]? [0-9]+)?
IsLiteral(s) ==
  \/ IsMantissa(Unsigned(s))
  \/ \E k \in DOMAIN s : /\ s[k] = "e" /\ IsMantissa(Unsigned(SubSeq(s, 1, k - 1)))
                        /\ AllDigits(Unsigned(From(s, k + 1)))
\* '_'? [a-zA-Z\u00F0-\uFFFF] [_a-zA-Z0-9\u00F0-\uFFFF]*
IsIdentifier(s) ==
  /\ s # <<>> /\ s[1] \in IdAlpha
  /\ s[1] = "_" => Len(s) > 1 /\ s[2] \in Letters \cup Wide
  /\ \A i \in 2..Len(s) : s[i] \in IdAlnum \cup {"_"}
IsLexeme(type, s) ==
  CASE type = "NUMBER" -> IsLiteral(s)
    [] type = "IDENTIFIER" -> IsIdentifier(s)
    [] type = "UNDERSCORE" -> s = <<"_">>
    [] OTHER -> \E c \in DOMAIN Punctuation : type = Punctuation[c] /\ s = <<c>>
LexemeTypes == Types \ {"NONE", "EOF"}

\* Where the code departs from these rules: it takes a point after the digits of
\* a number for an index unless a digit follows, and two underscores for a name
Departs(k) ==
  \/ k < Len(input) /\ input[k] = "_" /\ input[k + 1] = "_"
  \/ \E j \in (k + 1)..Len(input) :
       /\ input[j] = "." /\ AllDigits(Unsigned(SubSeq(input, k, j - 1)))
       /\ j < Len(input) => input[j + 1] \notin Digits

InComment(k) == \E h \in 1..k : input[h] = "#" /\ \A m \in h..k : input[m] # Eol
Blank(k) == InComment(k) \/ input[k] \in Spaces \cup {Eol}
EolsBefore(i) == {k \in 1..(i - 1) : input[k] = Eol}
StartOfLine(i) == IF EolsBefore(i) = {} THEN 1 ELSE Max(EolsBefore(i)) + 1
\* Token t covers the characters from First(t) to End(t) - 1
First(t) == IndexAt(t.pos)
End(t) == IndexAt(t.pos + t.len)
Line(n) ==
  LET start == CHOOSE i \in 1..(Len(input) + 1) :
                 Cardinality(EolsBefore(i)) = n - 1 /\ StartOfLine(i) = i IN
  SubSeq(input, start, Min({j \in start..(Len(input) + 1) : j > Len(input) \/ input[j] = Eol}) - 1)

\* The types of the context, and a result from run
TypeOK ==
  /\ input \in Seq(STRING) /\ it \in 1..(Len(input) + 1)
  /\ {pos, line, character, lineStart} \subseteq Nat
  /\ lineNumberToPos \in Seq(Nat)
  /\ tokens \in Seq(Token) /\ cur \in Token /\ called \in Seq({"run", "clear"})
  /\ cur.type \in {"NONE", "NUMBER", "IDENTIFIER"}
  /\ result \in {"NONE", "RUNNING", "OK", "PARSE", "EXCEPTION", "BAD_NUMBER_EXPONENT",
                  "BAD_INDEX_INTO_NUMBER"}
  /\ cur # NoToken => result \notin {"RUNNING", "OK"}

\* Every token says where it is: at its byte, its line, the start of that line
\* and its place in it, whatever comments, blanks and wide characters came
\* before; and text_on_line shows a line that is not empty as it was written
Positions ==
  Fresh =>
    /\ Running => pos = Span(1, it)
    /\ \A i \in DOMAIN tokens : LET t == tokens[i] IN
         /\ t.line = 1 + Cardinality(EolsBefore(First(t)))
         /\ t.lineStart = Span(1, StartOfLine(First(t)))
         /\ t.character = t.pos - t.lineStart + 1
    /\ result = "OK" => \A n \in 1..line : Line(n) # <<>> => TextOnLine(n) = Line(n)

\* A token is the longest lexeme of the rules that begins where it does, except
\* where the code departs from them: at a number whose digits a point follows
\* and no digit after it, and at two underscores
LongestMatch ==
  Fresh =>
    \A i \in DOMAIN tokens : LET t == tokens[i] IN
      t.type # "EOF" /\ ~Departs(First(t)) =>
        /\ IsLexeme(t.type, SubSeq(input, First(t), End(t) - 1))
        /\ \A j \in (End(t) + 1)..(Len(input) + 1), type \in LexemeTypes :
             ~IsLexeme(type, SubSeq(input, First(t), j - 1))

\* A text that is accepted is all tokens, blanks and comments, in order and
\* nothing twice; one that is refused goes on with no lexeme of the rules, or
\* with an underscore that ends the text, or with a lexeme before a bad byte or
\* a number before an e, or departs there
NothingLost ==
  Fresh =>
    /\ result = "OK" =>
         /\ \A k \in DOMAIN input :
              Cardinality({i \in DOMAIN tokens : First(tokens[i]) <= k /\ k < End(tokens[i])})
                = (IF Blank(k) THEN 0 ELSE 1)
         /\ \A i \in 2..Len(tokens) : End(tokens[i - 1]) <= First(tokens[i])
    /\ result \notin {"NONE", "RUNNING", "OK"} =>
         \A j \in (it + 1)..(Len(input) + 1), type \in LexemeTypes :
           (/\ IsLexeme(type, SubSeq(input, it, j - 1))
            /\ \A k \in (j + 1)..(Len(input) + 1), other \in LexemeTypes :
                 ~IsLexeme(other, SubSeq(input, it, k - 1))) =>
             \/ j > Len(input) /\ type = "UNDERSCORE"
             \/ j <= Len(input) /\ input[j] = Malformed
             \/ j <= Len(input) /\ type = "NUMBER" /\ input[j] = "e"
             \/ Departs(it)

\* What the rules say where the code departs from them. The whole text is a
\* literal: it is one number if it is accepted, and it is accepted; and a name
\* is an identifier
Finished == Fresh /\ result \notin {"NONE", "RUNNING"}
LiteralIsNumber ==
  Finished /\ result = "OK" /\ IsLiteral(input) =>
    Len(tokens) = 2 /\ tokens[1].type = "NUMBER"
LiteralAccepted == Finished /\ IsLiteral(input) => result = "OK"
NamesAreIdentifiers ==
  Fresh => \A i \in DOMAIN tokens : LET t == tokens[i] IN
    t.type = "IDENTIFIER" => IsIdentifier(SubSeq(input, First(t), End(t) - 1))
=============================================================================
