-------------------------- MODULE ElementTokens_proofs --------------------------
(***************************************************************************)
(* Theorems about the tokeniser, for every set of texts: the types of its  *)
(* context, where it says each token and each line is, and that its tokens *)
(* are the longest lexemes of the text and all of it.                      *)
(***************************************************************************)
EXTENDS ElementTokens, FiniteSetTheorems, SequenceTheorems, WellFoundedInduction, TLAPS

-----------------------------------------------------------------------------
(* Least and greatest positions.                                           *)

\* The numbers are well ordered
LEMMA HasLeast ==
  ASSUME NEW S \in SUBSET Nat, S # {}
  PROVE  \E x \in S : \A y \in S : x <= y
<1> DEFINE R == {p \in Nat \X Nat : p[1] < p[2]}
<1>1. IsWellFoundedOn(R, Nat)
  BY NatLessThanWellFounded DEF OpToRel
<1>2. PICK x \in S : \A y \in S : <<y, x>> \notin R
  <2> HIDE DEF R
  <2> QED BY <1>1, WFMin
<1>3. \A y \in S : ~(y < x)
  BY <1>2
<1> QED BY <1>3

LEMMA MinIs ==
  ASSUME NEW S \in SUBSET Nat, S # {}
  PROVE  Min(S) \in S /\ \A y \in S : Min(S) <= y
BY HasLeast DEF Min

\* A set of positions below a bound has a last one
LEMMA MaxIs ==
  ASSUME NEW n \in Nat, NEW S \in SUBSET (1 .. n), S # {}
  PROVE  Max(S) \in S /\ \A y \in S : y <= Max(S)
<1> DEFINE T == {m \in Nat : \E x \in S : m = n - x}
<1>1. \A x \in S : n - x \in T
  OBVIOUS
<1>2. T \in SUBSET Nat /\ T # {}
  BY <1>1
<1>3. PICK t \in T : \A u \in T : t <= u
  <2> HIDE DEF T
  <2> QED BY <1>2, HasLeast
<1>4. PICK x \in S : t = n - x
  OBVIOUS
<1>5. \A y \in S : x >= y
  <2> SUFFICES ASSUME NEW y \in S PROVE x >= y
    OBVIOUS
  <2>1. x \in 1 .. n /\ y \in 1 .. n
    OBVIOUS
  <2>2. n - x <= n - y
    BY <1>1, <1>3, <1>4
  <2> QED BY <2>1, <2>2
<1> QED BY <1>5 DEF Max

-----------------------------------------------------------------------------
(* Bytes and lines of the text.                                            *)

LEMMA SpanType ==
  ASSUME NEW i \in Nat, NEW j \in Nat, i <= j
  PROVE  Span(i, j) \in Nat /\ j - i <= Span(i, j)
<1> DEFINE W == {k \in i .. (j - 1) : input[k] \in Wide}
<1>1. IsFiniteSet(i .. (j - 1))
  BY FS_Interval
<1>2. IsFiniteSet(W) /\ Cardinality(W) \in Nat
  BY <1>1, FS_Subset, FS_CardinalityType
<1> QED BY <1>2 DEF Span

LEMMA SpanEmpty == ASSUME NEW i \in Nat PROVE Span(i, i) = 0
<1>1. {k \in i .. (i - 1) : input[k] \in Wide} = {}
  OBVIOUS
<1> QED BY <1>1, FS_EmptySet DEF Span

LEMMA SpanSplit ==
  ASSUME NEW i \in Nat, NEW j \in Nat, NEW k \in Nat, i <= j, j <= k
  PROVE  Span(i, k) = Span(i, j) + Span(j, k)
<1> DEFINE W(a, b) == {c \in a .. (b - 1) : input[c] \in Wide}
<1>1. /\ IsFiniteSet(W(i, j)) /\ IsFiniteSet(W(j, k))
      /\ Cardinality(W(i, j)) \in Nat /\ Cardinality(W(j, k)) \in Nat
  <2>1. IsFiniteSet(i .. (j - 1)) /\ IsFiniteSet(j .. (k - 1))
    BY FS_Interval
  <2> QED BY <2>1, FS_Subset, FS_CardinalityType
<1>2. W(i, k) = W(i, j) \cup W(j, k) /\ W(i, j) \cap W(j, k) = {}
  OBVIOUS
<1>3. Cardinality(W(i, k)) = Cardinality(W(i, j)) + Cardinality(W(j, k))
  <2> HIDE DEF W
  <2> QED BY <1>1, <1>2, FS_Union, FS_EmptySet
<1>4. \A a, b : Span(a, b) = (b - a) + Cardinality(W(a, b))
  BY DEF Span
<1> HIDE DEF W
<1> QED BY <1>1, <1>3, <1>4

LEMMA SpanGrows ==
  ASSUME NEW i \in Nat, NEW j \in Nat, 1 <= i, i < j
  PROVE  Span(1, i) < Span(1, j)
<1>1. Span(1, j) = Span(1, i) + Span(i, j)
  BY SpanSplit
<1>2. Span(i, j) \in Nat /\ j - i <= Span(i, j)
  BY SpanType
<1>3. Span(1, i) \in Nat
  BY SpanType
<1> QED BY <1>1, <1>2, <1>3

\* A character is at one byte only
LEMMA SpanApart ==
  ASSUME NEW i \in Nat, NEW j \in Nat, 1 <= i, 1 <= j, Span(1, i) = Span(1, j)
  PROVE  i = j
<1>1. Span(1, i) \in Nat /\ Span(1, j) \in Nat
  BY SpanType
<1> QED BY <1>1, SpanGrows

\* so that a position finds its character
LEMMA IndexIs ==
  ASSUME NEW i \in 1 .. (Len(input) + 1), Len(input) \in Nat
  PROVE  IndexAt(Span(1, i)) = i
BY SpanApart DEF IndexAt

LEMMA EolsFinite ==
  ASSUME NEW i \in Nat
  PROVE  IsFiniteSet(EolsBefore(i)) /\ Cardinality(EolsBefore(i)) \in Nat
<1>1. IsFiniteSet(1 .. (i - 1))
  BY FS_Interval
<1> QED BY <1>1, FS_Subset, FS_CardinalityType DEF EolsBefore

\* Within a line
LEMMA SameLine ==
  ASSUME NEW i \in Nat, NEW j \in Nat, i <= j, \A k \in i .. (j - 1) : input[k] # Eol
  PROVE  EolsBefore(j) = EolsBefore(i) /\ StartOfLine(j) = StartOfLine(i)
<1>1. EolsBefore(j) = EolsBefore(i)
  BY DEF EolsBefore
<1> QED BY <1>1 DEF StartOfLine

\* After the end of one
LEMMA NextLine ==
  ASSUME NEW i \in Nat, 1 <= i, input[i] = Eol
  PROVE  /\ Cardinality(EolsBefore(i + 1)) = Cardinality(EolsBefore(i)) + 1
         /\ StartOfLine(i + 1) = i + 1
<1>1. EolsBefore(i + 1) = EolsBefore(i) \cup {i} /\ i \notin EolsBefore(i)
  BY DEF EolsBefore
<1>2. Cardinality(EolsBefore(i + 1)) = Cardinality(EolsBefore(i)) + 1
  BY <1>1, EolsFinite, FS_AddElement
<1>3. Max(EolsBefore(i + 1)) = i
  <2>1. EolsBefore(i + 1) \in SUBSET (1 .. i)
    BY DEF EolsBefore
  <2>2. Max(EolsBefore(i + 1)) \in EolsBefore(i + 1) /\ i <= Max(EolsBefore(i + 1))
    BY <1>1, <2>1, MaxIs
  <2> QED BY <2>1, <2>2
<1> QED BY <1>1, <1>2, <1>3 DEF StartOfLine

-----------------------------------------------------------------------------
(* Where the loops of the tokeniser stop.                                  *)

LEMMA PastIs ==
  ASSUME Len(input) \in Nat, NEW S, NEW i \in 1 .. (Len(input) + 1)
  PROVE  /\ Past(S, i) \in i .. (Len(input) + 1)
         /\ \A k \in i .. (Past(S, i) - 1) : input[k] \in S
         /\ Past(S, i) <= Len(input) => input[Past(S, i)] \notin S
<1> DEFINE P == {j \in i .. (Len(input) + 1) : j > Len(input) \/ input[j] \notin S}
<1>1. P \in SUBSET Nat /\ Len(input) + 1 \in P
  OBVIOUS
<1>2. Min(P) \in P /\ \A y \in P : Min(P) <= y
  <2> HIDE DEF P
  <2> QED BY <1>1, MinIs
<1>3. Past(S, i) = Min(P)
  BY DEF Past
<1> DEFINE m == Past(S, i)
<1>4. /\ m \in i .. (Len(input) + 1) /\ (m > Len(input) \/ input[m] \notin S)
      /\ \A j \in i .. (Len(input) + 1) : j > Len(input) \/ input[j] \notin S => m <= j
  BY <1>2, <1>3
<1> HIDE DEF m
<1>5. ASSUME NEW k \in i .. (m - 1) PROVE input[k] \in S
  BY <1>4
<1>6. m <= Len(input) => input[m] \notin S
  BY <1>4
<1> QED BY <1>4, <1>5, <1>6 DEF m

-----------------------------------------------------------------------------
(* What run counts along with the text.                                    *)

\* A token that begins at character k says so
TokenAt(t, k) ==
  /\ t.pos = Span(1, k)
  /\ t.line = 1 + Cardinality(EolsBefore(k))
  /\ t.lineStart = Span(1, StartOfLine(k))
  /\ t.character = t.pos - t.lineStart + 1

TokensPlaced ==
  \A i \in DOMAIN tokens : \E k \in 1 .. (Len(input) + 1) : TokenAt(tokens[i], k)

\* The counters are where run is
Counted ==
  /\ pos = Span(1, it)
  /\ line = 1 + Cardinality(EolsBefore(it))
  /\ lineStart = Span(1, StartOfLine(it))
  /\ character = pos - lineStart + 1

\* Line n begins at character s
LineAt(n, s) == Cardinality(EolsBefore(s)) = n - 1 /\ StartOfLine(s) = s

LinesKnown ==
  /\ line <= Len(lineNumberToPos)
  /\ \A n \in 1 .. line :
       \E s \in 1 .. (Len(input) + 1) : LineAt(n, s) /\ lineNumberToPos[n] = Span(1, s)

\* Nothing malformed is passed
Passed == \A k \in 1 .. (it - 1) : input[k] # Malformed

\* A context that is run once
Session ==
  /\ called = <<>> =>
       ~Running /\ cur = NoToken /\ tokens = <<>> /\ lineStart = 0 /\ lineNumberToPos = <<0>>
  /\ Running => Len(lineNumberToPos) = line
  /\ result = "OK" => it = Len(input) + 1
  /\ lineNumberToPos # <<>> /\ lineNumberToPos[1] = 0

\* In a context that is used once the counters always say where run is, though
\* lines, comments and the ends of tokens update them in different ways.
PositionInv == Counted /\ TokensPlaced /\ LinesKnown /\ Passed /\ Session

-----------------------------------------------------------------------------
(* What an iteration of run does.                                          *)

\* Up to j there is no end of a line and nothing malformed
Clean(j) ==
  /\ j \in it .. (Len(input) + 1)
  /\ \A k \in it .. (j - 1) : input[k] \notin {Eol, Malformed}

Errors == {"PARSE", "EXCEPTION", "BAD_NUMBER_EXPONENT", "BAD_INDEX_INTO_NUMBER"}

\* A token ends, or characters are passed over, or run gives up
Lexes ==
  \/ \E type \in Types \ {"NONE"}, j \in Nat : Clean(j) /\ EndToken(type, j)
  \/ \E j \in Nat : Clean(j) /\ Skip(j)
  \/ \E error \in Errors, building \in {cur, Started("NUMBER"), Started("IDENTIFIER")} :
       Fail(error, building)

\* Where run is
LEMMA Places == ASSUME TypeOK PROVE Len(input) \in Nat /\ it \in 1 .. (Len(input) + 1)
BY DEF TypeOK

LEMMA CleanNext ==
  ASSUME TypeOK, NEW S, At(S), Eol \notin S, Malformed \notin S
  PROVE  it + 1 \in Nat /\ it + 1 \in 1 .. (Len(input) + 1) /\ Clean(it + 1)
<1>1. it + 1 \in 1 .. (Len(input) + 1)
  BY Places DEF At
<1>2. \A k \in it .. ((it + 1) - 1) : k = it
  BY Places
<1> QED BY <1>1, <1>2, Places DEF At, Clean

LEMMA PunctuateLexes == ASSUME TypeOK, Punctuate PROVE Lexes
<1>1. PICK c \in DOMAIN Punctuation : At({c}) /\ EndToken(Punctuation[c], it + 1)
  BY DEF Punctuate
<1>2. Punctuation[c] \in Types \ {"NONE"}
  <2>1. Punctuation[c] # "NONE"
    BY DEF Punctuation
  <2> QED BY <2>1 DEF Types
<1>4. c \notin {Eol, Malformed}
  BY DEF Punctuation, Eol, Malformed
<1>3. it + 1 \in Nat /\ Clean(it + 1)
  BY <1>1, <1>4, CleanNext
<1> QED BY <1>1, <1>2, <1>3 DEF Lexes

LEMMA IdentifierLexes ==
  ASSUME TypeOK, NEW j \in 1 .. (Len(input) + 1), Clean(j), Identifier(j)
  PROVE  Lexes
<1> DEFINE S == IdAlnum \cup {"_"}
           m == Past(S, j)
<1>1. m \in j .. (Len(input) + 1) /\ \A k \in j .. (m - 1) : input[k] \in S
  <2>1. Len(input) \in Nat
    BY DEF TypeOK
  <2> HIDE DEF S
  <2> QED BY <2>1, PastIs
<1>2. S \cap {Eol, Malformed} = {}
  BY DEF IdAlnum, Letters, Wide, Digits, Eol, Malformed
<1>3. m \in Nat /\ Clean(m)
  <2> HIDE DEF m, S
  <2> QED BY <1>1, <1>2 DEF TypeOK, Clean
<1>4. Fail("EXCEPTION", Started("IDENTIFIER")) \/ EndToken("IDENTIFIER", m)
  BY DEF Identifier
<1> HIDE DEF m
<1> QED BY <1>3, <1>4 DEF Lexes, Errors, Types

LEMMA NameLexes == ASSUME TypeOK, Name PROVE Lexes
<1>1. Identifier(it) /\ it \in 1 .. (Len(input) + 1) /\ Clean(it)
  BY DEF Name, TypeOK, Clean
<1> QED BY <1>1, IdentifierLexes

LEMMA UnderscoreLexes == ASSUME TypeOK, Underscore PROVE Lexes
<1>0. At({"_"})
  BY DEF Underscore
<1>1. it + 1 \in 1 .. (Len(input) + 1) /\ it + 1 \in Nat /\ Clean(it + 1)
  <2>1. Eol \notin {"_"} /\ Malformed \notin {"_"}
    BY DEF Eol, Malformed
  <2> QED BY <1>0, <2>1, CleanNext
<1>2. CASE Fail("EXCEPTION", cur)
  BY <1>2 DEF Lexes, Errors
<1>3. CASE Identifier(it + 1)
  BY <1>1, <1>3, IdentifierLexes
<1>4. CASE EndToken("UNDERSCORE", it + 1)
  BY <1>1, <1>4 DEF Lexes, Types
<1> QED BY <1>2, <1>3, <1>4 DEF Underscore

\* The digits from a place up to which all is clean
LEMMA DigitsClean ==
  ASSUME TypeOK, NEW j \in 1 .. (Len(input) + 1), Clean(j)
  PROVE  Clean(Past(Digits, j)) /\ Past(Digits, j) \in 1 .. (Len(input) + 1)
<1> DEFINE m == Past(Digits, j)
<1>1. m \in j .. (Len(input) + 1) /\ \A k \in j .. (m - 1) : input[k] \in Digits
  <2>1. Len(input) \in Nat
    BY DEF TypeOK
  <2> QED BY <2>1, PastIs
<1>2. Digits \cap {Eol, Malformed} = {}
  BY DEF Digits, Eol, Malformed
<1> HIDE DEF m
<1>3. Clean(m) /\ m \in 1 .. (Len(input) + 1)
  <2>1. m \in it .. (Len(input) + 1)
    BY <1>1, Places DEF Clean
  <2>2. ASSUME NEW k \in it .. (m - 1) PROVE input[k] \notin {Eol, Malformed}
    BY <1>1, <1>2, Places DEF Clean
  <2> QED BY <2>1, <2>2, Places DEF Clean
<1> QED BY <1>3 DEF m

LEMMA ExponentLexes ==
  ASSUME TypeOK, NEW j \in 1 .. (Len(input) + 1), Clean(j), Exponent(j)
  PROVE  Lexes
<1>0. Len(input) \in Nat /\ j \in Nat
  BY DEF TypeOK
<1> DEFINE sign == IF ~Throws(j + 1) /\ input[j + 1] \in Signs THEN j + 2 ELSE j + 1
<1>1. CASE EndToken("NUMBER", j)
  BY <1>0, <1>1 DEF Lexes, Types
<1>2. CASE Fail("EXCEPTION", Started("NUMBER")) \/ Fail("BAD_NUMBER_EXPONENT", Started("NUMBER"))
  BY <1>2 DEF Lexes, Errors
<1>3. CASE /\ j <= Len(input) /\ input[j] = "e" /\ ~Throws(sign)
           /\ EndToken("NUMBER", Past(Digits, sign))
  <2>0. ~Throws(sign) /\ sign \in {j + 1, j + 2}
    BY <1>3
  <2>1. sign \in 1 .. (Len(input) + 1)
    BY <1>0, <2>0 DEF Throws
  <2>2. Clean(sign)
    BY <1>3, <2>1 DEF Clean, Throws, Signs, Eol, Malformed, TypeOK
  <2> HIDE DEF sign
  <2>3. Clean(Past(Digits, sign)) /\ Past(Digits, sign) \in 1 .. (Len(input) + 1)
    BY <2>1, <2>2, DigitsClean
  <2> DEFINE m == Past(Digits, sign)
  <2>4. m \in Nat /\ Clean(m) /\ EndToken("NUMBER", m)
    BY <1>0, <1>3, <2>3 DEF sign
  <2> HIDE DEF m
  <2> QED BY <2>4 DEF Lexes, Types
<1> QED BY <1>1, <1>2, <1>3 DEF Exponent

LEMMA FractionLexes ==
  ASSUME TypeOK, NEW j \in 1 .. Len(input), Clean(j), input[j] = ".", Fraction(j)
  PROVE  Lexes
<1>1. CASE \/ Fail("EXCEPTION", Started("NUMBER"))
           \/ Fail("BAD_INDEX_INTO_NUMBER", Started("NUMBER"))
  BY <1>1 DEF Lexes, Errors
<1>2. CASE ~Throws(j + 1) /\ Exponent(Past(Digits, j + 1))
  <2>1. j + 1 \in 1 .. (Len(input) + 1) /\ Clean(j + 1)
    BY <1>2 DEF Clean, Throws, Eol, Malformed, TypeOK
  <2>2. Clean(Past(Digits, j + 1)) /\ Past(Digits, j + 1) \in 1 .. (Len(input) + 1)
    BY <2>1, DigitsClean
  <2> QED BY <1>2, <2>2, ExponentLexes
<1>3. CASE Exponent(j)
  BY <1>3, ExponentLexes DEF TypeOK
<1> QED BY <1>1, <1>2, <1>3 DEF Fraction

LEMMA NumberLexes == ASSUME TypeOK, Number PROVE Lexes
<1> DEFINE whole == IF input[it] \in Signs THEN it + 1 ELSE it
           j == Past(Digits, whole)
<1>1. CASE Fail("EXCEPTION", Started("NUMBER")) \/ Fail("PARSE", Started("NUMBER"))
  BY <1>1 DEF Lexes, Errors
<1>2. CASE ~Throws(whole) /\ (IF j <= Len(input) /\ input[j] = "." THEN Fraction(j) ELSE Exponent(j))
  <2>1. whole \in 1 .. (Len(input) + 1) /\ Clean(whole)
    BY <1>2 DEF Number, At, Clean, Throws, Signs, Eol, Malformed, TypeOK
  <2> HIDE DEF whole
  <2>2. Clean(j) /\ j \in 1 .. (Len(input) + 1)
    BY <2>1, DigitsClean
  <2> HIDE DEF j
  <2>3. Len(input) \in Nat
    BY DEF TypeOK
  <2> QED BY <1>2, <2>2, <2>3, FractionLexes, ExponentLexes
<1> QED BY <1>1, <1>2 DEF Number

LEMMA SpaceLexes == ASSUME TypeOK, Space \/ Comment PROVE Lexes
<1>1. CASE Space
  <2>1. At(Spaces) /\ Skip(it + 1)
    BY <1>1 DEF Space
  <2>2. it + 1 \in Nat /\ Clean(it + 1)
    <3>1. Eol \notin Spaces /\ Malformed \notin Spaces
      BY DEF Spaces, Eol, Malformed
    <3> QED BY <2>1, <3>1, CleanNext
  <2> QED BY <2>1, <2>2 DEF Lexes
<1>2. CASE Comment
  <2> DEFINE P == {j \in it .. (Len(input) + 1) : Throws(j) \/ input[j] = Eol}
  <2>1. P \in SUBSET Nat /\ Len(input) + 1 \in P
    BY DEF TypeOK, Throws
  <2>2. Min(P) \in P /\ \A y \in P : Min(P) <= y
    <3> HIDE DEF P
    <3> QED BY <2>1, MinIs
  <2>3. Skip(Min(P))
    BY <1>2 DEF Comment
  <2> DEFINE m == Min(P)
  <2>4. m \in it .. (Len(input) + 1) /\ \A k \in it .. (Len(input) + 1) : k \in P => m <= k
    BY <2>2
  <2> HIDE DEF m
  <2>5. m \in Nat /\ Clean(m)
    BY <2>4 DEF Clean, Throws, TypeOK
  <2> QED BY <2>3, <2>5 DEF Lexes, m
<1> QED BY <1>1, <1>2

LEMMA Iterations ==
  ASSUME TypeOK, Next
  PROVE  \/ Running /\ Lexes
         \/ Run \/ EndOfLine \/ EndOfInput \/ Clear \/ Idle
<1>1. CASE Invalid \/ NoUtf8
  BY <1>1 DEF Invalid, NoUtf8, At, Lexes, Errors
<1> QED BY <1>1, PunctuateLexes, NameLexes, UnderscoreLexes, NumberLexes, SpaceLexes
        DEF Next, At, Punctuate, Name, Underscore, Number, Space, Comment

-----------------------------------------------------------------------------
(* The types of the context.                                               *)

LEMMA StartedIs ==
  ASSUME TypeOK, NEW type \in Types
  PROVE  Started(type) \in Token /\ \A l \in Nat : [Started(type) EXCEPT !.len = l] \in Token
BY DEF TypeOK, Started, Token

LEMMA NoTokenIs == NoToken \in Token /\ NoToken.type = "NONE"
BY DEF NoToken, Token, Types

LEMMA KeptIs ==
  ASSUME tokens \in Seq(Token), NEW t \in Token
  PROVE  Kept(t) \in Seq(Token)
BY DEF Kept

LEMMA LexesTypes == ASSUME TypeOK, Running, Lexes PROVE TypeOK'
<1> USE Places
<1>1. cur = NoToken
  BY DEF TypeOK, Running
<1>2. ASSUME NEW j \in Nat, Clean(j), it' = j, input' = input
      PROVE  it' \in 1 .. (Len(input') + 1) /\ Span(it, j) \in Nat
  BY <1>2, SpanType DEF Clean
<1>3. ASSUME NEW type \in Types \ {"NONE"}, NEW j \in Nat, Clean(j), EndToken(type, j)
      PROVE  TypeOK'
  <2>1. it' \in 1 .. (Len(input') + 1) /\ Span(it, j) \in Nat
    BY <1>2, <1>3 DEF EndToken
  <2>2. tokens' \in Seq(Token)
    <3>1. [Started(type) EXCEPT !.len = Span(it, j)] \in Token
      BY <2>1, StartedIs
    <3> QED BY <3>1, <1>3, KeptIs DEF EndToken, TypeOK
  <2>3. {pos', line', character', lineStart'} \subseteq Nat
    BY <1>3, <2>1 DEF EndToken, TypeOK
  <2> QED BY <1>3, <2>1, <2>2, <2>3, NoTokenIs DEF EndToken, TypeOK
<1>4. ASSUME NEW j \in Nat, Clean(j), Skip(j) PROVE TypeOK'
  <2>1. it' \in 1 .. (Len(input') + 1) /\ Span(it, j) \in Nat
    BY <1>2, <1>4 DEF Skip
  <2>3. {pos', line', character', lineStart'} \subseteq Nat
    BY <1>4, <2>1 DEF Skip, TypeOK
  <2> QED BY <1>4, <2>1, <2>3 DEF Skip, TypeOK
<1>5. ASSUME NEW error \in Errors,
             NEW building \in {cur, Started("NUMBER"), Started("IDENTIFIER")},
             Fail(error, building)
      PROVE  TypeOK'
  <2>1. building \in Token /\ building.type \in {"NONE", "NUMBER", "IDENTIFIER"}
    <3>1. CASE building = cur
      BY <3>1 DEF TypeOK
    <3>2. ASSUME NEW type \in {"NUMBER", "IDENTIFIER"}, building = Started(type)
          PROVE  building \in Token /\ building.type = type
      BY <3>2, StartedIs DEF Types, Started
    <3> QED BY <3>1, <3>2
  <2> QED BY <1>5, <2>1 DEF Fail, TypeOK, Errors
<1> QED BY <1>3, <1>4, <1>5 DEF Lexes

LEMMA TypeStep == ASSUME TypeOK, [Next]_tvars PROVE TypeOK'
<1> USE Places
<1>1. CASE Running /\ Lexes
  BY <1>1, LexesTypes
<1>2. CASE Run
  <2>1. tokens' \in Seq(Token) /\ cur' = NoToken
    BY <1>2, KeptIs DEF Run, TypeOK
  <2>2. input' \in Seq(STRING) /\ it' \in 1 .. (Len(input') + 1)
    BY <1>2, TokensAssumption DEF Run
  <2>3. called' \in Seq({"run", "clear"})
    BY <1>2 DEF Run, TypeOK
  <2> QED BY <1>2, <2>1, <2>2, <2>3, NoTokenIs DEF Run, TypeOK
<1>3. CASE EndOfLine
  <2>1. tokens' \in Seq(Token) /\ cur' = NoToken
    BY <1>3, KeptIs DEF EndOfLine, TypeOK
  <2>2. it' \in 1 .. (Len(input') + 1)
    BY <1>3 DEF EndOfLine, At
  <2>3. {pos', line', character', lineStart'} \subseteq Nat /\ lineNumberToPos' \in Seq(Nat)
    BY <1>3 DEF EndOfLine, TypeOK
  <2> QED BY <1>3, <2>1, <2>2, <2>3, NoTokenIs DEF EndOfLine, TypeOK
<1>4. CASE EndOfInput
  <2>1. tokens' \in Seq(Token) /\ cur' = NoToken
    <3>1. Started("EOF") \in Token
      BY StartedIs DEF Types
    <3> QED BY <1>4, <3>1 DEF EndOfInput, TypeOK
  <2> QED BY <1>4, <2>1, NoTokenIs DEF EndOfInput, TypeOK
<1>5. CASE Clear
  <2>1. tokens' \in Seq(Token) /\ cur' = NoToken
    BY <1>5 DEF Clear, TypeOK
  <2>2. input' \in Seq(STRING) /\ it' \in 1 .. (Len(input') + 1)
    BY <1>5 DEF Clear
  <2>3. called' \in Seq({"run", "clear"})
    BY <1>5 DEF Clear, TypeOK
  <2> QED BY <1>5, <2>1, <2>2, <2>3, NoTokenIs DEF Clear, TypeOK
<1>6. CASE Idle \/ UNCHANGED tvars
  BY <1>6 DEF Idle, tvars, TypeOK
<1> QED BY <1>1, <1>2, <1>3, <1>4, <1>5, <1>6, Iterations

LEMMA TypeInit == ASSUME Init PROVE TypeOK
<1>1. input \in Seq(STRING) /\ tokens \in Seq(Token) /\ called \in Seq({"run", "clear"})
  BY DEF Init
<1>2. lineNumberToPos \in Seq(Nat)
  BY DEF Init
<1> QED BY <1>1, <1>2, NoTokenIs DEF Init, TypeOK

\* However often run and clear are called, and whatever an earlier call left
\* behind, the context keeps its types, and a token is left half built only by
\* a run that failed.
THEOREM TokenTypes == Spec => []TypeOK
<1>1. Init => TypeOK
  BY TypeInit
<1>2. TypeOK /\ [Next]_tvars => TypeOK'
  BY TypeStep
<1> QED BY <1>1, <1>2, PTL DEF Spec

-----------------------------------------------------------------------------
(* Where things are.                                                       *)

LEMMA SameText ==
  ASSUME input' = input, NEW k
  PROVE  /\ Span(1, k)' = Span(1, k)
         /\ EolsBefore(k)' = EolsBefore(k)
         /\ StartOfLine(k)' = StartOfLine(k)
BY DEF Span, EolsBefore, StartOfLine

LEMMA SamePlaces ==
  ASSUME input' = input, tokens' = tokens, TokensPlaced
  PROVE  TokensPlaced'
BY SameText DEF TokensPlaced, TokenAt

\* A token that begins where run is says so
LEMMA OneMore ==
  ASSUME TypeOK, TokensPlaced, Counted, input' = input,
         NEW t, tokens' = Append(tokens, t),
         t.pos = pos, t.line = line, t.lineStart = lineStart, t.character = character
  PROVE  TokensPlaced'
<1> SUFFICES ASSUME NEW i \in DOMAIN tokens'
             PROVE  \E k \in 1 .. (Len(input) + 1) : TokenAt(tokens'[i], k)
  BY SameText DEF TokensPlaced, TokenAt
<1>0. /\ Len(tokens) \in Nat /\ DOMAIN tokens = 1 .. Len(tokens)
      /\ DOMAIN tokens' = 1 .. (Len(tokens) + 1) /\ tokens'[Len(tokens) + 1] = t
      /\ \A n \in DOMAIN tokens : tokens'[n] = tokens[n]
  <2> DEFINE S == Seq({tokens[n] : n \in DOMAIN tokens} \cup {t})
  <2>1. tokens \in S
    BY DEF TypeOK
  <2> HIDE DEF S
  <2> QED BY <2>1 DEF S
<1>1. CASE i \in DOMAIN tokens
  BY <1>0, <1>1 DEF TokensPlaced
<1>2. CASE i \notin DOMAIN tokens
  <2>1. tokens'[i] = t
    BY <1>0, <1>2
  <2>2. TokenAt(t, it)
    BY DEF Counted, TokenAt
  <2> QED BY <2>1, <2>2, Places
<1> QED BY <1>1, <1>2

LEMMA Advance ==
  ASSUME TypeOK, Counted, LinesKnown, Passed,
         NEW j \in Nat, Clean(j), it' = j,
         pos' = pos + Span(it, j), character' = character + Span(it, j),
         UNCHANGED <<input, line, lineStart, lineNumberToPos>>
  PROVE  Counted' /\ LinesKnown' /\ Passed'
<1>1. /\ Span(1, it)' = Span(1, j) /\ EolsBefore(it)' = EolsBefore(j)
      /\ StartOfLine(it)' = StartOfLine(j)
  BY DEF Span, EolsBefore, StartOfLine
<1>2. EolsBefore(j) = EolsBefore(it) /\ StartOfLine(j) = StartOfLine(it)
  BY Places, SameLine DEF Clean
<1>3. Span(1, j) = Span(1, it) + Span(it, j)
  BY Places, SpanSplit DEF Clean
<1>4. Span(it, j) \in Nat
  <2>1. it \in Nat /\ it <= j
    BY Places DEF Clean
  <2> QED BY <2>1, SpanType
<1>5. Span(1, StartOfLine(it))' = Span(1, StartOfLine(it))
  BY <1>1, <1>2 DEF Span
<1>6. pos \in Nat /\ character \in Nat /\ lineStart \in Nat
  BY DEF TypeOK
<1>7. character' = pos' - lineStart' + 1
  <2>1. character = pos - lineStart + 1
    BY DEF Counted
  <2> QED BY <1>4, <1>6, <2>1
<1>8. Counted'
  BY <1>1, <1>2, <1>3, <1>5, <1>7 DEF Counted
<1>9. LinesKnown'
  BY SameText DEF LinesKnown, LineAt
<1>10. Passed'
  <2> SUFFICES ASSUME NEW k \in 1 .. (j - 1) PROVE input[k] # Malformed
    BY DEF Passed
  <2> QED BY Places DEF Passed, Clean
<1> QED BY <1>8, <1>9, <1>10

LEMMA LexesPlaces ==
  ASSUME TypeOK, Running, Lexes, PositionInv
  PROVE  PositionInv'
<1> USE DEF PositionInv
<1>1. called # <<>> /\ Len(lineNumberToPos) = line
  BY DEF Session
<1>2. ASSUME NEW type \in Types \ {"NONE"}, NEW j \in Nat, Clean(j), EndToken(type, j)
      PROVE  PositionInv'
  <2> DEFINE t == [Started(type) EXCEPT !.len = Span(it, j)]
  <2>1. t.pos = pos /\ t.line = line /\ t.lineStart = lineStart /\ t.character = character
    BY DEF Started
  <2>2. tokens' = Append(tokens, t)
    BY <1>2 DEF EndToken, Kept, Started
  <2>3. TokensPlaced'
    <3> HIDE DEF t
    <3> QED BY <1>2, <2>1, <2>2, OneMore DEF EndToken
  <2>4. Counted' /\ LinesKnown' /\ Passed'
    BY <1>2, Advance DEF EndToken
  <2>5. Session'
    BY <1>1, <1>2 DEF EndToken, Session, Running
  <2> QED BY <2>3, <2>4, <2>5
<1>3. ASSUME NEW j \in Nat, Clean(j), Skip(j) PROVE PositionInv'
  <2>1. TokensPlaced'
    BY <1>3, SamePlaces DEF Skip
  <2>2. Counted' /\ LinesKnown' /\ Passed'
    BY <1>3, Advance DEF Skip
  <2>3. Session'
    BY <1>1, <1>3 DEF Skip, Session, Running
  <2> QED BY <2>1, <2>2, <2>3
<1>4. ASSUME NEW error \in Errors, NEW building, Fail(error, building) PROVE PositionInv'
  <2>1. TokensPlaced'
    BY <1>4, SamePlaces DEF Fail
  <2>2. Counted' /\ Passed'
    BY <1>4 DEF Fail, Counted, Passed, Span, EolsBefore, StartOfLine
  <2>3. LinesKnown'
    BY <1>4, SameText DEF Fail, LinesKnown, LineAt
  <2>4. Session'
    BY <1>1, <1>4 DEF Fail, Session, Running, Errors
  <2> QED BY <2>1, <2>2, <2>3, <2>4
<1> QED BY <1>2, <1>3, <1>4 DEF Lexes

\* Before the first character
LEMMA NothingYet ==
  /\ EolsBefore(1) = {} /\ StartOfLine(1) = 1 /\ Span(1, 1) = 0
  /\ Cardinality(EolsBefore(1)) = 0
<1>1. EolsBefore(1) = {}
  BY DEF EolsBefore
<1> QED BY <1>1, SpanEmpty, FS_EmptySet DEF StartOfLine

LEMMA NothingYetNext ==
  /\ EolsBefore(1)' = {} /\ StartOfLine(1)' = 1 /\ Span(1, 1)' = 0
  /\ Cardinality(EolsBefore(1)') = 0
<1>1. EolsBefore(1)' = {}
  BY DEF EolsBefore
<1>2. Span(1, 1)' = 0
  <2>1. {i \in 1 .. (1 - 1) : input'[i] \in Wide} = {}
    OBVIOUS
  <2> QED BY <2>1, FS_EmptySet DEF Span
<1> QED BY <1>1, <1>2, FS_EmptySet DEF StartOfLine

LEMMA RestartPlaces ==
  ASSUME it' = 1, pos' = 0, line' = 1, character' = 1, lineStart' = 0, tokens' = <<>>,
         lineNumberToPos' \in Seq(Nat), lineNumberToPos' # <<>>, lineNumberToPos'[1] = 0,
         Len(input') \in Nat
  PROVE  Counted' /\ TokensPlaced' /\ LinesKnown' /\ Passed'
<1>1. Counted'
  <2>1. Span(1, StartOfLine(it))' = Span(1, 1)' /\ Span(1, it)' = Span(1, 1)'
    BY NothingYetNext DEF Span
  <2>2. EolsBefore(it)' = EolsBefore(1)'
    BY DEF EolsBefore
  <2> QED BY <2>1, <2>2, NothingYetNext DEF Counted
<1>2. TokensPlaced'
  BY DEF TokensPlaced
<1>3. LinesKnown'
  <2>1. LineAt(1, 1)'
    BY NothingYetNext DEF LineAt
  <2>2. \A n \in 1 .. line' : n = 1
    OBVIOUS
  <2>3. 1 \in 1 .. (Len(input') + 1)
    OBVIOUS
  <2>4. line' <= Len(lineNumberToPos')
    OBVIOUS
  <2> QED BY <2>1, <2>2, <2>3, <2>4, NothingYetNext DEF LinesKnown
<1>4. Passed'
  BY DEF Passed
<1> QED BY <1>1, <1>2, <1>3, <1>4

LEMMA RunPlaces ==
  ASSUME TypeOK, Fresh, Run, PositionInv
  PROVE  PositionInv'
<1>1. /\ cur = NoToken /\ tokens = <<>> /\ lineStart = 0 /\ lineNumberToPos = <<0>>
      /\ called = <<>>
  BY DEF Run, PositionInv, Session
<1>2. /\ it' = 1 /\ pos' = 0 /\ line' = 1 /\ character' = 1 /\ lineStart' = 0
      /\ lineNumberToPos' = <<0>> /\ result' = "RUNNING" /\ called' = Append(<<>>, "run")
  BY <1>1 DEF Run
<1>3. tokens' = <<>>
  BY <1>1, NoTokenIs DEF Run, Kept
<1>4. Len(input') \in Nat
  BY TokensAssumption DEF Run
<1>5. lineNumberToPos' \in Seq(Nat) /\ Len(lineNumberToPos') = 1 /\ lineNumberToPos'[1] = 0
  BY <1>2
<1>6. Counted' /\ TokensPlaced' /\ LinesKnown' /\ Passed'
  BY <1>2, <1>3, <1>4, <1>5, RestartPlaces
<1>7. Session'
  BY <1>2, <1>5 DEF Session, Running
<1> QED BY <1>6, <1>7 DEF PositionInv

LEMMA ClearPlaces ==
  ASSUME TypeOK, Fresh, Clear, PositionInv
  PROVE  PositionInv'
<1>1. result = "OK" /\ called = <<"run">>
  BY DEF Clear
<1>2. cur = NoToken
  BY <1>1 DEF TypeOK
<1>3. tokens' = <<>>
  BY <1>2, NoTokenIs DEF Clear
<1>4. lineNumberToPos # <<>> /\ lineNumberToPos[1] = 0 /\ lineNumberToPos \in Seq(Nat)
  BY DEF PositionInv, Session, TypeOK
<1>5. Len(input') = 0 /\ it' = 1
  BY DEF Clear
<1>6. Counted' /\ TokensPlaced' /\ LinesKnown' /\ Passed'
  BY <1>3, <1>4, <1>5, RestartPlaces DEF Clear
<1>7. Session'
  BY <1>1, <1>4, <1>5 DEF Session, Running, Clear
<1> QED BY <1>6, <1>7 DEF PositionInv

LEMMA EndOfLinePlaces ==
  ASSUME TypeOK, EndOfLine, PositionInv
  PROVE  PositionInv'
<1>1. /\ input[it] = Eol /\ it \in Nat /\ 1 <= it /\ it <= Len(input) /\ Len(input) \in Nat
      /\ Running
  BY Places DEF EndOfLine, At
<1>2. tokens' = tokens
  BY <1>1, NoTokenIs DEF EndOfLine, Kept, TypeOK, Running
<1>3. /\ called # <<>> /\ Len(lineNumberToPos) = line /\ lineNumberToPos # <<>>
      /\ lineNumberToPos[1] = 0 /\ lineNumberToPos \in Seq(Nat) /\ line \in Nat /\ pos \in Nat
  BY <1>1 DEF PositionInv, Session, TypeOK
<1>4. Span(1, it + 1) = pos + 1
  <2>1. Span(1, it + 1) = Span(1, it) + Span(it, it + 1)
    BY <1>1, SpanSplit
  <2> DEFINE W == {i \in it .. ((it + 1) - 1) : input[i] \in Wide}
  <2>2. W = {}
    BY <1>1 DEF Eol, Wide
  <2>3. Span(it, it + 1) = 1
    <3>1. Span(it, it + 1) = ((it + 1) - it) + Cardinality(W)
      BY DEF Span
    <3>2. Cardinality(W) = 0
      BY <2>2, FS_EmptySet
    <3> HIDE DEF W
    <3> QED BY <1>1, <3>1, <3>2
  <2> QED BY <1>3, <2>1, <2>3 DEF PositionInv, Counted
<1>5. LineAt(line + 1, it + 1)
  <2>1. /\ Cardinality(EolsBefore(it + 1)) = Cardinality(EolsBefore(it)) + 1
        /\ StartOfLine(it + 1) = it + 1
    BY <1>1, NextLine
  <2>2. line = 1 + Cardinality(EolsBefore(it)) /\ Cardinality(EolsBefore(it)) \in Nat
    BY <1>1, EolsFinite DEF PositionInv, Counted
  <2>3. Cardinality(EolsBefore(it + 1)) = (line + 1) - 1
    BY <2>1, <2>2
  <2> QED BY <2>1, <2>3 DEF LineAt
<1>6. Counted'
  <2>1. /\ Span(1, it)' = Span(1, it + 1) /\ EolsBefore(it)' = EolsBefore(it + 1)
        /\ StartOfLine(it)' = StartOfLine(it + 1)
    BY DEF EndOfLine, Span, EolsBefore, StartOfLine
  <2>2. StartOfLine(it)' = it + 1 /\ Cardinality(EolsBefore(it + 1)) = line
    BY <1>3, <1>5, <2>1 DEF LineAt
  <2>3. Span(1, StartOfLine(it))' = Span(1, it + 1)
    BY <2>2 DEF EndOfLine, Span
  <2>4. line' = 1 + line /\ pos' = pos + 1 /\ lineStart' = pos + 1 /\ character' = 1
    BY <1>3 DEF EndOfLine
  <2> QED BY <1>3, <1>4, <2>1, <2>2, <2>3, <2>4 DEF Counted
<1>7. LinesKnown'
  <2>1. /\ line' = line + 1 /\ Len(lineNumberToPos') = line + 1
        /\ lineNumberToPos'[line + 1] = pos + 1
        /\ \A n \in 1 .. line : lineNumberToPos'[n] = lineNumberToPos[n]
    BY <1>3 DEF EndOfLine
  <2>2. input' = input
    BY DEF EndOfLine
  <2>3. \A n, s : LineAt(n, s)' <=> LineAt(n, s)
    BY <2>2, SameText DEF LineAt
  <2>4. ASSUME NEW n \in 1 .. line'
        PROVE  \E s \in 1 .. (Len(input) + 1) :
                 LineAt(n, s) /\ lineNumberToPos'[n] = Span(1, s)
    <3>1. CASE n = line + 1
      BY <1>1, <1>4, <1>5, <2>1, <3>1
    <3>2. CASE n \in 1 .. line
      BY <2>1, <3>2 DEF PositionInv, LinesKnown
    <3> QED BY <1>3, <2>1, <3>1, <3>2
  <2> QED BY <1>3, <2>1, <2>2, <2>3, <2>4, SameText DEF LinesKnown
<1>8. Passed'
  BY <1>1 DEF EndOfLine, PositionInv, Passed, Eol, Malformed
<1>9. TokensPlaced'
  BY <1>2, SamePlaces DEF EndOfLine, PositionInv
<1>10. Session'
  BY <1>1, <1>3 DEF EndOfLine, Session, Running
<1> QED BY <1>6, <1>7, <1>8, <1>9, <1>10 DEF PositionInv

LEMMA EndOfInputPlaces ==
  ASSUME TypeOK, EndOfInput, PositionInv
  PROVE  PositionInv'
<1> USE DEF PositionInv
<1>1. TokensPlaced'
  <2>1. LET t == Started("EOF") IN
          t.pos = pos /\ t.line = line /\ t.lineStart = lineStart /\ t.character = character
    BY DEF Started
  <2> QED BY <2>1, OneMore DEF EndOfInput
<1>2. Counted' /\ Passed'
  BY DEF EndOfInput, Counted, Passed, Span, EolsBefore, StartOfLine
<1>3. LinesKnown'
  BY SameText DEF EndOfInput, LinesKnown, LineAt
<1>4. Session'
  BY Places DEF EndOfInput, Session, Running
<1> QED BY <1>1, <1>2, <1>3, <1>4

LEMMA PositionStep == ASSUME TypeOK, Fresh, [Next]_tvars, PositionInv PROVE PositionInv'
<1>1. CASE Idle \/ UNCHANGED tvars
  <2>1. UNCHANGED tvars
    BY <1>1 DEF Idle
  <2>2. TokensPlaced'
    BY <2>1, SamePlaces DEF tvars, PositionInv
  <2>3. Counted' /\ Passed'
    BY <2>1 DEF tvars, PositionInv, Counted, Passed, Span, EolsBefore, StartOfLine
  <2>4. LinesKnown'
    BY <2>1, SameText DEF tvars, PositionInv, LinesKnown, LineAt
  <2>5. Session'
    BY <2>1 DEF tvars, PositionInv, Session, Running
  <2> QED BY <2>2, <2>3, <2>4, <2>5 DEF PositionInv
<1> QED BY <1>1, Iterations, LexesPlaces, RunPlaces, ClearPlaces, EndOfLinePlaces,
           EndOfInputPlaces

LEMMA PositionInit == ASSUME Init PROVE PositionInv
<1>1. Counted
  BY NothingYet DEF Init, Counted
<1>2. LinesKnown
  <2>1. LineAt(1, 1) /\ Len(input) = 0 /\ line = 1 /\ Len(lineNumberToPos) = 1 /\ lineNumberToPos[1] = 0
    BY NothingYet DEF Init, LineAt
  <2> QED BY <2>1, NothingYet DEF LinesKnown
<1> QED BY <1>1, <1>2 DEF Init, PositionInv, TokensPlaced, Passed, Session, Running

-----------------------------------------------------------------------------
(* What a host reads from it.                                              *)

\* A line begins at one place
LEMMA OneStart ==
  ASSUME NEW n, NEW i \in Nat, NEW j \in Nat, i <= j, LineAt(n, i), LineAt(n, j)
  PROVE  i = j
<1>1. EolsBefore(i) \in SUBSET EolsBefore(j)
  BY DEF EolsBefore
<1>2. EolsBefore(i) = EolsBefore(j)
  BY <1>1, EolsFinite, FS_Subset DEF LineAt
<1> QED BY <1>2 DEF LineAt, StartOfLine

LEMMA LineIs ==
  ASSUME TypeOK, NEW n, NEW s \in 1 .. (Len(input) + 1), LineAt(n, s)
  PROVE  Line(n) = SubSeq(input, s, Min({j \in s .. (Len(input) + 1) :
                                           j > Len(input) \/ input[j] = Eol}) - 1)
<1> DEFINE At1(i) == Cardinality(EolsBefore(i)) = n - 1 /\ StartOfLine(i) = i
           start == CHOOSE i \in 1 .. (Len(input) + 1) : At1(i)
<1>1. \A i : At1(i) <=> LineAt(n, i)
  BY DEF LineAt
<1>2. start \in 1 .. (Len(input) + 1) /\ At1(start)
  <2> HIDE DEF At1
  <2> QED BY <1>1
<1>3. start = s
  <2> HIDE DEF start, At1
  <2>1. start \in Nat /\ s \in Nat /\ (start <= s \/ s <= start)
    BY <1>2, Places
  <2> QED BY <1>1, <1>2, <2>1, OneStart
<1> QED BY <1>3 DEF Line

\* text_on_line shows a line that is not empty
LEMMA ShowsLine ==
  ASSUME TypeOK, PositionInv, result = "OK", NEW n \in 1 .. line, Line(n) # <<>>
  PROVE  TextOnLine(n) = Line(n)
<1>1. PICK s \in 1 .. (Len(input) + 1) : LineAt(n, s) /\ lineNumberToPos[n] = Span(1, s)
  BY DEF PositionInv, LinesKnown
<1>2. IndexAt(lineNumberToPos[n]) = s
  BY <1>1, IndexIs, Places
<1>3. \A k \in 1 .. Len(input) : input[k] # Malformed
  BY Places DEF PositionInv, Passed, Session
<1> DEFINE P == {j \in s .. (Len(input) + 1) : j > Len(input) \/ input[j] = Eol}
           T == {j \in (s + 1) .. (Len(input) + 1) : Throws(j) \/ input[j] = Eol}
<1>4. Line(n) = SubSeq(input, s, Min(P) - 1)
  BY <1>1, LineIs
<1>5. Min(P) \in P /\ \A y \in P : Min(P) <= y
  <2>1. P \in SUBSET Nat /\ Len(input) + 1 \in P
    BY Places
  <2> HIDE DEF P
  <2> QED BY <2>1, MinIs
<1>6. Min(P) # s
  <2> SUFFICES ASSUME Min(P) = s PROVE FALSE
    OBVIOUS
  <2>1. Line(n) = SubSeq(input, s, s - 1)
    BY <1>4
  <2>2. SubSeq(input, s, s - 1) = <<>>
    BY Places
  <2> QED BY <2>1, <2>2
<1>7. s \notin P
  BY <1>5, <1>6, Places
<1>8. ~Throws(s)
  BY <1>3, <1>7, Places DEF Throws
<1>9. P = T
  BY <1>3, <1>7, Places DEF Throws
<1>10. TextOnLine(n) = SubSeq(input, s, Min(T) - 1)
  BY <1>2, <1>8 DEF TextOnLine
<1> QED BY <1>4, <1>9, <1>10

LEMMA PositionsFollow == ASSUME TypeOK, PositionInv PROVE Positions
<1>1. Running => pos = Span(1, it)
  BY DEF PositionInv, Counted
<1>2. ASSUME NEW i \in DOMAIN tokens
      PROVE  LET t == tokens[i] IN
               /\ t.line = 1 + Cardinality(EolsBefore(First(t)))
               /\ t.lineStart = Span(1, StartOfLine(First(t)))
               /\ t.character = t.pos - t.lineStart + 1
  <2>1. PICK k \in 1 .. (Len(input) + 1) : TokenAt(tokens[i], k)
    BY DEF PositionInv, TokensPlaced
  <2>2. First(tokens[i]) = k
    BY <2>1, IndexIs, Places DEF First, TokenAt
  <2> QED BY <2>1, <2>2 DEF TokenAt
<1> QED BY <1>1, <1>2, ShowsLine DEF Positions

\* In a context that is used once every token says where it is: at its byte, on
\* its line, at the start of that line and at its place in it, whatever lines,
\* comments, blanks and wide characters came before; and text_on_line shows a
\* line that is not empty as it was written.
THEOREM TokensSayWhere == Spec => []Positions
<1>1. CASE ~Fresh
  <2>1. Positions
    BY <1>1 DEF Positions
  <2> QED BY <2>1, PTL
<1>2. CASE Fresh
  <2>1. Init => TypeOK /\ PositionInv
    BY TypeInit, PositionInit
  <2>2. TypeOK /\ PositionInv /\ [Next]_tvars => TypeOK' /\ PositionInv'
    BY <1>2, TypeStep, PositionStep
  <2>3. TypeOK /\ PositionInv => Positions
    BY PositionsFollow
  <2> QED BY <2>1, <2>2, <2>3, PTL DEF Spec
<1> QED BY <1>1, <1>2

-----------------------------------------------------------------------------
(* Lexemes where they are in the text: the rules say what a sequence of     *)
(* characters is, the code looks at the text from one place on.             *)

\* s is the text from a up to b
Piece(s, a, b) ==
  /\ s \in Seq({input[i] : i \in DOMAIN input}) /\ Len(s) = b - a
  /\ a \in 1 .. (Len(input) + 1) /\ b \in a .. (Len(input) + 1)
  /\ \A i \in 1 .. (b - a) : s[i] = input[a + i - 1]

DigitsAt(a, b) == a < b /\ \A i \in a .. (b - 1) : input[i] \in Digits
MantissaAt(a, b) ==
  \/ DigitsAt(a, b)
  \/ \E p \in a .. (b - 1) : input[p] = "." /\ DigitsAt(a, p) /\ DigitsAt(p + 1, b)
\* after a sign, if there is one
SignAt(a, b) == IF a < b /\ input[a] \in Signs THEN a + 1 ELSE a
LiteralAt(a, b) ==
  \/ MantissaAt(SignAt(a, b), b)
  \/ \E p \in a .. (b - 1) : /\ input[p] = "e" /\ MantissaAt(SignAt(a, p), p)
                             /\ DigitsAt(SignAt(p + 1, b), b)
LowLine == "_"
IdentifierAt(a, b) ==
  /\ a < b /\ input[a] \in IdAlpha
  /\ input[a] = LowLine => a + 1 < b /\ input[a + 1] \in IdAlpha
  /\ \A i \in (a + 1) .. (b - 1) : input[i] \in IdAlnum \cup {LowLine}

\* The same as the rules have them: a point may end a mantissa, and a letter
\* follows an underscore that begins a name
MantissaWritten(a, b) ==
  \/ DigitsAt(a, b)
  \/ \E p \in a .. (b - 1) : /\ input[p] = "." /\ DigitsAt(a, p)
                             /\ p + 1 = b \/ DigitsAt(p + 1, b)
LiteralWritten(a, b) ==
  \/ MantissaWritten(SignAt(a, b), b)
  \/ \E p \in a .. (b - 1) : /\ input[p] = "e" /\ MantissaWritten(SignAt(a, p), p)
                             /\ DigitsAt(SignAt(p + 1, b), b)
IdentifierWritten(a, b) ==
  /\ a < b /\ input[a] \in IdAlpha
  /\ input[a] = LowLine => a + 1 < b /\ input[a + 1] \in Letters \cup Wide
  /\ \A i \in (a + 1) .. (b - 1) : input[i] \in IdAlnum \cup {LowLine}

LEMMA PieceIs ==
  ASSUME TypeOK, NEW a \in 1 .. (Len(input) + 1), NEW b \in a .. (Len(input) + 1)
  PROVE  Piece(SubSeq(input, a, b - 1), a, b)
<1> DEFINE S == {input[i] : i \in DOMAIN input}
<1>1. \A i \in a .. (b - 1) : input[i] \in S
  BY DEF TypeOK
<1>2. a \in Int /\ b - 1 \in Int /\ Len(input) \in Nat
  BY DEF TypeOK
<1>3. /\ SubSeq(input, a, b - 1) \in Seq(S)
      /\ Len(SubSeq(input, a, b - 1)) = IF a <= b - 1 THEN (b - 1) - a + 1 ELSE 0
      /\ \A i \in 1 .. (b - 1) - a + 1 : SubSeq(input, a, b - 1)[i] = input[a + i - 1]
  <2> HIDE DEF S
  <2> QED BY <1>1, <1>2, SubSeqProperties
<1>4. (b - 1) - a + 1 = b - a /\ (a > b - 1 => b - a = 0)
  BY <1>2
<1> HIDE DEF S
<1> QED BY <1>2, <1>3, <1>4 DEF Piece, S

LEMMA PieceOfPiece ==
  ASSUME Len(input) \in Nat, NEW s, NEW a \in Nat, NEW b \in Nat, Piece(s, a, b),
         NEW m \in 1 .. (b - a + 1), NEW n \in (m - 1) .. (b - a)
  PROVE  Piece(SubSeq(s, m, n), a + m - 1, a + n)
<1> DEFINE S == {input[i] : i \in DOMAIN input}
           t == SubSeq(s, m, n)
<1>0. s \in Seq(S) /\ Len(s) = b - a
  BY DEF Piece
<1>1. \A i \in m .. n : s[i] \in S
  <2> HIDE DEF S
  <2> QED BY <1>0
<1>2. /\ t \in Seq(S) /\ Len(t) = (IF m <= n THEN n - m + 1 ELSE 0)
      /\ \A i \in 1 .. n - m + 1 : t[i] = s[m + i - 1]
  <2> HIDE DEF S
  <2> QED BY <1>1, SubSeqProperties
<1>3. Len(t) = (a + n) - (a + m - 1)
  BY <1>2
<1>4. ASSUME NEW i \in 1 .. ((a + n) - (a + m - 1)) PROVE t[i] = input[(a + m - 1) + i - 1]
  <2>1. i \in 1 .. n - m + 1 /\ m + i - 1 \in 1 .. (b - a)
    OBVIOUS
  <2>2. t[i] = s[m + i - 1] /\ s[m + i - 1] = input[a + (m + i - 1) - 1]
    BY <1>2, <2>1 DEF Piece
  <2>3. a + (m + i - 1) - 1 = (a + m - 1) + i - 1
    OBVIOUS
  <2> QED BY <2>2, <2>3
<1>5. a + m - 1 \in 1 .. (Len(input) + 1) /\ a + n \in (a + m - 1) .. (Len(input) + 1)
  BY DEF Piece
<1> HIDE DEF t, S
<1> QED BY <1>2, <1>3, <1>4, <1>5 DEF Piece, S, t

LEMMA PieceTail ==
  ASSUME Len(input) \in Nat, NEW s, NEW a \in Nat, NEW b \in Nat, Piece(s, a, b)
  PROVE  Piece(Unsigned(s), SignAt(a, b), b)
<1> DEFINE S == {input[i] : i \in DOMAIN input}
<1>0. s \in Seq(S) /\ Len(s) = b - a
  BY DEF Piece
<1>1. s # <<>> <=> a < b
  <2> HIDE DEF S
  <2> QED BY <1>0
<1>2. a < b => s[1] = input[a]
  BY DEF Piece
<1>3. CASE a < b /\ input[a] \in Signs
  <2>1. Tail(s) = SubSeq(s, 2, Len(s))
    <3> HIDE DEF S
    <3> QED BY <1>0, <1>1, <1>3, TailIsSubSeq
  <2>2. Piece(SubSeq(s, 2, Len(s)), a + 2 - 1, a + Len(s))
    <3>1. 2 \in 1 .. (b - a + 1) /\ Len(s) \in (2 - 1) .. (b - a)
      BY <1>0, <1>3
    <3> HIDE DEF S
    <3> QED BY <3>1, PieceOfPiece
  <2>3. a + 2 - 1 = a + 1 /\ a + Len(s) = b
    BY <1>0
  <2>4. Piece(Tail(s), a + 1, b)
    BY <2>1, <2>2, <2>3
  <2>5. Unsigned(s) = Tail(s) /\ SignAt(a, b) = a + 1
    BY <1>1, <1>2, <1>3 DEF Unsigned, SignAt
  <2> QED BY <2>4, <2>5
<1>4. CASE ~(a < b /\ input[a] \in Signs)
  <2>1. Unsigned(s) = s /\ SignAt(a, b) = a
    BY <1>1, <1>2, <1>4 DEF Unsigned, SignAt
  <2> QED BY <2>1
<1> QED BY <1>3, <1>4

LEMMA DigitsPiece ==
  ASSUME Len(input) \in Nat, NEW s, NEW a \in Nat, NEW b \in Nat, Piece(s, a, b)
  PROVE  AllDigits(s) <=> DigitsAt(a, b)
<1> DEFINE S == {input[i] : i \in DOMAIN input}
<1>0. s \in Seq(S) /\ Len(s) = b - a /\ \A i \in 1 .. (b - a) : s[i] = input[a + i - 1]
  BY DEF Piece
<1>1. (s # <<>> <=> a < b) /\ DOMAIN s = 1 .. (b - a)
  <2> HIDE DEF S
  <2> QED BY <1>0
<1>2. ASSUME \A i \in DOMAIN s : s[i] \in Digits, NEW i \in a .. (b - 1)
      PROVE  input[i] \in Digits
  <2>1. i - a + 1 \in 1 .. (b - a) /\ a + (i - a + 1) - 1 = i
    OBVIOUS
  <2> HIDE DEF S
  <2> QED BY <1>0, <1>1, <1>2, <2>1
<1>3. ASSUME \A i \in a .. (b - 1) : input[i] \in Digits, NEW i \in DOMAIN s
      PROVE  s[i] \in Digits
  <2>1. i \in 1 .. (b - a) /\ a + i - 1 \in a .. (b - 1)
    BY <1>1
  <2> HIDE DEF S
  <2> QED BY <1>0, <1>3, <2>1
<1> QED BY <1>1, <1>2, <1>3 DEF AllDigits, DigitsAt

\* A part of a piece is a piece
LEMMA PartIs ==
  ASSUME Len(input) \in Nat, NEW s, NEW a \in Nat, NEW b \in Nat, Piece(s, a, b),
         NEW k \in 1 .. (b - a)
  PROVE  /\ Piece(SubSeq(s, 1, k - 1), a, a + k - 1)
         /\ Piece(From(s, k + 1), a + k, b)
<1>1. Piece(SubSeq(s, 1, k - 1), a + 1 - 1, a + (k - 1))
  <2>1. 1 \in 1 .. (b - a + 1) /\ k - 1 \in (1 - 1) .. (b - a)
    OBVIOUS
  <2> QED BY <2>1, PieceOfPiece
<1>2. Piece(SubSeq(s, k + 1, b - a), a + (k + 1) - 1, a + (b - a))
  <2>1. k + 1 \in 1 .. (b - a + 1) /\ b - a \in ((k + 1) - 1) .. (b - a)
    OBVIOUS
  <2> QED BY <2>1, PieceOfPiece
<1>3. Len(s) = b - a
  BY DEF Piece
<1>4. a + 1 - 1 = a /\ a + (k - 1) = a + k - 1 /\ a + (k + 1) - 1 = a + k /\ a + (b - a) = b
  OBVIOUS
<1> QED BY <1>1, <1>2, <1>3, <1>4 DEF From

LEMMA PieceFacts ==
  ASSUME Len(input) \in Nat, NEW s, NEW a \in Nat, NEW b \in Nat, Piece(s, a, b)
  PROVE  /\ DOMAIN s = 1 .. (b - a) /\ (s # <<>> <=> a < b) /\ Len(s) = b - a /\ a <= b
         /\ \A k \in 1 .. (b - a) : s[k] = input[a + k - 1]
         /\ \A p \in a .. (b - 1) : p - a + 1 \in 1 .. (b - a) /\ s[p - a + 1] = input[p]
<1> DEFINE S == {input[i] : i \in DOMAIN input}
<1>0. s \in Seq(S) /\ Len(s) = b - a /\ a <= b /\ \A i \in 1 .. (b - a) : s[i] = input[a + i - 1]
  BY DEF Piece
<1>1. (s # <<>> <=> a < b) /\ DOMAIN s = 1 .. (b - a)
  <2> HIDE DEF S
  <2> QED BY <1>0
<1>2. ASSUME NEW p \in a .. (b - 1)
      PROVE  p - a + 1 \in 1 .. (b - a) /\ s[p - a + 1] = input[p]
  <2>1. p - a + 1 \in 1 .. (b - a) /\ a + (p - a + 1) - 1 = p
    OBVIOUS
  <2> HIDE DEF S
  <2> QED BY <1>0, <2>1
<1> HIDE DEF S
<1> QED BY <1>0, <1>1, <1>2

LEMMA MantissaPiece ==
  ASSUME Len(input) \in Nat, NEW s, NEW a \in Nat, NEW b \in Nat, Piece(s, a, b)
  PROVE  IsMantissa(s) <=> MantissaWritten(a, b)
<1>1. AllDigits(s) <=> DigitsAt(a, b)
  BY DigitsPiece
<1> DEFINE PointAt(p) == /\ input[p] = "." /\ DigitsAt(a, p)
                         /\ p + 1 = b \/ DigitsAt(p + 1, b)
           Point(k) == /\ s[k] = "." /\ AllDigits(SubSeq(s, 1, k - 1))
                       /\ k = Len(s) \/ AllDigits(From(s, k + 1))
<1>2. ASSUME NEW k \in 1 .. (b - a) PROVE Point(k) <=> PointAt(a + k - 1)
  <2>1. AllDigits(SubSeq(s, 1, k - 1)) <=> DigitsAt(a, a + k - 1)
    <3>1. a + k - 1 \in Nat
      OBVIOUS
    <3>2. Piece(SubSeq(s, 1, k - 1), a, a + k - 1)
      BY PartIs
    <3> QED BY <3>1, <3>2, DigitsPiece
  <2>2. AllDigits(From(s, k + 1)) <=> DigitsAt(a + k, b)
    <3>1. a + k \in Nat
      OBVIOUS
    <3>2. Piece(From(s, k + 1), a + k, b)
      BY PartIs
    <3> QED BY <3>1, <3>2, DigitsPiece
  <2>3. s[k] = input[a + k - 1] /\ (a + k - 1) + 1 = a + k
    BY PieceFacts
  <2>4. k = Len(s) <=> a + k = b
    <3>1. Len(s) = b - a
      BY PieceFacts
    <3> QED BY <3>1
  <2> QED BY <2>1, <2>2, <2>3, <2>4
<1>3. DOMAIN s = 1 .. (b - a)
  BY PieceFacts
<1>4. \A p \in a .. (b - 1) : p - a + 1 \in 1 .. (b - a) /\ a + (p - a + 1) - 1 = p
  OBVIOUS
<1>5. \A k \in 1 .. (b - a) : a + k - 1 \in a .. (b - 1)
  OBVIOUS
<1>6. (\E k \in DOMAIN s : Point(k)) <=> (\E p \in a .. (b - 1) : PointAt(p))
  <2> HIDE DEF Point, PointAt
  <2>1. ASSUME NEW p \in a .. (b - 1), PointAt(p) PROVE \E k \in DOMAIN s : Point(k)
    <3>1. p - a + 1 \in DOMAIN s /\ Point(p - a + 1)
      BY <1>2, <1>3, <1>4, <2>1
    <3> QED BY <3>1
  <2>2. ASSUME NEW k \in DOMAIN s, Point(k) PROVE \E p \in a .. (b - 1) : PointAt(p)
    BY <1>2, <1>3, <1>5, <2>2
  <2> QED BY <2>1, <2>2
<1> QED BY <1>1, <1>6 DEF IsMantissa, MantissaWritten

LEMMA LiteralPiece ==
  ASSUME Len(input) \in Nat, NEW s, NEW a \in Nat, NEW b \in Nat, Piece(s, a, b)
  PROVE  IsLiteral(s) <=> LiteralWritten(a, b)
<1>0. \A c \in Nat, d \in Nat : SignAt(c, d) \in Nat
  BY DEF SignAt
<1>1. IsMantissa(Unsigned(s)) <=> MantissaWritten(SignAt(a, b), b)
  BY <1>0, PieceTail, MantissaPiece
<1> DEFINE PowerAt(p) == /\ input[p] = "e" /\ MantissaWritten(SignAt(a, p), p)
                         /\ DigitsAt(SignAt(p + 1, b), b)
           Power(k) == /\ s[k] = "e" /\ IsMantissa(Unsigned(SubSeq(s, 1, k - 1)))
                       /\ AllDigits(Unsigned(From(s, k + 1)))
<1>2. ASSUME NEW k \in 1 .. (b - a) PROVE Power(k) <=> PowerAt(a + k - 1)
  <2>0. a + k - 1 \in Nat /\ a + k \in Nat /\ (a + k - 1) + 1 = a + k
    OBVIOUS
  <2>1. IsMantissa(Unsigned(SubSeq(s, 1, k - 1)))
          <=> MantissaWritten(SignAt(a, a + k - 1), a + k - 1)
    <3>1. Piece(Unsigned(SubSeq(s, 1, k - 1)), SignAt(a, a + k - 1), a + k - 1)
      BY <2>0, PartIs, PieceTail
    <3> QED BY <1>0, <2>0, <3>1, MantissaPiece
  <2>2. AllDigits(Unsigned(From(s, k + 1))) <=> DigitsAt(SignAt(a + k, b), b)
    <3>1. Piece(Unsigned(From(s, k + 1)), SignAt(a + k, b), b)
      BY <2>0, PartIs, PieceTail
    <3> QED BY <1>0, <2>0, <3>1, DigitsPiece
  <2>3. s[k] = input[a + k - 1]
    BY PieceFacts
  <2> QED BY <2>0, <2>1, <2>2, <2>3
<1>3. DOMAIN s = 1 .. (b - a)
  BY PieceFacts
<1>4. \A p \in a .. (b - 1) : p - a + 1 \in 1 .. (b - a) /\ a + (p - a + 1) - 1 = p
  OBVIOUS
<1>5. \A k \in 1 .. (b - a) : a + k - 1 \in a .. (b - 1)
  OBVIOUS
<1>6. (\E k \in DOMAIN s : Power(k)) <=> (\E p \in a .. (b - 1) : PowerAt(p))
  <2> HIDE DEF Power, PowerAt
  <2>1. ASSUME NEW p \in a .. (b - 1), PowerAt(p) PROVE \E k \in DOMAIN s : Power(k)
    <3>1. p - a + 1 \in DOMAIN s /\ Power(p - a + 1)
      BY <1>2, <1>3, <1>4, <2>1
    <3> QED BY <3>1
  <2>2. ASSUME NEW k \in DOMAIN s, Power(k) PROVE \E p \in a .. (b - 1) : PowerAt(p)
    BY <1>2, <1>3, <1>5, <2>2
  <2> QED BY <2>1, <2>2
<1> QED BY <1>1, <1>6 DEF IsLiteral, LiteralWritten

LEMMA IdentifierPiece ==
  ASSUME Len(input) \in Nat, NEW s, NEW a \in Nat, NEW b \in Nat, Piece(s, a, b)
  PROVE  IsIdentifier(s) <=> IdentifierWritten(a, b)
<1> DEFINE S == IdAlnum \cup {LowLine}
<1>1. (s # <<>> <=> a < b) /\ Len(s) = b - a
  BY PieceFacts
<1>2. a < b => s[1] = input[a]
  BY PieceFacts
<1>3. a + 1 < b => s[2] = input[a + 1]
  BY PieceFacts
<1>4. (\A i \in 2 .. Len(s) : s[i] \in S) <=> (\A i \in (a + 1) .. (b - 1) : input[i] \in S)
  <2> HIDE DEF S
  <2>1. ASSUME \A i \in 2 .. Len(s) : s[i] \in S, NEW p \in (a + 1) .. (b - 1)
        PROVE  input[p] \in S
    <3>1. p - a + 1 \in 2 .. Len(s) /\ s[p - a + 1] = input[p]
      BY <1>1, PieceFacts
    <3> QED BY <2>1, <3>1
  <2>2. ASSUME \A i \in (a + 1) .. (b - 1) : input[i] \in S, NEW i \in 2 .. Len(s)
        PROVE  s[i] \in S
    <3>1. a + i - 1 \in (a + 1) .. (b - 1) /\ s[i] = input[a + i - 1]
      BY <1>1, PieceFacts
    <3> QED BY <2>2, <3>1
  <2> QED BY <2>1, <2>2
<1>5. Len(s) > 1 <=> a + 1 < b
  BY <1>1
<1> HIDE DEF S
<1> QED BY <1>1, <1>2, <1>3, <1>4, <1>5 DEF IsIdentifier, IdentifierWritten, S, LowLine

\* The lexemes of one character
LEMMA SinglePiece ==
  ASSUME Len(input) \in Nat, NEW s, NEW a \in Nat, NEW b \in Nat, Piece(s, a, b), NEW c
  PROVE  s = <<c>> <=> b = a + 1 /\ input[a] = c
<1> DEFINE S == {input[i] : i \in DOMAIN input}
<1>1. s \in Seq(S) /\ Len(s) = b - a /\ a <= b
  BY DEF Piece
<1>2. a < b => s[1] = input[a]
  BY PieceFacts
<1>3. ASSUME s = <<c>> PROVE b = a + 1 /\ input[a] = c
  <2>1. Len(<<c>>) = 1 /\ <<c>>[1] = c
    OBVIOUS
  <2>2. Len(s) = 1 /\ s[1] = c
    BY <1>3, <2>1
  <2>3. b - a = 1
    BY <1>1, <2>2
  <2>4. b = a + 1 /\ a < b
    BY <2>3
  <2> QED BY <1>2, <2>2, <2>4
<1>4. ASSUME b = a + 1, input[a] = c PROVE s = <<c>>
  <2>1. Len(s) = 1 /\ s[1] = c
    BY <1>1, <1>2, <1>4
  <2>2. c \in S
    <3>1. 1 \in 1 .. Len(s)
      BY <2>1
    <3> HIDE DEF S
    <3> QED BY <1>1, <2>1, <3>1, ElementOfSeq
  <2>3. <<c>> \in Seq(S) /\ Len(<<c>>) = 1 /\ <<c>>[1] = c
    BY <2>2
  <2> DEFINE u == <<c>>
  <2>4. u \in Seq(S) /\ Len(s) = Len(u) /\ \A i \in 1 .. Len(s) : s[i] = u[i]
    BY <2>1, <2>3
  <2>5. s = u
    <3> HIDE DEF S, u
    <3> QED BY <1>1, <2>4, SeqEqual
  <2> QED BY <2>5
<1> QED BY <1>3, <1>4

LexemeAt(type, a, b) ==
  CASE type = "NUMBER" -> LiteralAt(a, b)
    [] type = "IDENTIFIER" -> IdentifierAt(a, b)
    [] type = "UNDERSCORE" -> b = a + 1 /\ input[a] = LowLine
    [] OTHER -> \E c \in DOMAIN Punctuation : type = Punctuation[c] /\ b = a + 1 /\ input[a] = c

LexemeWritten(type, a, b) ==
  CASE type = "NUMBER" -> LiteralWritten(a, b)
    [] type = "IDENTIFIER" -> IdentifierWritten(a, b)
    [] OTHER -> LexemeAt(type, a, b)

LEMMA LexemePiece ==
  ASSUME TypeOK, NEW a \in 1 .. (Len(input) + 1), NEW b \in a .. (Len(input) + 1), NEW type
  PROVE  IsLexeme(type, SubSeq(input, a, b - 1)) <=> LexemeWritten(type, a, b)
<1> DEFINE s == SubSeq(input, a, b - 1)
<1>1. Piece(s, a, b) /\ Len(input) \in Nat /\ a \in Nat /\ b \in Nat
  BY PieceIs DEF TypeOK
<1> HIDE DEF s
<1>2. IsLiteral(s) <=> LiteralWritten(a, b)
  BY <1>1, LiteralPiece
<1>3. IsIdentifier(s) <=> IdentifierWritten(a, b)
  BY <1>1, IdentifierPiece
<1>4. \A c : s = <<c>> <=> b = a + 1 /\ input[a] = c
  BY <1>1, SinglePiece
<1>5. IsLexeme(type, s) <=> LexemeWritten(type, a, b)
  <2>1. CASE type = "NUMBER"
    BY <1>2, <2>1 DEF IsLexeme, LexemeWritten
  <2>2. CASE type = "IDENTIFIER"
    BY <1>3, <2>2 DEF IsLexeme, LexemeWritten
  <2>3. CASE type = "UNDERSCORE"
    BY <1>4, <2>3 DEF IsLexeme, LexemeWritten, LexemeAt, LowLine
  <2>4. CASE type \notin {"NUMBER", "IDENTIFIER", "UNDERSCORE"}
    BY <1>4, <2>4 DEF IsLexeme, LexemeWritten, LexemeAt, LowLine
  <2> QED BY <2>1, <2>2, <2>3, <2>4
<1> QED BY <1>5 DEF s

-----------------------------------------------------------------------------
(* Where the code and the rules do not depart, what the code reads is a     *)
(* lexeme of the rules, and a lexeme of the rules is one that the code      *)
(* reads or a number up to its point, which goes on.                       *)

DepartsAt(a) ==
  \/ a < Len(input) /\ input[a] = LowLine /\ input[a + 1] = LowLine
  \/ \E j \in (a + 1) .. Len(input) :
       /\ input[j] = "." /\ DigitsAt(SignAt(a, j), j)
       /\ j < Len(input) => input[j + 1] \notin Digits

LEMMA DepartsIs ==
  ASSUME TypeOK, NEW a \in 1 .. (Len(input) + 1)
  PROVE  Departs(a) <=> DepartsAt(a)
<1>0. Len(input) \in Nat /\ a \in Nat
  BY DEF TypeOK
<1>1. ASSUME NEW j \in (a + 1) .. Len(input)
      PROVE  AllDigits(Unsigned(SubSeq(input, a, j - 1))) <=> DigitsAt(SignAt(a, j), j)
  <2>1. j \in a .. (Len(input) + 1) /\ j \in Nat /\ SignAt(a, j) \in Nat
    BY <1>0 DEF SignAt
  <2>2. Piece(SubSeq(input, a, j - 1), a, j)
    BY <2>1, PieceIs
  <2>3. Piece(Unsigned(SubSeq(input, a, j - 1)), SignAt(a, j), j)
    BY <1>0, <2>1, <2>2, PieceTail
  <2> QED BY <1>0, <2>1, <2>3, DigitsPiece
<1> QED BY <1>1 DEF Departs, DepartsAt, LowLine

LEMMA LiteralMeets ==
  ASSUME Len(input) \in Nat, NEW a \in 1 .. Len(input), NEW b \in a .. (Len(input) + 1),
         ~DepartsAt(a)
  PROVE  /\ LiteralAt(a, b) => LiteralWritten(a, b)
         /\ LiteralWritten(a, b) => LiteralAt(a, b) \/ (b <= Len(input) /\ LiteralAt(a, b + 1))
<1>1. LiteralAt(a, b) => LiteralWritten(a, b)
  BY DEF LiteralAt, LiteralWritten, MantissaAt, MantissaWritten
\* a mantissa that ends with its point goes on
<1>2. ASSUME NEW d \in a .. (Len(input) + 1), MantissaWritten(SignAt(a, d), d),
             ~MantissaAt(SignAt(a, d), d)
      PROVE  /\ d <= Len(input) /\ input[d] \in Digits /\ MantissaAt(SignAt(a, d + 1), d + 1)
  <2>1. PICK p \in SignAt(a, d) .. (d - 1) :
          /\ input[p] = "." /\ DigitsAt(SignAt(a, d), p)
          /\ p + 1 = d \/ DigitsAt(p + 1, d)
    BY <1>2 DEF MantissaAt, MantissaWritten
  <2>2. p + 1 = d
    BY <1>2, <2>1 DEF MantissaAt
  <2>3. SignAt(a, d) \in {a, a + 1}
    BY DEF SignAt
  <2>4. SignAt(a, d) < p /\ p \in Nat /\ p <= Len(input) /\ p \in (a + 1) .. Len(input) /\ d \in Nat
    BY <2>1, <2>2, <2>3 DEF DigitsAt
  <2>5. SignAt(a, p) = SignAt(a, d) /\ SignAt(a, d + 1) = SignAt(a, d)
    BY <2>2, <2>3, <2>4 DEF SignAt
  <2>6. p < Len(input) /\ input[p + 1] \in Digits
    BY <2>1, <2>4, <2>5 DEF DepartsAt
  <2>7. d <= Len(input) /\ input[d] \in Digits
    BY <2>2, <2>4, <2>6
  <2>8. DigitsAt(p + 1, d + 1)
    BY <2>2, <2>4, <2>7 DEF DigitsAt
  <2>9. p \in SignAt(a, d + 1) .. ((d + 1) - 1) /\ DigitsAt(SignAt(a, d + 1), p)
    BY <2>1, <2>2, <2>3, <2>4, <2>5
  <2> QED BY <2>1, <2>7, <2>8, <2>9 DEF MantissaAt
<1>3. ASSUME MantissaWritten(SignAt(a, b), b)
      PROVE  LiteralAt(a, b) \/ (b <= Len(input) /\ LiteralAt(a, b + 1))
  BY <1>2, <1>3 DEF LiteralAt
<1>4. ASSUME NEW p \in a .. (b - 1), input[p] = "e", MantissaWritten(SignAt(a, p), p),
             DigitsAt(SignAt(p + 1, b), b)
      PROVE  LiteralAt(a, b)
  <2>1. p \in a .. (Len(input) + 1) /\ input[p] \notin Digits
    BY <1>4 DEF Digits
  <2>2. MantissaAt(SignAt(a, p), p)
    BY <1>2, <1>4, <2>1
  <2> QED BY <1>4, <2>2 DEF LiteralAt
<1> QED BY <1>1, <1>3, <1>4 DEF LiteralWritten

LEMMA LexemeMeets ==
  ASSUME TypeOK, NEW a \in 1 .. Len(input), NEW b \in a .. (Len(input) + 1), NEW type,
         ~Departs(a)
  PROVE  /\ LexemeAt(type, a, b) => IsLexeme(type, SubSeq(input, a, b - 1))
         /\ IsLexeme(type, SubSeq(input, a, b - 1)) =>
              \/ LexemeAt(type, a, b)
              \/ b <= Len(input) /\ LexemeAt(type, a, b + 1)
<1>0. Len(input) \in Nat /\ a \in 1 .. (Len(input) + 1) /\ ~DepartsAt(a)
  <2>1. Len(input) \in Nat
    BY DEF TypeOK
  <2>2. a \in 1 .. (Len(input) + 1)
    BY <2>1
  <2> QED BY <2>1, <2>2, DepartsIs
<1>1. IsLexeme(type, SubSeq(input, a, b - 1)) <=> LexemeWritten(type, a, b)
  BY <1>0, LexemePiece
<1>2. CASE type = "NUMBER"
  BY <1>0, <1>1, <1>2, LiteralMeets DEF LexemeWritten, LexemeAt, LowLine
<1>3. CASE type = "IDENTIFIER"
  <2>1. IdentifierAt(a, b) <=> IdentifierWritten(a, b)
    <3>1. Letters \cup Wide \subseteq IdAlpha
      BY DEF IdAlpha
    <3>2. IdentifierAt(a, b) /\ input[a] = LowLine => input[a + 1] \in Letters \cup Wide
      <4>1. a + 1 < b => a < Len(input)
        BY <1>0
      <4> QED BY <1>0, <4>1 DEF IdentifierAt, DepartsAt, IdAlpha, LowLine
    <3> QED BY <3>1, <3>2 DEF IdentifierAt, IdentifierWritten
  <2> QED BY <1>1, <1>3, <2>1 DEF LexemeWritten, LexemeAt, LowLine
<1>4. CASE type \notin {"NUMBER", "IDENTIFIER"}
  BY <1>1, <1>4 DEF LexemeWritten
<1> QED BY <1>2, <1>3, <1>4

-----------------------------------------------------------------------------
(* What lexemes are written with.                                          *)

LEMMA MantissaIs ==
  ASSUME NEW a \in Nat, NEW b \in Nat, MantissaAt(a, b)
  PROVE  /\ a < b /\ input[a] \in Digits
         /\ \A k \in a .. (b - 1) : input[k] \in Digits \cup {"."}
<1>1. CASE DigitsAt(a, b)
  BY <1>1 DEF DigitsAt
<1>2. ASSUME NEW p \in a .. (b - 1), input[p] = ".", DigitsAt(a, p), DigitsAt(p + 1, b)
      PROVE  /\ a < b /\ input[a] \in Digits
             /\ \A k \in a .. (b - 1) : input[k] \in Digits \cup {"."}
  BY <1>2 DEF DigitsAt
<1> QED BY <1>1, <1>2 DEF MantissaAt

LEMMA LiteralIs ==
  ASSUME NEW a \in Nat, NEW b \in Nat, LiteralAt(a, b)
  PROVE  /\ a < b /\ input[a] \in Digits \cup Signs
         /\ input[a] \in Signs => a + 1 < b /\ input[a + 1] \in Digits
         /\ \A k \in a .. (b - 1) : input[k] \in Digits \cup Signs \cup {".", "e"}
<1> DEFINE All(c, d) == \A k \in c .. (d - 1) : input[k] \in Digits \cup Signs \cup {".", "e"}
           Begins(d) == /\ a < d /\ input[a] \in Digits \cup Signs /\ All(a, d)
                        /\ input[a] \in Signs => a + 1 < d /\ input[a + 1] \in Digits
<1>1. ASSUME NEW d \in Nat, a <= d, MantissaAt(SignAt(a, d), d) PROVE Begins(d)
  <2>1. CASE a < d /\ input[a] \in Signs
    <3>1. SignAt(a, d) = a + 1 /\ a + 1 \in Nat
      BY <2>1 DEF SignAt
    <3>2. /\ a + 1 < d /\ input[a + 1] \in Digits
          /\ \A k \in (a + 1) .. (d - 1) : input[k] \in Digits \cup {"."}
      BY <1>1, <3>1, MantissaIs
    <3> QED BY <2>1, <3>2
  <2>2. CASE ~(a < d /\ input[a] \in Signs)
    <3>1. SignAt(a, d) = a
      BY <2>2 DEF SignAt
    <3>2. /\ a < d /\ input[a] \in Digits
          /\ \A k \in a .. (d - 1) : input[k] \in Digits \cup {"."}
      BY <1>1, <3>1, MantissaIs
    <3> QED BY <2>2, <3>2
  <2> QED BY <2>1, <2>2
<1>2. CASE MantissaAt(SignAt(a, b), b)
  <2>1. a <= b
    <3>1. SignAt(a, b) \in Nat /\ a <= SignAt(a, b)
      BY DEF SignAt
    <3> QED BY <1>2, <3>1, MantissaIs
  <2> QED BY <1>1, <1>2, <2>1
<1>3. ASSUME NEW p \in a .. (b - 1), input[p] = "e", MantissaAt(SignAt(a, p), p),
             DigitsAt(SignAt(p + 1, b), b)
      PROVE  Begins(b)
  <2>1. Begins(p)
    BY <1>1, <1>3
  <2>2. \A k \in (p + 1) .. (b - 1) : input[k] \in Digits \cup Signs
    BY <1>3 DEF SignAt, DigitsAt
  <2>3. All(a, b)
    <3> SUFFICES ASSUME NEW k \in a .. (b - 1)
                 PROVE  input[k] \in Digits \cup Signs \cup {".", "e"}
      OBVIOUS
    <3>1. CASE k < p
      BY <2>1, <3>1
    <3>2. CASE k = p
      BY <1>3, <3>2
    <3>3. CASE k > p
      BY <2>2, <3>3
    <3> QED BY <3>1, <3>2, <3>3
  <2> QED BY <2>1, <2>3
<1> QED BY <1>2, <1>3 DEF LiteralAt

LEMMA IdentifierIs ==
  ASSUME NEW a \in Nat, NEW b \in Nat, IdentifierAt(a, b)
  PROVE  /\ a < b /\ input[a] \in IdAlpha
         /\ \A k \in a .. (b - 1) : input[k] \in IdAlnum \cup {LowLine}
<1>1. IdAlpha \subseteq IdAlnum \cup {LowLine}
  BY DEF IdAlpha, IdAlnum, LowLine
<1>2. \A k \in a .. (b - 1) : k = a \/ k \in (a + 1) .. (b - 1)
  OBVIOUS
<1> QED BY <1>1, <1>2 DEF IdentifierAt

\* No lexeme has a character of a blank or a comment in it, or what is no UTF-8
Unwritten == Spaces \cup {Eol, Malformed, "#", "!"}

LEMMA LexemeIs ==
  ASSUME NEW a \in Nat, NEW b \in Nat, NEW type \in LexemeTypes, LexemeAt(type, a, b)
  PROVE  a < b /\ \A k \in a .. (b - 1) : input[k] \notin Unwritten
<1> USE DEF Unwritten, Spaces, Eol, Malformed
<1>1. CASE type = "NUMBER"
  <2>1. LiteralAt(a, b)
    BY <1>1 DEF LexemeAt, LowLine
  <2> QED BY <2>1, LiteralIs DEF Digits, Signs
<1>2. CASE type = "IDENTIFIER"
  <2>1. IdentifierAt(a, b)
    BY <1>2 DEF LexemeAt, LowLine
  <2> QED BY <2>1, IdentifierIs DEF IdAlnum, Letters, Wide, Digits, LowLine
<1>3. CASE type = "UNDERSCORE"
  <2>1. b = a + 1 /\ input[a] = LowLine
    BY <1>3 DEF LexemeAt, LowLine
  <2>2. b = a + 1 => a < b /\ \A k \in a .. (b - 1) : k = a
    OBVIOUS
  <2> QED BY <2>1, <2>2 DEF LowLine
<1>4. CASE type \notin {"NUMBER", "IDENTIFIER", "UNDERSCORE"}
  <2>1. PICK c \in DOMAIN Punctuation : b = a + 1 /\ input[a] = c
    BY <1>4 DEF LexemeAt, LowLine
  <2>2. c \in {".", "(", ")", ",", ":", "{", "}", "="}
    BY DEF Punctuation
  <2>3. a < b /\ \A k \in a .. (b - 1) : k = a
    BY <2>1
  <2> QED BY <2>1, <2>2, <2>3
<1> QED BY <1>1, <1>2, <1>3, <1>4

\* A character begins lexemes of one type, but for the underscore
LEMMA Begun ==
  ASSUME NEW a \in Nat, NEW b \in Nat, NEW type \in LexemeTypes, LexemeAt(type, a, b)
  PROVE  /\ input[a] \in Digits \cup Signs => type = "NUMBER"
         /\ input[a] \in Letters \cup Wide => type = "IDENTIFIER"
         /\ input[a] = LowLine => type \in {"IDENTIFIER", "UNDERSCORE"}
         /\ input[a] \in DOMAIN Punctuation => type = Punctuation[input[a]] /\ b = a + 1
<1> USE DEF Digits, Signs, Letters, Wide, LowLine
<1>0. DOMAIN Punctuation = {".", "(", ")", ",", ":", "{", "}", "="}
  BY DEF Punctuation
<1>1. CASE type = "NUMBER"
  <2>1. LiteralAt(a, b)
    BY <1>1 DEF LexemeAt, LowLine
  <2> QED BY <1>0, <1>1, <2>1, LiteralIs
<1>2. CASE type = "IDENTIFIER"
  <2>1. IdentifierAt(a, b)
    BY <1>2 DEF LexemeAt, LowLine
  <2> QED BY <1>0, <1>2, <2>1, IdentifierIs DEF IdAlpha
<1>3. CASE type = "UNDERSCORE"
  <2>1. b = a + 1 /\ input[a] = LowLine
    BY <1>3 DEF LexemeAt, LowLine
  <2> QED BY <1>0, <1>3, <2>1
<1>4. CASE type \notin {"NUMBER", "IDENTIFIER", "UNDERSCORE"}
  <2>1. PICK c \in DOMAIN Punctuation : type = Punctuation[c] /\ b = a + 1 /\ input[a] = c
    BY <1>4 DEF LexemeAt, LowLine
  <2> QED BY <1>0, <2>1
<1> QED BY <1>1, <1>2, <1>3, <1>4

-----------------------------------------------------------------------------
(* The longest number.                                                     *)

LongestMantissa(w, m) ==
  /\ w < m /\ m <= Len(input) + 1 /\ MantissaAt(w, m)
  /\ \A b \in (m + 1) .. (Len(input) + 1) : ~MantissaAt(w, b)
  /\ \A p \in w .. (m - 1) : input[p] # "e"
LongestLiteral(a, q) ==
  /\ a < q /\ q <= Len(input) + 1 /\ LiteralAt(a, q)
  /\ \A b \in (q + 1) .. (Len(input) + 1) : ~LiteralAt(a, b)

\* Its whole part: the digits from w up to j
Whole(w, j) ==
  /\ w \in Nat /\ j \in Nat /\ Len(input) \in Nat
  /\ 1 <= w /\ w < j /\ j <= Len(input) + 1
  /\ \A k \in w .. (j - 1) : input[k] \in Digits
  /\ j <= Len(input) => input[j] \notin Digits

LEMMA WholeIs ==
  ASSUME Len(input) \in Nat, NEW w \in 1 .. Len(input), input[w] \in Digits
  PROVE  Whole(w, Past(Digits, w))
<1> DEFINE j == Past(Digits, w)
<1>1. w \in 1 .. (Len(input) + 1)
  OBVIOUS
<1>2. /\ j \in w .. (Len(input) + 1) /\ \A k \in w .. (j - 1) : input[k] \in Digits
      /\ j <= Len(input) => input[j] \notin Digits
  BY <1>1, PastIs
<1> HIDE DEF j
<1>3. j # w
  BY <1>2
<1>4. Whole(w, j)
  BY <1>2, <1>3 DEF Whole
<1> QED BY <1>4 DEF j

\* A longer number would go on with a fraction
LEMMA MantissaGoesOn ==
  ASSUME NEW w, NEW j, Whole(w, j), NEW b \in (j + 1) .. (Len(input) + 1), MantissaAt(w, b)
  PROVE  /\ j <= Len(input) /\ input[j] = "." /\ DigitsAt(j + 1, b)
<1>0. w \in Nat /\ j \in Nat /\ b \in Nat /\ Len(input) \in Nat /\ w < j /\ j < b /\ j <= Len(input)
  BY DEF Whole
<1>1. ~DigitsAt(w, b)
  BY <1>0 DEF Whole, DigitsAt
<1>2. PICK p \in w .. (b - 1) : input[p] = "." /\ DigitsAt(w, p) /\ DigitsAt(p + 1, b)
  BY <1>1 DEF MantissaAt
<1>3. ~(p < j)
  <2>1. "." \notin Digits
    BY DEF Digits
  <2> QED BY <1>0, <1>2, <2>1 DEF Whole
<1>4. ~(j < p)
  BY <1>0, <1>2 DEF Whole, DigitsAt
<1>5. p = j
  BY <1>0, <1>3, <1>4
<1> QED BY <1>0, <1>2, <1>5

LEMMA MantissaEnds ==
  ASSUME NEW w, NEW j, Whole(w, j), ~(j < Len(input) /\ input[j] = "." /\ input[j + 1] \in Digits)
  PROVE  LongestMantissa(w, j)
<1>0. w \in Nat /\ j \in Nat /\ Len(input) \in Nat /\ w < j /\ j <= Len(input) + 1
  BY DEF Whole
<1>1. MantissaAt(w, j)
  BY <1>0 DEF MantissaAt, DigitsAt, Whole
<1>2. ASSUME NEW b \in (j + 1) .. (Len(input) + 1), MantissaAt(w, b) PROVE FALSE
  <2>1. j <= Len(input) /\ input[j] = "." /\ DigitsAt(j + 1, b)
    BY <1>2, MantissaGoesOn
  <2>2. j + 1 < b /\ input[j + 1] \in Digits
    BY <1>0, <2>1 DEF DigitsAt
  <2> QED BY <1>0, <2>1, <2>2
<1>3. \A p \in w .. (j - 1) : input[p] # "e"
  BY DEF Whole, Digits
<1> QED BY <1>0, <1>1, <1>2, <1>3 DEF LongestMantissa

LEMMA FractionEnds ==
  ASSUME NEW w, NEW j, NEW m, Whole(w, j), j <= Len(input), input[j] = ".", Whole(j + 1, m)
  PROVE  LongestMantissa(w, m)
<1>0. w \in Nat /\ j \in Nat /\ m \in Nat /\ Len(input) \in Nat /\ w < j /\ j + 1 < m /\ m <= Len(input) + 1
  BY DEF Whole
<1>1. MantissaAt(w, m)
  <2>1. DigitsAt(w, j) /\ DigitsAt(j + 1, m) /\ j \in w .. (m - 1)
    BY <1>0 DEF DigitsAt, Whole
  <2> QED BY <2>1 DEF MantissaAt
<1>2. ASSUME NEW b \in (m + 1) .. (Len(input) + 1), MantissaAt(w, b) PROVE FALSE
  <2>1. b \in (j + 1) .. (Len(input) + 1)
    BY <1>0
  <2>2. DigitsAt(j + 1, b)
    BY <1>2, <2>1, MantissaGoesOn
  <2>3. m \in (j + 1) .. (b - 1) /\ m <= Len(input)
    BY <1>0
  <2> QED BY <2>2, <2>3 DEF DigitsAt, Whole
<1>3. \A p \in w .. (m - 1) : input[p] # "e"
  <2> SUFFICES ASSUME NEW p \in w .. (m - 1) PROVE input[p] # "e"
    OBVIOUS
  <2>1. p \in w .. (j - 1) \/ p = j \/ p \in (j + 1) .. (m - 1)
    BY <1>0
  <2> QED BY <2>1 DEF Whole, Digits
<1> QED BY <1>0, <1>1, <1>2, <1>3 DEF LongestMantissa

\* Where the digits of a number that begins at a begin
WholeFrom(a) == IF input[a] \in Signs THEN a + 1 ELSE a

\* A longer literal goes on with an exponent
LEMMA LiteralGoesOn ==
  ASSUME Len(input) \in Nat, NEW a \in Nat, NEW m \in Nat, LongestMantissa(WholeFrom(a), m),
         NEW b \in (m + 1) .. (Len(input) + 1), LiteralAt(a, b)
  PROVE  m <= Len(input) /\ input[m] = "e" /\ DigitsAt(SignAt(m + 1, b), b)
<1> DEFINE w == WholeFrom(a)
<1>0. w \in Nat /\ a <= w /\ w < m /\ m < b /\ b <= Len(input) + 1 /\ m <= Len(input)
  BY DEF WholeFrom, LongestMantissa
<1>1. \A d \in Nat : a < d => SignAt(a, d) = w
  BY DEF SignAt, WholeFrom
<1>2. ~MantissaAt(SignAt(a, b), b)
  BY <1>0, <1>1 DEF LongestMantissa
<1>3. PICK p \in a .. (b - 1) : /\ input[p] = "e" /\ MantissaAt(SignAt(a, p), p)
                               /\ DigitsAt(SignAt(p + 1, b), b)
  BY <1>2 DEF LiteralAt
<1>4. a < p
  <2>1. SignAt(a, p) \in Nat /\ SignAt(a, p) < p /\ a <= SignAt(a, p)
    <3>1. SignAt(a, p) \in Nat /\ a <= SignAt(a, p)
      BY DEF SignAt
    <3> QED BY <1>3, <3>1, MantissaIs
  <2> QED BY <2>1
<1>5. MantissaAt(w, p) /\ w < p
  <2>1. MantissaAt(w, p)
    BY <1>1, <1>3, <1>4
  <2> QED BY <1>0, <2>1, MantissaIs
<1>6. ~(m < p)
  <2>1. m < p => p \in (m + 1) .. (Len(input) + 1)
    BY <1>0
  <2> QED BY <1>5, <2>1 DEF LongestMantissa
<1>7. ~(p < m)
  <2>1. p < m => p \in w .. (m - 1)
    BY <1>0, <1>5
  <2> QED BY <1>3, <2>1 DEF LongestMantissa
<1>8. p = m
  BY <1>6, <1>7
<1> QED BY <1>0, <1>3, <1>8

LEMMA MantissaLiteral ==
  ASSUME Len(input) \in Nat, NEW a \in Nat, NEW m \in Nat, LongestMantissa(WholeFrom(a), m)
  PROVE  a < m /\ m <= Len(input) + 1 /\ LiteralAt(a, m)
<1>1. WholeFrom(a) \in Nat /\ a <= WholeFrom(a)
  BY DEF WholeFrom
<1>2. a < m /\ m <= Len(input) + 1
  BY <1>1 DEF LongestMantissa
<1>3. SignAt(a, m) = WholeFrom(a)
  BY <1>2 DEF SignAt, WholeFrom
<1> QED BY <1>2, <1>3 DEF LiteralAt, LongestMantissa

\* without one it ends with its mantissa
LEMMA LiteralEnds ==
  ASSUME Len(input) \in Nat, NEW a \in Nat, NEW m \in Nat, LongestMantissa(WholeFrom(a), m),
         \/ ~(m <= Len(input) /\ input[m] = "e")
         \/ WholeFrom(m + 1) > Len(input)
         \/ input[WholeFrom(m + 1)] \notin Digits
  PROVE  LongestLiteral(a, m)
<1>1. ASSUME NEW b \in (m + 1) .. (Len(input) + 1), LiteralAt(a, b) PROVE FALSE
  <2>1. m <= Len(input) /\ input[m] = "e" /\ DigitsAt(SignAt(m + 1, b), b)
    BY <1>1, LiteralGoesOn
  <2>2. SignAt(m + 1, b) < b /\ input[SignAt(m + 1, b)] \in Digits
    <3>1. SignAt(m + 1, b) \in Nat
      BY DEF SignAt
    <3> QED BY <2>1, <3>1 DEF DigitsAt
  <2>3. m + 1 < b
    BY <2>2 DEF SignAt
  <2>4. SignAt(m + 1, b) = WholeFrom(m + 1)
    BY <2>3 DEF SignAt, WholeFrom
  <2> QED BY <2>1, <2>2, <2>4 DEF WholeFrom
<1> QED BY <1>1, MantissaLiteral DEF LongestLiteral

LEMMA ExponentEnds ==
  ASSUME Len(input) \in Nat, NEW a \in Nat, NEW m \in Nat, LongestMantissa(WholeFrom(a), m),
         m <= Len(input), input[m] = "e", NEW q, Whole(WholeFrom(m + 1), q)
  PROVE  LongestLiteral(a, q)
<1>0. /\ WholeFrom(m + 1) \in Nat /\ q \in Nat /\ m + 1 <= WholeFrom(m + 1)
      /\ WholeFrom(m + 1) < q /\ q <= Len(input) + 1
  BY DEF Whole, WholeFrom
<1>1. a < m
  BY MantissaLiteral
<1>2. \A b \in Nat : m + 1 < b => SignAt(m + 1, b) = WholeFrom(m + 1)
  BY DEF SignAt, WholeFrom
<1>3. LiteralAt(a, q)
  <2>1. SignAt(m + 1, q) = WholeFrom(m + 1)
    BY <1>0, <1>2
  <2>2. DigitsAt(SignAt(m + 1, q), q)
    BY <1>0, <2>1 DEF DigitsAt, Whole
  <2>3. MantissaAt(SignAt(a, m), m)
    BY <1>1 DEF LongestMantissa, SignAt, WholeFrom
  <2>4. m \in a .. (q - 1)
    BY <1>0, <1>1
  <2> QED BY <2>2, <2>3, <2>4 DEF LiteralAt
<1>4. ASSUME NEW b \in (q + 1) .. (Len(input) + 1), LiteralAt(a, b) PROVE FALSE
  <2>1. b \in (m + 1) .. (Len(input) + 1) /\ b \in Nat /\ m + 1 < b
    BY <1>0
  <2>2. DigitsAt(WholeFrom(m + 1), b)
    BY <1>2, <1>4, <2>1, LiteralGoesOn
  <2>3. q \in WholeFrom(m + 1) .. (b - 1) /\ q <= Len(input)
    BY <1>0
  <2> QED BY <2>2, <2>3 DEF DigitsAt, Whole
<1> QED BY <1>0, <1>1, <1>3, <1>4 DEF LongestLiteral

-----------------------------------------------------------------------------
(* The longest lexeme.                                                     *)

\* The longest lexeme that begins at k is of that type and ends before e
Longest(k, type, e) ==
  /\ type \in LexemeTypes /\ k \in 1 .. Len(input) /\ e \in (k + 1) .. (Len(input) + 1)
  /\ LexemeAt(type, k, e)
  /\ \A j \in (e + 1) .. (Len(input) + 1), other \in LexemeTypes : ~LexemeAt(other, k, j)

LEMMA LongestNumber ==
  ASSUME Len(input) \in Nat, NEW a \in 1 .. Len(input), NEW q, LongestLiteral(a, q), q \in Nat
  PROVE  Longest(a, "NUMBER", q)
<1>1. LexemeAt("NUMBER", a, q) /\ q \in (a + 1) .. (Len(input) + 1)
  BY DEF LexemeAt, LongestLiteral
<1>2. input[a] \in Digits \cup Signs
  BY LiteralIs DEF LongestLiteral
<1>3. ASSUME NEW j \in (q + 1) .. (Len(input) + 1), NEW other \in LexemeTypes, LexemeAt(other, a, j)
      PROVE  FALSE
  <2>1. other = "NUMBER"
    BY <1>1, <1>2, <1>3, Begun
  <2>2. LiteralAt(a, j)
    BY <1>3, <2>1 DEF LexemeAt
  <2> QED BY <1>1, <2>2 DEF LongestLiteral
<1>4. "NUMBER" \in LexemeTypes
  BY DEF LexemeTypes, Types
<1> QED BY <1>1, <1>3, <1>4 DEF Longest

\* It is one
LEMMA OneLongest ==
  ASSUME Len(input) \in Nat, NEW k, NEW s, NEW t, NEW d, NEW e, Longest(k, s, d), Longest(k, t, e)
  PROVE  d = e
BY DEF Longest

\* The longest name, from a letter or from an underscore before one
LEMMA LongestIdentifier ==
  ASSUME Len(input) \in Nat, NEW a \in 1 .. Len(input), NEW j \in {a, a + 1},
         j <= Len(input), input[j] \in IdAlpha, j = a + 1 => input[a] = LowLine,
         j = a => input[a] # LowLine
  PROVE  Longest(a, "IDENTIFIER", Past(IdAlnum \cup {LowLine}, j))
<1> DEFINE S == IdAlnum \cup {LowLine}
           m == Past(S, j)
<1>1. /\ m \in j .. (Len(input) + 1) /\ \A k \in j .. (m - 1) : input[k] \in S
      /\ m <= Len(input) => input[m] \notin S
  <2>1. j \in 1 .. (Len(input) + 1)
    OBVIOUS
  <2> QED BY <2>1, PastIs
<1>2. IdAlpha \subseteq S /\ LowLine \in IdAlpha /\ LowLine \in S
  BY DEF IdAlpha, IdAlnum, LowLine
<1>3. input[a] \in IdAlpha
  BY <1>2 DEF LowLine
<1> HIDE DEF m, S
<1>4. j < m
  BY <1>1, <1>2
<1>5. \A k \in (a + 1) .. (m - 1) : input[k] \in S
  BY <1>1
<1>6. IdentifierAt(a, m)
  <2>1. a < m /\ (j = a + 1 => a + 1 < m)
    BY <1>1, <1>4
  <2> QED BY <1>3, <1>5, <2>1 DEF IdentifierAt, S
<1>7. ASSUME NEW b \in (m + 1) .. (Len(input) + 1), NEW other \in LexemeTypes, LexemeAt(other, a, b)
      PROVE  FALSE
  <2>0. a \in Nat /\ b \in Nat /\ a + 1 < b
    BY <1>1, <1>4
  <2>1. other = "IDENTIFIER"
    <3>1. input[a] \in Letters \cup Wide \/ input[a] = LowLine
      BY <1>3 DEF IdAlpha, LowLine
    <3>2. other # "UNDERSCORE"
      BY <1>7, <2>0 DEF LexemeAt
    <3> QED BY <1>7, <2>0, <3>1, <3>2, Begun
  <2>2. IdentifierAt(a, b)
    BY <1>7, <2>1 DEF LexemeAt
  <2>3. m \in (a + 1) .. (b - 1) /\ m <= Len(input)
    BY <1>1, <1>4
  <2> QED BY <1>1, <2>2, <2>3 DEF IdentifierAt, S
<1>8. LexemeAt("IDENTIFIER", a, m) /\ m \in (a + 1) .. (Len(input) + 1)
  BY <1>1, <1>4, <1>6 DEF LexemeAt
<1>9. "IDENTIFIER" \in LexemeTypes
  BY DEF LexemeTypes, Types
<1>10. Longest(a, "IDENTIFIER", m)
  BY <1>7, <1>8, <1>9 DEF Longest
<1> QED BY <1>10 DEF m, S

LEMMA LongestUnderscore ==
  ASSUME Len(input) \in Nat, NEW a \in 1 .. Len(input), input[a] = LowLine,
         a + 1 > Len(input) \/ input[a + 1] \notin IdAlpha
  PROVE  Longest(a, "UNDERSCORE", a + 1)
<1>1. LexemeAt("UNDERSCORE", a, a + 1) /\ a + 1 \in (a + 1) .. (Len(input) + 1)
  BY DEF LexemeAt
<1>2. ASSUME NEW b \in ((a + 1) + 1) .. (Len(input) + 1), NEW other \in LexemeTypes, LexemeAt(other, a, b)
      PROVE  FALSE
  <2>1. other \in {"IDENTIFIER", "UNDERSCORE"}
    BY <1>2, Begun
  <2>2. IdentifierAt(a, b)
    BY <1>2, <2>1 DEF LexemeAt
  <2> QED BY <2>2 DEF IdentifierAt
<1>3. "UNDERSCORE" \in LexemeTypes
  BY DEF LexemeTypes, Types
<1> QED BY <1>1, <1>2, <1>3 DEF Longest

LEMMA LongestPunctuation ==
  ASSUME Len(input) \in Nat, NEW a \in 1 .. Len(input), input[a] \in DOMAIN Punctuation
  PROVE  Longest(a, Punctuation[input[a]], a + 1)
<1>1. /\ Punctuation[input[a]] \in LexemeTypes
      /\ Punctuation[input[a]] \notin {"NUMBER", "IDENTIFIER", "UNDERSCORE"}
  <2>1. Punctuation[input[a]] \notin {"NONE", "EOF", "NUMBER", "IDENTIFIER", "UNDERSCORE"}
    BY DEF Punctuation
  <2> QED BY <2>1 DEF LexemeTypes, Types
<1>2. LexemeAt(Punctuation[input[a]], a, a + 1) /\ a + 1 \in (a + 1) .. (Len(input) + 1)
  BY <1>1 DEF LexemeAt
<1>3. ASSUME NEW b \in ((a + 1) + 1) .. (Len(input) + 1), NEW other \in LexemeTypes, LexemeAt(other, a, b)
      PROVE  FALSE
  BY <1>3, Begun
<1> QED BY <1>1, <1>2, <1>3 DEF Longest

-----------------------------------------------------------------------------
(* What an iteration of run reads.                                         *)

\* A comment begins before k and goes on there
Open(k) == \E h \in 1 .. (k - 1) : input[h] = "#" /\ \A m \in h .. (k - 1) : input[m] # Eol

\* Characters that make no token; after a comment comes the end of its line
Blanks(j) ==
  /\ j \in (it + 1) .. (Len(input) + 1) /\ \A k \in it .. (j - 1) : Blank(k)
  /\ input[it] \notin {Eol, Malformed}
  /\ j <= Len(input) /\ input[j] \notin {Eol, Malformed} => (Open(j) => Open(it))

\* Where a number or a name may break off
Excused(type, j) ==
  \/ j > Len(input) /\ type = "UNDERSCORE"
  \/ j <= Len(input) /\ input[j] = Malformed
  \/ j <= Len(input) /\ type = "NUMBER" /\ input[j] = "e"
  \/ /\ j <= Len(input) /\ type = "NUMBER" /\ input[j] = "." /\ DigitsAt(SignAt(it, j), j)
     /\ j < Len(input) => input[j + 1] \notin Digits
Refuses ==
  \A k \in {it}, type \in LexemeTypes, j \in Nat : Longest(k, type, j) => Excused(type, j)

\* run takes the longest lexeme there is, or passes over blanks, or gives up
\* where it may
Reads ==
  \/ \E type \in LexemeTypes, j \in Nat : Longest(it, type, j) /\ EndToken(type, j)
  \/ \E j \in Nat : Blanks(j) /\ Skip(j)
  \/ Refuses /\ \E error \in Errors : \E building : Fail(error, building)

\* No lexeme begins here
LEMMA NoneRefuses ==
  ASSUME \A type \in LexemeTypes, j \in Nat : ~Longest(it, type, j)
  PROVE  Refuses
BY DEF Refuses

\* The longest may break off
LEMMA OneRefuses ==
  ASSUME TypeOK, NEW t, NEW e \in Nat, Longest(it, t, e), Excused(t, e),
         t = "UNDERSCORE" => e > Len(input) \/ input[e] = Malformed
  PROVE  Refuses
<1> SUFFICES ASSUME NEW type \in LexemeTypes, NEW j \in Nat, Longest(it, type, j)
             PROVE  Excused(type, j)
  BY DEF Refuses
<1>0. it \in Nat /\ it <= Len(input) /\ Len(input) \in Nat
  BY Places DEF Longest
<1>1. j = e
  BY <1>0, OneLongest
<1>2. t = "NUMBER" => type = "NUMBER"
  <2> SUFFICES ASSUME t = "NUMBER" PROVE type = "NUMBER"
    OBVIOUS
  <2>1. LiteralAt(it, e)
    BY DEF Longest, LexemeAt
  <2>2. input[it] \in Digits \cup Signs
    BY <1>0, <2>1, LiteralIs
  <2> QED BY <1>0, <2>2, Begun DEF Longest
<1>3. t = "UNDERSCORE" => type = "UNDERSCORE"
  <2> SUFFICES ASSUME t = "UNDERSCORE" PROVE type = "UNDERSCORE"
    OBVIOUS
  <2>1. e = it + 1 /\ input[it] = LowLine
    BY DEF Longest, LexemeAt
  <2>2. type # "IDENTIFIER"
    <3>1. ~IdentifierAt(it, e)
      BY <1>0, <2>1 DEF IdentifierAt
    <3> QED BY <1>1, <3>1 DEF Longest, LexemeAt
  <2> QED BY <1>0, <2>1, <2>2, Begun DEF Longest
<1> QED BY <1>1, <1>2, <1>3 DEF Excused

LEMMA PunctuateReads == ASSUME TypeOK, Punctuate PROVE Reads
<1>1. PICK c \in DOMAIN Punctuation : At({c}) /\ EndToken(Punctuation[c], it + 1)
  BY DEF Punctuate
<1>2. it \in 1 .. Len(input) /\ input[it] = c /\ Len(input) \in Nat
  BY <1>1, Places DEF At
<1>3. Longest(it, Punctuation[c], it + 1)
  BY <1>1, <1>2, LongestPunctuation
<1>4. Punctuation[c] \in LexemeTypes
  BY <1>3 DEF Longest
<1>5. it + 1 \in Nat
  BY <1>2
<1> QED BY <1>1, <1>3, <1>4, <1>5 DEF Reads

LEMMA IdentifierReads ==
  ASSUME TypeOK, it <= Len(input), NEW j \in {it, it + 1},
         j <= Len(input), input[j] \in IdAlpha, j = it + 1 => input[it] = LowLine,
         j = it => input[it] # LowLine, Identifier(j)
  PROVE  Reads
<1> DEFINE S == IdAlnum \cup {"_"}
           m == Past(S, j)
<1>0. it \in 1 .. Len(input) /\ Len(input) \in Nat
  BY Places
<1>1. Longest(it, "IDENTIFIER", m)
  <2>1. Longest(it, "IDENTIFIER", Past(IdAlnum \cup {LowLine}, j))
    BY <1>0, LongestIdentifier
  <2> QED BY <2>1 DEF LowLine
<1>2. CASE ~ThrowsIn(S, j) /\ EndToken("IDENTIFIER", m)
  <2> HIDE DEF m
  <2>1. m \in Nat /\ "IDENTIFIER" \in LexemeTypes
    BY <1>0, <1>1 DEF Longest
  <2> QED BY <1>1, <1>2, <2>1 DEF Reads
<1>3. CASE ThrowsIn(S, j) /\ Fail("EXCEPTION", Started("IDENTIFIER"))
  <2>1. m <= Len(input) /\ Throws(m)
    BY <1>3 DEF ThrowsIn
  <2> HIDE DEF m
  <2>2. m \in Nat
    BY <1>0, <1>1 DEF Longest
  <2>3. m <= Len(input) /\ input[m] = Malformed
    BY <1>0, <2>1, <2>2 DEF Throws
  <2>4. Excused("IDENTIFIER", m)
    BY <2>3 DEF Excused
  <2>5. Refuses
    BY <1>1, <2>2, <2>4, OneRefuses
  <2> QED BY <1>3, <2>5 DEF Reads, Errors
<1> QED BY <1>2, <1>3 DEF Identifier

LEMMA NameReads == ASSUME TypeOK, Name PROVE Reads
<1>1. /\ it <= Len(input) /\ input[it] \in Letters \cup Wide /\ Identifier(it)
  BY DEF Name, At
<1>2. input[it] \in IdAlpha /\ input[it] # LowLine
  BY <1>1 DEF IdAlpha, Letters, Wide, LowLine
<1>3. it # it + 1
  BY Places
<1> QED BY <1>1, <1>2, <1>3, IdentifierReads

LEMMA UnderscoreReads == ASSUME TypeOK, Underscore PROVE Reads
<1>1. it <= Len(input) /\ input[it] = LowLine
  BY DEF Underscore, At, LowLine
<1>0. it \in 1 .. Len(input) /\ Len(input) \in Nat /\ it + 1 \in Nat
  BY <1>1, Places
<1>2. CASE Throws(it + 1) /\ Fail("EXCEPTION", cur)
  <2>1. it + 1 > Len(input) \/ input[it + 1] = Malformed
    BY <1>2 DEF Throws
  <2>2. Malformed \notin IdAlpha
    BY DEF Malformed, IdAlpha, Letters, Wide
  <2>3. Longest(it, "UNDERSCORE", it + 1)
    BY <1>0, <1>1, <2>1, <2>2, LongestUnderscore
  <2>4. Excused("UNDERSCORE", it + 1)
    BY <1>0, <2>1 DEF Excused
  <2>5. Refuses
    BY <1>0, <2>1, <2>3, <2>4, OneRefuses
  <2> QED BY <1>2, <2>5 DEF Reads, Errors
<1>3. CASE ~Throws(it + 1) /\ input[it + 1] \in IdAlpha /\ Identifier(it + 1)
  <2>1. it + 1 <= Len(input) /\ it # it + 1
    BY <1>0, <1>3 DEF Throws
  <2> QED BY <1>1, <1>3, <2>1, IdentifierReads
<1>4. CASE input[it + 1] \notin IdAlpha /\ EndToken("UNDERSCORE", it + 1)
  <2>1. Longest(it, "UNDERSCORE", it + 1)
    BY <1>0, <1>1, <1>4, LongestUnderscore
  <2>2. "UNDERSCORE" \in LexemeTypes
    BY <2>1 DEF Longest
  <2> QED BY <1>0, <1>4, <2>1, <2>2 DEF Reads
<1> QED BY <1>2, <1>3, <1>4 DEF Underscore

\* A number breaks off after the longest literal
LEMMA NumberRefuses ==
  ASSUME TypeOK, it <= Len(input), NEW q \in Nat, LongestLiteral(it, q),
         NEW error \in Errors, Fail(error, Started("NUMBER")),
         q <= Len(input),
         \/ input[q] \in {Malformed, "e"}
         \/ /\ input[q] = "." /\ DigitsAt(SignAt(it, q), q)
            /\ q < Len(input) => input[q + 1] \notin Digits
  PROVE  Reads
<1>1. Longest(it, "NUMBER", q)
  BY Places, LongestNumber
<1>2. Excused("NUMBER", q)
  BY DEF Excused
<1>3. Refuses
  BY <1>1, <1>2, OneRefuses
<1> QED BY <1>3 DEF Reads

LEMMA NumberEnds ==
  ASSUME TypeOK, it <= Len(input), NEW q \in Nat, LongestLiteral(it, q), EndToken("NUMBER", q)
  PROVE  Reads
<1>1. Longest(it, "NUMBER", q)
  BY Places, LongestNumber
<1>2. "NUMBER" \in LexemeTypes
  BY <1>1 DEF Longest
<1> QED BY <1>1, <1>2 DEF Reads

LEMMA ExponentReads ==
  ASSUME TypeOK, it <= Len(input), NEW m \in Nat, LongestMantissa(WholeFrom(it), m), Exponent(m)
  PROVE  Reads
<1>0. it \in Nat /\ Len(input) \in Nat /\ m \in 1 .. (Len(input) + 1)
  <2>1. it \in Nat /\ 1 <= it /\ Len(input) \in Nat
    BY Places
  <2> QED BY <2>1, MantissaLiteral
<1> DEFINE sign == IF ~Throws(m + 1) /\ input[m + 1] \in Signs THEN m + 2 ELSE m + 1
<1>1. CASE ~(m <= Len(input) /\ input[m] = "e")
  <2>1. LongestLiteral(it, m)
    BY <1>0, <1>1, LiteralEnds
  <2>2. CASE m <= Len(input) /\ Throws(m)
    <3>1. Fail("EXCEPTION", Started("NUMBER")) /\ "EXCEPTION" \in Errors
      BY <2>2 DEF Exponent, Errors
    <3>2. input[m] = Malformed
      BY <1>0, <2>2 DEF Throws
    <3> QED BY <2>1, <2>2, <3>1, <3>2, NumberRefuses
  <2>3. CASE m > Len(input) \/ ~Throws(m)
    <3>1. EndToken("NUMBER", m)
      BY <1>0, <1>1, <2>3 DEF Exponent
    <3> QED BY <2>1, <3>1, NumberEnds
  <2> QED BY <1>0, <2>2, <2>3
<1>2. CASE m <= Len(input) /\ input[m] = "e"
  <2>0. ~Throws(m)
    BY <1>0, <1>2 DEF Throws, Malformed
  <2>1. sign \in Nat /\ m + 1 <= sign
    BY <1>0
  <2>2. sign <= Len(input) => sign = WholeFrom(m + 1)
    BY <1>0 DEF Throws, WholeFrom, Signs, Malformed
  <2>3. CASE sign > Len(input) \/ input[sign] \notin Digits
    <3>1. WholeFrom(m + 1) > Len(input) \/ input[WholeFrom(m + 1)] \notin Digits
      <4>1. CASE sign <= Len(input)
        BY <1>0, <2>1, <2>2, <2>3, <4>1
      <4>2. CASE sign > Len(input)
        BY <1>0, <4>2 DEF WholeFrom, Throws
      <4> QED BY <1>0, <2>1, <4>1, <4>2
    <3>2. LongestLiteral(it, m)
      BY <1>0, <3>1, LiteralEnds
    <3>3. \E error \in Errors : Fail(error, Started("NUMBER"))
      BY <1>0, <1>2, <2>0, <2>1, <2>3 DEF Exponent, Errors, Throws
    <3> QED BY <1>2, <3>2, <3>3, NumberRefuses
  <2>4. CASE sign <= Len(input) /\ input[sign] \in Digits
    <3> DEFINE q == Past(Digits, sign)
    <3>1. Whole(WholeFrom(m + 1), q)
      <4>1. sign \in 1 .. Len(input)
        BY <1>0, <2>1, <2>4
      <4> HIDE DEF sign
      <4> QED BY <1>0, <2>2, <2>4, <4>1, WholeIs
    <3>2. q \in Nat /\ LongestLiteral(it, q)
      <4> HIDE DEF q, sign
      <4>1. LongestLiteral(it, q)
        BY <1>0, <1>2, <3>1, ExponentEnds
      <4> QED BY <3>1, <4>1 DEF Whole
    <3>3. ~Throws(sign)
      <4> HIDE DEF sign
      <4> QED BY <1>0, <2>1, <2>4 DEF Throws, Malformed, Digits
    <3>4. CASE ThrowsIn(Digits, sign)
      <4>1. Fail("EXCEPTION", Started("NUMBER")) /\ "EXCEPTION" \in Errors
        BY <1>0, <1>2, <2>0, <2>4, <3>3, <3>4 DEF Exponent, Errors
      <4>2. q <= Len(input) /\ Throws(q)
        BY <3>4 DEF ThrowsIn
      <4> HIDE DEF q, sign
      <4>3. input[q] = Malformed
        BY <1>0, <3>2, <4>2 DEF Throws
      <4> QED BY <3>2, <4>1, <4>2, <4>3, NumberRefuses
    <3>5. CASE ~ThrowsIn(Digits, sign)
      <4>1. EndToken("NUMBER", q)
        BY <1>0, <1>2, <2>0, <2>4, <3>3, <3>5 DEF Exponent
      <4> HIDE DEF q, sign
      <4> QED BY <3>2, <4>1, NumberEnds
    <3> QED BY <3>4, <3>5
  <2> QED BY <1>0, <2>1, <2>3, <2>4
<1> QED BY <1>1, <1>2

LEMMA FractionReads ==
  ASSUME TypeOK, it <= Len(input), NEW j \in Nat, Whole(WholeFrom(it), j),
         j <= Len(input), input[j] = ".", Fraction(j)
  PROVE  Reads
<1>0. it \in Nat /\ Len(input) \in Nat
  BY Places
<1>1. CASE ~(j < Len(input) /\ input[j + 1] \in Digits)
  <2>1. LongestMantissa(WholeFrom(it), j)
    BY <1>1, MantissaEnds
  <2>2. LongestLiteral(it, j)
    BY <1>0, <2>1, LiteralEnds
  <2>3. CASE Exponent(j)
    BY <2>1, <2>3, ExponentReads
  <2>4. CASE \E error \in Errors : Fail(error, Started("NUMBER"))
    <3>1. SignAt(it, j) = WholeFrom(it)
      BY <1>0 DEF SignAt, WholeFrom, Whole
    <3>2. DigitsAt(SignAt(it, j), j)
      BY <3>1 DEF DigitsAt, Whole
    <3> QED BY <1>1, <2>2, <2>4, <3>2, NumberRefuses
  <2>5. Exponent(j) \/ \E error \in Errors : Fail(error, Started("NUMBER"))
    BY <1>0, <1>1 DEF Fraction, Errors, Throws
  <2> QED BY <2>3, <2>4, <2>5
<1>2. CASE j < Len(input) /\ input[j + 1] \in Digits
  <2> DEFINE m == Past(Digits, j + 1)
  <2>1. Whole(j + 1, m)
    <3>1. j + 1 \in 1 .. Len(input)
      BY <1>0, <1>2
    <3> QED BY <1>0, <1>2, <3>1, WholeIs
  <2>2. ~Throws(j + 1)
    BY <1>0, <1>2 DEF Throws, Malformed, Digits
  <2>3. CASE ThrowsIn(Digits, j + 1)
    <3>1. Fail("EXCEPTION", Started("NUMBER")) /\ "EXCEPTION" \in Errors
      BY <1>2, <2>3 DEF Fraction, Errors
    <3>2. m <= Len(input) /\ Throws(m)
      BY <2>3 DEF ThrowsIn
    <3> HIDE DEF m
    <3>3. m \in Nat
      BY <2>1 DEF Whole
    <3>4. input[m] = Malformed /\ input[m] # "e"
      BY <1>0, <3>2, <3>3 DEF Throws, Malformed
    <3>5. LongestMantissa(WholeFrom(it), m)
      BY <2>1, FractionEnds
    <3>6. LongestLiteral(it, m)
      BY <1>0, <3>3, <3>4, <3>5, LiteralEnds
    <3> QED BY <3>1, <3>2, <3>3, <3>4, <3>6, NumberRefuses
  <2>4. CASE ~ThrowsIn(Digits, j + 1)
    <3>1. Exponent(m)
      BY <1>2, <2>2, <2>4 DEF Fraction
    <3> HIDE DEF m
    <3>2. m \in Nat
      BY <2>1 DEF Whole
    <3>3. LongestMantissa(WholeFrom(it), m)
      BY <2>1, FractionEnds
    <3> QED BY <3>1, <3>2, <3>3, ExponentReads
  <2> QED BY <2>3, <2>4
<1> QED BY <1>1, <1>2

LEMMA NumberReads == ASSUME TypeOK, Number PROVE Reads
<1> DEFINE w == WholeFrom(it)
           j == Past(Digits, w)
<1>0. it \in Nat /\ 1 <= it /\ it <= Len(input) /\ Len(input) \in Nat /\ input[it] \in Digits \cup Signs
  BY Places DEF Number, At
<1>1. w \in {it, it + 1} /\ (w = it => input[it] \in Digits) /\ (input[it] \in Signs <=> w = it + 1)
  BY <1>0 DEF WholeFrom
<1>2. CASE w > Len(input) \/ input[w] \notin Digits
  <2>1. \E error \in Errors : Fail(error, Started("NUMBER"))
    BY <1>0, <1>2 DEF Number, WholeFrom, Throws, Errors
  <2>2. w = it + 1 /\ input[it] \in Signs
    BY <1>0, <1>1, <1>2
  <2> HIDE DEF w
  <2>3. ASSUME NEW type \in LexemeTypes, NEW e \in Nat, Longest(it, type, e) PROVE FALSE
    <3>1. LexemeAt(type, it, e) /\ e <= Len(input) + 1
      BY <1>0, <2>3 DEF Longest
    <3>2. LiteralAt(it, e)
      <4>1. type = "NUMBER"
        BY <1>0, <2>3, <3>1, Begun
      <4> QED BY <3>1, <4>1 DEF LexemeAt
    <3>3. it + 1 < e /\ input[it + 1] \in Digits
      BY <1>0, <2>2, <2>3, <3>2, LiteralIs
    <3> QED BY <1>0, <1>2, <2>2, <3>1, <3>3
  <2> QED BY <2>1, <2>3, NoneRefuses DEF Reads
<1>3. CASE w <= Len(input) /\ input[w] \in Digits
  <2>0. ~Throws(w)
    BY <1>0, <1>1, <1>3 DEF Throws, Malformed, Digits
  <2>1. Whole(w, j)
    <3>1. w \in 1 .. Len(input)
      BY <1>0, <1>1, <1>3
    <3> HIDE DEF w
    <3> QED BY <1>0, <1>3, <3>1, WholeIs
  <2>2. CASE ThrowsIn(Digits, w)
    <3>1. Fail("EXCEPTION", Started("NUMBER")) /\ "EXCEPTION" \in Errors
      BY <1>3, <2>0, <2>2 DEF Number, WholeFrom, Errors
    <3>2. j <= Len(input) /\ Throws(j)
      BY <2>2 DEF ThrowsIn
    <3> HIDE DEF j, w
    <3>3. j \in Nat
      BY <2>1 DEF Whole
    <3>4. input[j] = Malformed /\ input[j] # "e" /\ input[j] # "."
      BY <1>0, <3>2, <3>3 DEF Throws, Malformed
    <3>5. LongestLiteral(it, j)
      BY <1>0, <2>1, <3>3, <3>4, MantissaEnds, LiteralEnds DEF w
    <3> QED BY <1>0, <3>1, <3>2, <3>3, <3>4, <3>5, NumberRefuses
  <2>3. CASE ~ThrowsIn(Digits, w)
    <3>1. IF j <= Len(input) /\ input[j] = "." THEN Fraction(j) ELSE Exponent(j)
      BY <1>3, <2>0, <2>3 DEF Number, WholeFrom
    <3> HIDE DEF j, w
    <3>2. j \in Nat
      BY <2>1 DEF Whole
    <3>3. CASE j <= Len(input) /\ input[j] = "."
      BY <1>0, <2>1, <3>1, <3>2, <3>3, FractionReads DEF w
    <3>4. CASE ~(j <= Len(input) /\ input[j] = ".")
      <4>1. LongestMantissa(w, j)
        BY <1>0, <2>1, <3>2, <3>4, MantissaEnds
      <4> QED BY <1>0, <3>1, <3>2, <3>4, <4>1, ExponentReads DEF w
    <3> QED BY <3>3, <3>4
  <2> QED BY <2>2, <2>3
<1> QED BY <1>0, <1>1, <1>2, <1>3

LEMMA SpaceReads == ASSUME TypeOK, Space PROVE Reads
<1>1. it \in Nat /\ 1 <= it /\ it <= Len(input) /\ Len(input) \in Nat /\ input[it] \in Spaces /\ Skip(it + 1)
  BY Places DEF Space, At
<1>2. \A k \in it .. ((it + 1) - 1) : Blank(k)
  BY <1>1 DEF Blank
<1>3. Open(it + 1) => Open(it)
  <2> SUFFICES ASSUME NEW h \in 1 .. ((it + 1) - 1), input[h] = "#",
                      \A m \in h .. ((it + 1) - 1) : input[m] # Eol
               PROVE  Open(it)
    BY DEF Open
  <2>1. input[it] # "#"
    BY <1>1 DEF Spaces
  <2>2. h \in 1 .. (it - 1)
    BY <1>1, <2>1
  <2> QED BY <1>1, <2>2 DEF Open
<1>4. Blanks(it + 1) /\ it + 1 \in Nat
  <2>1. input[it] \notin {Eol, Malformed}
    BY <1>1 DEF Spaces, Eol, Malformed
  <2> QED BY <1>1, <1>2, <1>3, <2>1 DEF Blanks
<1> QED BY <1>1, <1>4 DEF Reads

LEMMA CommentReads == ASSUME TypeOK, Comment PROVE Reads
<1> DEFINE P == {j \in it .. (Len(input) + 1) : Throws(j) \/ input[j] = Eol}
           m == Min(P)
<1>1. it \in Nat /\ 1 <= it /\ it <= Len(input) /\ Len(input) \in Nat /\ input[it] = "#" /\ Skip(m)
  BY Places DEF Comment, At
<1>2. m \in P /\ \A y \in P : m <= y
  <2>1. P \in SUBSET Nat /\ Len(input) + 1 \in P
    BY <1>1 DEF Throws
  <2> HIDE DEF P
  <2> QED BY <2>1, MinIs
<1> HIDE DEF m
<1>3. m \in it .. (Len(input) + 1) /\ (Throws(m) \/ input[m] = Eol)
  BY <1>2
<1>4. m # it
  BY <1>1, <1>3 DEF Throws, Eol, Malformed
<1>5. \A k \in it .. (m - 1) : input[k] # Eol
  BY <1>1, <1>2, <1>3
<1>6. ASSUME NEW k \in it .. (m - 1) PROVE Blank(k)
  <2>1. it \in 1 .. k /\ \A n \in it .. k : input[n] # Eol
    BY <1>1, <1>3, <1>5
  <2> QED BY <1>1, <2>1 DEF Blank, InComment
<1>7. m <= Len(input) => input[m] \in {Eol, Malformed}
  BY <1>1, <1>3 DEF Throws
<1>8. Blanks(m) /\ m \in Nat
  <2>1. input[it] \notin {Eol, Malformed}
    BY <1>1 DEF Eol, Malformed
  <2> QED BY <1>1, <1>3, <1>4, <1>6, <1>7, <2>1 DEF Blanks
<1> QED BY <1>1, <1>8 DEF Reads, m

LEMMA NothingReads == ASSUME TypeOK, Invalid \/ NoUtf8 PROVE Reads
<1>1. it \in Nat /\ it <= Len(input) /\ input[it] \in Unwritten
  BY Places DEF Invalid, NoUtf8, At, Unwritten
<1>2. ASSUME NEW type \in LexemeTypes, NEW e \in Nat, Longest(it, type, e) PROVE FALSE
  <2>1. LexemeAt(type, it, e)
    BY <1>2 DEF Longest
  <2> QED BY <1>1, <1>2, <2>1, LexemeIs
<1>3. \E error \in Errors : \E building : Fail(error, building)
  BY DEF Invalid, NoUtf8, Errors
<1> QED BY <1>2, <1>3, NoneRefuses DEF Reads

LEMMA Reading ==
  ASSUME TypeOK, Next
  PROVE  \/ Running /\ Reads
         \/ Run \/ EndOfLine \/ EndOfInput \/ Clear \/ Idle
BY PunctuateReads, NameReads, UnderscoreReads, NumberReads, SpaceReads, CommentReads, NothingReads
   DEF Next, At, Punctuate, Name, Underscore, Number, Space, Comment, Invalid, NoUtf8

-----------------------------------------------------------------------------
(* What is made of the text.                                               *)

\* Character k is in token t
Has(t, k) == t.pos <= Span(1, k) /\ Span(1, k) < t.pos + t.len

\* Token t is the longest lexeme where it begins, or the end
Made(t) ==
  \E k \in 1 .. (Len(input) + 1) : \E e \in k .. (Len(input) + 1) : \E type \in Types :
    /\ t.type = type /\ t.pos = Span(1, k) /\ t.pos + t.len = Span(1, e)
    /\ IF type = "EOF" THEN e = k ELSE Longest(k, type, e)

TokensMade == \A i \in DOMAIN tokens : Made(tokens[i]) /\ tokens[i].pos + tokens[i].len <= pos
InOrder ==
  \A m, n \in DOMAIN tokens : m < n => tokens[m].pos + tokens[m].len <= tokens[n].pos
\* What run has passed is blank or in a token
Covered ==
  \A k \in 1 .. (it - 1) : Blank(k) <=> ~\E i \in DOMAIN tokens : Has(tokens[i], k)
\* run is in no comment, unless at its end
Outside == it <= Len(input) /\ input[it] \notin {Eol, Malformed} => ~Open(it)

\* In a context that is used once the tokens are the longest lexemes, in order,
\* of all that run has passed, and it stops only where no other would begin.
TextInv == TokensMade /\ InOrder /\ Covered /\ Outside /\ (result \in Errors => Refuses)

LEMMA SameLexemes ==
  ASSUME input' = input, NEW k, NEW e, NEW type
  PROVE  /\ Longest(k, type, e)' <=> Longest(k, type, e)
         /\ Blank(k)' <=> Blank(k)
         /\ Open(k)' <=> Open(k)
BY DEF Longest, LexemeAt, LiteralAt, MantissaAt, DigitsAt, SignAt, IdentifierAt, Blank, InComment, Open

\* Nothing in a lexeme is blank
LEMMA NotBlank ==
  ASSUME TypeOK, Outside, NEW type, NEW j, Longest(it, type, j), NEW k \in it .. (j - 1)
  PROVE  ~Blank(k)
<1>0. it \in Nat /\ Len(input) \in Nat /\ j \in Nat /\ it <= Len(input) /\ it < j /\ k \in Nat
  BY Places DEF Longest
<1>1. \A n \in it .. (j - 1) : input[n] \notin Unwritten
  BY <1>0, LexemeIs DEF Longest
<1>2. ~Open(it)
  <2>1. input[it] \notin {Eol, Malformed}
    BY <1>0, <1>1 DEF Unwritten
  <2> QED BY <1>0, <2>1 DEF Outside
<1>3. input[k] \notin Spaces \cup {Eol}
  BY <1>1 DEF Unwritten
<1>4. ASSUME NEW h \in 1 .. k, input[h] = "#", \A m \in h .. k : input[m] # Eol PROVE FALSE
  <2>1. ~(it <= h)
    BY <1>0, <1>1, <1>4 DEF Unwritten
  <2>2. h \in 1 .. (it - 1) /\ \A m \in h .. (it - 1) : input[m] # Eol
    BY <1>0, <1>4, <2>1
  <2> QED BY <1>2, <1>4, <2>2 DEF Open
<1> QED BY <1>3, <1>4 DEF Blank, InComment

\* One token more
LEMMA AppendIs ==
  ASSUME TypeOK, NEW t \in Token, tokens' = Append(tokens, t)
  PROVE  /\ Len(tokens) \in Nat /\ DOMAIN tokens = 1 .. Len(tokens)
         /\ DOMAIN tokens' = 1 .. (Len(tokens) + 1) /\ tokens'[Len(tokens) + 1] = t
         /\ \A n \in DOMAIN tokens : tokens'[n] = tokens[n]
BY DEF TypeOK

LEMMA TokensAre ==
  ASSUME TypeOK
  PROVE  \A n \in DOMAIN tokens : tokens[n].pos \in Nat /\ tokens[n].len \in Nat
<1>1. \A n \in DOMAIN tokens : tokens[n] \in Token
  BY DEF TypeOK
<1> QED BY <1>1 DEF Token

LEMMA OneMade ==
  ASSUME TypeOK, Counted, Outside, TokensMade, InOrder, Covered, input' = input,
         NEW j \in it .. (Len(input) + 1), it' = j, pos' = pos + Span(it, j),
         NEW t \in Token, t.pos = pos, t.len = Span(it, j), tokens' = Append(tokens, t),
         IF t.type = "EOF" THEN j = it ELSE Longest(it, t.type, j)
  PROVE  TokensMade' /\ InOrder' /\ Covered'
<1>0. /\ it \in Nat /\ 1 <= it /\ j \in Nat /\ it <= j /\ Len(input) \in Nat /\ pos \in Nat
      /\ Span(it, j) \in Nat /\ Span(1, j) = Span(1, it) + Span(it, j) /\ pos = Span(1, it)
  <2>1. it \in Nat /\ 1 <= it /\ j \in Nat /\ it <= j /\ Len(input) \in Nat
    BY Places
  <2>2. Span(it, j) \in Nat /\ Span(1, j) = Span(1, it) + Span(it, j)
    BY <2>1, SpanType, SpanSplit
  <2> QED BY <2>1, <2>2 DEF Counted, TypeOK
<1>1. /\ Len(tokens) \in Nat /\ DOMAIN tokens = 1 .. Len(tokens)
      /\ DOMAIN tokens' = 1 .. (Len(tokens) + 1) /\ tokens'[Len(tokens) + 1] = t
      /\ \A n \in DOMAIN tokens : tokens'[n] = tokens[n]
  BY AppendIs
<1>2. \A n \in DOMAIN tokens' :
        \/ n \in DOMAIN tokens /\ tokens'[n] = tokens[n]
        \/ n = Len(tokens) + 1 /\ tokens'[n] = t
  BY <1>1
<1>3. t.pos + t.len = Span(1, j) /\ pos' = Span(1, j)
  BY <1>0
<1>4. Made(t)
  <2>1. t.type \in Types /\ it \in 1 .. (Len(input) + 1)
    BY <1>0 DEF Token
  <2> QED BY <1>0, <1>3, <2>1 DEF Made
<1>5. TokensMade'
  <2> SUFFICES ASSUME NEW i \in DOMAIN tokens'
               PROVE  Made(tokens'[i]) /\ tokens'[i].pos + tokens'[i].len <= pos'
    BY SameText, SameLexemes DEF TokensMade, Made
  <2>1. CASE i \in DOMAIN tokens /\ tokens'[i] = tokens[i]
    <3>1. Made(tokens[i]) /\ tokens[i].pos + tokens[i].len <= pos
      BY <2>1 DEF TokensMade
    <3>2. tokens[i].pos \in Nat /\ tokens[i].len \in Nat
      BY <2>1, TokensAre
    <3>3. tokens[i].pos + tokens[i].len <= pos'
      BY <1>0, <3>1, <3>2
    <3> QED BY <2>1, <3>1, <3>3
  <2>2. CASE tokens'[i] = t
    BY <1>0, <1>3, <1>4, <2>2
  <2> QED BY <1>2, <2>1, <2>2
<1>6. InOrder'
  <2> SUFFICES ASSUME NEW m \in DOMAIN tokens', NEW n \in DOMAIN tokens', m < n
               PROVE  tokens'[m].pos + tokens'[m].len <= tokens'[n].pos
    BY DEF InOrder
  <2>1. m \in DOMAIN tokens /\ tokens'[m] = tokens[m]
    BY <1>1
  <2>2. CASE n \in DOMAIN tokens /\ tokens'[n] = tokens[n]
    BY <2>1, <2>2 DEF InOrder
  <2>3. CASE tokens'[n] = t
    BY <2>1, <2>3 DEF TokensMade
  <2> QED BY <1>2, <2>2, <2>3
<1>7. ASSUME NEW k \in 1 .. (j - 1)
      PROVE  Blank(k) <=> ~\E i \in DOMAIN tokens' : Has(tokens'[i], k)
  <2>0. k \in Nat /\ 1 <= k /\ Span(1, k) \in Nat
    <3>1. k \in Nat /\ 1 <= k
      BY <1>0
    <3> QED BY <3>1, SpanType
  <2>1. CASE k < it
    <3>1. ~Has(t, k)
      <4>1. Span(1, k) < Span(1, it)
        BY <1>0, <2>0, <2>1, SpanGrows
      <4> QED BY <1>0, <2>0, <4>1 DEF Has
    <3>2. (\E i \in DOMAIN tokens' : Has(tokens'[i], k)) <=> \E i \in DOMAIN tokens : Has(tokens[i], k)
      <4>1. \A i \in DOMAIN tokens : i \in DOMAIN tokens' /\ tokens'[i] = tokens[i]
        BY <1>1
      <4> QED BY <1>2, <3>1, <4>1
    <3>3. k \in 1 .. (it - 1)
      BY <1>0, <2>0, <2>1
    <3> QED BY <3>2, <3>3 DEF Covered
  <2>2. CASE it <= k
    <3>1. Longest(it, t.type, j)
      BY <1>0, <2>0, <2>2
    <3>2. ~Blank(k)
      <4>1. k \in it .. (j - 1)
        BY <1>0, <2>0, <2>2
      <4> QED BY <3>1, <4>1, NotBlank
    <3>3. Has(t, k)
      <4>1. Span(1, k) < Span(1, j)
        BY <1>0, <2>0, <2>2, SpanGrows
      <4>2. Span(1, it) <= Span(1, k)
        <5>1. CASE it = k
          BY <1>0, <5>1
        <5>2. CASE it < k
          BY <1>0, <2>0, <5>2, SpanGrows
        <5> QED BY <1>0, <2>0, <2>2, <5>1, <5>2
      <4> QED BY <1>0, <1>3, <4>1, <4>2 DEF Has
    <3>4. Len(tokens) + 1 \in DOMAIN tokens' /\ tokens'[Len(tokens) + 1] = t
      BY <1>1
    <3> QED BY <3>2, <3>3, <3>4
  <2>3. k < it \/ it <= k
    BY <1>0, <2>0
  <2> QED BY <2>1, <2>2, <2>3
<1>8. Covered'
  BY <1>7, SameText, SameLexemes DEF Covered, Has
<1> QED BY <1>5, <1>6, <1>8

\* Nothing but blanks
LEMMA NoneMade ==
  ASSUME TypeOK, Counted, TokensMade, InOrder, Covered, input' = input, tokens' = tokens,
         NEW j \in it .. (Len(input) + 1), \A k \in it .. (j - 1) : Blank(k),
         it' = j, pos' \in Nat, pos <= pos'
  PROVE  TokensMade' /\ InOrder' /\ Covered'
<1>0. it \in Nat /\ 1 <= it /\ j \in Nat /\ pos \in Nat /\ pos = Span(1, it)
  BY Places DEF TypeOK, Counted
<1>1. TokensMade'
  <2> SUFFICES ASSUME NEW i \in DOMAIN tokens
               PROVE  Made(tokens[i]) /\ tokens[i].pos + tokens[i].len <= pos'
    BY SameText, SameLexemes DEF TokensMade, Made
  <2>1. Made(tokens[i]) /\ tokens[i].pos + tokens[i].len <= pos
    BY DEF TokensMade
  <2>2. tokens[i].pos \in Nat /\ tokens[i].len \in Nat
    BY TokensAre
  <2> QED BY <1>0, <2>1, <2>2
<1>2. InOrder'
  BY DEF InOrder
<1>3. ASSUME NEW k \in 1 .. (j - 1)
      PROVE  Blank(k) <=> ~\E i \in DOMAIN tokens : Has(tokens[i], k)
  <2>0. k \in Nat /\ 1 <= k /\ Span(1, k) \in Nat
    <3>1. k \in Nat /\ 1 <= k
      BY <1>0
    <3> QED BY <3>1, SpanType
  <2>1. CASE k < it
    <3>1. k \in 1 .. (it - 1)
      BY <1>0, <2>0, <2>1
    <3> QED BY <3>1 DEF Covered
  <2>2. CASE it <= k
    <3>1. Blank(k)
      <4>1. k \in it .. (j - 1)
        BY <1>0, <2>0, <2>2
      <4> QED BY <4>1
    <3>2. Span(1, it) <= Span(1, k)
      <4>1. CASE it = k
        BY <1>0, <4>1
      <4>2. CASE it < k
        BY <1>0, <2>0, <4>2, SpanGrows
      <4> QED BY <1>0, <2>0, <2>2, <4>1, <4>2
    <3>3. ASSUME NEW i \in DOMAIN tokens, Has(tokens[i], k) PROVE FALSE
      <4>1. tokens[i].pos + tokens[i].len <= pos
        BY DEF TokensMade
      <4>2. tokens[i].pos \in Nat /\ tokens[i].len \in Nat
        BY TokensAre
      <4>3. Span(1, k) < tokens[i].pos + tokens[i].len
        BY <3>3 DEF Has
      <4> QED BY <1>0, <2>0, <3>2, <4>1, <4>2, <4>3
    <3> QED BY <3>1, <3>3
  <2>3. k < it \/ it <= k
    BY <1>0, <2>0
  <2> QED BY <2>1, <2>2, <2>3
<1>4. Covered'
  BY <1>3, SameText, SameLexemes DEF Covered, Has
<1> QED BY <1>1, <1>2, <1>4

LEMMA OutsideIs ==
  ASSUME input' = input, NEW j, it' = j,
         j <= Len(input) /\ input[j] \notin {Eol, Malformed} => ~Open(j)
  PROVE  Outside'
<1>1. Open(j)' <=> Open(j)
  BY SameLexemes
<1>2. Open(it)' <=> Open(j)'
  BY DEF Open
<1> QED BY <1>1, <1>2 DEF Outside

LEMMA ReadsText ==
  ASSUME TypeOK, Running, Reads, PositionInv, TextInv
  PROVE  TextInv'
<1>0. /\ it \in Nat /\ 1 <= it /\ Len(input) \in Nat /\ Counted /\ TokensMade /\ InOrder
      /\ Covered /\ Outside
  BY Places DEF PositionInv, TextInv
<1>1. ASSUME NEW type \in LexemeTypes, NEW j \in Nat, Longest(it, type, j), EndToken(type, j)
      PROVE  TextInv'
  <2> DEFINE t == [Started(type) EXCEPT !.len = Span(it, j)]
  <2>0. type \in Types \ {"NONE", "EOF"} /\ j \in it .. (Len(input) + 1)
    BY <1>0, <1>1 DEF Longest, LexemeTypes
  <2>1. t \in Token /\ t.pos = pos /\ t.len = Span(it, j) /\ t.type = type
    <3>1. Span(it, j) \in Nat
      <4>1. it <= j
        BY <1>0, <2>0
      <4> QED BY <1>0, <4>1, SpanType
    <3>2. t \in Token
      BY <2>0, <3>1, StartedIs
    <3> QED BY <3>2 DEF Started
  <2>2. tokens' = Append(tokens, t)
    BY <1>1, <2>0 DEF EndToken, Kept, Started
  <2>3. input' = input /\ it' = j /\ pos' = pos + Span(it, j) /\ result' = "RUNNING"
    BY <1>1 DEF EndToken, Running
  <2> HIDE DEF t
  <2>4. TokensMade' /\ InOrder' /\ Covered'
    <3>1. IF t.type = "EOF" THEN j = it ELSE Longest(it, t.type, j)
      BY <1>1, <2>0, <2>1
    <3> QED BY <1>0, <2>0, <2>1, <2>2, <2>3, <3>1, OneMade
  <2>5. Outside'
    <3>1. \A n \in it .. (j - 1) : input[n] \notin Unwritten
      BY <1>0, <1>1, LexemeIs DEF Longest
    <3>2. it <= Len(input) /\ it < j /\ input[it] \notin {Eol, Malformed}
      BY <1>0, <1>1, <3>1 DEF Longest, Unwritten
    <3>3. ~Open(it)
      BY <1>0, <3>2 DEF Outside
    <3>4. ASSUME NEW h \in 1 .. (j - 1), input[h] = "#", \A m \in h .. (j - 1) : input[m] # Eol
          PROVE  FALSE
      <4>1. ~(it <= h)
        BY <1>0, <3>1, <3>4 DEF Unwritten
      <4>2. h \in 1 .. (it - 1) /\ \A m \in h .. (it - 1) : input[m] # Eol
        BY <1>0, <3>2, <3>4, <4>1
      <4> QED BY <3>3, <3>4, <4>2 DEF Open
    <3>5. ~Open(j)
      BY <3>4 DEF Open
    <3> QED BY <2>3, <3>5, OutsideIs
  <2>6. result' \notin Errors
    BY <2>3 DEF Errors
  <2> QED BY <2>4, <2>5, <2>6 DEF TextInv
<1>2. ASSUME NEW j \in Nat, Blanks(j), Skip(j) PROVE TextInv'
  <2>1. /\ j \in it .. (Len(input) + 1) /\ it < j /\ \A k \in it .. (j - 1) : Blank(k)
        /\ j <= Len(input) /\ input[j] \notin {Eol, Malformed} => (Open(j) => Open(it))
    BY <1>0, <1>2 DEF Blanks
  <2>2. input' = input /\ it' = j /\ pos' = pos + Span(it, j) /\ result' = "RUNNING" /\ tokens' = tokens
    BY <1>2 DEF Skip, Running
  <2>3. pos' \in Nat /\ pos <= pos'
    <3>1. Span(it, j) \in Nat
      <4>1. it <= j
        BY <1>0, <2>1
      <4> QED BY <1>0, <4>1, SpanType
    <3> QED BY <2>2, <3>1 DEF TypeOK
  <2>4. TokensMade' /\ InOrder' /\ Covered'
    BY <1>0, <2>1, <2>2, <2>3, NoneMade
  <2>5. Outside'
    <3>1. ~Open(it)
      BY <1>0, <1>2, <2>1 DEF Outside, Blanks
    <3> QED BY <2>1, <2>2, <3>1, OutsideIs
  <2>6. result' \notin Errors
    BY <2>2 DEF Errors
  <2> QED BY <2>4, <2>5, <2>6 DEF TextInv
<1>3. ASSUME Refuses, NEW error \in Errors, NEW building, Fail(error, building) PROVE TextInv'
  <2>1. input' = input /\ it' = it /\ tokens' = tokens /\ pos' = pos
    BY <1>3 DEF Fail
  <2>2. it \in it .. (Len(input) + 1) /\ pos \in Nat /\ pos' \in Nat /\ pos <= pos'
    BY <2>1, Places DEF TypeOK
  <2>3. TokensMade' /\ InOrder' /\ Covered'
    BY <1>0, <2>1, <2>2, NoneMade
  <2>4. Outside'
    BY <1>0, <2>1, OutsideIs DEF Outside
  <2>5. Refuses'
    BY <1>3, <2>1, SameLexemes DEF Refuses, Excused, DigitsAt, SignAt
  <2> QED BY <2>3, <2>4, <2>5 DEF TextInv
<1> QED BY <1>1, <1>2, <1>3 DEF Reads

LEMMA EndOfLineText ==
  ASSUME TypeOK, EndOfLine, PositionInv, TextInv
  PROVE  TextInv'
<1>0. /\ it \in Nat /\ 1 <= it /\ Len(input) \in Nat /\ Counted /\ TokensMade /\ InOrder
      /\ Covered /\ Outside /\ it <= Len(input) /\ input[it] = Eol
  BY Places DEF PositionInv, TextInv, EndOfLine, At
<1>1. tokens' = tokens
  BY NoTokenIs DEF EndOfLine, Kept, TypeOK, At, Running
<1>2. input' = input /\ it' = it + 1 /\ pos' = pos + 1 /\ result' = "RUNNING"
  BY DEF EndOfLine, At, Running
<1>3. pos' \in Nat /\ pos <= pos'
  BY <1>2 DEF TypeOK
<1>4. \A k \in it .. ((it + 1) - 1) : Blank(k)
  BY <1>0 DEF Blank
<1>5. it + 1 \in it .. (Len(input) + 1)
  BY <1>0
<1>6. TokensMade' /\ InOrder' /\ Covered'
  BY <1>0, <1>1, <1>2, <1>3, <1>4, <1>5, NoneMade
<1>7. ~Open(it + 1)
  BY <1>0 DEF Open
<1>8. Outside'
  BY <1>2, <1>7, OutsideIs
<1>9. result' \notin Errors
  BY <1>2 DEF Errors
<1> QED BY <1>6, <1>8, <1>9 DEF TextInv

LEMMA EndOfInputText ==
  ASSUME TypeOK, EndOfInput, PositionInv, TextInv
  PROVE  TextInv'
<1>0. /\ it \in Nat /\ 1 <= it /\ Len(input) \in Nat /\ Counted /\ TokensMade /\ InOrder
      /\ Covered /\ Outside /\ it \in it .. (Len(input) + 1)
  BY Places DEF PositionInv, TextInv
<1> DEFINE t == Started("EOF")
<1>1. t \in Token /\ t.pos = pos /\ t.len = 0 /\ t.type = "EOF"
  <2>1. t \in Token
    BY StartedIs DEF Types
  <2> QED BY <2>1 DEF Started
<1>2. input' = input /\ it' = it /\ pos' = pos /\ result' = "OK" /\ tokens' = Append(tokens, t)
  BY DEF EndOfInput
<1> HIDE DEF t
<1>3. Span(it, it) = 0 /\ pos' = pos + Span(it, it)
  <2>1. Span(it, it) = 0
    BY <1>0, SpanEmpty
  <2> QED BY <1>2, <2>1 DEF TypeOK
<1>4. IF t.type = "EOF" THEN it = it ELSE Longest(it, t.type, it)
  BY <1>1
<1>5. TokensMade' /\ InOrder' /\ Covered'
  BY <1>0, <1>1, <1>2, <1>3, <1>4, OneMade
<1>6. Outside'
  BY <1>0, <1>2, OutsideIs DEF Outside
<1>7. result' \notin Errors
  BY <1>2 DEF Errors
<1> QED BY <1>5, <1>6, <1>7 DEF TextInv

LEMMA RestartText ==
  ASSUME tokens' = <<>>, it' = 1, result' \notin Errors
  PROVE  TextInv'
<1>1. TokensMade' /\ InOrder'
  BY DEF TokensMade, InOrder
<1>2. Covered'
  BY DEF Covered
<1>3. Outside'
  BY DEF Outside, Open
<1> QED BY <1>1, <1>2, <1>3 DEF TextInv

LEMMA TextStep ==
  ASSUME TypeOK, Fresh, [Next]_tvars, PositionInv, TextInv
  PROVE  TextInv'
<1>1. CASE Run
  <2>1. cur = NoToken /\ tokens = <<>>
    BY <1>1 DEF Run, PositionInv, Session
  <2>2. tokens' = <<>> /\ it' = 1 /\ result' = "RUNNING"
    BY <1>1, <2>1, NoTokenIs DEF Run, Kept
  <2> QED BY <2>2, RestartText DEF Errors
<1>2. CASE Clear
  <2>1. result = "OK"
    BY <1>2 DEF Clear
  <2>2. cur = NoToken
    BY <2>1 DEF TypeOK
  <2>3. tokens' = <<>> /\ it' = 1 /\ result' = "OK"
    BY <1>2, <2>1, <2>2, NoTokenIs DEF Clear
  <2> QED BY <2>3, RestartText DEF Errors
<1>3. CASE Idle \/ UNCHANGED tvars
  <2>1. UNCHANGED tvars
    BY <1>3 DEF Idle
  <2>2. input' = input /\ it' = it /\ tokens' = tokens /\ pos' = pos /\ result' = result
    BY <2>1 DEF tvars
  <2>3. /\ Counted /\ TokensMade /\ InOrder /\ Covered /\ Outside
        /\ it \in it .. (Len(input) + 1) /\ pos \in Nat /\ pos' \in Nat /\ pos <= pos'
        /\ \A k \in it .. (it - 1) : Blank(k)
    BY <2>2, Places DEF PositionInv, TextInv, TypeOK
  <2>4. TokensMade' /\ InOrder' /\ Covered'
    BY <2>2, <2>3, NoneMade
  <2>5. Outside'
    BY <2>2, <2>3, OutsideIs DEF Outside
  <2>6. result' \in Errors => Refuses'
    BY <2>2, SameLexemes DEF TextInv, Refuses, Excused, DigitsAt, SignAt
  <2> QED BY <2>4, <2>5, <2>6 DEF TextInv
<1> QED BY <1>1, <1>2, <1>3, Reading, ReadsText, EndOfLineText, EndOfInputText

LEMMA TextInit == ASSUME Init PROVE TextInv
BY DEF Init, TextInv, TokensMade, InOrder, Covered, Outside, Errors

-----------------------------------------------------------------------------
(* What the properties say of it.                                          *)

LEMMA MadeIs ==
  ASSUME TypeOK, NEW t, Made(t)
  PROVE  /\ First(t) \in 1 .. (Len(input) + 1) /\ End(t) \in First(t) .. (Len(input) + 1)
         /\ t.pos = Span(1, First(t)) /\ t.pos + t.len = Span(1, End(t))
         /\ t.type # "EOF" => Longest(First(t), t.type, End(t))
<1>1. PICK k \in 1 .. (Len(input) + 1) : \E e \in k .. (Len(input) + 1) : \E type \in Types :
        /\ t.type = type /\ t.pos = Span(1, k) /\ t.pos + t.len = Span(1, e)
        /\ IF type = "EOF" THEN e = k ELSE Longest(k, type, e)
  BY DEF Made
<1>2. PICK e \in k .. (Len(input) + 1) :
        /\ t.pos = Span(1, k) /\ t.pos + t.len = Span(1, e)
        /\ t.type # "EOF" => Longest(k, t.type, e)
  BY <1>1
<1>3. Len(input) \in Nat /\ e \in 1 .. (Len(input) + 1)
  BY Places
<1>4. First(t) = k
  BY <1>2, <1>3, IndexIs DEF First
<1>5. End(t) = e
  BY <1>2, <1>3, IndexIs DEF End
<1> QED BY <1>2, <1>4, <1>5

LEMMA LongestMatchFollows == ASSUME TypeOK, TextInv PROVE LongestMatch
<1> SUFFICES ASSUME NEW i \in DOMAIN tokens, tokens[i].type # "EOF", ~Departs(First(tokens[i]))
             PROVE  LET t == tokens[i] IN
                      /\ IsLexeme(t.type, SubSeq(input, First(t), End(t) - 1))
                      /\ \A j \in (End(t) + 1) .. (Len(input) + 1), type \in LexemeTypes :
                           ~IsLexeme(type, SubSeq(input, First(t), j - 1))
  BY DEF LongestMatch
<1> DEFINE t == tokens[i]
           k == First(t)
           e == End(t)
<1>1. /\ k \in 1 .. (Len(input) + 1) /\ e \in k .. (Len(input) + 1) /\ Longest(k, t.type, e)
  BY MadeIs DEF TextInv, TokensMade
<1>0. ~Departs(k)
  OBVIOUS
<1> HIDE DEF t, k, e
<1>2. Len(input) \in Nat /\ k \in Nat /\ e \in Nat /\ k \in 1 .. Len(input)
  BY <1>1, Places DEF Longest
<1>3. IsLexeme(t.type, SubSeq(input, k, e - 1))
  BY <1>0, <1>1, <1>2, LexemeMeets DEF Longest
<1>4. ASSUME NEW j \in (e + 1) .. (Len(input) + 1), NEW type \in LexemeTypes
      PROVE  ~IsLexeme(type, SubSeq(input, k, j - 1))
  <2>1. j \in k .. (Len(input) + 1)
    BY <1>1, <1>2
  <2>2. ~LexemeAt(type, k, j)
    BY <1>1 DEF Longest
  <2>3. j <= Len(input) => ~LexemeAt(type, k, j + 1)
    <3>1. j <= Len(input) => j + 1 \in (e + 1) .. (Len(input) + 1)
      BY <1>2
    <3> QED BY <1>1, <3>1 DEF Longest
  <2> QED BY <1>0, <1>2, <2>1, <2>2, <2>3, LexemeMeets
<1> QED BY <1>3, <1>4 DEF t, k, e

\* The characters of a token are counted in bytes
LEMMA HasIs ==
  ASSUME TypeOK, NEW t, Made(t), NEW k \in 1 .. Len(input)
  PROVE  Has(t, k) <=> First(t) <= k /\ k < End(t)
<1> DEFINE f == First(t)
           e == End(t)
<1>1. /\ f \in 1 .. (Len(input) + 1) /\ e \in f .. (Len(input) + 1)
      /\ t.pos = Span(1, f) /\ t.pos + t.len = Span(1, e)
  BY MadeIs
<1> HIDE DEF f, e
<1>2. Len(input) \in Nat /\ f \in Nat /\ 1 <= f /\ e \in Nat /\ 1 <= e /\ k \in Nat /\ 1 <= k
  BY <1>1, Places
<1>3. Span(1, f) \in Nat /\ Span(1, e) \in Nat /\ Span(1, k) \in Nat
  BY <1>2, SpanType
<1>4. f < k => Span(1, f) < Span(1, k)
  BY <1>2, SpanGrows
<1>5. k < f => Span(1, k) < Span(1, f)
  BY <1>2, SpanGrows
<1>6. k < e => Span(1, k) < Span(1, e)
  BY <1>2, SpanGrows
<1>7. e < k => Span(1, e) < Span(1, k)
  BY <1>2, SpanGrows
<1>8. Span(1, f) <= Span(1, k) <=> f <= k
  BY <1>2, <1>3, <1>4, <1>5
<1>9. Span(1, k) < Span(1, e) <=> k < e
  BY <1>2, <1>3, <1>6, <1>7
<1>10. Has(t, k) <=> f <= k /\ k < e
  BY <1>1, <1>8, <1>9 DEF Has
<1> QED BY <1>10 DEF f, e

LEMMA OneToken ==
  ASSUME TypeOK, TokensMade, InOrder, NEW m \in DOMAIN tokens, NEW n \in DOMAIN tokens,
         NEW k \in Nat, 1 <= k, Has(tokens[m], k), Has(tokens[n], k)
  PROVE  m = n
<1>1. \A i \in DOMAIN tokens : tokens[i].pos \in Nat /\ tokens[i].len \in Nat
  BY TokensAre
<1>2. Span(1, k) \in Nat
  BY SpanType
<1>3. ASSUME NEW a \in DOMAIN tokens, NEW b \in DOMAIN tokens, a < b,
             Has(tokens[a], k), Has(tokens[b], k)
      PROVE  FALSE
  <2>1. tokens[a].pos + tokens[a].len <= tokens[b].pos
    BY <1>3 DEF InOrder
  <2>2. tokens[b].pos <= Span(1, k) /\ Span(1, k) < tokens[a].pos + tokens[a].len
    BY <1>3 DEF Has
  <2> QED BY <1>1, <1>2, <2>1, <2>2
<1>4. ~(m < n) /\ ~(n < m)
  BY <1>3
<1>5. m \in Nat /\ n \in Nat
  BY DEF TypeOK
<1> QED BY <1>4, <1>5

LEMMA CoveredOnce ==
  ASSUME TypeOK, TextInv, it = Len(input) + 1, NEW k \in DOMAIN input
  PROVE  Cardinality({i \in DOMAIN tokens : First(tokens[i]) <= k /\ k < End(tokens[i])})
           = (IF Blank(k) THEN 0 ELSE 1)
<1> DEFINE C == {i \in DOMAIN tokens : Has(tokens[i], k)}
<1>0. k \in 1 .. Len(input) /\ k \in Nat /\ 1 <= k /\ k \in 1 .. (it - 1)
  BY Places DEF TypeOK
<1>1. {i \in DOMAIN tokens : First(tokens[i]) <= k /\ k < End(tokens[i])} = C
  BY <1>0, HasIs DEF TextInv, TokensMade
<1>2. Blank(k) <=> C = {}
  BY <1>0 DEF TextInv, Covered
<1>3. CASE Blank(k)
  BY <1>1, <1>2, <1>3, FS_EmptySet
<1>4. CASE ~Blank(k)
  <2>1. PICK i \in DOMAIN tokens : Has(tokens[i], k)
    BY <1>2, <1>4
  <2>2. C = {i}
    BY <1>0, <2>1, OneToken DEF TextInv
  <2>3. Cardinality({i}) = 1
    BY FS_Singleton
  <2> QED BY <1>1, <1>4, <2>2, <2>3
<1> QED BY <1>3, <1>4

LEMMA NothingLostFollows == ASSUME TypeOK, PositionInv, TextInv PROVE NothingLost
<1>0. Len(input) \in Nat /\ it \in 1 .. (Len(input) + 1)
  BY Places
<1>1. ASSUME result = "OK", NEW k \in DOMAIN input
      PROVE  Cardinality({i \in DOMAIN tokens : First(tokens[i]) <= k /\ k < End(tokens[i])})
               = (IF Blank(k) THEN 0 ELSE 1)
  BY <1>1, CoveredOnce DEF PositionInv, Session
<1>2. ASSUME NEW i \in 2 .. Len(tokens) PROVE End(tokens[i - 1]) <= First(tokens[i])
  <2>1. i \in DOMAIN tokens /\ i - 1 \in DOMAIN tokens /\ i - 1 < i
    BY DEF TypeOK
  <2> DEFINE e == End(tokens[i - 1])
             f == First(tokens[i])
  <2>2. e \in 1 .. (Len(input) + 1) /\ tokens[i - 1].pos + tokens[i - 1].len = Span(1, e)
    <3>1. /\ First(tokens[i - 1]) \in 1 .. (Len(input) + 1)
          /\ e \in First(tokens[i - 1]) .. (Len(input) + 1)
          /\ tokens[i - 1].pos + tokens[i - 1].len = Span(1, e)
      BY <2>1, MadeIs DEF TextInv, TokensMade
    <3> HIDE DEF e
    <3> QED BY <1>0, <3>1
  <2>3. f \in 1 .. (Len(input) + 1) /\ tokens[i].pos = Span(1, f)
    BY <2>1, MadeIs DEF TextInv, TokensMade
  <2>4. tokens[i - 1].pos + tokens[i - 1].len <= tokens[i].pos
    BY <2>1 DEF TextInv, InOrder
  <2> HIDE DEF e, f
  <2>5. Span(1, e) <= Span(1, f)
    BY <2>2, <2>3, <2>4
  <2>6. Span(1, e) \in Nat /\ Span(1, f) \in Nat
    BY <1>0, <2>2, <2>3, SpanType
  <2>7. f < e => Span(1, f) < Span(1, e)
    BY <1>0, <2>2, <2>3, SpanGrows
  <2>8. e <= f
    BY <1>0, <2>2, <2>3, <2>5, <2>6, <2>7
  <2> QED BY <2>8 DEF e, f
<1>3. ASSUME result \notin {"NONE", "RUNNING", "OK"},
             NEW j \in (it + 1) .. (Len(input) + 1), NEW type \in LexemeTypes,
             IsLexeme(type, SubSeq(input, it, j - 1)),
             \A k \in (j + 1) .. (Len(input) + 1), other \in LexemeTypes :
               ~IsLexeme(other, SubSeq(input, it, k - 1)),
             ~Departs(it)
      PROVE  Excused(type, j)
  <2>0. it \in 1 .. Len(input)
    BY <1>0
  <2>1. result \in Errors
    BY <1>3 DEF TypeOK, Errors
  <2>2. LexemeAt(type, it, j)
    <3>1. j \in it .. (Len(input) + 1)
      BY <1>0
    <3>2. j <= Len(input) => ~LexemeAt(type, it, j + 1)
      <4>1. j <= Len(input) => /\ j + 1 \in (j + 1) .. (Len(input) + 1)
                              /\ j + 1 \in it .. (Len(input) + 1)
        BY <1>0
      <4> QED BY <1>3, <2>0, <4>1, LexemeMeets
    <3> QED BY <1>3, <2>0, <3>1, <3>2, LexemeMeets
  <2>3. ASSUME NEW k \in (j + 1) .. (Len(input) + 1), NEW other \in LexemeTypes
        PROVE  ~LexemeAt(other, it, k)
    <3>1. k \in it .. (Len(input) + 1)
      BY <1>0
    <3> QED BY <1>3, <2>0, <3>1, LexemeMeets
  <2>4. Longest(it, type, j) /\ j \in Nat
    BY <1>0, <2>2, <2>3 DEF Longest
  <2> QED BY <2>1, <2>4 DEF TextInv, Refuses
<1>4. \A j \in (it + 1) .. (Len(input) + 1), type \in LexemeTypes :
        Excused(type, j) =>
          \/ j > Len(input) /\ type = "UNDERSCORE"
          \/ j <= Len(input) /\ input[j] = Malformed
          \/ j <= Len(input) /\ type = "NUMBER" /\ input[j] = "e"
          \/ Departs(it)
  <2> SUFFICES ASSUME NEW j \in (it + 1) .. (Len(input) + 1), j <= Len(input), input[j] = ".",
                      DigitsAt(SignAt(it, j), j), j < Len(input) => input[j + 1] \notin Digits
               PROVE  Departs(it)
    BY DEF Excused
  <2>1. DepartsAt(it)
    BY <1>0 DEF DepartsAt
  <2> QED BY <1>0, <2>1, DepartsIs
<1> QED BY <1>1, <1>2, <1>3, <1>4 DEF NothingLost

LEMMA TextAlways == ASSUME Fresh PROVE Spec => [](TypeOK /\ PositionInv /\ TextInv)
<1>1. Init => TypeOK /\ PositionInv /\ TextInv
  BY TypeInit, PositionInit, TextInit
<1>2. TypeOK /\ PositionInv /\ TextInv /\ [Next]_tvars => (TypeOK /\ PositionInv /\ TextInv)'
  BY TypeStep, PositionStep, TextStep
<1> QED BY <1>1, <1>2, PTL DEF Spec

\* In a context that is used once every token is the longest lexeme of the
\* written rules that begins where it does, but for a number with a point and no
\* digit after it and a name with two underscores: elsewhere run never stops a number or a name early, never takes an
\* underscore for a name that goes on, and never reads a sign, a point or an
\* exponent that the rules do not allow.
THEOREM TokensAreLongest == Spec => []LongestMatch
<1>1. CASE ~Fresh
  <2>1. LongestMatch
    BY <1>1 DEF LongestMatch
  <2> QED BY <2>1, PTL
<1>2. CASE Fresh
  <2>1. TypeOK /\ PositionInv /\ TextInv => LongestMatch
    BY LongestMatchFollows
  <2> QED BY <1>2, <2>1, TextAlways, PTL
<1> QED BY <1>1, <1>2

\* A text that is accepted is all tokens, blanks and comments, every character
\* in one of them and in one only, and the tokens in the order of the text; one
\* that is refused goes on with no lexeme of the written rules, or with a number
\* before an e, one before a bad byte or an underscore that ends the text, or where
\* the code departs from the rules.
THEOREM NothingIsLost == Spec => []NothingLost
<1>1. CASE ~Fresh
  <2>1. NothingLost
    BY <1>1 DEF NothingLost
  <2> QED BY <2>1, PTL
<1>2. CASE Fresh
  <2>1. TypeOK /\ PositionInv /\ TextInv => NothingLost
    BY NothingLostFollows
  <2> QED BY <1>2, <2>1, TextAlways, PTL
<1> QED BY <1>1, <1>2
=============================================================================
