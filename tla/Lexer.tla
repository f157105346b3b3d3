------------------------------- MODULE Lexer -------------------------------
(***************************************************************************)
(* A text from its characters to what Go reads in its place: the lexer     *)
(* cuts it into tokens, one per call of next; the parser decodes literals, *)
(* with Go's own rules for floats and runes; codegen writes them again, as *)
(* a number, quoted, or as they stood.                                     *)
(*                                                                         *)
(* A text is over one of several small alphabets, so that each kind of     *)
(* token gets long enough texts.  Positions are character positions; line  *)
(* and column are left out.                                                *)
(***************************************************************************)
EXTENDS Integers, SequencesExt, FiniteSetsExt

CONSTANTS
  Alphabets,  \* sets of characters, each with the bound on its texts: [chars, max]
  Keywords,   \* texts of keywords
  Reserved,   \* the reserved prefix of identifiers, _tide_ in the code
  XDigits,    \* hexadecimal digits of \x, 2 in the code
  UDigits,    \* hexadecimal digits of \u, 4 in the code
  MaxInt      \* the greatest int

VARIABLES
  alphabet,   \* the alphabet of the text
  text,       \* its characters
  offset,     \* of the next character
  tokens,     \* records of kind and lexeme
  literals,   \* what the decoded literals are written as
  status      \* "writing", "lexing", "lexed", "parsed", or a diagnostic

vars == <<alphabet, text, offset, tokens, literals, status>>

Digit    == {"0", "1", "2", "3", "4", "5", "6", "7", "8", "9"}
HexDigit == Digit \cup {"a", "b", "c", "d", "e", "f", "A", "B", "C", "D", "E", "F"}
OctDigit == {"0", "1", "2", "3", "4", "5", "6", "7"}
BinDigit == {"0", "1"}
Letter   == (HexDigit \ Digit) \cup {"i", "t", "n", "o", "u", "x", "O", "X", "_"}

MultiCharOps ==
  { <<".", ".", "=">>, <<".", ".", ".">>, <<"+", "=">>, <<"-", "=">>, <<"*", "=">>,
    <<"/", "=">>, <<"%", "=">>, <<".", ".">>, <<"=", "=">>, <<"!", "=">>, <<"<", "=">>,
    <<">", "=">>, <<"&", "&">>, <<"|", "|">>, <<"=", ">">>, <<"-", ">">>, <<"<", "-">> }
PunctChars    == {"(", ")", "{", "}", "[", "]", ".", ",", ";", ":", "@"}
SingleCharOps == {"+", "-", "*", "/", "%", "=", "!", "<", ">", "|"}

-----------------------------------------------------------------------------
(* Scanning.  A scan ends before a position, or with a diagnostic.         *)

At(s, i) == IF i \in DOMAIN s THEN s[i] ELSE "end"
Past(s, i, set) == Min({j \in i..(Len(s) + 1) : At(s, j) \notin set})

Found(kind, to) == [kind |-> kind, to |-> to]
Fault(code) == Found(code, 0)
Diagnostic == {"E0101", "E0102", "E0107", "E0109", "E0110", "E0111"}

\* consumeEscape, of the escape that begins at i.
HexDigits(s, i, n) ==
  IF \A k \in i..(i + n - 1) : At(s, k) \in HexDigit THEN Found("escape", i + n)
                                                    ELSE Fault("E0110")
Escape(s, i) ==
  LET c == At(s, i + 1) IN
  CASE c \in {"n", "t", "r", "\\", "\"", "'", "0"} -> Found("escape", i + 2)
    [] c = "x"   -> HexDigits(s, i + 2, XDigits)
    [] c = "u"   -> HexDigits(s, i + 2, UDigits)
    [] c = "end" -> Fault("E0102")
    [] OTHER     -> Fault("E0110")

RECURSIVE StringBody(_, _)
StringBody(s, i) ==
  CASE At(s, i) \in {"end", "\n", "\r"} -> Fault("E0102")
    [] At(s, i) = "\"" -> Found("StringLit", i + 1)
    [] At(s, i) = "\\" -> LET e == Escape(s, i) IN
                          IF e.kind = "escape" THEN StringBody(s, e.to) ELSE e
    [] OTHER -> StringBody(s, i + 1)

RuneBody(s, i) ==
  LET c == IF At(s, i) = "\\" THEN Escape(s, i) ELSE Found("char", i + 1) IN
  CASE At(s, i) = "end" -> Fault("E0102")
    [] At(s, i) \in {"\n", "\r", "'"} -> Fault("E0111")
    [] c.kind \in Diagnostic -> c
    [] OTHER -> IF At(s, c.to) = "'" THEN Found("RuneLit", c.to + 1) ELSE Fault("E0111")

\* intLitRadix: digits behind a prefix, up to anything a word could go on with.
RadixLit(s, i, digits) ==
  LET to == Past(s, i + 2, Digit \cup Letter)
      body == {s[k] : k \in (i + 2)..(to - 1)}
  IN IF body \subseteq digits \cup {"_"} /\ body \cap digits # {}
       THEN Found("IntLit", to) ELSE Fault("E0109")

\* consumeExponent, and what is in front of it.
WithExponent(s, i, kind) ==
  LET sign == IF At(s, i + 1) \in {"+", "-"} THEN 1 ELSE 0 IN
  CASE At(s, i) \notin {"e", "E"} -> Found(kind, i)
    [] At(s, i + 1 + sign) \in Digit -> Found("FloatLit", Past(s, i + 1 + sign, Digit))
    [] OTHER -> Fault("E0109")

\* Mutant: a point needs no digit behind it.
DecimalLitPoint(s, i) ==
  LET whole == Past(s, i, Digit \cup {"_"}) IN
  IF At(s, whole) = "."
    THEN WithExponent(s, Past(s, whole + 1, Digit \cup {"_"}), "FloatLit")
    ELSE WithExponent(s, whole, "IntLit")
DecimalLit(s, i) ==
  LET whole == Past(s, i, Digit \cup {"_"}) IN
  IF At(s, whole) = "." /\ At(s, whole + 1) \in Digit
    THEN WithExponent(s, Past(s, whole + 1, Digit \cup {"_"}), "FloatLit")
    ELSE WithExponent(s, whole, "IntLit")

NumberLit(s, i) ==
  CASE At(s, i) = "0" /\ At(s, i + 1) \in {"x", "X"} -> RadixLit(s, i, HexDigit)
    [] At(s, i) = "0" /\ At(s, i + 1) \in {"o", "O"} -> RadixLit(s, i, OctDigit)
    [] At(s, i) = "0" /\ At(s, i + 1) \in {"b", "B"} -> RadixLit(s, i, BinDigit)
    [] OTHER -> DecimalLit(s, i)

Word(s, i) ==
  LET to  == Past(s, i, Letter \cup Digit)
      lex == SubSeq(s, i, to - 1)
  IN CASE IsPrefix(Reserved, lex) -> Fault("E0107")
       [] lex \in Keywords        -> Found("Keyword", to)
       [] OTHER                   -> Found("Ident", to)

\* The list is sorted longest first.
OperatorAt(s, i) ==
  LET fits == {Len(op) : op \in {o \in MultiCharOps : IsPrefix(o, SubSeq(s, i, Len(s)))}} IN
  CASE fits # {}                  -> Found("Op", i + Max(fits))
    [] At(s, i) \in SingleCharOps -> Found("Op", i + 1)
    [] At(s, i) \in PunctChars    -> Found("Punct", i + 1)
    [] OTHER                      -> Fault("E0101")

-----------------------------------------------------------------------------
Init ==
  /\ alphabet \in Alphabets
  /\ text = <<>> /\ offset = 1 /\ tokens = <<>> /\ literals = <<>>
  /\ status = "writing"

Type(c) ==
  /\ status = "writing" /\ Len(text) < alphabet.max
  /\ text' = Append(text, c)
  /\ UNCHANGED <<alphabet, offset, tokens, literals, status>>

LexFile ==
  /\ status = "writing" /\ text # <<>>
  /\ status' = "lexing"
  /\ UNCHANGED <<alphabet, text, offset, tokens, literals>>

\* next, one action for each of its branches.
Here(set) == status = "lexing" /\ At(text, offset) \in set

Skip(found) ==
  /\ IF found.kind \in Diagnostic
       THEN status' = found.kind /\ UNCHANGED offset
       ELSE offset' = found.to /\ UNCHANGED status
  /\ UNCHANGED <<alphabet, text, tokens, literals>>

Take(found) ==
  /\ IF found.kind \in Diagnostic
       THEN status' = found.kind /\ UNCHANGED <<offset, tokens>>
       ELSE /\ tokens' = Append(tokens,
                 [kind |-> found.kind, lexeme |-> SubSeq(text, offset, found.to - 1)])
            /\ offset' = found.to /\ UNCHANGED status
  /\ UNCHANGED <<alphabet, text, literals>>

Slashed(c) == At(text, offset) = "/" /\ At(text, offset + 1) = c

Blank   == Here({" ", "\t"}) /\ Skip(Found("blank", offset + 1))
Newline == Here({"\n"}) /\ Take(Found("Newline", offset + 1))

CarriageReturn ==
  /\ Here({"\r"})
  /\ Take(IF At(text, offset + 1) = "\n" THEN Found("Newline", offset + 2)
                                         ELSE Fault("E0101"))

LineComment ==
  /\ Here({"/"}) /\ Slashed("/")
  /\ Skip(Found("comment", Min({j \in offset..(Len(text) + 1) :
                                  At(text, j) \in {"\n", "\r", "end"}})))

BlockComment ==
  /\ Here({"/"}) /\ Slashed("*")
  /\ LET ends == {j \in (offset + 2)..Len(text) :
                    At(text, j) = "*" /\ At(text, j + 1) = "/"}
     IN Skip(IF ends = {} THEN Fault("E0102") ELSE Found("comment", Min(ends) + 2))

Identifier == Here(Letter) /\ Take(Word(text, offset))
Number     == Here(Digit) /\ Take(NumberLit(text, offset))
String     == Here({"\""}) /\ Take(StringBody(text, offset + 1))
Rune       == Here({"'"}) /\ Take(RuneBody(text, offset + 1))

Operator ==
  /\ status = "lexing" /\ offset =< Len(text)
  /\ ~Here({" ", "\t", "\n", "\r", "\"", "'"} \cup Letter \cup Digit)
  /\ ~Slashed("/") /\ ~Slashed("*")
  /\ Take(OperatorAt(text, offset))

EndOfFile ==
  /\ status = "lexing" /\ offset > Len(text)
  /\ tokens' = Append(tokens, [kind |-> "EOF", lexeme |-> <<>>])
  /\ status' = "lexed"
  /\ UNCHANGED <<alphabet, text, offset, literals>>

-----------------------------------------------------------------------------
(* The parser's decoding, and what codegen writes.                         *)

Without(s, set) == SelectSeq(s, LAMBDA c : c \notin set)

DigitValue == [c \in HexDigit |->
  CASE c \in Digit -> CHOOSE n \in 0..9 : ToString(n) = c
    [] c \in {"a", "A"} -> 10 [] c \in {"b", "B"} -> 11 [] c \in {"c", "C"} -> 12
    [] c \in {"d", "D"} -> 13 [] c \in {"e", "E"} -> 14 [] c \in {"f", "F"} -> 15]
Value(digits, base) == FoldLeft(LAMBDA v, c : v * base + DigitValue[c], 0, digits)

\* parseIntLit.
\* Mutant: the base is Go's, for which 011 is octal.
IntValueGo(lexeme) ==
  LET clean == Without(lexeme, {"_"}) IN
  CASE At(clean, 2) \in {"x", "X"} -> Value(SubSeq(clean, 3, Len(clean)), 16)
    [] At(clean, 2) \in {"o", "O"} -> Value(SubSeq(clean, 3, Len(clean)), 8)
    [] At(clean, 2) \in {"b", "B"} -> Value(SubSeq(clean, 3, Len(clean)), 2)
    [] OTHER -> Value(clean, IF clean[1] = "0" THEN 8 ELSE 10)
IntValue(lexeme) ==
  LET clean == Without(lexeme, {"_"}) IN
  CASE At(clean, 2) \in {"x", "X"} -> Value(SubSeq(clean, 3, Len(clean)), 16)
    [] At(clean, 2) \in {"o", "O"} -> Value(SubSeq(clean, 3, Len(clean)), 8)
    [] At(clean, 2) \in {"b", "B"} -> Value(SubSeq(clean, 3, Len(clean)), 2)
    [] OTHER -> Value(clean, 10)

\* Go's underscores are between digits; strconv.ParseFloat has the same rule.
GoFloat(lexeme) ==
  \A i \in DOMAIN lexeme : lexeme[i] = "_" =>
    At(lexeme, i - 1) \in Digit /\ At(lexeme, i + 1) \in Digit

\* A character of a string or rune as a sequence: itself, the name of a control
\* character, or the digits of an escape.
EscapeValue(s, i, to) ==
  CASE s[i + 1] = "n" -> <<"LF">> [] s[i + 1] = "t" -> <<"TAB">> [] s[i + 1] = "r" -> <<"CR">>
    [] s[i + 1] = "0" -> <<"x">> \o [k \in 1..XDigits |-> "0"]
    [] s[i + 1] \in {"x", "u"} -> SubSeq(s, i + 1, to - 1)
    [] OTHER -> <<s[i + 1]>>

\* decodeStringLit: the characters from i to the closing quote.
RECURSIVE StringValue(_, _)
StringValue(s, i) ==
  CASE i = Len(s)  -> <<>>
    [] s[i] = "\\" -> LET to == Escape(s, i).to
                      IN <<EscapeValue(s, i, to)>> \o StringValue(s, to)
    [] OTHER       -> <<(<<s[i]>>)>> \o StringValue(s, i + 1)

\* strconv.Quote.
Quoted(value) ==
  LET written(c) ==
        CASE c = <<"LF">> -> <<"\\", "n">> [] c = <<"TAB">> -> <<"\\", "t">>
          [] c = <<"CR">> -> <<"\\", "r">>
          [] c \in {<<"\"">>, <<"\\">>} \/ Len(c) > 1 -> <<"\\">> \o c
          [] OTHER -> c
  IN <<"\"">> \o FlattenSeq([i \in DOMAIN value |-> written(value[i])]) \o <<"\"">>

\* Go's characters between quotes, as strconv.UnquoteChar reads them: a quote
\* is escaped only where it is the delimiter, and \0 wants three octal digits.
GoEscape(s, i, quote) == At(s, i + 1) \notin ({"\"", "'", "0"} \ {quote})

DecodesRune(lexeme) == lexeme[2] = "\\" => GoEscape(lexeme, 2, "'")

DecodeFault(token) ==
  CASE token.kind = "IntLit"   -> IF IntValue(token.lexeme) > MaxInt THEN {"E0109"} ELSE {}
    [] token.kind = "FloatLit" -> IF GoFloat(token.lexeme) THEN {} ELSE {"E0109"}
    [] token.kind = "RuneLit"  -> IF DecodesRune(token.lexeme) THEN {} ELSE {"E0110"}
    [] OTHER -> {}

RECURSIVE Decimal(_)
Decimal(n) == (IF n < 10 THEN <<>> ELSE Decimal(n \div 10)) \o <<ToString(n % 10)>>

\* emitExpr.
\* Mutant: strings are written as they stood.
WrittenAsRead(token) ==
  CASE token.kind = "IntLit" -> Decimal(IntValue(token.lexeme)) [] OTHER -> token.lexeme
WrittenAs(token) ==
  CASE token.kind = "IntLit"    -> Decimal(IntValue(token.lexeme))
    [] token.kind = "StringLit" -> Quoted(StringValue(token.lexeme, 2))
    [] OTHER                    -> token.lexeme

\* The parser stops at the first literal it cannot decode.
Parse ==
  /\ status = "lexed"
  /\ LET bad == {i \in DOMAIN tokens : DecodeFault(tokens[i]) # {}} IN
       IF bad = {}
         THEN literals' = [i \in DOMAIN tokens |-> WrittenAs(tokens[i])] /\ status' = "parsed"
         ELSE status' \in DecodeFault(tokens[Min(bad)]) /\ UNCHANGED literals
  /\ UNCHANGED <<alphabet, text, offset, tokens>>

Over ==
  /\ status \in Diagnostic \cup {"parsed"}
  /\ UNCHANGED vars

Next ==
  \/ \E c \in alphabet.chars : Type(c)
  \/ LexFile
  \/ Blank \/ Newline \/ CarriageReturn \/ LineComment \/ BlockComment
  \/ Identifier \/ Number \/ String \/ Rune \/ Operator \/ EndOfFile
  \/ Parse \/ Over

Spec == Init /\ [][Next]_vars

-----------------------------------------------------------------------------
(* Properties.                                                             *)

\* Types; what is scanned has been cut into tokens, in order.
TypeOK ==
  /\ alphabet \in Alphabets
  /\ text \in Seq(alphabet.chars) /\ Len(text) =< alphabet.max
  /\ offset \in 1..(Len(text) + 1)
  /\ \A i \in DOMAIN tokens :
       /\ tokens[i].kind \in {"Newline", "Ident", "Keyword", "IntLit", "FloatLit",
                              "StringLit", "RuneLit", "Op", "Punct", "EOF"}
       /\ (tokens[i].lexeme = <<>>) <=> tokens[i].kind = "EOF"
  /\ Len(literals) \in {0, Len(tokens)}
  /\ status \in Diagnostic \cup {"writing", "lexing", "lexed", "parsed"}

(* The lexical part of grammar.ebnf, of a whole sequence of characters.    *)
Of(s, set)  == s # <<>> /\ Range(s) \subseteq set
From(s, i)  == SubSeq(s, i, Len(s))
UpTo(s, i)  == SubSeq(s, 1, i)
RadixOf     == [x |-> HexDigit, o |-> OctDigit, b |-> BinDigit]
IsInt(s) ==
  \/ Of(s, Digit \cup {"_"}) /\ s[1] \in Digit
  \/ /\ Len(s) > 2 /\ s[1] = "0" /\ s[2] \in DOMAIN RadixOf
     /\ s[3] \in RadixOf[s[2]] /\ Of(From(s, 3), RadixOf[s[2]] \cup {"_"})
IsExponent(s) ==
  /\ Len(s) > 1 /\ s[1] \in {"e", "E"}
  /\ Of(From(s, IF s[2] \in {"+", "-"} THEN 3 ELSE 2), Digit)
IsFloat(s) ==
  \E p \in 2..Len(s) :
    /\ Of(UpTo(s, p - 1), Digit)
    /\ \/ IsExponent(From(s, p))
       \/ s[p] = "." /\ \E q \in (p + 1)..Len(s) :
            Of(SubSeq(s, p + 1, q), Digit) /\ (q = Len(s) \/ IsExponent(From(s, q + 1)))
IsNumber(s) == IsInt(s) \/ IsFloat(s)

Escapes(s) ==
  \/ Len(s) = 2 /\ s[2] \in {"n", "t", "r", "\\", "\"", "'", "0"}
  \/ Len(s) = 2 + XDigits /\ s[2] = "x" /\ Of(From(s, 3), HexDigit)
  \/ Len(s) = 2 + UDigits /\ s[2] = "u" /\ Of(From(s, 3), HexDigit)
IsChar(s, quote) ==
  \/ Len(s) = 1 /\ s[1] \notin {"\\", quote, "\n", "\r"}
  \/ s # <<>> /\ s[1] = "\\" /\ Escapes(s)
RECURSIVE IsChars(_, _)
IsChars(s, quote) ==
  s = <<>> \/ \E n \in 1..Len(s) : IsChar(UpTo(s, n), quote) /\ IsChars(From(s, n + 1), quote)
Between(s, quote) == Len(s) > 1 /\ s[1] = quote /\ Last(s) = quote
Inner(s) == SubSeq(s, 2, Len(s) - 1)

IsComment(s) ==
  \/ IsPrefix(<<"/", "/">>, s) /\ Range(s) \cap {"\n", "\r"} = {}
  \/ /\ IsPrefix(<<"/", "*">>, s)
     /\ {n \in 4..Len(s) : SubSeq(s, n - 1, n) = <<"*", "/">>} = {Len(s)}

\* The element of the grammar a sequence is, if any.
IsElement(s) ==
  \/ s \in {<<" ">>, <<"\n">>, <<"\r", "\n">>} \/ IsComment(s)
  \/ Of(s, Letter \cup Digit) /\ s[1] \in Letter
  \/ IsNumber(s)
  \/ Between(s, "\"") /\ IsChars(Inner(s), "\"")
  \/ Between(s, "'") /\ IsChar(Inner(s), "'")
  \/ s \in MultiCharOps
  \/ Len(s) = 1 /\ s[1] \in SingleCharOps \cup PunctChars

Ahead(P(_)) == {j \in offset..Len(text) : P(SubSeq(text, offset, j))}

\* A number without its separators, and with a prefix in lower case.
Lower == [c \in {"X", "O", "B"} |-> CASE c = "X" -> "x" [] c = "O" -> "o" [] c = "B" -> "b"]
Plain(s) ==
  LET t == Without(s, {"_"}) IN
  IF At(t, 2) \in DOMAIN Lower /\ t[1] = "0" THEN [t EXCEPT ![2] = Lower[@]] ELSE t
IsPlainNumber(s) ==
  /\ s[1] \in Digit /\ IsNumber(Plain(s))
  /\ \A i \in DOMAIN s : s[i] \in {"e", "E"} /\ "_" \in Range(From(s, i)) => IsInt(Plain(s))

\* Every call of next takes the longest element of grammar.ebnf, except that
\* numbers are read more liberally (separators also in floats, up to the exponent,
\* and behind a prefix, prefixes in upper case); it fails only where there is none but the /
\* of an open comment, at the reserved prefix, and at a number that runs on as a
\* word or half an exponent.
TakesLongest ==
  LET taken == SubSeq(text, offset, offset' - 1)
      ends  == Ahead(IsElement)
      plain == Ahead(IsPlainNumber)
  IN /\ offset' # offset => \/ offset' - 1 = Max(ends \cup {0}) /\ IsElement(taken)
                            \/ IsPlainNumber(taken) /\ offset' - 1 = Max(plain)
     /\ (status = "lexing" /\ status' \in Diagnostic) =>
          CASE status' = "E0107" -> IsPrefix(Reserved, From(text, offset))
            [] status' = "E0109" -> At(text, Max(plain) + 1) \in Letter \cup Digit
            [] Slashed("*")      -> ends = {offset}
            [] OTHER             -> ends = {}
LexesByGrammar == [][TakesLongest]_vars

\* What a literal means: a number in its base, digits without separators, the
\* characters between quotes.
MeantInt(s) ==
  LET t == Plain(s) IN
  IF Of(t, Digit) THEN Value(t, 10)
  ELSE Value(From(t, 3), [x |-> 16, o |-> 8, b |-> 2][t[2]])

\* What Go reads: 0 before a decimal makes it octal.
GoInt(s) == IF At(s, 2) \in Digit /\ s[1] = "0" THEN Value(s, 8) ELSE Value(s, 10)
RECURSIVE GoChars(_, _, _)
GoChars(s, i, quote) ==
  CASE i = Len(s)  -> TRUE
    [] s[i] = "\\" -> GoEscape(s, i, quote) /\ GoChars(s, Escape(s, i).to, quote)
    [] OTHER       -> GoChars(s, i + 1, quote)

\* Every literal the compiler accepts means the same in the Go code as in the
\* program: no octal from a leading zero, no separator or escape that Go lacks.
LiteralsSurvive ==
  status = "parsed" => \A i \in DOMAIN tokens :
    LET kind == tokens[i].kind
        tide == tokens[i].lexeme
        go   == literals[i]
    IN /\ kind = "IntLit" => GoInt(go) = MeantInt(tide) /\ MeantInt(tide) =< MaxInt
       /\ kind = "FloatLit" => GoFloat(go) /\ Without(go, {"_"}) = Without(tide, {"_"})
       /\ kind = "StringLit" => GoChars(go, 2, "\"") /\ StringValue(go, 2) = StringValue(tide, 2)
       /\ kind = "RuneLit" => GoChars(go, 2, "'") /\ StringValue(go, 2) = StringValue(tide, 2)

\* "Use one of the v1 escapes": only a malformed escape is E0110.  The code's
\* is not: a rune is decoded by Go's rules, which have no \0 and no \".
OnlyMalformedEscapes == status = "E0110" => tokens = <<>> \/ Last(tokens).kind # "EOF"
=============================================================================
