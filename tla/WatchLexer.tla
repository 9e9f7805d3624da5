----------------------------- MODULE WatchLexer -----------------------------
(* The lexer of watch expressions, on texts typed one character at a time,    *)
(* and the quoting of names of variables put into them.  Characters that the  *)
(* lexer treats alike are represented by one: the letters are "a", "b", "e",  *)
(* "p" and "x", the quotes "bq" (of identifiers), "dq" (of strings) and "sq"  *)
(* (of characters), "esc" is the backslash.  A number has Word different      *)
(* values.  The value of a float is left out.                                 *)
EXTENDS Integers, Sequences

CONSTANTS
    Word,           \* number of values of usize
    Alphabets       \* <<set of characters, bound on the length of a text>>

VARIABLES alphabet, text

lexerVars == <<alphabet, text>>

Digits(radix) == IF radix = 2 THEN {"0", "1"}
                 ELSE IF radix = 10 THEN {"0", "1", "9"} ELSE {"0", "1", "9", "a", "b", "e"}
ToDigit(c) == CASE c = "0" -> 0 [] c = "1" -> 1 [] c = "9" -> 9 [] c = "a" -> 10 [] c = "b" -> 11 [] c = "e" -> 14
Letters == {"a", "b", "e", "p", "x"}
OpChars == {"<", "=", ">", "-", ".", "&", "!"}

At(s, p) == IF p > Len(s) THEN "eof" ELSE s[p]
\* The first position from p on whose character is not in set.
Skip(s, p, set) == CHOOSE q \in p..(Len(s) + 1) : At(s, q) \notin set /\ \A i \in p..(q - 1) : s[i] \in set
Token(k, from, to, v) == [k |-> k, from |-> from, to |-> to, v |-> v]
Bad == Token("error", 0, 0, <<>>)

\* Ends of operators: eat_if_eq after the first character.
OpEnd(s, p) ==
    LET c == s[p]
        d == At(s, p + 1)
    IN  IF c = "-" /\ d = ">" THEN p + 2
        ELSE IF c \in {"<", ">"} /\ d = c THEN IF At(s, p + 2) = "=" THEN p + 3 ELSE p + 2
        ELSE IF c # "." /\ d = "=" THEN p + 2
        ELSE IF c \in {"&", "."} /\ d = c THEN p + 2
        ELSE p + 1

\* Mutant: the digits wrap around.
MutantValue(digits, radix) ==
    LET F[i \in 0..Len(digits)] == IF i = 0 THEN 0 ELSE (F[i - 1] * radix + ToDigit(digits[i])) % Word
    IN  F[Len(digits)]

\* The number of the digits, -1 if a checked operation overflows.
Value(digits, radix) ==
    LET F[i \in 0..Len(digits)] ==
            IF i = 0 THEN 0
            ELSE IF F[i - 1] = -1 \/ F[i - 1] * radix >= Word THEN -1
            ELSE IF F[i - 1] * radix + ToDigit(digits[i]) >= Word THEN -1
            ELSE F[i - 1] * radix + ToDigit(digits[i])
    IN  F[Len(digits)]

\* A number in its parts: the prefix and the digits up to b, a fraction up to c, an
\* exponent, and what must not follow.
NumberEnd(s, p, previousDot, range, float, value, to) ==
    IF At(s, to) \in Letters \cup Digits(10) \/ (At(s, to) = "." /\ ~previousDot /\ ~range) THEN Bad
    ELSE IF float THEN Token("float", p, to, <<>>)
    ELSE IF value = -1 THEN Bad ELSE Token("int", p, to, <<value>>)

Exponent(s, p, previousDot, range, dot, value, c) ==
    IF (~previousDot /\ At(s, c) = "e") \/ At(s, c) = "p"
    THEN NumberEnd(s, p, previousDot, range, TRUE, value,
                   Skip(s, IF At(s, c + 1) = "-" THEN c + 2 ELSE c + 1, Digits(10)))
    ELSE NumberEnd(s, p, previousDot, range, dot, value, c)

Fraction(s, p, previousDot, radix, start, b) ==
    LET value == Value(SubSeq(s, start, b - 1), radix)
    IN  IF previousDot \/ At(s, b) # "." THEN Exponent(s, p, previousDot, FALSE, FALSE, value, b)
        ELSE IF At(s, b + 1) = "." THEN Exponent(s, p, previousDot, TRUE, FALSE, value, b)    \* "0..10"
        ELSE Exponent(s, p, previousDot, FALSE, TRUE, value, Skip(s, b + 1, Digits(radix)))

Number(s, p, previousDot) ==
    LET a == Skip(s, p, Digits(10))
    IN  IF a = p + 1 /\ s[p] = "0" /\ At(s, a) = "x"
        THEN Fraction(s, p, previousDot, 16, a + 1, Skip(s, a + 1, Digits(16)))
        ELSE IF a = p + 1 /\ s[p] = "0" /\ At(s, a) = "b"
        THEN Fraction(s, p, previousDot, 2, a + 1, Skip(s, a + 1, Digits(2)))
        ELSE Fraction(s, p, previousDot, 10, p, a)

\* An identifier goes on over letters, digits and pairs of colons.
RECURSIVE IdentEnd(_, _)
IdentEnd(s, p) ==
    IF At(s, p) \in Letters \cup Digits(10) THEN IdentEnd(s, p + 1)
    ELSE IF At(s, p) = ":" /\ At(s, p + 1) = ":" THEN IdentEnd(s, p + 2)
    ELSE p

\* The characters of a quoted text and the position after it; -1 without an end.
RECURSIVE Quoted(_, _, _, _)
Quoted(s, p, quote, chars) ==
    IF p > Len(s) THEN [to |-> -1, v |-> chars]
    ELSE IF s[p] = quote THEN [to |-> p + 1, v |-> chars]
    ELSE IF s[p] # "esc" THEN Quoted(s, p + 1, quote, Append(chars, s[p]))
    ELSE IF p = Len(s) THEN [to |-> -1, v |-> chars]                 \* parse_char_escape_sequence
    ELSE IF s[p + 1] # "x" THEN Quoted(s, p + 2, quote, Append(chars, s[p + 1]))
    ELSE IF p + 3 > Len(s) \/ {At(s, p + 2), At(s, p + 3)} \ Digits(16) # {} THEN [to |-> -1, v |-> chars]
    ELSE Quoted(s, p + 4, quote, Append(chars, "byte"))

NextToken(s, p, previousDot) ==
    LET c == s[p] IN
    IF c \in Digits(10) THEN Number(s, p, previousDot)
    ELSE IF c \in {"bq", "dq", "sq"}
    THEN LET r == Quoted(s, p + 1, c, <<>>)
         IN  IF r.to = -1 \/ (c = "sq" /\ Len(r.v) # 1) THEN Bad
             ELSE Token(CASE c = "bq" -> "ident" [] c = "dq" -> "string" [] c = "sq" -> "char", p, r.to, r.v)
    ELSE IF c \in Letters \/ (c = ":" /\ At(s, p + 1) = ":")
    THEN Token("ident", p, IdentEnd(s, p), SubSeq(s, p, IdentEnd(s, p) - 1))
    ELSE IF c \in OpChars THEN Token("op", p, OpEnd(s, p), SubSeq(s, p, OpEnd(s, p) - 1))
    ELSE IF c \in {":", "("} THEN Token("op", p, p + 1, <<c>>)
    ELSE Bad

\* Lexer::peek and eat, to the end of the text.
RECURSIVE Lex(_, _, _)
Lex(s, p, previousDot) ==
    IF p > Len(s) THEN <<>>
    ELSE IF s[p] = " " THEN Lex(s, p + 1, FALSE)
    ELSE LET t == NextToken(s, p, previousDot)
         IN  IF t = Bad THEN <<Bad>>
             ELSE <<t>> \o Lex(s, t.to, t.k = "op" /\ t.v = <<".">>)

\* should_quote_identifier and make_expression_for_variable; "ax" is a register.
ShouldQuote(name) ==
    name = <<>> \/ name[1] \in Digits(10) \/ \E i \in 1..Len(name) : name[i] \notin Letters \cup Digits(10) \cup {":"}
MakeExpressionForVariable(name) ==
    IF name = <<"a", "x">> \/ ShouldQuote(name) THEN <<"bq">> \o name \o <<"bq">> ELSE name

\* The user types another character.
TypeChar ==
    /\ Len(text) < alphabet[2]
    /\ \E c \in alphabet[1] : text' = Append(text, c)
    /\ UNCHANGED alphabet

Init == alphabet \in Alphabets /\ text = <<>>
LexerNext == TypeChar
-----------------------------------------------------------------------------
(* Properties.                                                                *)

\* The operators of the language, as BinaryOperator lists them.
Operators == {<<"<">>, <<"<", "=">>, <<"<", "<">>, <<"<", "<", "=">>, <<">">>, <<">", "=">>, <<">", ">">>,
              <<">", ">", "=">>, <<"=">>, <<"=", "=">>, <<"-">>, <<"-", "=">>, <<"-", ">">>, <<"&">>,
              <<"&", "=">>, <<"&", "&">>, <<"!">>, <<"!", "=">>, <<".">>, <<".", ".">>}

Parts(ts) == [i \in 1..Len(ts) |-> <<ts[i].k, ts[i].v>>]
RECURSIVE Spaced(_, _)
Spaced(s, ts) == IF ts = <<>> THEN <<>>
                 ELSE SubSeq(s, Head(ts).from, Head(ts).to - 1) \o <<" ">> \o Spaced(s, Tail(ts))

\* The exact value of digits, from the last one on.
RECURSIVE Exact(_, _)
Exact(digits, radix) == IF digits = <<>> THEN 0
                        ELSE ToDigit(digits[Len(digits)]) + radix * Exact(SubSeq(digits, 1, Len(digits) - 1), radix)
DecimalText == text # <<>> /\ \A i \in 1..Len(text) : text[i] \in Digits(10)
HexText == Len(text) > 2 /\ text[1] = "0" /\ text[2] = "x" /\ \A i \in 3..Len(text) : text[i] \in Digits(16)
LoneColon == \E i \in 1..Len(text) : text[i] = ":" /\ IdentEnd(text, 1) = i

\* For the tokens of the text, and of the text as the name of a variable.
LexedRight(ts, name) ==
    /\ (\A i \in 1..Len(ts) : ts[i] # Bad) => Parts(Lex(Spaced(text, ts), 1, FALSE)) = Parts(ts)
    /\ \A i \in 1..Len(ts) : ts[i].k = "op" /\ ts[i].v[1] \in OpChars =>
          /\ ts[i].v \in Operators
          /\ \A last \in ts[i].to..Len(text) : SubSeq(text, ts[i].from, last) \notin Operators
    /\ DecimalText \/ HexText =>
          LET numeral == IF HexText THEN Exact(SubSeq(text, 3, Len(text)), 16) ELSE Exact(text, 10)
          IN  IF numeral < Word THEN Parts(ts) = <<<<"int", <<numeral>>>>>> ELSE ts = <<Bad>>
    /\ (~LoneColon /\ \A i \in 1..Len(text) : text[i] \notin {"esc", "bq"}) => Parts(name) = <<<<"ident", text>>>>

\* The tokens of a text stay the same when they are set apart by spaces, so that
\* none ends where another reading would go on ("s.1.1", "0..10"); an operator is
\* the longest one that fits; an integer has its exact value, or is refused when
\* it has none; and the name of a variable, quoted if necessary, is read back as
\* that name (names with a lone colon, a backslash or a backquote excepted).
LexerRight == LexedRight(Lex(text, 1, FALSE), Lex(MakeExpressionForVariable(text), 1, FALSE))
=============================================================================
