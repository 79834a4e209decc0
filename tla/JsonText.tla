------------------------------ MODULE JsonText ------------------------------
(* The text side of nlohmann::json as TableManager uses it: the lexer, and    *)
(* the serializer without indentation.                                        *)
(*                                                                            *)
(* A text is a sequence of characters, a character a string of length one;    *)
(* "t", "f" and "n" stand for the literals true, false and null as a whole,   *)
(* "LF" for a newline (and every control character with an escape of its      *)
(* own), "NUL" for the byte 0 and "BOM" for the three bytes of a byte order   *)
(* mark; one or two of these bytes alone are like any other character.        *)
(* Unicode escapes and the validity of UTF-8 are left out.                    *)
(*                                                                            *)
(* A value is a pair of its kind and its content: <<"bool", b>>, <<"null",    *)
(* 0>>, <<"int", n>>, <<"str", text>>, <<"arr", sequence of values>>, <<"obj",*)
(* function from texts to values>>, and <<"float", [neg, digits, point]>> for *)
(* 0.d1d2d3... * 10^point, with neither leading nor trailing zeros.  Floats   *)
(* are exact; the limits of a double are those of its point.                  *)
EXTENDS Integers, Sequences, SequencesExt, Functions

CONSTANTS LongHalf,   \* a 64-bit integer is in -LongHalf..LongHalf-1; 2^63 in the program
          MaxPoint,   \* the largest point of a finite double; 309 in the program
          MinPoint,   \* the smallest point of a normal double; -307
          TinyPoint,  \* the smallest point of a double other than 0; -323
          kMaxExp,    \* up to this many digits a float is written without exponent; 15
          Names       \* the names of members that occur in rows, in their order

ASSUME TextAssumption ==
    /\ {LongHalf, MaxPoint, kMaxExp} \subseteq Nat \ {0}
    /\ kMaxExp <= MaxPoint
    /\ {MinPoint, TinyPoint} \subseteq Int /\ TinyPoint <= MinPoint /\ MinPoint <= 0
    /\ Names \in Seq(Seq(STRING))

QUOTE == "\""
BACKSLASH == "\\"
EOF == "EOF"

DigitChars == <<"0", "1", "2", "3", "4", "5", "6", "7", "8", "9">>
Digits == Range(DigitChars)
ValueOf(c) == SelectInSeq(DigitChars, LAMBDA d : d = c) - 1

\* What a sequence of digits stands for, and the digits of a number.
Decimal(digits) ==
    LET n[k \in 0..Len(digits)] == IF k = 0 THEN 0 ELSE 10 * n[k - 1] + ValueOf(digits[k])
    IN  n[Len(digits)]
DigitsOf(n) ==
    LET rest[k \in 0..n] == IF k = 0 THEN n ELSE rest[k - 1] \div 10
        last == CHOOSE k \in 0..n : rest[k] < 10 /\ \A j \in 0..(k - 1) : rest[j] >= 10
    IN  [i \in 1..(last + 1) |-> DigitChars[(rest[last + 1 - i] % 10) + 1]]

\* The elements of s that are in S.
Keep(s, S) == FlattenSeq([i \in DOMAIN s |-> IF s[i] \in S THEN <<s[i]>> ELSE <<>>])

get(text, i) == IF i <= Len(text) THEN text[i] ELSE EOF

-----------------------------------------------------------------------------
(* The lexer.                                                                 *)

Token(t, v, next) == [t |-> t, v |-> v, next |-> next]
ParseError(i) == Token("parse_error", <<"null", 0>>, i + 1)

\* scan_number: where the automaton goes from a label with a character.
goto_mutant(label, c) ==
    [init     |-> CASE c = "-" -> "minus" [] OTHER -> "any1",
     minus    |-> IF c \in Digits THEN "any1" ELSE "error",
     zero     |-> "done",
     any1     |-> CASE c \in Digits -> "any1" [] c = "." -> "decimal1" [] c = "e" -> "exponent"
                    [] OTHER -> "done",
     decimal1 |-> IF c \in Digits THEN "decimal2" ELSE "error",
     decimal2 |-> CASE c \in Digits -> "decimal2" [] c = "e" -> "exponent" [] OTHER -> "done",
     exponent |-> CASE c \in Digits -> "any2" [] c \in {"+", "-"} -> "sign" [] OTHER -> "error",
     sign     |-> IF c \in Digits THEN "any2" ELSE "error",
     any2     |-> IF c \in Digits THEN "any2" ELSE "done",
     done     |-> "done",
     error    |-> "error"][label]
goto(label, c) ==
    [init     |-> CASE c = "-" -> "minus" [] c = "0" -> "zero" [] OTHER -> "any1",
     minus    |-> CASE c = "0" -> "zero" [] c \in Digits \ {"0"} -> "any1" [] OTHER -> "error",
     zero     |-> CASE c = "." -> "decimal1" [] c = "e" -> "exponent" [] OTHER -> "done",
     any1     |-> CASE c \in Digits -> "any1" [] c = "." -> "decimal1" [] c = "e" -> "exponent"
                    [] OTHER -> "done",
     decimal1 |-> IF c \in Digits THEN "decimal2" ELSE "error",
     decimal2 |-> CASE c \in Digits -> "decimal2" [] c = "e" -> "exponent" [] OTHER -> "done",
     exponent |-> CASE c \in Digits -> "any2" [] c \in {"+", "-"} -> "sign" [] OTHER -> "error",
     sign     |-> IF c \in Digits THEN "any2" ELSE "error",
     any2     |-> IF c \in Digits THEN "any2" ELSE "done",
     done     |-> "done",
     error    |-> "error"][label]

\* The automaton from character i on: how it ends and behind which character.
RunNumber(text, i) ==
    LET label[k \in i..(Len(text) + 2)] ==
            IF k = i THEN "init" ELSE goto(label[k - 1], get(text, k - 1))
        Stops(k) == label[k] \in {"done", "error"}
        stop == CHOOSE k \in i..(Len(text) + 2) : Stops(k) /\ \A j \in i..(k - 1) : ~Stops(j)
    IN  [end |-> label[stop], at |-> stop - 1]

\* The value of a floating-point literal, with the point put before the first
\* digit that is not 0.
Trim(digits) == SelectInSeq(digits, LAMBDA c : c # "0")
Float(neg, digits, point) ==
    LET first == Trim(digits)
        last  == Len(digits) + 1 - Trim(Reverse(digits))
    IN  IF first = 0 THEN [neg |-> neg, digits |-> <<>>, point |-> 0]
        ELSE [neg |-> neg, digits |-> SubSeq(digits, first, last), point |-> point - first + 1]

strtof(s) ==
    LET e     == SelectInSeq(s, LAMBDA c : c = "e")
        mant  == Keep(IF e = 0 THEN s ELSE SubSeq(s, 1, e - 1), Digits \cup {"."})
        dot   == SelectInSeq(mant, LAMBDA c : c = ".")
        power == IF e = 0 THEN <<>> ELSE SubSeq(s, e + 1, Len(s))
        exp   == Decimal(Keep(power, Digits))
    IN  Float(s[1] = "-", Keep(mant, Digits),
              (IF dot = 0 THEN Len(mant) ELSE dot - 1)
                  + (IF power # <<>> /\ power[1] = "-" THEN -exp ELSE exp))

\* What strtof returns below the range of a double.
Flushed(f) == IF f.point < TinyPoint THEN [neg |-> f.neg, digits |-> <<>>, point |-> 0] ELSE f

\* An integer that does not fit 64 bits becomes a float.
scan_number(text, i) ==
    LET run == RunNumber(text, i)
        s   == SubSeq(text, i, run.at - 1)
        n   == IF s[1] = "-" THEN -Decimal(Tail(s)) ELSE Decimal(s)
    IN  IF run.end = "error" THEN ParseError(run.at)
        ELSE IF Range(s) \cap {".", "e"} = {} /\ -LongHalf <= n /\ n < 2 * LongHalf
             THEN Token("value", <<"int", n>>, run.at)
             ELSE Token(IF strtof(s).point > MaxPoint THEN "overflow" ELSE "value",
                        <<"float", Flushed(strtof(s))>>, run.at)

\* scan_string, from behind the opening quote: it ends at a character that has
\* to be escaped and is not, or at one that cannot be.
Escapes == {QUOTE, BACKSLASH, "n"}
scan_string(text, i) ==
    LET escaped[k \in i..(Len(text) + 1)] ==
            k > i /\ get(text, k - 1) = BACKSLASH /\ ~escaped[k - 1]
        Stops(k) == IF escaped[k] THEN get(text, k) \notin Escapes
                    ELSE get(text, k) \in {QUOTE, EOF, "LF", "NUL"}
        stop == CHOOSE k \in i..(Len(text) + 1) : Stops(k) /\ \A j \in i..(k - 1) : ~Stops(j)
        Unescaped(k) == IF escaped[k] /\ text[k] = "n" THEN <<"LF">>
                        ELSE IF escaped[k] \/ text[k] # BACKSLASH THEN <<text[k]>> ELSE <<>>
    IN  IF get(text, stop) = QUOTE
        THEN Token("value", <<"str", FlattenSeq([k \in 1..(stop - i) |-> Unescaped(i + k - 1)])>>,
                   stop + 1)
        ELSE ParseError(IF escaped[stop] THEN stop - 1 ELSE stop)

\* skip_whitespace: the first character from i on that is not blank.
Blank == {" ", "LF"}
skip_whitespace(text, i) ==
    CHOOSE k \in i..(i + Len(text)) :
        get(text, k) \notin Blank /\ \A j \in i..(k - 1) : get(text, j) \in Blank

\* skip_bom, called before the first character is read: where to go on.
skip_bom(text, from) == IF from = 1 /\ get(text, 1) = "BOM" THEN 2 ELSE from

\* A byte 0 is taken for the end of the input, wherever it is.
Structural == {"[", "]", "{", "}", ":", ","}
scan(text, from) ==
    LET i == skip_whitespace(text, skip_bom(text, from))
        c == get(text, i)
    IN  CASE c \in Structural       -> Token(c, <<"null", 0>>, i + 1)
          [] c \in {"t", "f"}       -> Token("value", <<"bool", c = "t">>, i + 1)
          [] c = "n"                -> Token("value", <<"null", 0>>, i + 1)
          [] c = QUOTE              -> scan_string(text, i + 1)
          [] c \in Digits \cup {"-"} -> scan_number(text, i)
          [] c \in {EOF, "NUL"}     -> Token("end_of_input", <<"null", 0>>, i + 1)
          [] OTHER                  -> ParseError(i)

-----------------------------------------------------------------------------
(* The serializer.                                                            *)

dump_escaped_mutant(s) == FlattenSeq([i \in DOMAIN s |->
    CASE s[i] = QUOTE -> <<BACKSLASH, s[i]>>
      [] s[i] = "LF"  -> <<BACKSLASH, "n">>
      [] OTHER        -> <<s[i]>>])
dump_escaped(s) == FlattenSeq([i \in DOMAIN s |->
    CASE s[i] \in {QUOTE, BACKSLASH} -> <<BACKSLASH, s[i]>>
      [] s[i] = "LF"                 -> <<BACKSLASH, "n">>
      [] OTHER                       -> <<s[i]>>])

dump_integer(n) == IF n < 0 THEN <<"-">> \o DigitsOf(-n) ELSE DigitsOf(n)

\* to_chars and format_buffer: fixed notation within 10^-4..10^kMaxExp, else an
\* exponent of at least two digits, and no decimal point behind a single digit.
kMinExp == -4
append_exponent(e) ==
    LET k == IF e < 0 THEN -e ELSE e
    IN  <<IF e < 0 THEN "-" ELSE "+">> \o (IF k < 10 THEN <<"0">> ELSE <<>>) \o DigitsOf(k)
format_buffer(digits, n) ==
    LET k     == Len(digits)
        zeros(m) == [i \in 1..m |-> "0"]
    IN  CASE k <= n /\ n <= kMaxExp     -> digits \o zeros(n - k) \o <<".", "0">>
          [] 0 < n /\ n < k /\ n <= kMaxExp ->
                SubSeq(digits, 1, n) \o <<".">> \o SubSeq(digits, n + 1, k)
          [] kMinExp < n /\ n <= 0      -> <<"0", ".">> \o zeros(-n) \o digits
          [] OTHER -> <<digits[1]>> \o (IF k = 1 THEN <<>> ELSE <<".">> \o Tail(digits))
                                    \o <<"e">> \o append_exponent(n - 1)
dump_float(f) ==
    (IF f.neg THEN <<"-">> ELSE <<>>)
    \o (IF f.digits = <<>> THEN <<"0", ".", "0">> ELSE format_buffer(f.digits, f.point))

\* A std::map is traversed in the order of its keys.
KeysOf(f) == Keep(Names, DOMAIN f)

\* dump, one level of the nested calls after the other: a value is written as
\* text and, in their places, the values in it.
Text(s) == <<"text", s>>
quoted(s) == <<QUOTE>> \o dump_escaped(s) \o <<QUOTE>>
Comma(i) == IF i = 1 THEN <<>> ELSE <<",">>
Pieces(v) ==
    LET keys == KeysOf(v[2])
    IN  CASE v[1] = "obj"   -> <<Text(<<"{">>)>>
                                 \o FlattenSeq([i \in DOMAIN keys |->
                                       <<Text(Comma(i) \o quoted(keys[i]) \o <<":">>), v[2][keys[i]]>>])
                                 \o <<Text(<<"}">>)>>
          [] v[1] = "arr"   -> <<Text(<<"[">>)>>
                                 \o FlattenSeq([i \in DOMAIN v[2] |-> <<Text(Comma(i)), v[2][i]>>])
                                 \o <<Text(<<"]">>)>>
          [] v[1] = "str"   -> <<Text(quoted(v[2]))>>
          [] v[1] = "bool"  -> <<Text(<<IF v[2] THEN "t" ELSE "f">>)>>
          [] v[1] = "int"   -> <<Text(dump_integer(v[2]))>>
          [] v[1] = "float" -> <<Text(dump_float(v[2]))>>
          [] v[1] = "null"  -> <<Text(<<"n">>)>>
          [] v[1] = "text"  -> <<v>>
Unfold(pieces) ==   \* until only text is left
    IF \A i \in DOMAIN pieces : pieces[i][1] = "text" THEN pieces
    ELSE FlattenSeq([i \in DOMAIN pieces |-> Pieces(pieces[i])])
dump(v, depth) ==
    LET level[n \in 0..depth] == IF n = 0 THEN <<v>> ELSE Unfold(level[n - 1])
        pieces == level[depth]
    IN  FlattenSeq([i \in DOMAIN pieces |-> pieces[i][2]])
=============================================================================
