--------------------------- MODULE TableReference ---------------------------
(* What TableLoader is compared with: the grammar of JSON, and the table that  *)
(* plain rows are to give.                                                     *)
EXTENDS TableLoader

(* A reference for the grammar: where the texts that begin at i, or at a      *)
(* position in S, and belong to a nonterminal of RFC 8259 may end.            *)

Many(t, S, C) == UNION {{j \in i..(Len(t) + 1) : \A k \in i..(j - 1) : t[k] \in C} : i \in S}
One(t, S, C) == {i + 1 : i \in {k \in S : get(t, k) \in C}}
Sign(t, S, c) == Many(t, One(t, Many(t, S, Blank), {c}), Blank)

GNumber(t, i) ==
    LET minus == {i} \cup One(t, {i}, {"-"})
        whole == One(t, minus, {"0"}) \cup Many(t, One(t, minus, Digits \ {"0"}), Digits)
        frac  == whole \cup Many(t, One(t, One(t, whole, {"."}), Digits), Digits)
        exp   == One(t, frac, {"e"})
    IN  frac \cup Many(t, One(t, exp \cup One(t, exp, {"+", "-"}), Digits), Digits)

RECURSIVE GChars(_, _)
GChars(t, i) ==
    CASE get(t, i) \in {EOF, "LF", "NUL"} -> {}
      [] get(t, i) = QUOTE                -> {i + 1}
      [] get(t, i) = BACKSLASH            -> IF get(t, i + 1) \in Escapes THEN GChars(t, i + 2)
                                             ELSE {}
      [] OTHER                            -> GChars(t, i + 1)
GString(t, i) == IF get(t, i) = QUOTE THEN GChars(t, i + 1) ELSE {}

RECURSIVE GValue(_, _)
RECURSIVE GMembers(_, _, _)
GValue(t, i) ==
    One(t, {i}, {"t", "f", "n"}) \cup GNumber(t, i) \cup GString(t, i)
    \cup UNION {LET open == Sign(t, {i}, IF named THEN "{" ELSE "[")
                IN  One(t, open \cup UNION {GMembers(t, k, named) : k \in open},
                        {IF named THEN "}" ELSE "]"}) : named \in BOOLEAN}
GMembers(t, i, named) ==
    UNION {UNION {{j} \cup UNION {GMembers(t, m, named) : m \in Sign(t, {j}, ",")}
                    : j \in Many(t, GValue(t, k), Blank)}
             : k \in IF named THEN Sign(t, GString(t, i), ":") ELSE {i}}

JsonTexts(t, i) == UNION {Many(t, GValue(t, k), Blank) : k \in Many(t, {i}, Blank)}

\* What the parser takes for a text: it passes over one byte order mark (RFC
\* 8259, 8.1 allows that), and a byte 0 behind the value ends the text for it,
\* whatever follows.
Accepted(t) == \E i \in {1} \cup One(t, {1}, {"BOM"}) :
                   \E j \in JsonTexts(t, i) : get(t, j) \in {EOF, "NUL"}

-----------------------------------------------------------------------------
(* A reference for the rows: those that come through both parsers unharmed.   *)

PlainText(s) == Range(s) \cap {QUOTE, BACKSLASH, "LF"} = {}
RECURSIVE Harmless(_)
Harmless(j) == CASE j[1] = "obj"   -> FALSE
                 [] j[1] = "arr"   -> \A i \in DOMAIN j[2] : Harmless(j[2][i])
                 [] j[1] = "str"   -> PlainText(j[2])
                 [] j[1] = "int"   -> j[2] < LongHalf
                 [] j[1] = "float" -> Len(j[2].digits) <= 1 \/ j[2].point >= MinPoint
                 [] OTHER          -> TRUE
IsInt(j) == j[1] = "int" /\ j[2] \in IntRange
Plain(row) ==
    /\ row[1] = "obj" /\ <<"I">> \in DOMAIN row[2]
    /\ \A name \in DOMAIN row[2] :
          LET j == row[2][name]
          IN  /\ PlainText(name)
              /\ \/ name = <<"I">> /\ IsInt(j)
                 \/ name = <<"S">> /\ j[1] = "str" /\ PlainText(j[2])
                 \/ name = <<"B">> /\ j[1] = "bool"
                 \/ name = <<"A">> /\ j[1] = "arr" /\ \A i \in DOMAIN j[2] : IsInt(j[2][i])
                 \/ name \in Members \ {<<"I">>} /\ j[1] = "null"
                 \/ name \notin Members /\ Harmless(j)

(* The rows that the second parser reads as they were meant, whatever the     *)
(* types and sizes of their values: no text with an escape, no object, no     *)
(* float written without a point where an int is to be, and in ArrValue no    *)
(* array and no null.                                                         *)

RECURSIVE Legible(_)
Legible(j) == CASE j[1] = "obj" -> FALSE
                [] j[1] = "arr" -> \A i \in DOMAIN j[2] : Legible(j[2][i])
                [] j[1] = "str" -> PlainText(j[2])
                [] OTHER        -> TRUE
Pointless(j) == j[1] = "float" /\ Len(j[2].digits) = 1 /\ j[2].point \notin (kMinExp + 1)..kMaxExp
LegibleRow(row) ==
    \A name \in DOMAIN row[2] :
        LET j == row[2][name]
        IN  /\ PlainText(name) /\ Legible(j)
            /\ name = <<"I">> => ~Pointless(j)
            /\ name = <<"A">> /\ j[1] = "arr" =>
                   \A i \in DOMAIN j[2] : j[2][i][1] \notin {"arr", "null"} /\ ~Pointless(j[2][i])

\* What is left out without a word: an ID that is 0 as an int.
Omitted(row) ==
    LET j == row[2][<<"I">>]
    IN  \/ j[1] = "int" /\ j[2] % (2 * IntHalf) = 0
        \/ j[1] = "float" /\ j[2].point <= 0
        \/ j = <<"bool", FALSE>>

Content(j) == IF j[1] = "arr" THEN [i \in DOMAIN j[2] |-> j[2][i][2]] ELSE j[2]
AsData(row) == [m \in DOMAIN MyData |->
    IF <<m>> \in DOMAIN row[2] /\ row[2][<<m>>][1] # "null" THEN Content(row[2][<<m>>])
    ELSE MyData[m]]

\* The table after the rows done: of the rows with an ID the first.
TableOf(done) ==
    LET data == [i \in DOMAIN done |-> AsData(done[i])]
    IN  [id \in {data[i].I : i \in DOMAIN data} |->
            data[CHOOSE i \in DOMAIN data :
                    data[i].I = id /\ \A k \in 1..(i - 1) : data[k].I # id]]

-----------------------------------------------------------------------------
(* Properties.                                                                *)

\* sax_parse_internal accepts exactly the texts of the JSON grammar, except for
\* numbers beyond the range of a double, and with the two liberties the lexer
\* takes (json.hpp:8813 a byte order mark, :8887 a byte 0 for the end); the
\* automaton of the lexer, the stack of states and the strict end of input work
\* together for it.
ParsesTheGrammar ==
    Parsed => IF root # Discarded THEN Accepted(file.text)
              ELSE token.t = "overflow" \/ ~Accepted(file.text)

\* An exception, and undefined behaviour, are met at a row that is not plain
\* only (tableManager.cpp:22-37): members MyData does not know, of any type but
\* an object, do not fail the load.
PlainRowsLoad ==
    root # Discarded /\ pc \in {"failed", "undefined"} => ~Plain(rows[1])

\* No legible row is loaded wrong, whatever the types and sizes of its values:
\* it is loaded exactly as it was written, in the order of the file and the first
\* of two with the same ID; or it is omitted; or it ends the load, and the table
\* keeps the rows before it (tableManager.cpp:28-37, 49).
NoRowLoadsWrong ==
    root # Discarded /\ pc \notin {"value", "evaluate"} =>
        LET all  == Rows(root)
            done == SubSeq(all, 1, Len(all) - Len(rows))
        IN  (\A i \in DOMAIN done : LegibleRow(done[i])) =>
                table = TableOf(SelectSeq(done, LAMBDA row : ~Omitted(row)))
=============================================================================
