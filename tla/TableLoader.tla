---------------------------- MODULE TableLoader ----------------------------
(* TableManager::loadTables: the text of MyDataTable.json is parsed by         *)
(* nlohmann::json (sax_parse_internal feeding json_sax_dom_parser); every row  *)
(* is written out again, its ID is read from the parsed value, and the rest is *)
(* read from the written text by the parser of struct_mapping, one callback    *)
(* after the other.                                                            *)
(*                                                                             *)
(* A member's name is abstracted to its first letter: ID is I, StrValue S,     *)
(* BooleanValue B and ArrValue A; every other name is unknown to MyData.       *)
EXTENDS JsonText

CONSTANTS IntHalf,    \* an int is in -IntHalf..IntHalf-1; 2^31 in the program
          Files       \* the files to load: [text, doc], doc the value the text was
                      \* written from, Discarded for a text written by hand

ASSUME LoaderAssumption ==
    /\ IntHalf \in Nat \ {0, 1} /\ IntHalf <= LongHalf
    /\ \A f \in Files : f.text \in Seq(STRING)

VARIABLES file,       \* the file
          pc,         \* what is going on
          token,      \* parser::last_token and where the lexer stands
          states,     \* the arrays and objects being parsed, outermost first
          root,       \* the parsed value
          rows,       \* the rows loadTable has not finished with
          rowString,  \* the current row written out
          ID,         \* the current row's ID
          at,         \* where struct_mapping's parser stands in rowString
          nest,       \* parse_struct and parse_array on its call stack, innermost first
          expected,   \* which of EXPECTED_AFTER_... is due
          deep,       \* member_deep_index stands at ArrValue
          v,          \* the MyData being filled in
          table       \* TableManager::_myDataList
vars == <<file, pc, token, states, root, rows, rowString, ID, at, nest, expected, deep, v, table>>
parsing == <<token, states, root>>
mapping == <<rowString, ID, at, nest, expected, deep, v>>

Discarded == <<"discarded", 0>>
IntRange == -IntHalf..(IntHalf - 1)
Members == {<<"I">>, <<"S">>, <<"B">>, <<"A">>}
MyData == [I |-> 0, S |-> <<>>, B |-> FALSE, A |-> <<>>]

Init ==
    /\ file \in Files
    /\ pc = "value"
    /\ token = scan(file.text, 1)
    /\ states = <<>> /\ root = Discarded /\ rows = <<>>
    /\ rowString = <<>> /\ ID = 0 /\ at = 1 /\ nest = <<>> /\ expected = "start"
    /\ deep = FALSE /\ v = MyData
    /\ table = <<>>

\* An exception ends loadTable, and loadTables returns false.
Fail == pc' = "failed" /\ UNCHANGED <<file, rows, mapping, table>>

-----------------------------------------------------------------------------
(* sax_parse_internal and json_sax_dom_parser.                                 *)

get_token(after) == scan(file.text, after.next)
IsKey(t) == t.t = "value" /\ t.v[1] = "str"

\* A key again replaces what it was first given.
assign(f, key, value) == [k \in DOMAIN f \cup {key} |-> IF k = key THEN value ELSE f[k]]
Into(c, value) ==
    IF c.array THEN [c EXCEPT !.content = Append(@, value)]
    ELSE [c EXCEPT !.content = assign(@, c.key, value)]
handle_value(open, value) ==
    /\ pc' = "evaluate"
    /\ IF open = <<>> THEN states' = <<>> /\ root' = value
       ELSE /\ states' = Front(open) \o <<Into(Last(open), value)>>
            /\ UNCHANGED root
Finished(c) == IF c.array THEN <<"arr", c.content>> ELSE <<"obj", c.content>>

\* A key, a colon and the first token of the member's value.
ParseKey(t, open, content) ==
    \E colon \in {get_token(t)} :
        IF IsKey(t) /\ colon.t = ":"
        THEN /\ states' = Append(open, [array |-> FALSE, content |-> content, key |-> t.v[2]])
             /\ token' = get_token(colon)
             /\ pc' = "value"
             /\ UNCHANGED <<file, root, rows, mapping, table>>
        ELSE Fail /\ UNCHANGED parsing

BeginObject ==
    /\ pc = "value" /\ token.t = "{"
    /\ \E t \in {get_token(token)} :
           IF t.t = "}"
           THEN /\ handle_value(states, <<"obj", <<>>>>)
                /\ token' = t
                /\ UNCHANGED <<file, rows, mapping, table>>
           ELSE ParseKey(t, states, <<>>)

BeginArray ==
    /\ pc = "value" /\ token.t = "["
    /\ token' = get_token(token)
    /\ IF token'.t = "]" THEN handle_value(states, <<"arr", <<>>>>)
       ELSE /\ states' = Append(states, [array |-> TRUE, content |-> <<>>, key |-> <<>>])
            /\ UNCHANGED <<pc, root>>
    /\ UNCHANGED <<file, rows, mapping, table>>

Scalar ==
    /\ pc = "value" /\ token.t = "value"
    /\ handle_value(states, token.v)
    /\ UNCHANGED <<file, token, rows, mapping, table>>

\* A number too large for a double, or a token that begins no value.
BadValue ==
    /\ pc = "value" /\ token.t \notin {"{", "[", "value"}
    /\ Fail /\ UNCHANGED parsing

\* Behind a value inside an array or an object.
NextElement ==
    /\ pc = "evaluate" /\ states # <<>> /\ Last(states).array
    /\ \E comma \in {get_token(token)} : comma.t = "," /\ token' = get_token(comma)
    /\ pc' = "value"
    /\ UNCHANGED <<file, states, root, rows, mapping, table>>

NextMember ==
    /\ pc = "evaluate" /\ states # <<>> /\ ~Last(states).array
    /\ \E comma \in {get_token(token)} : \E t \in {get_token(comma)} :
          /\ comma.t = ","
          /\ ParseKey(t, Front(states), Last(states).content)

EndContainer ==
    /\ pc = "evaluate" /\ states # <<>>
    /\ token' = get_token(token)
    /\ token'.t = IF Last(states).array THEN "]" ELSE "}"
    /\ handle_value(Front(states), Finished(Last(states)))
    /\ UNCHANGED <<file, rows, mapping, table>>

BadSeparator ==
    /\ pc = "evaluate" /\ states # <<>>
    /\ get_token(token).t \notin {",", IF Last(states).array THEN "]" ELSE "}"}
    /\ Fail /\ UNCHANGED parsing

\* parse in strict mode; the rows the iterator of the result goes over.
Rows(j) == CASE j[1] = "arr"  -> j[2]
             [] j[1] = "obj"  -> LET keys == KeysOf(j[2]) IN [i \in DOMAIN keys |-> j[2][keys[i]]]
             [] j[1] = "null" -> <<>>
             [] OTHER         -> <<j>>

EndOfInput ==
    /\ pc = "evaluate" /\ states = <<>>
    /\ IF get_token(token).t = "end_of_input"
       THEN /\ pc' = "rows"
            /\ rows' = Rows(root)
            /\ UNCHANGED <<file, parsing, mapping, table>>
       ELSE root' = Discarded /\ Fail /\ UNCHANGED <<token, states>>

-----------------------------------------------------------------------------
(* loadTable, row by row.                                                      *)

\* The whole part of a float.
Whole(f) == IF f.point <= 0 THEN 0
            ELSE LET n == Decimal([i \in 1..f.point |->
                                      IF i <= Len(f.digits) THEN f.digits[i] ELSE "0"])
                 IN  IF f.neg THEN -n ELSE n

\* from_json to int: what it may return, nothing if it throws.  An integer loses
\* its upper bits; what becomes of a float out of range is undefined.
from_json(j) ==
    CASE j[1] = "int"   -> {((j[2] + IntHalf) % (2 * IntHalf)) - IntHalf}
      [] j[1] = "bool"  -> {IF j[2] THEN 1 ELSE 0}
      [] j[1] = "float" -> IF Whole(j[2]) \in IntRange THEN {Whole(j[2])} ELSE {-IntHalf, IntHalf - 1}
      [] OTHER          -> {}

\* obj["ID"]; a missing member appears as null, as in an object made of null.
IDs(row) == IF row[1] = "obj" /\ <<"I">> \in DOMAIN row[2] THEN from_json(row[2][<<"I">>]) ELSE {}

SkipRow ==
    /\ pc = "rows" /\ rows # <<>>
    /\ 0 \in IDs(Head(rows))
    /\ rows' = Tail(rows)
    /\ UNCHANGED <<file, pc, parsing, mapping, table>>

\* map_json_to_struct: Reset::reset, and the brace the text has to begin with.
MapRow ==
    /\ pc = "rows" /\ rows # <<>>
    /\ \E id \in IDs(Head(rows)) \ {0} : ID' = id
    /\ pc' = "map"
    /\ rowString' = dump(Head(rows), Len(file.text))
    /\ at' = 2 /\ nest' = <<"struct">> /\ expected' = "start"
    /\ deep' = FALSE /\ v' = MyData
    /\ UNCHANGED <<file, parsing, rows, table>>

BadID ==
    /\ pc = "rows" /\ rows # <<>>
    /\ IDs(Head(rows)) = {}
    /\ Fail /\ UNCHANGED parsing

Loaded ==
    /\ pc = "rows" /\ rows = <<>>
    /\ pc' = "loaded"
    /\ UNCHANGED <<file, parsing, rows, mapping, table>>

-----------------------------------------------------------------------------
(* struct_mapping: Parser and Object<MyData>.                                  *)

NumberStart == Digits \cup {"-"}
ValueStart == NumberStart \cup {QUOTE, "{", "[", "t", "f", "n"}
Expected(kind, due) ==
    IF kind = "struct"
    THEN CASE due = "start" -> {QUOTE, "}"}
           [] due = "value" -> {",", "}"}
           [] due = "comma" -> {QUOTE}
    ELSE ValueStart \cup {"."} \cup (CASE due = "start" -> {"]"}
                                       [] due = "value" -> {"]", ","}
                                       [] due = "comma" -> {})

\* wait: the next character that is not blank; 0 if it is none of those expected.
wait(from, characters) ==
    LET i == skip_whitespace(rowString, from)
    IN  IF get(rowString, i) \in characters THEN i ELSE 0

\* get_string knows no escapes: where the closing quote is, 0 if there is none.
ClosingQuote(from) ==
    LET quotes == {i \in from..Len(rowString) : rowString[i] = QUOTE}
    IN  IF quotes = {} THEN 0 ELSE CHOOSE i \in quotes : \A k \in quotes : i <= k

\* set_number: up to the next separator; what stoll or, with a point, stod makes
\* of the longest prefix that is a number.
NumberChars == Digits \cup {".", "e", "+", "-"}
NumberEnd(from) == CHOOSE i \in from..(Len(rowString) + 1) :
    /\ get(rowString, i) \notin NumberChars \cup Blank
    /\ \A k \in from..(i - 1) : rowString[k] \in NumberChars \cup Blank
stoll(s) ==
    LET unsigned == IF s[1] = "-" THEN Tail(s) ELSE s
        stop     == SelectInSeq(unsigned, LAMBDA c : c \notin Digits)
        digits   == IF stop = 0 THEN unsigned ELSE SubSeq(unsigned, 1, stop - 1)
        n        == IF s[1] = "-" THEN -Decimal(digits) ELSE Decimal(digits)
    IN  IF digits # <<>> /\ -LongHalf <= n /\ n < LongHalf THEN <<"int", n>> ELSE Discarded

\* A decimal literal of C, without a sign.
IsLiteral(s) ==
    LET e     == SelectInSeq(s, LAMBDA c : c = "e")
        mant  == IF e = 0 THEN s ELSE SubSeq(s, 1, e - 1)
        power == IF e = 0 THEN <<"0">> ELSE SubSeq(s, e + 1, Len(s))
        exp   == IF power # <<>> /\ power[1] \in {"+", "-"} THEN Tail(power) ELSE power
    IN  /\ Keep(mant, Digits) # <<>> /\ Range(mant) \subseteq Digits \cup {"."}
        /\ Len(Keep(mant, {"."})) <= 1
        /\ exp # <<>> /\ Range(exp) \subseteq Digits

\* stod throws where strtod reports ERANGE: beyond the largest double, and for
\* all that is not 0 below the smallest normal one.
stod(s) ==
    LET signs    == IF s[1] = "-" THEN 1 ELSE 0
        literals == {k \in signs..Len(s) : IsLiteral(SubSeq(s, signs + 1, k))}
        f        == strtof(SubSeq(s, 1, Max(literals)))
    IN  IF literals # {} /\ (f.digits = <<>> \/ f.point \in MinPoint..MaxPoint)
        THEN <<"float", 0>> ELSE Discarded
Number(s) == IF "." \in Range(s) THEN stod(s) ELSE stoll(s)

in_limits_mutant(n) == TRUE
in_limits(n) == n \in IntRange

TypeIn_mutant(name) == IF deep \/ name = <<"I">> THEN {"int"}
                       ELSE CASE name = <<"S">> -> {"str"}
                              [] name = <<"B">> -> {"bool"}
                              [] OTHER          -> {}

\* What set_bool, set_integral, set_floating_point and set_string accept, and
\* what they assign: inside ArrValue ints only, whatever the name; elsewhere a
\* member's own type, and anything for a name that is no member.
TypeIn(name) == IF deep \/ name = <<"I">> THEN {"int"}
                ELSE CASE name = <<"S">> -> {"str"}
                       [] name = <<"B">> -> {"bool"}
                       [] name = <<"A">> -> {}
                       [] OTHER          -> {"int", "float", "str", "bool"}
Accepts(name, value) ==
    /\ value[1] \in TypeIn(name)
    /\ (deep \/ name = <<"I">>) => in_limits(value[2])
Set(name, value) ==
    IF deep THEN [v EXCEPT !.A = Append(@, value[2])]
    ELSE IF name \in Members THEN [v EXCEPT ![name[1]] = value[2]] ELSE v

\* The string, literal or number that begins at i, Discarded if it is malformed.
ScalarAt(i) ==
    LET c     == rowString[i]
        close == ClosingQuote(i + 1)
        end   == NumberEnd(i)
    IN  CASE c = QUOTE        -> [v |-> IF close = 0 THEN Discarded
                                        ELSE <<"str", SubSeq(rowString, i + 1, close - 1)>>,
                                  next |-> close + 1]
          [] c \in {"t", "f"} -> [v |-> <<"bool", c = "t">>, next |-> i + 1]
          [] OTHER            -> [v |-> IF get(rowString, end) \notin {"}", "]", ","} THEN Discarded
                                        ELSE Number(Keep(SubSeq(rowString, i, end - 1), NumberChars)),
                                  next |-> end]

\* parse_struct_value and parse_array_value, from where the value begins.
Scan(name, i) ==
    LET s == ScalarAt(i)
    IN  \/ /\ rowString[i] = "n"
           /\ at' = i + 1 /\ expected' = "value"
           /\ UNCHANGED <<file, pc, parsing, rows, rowString, ID, nest, deep, v, table>>
        \/ /\ rowString[i] \notin {"{", "[", "n"}
           /\ Accepts(name, s.v)
           /\ v' = Set(name, s.v)
           /\ at' = s.next /\ expected' = "value"
           /\ UNCHANGED <<file, pc, parsing, rows, rowString, ID, nest, deep, table>>
        \/ /\ rowString[i] \notin {"{", "[", "n"}
           /\ ~Accepts(name, s.v)
           /\ Fail /\ UNCHANGED parsing
        \* use: a name that is no member is passed over, and what is inside is
        \* taken for members of MyData; a member without a deep_index is beyond
        \* the end of functions.init.
        \/ /\ rowString[i] \in {"{", "["}
           /\ deep \/ name \notin Members \ {<<"A">>}
           /\ nest' = <<IF rowString[i] = "{" THEN "struct" ELSE "array">> \o nest
           /\ deep' = (deep \/ name = <<"A">>)
           /\ at' = i + 1 /\ expected' = "start"
           /\ UNCHANGED <<file, pc, parsing, rows, rowString, ID, v, table>>
        \/ /\ rowString[i] \in {"{", "["}
           /\ ~deep /\ name \in Members \ {<<"A">>}
           /\ pc' = "undefined"
           /\ UNCHANGED <<file, parsing, rows, mapping, table>>

\* Where the value behind a name begins, 0 if there is no colon or no value.
ValueBehind(close) ==
    LET colon == IF close = 0 THEN 0 ELSE wait(close + 1, {":"})
    IN  IF colon = 0 THEN 0 ELSE wait(colon + 1, ValueStart)

Here == wait(at, Expected(Head(nest), expected))

MapMember ==
    /\ pc = "map" /\ Here # 0 /\ Head(nest) = "struct" /\ rowString[Here] = QUOTE
    /\ \E close \in {ClosingQuote(Here + 1)} : \E value \in {ValueBehind(close)} :
          /\ value # 0
          /\ Scan(SubSeq(rowString, Here + 1, close - 1), value)

MapElement ==
    /\ pc = "map" /\ Here # 0 /\ Head(nest) = "array" /\ rowString[Here] \notin {",", "]"}
    /\ Scan(<<>>, Here)

MapComma_mutant ==
    /\ pc = "map" /\ Here # 0 /\ rowString[Here] = ","
    /\ at' = Here /\ expected' = "comma"
    /\ UNCHANGED <<file, pc, parsing, rows, rowString, ID, nest, deep, v, table>>
MapComma ==
    /\ pc = "map" /\ Here # 0 /\ rowString[Here] = ","
    /\ at' = Here + 1 /\ expected' = "comma"
    /\ UNCHANGED <<file, pc, parsing, rows, rowString, ID, nest, deep, v, table>>

\* end_struct and end_array: release leaves ArrValue at the first end inside it.
\* The last end finishes the row, and the first of two rows with an ID stays.
emplace_mutant(t, id, row) == assign(t, id, row)
emplace(t, id, row) == IF id \in DOMAIN t THEN t ELSE assign(t, id, row)
MapEnd ==
    /\ pc = "map" /\ Here # 0 /\ rowString[Here] \in {"}", "]"}
    /\ nest' = Tail(nest)
    /\ at' = Here + 1 /\ expected' = "value" /\ deep' = FALSE
    /\ IF nest' = <<>>
       THEN pc' = "rows" /\ rows' = Tail(rows) /\ table' = emplace(table, ID, v)
       ELSE UNCHANGED <<pc, rows, table>>
    /\ UNCHANGED <<file, parsing, rowString, ID, v>>

\* A character nobody expects: always behind a string with an escape in it.
BadCharacter ==
    /\ pc = "map"
    /\ \/ Here = 0
       \/ /\ Here # 0 /\ Head(nest) = "struct" /\ rowString[Here] = QUOTE
          /\ ValueBehind(ClosingQuote(Here + 1)) = 0
    /\ Fail /\ UNCHANGED parsing

Parse == BeginObject \/ BeginArray \/ Scalar \/ BadValue \/ NextElement \/ NextMember
         \/ EndContainer \/ BadSeparator \/ EndOfInput
Load == SkipRow \/ MapRow \/ BadID \/ Loaded
Map == MapMember \/ MapElement \/ MapComma \/ MapEnd \/ BadCharacter
Ended == pc \in {"loaded", "failed", "undefined"}
Terminated == Ended /\ UNCHANGED vars
Next == Parse \/ Load \/ Map \/ Terminated

Spec == Init /\ [][Next]_vars

-----------------------------------------------------------------------------
(* Properties.                                                                *)

IntSeq(s) == \A i \in DOMAIN s : s[i] \in IntRange

\* The state has its type; what is in the table and in the row being read fits an
\* int wherever MyData has one, though the file's numbers need not.
TypeOK ==
    /\ pc \in {"value", "evaluate", "rows", "map", "loaded", "failed", "undefined"}
    /\ ID \in IntRange /\ deep \in BOOLEAN
    /\ Range(nest) \subseteq {"struct", "array"} /\ expected \in {"start", "value", "comma"}
    /\ \A d \in {v} \cup Range(table) :
          /\ d.I \in IntRange /\ d.B \in BOOLEAN
          /\ IntSeq(d.A)
    /\ DOMAIN table \subseteq IntRange \ {0}

Parsed == pc \in {"rows", "loaded", "failed"}

\* What dump wrote parses to the value it was written from: escapes, the two
\* notations of a float and the order of the keys lose nothing.
ParsedIsWritten == Parsed /\ file.doc # Discarded => root = file.doc

\* Every step of the two parsers and of the loop over the rows gets on: it reads
\* on in the text, turns to the next row or ends.  As there is always a step until
\* the end (deadlock is checked), loading ends whatever the text.
ReadsOn ==
    [][\/ Ended'
       \/ token'.next > token.next
       \/ pc = "value" /\ pc' = "evaluate"
       \/ pc = "evaluate" /\ pc' = "rows"
       \/ Len(rows') < Len(rows)
       \/ pc = "rows" /\ pc' = "map"
       \/ pc = "map" /\ at' > at]_vars
=============================================================================
