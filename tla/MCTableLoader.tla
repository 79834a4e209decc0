--------------------------- MODULE MCTableLoader ---------------------------
(* The files to load: what dump writes for rows with every kind of ID,        *)
(* StrValue and ArrValue, for rows with members unknown to MyData, and for    *)
(* tables of several rows; all short texts of the characters of numbers and   *)
(* strings; all short texts of structural characters, keys and numbers, also  *)
(* behind a first member; all short texts with byte order marks and bytes 0;  *)
(* and rows with literals dump does not write.                                *)
EXTENDS TableReference

CONSTANTS MaxChars,   \* the length of the texts of numbers and strings
          MaxChunks,  \* the length of the structural texts
          MaxMore,    \* their length behind a member of an object
          MaxMarks,   \* the length of the texts with marks
          MaxRows     \* the length of the tables of several rows

MCMinPoint == -5
MCTinyPoint == -7
MCNames == <<<<>>, <<"A">>, <<"B">>, <<"C">>, <<"I">>, <<"S">>, <<"Z">>>>

Absent == <<"absent", 0>>
null == <<"null", 0>>
int(n) == <<"int", n>>
arr(s) == <<"arr", s>>
str(s) == <<"str", s>>
float(digits, point) == <<"float", [neg |-> FALSE, digits |-> digits, point |-> point]>>

\* An object from its members, the absent ones left out.
obj(members) == <<"obj", [k \in {<<n>> : n \in {n \in DOMAIN members : members[n] # Absent}} |->
                             members[k[1]]]>>
inner == obj([I |-> int(3)])

AllIDs == {Absent, null, int(0), int(1), int(10), int(11), int(-1), <<"bool", TRUE>>,
           <<"bool", FALSE>>, float(<<"1", "1">>, 1), float(<<"1">>, 4), float(<<"5">>, 0)}
AllStrs == {Absent, str(<<>>), str(<<"a", ",">>), str(<<QUOTE>>), str(<<"a", BACKSLASH>>),
            str(<<"LF">>), str(<<QUOTE, ":", "1">>), null, arr(<<>>), int(1)}
AllArrs == {Absent, arr(<<>>), arr(<<int(1), int(-5)>>), arr(<<int(5)>>), null, inner,
            arr(<<arr(<<int(1)>>), int(2)>>), arr(<<float(<<"5">>, 0)>>), arr(<<str(<<>>)>>)}
AllBools == {Absent, <<"bool", TRUE>>, int(1), inner}
Unknown == {Absent, null, int(499), int(999), float(<<"1">>, 4), float(<<"1">>, -6), str(<<"a">>),
            float(<<"1", "1">>, -5), float(<<"1", "1">>, -6), inner, arr(<<int(1), inner>>), arr(<<null>>), obj([A |-> arr(<<int(2)>>)])}

OneRow ==
    {obj([I |-> i, S |-> s, A |-> a]) : i \in AllIDs, s \in AllStrs, a \in AllArrs}
    \cup {obj([I |-> int(1), B |-> b, C |-> c, Z |-> z]) :
              b \in AllBools, c \in Unknown, z \in Unknown}

SomeRows == {obj([I |-> int(1), S |-> str(<<"a">>)]), obj([I |-> int(1), A |-> arr(<<int(2)>>)]),
             obj([I |-> int(0)]), obj([I |-> int(2), Z |-> null]),
             obj([I |-> int(3), S |-> str(<<QUOTE>>)]), obj([I |-> int(4), C |-> inner])}
Docs == {arr(<<row>>) : row \in OneRow}
        \cup {arr(s) : s \in UNION {[1..n -> SomeRows] : n \in 0..MaxRows}}
        \cup {obj([A |-> a, Z |-> z]) : a \in SomeRows, z \in SomeRows}
        \cup {null, int(7), str(<<"a">>), <<"obj", <<>>>>, arr(<<null, arr(<<>>)>>)}

TextsOf(S, n) ==
    LET texts[m \in 0..n] ==
            IF m = 0 THEN {<<>>}
            ELSE LET shorter == texts[m - 1] IN shorter \cup {t \o s : t \in shorter, s \in S}
    IN  texts[n]
Short == TextsOf({<<c>> : c \in {"-", "+", "0", "1", ".", "e", QUOTE, BACKSLASH, "n", " ", "NUL"}},
                 MaxChars)
Structured == TextsOf({<<c>> : c \in Structural} \cup {<<QUOTE, QUOTE>>, <<"0">>}, MaxChunks)

More == {<<"{", QUOTE, QUOTE, ":", "0">> \o t :
             t \in TextsOf({<<c>> : c \in Structural} \cup {<<QUOTE, QUOTE>>, <<"0">>}, MaxMore)}
Marks == TextsOf({<<c>> : c \in {"BOM", "NUL", "[", "]", "0", " "}}, MaxMarks)

\* [{"I":1,"Z":number}], with a number at, above and below each limit of a double.
Literals == {<<"1", ".", "1">> \o e : e \in
                {<<"e", "8">>, <<"e", "9">>, <<"e", "-", "6">>, <<"e", "-", "7">>, <<"e", "-", "9">>}}
            \cup {<<"1", ".">>, <<"0", "e", "9">>, <<"1", "0", "0", "0">>, <<"-", "5", "0", "1">>}
WithLiterals == {<<"[", "{", QUOTE, "I", QUOTE, ":", "1", ",", QUOTE, "Z", QUOTE, ":">> \o l
                     \o <<"}", "]">> : l \in Literals}

MCFiles == {[text |-> dump(d, 5), doc |-> d] : d \in Docs}
           \cup {[text |-> t, doc |-> Discarded] :
                    t \in Short \cup Structured \cup More \cup Marks \cup WithLiterals}
=============================================================================
