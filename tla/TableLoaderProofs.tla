------------------------- MODULE TableLoaderProofs -------------------------
(* Proofs about TableLoader, for texts of any length, values nested to any     *)
(* depth and integers of any width: its inductive invariant, and that what was *)
(* written by dump is parsed as the value it was written for.                  *)
EXTENDS TableLoader, JsonTextProofs

-----------------------------------------------------------------------------
(* The values of the parser.                                                  *)

\* The frames of the parser over S.
Containers(S) == [array : {TRUE}, content : Seq(S), key : Texts]
                 \cup [array : {FALSE}, content : Objects(S), key : Texts]
\* All ranks are below what the lexer has read.
RanksBelow(S, r, n) == \A x \in S : r[x] + 2 <= n

\* The scalars are nested, at rank 0.
LEMMA NestedStart ==
  ASSUME NEW n \in Nat, n >= 2
  PROVE  Nested(Scalars, [x \in Scalars |-> 0]) /\ RanksBelow(Scalars, [x \in Scalars |-> 0], n)
  BY DEF Nested, RanksBelow

\* More values make more sequences, objects and frames.
LEMMA ObjectsGrow ==
  ASSUME NEW S, NEW S2, S \subseteq S2
  PROVE  /\ Seq(S) \subseteq Seq(S2) /\ Objects(S) \subseteq Objects(S2)
         /\ Containers(S) \subseteq Containers(S2)
         /\ Seq(Containers(S)) \subseteq Seq(Containers(S2))
<1>1. Seq(S) \subseteq Seq(S2)
  OBVIOUS
<1>2. Objects(S) \subseteq Objects(S2)
  <2>1. ASSUME NEW D \in SUBSET Texts PROVE [D -> S] \subseteq [D -> S2]
    OBVIOUS
  <2> QED BY <2>1 DEF Objects
<1>3. Containers(S) \subseteq Containers(S2)
  BY <1>1, <1>2 DEF Containers
<1> QED BY <1>1, <1>2, <1>3

\* A composed value may join the values it is composed of once the lexer has read
\* on.
Grown(S2, r2, S, n, x) == Nested(S2, r2) /\ S \subseteq S2 /\ x \in S2 /\ RanksBelow(S2, r2, n)

\* A composite value over nested values makes nested values.
LEMMA Compose ==
  ASSUME NEW S, NEW r, Nested(S, r), NEW n \in Nat, n >= 2, RanksBelow(S, r, n),
         NEW x, Composed(x, S), NEW n2 \in Nat, n2 > n
  PROVE  \E S2, r2 : Grown(S2, r2, S, n2, x)
<1> DEFINE S2 == S \cup {x}
           r2 == [y \in S2 |-> IF y \in S THEN r[y] ELSE n - 1]
<1>1. r2 \in [S2 -> Nat]
  <2>1. n - 1 \in Nat
    OBVIOUS
  <2>2. \A y \in S : r[y] \in Nat
    BY DEF Nested
  <2> QED BY <2>1, <2>2
<1>2. \A y \in S : r2[y] = r[y]
  OBVIOUS
<1>3. \A y \in S2 : r2[y] + 2 <= n2
  <2>1. ASSUME NEW y \in S PROVE r2[y] + 2 <= n2
    <3>1. r[y] \in Nat /\ r[y] + 2 <= n
      BY DEF Nested, RanksBelow
    <3> QED BY <1>2, <3>1
  <2>2. x \notin S => r2[x] + 2 <= n2
    <3>1. x \notin S => r2[x] = n - 1
      OBVIOUS
    <3> QED BY <3>1
  <2> QED BY <2>1, <2>2
<1>4. ASSUME NEW y \in S2
      PROVE  \/ y \in Scalars
             \/ \E s \in Seq(S2) : y = <<"arr", s>> /\ \A i \in 1..Len(s) : r2[s[i]] < r2[y]
             \/ \E D \in SUBSET Texts : \E f \in [D -> S2] :
                   y = <<"obj", f>> /\ \A k \in D : r2[f[k]] < r2[y]
  <2>1. CASE y \in S
    <3>1. ASSUME NEW s \in Seq(S), y = <<"arr", s>>, \A i \in 1..Len(s) : r[s[i]] < r[y]
          PROVE  s \in Seq(S2) /\ \A i \in 1..Len(s) : r2[s[i]] < r2[y]
      <4>1. \A i \in 1..Len(s) : s[i] \in S
        BY ElementOfSeq
      <4>2. Seq(S) \subseteq Seq(S2)
        BY ObjectsGrow
      <4> HIDE DEF r2, S2
      <4> QED BY <1>2, <2>1, <3>1, <4>1, <4>2
    <3>2. ASSUME NEW D \in SUBSET Texts, NEW f \in [D -> S], y = <<"obj", f>>,
                 \A k \in D : r[f[k]] < r[y]
          PROVE  f \in [D -> S2] /\ \A k \in D : r2[f[k]] < r2[y]
      <4>1. \A k \in D : f[k] \in S
        OBVIOUS
      <4>2. f \in [D -> S2]
        OBVIOUS
      <4> HIDE DEF r2, S2
      <4> QED BY <1>2, <2>1, <3>2, <4>1, <4>2
    <3>3. \/ y \in Scalars
          \/ \E s \in Seq(S) : y = <<"arr", s>> /\ \A i \in 1..Len(s) : r[s[i]] < r[y]
          \/ \E D \in SUBSET Texts : \E f \in [D -> S] :
               y = <<"obj", f>> /\ \A k \in D : r[f[k]] < r[y]
      BY <2>1 DEF Nested
    <3> HIDE DEF r2, S2
    <3>4. CASE \E s \in Seq(S) : y = <<"arr", s>> /\ \A i \in 1..Len(s) : r[s[i]] < r[y]
      <4>1. PICK s \in Seq(S) : y = <<"arr", s>> /\ \A i \in 1..Len(s) : r[s[i]] < r[y]
        BY <3>4
      <4>2. s \in Seq(S2) /\ \A i \in 1..Len(s) : r2[s[i]] < r2[y]
        BY <3>1, <4>1
      <4> QED BY <4>1, <4>2
    <3>5. CASE \E D \in SUBSET Texts : \E f \in [D -> S] :
                  y = <<"obj", f>> /\ \A k \in D : r[f[k]] < r[y]
      <4>1. PICK D \in SUBSET Texts : \E f \in [D -> S] :
                  y = <<"obj", f>> /\ \A k \in D : r[f[k]] < r[y]
        BY <3>5
      <4>2. PICK f \in [D -> S] : y = <<"obj", f>> /\ \A k \in D : r[f[k]] < r[y]
        BY <4>1
      <4>3. f \in [D -> S2] /\ \A k \in D : r2[f[k]] < r2[y]
        BY <3>2, <4>2
      <4> QED BY <4>2, <4>3
    <3> QED BY <3>3, <3>4, <3>5
  <2>2. CASE y \notin S
    <3>1. y = x /\ r2[y] = n - 1
      BY <2>2
    <3>2. \A z \in S : r2[z] < n - 1
      <4>1. \A z \in S : r[z] \in Nat /\ r[z] + 2 <= n
        BY DEF Nested, RanksBelow
      <4> QED BY <1>2, <4>1
    <3> HIDE DEF r2
    <3>3. CASE \E s \in Seq(S) : x = <<"arr", s>>
      <4>1. PICK s \in Seq(S) : x = <<"arr", s>>
        BY <3>3
      <4>2. \A i \in 1..Len(s) : r2[s[i]] < r2[y]
        BY <3>1, <3>2, ElementOfSeq
      <4>3. s \in Seq(S2)
        BY ObjectsGrow
      <4> HIDE DEF S2
      <4> QED BY <3>1, <4>1, <4>2, <4>3
    <3>4. CASE \E f \in Objects(S) : x = <<"obj", f>>
      <4>1. PICK f \in Objects(S) : x = <<"obj", f>>
        BY <3>4
      <4>2. PICK D \in SUBSET Texts : f \in [D -> S]
        BY DEF Objects
      <4>3. f \in [D -> S2]
        BY <4>2
      <4>4. \A k \in D : r2[f[k]] < r2[y]
        BY <3>1, <3>2, <4>2
      <4> HIDE DEF S2
      <4> QED BY <3>1, <4>1, <4>3, <4>4
    <3> QED BY <3>3, <3>4 DEF Composed
  <2> QED BY <2>1, <2>2
<1>5. Nested(S2, r2)
  <2>1. Scalars \subseteq S2
    BY DEF Nested
  <2> HIDE DEF S2, r2
  <2> QED BY <1>1, <1>4, <2>1 DEF Nested
<1>6. Grown(S2, r2, S, n2, x)
  <2>1. S \subseteq S2 /\ x \in S2
    OBVIOUS
  <2> HIDE DEF S2, r2
  <2> QED BY <1>3, <1>5, <2>1 DEF Grown, RanksBelow
<1> QED BY <1>6

\* A key is assigned a value.
LEMMA AssignType ==
  ASSUME NEW S, NEW f \in Objects(S), NEW key \in Texts, NEW x \in S
  PROVE  assign(f, key, x) \in Objects(S)
<1>1. PICK D \in SUBSET Texts : f \in [D -> S]
  BY DEF Objects
<1>2. D \cup {key} \in SUBSET Texts
  OBVIOUS
<1>3. assign(f, key, x) \in [D \cup {key} -> S]
  BY <1>1 DEF assign
<1> QED BY <1>2, <1>3 DEF Objects

\* A value goes into a frame.
LEMMA IntoType ==
  ASSUME NEW S, NEW c \in Containers(S), NEW x \in S
  PROVE  Into(c, x) \in Containers(S)
<1>1. CASE c \in [array : {TRUE}, content : Seq(S), key : Texts]
  <2>1. c.array /\ c.content \in Seq(S)
    BY <1>1
  <2>2. Append(c.content, x) \in Seq(S)
    BY <2>1, AppendProperties
  <2> QED BY <1>1, <2>1, <2>2 DEF Into, Containers
<1>2. CASE c \in [array : {FALSE}, content : Objects(S), key : Texts]
  <2>1. ~c.array /\ c.content \in Objects(S) /\ c.key \in Texts
    BY <1>2
  <2>2. assign(c.content, c.key, x) \in Objects(S)
    BY <2>1, AssignType
  <2> QED BY <1>2, <2>1, <2>2 DEF Into, Containers
<1> QED BY <1>1, <1>2 DEF Containers

\* The container that ends is a value.
LEMMA FinishedType ==
  ASSUME NEW S, NEW c \in Containers(S)
  PROVE  Composed(Finished(c), S)
<1>1. CASE c \in [array : {TRUE}, content : Seq(S), key : Texts]
  BY <1>1 DEF Finished, Composed
<1>2. CASE c \in [array : {FALSE}, content : Objects(S), key : Texts]
  BY <1>2 DEF Finished, Composed
<1> QED BY <1>1, <1>2 DEF Containers

\* The innermost container and the others.
LEMMA FrontLast ==
  ASSUME NEW S, NEW s \in Seq(S), s # <<>>
  PROVE  Front(s) \in Seq(S) /\ Last(s) \in S
<1>1. Len(s) \in Nat /\ Len(s) # 0
  BY LenProperties, EmptySeq
<1>2. \A i \in 1..(Len(s) - 1) : s[i] \in S
  BY <1>1, ElementOfSeq
<1>3. SubSeq(s, 1, Len(s) - 1) \in Seq(S)
  <2>1. PICK n \in Int : n = Len(s) - 1
    BY <1>1
  <2>2. 1 \in Int /\ \A i \in 1..n : s[i] \in S
    BY <1>2, <2>1
  <2>3. SubSeq(s, 1, n) \in Seq(S)
    BY <2>2, SubSeqProperties
  <2> QED BY <2>1, <2>3
<1>4. s[Len(s)] \in S
  BY <1>1, ElementOfSeq
<1> QED BY <1>3, <1>4 DEF Front, Last

\* handle_value: the value is the result or goes into the innermost container.
LEMMA HandleValueType ==
  ASSUME NEW S, NEW open \in Seq(Containers(S)), NEW x \in S, root \in S \cup {Discarded},
         handle_value(open, x)
  PROVE  /\ pc' = "evaluate" /\ states' \in Seq(Containers(S)) /\ root' \in S \cup {Discarded}
         /\ states' = <<>> => root' \in S
<1>1. CASE open = <<>>
  <2>1. pc' = "evaluate" /\ states' = <<>> /\ root' = x
    BY <1>1 DEF handle_value
  <2> QED BY <2>1, EmptySeq
<1>2. CASE open # <<>>
  <2>1. pc' = "evaluate" /\ states' = Front(open) \o <<Into(Last(open), x)>> /\ root' = root
    BY <1>2 DEF handle_value
  <2>2. Front(open) \in Seq(Containers(S)) /\ Last(open) \in Containers(S)
    BY <1>2, FrontLast
  <2>3. PICK c \in Containers(S) : c = Into(Last(open), x)
    BY <2>2, IntoType
  <2>4. <<c>> \in Seq(Containers(S)) /\ Len(<<c>>) = 1
    BY Single
  <2>5. Front(open) \o <<c>> \in Seq(Containers(S)) /\ Front(open) \o <<c>> # <<>>
    <3>1. PICK s \in Seq(Containers(S)) : s = Front(open)
      BY <2>2
    <3>2. s \o <<c>> \in Seq(Containers(S)) /\ Len(s \o <<c>>) = Len(s) + 1 /\ Len(s) \in Nat
      BY <2>4, ConcatProperties, LenProperties
    <3> QED BY <3>1, <3>2, EmptySeq
  <2> QED BY <2>1, <2>3, <2>5
<1> QED BY <1>1, <1>2

\* The rows are values of the parsed value.
LEMMA RowsType ==
  ASSUME NEW S, NEW r, Nested(S, r), NEW j \in S
  PROVE  Rows(j) \in Seq(S)
<1>1. CASE j \in Scalars
  <2>1. j[1] # "arr" /\ j[1] # "obj"
    BY <1>1 DEF Scalars
  <2>2. Rows(j) = <<>> \/ Rows(j) = <<j>>
    BY <2>1 DEF Rows
  <2> QED BY <2>2, EmptySeq, Single
<1>2. ASSUME NEW s \in Seq(S), j = <<"arr", s>> PROVE Rows(j) \in Seq(S)
  BY <1>2 DEF Rows
<1>3. ASSUME NEW D \in SUBSET Texts, NEW f \in [D -> S], j = <<"obj", f>> PROVE Rows(j) \in Seq(S)
  <2>1. PICK keys \in Seq(D) : keys = KeysOf(f)
    BY KeysOfType
  <2>2. Len(keys) \in Nat /\ DOMAIN keys = 1..Len(keys)
    BY LenProperties
  <2>3. Rows(j) = [i \in 1..Len(keys) |-> f[keys[i]]]
    BY <1>3, <2>1, <2>2 DEF Rows
  <2>4. \A i \in 1..Len(keys) : f[keys[i]] \in S
    BY ElementOfSeq
  <2>5. [i \in 1..Len(keys) |-> f[keys[i]]] \in [1..Len(keys) -> S]
    BY <2>4
  <2> QED BY <2>2, <2>3, <2>5, IsSeq
<1> QED BY <1>1, <1>2, <1>3 DEF Nested

\* An ID is an int, and only an object has one.
LEMMA IDsType ==
  ASSUME NEW S, NEW r, Nested(S, r), NEW row \in S
  PROVE  IDs(row) \subseteq IntRange
<1> SUFFICES ASSUME row[1] = "obj", <<"I">> \in DOMAIN row[2]
             PROVE  from_json(row[2][<<"I">>]) \subseteq IntRange
  BY DEF IDs
<1>1. row \notin Scalars
  BY DEF Scalars
<1>2. PICK D \in SUBSET Texts : \E f \in [D -> S] : row = <<"obj", f>>
  BY <1>1 DEF Nested
<1>3. PICK f \in [D -> S] : row = <<"obj", f>>
  BY <1>2
<1>4. PICK j \in S : j = row[2][<<"I">>]
  BY <1>3
<1>5. IntHalf \in Nat \ {0, 1}
  BY LoaderAssumption
<1>6. CASE j[1] = "int"
  <2>1. j \in {"int"} \X Int
    <3>1. j \in Scalars
      BY <1>6 DEF Nested
    <3> QED BY <1>6, <3>1 DEF Scalars
  <2>2. PICK n \in Int : n = j[2] + IntHalf
    BY <1>5, <2>1
  <2>3. n % (2 * IntHalf) \in 0..(2 * IntHalf - 1)
    BY <1>5
  <2>4. (n % (2 * IntHalf)) - IntHalf \in IntRange
    BY <1>5, <2>3 DEF IntRange
  <2> QED BY <1>4, <1>6, <2>2, <2>4 DEF from_json
<1>7. CASE j[1] # "int"
  <2>1. {0, 1, -IntHalf, IntHalf - 1} \subseteq IntRange
    BY <1>5 DEF IntRange
  <2>2. \A i \in from_json(j) : i \in {0, 1, -IntHalf, IntHalf - 1} \/ i \in IntRange
    BY <1>7 DEF from_json
  <2> QED BY <1>4, <2>1, <2>2
<1> QED BY <1>4, <1>6, <1>7

-----------------------------------------------------------------------------
(* The inductive invariant.                                                   *)

\* Where the loader is.
PCs == {"value", "evaluate", "rows", "map", "loaded", "failed", "undefined"}

\* The parser of nlohmann::json: what it has is made of values that are there, less
\* deep than the text read; and where a value has ended, the text has not.
Held(S, r) ==
  /\ Nested(S, r) /\ RanksBelow(S, r, token.next)
  /\ states \in Seq(Containers(S))
  /\ root \in S \cup {Discarded}
  /\ pc = "evaluate" /\ states = <<>> => root \in S
  /\ rows \in Seq(S)

\* The invariant of the parser.
ParsingInv ==
  /\ file \in Files
  /\ IsToken(token, file.text, 1)
  /\ pc \in {"evaluate", "rows", "map"} => token.next <= Len(file.text) + 1
  /\ \E S, r : Held(S, r)

\* The parser of struct_mapping, the row it fills in and the table.
Entries == [I : IntRange, S : Texts, B : BOOLEAN, A : Seq(IntRange)]

\* Tables of such rows, none with the ID 0.
Tables == UNION {[D -> Entries] : D \in SUBSET (IntRange \ {0})}

\* The brackets that struct_mapping counts.
Kinds == {"struct", "array"}

\* The invariant of the mapping of the rows.
MappingInv ==
  /\ pc \in PCs
  /\ rowString \in Texts /\ at \in Nat \ {0}
  /\ nest \in Seq(Kinds)
  /\ expected \in {"start", "value", "comma"} /\ deep \in BOOLEAN
  /\ v \in Entries
  /\ table \in Tables
  /\ ID \in IntRange
  /\ pc = "map" => nest # <<>> /\ rows # <<>> /\ ID # 0

\* The inductive invariant.
IInv == ParsingInv /\ MappingInv

LEMMA FileText ==
  ASSUME file \in Files
  PROVE  file.text \in Texts
<1>1. file.text \in Seq(STRING)
  BY LoaderAssumption
<1> QED BY <1>1 DEF Texts, Character

\* The invariant implies the type correctness the runs check.
LEMMA TypeOKFromInv ==
  ASSUME MappingInv
  PROVE  TypeOK
<1> USE DEF MappingInv
<1>1. ASSUME NEW d \in Entries PROVE d.I \in IntRange /\ d.B \in BOOLEAN /\ IntSeq(d.A)
  <2>1. d.I \in IntRange /\ d.B \in BOOLEAN /\ d.A \in Seq(IntRange)
    BY DEF Entries
  <2>2. DOMAIN d.A = 1..Len(d.A) /\ \A i \in 1..Len(d.A) : d.A[i] \in IntRange
    BY <2>1, LenProperties, ElementOfSeq
  <2> QED BY <2>1, <2>2 DEF IntSeq
<1>2. DOMAIN table \subseteq IntRange \ {0} /\ Range(table) \subseteq Entries
  <2>1. PICK D \in SUBSET (IntRange \ {0}) : table \in [D -> Entries]
    BY DEF Tables
  <2> QED BY <2>1 DEF Range
<1>3. Range(nest) \subseteq Kinds
  <2>1. DOMAIN nest = 1..Len(nest) /\ \A i \in 1..Len(nest) : nest[i] \in Kinds
    BY LenProperties, ElementOfSeq
  <2> QED BY <2>1 DEF Range
<1> QED BY <1>1, <1>2, <1>3 DEF TypeOK, PCs, Kinds

LEMMA MyDataType == MyData \in Entries
<1>1. 0 \in IntRange
  BY LoaderAssumption DEF IntRange
<1>2. <<>> \in Texts /\ <<>> \in Seq(IntRange)
  BY NoText, EmptySeq
<1> QED BY <1>1, <1>2 DEF MyData, Entries

LEMMA InitInv ==
  ASSUME Init
  PROVE  IInv
<1>1. file \in Files /\ file.text \in Texts
  BY FileText DEF Init
<1>2. IsToken(token, file.text, 1)
  <2>1. IsToken(scan(file.text, 1), file.text, 1)
    BY <1>1, ScanType
  <2> QED BY <2>1 DEF Init
<1>3. ParsingInv
  <2> DEFINE r == [x \in Scalars |-> 0]
  <2>1. token.next \in Nat /\ token.next >= 2
    BY <1>2 DEF IsToken
  <2>2. Nested(Scalars, r) /\ RanksBelow(Scalars, r, token.next)
    BY <2>1, NestedStart
  <2> HIDE DEF r
  <2>3. Held(Scalars, r)
    BY <2>2, EmptySeq DEF Init, Held
  <2> QED BY <1>1, <1>2, <2>3 DEF ParsingInv, Init
<1>4. MappingInv
  <2>1. v \in Entries
    BY MyDataType DEF Init
  <2>2. table \in Tables
    <3>1. <<>> \in [{} -> Entries]
      OBVIOUS
    <3> QED BY <3>1 DEF Init, Tables
  <2>3. ID \in IntRange
    BY LoaderAssumption DEF Init, IntRange
  <2>4. rowString \in Texts /\ nest \in Seq(Kinds)
    BY NoText, EmptySeq DEF Init
  <2>5. /\ pc \in PCs /\ at \in Nat \ {0} /\ pc # "map"
        /\ expected \in {"start", "value", "comma"}
    BY DEF Init, PCs
  <2>6. deep \in BOOLEAN
    BY DEF Init
  <2> QED BY <2>1, <2>2, <2>3, <2>4, <2>5, <2>6 DEF MappingInv
<1> QED BY <1>3, <1>4 DEF IInv

-----------------------------------------------------------------------------
(* The steps of the parser of nlohmann::json.                                 *)

\* The token behind another one.
LEMMA GetToken ==
  ASSUME file \in Files, NEW t, NEW from \in Nat, IsToken(t, file.text, from)
  PROVE  IsToken(get_token(t), file.text, t.next)
<1>1. t.next \in Nat \ {0}
  BY DEF IsToken
<1> QED BY <1>1, FileText, ScanType DEF get_token

LEMMA TokenFacts ==
  ASSUME NEW text, NEW t, NEW from \in Nat, IsToken(t, text, from)
  PROVE  /\ t.v \in Scalars /\ t.next \in Nat /\ t.next > from
         /\ t.t \in Structural \cup {"value"} => t.next <= Len(text) + 1
         /\ \A k \in Nat : k <= from => IsToken(t, text, k)
  BY DEF IsToken

\* A step that parses no value leaves everything over what there is.
LEMMA KeepsParsing ==
  ASSUME ParsingInv, file' = file, UNCHANGED parsing,
         rows' = rows \/ (rows # <<>> /\ rows' = Tail(rows)),
         pc' # "evaluate", pc' \in {"rows", "map"} => pc \in {"rows", "map"}
  PROVE  ParsingInv'
<1>1. token' = token /\ states' = states /\ root' = root
  BY DEF parsing
<1>2. PICK S, r : Held(S, r)
  BY DEF ParsingInv
<1>3. rows' \in Seq(S)
  <2>1. rows \in Seq(S)
    BY <1>2 DEF Held
  <2>2. CASE rows' = rows
    BY <2>1, <2>2
  <2>3. CASE rows # <<>> /\ rows' = Tail(rows)
    BY <2>1, <2>3, HeadTailProperties
  <2> QED BY <2>2, <2>3
<1>4. Held(S, r)'
  BY <1>1, <1>2, <1>3 DEF Held
<1> QED BY <1>1, <1>4 DEF ParsingInv

\* A step that parses a value.
LEMMA ParsesValue ==
  ASSUME ParsingInv, file' = file, rows' = rows, IsToken(token', file.text, 1),
         token'.next >= token.next, token'.next <= Len(file.text) + 1,
         NEW S, NEW r, Nested(S, r), RanksBelow(S, r, token'.next),
         NEW S0, NEW r0, Held(S0, r0), S0 \subseteq S,
         NEW open \in Seq(Containers(S)), NEW x \in S, handle_value(open, x)
  PROVE  ParsingInv'
<1>1. root \in S \cup {Discarded} /\ rows \in Seq(S)
  <2>1. root \in S0 \cup {Discarded} /\ rows \in Seq(S0)
    BY DEF Held
  <2>2. Seq(S0) \subseteq Seq(S)
    BY ObjectsGrow
  <2> QED BY <2>1, <2>2
<1>2. /\ pc' = "evaluate" /\ states' \in Seq(Containers(S)) /\ root' \in S \cup {Discarded}
      /\ states' = <<>> => root' \in S
  BY <1>1, HandleValueType
<1>3. Held(S, r)'
  BY <1>1, <1>2 DEF Held
<1> QED BY <1>2, <1>3 DEF ParsingInv

\* A step that opens a container or goes on to the next value in it.
LEMMA GoesOn ==
  ASSUME ParsingInv, file' = file, rows' = rows, IsToken(token', file.text, 1),
         token'.next >= token.next, pc' = "value", root' = root,
         NEW S, NEW r, Held(S, r), states' \in Seq(Containers(S))
  PROVE  ParsingInv'
<1>1. RanksBelow(S, r, token'.next)
  <2>1. token.next \in Nat /\ token'.next \in Nat
    BY DEF ParsingInv, IsToken
  <2>2. \A x \in S : r[x] \in Nat /\ r[x] + 2 <= token.next
    BY DEF Held, Nested, RanksBelow
  <2> QED BY <2>1, <2>2 DEF RanksBelow
<1>2. Held(S, r)'
  BY <1>1 DEF Held
<1> QED BY <1>2 DEF ParsingInv

LEMMA ParseKeyStep ==
  ASSUME ParsingInv, NEW S, NEW r, Held(S, r), NEW t, IsToken(t, file.text, token.next),
         NEW open \in Seq(Containers(S)), NEW content \in Objects(S), ParseKey(t, open, content)
  PROVE  /\ ParsingInv' /\ (pc' = "failed" \/ (pc' = "value" /\ token'.next > token.next))
         /\ UNCHANGED <<mapping, table, rows>>
<1>1. file \in Files /\ token.next \in Nat /\ token.next > 1 /\ t.next \in Nat /\ t.next > token.next
      /\ t.v \in Scalars
  BY DEF ParsingInv, IsToken
<1>2. PICK colon : colon = get_token(t)
  OBVIOUS
<1>3. IsToken(colon, file.text, t.next)
  BY <1>1, <1>2, GetToken
<1>4. colon.next \in Nat /\ colon.next > t.next
  BY <1>1, <1>3, TokenFacts
<1>5. IsToken(get_token(colon), file.text, colon.next)
  BY <1>1, <1>3, GetToken
<1>6. CASE IsKey(t) /\ colon.t = ":"
  <2>1. /\ states' = Append(open, [array |-> FALSE, content |-> content, key |-> t.v[2]])
        /\ token' = get_token(colon) /\ pc' = "value"
        /\ UNCHANGED <<file, root, rows, mapping, table>>
    BY <1>2, <1>6 DEF ParseKey
  <2>2. t.v[2] \in Texts
    <3>1. t.v \in {"str"} \X Texts
      BY <1>1, <1>6 DEF IsKey, Scalars
    <3> QED BY <3>1
  <2>3. [array |-> FALSE, content |-> content, key |-> t.v[2]] \in Containers(S)
    BY <2>2 DEF Containers
  <2>4. states' \in Seq(Containers(S))
    BY <2>1, <2>3, AppendProperties
  <2>5. IsToken(token', file.text, 1) /\ token'.next > token.next
    <3>1. IsToken(token', file.text, colon.next)
      BY <1>5, <2>1
    <3>2. token'.next \in Nat /\ token'.next > colon.next /\ IsToken(token', file.text, 1)
      <4>1. colon.next \in Nat /\ 1 \in Nat /\ 1 <= colon.next
        BY <1>1, <1>4
      <4> QED BY <3>1, <4>1, TokenFacts
    <3> QED BY <1>1, <1>4, <3>2
  <2>6. token'.next >= token.next
    BY <1>1, <2>5 DEF IsToken
  <2>7. ParsingInv'
    BY <2>1, <2>4, <2>5, <2>6, GoesOn
  <2> QED BY <2>1, <2>5, <2>7
<1>7. CASE ~(IsKey(t) /\ colon.t = ":")
  <2>1. Fail /\ UNCHANGED parsing
    BY <1>2, <1>7 DEF ParseKey
  <2>2. pc' = "failed" /\ file' = file /\ rows' = rows /\ UNCHANGED <<mapping, table, rows>>
    BY <2>1 DEF Fail
  <2>3. ParsingInv'
    BY <2>1, <2>2, KeepsParsing
  <2> QED BY <2>2, <2>3
<1> QED BY <1>6, <1>7

\* What a step of this parser does: it keeps the invariant, leaves the other
\* parser and the table alone, and reads on, ends a value or ends.
ParseGoesOn ==
  /\ ParsingInv' /\ UNCHANGED <<mapping, table>> /\ pc' \in PCs /\ pc' # "map"
  /\ \/ Ended'
     \/ token'.next > token.next
     \/ pc = "value" /\ pc' = "evaluate"
     \/ pc = "evaluate" /\ pc' = "rows"

LEMMA FailStep ==
  ASSUME ParsingInv, Fail, UNCHANGED parsing
  PROVE  ParseGoesOn
<1>1. pc' = "failed" /\ file' = file /\ rows' = rows /\ UNCHANGED <<mapping, table>>
  BY DEF Fail
<1>2. ParsingInv'
  BY <1>1, KeepsParsing
<1> QED BY <1>1, <1>2 DEF ParseGoesOn, Ended, PCs

LEMMA BeginObjectStep ==
  ASSUME ParsingInv, BeginObject
  PROVE  ParseGoesOn
<1>1. file \in Files /\ token.next \in Nat /\ token.next > 1 /\ IsToken(token, file.text, 1)
  BY DEF ParsingInv, IsToken
<1>2. PICK t : t = get_token(token)
  OBVIOUS
<1>3. IsToken(t, file.text, token.next)
  BY <1>1, <1>2, GetToken
<1>4. PICK S, r : Held(S, r)
  BY DEF ParsingInv
<1>5. CASE t.t = "}"
  <2>1. handle_value(states, <<"obj", <<>>>>) /\ token' = t /\ UNCHANGED <<file, rows, mapping, table>>
    BY <1>2, <1>5 DEF BeginObject
  <2>2. PICK x : x = <<"obj", <<>>>>
    OBVIOUS
  <2>3. Composed(x, S)
    <3>1. <<>> \in [{} -> S]
      OBVIOUS
    <3>2. <<>> \in Objects(S)
      BY <3>1 DEF Objects
    <3> QED BY <2>2, <3>2 DEF Composed
  <2>4. t.next \in Nat /\ t.next > token.next /\ t.next <= Len(file.text) + 1
        /\ IsToken(t, file.text, 1)
    <3>1. "}" \in Structural /\ 1 <= token.next /\ 1 \in Nat
      BY <1>1 DEF Structural
    <3> QED BY <1>1, <1>3, <1>5, <3>1, TokenFacts
  <2>5. PICK n \in Nat, n2 \in Nat : n = token.next /\ n2 = t.next /\ n >= 2 /\ n2 > n
    BY <1>1, <2>4
  <2>6. Nested(S, r) /\ RanksBelow(S, r, n) /\ states \in Seq(Containers(S))
    BY <1>4, <2>5 DEF Held
  <2>7. PICK S2, r2 : Grown(S2, r2, S, n2, x)
    BY <2>3, <2>5, <2>6, Compose
  <2>8. Nested(S2, r2) /\ RanksBelow(S2, r2, n2) /\ S \subseteq S2 /\ x \in S2
    BY <2>7 DEF Grown
  <2>9. states \in Seq(Containers(S2))
    BY <2>6, <2>8, ObjectsGrow
  <2>10. token'.next >= token.next /\ token'.next <= Len(file.text) + 1
         /\ IsToken(token', file.text, 1) /\ RanksBelow(S2, r2, token'.next)
    BY <1>1, <2>1, <2>4, <2>5, <2>8
  <2>11. ParsingInv'
    BY <1>4, <2>1, <2>2, <2>8, <2>9, <2>10, ParsesValue
  <2>12. pc' = "evaluate"
    BY <2>1 DEF handle_value
  <2> QED BY <2>1, <2>4, <2>11, <2>12 DEF ParseGoesOn, PCs
<1>6. CASE t.t # "}"
  <2>1. ParseKey(t, states, <<>>)
    BY <1>2, <1>6 DEF BeginObject
  <2>2. <<>> \in Objects(S)
    <3>1. <<>> \in [{} -> S]
      OBVIOUS
    <3> QED BY <3>1 DEF Objects
  <2>3. PICK content \in Objects(S) : content = <<>>
    BY <2>2
  <2>4. ParseKey(t, states, content) /\ states \in Seq(Containers(S))
    BY <1>4, <2>1, <2>3 DEF Held
  <2>5. /\ ParsingInv' /\ (pc' = "failed" \/ (pc' = "value" /\ token'.next > token.next))
        /\ UNCHANGED <<mapping, table, rows>>
    BY <1>3, <1>4, <2>4, ParseKeyStep
  <2> QED BY <2>5 DEF ParseGoesOn, PCs, Ended
<1> QED BY <1>5, <1>6

LEMMA BeginArrayStep ==
  ASSUME ParsingInv, BeginArray
  PROVE  ParseGoesOn
<1>1. file \in Files /\ token.next \in Nat /\ token.next > 1 /\ IsToken(token, file.text, 1)
  BY DEF ParsingInv, IsToken
<1>2. PICK t : t = get_token(token)
  OBVIOUS
<1>3. IsToken(t, file.text, token.next) /\ token' = t /\ UNCHANGED <<file, rows, mapping, table>>
  BY <1>1, <1>2, GetToken DEF BeginArray
<1>4. PICK S, r : Held(S, r)
  BY DEF ParsingInv
<1>5. t.next \in Nat /\ t.next > token.next /\ IsToken(t, file.text, 1)
      /\ (t.t = "]" => t.next <= Len(file.text) + 1)
  <2>1. "]" \in Structural /\ 1 <= token.next /\ 1 \in Nat
    BY <1>1 DEF Structural
  <2> QED BY <1>1, <1>3, <2>1, TokenFacts
<1>6. CASE t.t = "]"
  <2>1. handle_value(states, <<"arr", <<>>>>)
    BY <1>3, <1>6 DEF BeginArray
  <2>2. PICK x : x = <<"arr", <<>>>>
    OBVIOUS
  <2>3. Composed(x, S)
    BY <2>2, EmptySeq DEF Composed
  <2>4. PICK n \in Nat, n2 \in Nat : n = token.next /\ n2 = t.next /\ n >= 2 /\ n2 > n
    BY <1>1, <1>5
  <2>5. Nested(S, r) /\ RanksBelow(S, r, n) /\ states \in Seq(Containers(S))
    BY <1>4, <2>4 DEF Held
  <2>6. PICK S2, r2 : Grown(S2, r2, S, n2, x)
    BY <2>3, <2>4, <2>5, Compose
  <2>7. Nested(S2, r2) /\ RanksBelow(S2, r2, n2) /\ S \subseteq S2 /\ x \in S2
    BY <2>6 DEF Grown
  <2>8. states \in Seq(Containers(S2))
    BY <2>5, <2>7, ObjectsGrow
  <2>9. token'.next >= token.next /\ token'.next <= Len(file.text) + 1
        /\ IsToken(token', file.text, 1) /\ RanksBelow(S2, r2, token'.next)
    BY <1>1, <1>3, <1>5, <1>6, <2>4, <2>7
  <2>10. ParsingInv'
    BY <1>3, <1>4, <2>1, <2>2, <2>7, <2>8, <2>9, ParsesValue
  <2>11. pc' = "evaluate"
    BY <2>1 DEF handle_value
  <2> QED BY <1>3, <1>5, <2>10, <2>11 DEF ParseGoesOn, PCs
<1>7. CASE t.t # "]"
  <2>1. /\ states' = Append(states, [array |-> TRUE, content |-> <<>>, key |-> <<>>])
        /\ pc' = "value" /\ root' = root
    BY <1>3, <1>7 DEF BeginArray
  <2>2. [array |-> TRUE, content |-> <<>>, key |-> <<>>] \in Containers(S)
    <3>1. <<>> \in Seq(S)
      BY EmptySeq
    <3> QED BY <3>1, NoText DEF Containers
  <2>3. states' \in Seq(Containers(S))
    BY <1>4, <2>1, <2>2, AppendProperties DEF Held
  <2>4. IsToken(token', file.text, 1) /\ token'.next >= token.next
    BY <1>1, <1>3, <1>5
  <2>5. ParsingInv'
    BY <1>3, <1>4, <2>1, <2>3, <2>4, GoesOn
  <2> QED BY <1>3, <1>5, <2>1, <2>5 DEF ParseGoesOn, PCs
<1> QED BY <1>6, <1>7

LEMMA ScalarStep ==
  ASSUME ParsingInv, Scalar
  PROVE  ParseGoesOn
<1>1. file \in Files /\ token.next \in Nat /\ IsToken(token, file.text, 1) /\ token.v \in Scalars
      /\ token.next <= Len(file.text) + 1
  BY DEF ParsingInv, IsToken, Scalar
<1>2. PICK S, r : Held(S, r)
  BY DEF ParsingInv
<1>3. Nested(S, r) /\ RanksBelow(S, r, token.next) /\ states \in Seq(Containers(S)) /\ token.v \in S
  BY <1>1, <1>2 DEF Held, Nested
<1>4. pc = "value" /\ handle_value(states, token.v) /\ UNCHANGED <<file, token, rows, mapping, table>>
  BY DEF Scalar
<1>5. IsToken(token', file.text, 1) /\ token'.next >= token.next
      /\ token'.next <= Len(file.text) + 1 /\ RanksBelow(S, r, token'.next)
  BY <1>1, <1>3, <1>4
<1>6. ParsingInv'
  BY <1>2, <1>3, <1>4, <1>5, ParsesValue
<1>7. pc' = "evaluate"
  BY <1>4 DEF handle_value
<1>8. pc' \in PCs /\ pc' # "map"
  BY <1>7 DEF PCs
<1>9. UNCHANGED <<mapping, table>>
  BY <1>4
<1>10. pc = "value" /\ pc' = "evaluate"
  BY <1>4, <1>7
<1> QED BY <1>6, <1>8, <1>9, <1>10 DEF ParseGoesOn

LEMMA NextElementStep ==
  ASSUME ParsingInv, NextElement
  PROVE  ParseGoesOn
<1>1. file \in Files /\ token.next \in Nat /\ token.next > 1 /\ IsToken(token, file.text, 1)
  BY DEF ParsingInv, IsToken
<1>2. PICK comma : comma = get_token(token)
  OBVIOUS
<1>3. token' = get_token(comma) /\ pc' = "value" /\ UNCHANGED <<file, states, root, rows, mapping, table>>
  BY <1>2 DEF NextElement
<1>4. IsToken(comma, file.text, token.next) /\ comma.next \in Nat /\ comma.next > token.next
  BY <1>1, <1>2, GetToken, TokenFacts
<1>5. IsToken(token', file.text, comma.next)
  BY <1>1, <1>3, <1>4, GetToken
<1>6. IsToken(token', file.text, 1) /\ token'.next > token.next /\ token'.next >= token.next
  <2>1. token'.next \in Nat /\ token'.next > comma.next /\ IsToken(token', file.text, 1)
    <3>1. 1 \in Nat /\ 1 <= comma.next
      BY <1>1, <1>4
    <3> QED BY <1>4, <1>5, <3>1, TokenFacts
  <2> QED BY <1>1, <1>4, <2>1
<1>7. PICK S, r : Held(S, r)
  BY DEF ParsingInv
<1>8. states' \in Seq(Containers(S))
  BY <1>3, <1>7 DEF Held
<1>9. ParsingInv'
  BY <1>3, <1>6, <1>7, <1>8, GoesOn
<1> QED BY <1>3, <1>6, <1>9 DEF ParseGoesOn, PCs

LEMMA NextMemberStep ==
  ASSUME ParsingInv, NextMember
  PROVE  ParseGoesOn
<1>1. file \in Files /\ token.next \in Nat /\ token.next > 1 /\ IsToken(token, file.text, 1)
  BY DEF ParsingInv, IsToken
<1>2. PICK comma, t : /\ comma = get_token(token) /\ t = get_token(comma)
                      /\ ParseKey(t, Front(states), Last(states).content)
  BY DEF NextMember
<1>3. IsToken(comma, file.text, token.next) /\ comma.next \in Nat /\ comma.next > token.next
  BY <1>1, <1>2, GetToken, TokenFacts
<1>4. IsToken(t, file.text, token.next)
  <2>1. IsToken(t, file.text, comma.next)
    BY <1>1, <1>2, <1>3, GetToken
  <2>2. token.next <= comma.next
    BY <1>1, <1>3
  <2> QED BY <1>1, <1>3, <2>1, <2>2, TokenFacts
<1>5. PICK S, r : Held(S, r)
  BY DEF ParsingInv
<1>6. states \in Seq(Containers(S)) /\ states # <<>> /\ ~Last(states).array
  BY <1>5 DEF Held, NextMember
<1>7. Front(states) \in Seq(Containers(S)) /\ Last(states) \in Containers(S)
  BY <1>6, FrontLast
<1>8. Last(states).content \in Objects(S)
  BY <1>6, <1>7 DEF Containers
<1>9. PICK open \in Seq(Containers(S)), content \in Objects(S) :
        open = Front(states) /\ content = Last(states).content
  BY <1>7, <1>8
<1>10. ParseKey(t, open, content)
  BY <1>2, <1>9
<1>11. /\ ParsingInv' /\ (pc' = "failed" \/ (pc' = "value" /\ token'.next > token.next))
       /\ UNCHANGED <<mapping, table, rows>>
  BY <1>4, <1>5, <1>10, ParseKeyStep
<1> QED BY <1>11 DEF ParseGoesOn, PCs, Ended

LEMMA EndContainerStep ==
  ASSUME ParsingInv, EndContainer
  PROVE  ParseGoesOn
<1>1. file \in Files /\ token.next \in Nat /\ token.next > 1 /\ IsToken(token, file.text, 1)
  BY DEF ParsingInv, IsToken
<1>2. PICK t : t = get_token(token)
  OBVIOUS
<1>3. IsToken(t, file.text, token.next) /\ token' = t /\ UNCHANGED <<file, rows, mapping, table>>
      /\ t.t \in {"]", "}"} /\ handle_value(Front(states), Finished(Last(states)))
  BY <1>1, <1>2, GetToken DEF EndContainer
<1>4. PICK S, r : Held(S, r)
  BY DEF ParsingInv
<1>5. t.next \in Nat /\ t.next > token.next /\ IsToken(t, file.text, 1)
      /\ t.next <= Len(file.text) + 1
  <2>1. 1 <= token.next /\ 1 \in Nat
    BY <1>1
  <2>2. t.t \in Structural
    <3>1. t.t \in {"]", "}"}
      BY <1>3
    <3> QED BY <3>1 DEF Structural
  <2>3. IsToken(t, file.text, token.next)
    BY <1>3
  <2> QED BY <1>1, <2>1, <2>2, <2>3, TokenFacts
<1>6. PICK n \in Nat, n2 \in Nat : n = token.next /\ n2 = t.next /\ n >= 2 /\ n2 > n
  BY <1>1, <1>5
<1>7. Nested(S, r) /\ RanksBelow(S, r, n) /\ states \in Seq(Containers(S)) /\ states # <<>>
  BY <1>4, <1>6 DEF Held, EndContainer
<1>8. Front(states) \in Seq(Containers(S)) /\ Last(states) \in Containers(S)
  BY <1>7, FrontLast
<1>9. PICK x : x = Finished(Last(states))
  OBVIOUS
<1>10. Composed(x, S)
  BY <1>8, <1>9, FinishedType
<1>11. PICK S2, r2 : Grown(S2, r2, S, n2, x)
  BY <1>6, <1>7, <1>10, Compose
<1>12. Nested(S2, r2) /\ RanksBelow(S2, r2, n2) /\ S \subseteq S2 /\ x \in S2
  BY <1>11 DEF Grown
<1>13. PICK open \in Seq(Containers(S2)) : open = Front(states)
  BY <1>8, <1>12, ObjectsGrow
<1>14. token'.next >= token.next /\ token'.next <= Len(file.text) + 1
       /\ IsToken(token', file.text, 1) /\ RanksBelow(S2, r2, token'.next)
  <2>1. token' = t
    BY <1>3
  <2>2. RanksBelow(S2, r2, t.next)
    BY <1>6, <1>12
  <2> QED BY <1>1, <1>5, <2>1, <2>2
<1>15. handle_value(open, x)
  BY <1>3, <1>9, <1>13
<1>16. ParsingInv'
  BY <1>3, <1>4, <1>12, <1>14, <1>15, ParsesValue
<1>17. pc' = "evaluate"
  BY <1>3 DEF handle_value
<1>18. pc' \in PCs /\ pc' # "map"
  BY <1>17 DEF PCs
<1> QED BY <1>3, <1>5, <1>16, <1>18 DEF ParseGoesOn

LEMMA EndOfInputStep ==
  ASSUME ParsingInv, EndOfInput
  PROVE  ParseGoesOn
<1>1. PICK S, r : Held(S, r)
  BY DEF ParsingInv
<1>2. Nested(S, r) /\ root \in S /\ pc = "evaluate" /\ states = <<>>
  BY <1>1 DEF EndOfInput, Held
<1>3. CASE get_token(token).t = "end_of_input"
  <2>1. pc' = "rows" /\ rows' = Rows(root) /\ UNCHANGED <<file, parsing, mapping, table>>
    BY <1>3 DEF EndOfInput
  <2>2. token' = token /\ states' = states /\ root' = root /\ file' = file
    BY <2>1 DEF parsing
  <2>3. rows' \in Seq(S)
    BY <1>2, <2>1, RowsType
  <2>4. Held(S, r)'
    BY <1>1, <2>1, <2>2, <2>3 DEF Held
  <2>5. ParsingInv'
    BY <1>2, <2>1, <2>2, <2>4 DEF ParsingInv
  <2> QED BY <1>2, <2>1, <2>5 DEF ParseGoesOn, PCs
<1>4. CASE get_token(token).t # "end_of_input"
  <2>1. root' = Discarded /\ Fail /\ UNCHANGED <<token, states>>
    BY <1>4 DEF EndOfInput
  <2>2. pc' = "failed" /\ file' = file /\ rows' = rows /\ UNCHANGED <<mapping, table>>
    BY <2>1 DEF Fail
  <2>3. Held(S, r)'
    BY <1>1, <2>1, <2>2 DEF Held
  <2>4. ParsingInv'
    BY <2>1, <2>2, <2>3 DEF ParsingInv
  <2> QED BY <2>2, <2>4 DEF ParseGoesOn, PCs, Ended
<1> QED BY <1>3, <1>4

LEMMA ParseStep ==
  ASSUME IInv, Parse
  PROVE  /\ IInv'
         /\ \/ Ended'
            \/ token'.next > token.next
            \/ pc = "value" /\ pc' = "evaluate"
            \/ pc = "evaluate" /\ pc' = "rows"
<1>1. ParsingInv /\ MappingInv
  BY DEF IInv
<1>2. BadValue \/ BadSeparator => Fail /\ UNCHANGED parsing
  BY DEF BadValue, BadSeparator
<1>3. ParseGoesOn
  BY <1>1, <1>2, BeginObjectStep, BeginArrayStep, ScalarStep, NextElementStep, NextMemberStep,
     EndContainerStep, EndOfInputStep, FailStep DEF Parse
<1>4. MappingInv'
  BY <1>1, <1>3 DEF ParseGoesOn, MappingInv, mapping
<1> QED BY <1>3, <1>4 DEF ParseGoesOn, IInv

-----------------------------------------------------------------------------
(* The steps of loadTable.                                                    *)

LEMMA SkipRowStep ==
  ASSUME IInv, SkipRow
  PROVE  IInv' /\ Len(rows') < Len(rows)
<1>1. PICK S, r : Held(S, r)
  BY DEF IInv, ParsingInv
<1>2. /\ pc = "rows" /\ rows # <<>> /\ rows' = Tail(rows)
      /\ UNCHANGED <<file, pc, parsing, mapping, table>>
  BY DEF SkipRow
<1>3. ParsingInv'
  BY <1>2, KeepsParsing DEF IInv
<1>4. MappingInv'
  BY <1>2 DEF IInv, MappingInv, mapping
<1>5. Len(rows') < Len(rows)
  <2>1. rows \in Seq(S)
    BY <1>1 DEF Held
  <2>2. Len(Tail(rows)) = Len(rows) - 1 /\ Len(rows) \in Nat
    BY <1>2, <2>1, HeadTailProperties, LenProperties
  <2> QED BY <1>2, <2>2
<1> QED BY <1>3, <1>4, <1>5 DEF IInv

LEMMA MapRowStep ==
  ASSUME IInv, MapRow
  PROVE  IInv' /\ pc = "rows" /\ pc' = "map"
<1>1. PICK S, r : Held(S, r)
  BY DEF IInv, ParsingInv
<1>2. /\ pc = "rows" /\ rows # <<>> /\ pc' = "map" /\ rowString' = dump(Head(rows), Len(file.text))
      /\ at' = 2 /\ nest' = <<"struct">> /\ expected' = "start" /\ v' = MyData
      /\ UNCHANGED <<file, parsing, rows, table>>
  BY DEF MapRow
<1>3. deep' = FALSE
  BY DEF MapRow
<1>4. rows \in Seq(S) /\ Nested(S, r) /\ RanksBelow(S, r, token.next)
  BY <1>1 DEF Held
<1>5. PICK row \in S : row = Head(rows)
  BY <1>2, <1>4, HeadTailProperties
<1>6. ID' \in IntRange /\ ID' # 0
  <2>1. IDs(row) \subseteq IntRange
    BY <1>4, IDsType
  <2> QED BY <1>5, <2>1 DEF MapRow
<1>7. rowString' \in Texts
  <2>1. PICK depth \in Nat : depth = Len(file.text)
    BY FileText, LenProperties DEF IInv, ParsingInv, Texts
  <2>2. r[row] < depth
    <3>1. r[row] \in Nat /\ r[row] + 2 <= token.next
      BY <1>4 DEF Nested, RanksBelow
    <3>2. token.next \in Nat /\ token.next <= depth + 1
      BY <1>2, <2>1 DEF IInv, ParsingInv, IsToken
    <3> QED BY <3>1, <3>2
  <2>3. dump(row, depth) \in Texts
    BY <1>4, <2>2, DumpType
  <2> QED BY <1>2, <1>5, <2>1, <2>3
<1>8. ParsingInv'
  BY <1>2, KeepsParsing DEF IInv
<1>9. nest' \in Seq(Kinds) /\ nest' # <<>>
  BY <1>2, Single DEF Kinds
<1>10. deep' \in BOOLEAN
  BY <1>3
<1>11. v' \in Entries /\ table' \in Tables /\ pc' \in PCs
  BY <1>2, MyDataType DEF IInv, MappingInv, PCs
<1>12. MappingInv'
  BY <1>2, <1>6, <1>7, <1>9, <1>10, <1>11 DEF MappingInv
<1> QED BY <1>2, <1>8, <1>12 DEF IInv

LEMMA EndStep ==
  ASSUME IInv, file' = file, UNCHANGED parsing, UNCHANGED <<rows, mapping, table>>,
         pc' \in {"loaded", "failed", "undefined"}
  PROVE  IInv' /\ Ended'
<1>1. ParsingInv'
  BY KeepsParsing DEF IInv
<1>2. MappingInv'
  BY DEF IInv, MappingInv, mapping, PCs
<1> QED BY <1>1, <1>2 DEF IInv, Ended

LEMMA LoadStep ==
  ASSUME IInv, Load
  PROVE  /\ IInv'
         /\ \/ Ended'
            \/ Len(rows') < Len(rows)
            \/ pc = "rows" /\ pc' = "map"
<1>1. BadID => file' = file /\ UNCHANGED parsing /\ UNCHANGED <<rows, mapping, table>> /\ pc' = "failed"
  BY DEF BadID, Fail
<1>2. Loaded => file' = file /\ UNCHANGED parsing /\ UNCHANGED <<rows, mapping, table>> /\ pc' = "loaded"
  BY DEF Loaded
<1>3. BadID \/ Loaded => IInv' /\ Ended'
  BY <1>1, <1>2, EndStep
<1> QED BY <1>3, SkipRowStep, MapRowStep DEF Load

-----------------------------------------------------------------------------
(* The steps of the parser of struct_mapping.                                 *)

\* wait finds a character that is expected, none before where it begins.
LEMMA WaitFacts ==
  ASSUME rowString \in Texts, NEW from \in Nat \ {0}, NEW characters, EOF \notin characters
  PROVE  /\ wait(from, characters) \in Nat
         /\ wait(from, characters) # 0 =>
               /\ wait(from, characters) >= from /\ wait(from, characters) \in 1..Len(rowString)
               /\ rowString[wait(from, characters)] \in characters
<1>1. PICK i : i = skip_whitespace(rowString, from)
  OBVIOUS
<1>2. i \in Nat /\ from <= i
  BY <1>1, SkipWhitespace DEF Texts
<1>3. wait(from, characters) = IF get(rowString, i) \in characters THEN i ELSE 0
  BY <1>1 DEF wait
<1>4. Len(rowString) \in Nat
  BY LenProperties DEF Texts
<1>5. get(rowString, i) \in characters => i <= Len(rowString) /\ rowString[i] \in characters
  BY DEF get
<1>6. CASE get(rowString, i) \in characters
  <2>1. wait(from, characters) = i /\ i <= Len(rowString) /\ rowString[i] \in characters
    BY <1>3, <1>5, <1>6
  <2>2. i \in 1..Len(rowString) /\ i >= from
    BY <1>2, <1>4, <2>1
  <2> QED BY <2>1, <2>2
<1>7. CASE get(rowString, i) \notin characters
  BY <1>3, <1>7
<1> QED BY <1>6, <1>7

\* Where a value may begin, and where one that is no scalar does.
ElementStart == ValueStart \cup {"."}

\* What begins an element that is no scalar.
NoScalar == {"{", "[", "n"}

LEMMA ExpectedFacts ==
  ASSUME NEW kind \in Kinds, NEW due \in {"start", "value", "comma"}
  PROVE  /\ EOF \notin Expected(kind, due)
         /\ kind = "array" => Expected(kind, due) \subseteq ElementStart \cup {",", "]"}
<1>1. EOF \notin Digits /\ EOF # QUOTE
  BY DigitsFact DEF EOF, QUOTE
<1>2. EOF \notin ValueStart
  BY <1>1 DEF ValueStart, NumberStart, EOF
<1>3. EOF \notin {"}", ",", "]", "."}
  BY DEF EOF
<1> HIDE DEF EOF
<1>4. CASE kind = "struct"
  BY <1>1, <1>3, <1>4 DEF Expected
<1>5. CASE kind = "array"
  BY <1>2, <1>3, <1>5 DEF Expected, ElementStart
<1> QED BY <1>4, <1>5 DEF Kinds

\* Where the next character that is expected stands.
LEMMA HereFacts ==
  ASSUME MappingInv, pc = "map"
  PROVE  /\ Head(nest) \in Kinds /\ Here \in Nat
         /\ Here # 0 => /\ Here >= at /\ Here \in 1..Len(rowString)
                        /\ rowString[Here] \in Expected(Head(nest), expected)
<1>1. Head(nest) \in Kinds
  BY HeadTailProperties DEF MappingInv
<1>2. PICK characters : characters = Expected(Head(nest), expected)
  OBVIOUS
<1>3. EOF \notin characters
  BY <1>1, <1>2, ExpectedFacts DEF MappingInv
<1>4. rowString \in Texts /\ at \in Nat \ {0}
  BY DEF MappingInv
<1>5. Here = wait(at, characters)
  BY <1>2 DEF Here
<1> QED BY <1>1, <1>2, <1>3, <1>4, <1>5, WaitFacts

\* set_number stops behind the characters a number may have.
LEMMA NumberEndFacts ==
  ASSUME rowString \in Texts, NEW i \in 1..Len(rowString), rowString[i] \in NumberChars
  PROVE  NumberEnd(i) \in Nat /\ NumberEnd(i) > i
<1> DEFINE L == Len(rowString)
           T == {k \in i..(L + 1) : get(rowString, k) \notin NumberChars \cup Blank}
<1>1. L \in Nat /\ i \in Nat /\ i <= L /\ L + 1 \in Nat
  BY LenProperties DEF Texts
<1>2. \A k \in i..L : get(rowString, k) = rowString[k]
  BY <1>1 DEF get
<1> HIDE DEF L
<1>3. PICK m \in i..(L + 1) : m \in T
  <2>1. L + 1 \in i..(L + 1)
    BY <1>1
  <2>2. get(rowString, L + 1) = EOF
    BY <1>1 DEF get, L
  <2>3. EOF \notin NumberChars \cup Blank
    BY DigitsFact DEF NumberChars, Blank, EOF
  <2> QED BY <2>1, <2>2, <2>3
<1>4. PICK k \in i..(L + 1) : k \in T /\ \A j \in i..(k - 1) : j \notin T
  <2> HIDE DEF T
  <2>1. PICK hi \in Nat : hi = L + 1
    BY <1>1
  <2>2. \E k : IsFirst(k, i, hi, T)
    BY <1>1, <1>3, <2>1, First
  <2> QED BY <2>1, <2>2 DEF IsFirst
<1>5. /\ get(rowString, k) \notin NumberChars \cup Blank
      /\ \A j \in i..(k - 1) : rowString[j] \in NumberChars \cup Blank
  <2>1. ASSUME NEW j \in i..(k - 1) PROVE rowString[j] \in NumberChars \cup Blank
    <3>1. j \in i..(L + 1) /\ j \in i..L
      BY <1>1, <1>4
    <3> QED BY <1>2, <1>4, <3>1
  <2> QED BY <1>4, <2>1
<1> DEFINE end == CHOOSE n \in i..(L + 1) :
                    /\ get(rowString, n) \notin NumberChars \cup Blank
                    /\ \A j \in i..(n - 1) : rowString[j] \in NumberChars \cup Blank
<1>6. end \in i..(L + 1) /\ get(rowString, end) \notin NumberChars \cup Blank
  <2> HIDE DEF T
  <2> QED BY <1>4, <1>5
<1>7. NumberEnd(i) = end
  BY DEF NumberEnd, L
<1> HIDE DEF end
<1>8. end # i
  BY <1>1, <1>2, <1>6
<1> QED BY <1>1, <1>6, <1>7, <1>8

\* A value of struct_mapping's parser.
Assigned(x) == \/ x \in {"str"} \X Texts \/ x \in {"bool"} \X BOOLEAN
               \/ x = <<"float", 0>> \/ \E n : x = <<"int", n>>

LEMMA ScalarAtFacts ==
  ASSUME rowString \in Texts, NEW i \in 1..Len(rowString),
         rowString[i] \in ElementStart \ NoScalar
  PROVE  \/ ScalarAt(i).v = Discarded
         \/ Assigned(ScalarAt(i).v) /\ ScalarAt(i).next \in Nat /\ ScalarAt(i).next > i
<1> DEFINE L == Len(rowString)
           close == ClosingQuote(i + 1)
           end == NumberEnd(i)
<1>1. L \in Nat /\ i \in Nat /\ i <= L /\ 1 <= i
  BY LenProperties DEF Texts
<1>2. PICK c : c = rowString[i]
  OBVIOUS
<1>3. QUOTE \notin {"t", "f"}
  BY DEF QUOTE
<1>4. CASE c = QUOTE
  <2>1. ScalarAt(i) = [v |-> IF close = 0 THEN Discarded
                             ELSE <<"str", SubSeq(rowString, i + 1, close - 1)>>,
                       next |-> close + 1]
    BY <1>2, <1>3, <1>4 DEF ScalarAt
  <2>2. close # 0 => close \in (i + 1)..L
    <3> DEFINE quotes == {k \in (i + 1)..L : rowString[k] = QUOTE}
    <3>1. close = IF quotes = {} THEN 0 ELSE CHOOSE k \in quotes : \A m \in quotes : k <= m
      BY DEF ClosingQuote
    <3>2. quotes # {} => \E k \in quotes : \A m \in quotes : k <= m
      <4>1. quotes \in SUBSET Nat
        BY <1>1
      <4> HIDE DEF quotes
      <4> QED BY <4>1, LeastNatural
    <3> HIDE DEF close
    <3>3. quotes # {} => close \in quotes
      <4> HIDE DEF quotes
      <4> QED BY <3>1, <3>2
    <3> QED BY <3>1, <3>3
  <2> HIDE DEF close, L
  <2>3. CASE close = 0
    BY <2>1, <2>3
  <2>4. CASE close # 0
    <3>1. PICK m \in (i + 1)..L : m = close
      BY <2>2, <2>4
    <3>2. SubSeq(rowString, i + 1, m - 1) \in Texts
      <4>1. i + 1 \in 1..(L + 1) /\ m - 1 \in ((i + 1) - 1)..L
        BY <1>1, <3>1
      <4> QED BY <4>1, Parts DEF L
    <3>3. ScalarAt(i).v = <<"str", SubSeq(rowString, i + 1, m - 1)>> /\ ScalarAt(i).next = m + 1
      BY <2>1, <2>4, <3>1
    <3>4. m + 1 \in Nat /\ m + 1 > i
      BY <1>1, <3>1
    <3>5. PICK s \in Texts : s = SubSeq(rowString, i + 1, m - 1)
      BY <3>2
    <3>6. Assigned(<<"str", s>>)
      BY DEF Assigned
    <3> QED BY <3>3, <3>4, <3>5, <3>6
  <2> QED BY <2>3, <2>4
<1>5. CASE c \in {"t", "f"}
  <2>1. ScalarAt(i) = [v |-> <<"bool", c = "t">>, next |-> i + 1]
    BY <1>2, <1>3, <1>5 DEF ScalarAt
  <2>2. PICK b \in BOOLEAN : b = (c = "t")
    OBVIOUS
  <2>3. ScalarAt(i).v = <<"bool", b>> /\ ScalarAt(i).next = i + 1
    BY <2>1, <2>2
  <2>4. Assigned(<<"bool", b>>)
    BY DEF Assigned
  <2> QED BY <1>1, <2>3, <2>4
<1>6. CASE c \notin {QUOTE, "t", "f"}
  <2>1. ScalarAt(i) = [v |-> IF get(rowString, end) \notin {"}", "]", ","} THEN Discarded
                             ELSE Number(Keep(SubSeq(rowString, i, end - 1), NumberChars)),
                       next |-> end]
    BY <1>2, <1>6 DEF ScalarAt
  <2>2. rowString[i] \in NumberChars
    BY <1>2, <1>6 DEF ElementStart, NoScalar, ValueStart, NumberStart, NumberChars
  <2>3. end \in Nat /\ end > i
    BY <2>2, NumberEndFacts
  <2>4. ASSUME NEW s PROVE Number(s) = Discarded \/ Assigned(Number(s))
    BY DEF Number, stod, stoll, Assigned
  <2> HIDE DEF end
  <2>5. PICK x : x = Number(Keep(SubSeq(rowString, i, end - 1), NumberChars))
    OBVIOUS
  <2>6. ScalarAt(i).next = end /\ ScalarAt(i).v \in {Discarded, x}
    <3>1. \/ ScalarAt(i) = [v |-> Discarded, next |-> end]
          \/ ScalarAt(i) = [v |-> x, next |-> end]
      <4>1. CASE get(rowString, end) \notin {"}", "]", ","}
        BY <2>1, <4>1, Zenon
      <4>2. CASE get(rowString, end) \in {"}", "]", ","}
        BY <2>1, <2>5, <4>2, Zenon
      <4> QED BY <4>1, <4>2
    <3> QED BY <3>1
  <2>7. x = Discarded \/ Assigned(x)
    BY <2>4, <2>5
  <2> QED BY <2>3, <2>6, <2>7
<1> QED BY <1>4, <1>5, <1>6

\* What is assigned fits the member it is assigned to.
LEMMA SetType ==
  ASSUME v \in Entries, deep \in BOOLEAN, NEW name, NEW x, Assigned(x), Accepts(name, x)
  PROVE  Set(name, x) \in Entries
<1>1. v.I \in IntRange /\ v.S \in Texts /\ v.B \in BOOLEAN /\ v.A \in Seq(IntRange)
      /\ v = [I |-> v.I, S |-> v.S, B |-> v.B, A |-> v.A]
  BY DEF Entries
<1>2. CASE deep
  <2>1. x[2] \in IntRange
    BY <1>2 DEF Accepts, in_limits
  <2>2. Append(v.A, x[2]) \in Seq(IntRange)
    BY <1>1, <2>1, AppendProperties
  <2>3. Set(name, x) = [v EXCEPT !.A = Append(@, x[2])]
    BY <1>2 DEF Set
  <2> QED BY <2>2, <2>3 DEF Entries
<1>3. CASE ~deep /\ name = <<"I">>
  <2>1. x[2] \in IntRange
    BY <1>3 DEF Accepts, in_limits
  <2>2. Set(name, x) = [v EXCEPT !["I"] = x[2]]
    BY <1>3 DEF Set, Members
  <2> QED BY <2>1, <2>2 DEF Entries
<1>4. CASE ~deep /\ name = <<"S">>
  <2>1. x[1] = "str"
    BY <1>4 DEF Accepts, TypeIn
  <2>2. x[2] \in Texts
    BY <2>1 DEF Assigned
  <2>3. Set(name, x) = [v EXCEPT !["S"] = x[2]]
    BY <1>4 DEF Set, Members
  <2> QED BY <2>2, <2>3 DEF Entries
<1>5. CASE ~deep /\ name = <<"B">>
  <2>1. x[1] = "bool"
    BY <1>5 DEF Accepts, TypeIn
  <2>2. x[2] \in BOOLEAN
    BY <2>1 DEF Assigned
  <2>3. Set(name, x) = [v EXCEPT !["B"] = x[2]]
    BY <1>5 DEF Set, Members
  <2> QED BY <2>2, <2>3 DEF Entries
<1>6. CASE ~deep /\ name = <<"A">>
  BY <1>6 DEF Accepts, TypeIn
<1>7. CASE ~deep /\ name \notin Members
  BY <1>7 DEF Set
<1> QED BY <1>2, <1>3, <1>4, <1>5, <1>6, <1>7 DEF Members

\* A step of this parser inside a row keeps the invariant and reads on or ends.
MapGoesOn == IInv' /\ (Ended' \/ at' > at)

LEMMA MapAdvances ==
  ASSUME IInv, pc = "map", UNCHANGED <<file, pc, parsing, rows, rowString, ID, table>>,
         at' \in Nat, at' > at, nest' \in Seq(Kinds), nest' # <<>>,
         expected' \in {"start", "value", "comma"}, deep' \in BOOLEAN, v' \in Entries
  PROVE  MapGoesOn
<1>1. ParsingInv'
  BY KeepsParsing DEF IInv
<1>2. at' # 0
  BY DEF IInv, MappingInv
<1>3. MappingInv'
  BY <1>2 DEF IInv, MappingInv
<1> QED BY <1>1, <1>3 DEF IInv, MapGoesOn

LEMMA ScanStep ==
  ASSUME IInv, pc = "map", NEW name, NEW i \in 1..Len(rowString), i >= at,
         rowString[i] \in ElementStart, Scan(name, i)
  PROVE  MapGoesOn
<1>1. /\ rowString \in Texts /\ at \in Nat \ {0} /\ nest \in Seq(Kinds) /\ nest # <<>>
      /\ expected \in {"start", "value", "comma"} /\ v \in Entries
  BY DEF IInv, MappingInv
<1>2. deep \in BOOLEAN
  BY DEF IInv, MappingInv
<1>3. i \in Nat /\ i + 1 \in Nat /\ i + 1 > at
  <2>1. Len(rowString) \in Nat
    BY <1>1, LenProperties DEF Texts
  <2> QED BY <1>1, <2>1
<1> DEFINE x == ScalarAt(i).v
<1>4. CASE /\ rowString[i] = "n"
           /\ at' = i + 1 /\ expected' = "value"
           /\ UNCHANGED <<file, pc, parsing, rows, rowString, ID, nest, deep, v, table>>
  <2>1. deep' \in BOOLEAN
    BY <1>2, <1>4
  <2> QED BY <1>1, <1>3, <1>4, <2>1, MapAdvances
<1>5. CASE /\ rowString[i] \notin NoScalar
           /\ Accepts(name, x) /\ v' = Set(name, x)
           /\ at' = ScalarAt(i).next /\ expected' = "value"
           /\ UNCHANGED <<file, pc, parsing, rows, rowString, ID, nest, deep, table>>
  <2>1. \/ x = Discarded
        \/ Assigned(x) /\ ScalarAt(i).next \in Nat /\ ScalarAt(i).next > i
    BY <1>1, <1>5, ScalarAtFacts
  <2>2. x # Discarded
    <3>1. x[1] \in {"int", "str", "bool", "float"}
      BY <1>2, <1>5 DEF Accepts, TypeIn
    <3> QED BY <3>1 DEF Discarded
  <2>3. Set(name, x) \in Entries
    BY <1>1, <1>2, <1>5, <2>1, <2>2, SetType
  <2>4. at' \in Nat /\ at' > at
    BY <1>1, <1>3, <1>5, <2>1, <2>2
  <2>5. deep' \in BOOLEAN
    BY <1>2, <1>5
  <2> HIDE DEF x
  <2> QED BY <1>1, <1>5, <2>3, <2>4, <2>5, MapAdvances
<1>6. CASE Fail /\ UNCHANGED parsing
  <2>1. file' = file /\ UNCHANGED <<rows, mapping, table>> /\ pc' = "failed"
    BY <1>6 DEF Fail
  <2> QED BY <1>6, <2>1, EndStep DEF MapGoesOn
<1>7. CASE /\ rowString[i] \in {"{", "["}
           /\ nest' = <<IF rowString[i] = "{" THEN "struct" ELSE "array">> \o nest
           /\ deep' = (deep \/ name = <<"A">>)
           /\ at' = i + 1 /\ expected' = "start"
           /\ UNCHANGED <<file, pc, parsing, rows, rowString, ID, v, table>>
  <2>1. PICK kind \in Kinds : kind = IF rowString[i] = "{" THEN "struct" ELSE "array"
    BY DEF Kinds
  <2>2. <<kind>> \o nest \in Seq(Kinds) /\ <<kind>> \o nest # <<>>
    <3>1. <<kind>> \in Seq(Kinds) /\ Len(<<kind>>) = 1
      BY Single
    <3>2. <<kind>> \o nest \in Seq(Kinds) /\ Len(<<kind>> \o nest) = 1 + Len(nest) /\ Len(nest) \in Nat
      BY <1>1, <3>1, ConcatProperties, LenProperties
    <3> QED BY <3>2, EmptySeq
  <2>3. nest' \in Seq(Kinds) /\ nest' # <<>>
    BY <1>7, <2>1, <2>2
  <2>4. deep' \in BOOLEAN
    BY <1>7
  <2>5. v' \in Entries /\ at' \in Nat /\ at' > at /\ expected' \in {"start", "value", "comma"}
    BY <1>1, <1>3, <1>7
  <2> QED BY <1>7, <2>3, <2>4, <2>5, MapAdvances
<1>8. CASE pc' = "undefined" /\ UNCHANGED <<file, parsing, rows, mapping, table>>
  BY <1>8, EndStep DEF MapGoesOn
<1> QED BY <1>4, <1>5, <1>6, <1>7, <1>8, Zenon DEF Scan, NoScalar, x

\* The end of a row enters it into the table.
LEMMA EmplaceType ==
  ASSUME NEW t \in Tables, NEW id \in IntRange \ {0}, NEW row \in Entries
  PROVE  emplace(t, id, row) \in Tables
<1>1. PICK D \in SUBSET (IntRange \ {0}) : t \in [D -> Entries]
  BY DEF Tables
<1>2. D \cup {id} \in SUBSET (IntRange \ {0})
  OBVIOUS
<1>3. assign(t, id, row) \in [D \cup {id} -> Entries]
  BY <1>1 DEF assign
<1>4. assign(t, id, row) \in Tables
  BY <1>2, <1>3 DEF Tables
<1> QED BY <1>4 DEF emplace

LEMMA MapEndStep ==
  ASSUME IInv, MapEnd
  PROVE  MapGoesOn
<1>1. /\ rowString \in Texts /\ at \in Nat \ {0} /\ nest \in Seq(Kinds) /\ nest # <<>>
      /\ v \in Entries /\ table \in Tables /\ ID \in IntRange \ {0} /\ pc = "map"
      /\ rows # <<>>
  BY DEF IInv, MappingInv, MapEnd
<1>2. Here \in Nat /\ Here # 0 /\ Here >= at
  BY <1>1, HereFacts DEF IInv, MapEnd
<1>3. /\ nest' = Tail(nest) /\ at' = Here + 1 /\ expected' = "value"
      /\ UNCHANGED <<file, parsing, rowString, ID, v>>
  BY DEF MapEnd
<1>4. deep' = FALSE
  BY DEF MapEnd
<1>5. nest' \in Seq(Kinds) /\ at' \in Nat \ {0} /\ at' > at
  <2>1. Tail(nest) \in Seq(Kinds)
    BY <1>1, HeadTailProperties
  <2> HIDE DEF Here
  <2> QED BY <1>1, <1>2, <1>3, <2>1
<1>6. CASE nest' # <<>>
  <2>1. UNCHANGED <<pc, rows, table>>
    BY <1>6 DEF MapEnd
  <2>2. deep' \in BOOLEAN
    BY <1>4
  <2>3. v' \in Entries /\ expected' \in {"start", "value", "comma"}
    BY <1>1, <1>3
  <2> QED BY <1>1, <1>3, <1>5, <1>6, <2>1, <2>2, <2>3, MapAdvances
<1>7. CASE nest' = <<>>
  <2>1. pc' = "rows" /\ rows' = Tail(rows) /\ table' = emplace(table, ID, v)
    BY <1>7 DEF MapEnd
  <2>2. ParsingInv'
    BY <1>1, <1>3, <2>1, KeepsParsing DEF IInv
  <2>3. table' \in Tables
    BY <1>1, <2>1, EmplaceType
  <2>4. deep' \in BOOLEAN
    BY <1>4
  <2>5. MappingInv'
    BY <1>1, <1>3, <1>5, <2>1, <2>3, <2>4 DEF MappingInv, PCs
  <2> QED BY <1>5, <2>2, <2>5 DEF IInv, MapGoesOn
<1> QED BY <1>6, <1>7

LEMMA MapStep ==
  ASSUME IInv, Map
  PROVE  pc = "map" /\ MapGoesOn
<1>1. pc = "map" /\ nest # <<>> /\ nest \in Seq(Kinds) /\ v \in Entries /\ rowString \in Texts
      /\ at \in Nat \ {0}
  BY DEF Map, MapMember, MapElement, MapComma, MapEnd, BadCharacter, IInv, MappingInv
<1>2. /\ Head(nest) \in Kinds /\ Here \in Nat
      /\ Here # 0 => /\ Here >= at /\ Here \in 1..Len(rowString)
                     /\ rowString[Here] \in Expected(Head(nest), expected)
  BY <1>1, HereFacts DEF IInv
<1> HIDE DEF Here
<1>3. CASE MapMember
  <2>1. PICK close, value : /\ value = ValueBehind(close) /\ value # 0
                            /\ close = ClosingQuote(Here + 1) /\ Here # 0
                            /\ Scan(SubSeq(rowString, Here + 1, close - 1), value)
    BY <1>3 DEF MapMember
  <2>2. close \in Nat /\ close >= at
    <3>1. close # 0
      BY <2>1 DEF ValueBehind
    <3> DEFINE quotes == {k \in (Here + 1)..Len(rowString) : rowString[k] = QUOTE}
    <3>2. close = IF quotes = {} THEN 0 ELSE CHOOSE k \in quotes : \A m \in quotes : k <= m
      BY <2>1 DEF ClosingQuote
    <3>3. quotes \in SUBSET Nat
      BY <1>2
    <3>4. quotes # {} => close \in quotes
      <4> HIDE DEF quotes
      <4>1. quotes # {} => \E k \in quotes : \A m \in quotes : k <= m
        BY <3>3, LeastNatural
      <4> QED BY <3>2, <4>1
    <3>5. close \in (Here + 1)..Len(rowString)
      BY <3>1, <3>2, <3>4
    <3> QED BY <1>1, <1>2, <2>1, <3>5
  <2>3. value \in 1..Len(rowString) /\ value >= at /\ rowString[value] \in ElementStart
    <3> DEFINE colon == wait(close + 1, {":"})
    <3>1. close # 0 /\ close + 1 \in Nat \ {0}
      BY <2>1, <2>2 DEF ValueBehind
    <3>2. colon # 0 /\ value = wait(colon + 1, ValueStart)
      BY <2>1, <3>1 DEF ValueBehind
    <3>3. colon \in Nat /\ colon >= close + 1
      <4>1. EOF \notin {":"}
        BY DEF EOF
      <4> QED BY <1>1, <3>1, <3>2, <4>1, WaitFacts
    <3>4. PICK n \in Nat \ {0} : n = colon + 1 /\ n >= at
      BY <1>1, <2>2, <3>3
    <3>5. EOF \notin ValueStart
      <4>1. EOF \notin Digits /\ EOF # QUOTE
        BY DigitsFact DEF EOF, QUOTE
      <4> QED BY <4>1 DEF ValueStart, NumberStart, EOF
    <3>6. wait(n, ValueStart) # 0
      BY <2>1, <3>2, <3>4
    <3>7. value >= n /\ value \in 1..Len(rowString) /\ rowString[value] \in ValueStart
      BY <1>1, <3>2, <3>4, <3>5, <3>6, WaitFacts
    <3>8. value >= at
      BY <1>1, <3>4, <3>7
    <3> QED BY <3>7, <3>8 DEF ElementStart
  <2> QED BY <1>1, <2>1, <2>3, ScanStep
<1>4. CASE MapElement
  <2>1. Here # 0 /\ Head(nest) = "array" /\ rowString[Here] \notin {",", "]"} /\ Scan(<<>>, Here)
    BY <1>4 DEF MapElement
  <2>2. expected \in {"start", "value", "comma"}
    BY DEF IInv, MappingInv
  <2>3. rowString[Here] \in ElementStart
    BY <1>2, <2>1, <2>2, ExpectedFacts
  <2> QED BY <1>1, <1>2, <2>1, <2>3, ScanStep
<1>5. CASE MapComma
  <2>1. /\ Here # 0 /\ at' = Here + 1 /\ expected' = "comma"
        /\ UNCHANGED <<file, pc, parsing, rows, rowString, ID, nest, deep, v, table>>
    BY <1>5 DEF MapComma
  <2>2. at' \in Nat /\ at' > at
    BY <1>1, <1>2, <2>1
  <2>3. deep' \in BOOLEAN
    BY <2>1 DEF IInv, MappingInv
  <2> QED BY <1>1, <2>1, <2>2, <2>3, MapAdvances
<1>6. CASE BadCharacter
  <2>1. Fail /\ UNCHANGED parsing
    BY <1>6 DEF BadCharacter
  <2>2. file' = file /\ UNCHANGED <<rows, mapping, table>> /\ pc' = "failed"
    BY <2>1 DEF Fail
  <2> QED BY <1>1, <2>1, <2>2, EndStep DEF MapGoesOn
<1> QED BY <1>1, <1>3, <1>4, <1>5, <1>6, MapEndStep DEF Map

-----------------------------------------------------------------------------
(* The theorems.                                                              *)

LEMMA NextInv ==
  ASSUME IInv, [Next]_vars
  PROVE  IInv'
<1>1. CASE Parse
  BY <1>1, ParseStep
<1>2. CASE Load
  BY <1>2, LoadStep
<1>3. CASE Map
  BY <1>3, MapStep DEF MapGoesOn
<1>4. CASE UNCHANGED vars
  BY <1>4 DEF vars, IInv, ParsingInv, MappingInv, Held
<1> QED BY <1>1, <1>2, <1>3, <1>4 DEF Next, Terminated

\* The invariant: the parsed value is well formed and no deeper than the text read,
\* so dump writes every row out as text; the row being filled in and the table
\* hold what MyData can.
THEOREM Invariant == Spec => []IInv
<1>1. Init => IInv
  BY InitInv
<1>2. IInv /\ [Next]_vars => IInv'
  BY NextInv
<1> QED BY <1>1, <1>2, PTL DEF Spec

\* loadTables: whatever the file, what is in the table and in the row being read
\* fits an int wherever MyData has one.
THEOREM TypeCorrect == Spec => []TypeOK
<1>1. IInv => TypeOK
  BY TypeOKFromInv DEF IInv
<1> QED BY <1>1, Invariant, PTL

\* loadTables: every step of the two parsers and of the loop over the rows reads on
\* in the text, turns to the next row or ends, whatever the text.
THEOREM GetsOn == Spec => ReadsOn
<1> DEFINE Step == \/ Ended'
                   \/ token'.next > token.next
                   \/ pc = "value" /\ pc' = "evaluate"
                   \/ pc = "evaluate" /\ pc' = "rows"
                   \/ Len(rows') < Len(rows)
                   \/ pc = "rows" /\ pc' = "map"
                   \/ pc = "map" /\ at' > at
<1>1. IInv /\ [Next]_vars => [Step]_vars
  <2> SUFFICES ASSUME IInv, Next PROVE Step \/ UNCHANGED vars
    OBVIOUS
  <2>1. CASE Parse
    BY <2>1, ParseStep
  <2>2. CASE Load
    BY <2>2, LoadStep
  <2>3. CASE Map
    BY <2>3, MapStep DEF MapGoesOn
  <2>4. CASE Terminated
    BY <2>4 DEF Terminated
  <2> QED BY <2>1, <2>2, <2>3, <2>4 DEF Next
<1>2. Spec => [][Step]_vars
  BY <1>1, Invariant, PTL DEF Spec
<1> QED BY <1>2 DEF ReadsOn

-----------------------------------------------------------------------------
(* A value that is being read, element by element.                            *)

\* Whatever is joined is in the result.
Has(q, c) == \E j \in 1..Len(FlattenSeq(q)) : FlattenSeq(q)[j] = c

LEMMA FlattenSeqHas ==
  ASSUME NEW S, NEW q \in Seq(Seq(S)), NEW i \in 1..Len(q), NEW c \in S, q[i] = <<c>>
  PROVE  Has(q, c)
<1>1. PICK n \in Nat, k \in Nat : n = Len(q) /\ k + 1 = i
  <2>1. Len(q) \in Nat /\ i - 1 \in Nat /\ (i - 1) + 1 = i
    BY LenProperties
  <2> QED BY <2>1
<1>2. PICK a \in Seq(Seq(S)), b \in Seq(Seq(S)) : a = SubSeq(q, 1, k) /\ b = SubSeq(q, k + 1, n)
  <2>1. \A j \in 1..n : q[j] \in Seq(S)
    BY <1>1, ElementOfSeq
  <2>2. SubSeq(q, 1, k) \in Seq(Seq(S))
    <3>1. \A j \in 1..k : q[j] \in Seq(S)
      BY <1>1, <2>1
    <3> QED BY <1>1, <3>1, SubSeqProperties
  <2>3. SubSeq(q, k + 1, n) \in Seq(Seq(S))
    <3>1. \A j \in (k + 1)..n : q[j] \in Seq(S)
      BY <1>1, <2>1
    <3> QED BY <1>1, <3>1, SubSeqProperties
  <2> QED BY <2>2, <2>3
<1>3. q = a \o b
  <2>1. k \in 0..n
    BY <1>1
  <2>2. SubSeq(q, 1, k) \o SubSeq(q, k + 1, Len(q)) = SubSeq(q, 1, Len(q))
    <3>1. 1 \in 1..(Len(q) + 1) /\ k \in (1 - 1)..Len(q) /\ Len(q) \in k..Len(q)
      BY <1>1
    <3> QED BY <3>1, ConcatAdjacentSubSeq
  <2>3. SubSeq(q, 1, Len(q)) = q
    BY SubSeqFull
  <2> QED BY <1>1, <1>2, <2>2, <2>3
<1>4. After(q, k) = <<c>> \o After(q, k + 1) /\ After(q, k + 1) \in Seq(S)
  <2>1. k \in 0..Len(q) /\ k # Len(q) /\ k + 1 \in 0..Len(q)
    BY <1>1
  <2> QED BY <1>1, <2>1, AfterFacts
<1>5. PICK x \in Seq(S), y \in Seq(S), z \in Seq(S) :
         x = FlattenSeq(a) /\ z = After(q, k + 1) /\ y = <<c>>
  <2>1. FlattenSeq(a) \in Seq(S)
    BY FlattenSeqType
  <2> QED BY <1>4, <2>1, Single
<1>6. FlattenSeq(q) = x \o (y \o z)
  <2>1. FlattenSeq(a \o b) = FlattenSeq(a) \o FlattenSeq(b)
    BY FlattenSeqJoined
  <2>2. FlattenSeq(b) = After(q, k)
    BY <1>1, <1>2 DEF After
  <2> QED BY <1>3, <1>4, <1>5, <2>1, <2>2
<1>7. PICK yz \in Seq(S) : yz = y \o z
  BY ConcatProperties
<1>8. PICK l \in Nat, m \in Nat : l = Len(x) /\ m = Len(z)
  BY LenProperties
<1>9. Len(y) = 1 /\ y[1] = c
  BY <1>5
<1>10. Len(yz) = 1 + m /\ yz[1] = c
  <2>1. /\ Len(yz) = Len(y) + Len(z)
        /\ \A j \in 1..(Len(y) + Len(z)) : yz[j] = IF j <= Len(y) THEN y[j] ELSE z[j - Len(y)]
    BY <1>7, ConcatProperties
  <2>2. 1 \in 1..(1 + m)
    BY <1>8
  <2> QED BY <1>8, <1>9, <2>1, <2>2
<1>11. PICK u \in Seq(S) : u = x \o yz
  BY ConcatProperties
<1>12. Len(u) = l + (1 + m) /\ u[l + 1] = c
  <2>1. /\ Len(u) = Len(x) + Len(yz)
        /\ \A j \in 1..(Len(x) + Len(yz)) : u[j] = IF j <= Len(x) THEN x[j] ELSE yz[j - Len(x)]
    BY <1>11, ConcatProperties
  <2>2. l + 1 \in 1..(l + (1 + m)) /\ ~(l + 1 <= l) /\ (l + 1) - l = 1
    BY <1>8
  <2> QED BY <1>8, <1>10, <2>1, <2>2
<1>13. l + 1 \in 1..Len(u)
  BY <1>8, <1>12
<1> QED BY <1>6, <1>7, <1>11, <1>12, <1>13 DEF Has

\* The names of members that can be read as they were written.
Keys == {k \in Range(Names) : NoEnd(k)}

\* The keys are texts.
LEMMA KeysType == Keys \subseteq Texts
<1>1. Names \in Seq(Seq(STRING))
  BY TextAssumption
<1>2. \A k \in Range(Names) : k \in Seq(STRING)
  BY <1>1, LenProperties, ElementOfSeq DEF Range
<1>3. Seq(STRING) \subseteq Texts
  BY DEF Texts, Character
<1> QED BY <1>2, <1>3 DEF Keys

\* All members have their place among the keys.
LEMMA KeysOfAll ==
  ASSUME NEW D \in SUBSET Keys, NEW f, DOMAIN f = D
  PROVE  {KeysOf(f)[j] : j \in 1..Len(KeysOf(f))} = D
<1>1. KeysOf(f) \in Seq(D)
  BY KeysOfType, KeysType
<1>2. \A j \in 1..Len(KeysOf(f)) : KeysOf(f)[j] \in D
  BY <1>1, ElementOfSeq
<1>3. ASSUME NEW k \in D PROVE \E j \in 1..Len(KeysOf(f)) : KeysOf(f)[j] = k
  <2> DEFINE q == [i \in DOMAIN Names |-> IF Names[i] \in D THEN <<Names[i]>> ELSE <<>>]
  <2>1. Names \in Seq(Seq(STRING)) /\ Len(Names) \in Nat /\ DOMAIN Names = 1..Len(Names)
    BY TextAssumption, LenProperties
  <2>2. PICK i \in 1..Len(Names) : Names[i] = k
    BY <2>1 DEF Keys, Range
  <2>3. q \in Seq(Seq(Texts)) /\ Len(q) = Len(Names)
    <3>1. ASSUME NEW j \in 1..Len(Names)
          PROVE  (IF Names[j] \in D THEN <<Names[j]>> ELSE <<>>) \in Seq(Texts)
      <4>1. Names[j] \in D => Names[j] \in Texts
        BY KeysType
      <4>2. Names[j] \in D => <<Names[j]>> \in Seq(Texts)
        BY <4>1, Single
      <4> QED BY <4>2, EmptySeq
    <3>2. q \in [1..Len(Names) -> Seq(Texts)]
      BY <2>1, <3>1
    <3> HIDE DEF q
    <3> QED BY <2>1, <3>2, IsSeq
  <2>4. q[i] = <<k>>
    BY <2>1, <2>2
  <2>5. KeysOf(f) = FlattenSeq(q)
    BY DEF KeysOf, Keep
  <2> HIDE DEF q
  <2>6. i \in 1..Len(q) /\ k \in Texts
    BY <2>3, KeysType
  <2>7. Has(q, k)
    BY <2>3, <2>4, <2>6, FlattenSeqHas
  <2> QED BY <2>5, <2>7 DEF Has
<1> QED BY <1>2, <1>3

\* A value over G, with keys that can be read back.
Readable(x, G) == \/ \E s \in Seq(G) : x = <<"arr", s>>
                  \/ \E D \in SUBSET Keys : \E f \in [D -> G] : x = <<"obj", f>>

\* A readable value is a composite one.
LEMMA ReadableComposed ==
  ASSUME NEW G, NEW x, Readable(x, G)
  PROVE  Composed(x, G)
<1>1. CASE \E s \in Seq(G) : x = <<"arr", s>>
  BY <1>1 DEF Composed
<1>2. ASSUME NEW D \in SUBSET Keys, NEW f \in [D -> G], x = <<"obj", f>> PROVE Composed(x, G)
  <2>1. D \in SUBSET Texts
    BY KeysType
  <2>2. f \in Objects(G)
    BY <2>1 DEF Objects
  <2> QED BY <1>2, <2>2 DEF Composed
<1> QED BY <1>1, <1>2 DEF Readable

\* What a container holds when k elements have been read of x.
Partial(x, k) == IF x[1] = "arr" THEN SubSeq(x[2], 1, k)
                 ELSE [y \in {KeysOf(x[2])[j] : j \in 1..k} |-> x[2][y]]

\* A frame of the parser; one that holds the first k elements of x; and one that waits
\* for the next.
Frame(array, content, key) == [array |-> array, content |-> content, key |-> key]
Holds(G, c, x, k) ==
  /\ Readable(x, G) /\ k \in 0..Len(Elems(x))
  /\ \E key : c = Frame(x[1] = "arr", Partial(x, k), key)
Awaits(G, c, x, k) ==
  /\ Holds(G, c, x, k) /\ k # Len(Elems(x))
  /\ x[1] # "arr" => c.key = KeysOf(x[2])[k + 1]

\* The frame with other content.
Replaced(c, content) == [c EXCEPT !.content = content]

LEMMA ReplacedFrame ==
  ASSUME NEW a, NEW p, NEW key, NEW u
  PROVE  Replaced(Frame(a, p, key), u) = Frame(a, u, key)
  BY DEF Replaced, Frame

\* A frame that waits for an element holds it after Into.
LEMMA IntoHolds ==
  ASSUME NEW G, NEW c, NEW x, NEW k, Awaits(G, c, x, k)
  PROVE  Holds(G, Into(c, Elems(x)[k + 1]), x, k + 1)
<1>1. /\ Readable(x, G) /\ k \in 0..Len(Elems(x)) /\ k # Len(Elems(x))
      /\ \E key : c = Frame(x[1] = "arr", Partial(x, k), key)
      /\ x[1] # "arr" => c.key = KeysOf(x[2])[k + 1]
  BY DEF Awaits, Holds
<1>2. Composed(x, G)
  BY <1>1, ReadableComposed
<1>3. PICK n \in Nat : n = Len(Elems(x))
  BY <1>2, CompositeFacts
<1>4. k \in Nat /\ k + 1 \in 1..n /\ k + 1 \in 0..n
  BY <1>1, <1>3
<1>5. PICK e : e = Elems(x)[k + 1]
  OBVIOUS
<1>6. PICK key : c = Frame(x[1] = "arr", Partial(x, k), key)
  BY <1>1
<1>7. Into(c, e) = Frame(x[1] = "arr", Partial(x, k + 1), key)
  <2>1. CASE x[1] = "arr"
    <3>1. PICK s \in Seq(G) : x = <<"arr", s>>
      BY <1>1, <2>1 DEF Readable
    <3>2. Elems(x) = s /\ Partial(x, k) = SubSeq(s, 1, k) /\ Partial(x, k + 1) = SubSeq(s, 1, k + 1)
      BY <3>1 DEF Elems, Partial
    <3>3. SubSeq(s, 1, k + 1) = SubSeq(s, 1, k) \o <<s[k + 1]>>
      <4>1. k < Len(s)
        BY <1>3, <1>4, <3>2
      <4> QED BY <1>4, <4>1, Prefix
    <3>4. PICK p \in Seq(G) : p = SubSeq(s, 1, k)
      <4>1. \A i \in 1..k : s[i] \in G
        BY <1>3, <1>4, <3>2, ElementOfSeq
      <4>2. k \in Int /\ 1 \in Int
        BY <1>4
      <4>3. SubSeq(s, 1, k) \in Seq(G)
        BY <4>1, <4>2, SubSeqProperties
      <4> QED BY <4>3
    <3>5. e \in G /\ e = s[k + 1]
      BY <1>3, <1>4, <1>5, <3>2, ElementOfSeq
    <3>6. Append(p, e) = p \o <<e>>
      BY <3>5, AppendIsConcat
    <3>7. c = Frame(TRUE, p, key)
      BY <1>6, <2>1, <3>2, <3>4
    <3>8. c.array = TRUE /\ c.content = p
      BY <3>7 DEF Frame
    <3>9. Into(c, e) = [c EXCEPT !.content = Append(p, e)]
      BY <3>8 DEF Into
    <3>10. [c EXCEPT !.content = Append(p, e)] = Frame(TRUE, Append(p, e), key)
      <4>1. PICK u : u = Append(p, e)
        OBVIOUS
      <4>2. [c EXCEPT !.content = u] = Frame(TRUE, u, key)
        <5>1. Replaced(Frame(TRUE, p, key), u) = Frame(TRUE, u, key)
          BY ReplacedFrame
        <5> QED BY <3>7, <5>1 DEF Replaced
      <4> QED BY <4>1, <4>2
    <3>11. Append(p, e) = Partial(x, k + 1)
      BY <3>2, <3>3, <3>4, <3>5, <3>6
    <3> QED BY <2>1, <3>9, <3>10, <3>11
  <2>2. CASE x[1] # "arr"
    <3>1. PICK D, f : D \in SUBSET Keys /\ f \in [D -> G] /\ x = <<"obj", f>>
      BY <1>1, <2>2 DEF Readable
    <3>2. PICK keys : keys = KeysOf(f)
      OBVIOUS
    <3>3. /\ Partial(x, k) = [y \in {keys[j] : j \in 1..k} |-> f[y]]
          /\ Partial(x, k + 1) = [y \in {keys[j] : j \in 1..(k + 1)} |-> f[y]]
      BY <2>2, <3>1, <3>2 DEF Partial
    <3>4. c.key = keys[k + 1] /\ e = f[keys[k + 1]]
      <4>1. c.key = keys[k + 1]
        BY <1>1, <2>2, <3>1, <3>2
      <4>2. e = x[2][KeysOf(x[2])[k + 1]]
        BY <1>2, <1>3, <1>4, <1>5, <2>2, CompositeFacts
      <4> QED BY <3>1, <3>2, <4>1, <4>2
    <3>5. {keys[j] : j \in 1..(k + 1)} = {keys[j] : j \in 1..k} \cup {keys[k + 1]}
      BY <1>4
    <3>6. assign(Partial(x, k), c.key, e) = Partial(x, k + 1)
      <4>1. DOMAIN Partial(x, k) = {keys[j] : j \in 1..k}
        BY <3>3
      <4>2. assign(Partial(x, k), c.key, e)
              = [y \in {keys[j] : j \in 1..(k + 1)} |-> IF y = keys[k + 1] THEN e ELSE Partial(x, k)[y]]
        BY <3>4, <3>5, <4>1 DEF assign
      <4>3. \A y \in {keys[j] : j \in 1..(k + 1)} :
               (IF y = keys[k + 1] THEN e ELSE Partial(x, k)[y]) = f[y]
        BY <3>3, <3>4, <3>5
      <4> QED BY <3>3, <4>2, <4>3
    <3>7. c = Frame(FALSE, Partial(x, k), key)
      BY <1>6, <2>2
    <3>8. c.array = FALSE /\ c.content = Partial(x, k)
      BY <3>7 DEF Frame
    <3>9. Into(c, e) = [c EXCEPT !.content = assign(Partial(x, k), c.key, e)]
      BY <3>8 DEF Into
    <3>10. [c EXCEPT !.content = assign(Partial(x, k), c.key, e)]
             = Frame(FALSE, assign(Partial(x, k), c.key, e), key)
      <4>1. PICK u : u = assign(Partial(x, k), c.key, e)
        OBVIOUS
      <4>2. [c EXCEPT !.content = u] = Frame(FALSE, u, key)
        <5>1. PICK p : p = Partial(x, k)
          OBVIOUS
        <5>2. Replaced(Frame(FALSE, p, key), u) = Frame(FALSE, u, key)
          BY ReplacedFrame
        <5> QED BY <3>7, <5>1, <5>2 DEF Replaced
      <4> QED BY <4>1, <4>2
    <3> QED BY <2>2, <3>6, <3>9, <3>10
  <2> QED BY <2>1, <2>2
<1> QED BY <1>1, <1>3, <1>4, <1>5, <1>7 DEF Holds

\* The container that ends is the value.
LEMMA FinishedIs ==
  ASSUME NEW G, NEW c, NEW x, Holds(G, c, x, Len(Elems(x)))
  PROVE  Finished(c) = x
<1>1. Readable(x, G)
  BY DEF Holds
<1>2. PICK key : c = Frame(x[1] = "arr", Partial(x, Len(Elems(x))), key)
  BY DEF Holds
<1>3. Composed(x, G)
  BY <1>1, ReadableComposed
<1>4. CASE x[1] = "arr"
  <2>1. PICK s \in Seq(G) : x = <<"arr", s>>
    BY <1>1, <1>4 DEF Readable
  <2>2. Elems(x) = s /\ Partial(x, Len(Elems(x))) = SubSeq(s, 1, Len(s))
    BY <2>1 DEF Elems, Partial
  <2>3. SubSeq(s, 1, Len(s)) = s
    BY SubSeqFull
  <2>4. c = Frame(TRUE, s, key)
    BY <1>2, <1>4, <2>2, <2>3
  <2>5. c.array = TRUE /\ c.content = s
    BY <2>4 DEF Frame
  <2> QED BY <2>1, <2>5 DEF Finished
<1>5. CASE x[1] # "arr"
  <2>1. PICK D, f : D \in SUBSET Keys /\ f \in [D -> G] /\ x = <<"obj", f>>
    BY <1>1, <1>5 DEF Readable
  <2>2. Len(KeysOf(f)) = Len(Elems(x))
    <3>1. Len(KeysOf(x[2])) = Len(Elems(x))
      BY <1>3, <1>5, CompositeFacts
    <3> QED BY <2>1, <3>1
  <2>3. Partial(x, Len(Elems(x))) = [y \in {KeysOf(f)[j] : j \in 1..Len(KeysOf(f))} |-> f[y]]
    BY <1>5, <2>1, <2>2 DEF Partial
  <2>4. {KeysOf(f)[j] : j \in 1..Len(KeysOf(f))} = D
    <3>1. DOMAIN f = D
      BY <2>1
    <3>2. D \in SUBSET Keys
      BY <2>1
    <3> QED BY <3>1, <3>2, KeysOfAll
  <2>5. Partial(x, Len(Elems(x))) = f
    BY <2>1, <2>3, <2>4
  <2>6. c = Frame(FALSE, f, key)
    BY <1>2, <1>5, <2>5
  <2>7. c.array = FALSE /\ c.content = f
    BY <2>6 DEF Frame
  <2> QED BY <2>1, <2>7 DEF Finished
<1> QED BY <1>4, <1>5

-----------------------------------------------------------------------------
(* The values that are being read, from the outermost to the innermost.       *)

\* In doc the element ks[1] is being read, in that one the element ks[2] and so on;
\* ts[i] is what text is left behind the i-th of these values.
DuePath(doc, G, w, open, n, xs, ts, ks) ==
  /\ xs \in [0..n -> G] /\ ts \in [0..n -> Texts] /\ ks \in [1..n -> Nat]
  /\ xs[0] = doc /\ ts[0] = <<>>
  /\ \A i \in 1..n : /\ Awaits(G, open[i], xs[i - 1], ks[i])
                     /\ xs[i] = Elems(xs[i - 1])[ks[i] + 1]
                     /\ ts[i] = Rest(w, xs[i - 1], ks[i] + 1) \o ts[i - 1]

\* The parser has open to close, with y as the value of the innermost and t behind it.
Due(doc, G, w, open, y, t) ==
  \E n \in Nat : \E xs, ts, ks :
     n = Len(open) /\ DuePath(doc, G, w, open, n, xs, ts, ks) /\ y = xs[n] /\ t = ts[n]

\* What is due is a value and a text.
LEMMA DueType ==
  ASSUME NEW doc, NEW G, NEW w, NEW open, NEW y, NEW t, Due(doc, G, w, open, y, t)
  PROVE  y \in G /\ t \in Texts
<1>1. PICK n \in Nat : \E xs, ts, ks :
         n = Len(open) /\ DuePath(doc, G, w, open, n, xs, ts, ks) /\ y = xs[n] /\ t = ts[n]
  BY DEF Due
<1>2. PICK xs, ts, ks :
         n = Len(open) /\ DuePath(doc, G, w, open, n, xs, ts, ks) /\ y = xs[n] /\ t = ts[n]
  BY <1>1
<1>3. n \in 0..n /\ xs \in [0..n -> G] /\ ts \in [0..n -> Texts]
  BY <1>2 DEF DuePath
<1> QED BY <1>2, <1>3

\* With nothing open the document is due, and nothing is behind it.
LEMMA DueNil ==
  ASSUME NEW doc, NEW G, doc \in G, NEW w
  PROVE  Due(doc, G, w, <<>>, doc, <<>>)
<1> DEFINE xs == [i \in 0..0 |-> doc]
           ts == [i \in 0..0 |-> <<>>]
           ks == [i \in 1..0 |-> 0]
<1>1. xs \in [0..0 -> G] /\ ts \in [0..0 -> Texts] /\ ks \in [1..0 -> Nat]
  BY NoText
<1>2. xs[0] = doc /\ ts[0] = <<>>
  OBVIOUS
<1>3. ~ \E i \in 1..0 : TRUE
  OBVIOUS
<1> HIDE DEF xs, ts, ks
<1>4. DuePath(doc, G, w, <<>>, 0, xs, ts, ks)
  BY <1>1, <1>2, <1>3 DEF DuePath
<1>5. 0 \in Nat /\ 0 = Len(<<>>)
  OBVIOUS
<1> QED BY <1>2, <1>4, <1>5 DEF Due

LEMMA DueOutermost ==
  ASSUME NEW doc, NEW G, NEW w, NEW y, NEW t, Due(doc, G, w, <<>>, y, t)
  PROVE  y = doc /\ t = <<>>
<1>1. PICK n \in Nat : \E xs, ts, ks :
         n = Len(<<>>) /\ DuePath(doc, G, w, <<>>, n, xs, ts, ks) /\ y = xs[n] /\ t = ts[n]
  BY DEF Due
<1>2. PICK xs, ts, ks :
         n = Len(<<>>) /\ DuePath(doc, G, w, <<>>, n, xs, ts, ks) /\ y = xs[n] /\ t = ts[n]
  BY <1>1
<1>3. n = 0
  BY <1>2
<1> QED BY <1>2, <1>3 DEF DuePath

\* One value deeper.
LEMMA DuePush ==
  ASSUME NEW doc, NEW G, NEW w, NEW T, NEW open \in Seq(T), NEW x, NEW t, Due(doc, G, w, open, x, t),
         NEW c \in T, NEW k \in Nat, Awaits(G, c, x, k),
         NEW y \in G, y = Elems(x)[k + 1], NEW u \in Texts, u = Rest(w, x, k + 1) \o t
  PROVE  Due(doc, G, w, Append(open, c), y, u)
<1>1. PICK n \in Nat : \E xs, ts, ks :
         n = Len(open) /\ DuePath(doc, G, w, open, n, xs, ts, ks) /\ x = xs[n] /\ t = ts[n]
  BY DEF Due
<1>2. PICK xs, ts, ks :
         n = Len(open) /\ DuePath(doc, G, w, open, n, xs, ts, ks) /\ x = xs[n] /\ t = ts[n]
  BY <1>1
<1>3. /\ xs \in [0..n -> G] /\ ts \in [0..n -> Texts] /\ ks \in [1..n -> Nat]
      /\ xs[0] = doc /\ ts[0] = <<>>
      /\ \A i \in 1..n : /\ Awaits(G, open[i], xs[i - 1], ks[i])
                         /\ xs[i] = Elems(xs[i - 1])[ks[i] + 1]
                         /\ ts[i] = Rest(w, xs[i - 1], ks[i] + 1) \o ts[i - 1]
  BY <1>2 DEF DuePath
<1>4. PICK m \in Nat : m = n + 1
  OBVIOUS
<1> DEFINE xs2 == [i \in 0..m |-> IF i = m THEN y ELSE xs[i]]
           ts2 == [i \in 0..m |-> IF i = m THEN u ELSE ts[i]]
           ks2 == [i \in 1..m |-> IF i = m THEN k ELSE ks[i]]
<1>5. /\ xs2 \in [0..m -> G] /\ ts2 \in [0..m -> Texts] /\ ks2 \in [1..m -> Nat]
      /\ xs2[m] = y /\ ts2[m] = u /\ ks2[m] = k
      /\ \A i \in 0..n : xs2[i] = xs[i] /\ ts2[i] = ts[i]
      /\ \A i \in 1..n : ks2[i] = ks[i]
  BY <1>3, <1>4
<1> HIDE DEF xs2, ts2, ks2
<1>6. PICK open2 : open2 = Append(open, c)
  OBVIOUS
<1>7. Len(open2) = m /\ open2[m] = c /\ \A i \in 1..n : open2[i] = open[i]
  BY <1>2, <1>4, <1>6, AppendProperties
<1>8. \A i \in 1..m : /\ Awaits(G, open2[i], xs2[i - 1], ks2[i])
                      /\ xs2[i] = Elems(xs2[i - 1])[ks2[i] + 1]
                      /\ ts2[i] = Rest(w, xs2[i - 1], ks2[i] + 1) \o ts2[i - 1]
  <2> TAKE i \in 1..m
  <2>1. CASE i = m
    <3>1. i - 1 = n /\ n \in 0..n
      BY <1>4, <2>1
    <3>2. xs2[i - 1] = x /\ ts2[i - 1] = t
      BY <1>2, <1>5, <3>1
    <3> QED BY <1>5, <1>7, <2>1, <3>2
  <2>2. CASE i # m
    <3>1. i \in 1..n /\ i \in 0..n /\ i - 1 \in 0..n
      BY <1>4, <2>2
    <3>2. /\ open2[i] = open[i] /\ ks2[i] = ks[i] /\ xs2[i] = xs[i] /\ ts2[i] = ts[i]
          /\ xs2[i - 1] = xs[i - 1] /\ ts2[i - 1] = ts[i - 1]
      BY <1>5, <1>7, <3>1
    <3> QED BY <1>3, <3>1, <3>2
  <2> QED BY <2>1, <2>2
<1>9. xs2[0] = doc /\ ts2[0] = <<>>
  <2>1. 0 \in 0..n
    OBVIOUS
  <2> QED BY <1>3, <1>5, <2>1
<1>10. DuePath(doc, G, w, open2, m, xs2, ts2, ks2)
  BY <1>5, <1>8, <1>9 DEF DuePath
<1>11. Due(doc, G, w, open2, y, u)
  <2>1. m = Len(open2) /\ DuePath(doc, G, w, open2, m, xs2, ts2, ks2) /\ y = xs2[m] /\ u = ts2[m]
    BY <1>5, <1>7, <1>10
  <2> QED BY <2>1 DEF Due
<1> QED BY <1>6, <1>11

\* One value up.
Above(doc, G, w, open, c, y, t, x, k, u) ==
  /\ x \in G /\ k \in Nat /\ u \in Texts
  /\ Due(doc, G, w, open, x, u) /\ Awaits(G, c, x, k)
  /\ y = Elems(x)[k + 1] /\ t = Rest(w, x, k + 1) \o u

\* What is due with a frame less.
LEMMA DuePop ==
  ASSUME NEW doc, NEW G, NEW w, NEW T, NEW open \in Seq(T), open # <<>>, NEW y, NEW t,
         Due(doc, G, w, open, y, t)
  PROVE  \E x, k, u : Above(doc, G, w, Front(open), Last(open), y, t, x, k, u)
<1>1. PICK n \in Nat : \E xs, ts, ks :
         n = Len(open) /\ DuePath(doc, G, w, open, n, xs, ts, ks) /\ y = xs[n] /\ t = ts[n]
  BY DEF Due
<1>2. PICK xs, ts, ks :
         n = Len(open) /\ DuePath(doc, G, w, open, n, xs, ts, ks) /\ y = xs[n] /\ t = ts[n]
  BY <1>1
<1>3. /\ xs \in [0..n -> G] /\ ts \in [0..n -> Texts] /\ ks \in [1..n -> Nat]
      /\ xs[0] = doc /\ ts[0] = <<>>
      /\ \A i \in 1..n : /\ Awaits(G, open[i], xs[i - 1], ks[i])
                         /\ xs[i] = Elems(xs[i - 1])[ks[i] + 1]
                         /\ ts[i] = Rest(w, xs[i - 1], ks[i] + 1) \o ts[i - 1]
  BY <1>2 DEF DuePath
<1>4. n # 0
  BY <1>2, EmptySeq
<1>5. PICK m \in Nat : m + 1 = n
  <2>1. n - 1 \in Nat /\ (n - 1) + 1 = n
    BY <1>4
  <2> QED BY <2>1
<1>6. PICK open2 : open2 = Front(open)
  OBVIOUS
<1>7. Len(open2) = m /\ (\A i \in 1..m : open2[i] = open[i]) /\ Last(open) = open[n]
  <2>1. Front(open) = SubSeq(open, 1, Len(open) - 1) /\ Last(open) = open[Len(open)]
    BY DEF Front, Last
  <2>2. Len(open) - 1 = m
    BY <1>2, <1>5
  <2>3. \A i \in 1..m : open[i] \in T
    BY <1>2, <1>5, ElementOfSeq
  <2>4. Len(SubSeq(open, 1, m)) = m /\ \A i \in 1..m : SubSeq(open, 1, m)[i] = open[i]
    BY <2>3, SubSeqProperties
  <2> QED BY <1>2, <1>6, <2>1, <2>2, <2>4
<1> DEFINE xs2 == [i \in 0..m |-> xs[i]]
           ts2 == [i \in 0..m |-> ts[i]]
           ks2 == [i \in 1..m |-> ks[i]]
<1>8. /\ xs2 \in [0..m -> G] /\ ts2 \in [0..m -> Texts] /\ ks2 \in [1..m -> Nat]
      /\ \A i \in 0..m : xs2[i] = xs[i] /\ ts2[i] = ts[i]
      /\ \A i \in 1..m : ks2[i] = ks[i]
  BY <1>3, <1>5
<1> HIDE DEF xs2, ts2, ks2
<1>9. \A i \in 1..m : /\ Awaits(G, open2[i], xs2[i - 1], ks2[i])
                      /\ xs2[i] = Elems(xs2[i - 1])[ks2[i] + 1]
                      /\ ts2[i] = Rest(w, xs2[i - 1], ks2[i] + 1) \o ts2[i - 1]
  <2> TAKE i \in 1..m
  <2>1. i \in 1..n /\ i \in 0..m /\ i - 1 \in 0..m
    BY <1>5
  <2>2. /\ open2[i] = open[i] /\ ks2[i] = ks[i] /\ xs2[i] = xs[i] /\ ts2[i] = ts[i]
        /\ xs2[i - 1] = xs[i - 1] /\ ts2[i - 1] = ts[i - 1]
    BY <1>7, <1>8, <2>1
  <2> QED BY <1>3, <2>1, <2>2
<1>10. xs2[0] = doc /\ ts2[0] = <<>>
  <2>1. 0 \in 0..m
    OBVIOUS
  <2> QED BY <1>3, <1>8, <2>1
<1>11. DuePath(doc, G, w, open2, m, xs2, ts2, ks2)
  BY <1>8, <1>9, <1>10 DEF DuePath
<1>12. Due(doc, G, w, open2, xs2[m], ts2[m])
  BY <1>7, <1>11 DEF Due
<1>13. m \in 0..m /\ n \in 1..n /\ n - 1 = m
  BY <1>5
<1>14. xs2[m] = xs[m] /\ ts2[m] = ts[m] /\ xs[m] \in G /\ ts[m] \in Texts
  BY <1>8, <1>13
<1>15. /\ Awaits(G, open[n], xs[m], ks[n]) /\ xs[n] = Elems(xs[m])[ks[n] + 1]
       /\ ts[n] = Rest(w, xs[m], ks[n] + 1) \o ts[m] /\ ks[n] \in Nat
  BY <1>3, <1>13
<1>16. Above(doc, G, w, Front(open), Last(open), y, t, xs[m], ks[n], ts[m])
  BY <1>2, <1>6, <1>7, <1>12, <1>14, <1>15 DEF Above
<1> QED BY <1>16

-----------------------------------------------------------------------------
(* What the lexer finds in what was written.                                  *)

\* The values of S, what they are written as, and those of them, G, that can be read
\* back.
Writing(S, r, w, G) == /\ Nested(S, r) /\ Writes(S, w) /\ G \subseteq S
                       /\ \A x \in G : Writable(x) \/ Readable(x, G)

\* The elements of a readable value and their texts.
LEMMA ReadableIn ==
  ASSUME NEW S, NEW r, NEW w, NEW G, Writing(S, r, w, G), NEW x \in G, Readable(x, G)
  PROVE  /\ Nested(S, r) /\ Writes(S, w) /\ w \in [S -> Texts] /\ x \in S /\ Composed(x, S)
         /\ Elems(x) \in Seq(G) /\ Len(Elems(x)) \in Nat
         /\ \A i \in 1..Len(Elems(x)) : Elems(x)[i] \in G /\ w[Elems(x)[i]] \in Texts
         /\ w[x] \in Texts
<1>1. Nested(S, r) /\ Writes(S, w) /\ G \subseteq S
  BY DEF Writing
<1>2. w \in [S -> Texts]
  BY <1>1 DEF Writes
<1>3. Composed(x, G)
  BY ReadableComposed
<1>4. Seq(G) \subseteq Seq(S) /\ Objects(G) \subseteq Objects(S)
  BY <1>1, ObjectsGrow
<1>5. Composed(x, S)
  BY <1>3, <1>4 DEF Composed
<1>6. Elems(x) \in Seq(G) /\ Len(Elems(x)) \in Nat /\ \A i \in 1..Len(Elems(x)) : Elems(x)[i] \in G
  BY <1>3, CompositeFacts
<1> QED BY <1>1, <1>2, <1>5, <1>6

\* A character of structure.
LEMMA ScanStructural ==
  ASSUME NEW text \in Texts, NEW q \in Nat, NEW c \in Structural, NEW t \in Texts,
         Left(text, q, <<c>> \o t)
  PROVE  scan(text, q + 1) = Token(c, <<"null", 0>>, q + 2) /\ Left(text, q + 1, t) /\ q + 1 \in Nat
<1>1. c \in Literals /\ c # "LF"
  BY DEF Structural, Literals
<1>2. Left(text, q + 1, t) /\ get(text, q + 1) = c /\ c \notin Blank
  BY <1>1, ScanCharacter
<1>3. c # "BOM"
  BY DEF Structural
<1>4. scan(text, q + 1) = Token(c, <<"null", 0>>, q + 2)
  BY <1>2, <1>3, ScanCases
<1> QED BY <1>2, <1>4

\* An array or an object begins with its bracket.
LEMMA ScanOpening ==
  ASSUME NEW S, NEW r, NEW w, NEW G, Writing(S, r, w, G), NEW x \in G, Readable(x, G),
         NEW text \in Texts, NEW q \in Nat, NEW t \in Texts, Left(text, q, w[x] \o t)
  PROVE  /\ scan(text, q + 1) = Token(Opens(x), <<"null", 0>>, q + 2)
         /\ Left(text, q + 1, Rest(w, x, 0) \o t) /\ q + 1 \in Nat
<1>1. /\ Nested(S, r) /\ Writes(S, w) /\ x \in S /\ Composed(x, S) /\ Len(Elems(x)) \in Nat
  BY ReadableIn
<1>2. PICK u : u = Rest(w, x, 0) /\ u \in Texts /\ w[x] = <<Opens(x)>> \o u
  <2>1. 0 \in 0..Len(Elems(x))
    BY <1>1
  <2> QED BY <1>1, <2>1, RestFacts
<1>3. PICK c : c = Opens(x) /\ c \in {"[", "{"}
  BY DEF Opens
<1>4. c \in Structural /\ <<c>> \in Texts
  <2>1. c \in Literals
    BY <1>3 DEF Literals
  <2> QED BY <1>3, <2>1, LiteralTexts DEF Structural
<1>5. PICK ut \in Texts : ut = u \o t
  BY <1>2, Joined
<1>6. (<<c>> \o u) \o t = <<c>> \o ut
  BY <1>2, <1>4, <1>5, JoinedTwice
<1>7. Left(text, q, <<c>> \o ut)
  BY <1>2, <1>3, <1>6
<1>8. scan(text, q + 1) = Token(c, <<"null", 0>>, q + 2) /\ Left(text, q + 1, ut) /\ q + 1 \in Nat
  BY <1>4, <1>7, ScanStructural
<1> QED BY <1>2, <1>3, <1>5, <1>8

\* It ends with the other one.
LEMMA ScanClosing ==
  ASSUME NEW S, NEW r, NEW w, NEW G, Writing(S, r, w, G), NEW x \in G, Readable(x, G),
         NEW text \in Texts, NEW q \in Nat, NEW t \in Texts,
         Left(text, q, Rest(w, x, Len(Elems(x))) \o t)
  PROVE  /\ scan(text, q + 1) = Token(Closes(x), <<"null", 0>>, q + 2)
         /\ Left(text, q + 1, t)
<1>1. /\ Nested(S, r) /\ Writes(S, w) /\ x \in S /\ Composed(x, S)
  BY ReadableIn
<1>2. PICK c : c = Closes(x) /\ c \in {"]", "}"}
  BY DEF Closes
<1>3. Rest(w, x, Len(Elems(x))) = <<c>>
  BY <1>1, <1>2, RestFacts
<1>4. c \in Structural
  BY <1>2 DEF Structural
<1>5. Left(text, q, <<c>> \o t)
  BY <1>3
<1>6. scan(text, q + 1) = Token(c, <<"null", 0>>, q + 2) /\ Left(text, q + 1, t)
  BY <1>4, <1>5, ScanStructural
<1> QED BY <1>2, <1>6

\* In between, a comma comes before every element but the first.
Commas(w, x, k, text, q, t) ==
  IF k = 0 THEN Left(text, q, t)
  ELSE scan(text, q + 1) = Token(",", <<"null", 0>>, q + 2) /\ Left(text, q + 1, t)

\* scan reads the comma in front of an element.
LEMMA ScanComma ==
  ASSUME NEW w, NEW x, NEW k \in Nat, NEW text \in Texts, NEW q \in Nat, NEW t \in Texts,
         Left(text, q, Comma(k + 1) \o t)
  PROVE  Commas(w, x, k, text, q, t)
<1>1. CASE k = 0
  <2>1. Comma(k + 1) = <<>>
    BY <1>1 DEF Comma
  <2>2. <<>> \o t = t
    BY ConcatEmptySeq DEF Texts
  <2> QED BY <1>1, <2>1, <2>2 DEF Commas
<1>2. CASE k # 0
  <2>1. Comma(k + 1) = <<",">>
    <3>1. k + 1 # 1
      BY <1>2
    <3> QED BY <3>1 DEF Comma
  <2>2. "," \in Structural
    BY DEF Structural
  <2>3. Left(text, q, <<",">> \o t)
    BY <2>1
  <2>4. scan(text, q + 1) = Token(",", <<"null", 0>>, q + 2) /\ Left(text, q + 1, t)
    BY <2>2, <2>3, ScanStructural
  <2> QED BY <1>2, <2>4 DEF Commas
<1> QED BY <1>1, <1>2

\* A key is read as it was written, and a colon behind it.
LEMMA ScanKey ==
  ASSUME NEW key \in Keys, NEW text \in Texts, NEW q \in Nat, NEW t \in Texts,
         Left(text, q, quoted(key) \o (<<":">> \o t))
  PROVE  \E m \in Nat :
            /\ scan(text, q + 1) = Token("value", <<"str", key>>, m + 1)
            /\ scan(text, m + 1) = Token(":", <<"null", 0>>, m + 2)
            /\ Left(text, m + 1, t)
<1>1. key \in Texts /\ \A j \in 1..Len(key) : key[j] \notin {EOF, "NUL"}
  BY KeysType DEF Keys, NoEnd
<1>2. PICK m \in Nat : m = q + Len(quoted(key))
  <2>1. Len(quoted(key)) \in Nat
    BY <1>1, QuotedType, LenProperties DEF Texts
  <2> QED BY <2>1
<1>3. PICK u \in Texts : u = <<":">> \o t
  <2>1. <<":">> \in Texts
    BY LiteralTexts DEF Literals
  <2> QED BY <2>1, Joined
<1>4. scan(text, q + 1) = Token("value", <<"str", key>>, m + 1)
  BY <1>1, <1>2, <1>3, ScanQuoted
<1>5. Left(text, m, u)
  <2>1. quoted(key) \in Texts
    BY <1>1, QuotedType
  <2> QED BY <1>2, <1>3, <2>1, LeftJoined
<1>6. ":" \in Structural
  BY DEF Structural
<1>7. scan(text, m + 1) = Token(":", <<"null", 0>>, m + 2) /\ Left(text, m + 1, t)
  BY <1>3, <1>5, <1>6, ScanStructural
<1> QED BY <1>4, <1>7

\* The next element: a comma, if it is not the first; a key, if it is a member's; and
\* the value, behind which the rest is left.
ElementLeft(w, x, k, text, q, t) ==
  Left(text, q, w[Elems(x)[k + 1]] \o (Rest(w, x, k + 1) \o t))

\* The tokens in front of an element: its key and colon, and the comma.
KeyLeft(w, x, k, text, q, t) ==
  IF x[1] = "arr" THEN ElementLeft(w, x, k, text, q, t)
  ELSE \E m \in Nat :
          /\ scan(text, q + 1) = Token("value", <<"str", KeysOf(x[2])[k + 1]>>, m + 1)
          /\ scan(text, m + 1) = Token(":", <<"null", 0>>, m + 2)
          /\ ElementLeft(w, x, k, text, m + 1, t)
CommaLeft(w, x, k, text, q, t) ==
  IF k = 0 THEN KeyLeft(w, x, k, text, q, t)
  ELSE scan(text, q + 1) = Token(",", <<"null", 0>>, q + 2) /\ KeyLeft(w, x, k, text, q + 1, t)

\* scan reads them.
LEMMA ScanNext ==
  ASSUME NEW S, NEW r, NEW w, NEW G, Writing(S, r, w, G), NEW x \in G, Readable(x, G),
         NEW text \in Texts, NEW q \in Nat, NEW t \in Texts,
         NEW k \in Nat, k < Len(Elems(x)), Left(text, q, Rest(w, x, k) \o t)
  PROVE  /\ CommaLeft(w, x, k, text, q, t) /\ Rest(w, x, k + 1) \in Texts
         /\ Elems(x)[k + 1] \in G
<1>1. /\ Nested(S, r) /\ Writes(S, w) /\ x \in S /\ Composed(x, S) /\ Len(Elems(x)) \in Nat
      /\ \A i \in 1..Len(Elems(x)) : Elems(x)[i] \in G /\ w[Elems(x)[i]] \in Texts
  BY ReadableIn
<1>2. /\ k \in 0..Len(Elems(x)) /\ k \in 0..(Len(Elems(x)) - 1)
      /\ k + 1 \in 0..Len(Elems(x)) /\ k + 1 \in 1..Len(Elems(x))
  BY <1>1
<1>3. PICK u : u = Rest(w, x, k + 1) /\ u \in Texts
  BY <1>1, <1>2, RestFacts
<1>4. PICK e : e = w[Elems(x)[k + 1]] /\ e \in Texts
  BY <1>1, <1>2
<1>5. PICK l : l = Lead(x, k + 1) /\ l \in Texts
  BY <1>1, <1>2, CompositeFacts
<1>6. Rest(w, x, k) = l \o (e \o u)
  BY <1>1, <1>2, <1>3, <1>4, <1>5, RestFacts
<1>7. PICK v1 \in Texts : v1 = e \o (u \o t)
  <2>1. u \o t \in Texts
    BY <1>3, Joined
  <2> QED BY <1>4, <2>1, Joined
<1>8. Left(text, q, l \o v1)
  <2>1. (l \o (e \o u)) \o t = l \o (e \o (u \o t))
    <3>1. PICK eu \in Texts : eu = e \o u
      BY <1>3, <1>4, Joined
    <3>2. (e \o u) \o t = e \o (u \o t)
      <4>1. Associates(e, u, t)
        BY <1>3, <1>4, TextsAssociate
      <4> QED BY <4>1 DEF Associates
    <3>3. (l \o eu) \o t = l \o (eu \o t)
      <4>1. Associates(l, eu, t)
        BY <1>5, <3>1, TextsAssociate
      <4> QED BY <4>1 DEF Associates
    <3> QED BY <3>1, <3>2, <3>3
  <2> QED BY <1>6, <1>7, <2>1
<1>9. ASSUME NEW p \in Nat, Left(text, p, v1) PROVE ElementLeft(w, x, k, text, p, t)
  BY <1>3, <1>4, <1>7, <1>9 DEF ElementLeft
<1>10. PICK c \in Texts : c = Comma(k + 1)
  BY CommaType
<1>11. CASE x[1] = "arr"
  <2>1. l = c
    BY <1>5, <1>10, <1>11 DEF Lead
  <2>2. Commas(w, x, k, text, q, v1)
    BY <1>8, <1>10, <2>1, ScanComma
  <2>3. CASE k = 0
    <3>1. Left(text, q, v1)
      BY <2>2, <2>3 DEF Commas
    <3> QED BY <1>1, <1>2, <1>3, <1>9, <1>11, <2>3, <3>1 DEF CommaLeft, KeyLeft
  <2>4. CASE k # 0
    <3>1. scan(text, q + 1) = Token(",", <<"null", 0>>, q + 2) /\ Left(text, q + 1, v1)
      BY <2>2, <2>4 DEF Commas
    <3>2. ElementLeft(w, x, k, text, q + 1, t)
      <4>1. PICK p \in Nat : p = q + 1
        OBVIOUS
      <4>2. ElementLeft(w, x, k, text, p, t)
        BY <1>9, <3>1, <4>1
      <4> QED BY <4>1, <4>2
    <3> QED BY <1>1, <1>2, <1>3, <1>11, <2>4, <3>1, <3>2 DEF CommaLeft, KeyLeft
  <2> QED BY <2>3, <2>4
<1>12. CASE x[1] # "arr"
  <2>1. PICK key : key = KeysOf(x[2])[k + 1] /\ key \in Keys
    <3>1. PICK D, f : D \in SUBSET Keys /\ f \in [D -> G] /\ x = <<"obj", f>>
      BY <1>12 DEF Readable
    <3>2. KeysOf(x[2])[k + 1] \in DOMAIN x[2]
      BY <1>1, <1>2, <1>12, CompositeFacts
    <3> QED BY <3>1, <3>2
  <2>2. key \in Texts
    BY <2>1, KeysType
  <2>3. PICK y \in Texts, z \in Texts : y = quoted(key) /\ z = <<":">> \o v1
    <3>1. <<":">> \in Texts
      BY LiteralTexts DEF Literals
    <3> QED BY <2>2, <3>1, QuotedType, Joined
  <2>4. PICK yz \in Texts : yz = y \o z
    BY Joined
  <2>5. l = (c \o y) \o <<":">>
    BY <1>5, <1>10, <1>12, <2>1, <2>3 DEF Lead
  <2>6. l \o v1 = c \o yz
    <3>1. <<":">> \in Texts
      BY LiteralTexts DEF Literals
    <3>2. PICK d : d = <<":">> /\ d \in Texts
      BY <3>1
    <3>3. AssociatesThrice(c, y, d, v1)
      BY <3>2, JoinedThrice
    <3>4. ((c \o y) \o d) \o v1 = c \o (y \o (d \o v1))
      BY <3>3 DEF AssociatesThrice
    <3> QED BY <2>3, <2>4, <2>5, <3>2, <3>4
  <2>7. Commas(w, x, k, text, q, yz)
    BY <1>8, <1>10, <2>6, ScanComma
  <2>8. ASSUME NEW p \in Nat, Left(text, p, yz) PROVE KeyLeft(w, x, k, text, p, t)
    <3>1. Left(text, p, quoted(key) \o (<<":">> \o v1))
      BY <2>3, <2>4, <2>8
    <3>2. PICK m \in Nat :
            /\ scan(text, p + 1) = Token("value", <<"str", key>>, m + 1)
            /\ scan(text, m + 1) = Token(":", <<"null", 0>>, m + 2)
            /\ Left(text, m + 1, v1)
      BY <2>1, <3>1, ScanKey
    <3>3. ElementLeft(w, x, k, text, m + 1, t)
      BY <1>9, <3>2
    <3> QED BY <1>12, <2>1, <3>2, <3>3 DEF KeyLeft
  <2>9. CASE k = 0
    <3>1. Left(text, q, yz)
      BY <2>7, <2>9 DEF Commas
    <3>2. KeyLeft(w, x, k, text, q, t)
      BY <2>8, <3>1
    <3> QED BY <1>1, <1>2, <1>3, <2>9, <3>2 DEF CommaLeft
  <2>10. CASE k # 0
    <3>1. scan(text, q + 1) = Token(",", <<"null", 0>>, q + 2) /\ Left(text, q + 1, yz)
      BY <2>7, <2>10 DEF Commas
    <3>2. KeyLeft(w, x, k, text, q + 1, t)
      <4>1. PICK p \in Nat : p = q + 1
        OBVIOUS
      <4>2. KeyLeft(w, x, k, text, p, t)
        BY <2>8, <3>1, <4>1
      <4> QED BY <4>1, <4>2
    <3> QED BY <1>1, <1>2, <1>3, <2>10, <3>1, <3>2 DEF CommaLeft
  <2> QED BY <2>9, <2>10
<1> QED BY <1>11, <1>12

\* Behind a value comes a comma, the end of what it is in, or nothing.
LEMMA GetFirst ==
  ASSUME NEW c \in Character, NEW a \in Texts
  PROVE  get(<<c>> \o a, 1) = c
<1>1. PICK s \in Texts : s = <<c>>
  BY OneCharacter
<1>2. Len(s) = 1 /\ s[1] = c
  BY <1>1
<1>3. PICK n \in Nat : n = Len(a)
  BY LenProperties DEF Texts
<1>4. PICK z \in Texts : z = s \o a
  BY Joined
<1>5. /\ Len(z) = Len(s) + Len(a)
      /\ \A j \in 1..(Len(s) + Len(a)) : z[j] = IF j <= Len(s) THEN s[j] ELSE a[j - Len(s)]
  BY <1>4, ConcatProperties DEF Texts
<1>6. 1 \in 1..(1 + n) /\ 1 <= 1 + n
  BY <1>3
<1>7. z[1] = c /\ Len(z) = 1 + n
  BY <1>2, <1>3, <1>5, <1>6
<1> QED BY <1>1, <1>4, <1>6, <1>7 DEF get

\* Behind an element comes a separator or a closing bracket.
LEMMA GetFollow ==
  ASSUME NEW S, NEW r, NEW w, NEW G, Writing(S, r, w, G), NEW x \in G, Readable(x, G),
         NEW k \in Nat \ {0}, k <= Len(Elems(x)), NEW t \in Texts
  PROVE  get(Rest(w, x, k) \o t, 1) \in Follow
<1>1. /\ Nested(S, r) /\ Writes(S, w) /\ x \in S /\ Composed(x, S)
      /\ \A i \in 1..Len(Elems(x)) : Elems(x)[i] \in G /\ w[Elems(x)[i]] \in Texts
  BY ReadableIn
<1>2. PICK n \in Nat : n = Len(Elems(x))
  BY ReadableIn
<1>3. CASE k = n
  <2>1. PICK c : c = Closes(x) /\ c \in {"]", "}"}
    BY DEF Closes
  <2>2. Rest(w, x, k) = <<c>>
    BY <1>1, <1>2, <1>3, <2>1, RestFacts
  <2>3. c \in Character
    BY <2>1 DEF Character, Literals
  <2>4. get(<<c>> \o t, 1) = c
    BY <2>3, GetFirst
  <2> QED BY <2>1, <2>2, <2>4 DEF Follow
<1>4. CASE k # n
  <2>1. k \in 0..(n - 1) /\ k + 1 \in 1..n /\ k + 1 \in 0..n /\ k + 1 # 1
    BY <1>2, <1>4
  <2>2. PICK u \in Texts : u = w[Elems(x)[k + 1]] \o Rest(w, x, k + 1)
    <3>1. Rest(w, x, k + 1) \in Texts
      BY <1>1, <1>2, <2>1, RestFacts
    <3>2. w[Elems(x)[k + 1]] \in Texts
      BY <1>1, <1>2, <2>1
    <3> QED BY <3>1, <3>2, Joined
  <2>3. Rest(w, x, k) = Lead(x, k + 1) \o u
    BY <1>1, <1>2, <2>1, <2>2, RestFacts
  <2>4. PICK c : c = <<",">> /\ c \in Texts
    BY LiteralTexts DEF Literals
  <2>5. Comma(k + 1) = c
    BY <2>1, <2>4 DEF Comma
  <2>6. \E b \in Texts : Lead(x, k + 1) = c \o b
    <3>1. CASE x[1] = "arr"
      <4>1. Lead(x, k + 1) = c
        BY <2>5, <3>1 DEF Lead
      <4>2. c \o <<>> = c
        BY <2>4, ConcatEmptySeq DEF Texts
      <4> QED BY <4>1, <4>2, NoText
    <3>2. CASE x[1] # "arr"
      <4>1. KeysOf(x[2])[k + 1] \in Texts
        BY <1>1, <1>2, <2>1, <3>2, CompositeFacts
      <4>2. PICK y \in Texts : y = quoted(KeysOf(x[2])[k + 1])
        BY <4>1, QuotedType
      <4>3. PICK d : d = <<":">> /\ d \in Texts
        BY LiteralTexts DEF Literals
      <4>4. PICK b \in Texts : b = y \o d
        BY <4>3, Joined
      <4>5. (c \o y) \o d = c \o (y \o d)
        <5>1. Associates(c, y, d)
          BY <2>4, <4>3, TextsAssociate
        <5> QED BY <5>1 DEF Associates
      <4>6. Lead(x, k + 1) = (c \o y) \o d
        BY <2>5, <3>2, <4>2, <4>3 DEF Lead
      <4> QED BY <4>4, <4>5, <4>6
    <3> QED BY <3>1, <3>2
  <2>7. PICK b \in Texts : Lead(x, k + 1) = c \o b
    BY <2>6
  <2>8. PICK but \in Texts : but = (b \o u) \o t
    <3>1. b \o u \in Texts
      BY Joined
    <3> QED BY <3>1, Joined
  <2>9. ((c \o b) \o u) \o t = c \o but
    <3>1. PICK bu \in Texts : bu = b \o u
      BY Joined
    <3>2. (c \o b) \o u = c \o (b \o u)
      <4>1. Associates(c, b, u)
        BY <2>4, TextsAssociate
      <4> QED BY <4>1 DEF Associates
    <3>3. (c \o bu) \o t = c \o (bu \o t)
      <4>1. Associates(c, bu, t)
        BY <2>4, <3>1, TextsAssociate
      <4> QED BY <4>1 DEF Associates
    <3> QED BY <2>8, <3>1, <3>2, <3>3
  <2>10. "," \in Character
    BY DEF Character, Literals
  <2>11. get(<<",">> \o but, 1) = ","
    BY <2>10, GetFirst
  <2>12. Rest(w, x, k) \o t = <<",">> \o but
    BY <2>3, <2>4, <2>7, <2>9
  <2> QED BY <2>11, <2>12 DEF Follow
<1> QED BY <1>3, <1>4

\* What a waiting frame says.
LEMMA AwaitsFacts ==
  ASSUME NEW G, NEW c, NEW x, NEW k, Awaits(G, c, x, k)
  PROVE  /\ Readable(x, G) /\ Holds(G, c, x, k) /\ k \in Nat /\ k < Len(Elems(x))
<1>1. Readable(x, G) /\ Holds(G, c, x, k) /\ k \in 0..Len(Elems(x)) /\ k # Len(Elems(x))
  BY DEF Awaits, Holds
<1>2. Len(Elems(x)) \in Nat
  BY <1>1, ReadableComposed, CompositeFacts
<1> QED BY <1>1, <1>2

\* So it does behind the value that is due.
LEMMA DueFollow ==
  ASSUME NEW S, NEW r, NEW w, NEW G, Writing(S, r, w, G), NEW doc, NEW T, NEW open \in Seq(T),
         NEW y, NEW t, Due(doc, G, w, open, y, t)
  PROVE  get(t, 1) \in Follow
<1>1. CASE open = <<>>
  <2>1. t = <<>>
    BY <1>1, DueOutermost
  <2>2. Len(<<>>) = 0
    OBVIOUS
  <2> QED BY <2>1, <2>2 DEF get, Follow
<1>2. CASE open # <<>>
  <2>1. PICK x, k, u : Above(doc, G, w, Front(open), Last(open), y, t, x, k, u)
    BY <1>2, DuePop
  <2>2. x \in G /\ k \in Nat /\ u \in Texts /\ Awaits(G, Last(open), x, k) /\ t = Rest(w, x, k + 1) \o u
    BY <2>1 DEF Above
  <2>3. Readable(x, G) /\ k < Len(Elems(x)) /\ Len(Elems(x)) \in Nat
    BY <2>2, AwaitsFacts, ReadableIn
  <2>4. PICK m \in Nat \ {0} : m = k + 1 /\ m <= Len(Elems(x))
    BY <2>2, <2>3
  <2> QED BY <2>2, <2>3, <2>4, GetFollow
<1> QED BY <1>1, <1>2

-----------------------------------------------------------------------------
(* The parser reads what was written.                                         *)

\* Behind the token tok, t is left of text.
Behind(text, tok, t) == \E p \in Nat : tok.next = p + 1 /\ Left(text, p, t)
\* The token of a value.
IsScalar(y, text, tok, t) == Writable(y) /\ tok.t = "value" /\ tok.v = y /\ Behind(text, tok, t)

\* The token opens a composite value.
IsOpening(y, G, w, text, tok, t) ==
  Readable(y, G) /\ tok.t = Opens(y) /\ Behind(text, tok, Rest(w, y, 0) \o t)

\* scan gives a scalar, or the bracket that opens the value.
LEMMA ScanValue ==
  ASSUME NEW S, NEW r, NEW w, NEW G, Writing(S, r, w, G), NEW y \in G,
         NEW text \in Texts, NEW q \in Nat, NEW t \in Texts, Left(text, q, w[y] \o t),
         get(t, 1) \in Follow
  PROVE  IsScalar(y, text, scan(text, q + 1), t) \/ IsOpening(y, G, w, text, scan(text, q + 1), t)
<1>1. Nested(S, r) /\ Writes(S, w) /\ y \in S /\ (Writable(y) \/ Readable(y, G))
  BY DEF Writing
<1>2. w[y] \in Texts
  BY <1>1 DEF Writes
<1>3. CASE Writable(y)
  <2>1. scan(text, q + 1) = Token("value", y, q + Len(w[y]) + 1)
    BY <1>1, <1>3, ScanScalar
  <2>2. PICK p \in Nat : p = q + Len(w[y]) /\ Left(text, p, t)
    BY <1>2, LeftJoined
  <2>3. scan(text, q + 1) = Token("value", y, p + 1)
    BY <2>1, <2>2
  <2>4. /\ Token("value", y, p + 1).t = "value" /\ Token("value", y, p + 1).v = y
        /\ Token("value", y, p + 1).next = p + 1
    BY DEF Token
  <2>5. Behind(text, scan(text, q + 1), t)
    BY <2>2, <2>3, <2>4 DEF Behind
  <2> QED BY <1>3, <2>3, <2>4, <2>5 DEF IsScalar
<1>4. CASE Readable(y, G)
  <2>1. /\ scan(text, q + 1) = Token(Opens(y), <<"null", 0>>, q + 2)
        /\ Left(text, q + 1, Rest(w, y, 0) \o t) /\ q + 1 \in Nat
    BY <1>4, ScanOpening
  <2>2. PICK p \in Nat : p = q + 1 /\ q + 2 = p + 1
    BY <2>1
  <2>3. PICK tok : tok = scan(text, q + 1) /\ tok.t = Opens(y) /\ tok.next = p + 1
    BY <2>1, <2>2 DEF Token
  <2>4. Behind(text, tok, Rest(w, y, 0) \o t)
    BY <2>1, <2>2, <2>3 DEF Behind
  <2> QED BY <1>4, <2>3, <2>4 DEF IsOpening
<1> QED BY <1>1, <1>3, <1>4

\* Behind a token, an array or object ends or goes on.
LEMMA ClosingToken ==
  ASSUME NEW S, NEW r, NEW w, NEW G, Writing(S, r, w, G), NEW x \in G, Readable(x, G),
         NEW text \in Texts, NEW tok, NEW t \in Texts,
         Behind(text, tok, Rest(w, x, Len(Elems(x))) \o t)
  PROVE  /\ scan(text, tok.next).t = Closes(x)
         /\ Behind(text, scan(text, tok.next), t)
<1>1. PICK p \in Nat : tok.next = p + 1 /\ Left(text, p, Rest(w, x, Len(Elems(x))) \o t)
  BY DEF Behind
<1>2. scan(text, p + 1) = Token(Closes(x), <<"null", 0>>, p + 2) /\ Left(text, p + 1, t)
  BY <1>1, ScanClosing
<1>3. PICK u : u = scan(text, p + 1) /\ u.t = Closes(x) /\ u.next = p + 2
  BY <1>2 DEF Token
<1>4. PICK m \in Nat : m = p + 1 /\ p + 2 = m + 1
  OBVIOUS
<1>5. Behind(text, u, t)
  BY <1>2, <1>3, <1>4 DEF Behind
<1> QED BY <1>1, <1>3, <1>5

\* The same tokens as the parser asks for them, from the one before.
ElementNext(w, x, k, text, tok, t) ==
  Behind(text, tok, w[Elems(x)[k + 1]] \o (Rest(w, x, k + 1) \o t))
KeyNext(w, x, k, text, tok, t) ==
  IF x[1] = "arr" THEN ElementNext(w, x, k, text, tok, t)
  ELSE \E key, colon : /\ key = scan(text, tok.next) /\ colon = scan(text, key.next)
                       /\ key.t = "value" /\ key.v = <<"str", KeysOf(x[2])[k + 1]>>
                       /\ colon.t = ":" /\ ElementNext(w, x, k, text, colon, t)
CommaNext(w, x, k, text, tok, t) ==
  IF k = 0 THEN KeyNext(w, x, k, text, tok, t)
  ELSE \E comma : /\ comma = scan(text, tok.next) /\ comma.t = ","
                  /\ KeyNext(w, x, k, text, comma, t)

\* They are those of the text.
LEMMA ElementIsNext ==
  ASSUME NEW w, NEW x, NEW k, NEW text, NEW q \in Nat, NEW tok, tok.next = q + 1, NEW t,
         ElementLeft(w, x, k, text, q, t)
  PROVE  ElementNext(w, x, k, text, tok, t)
  BY DEF ElementLeft, ElementNext, Behind

LEMMA KeyIsNext ==
  ASSUME NEW w, NEW x, NEW k, NEW text, NEW q \in Nat, NEW tok, tok.next = q + 1, NEW t,
         KeyLeft(w, x, k, text, q, t)
  PROVE  KeyNext(w, x, k, text, tok, t)
<1>1. CASE x[1] = "arr"
  <2>1. ElementLeft(w, x, k, text, q, t)
    BY <1>1 DEF KeyLeft
  <2>2. ElementNext(w, x, k, text, tok, t)
    BY <2>1, ElementIsNext
  <2> QED BY <1>1, <2>2 DEF KeyNext
<1>2. CASE x[1] # "arr"
  <2>1. PICK m \in Nat :
          /\ scan(text, q + 1) = Token("value", <<"str", KeysOf(x[2])[k + 1]>>, m + 1)
          /\ scan(text, m + 1) = Token(":", <<"null", 0>>, m + 2)
          /\ ElementLeft(w, x, k, text, m + 1, t)
    BY <1>2 DEF KeyLeft
  <2>2. PICK key : /\ key = scan(text, tok.next) /\ key.t = "value"
                   /\ key.v = <<"str", KeysOf(x[2])[k + 1]>> /\ key.next = m + 1
    <3>1. PICK s : s = <<"str", KeysOf(x[2])[k + 1]>>
      OBVIOUS
    <3>2. /\ Token("value", s, m + 1).t = "value" /\ Token("value", s, m + 1).v = s
          /\ Token("value", s, m + 1).next = m + 1
      BY DEF Token
    <3> QED BY <2>1, <3>1, <3>2
  <2>3. PICK p \in Nat : p = m + 1 /\ m + 2 = p + 1
    OBVIOUS
  <2>4. PICK colon : colon = scan(text, key.next) /\ colon.t = ":" /\ colon.next = p + 1
    BY <2>1, <2>2, <2>3 DEF Token
  <2>5. ElementNext(w, x, k, text, colon, t)
    BY <2>1, <2>3, <2>4, ElementIsNext
  <2> QED BY <1>2, <2>2, <2>4, <2>5 DEF KeyNext
<1> QED BY <1>1, <1>2

\* The tokens between two elements.
LEMMA NextToken ==
  ASSUME NEW S, NEW r, NEW w, NEW G, Writing(S, r, w, G), NEW x \in G, Readable(x, G),
         NEW text \in Texts, NEW tok, NEW t \in Texts, NEW k \in Nat, k < Len(Elems(x)),
         Behind(text, tok, Rest(w, x, k) \o t)
  PROVE  /\ CommaNext(w, x, k, text, tok, t)
         /\ Rest(w, x, k + 1) \in Texts /\ Elems(x)[k + 1] \in G
<1>1. PICK q \in Nat : tok.next = q + 1 /\ Left(text, q, Rest(w, x, k) \o t)
  BY DEF Behind
<1>2. CommaLeft(w, x, k, text, q, t) /\ Rest(w, x, k + 1) \in Texts /\ Elems(x)[k + 1] \in G
  BY <1>1, ScanNext
<1>3. CASE k = 0
  <2>1. KeyLeft(w, x, k, text, q, t)
    BY <1>2, <1>3 DEF CommaLeft
  <2>2. KeyNext(w, x, k, text, tok, t)
    BY <1>1, <2>1, KeyIsNext
  <2> QED BY <1>2, <1>3, <2>2 DEF CommaNext
<1>4. CASE k # 0
  <2>1. scan(text, q + 1) = Token(",", <<"null", 0>>, q + 2) /\ KeyLeft(w, x, k, text, q + 1, t)
    BY <1>2, <1>4 DEF CommaLeft
  <2>2. PICK p \in Nat : p = q + 1 /\ q + 2 = p + 1
    OBVIOUS
  <2>3. PICK comma : comma = scan(text, tok.next) /\ comma.t = "," /\ comma.next = p + 1
    <3>1. scan(text, tok.next) = Token(",", <<"null", 0>>, p + 1)
      BY <1>1, <2>1, <2>2
    <3>2. /\ Token(",", <<"null", 0>>, p + 1).t = ","
          /\ Token(",", <<"null", 0>>, p + 1).next = p + 1
      BY DEF Token
    <3> QED BY <3>1, <3>2
  <2>4. KeyNext(w, x, k, text, comma, t)
    BY <2>1, <2>2, <2>3, KeyIsNext
  <2> QED BY <1>2, <1>4, <2>3, <2>4 DEF CommaNext
<1> QED BY <1>3, <1>4

-----------------------------------------------------------------------------
(* How far the parser is.                                                     *)

\* At the token of a value that is due.
AtValue(doc, text, G, w, open, tok) ==
  \E y, t : /\ Due(doc, G, w, open, y, t)
            /\ IsScalar(y, text, tok, t) \/ IsOpening(y, G, w, text, tok, t)
\* Behind the first k elements of a value that is due, k > 0, where the innermost
\* container holds them.
BehindElement(doc, text, G, w, open, tok) ==
  \E x \in G, k \in Nat \ {0}, t \in Texts :
     /\ Due(doc, G, w, Front(open), x, t) /\ Holds(G, Last(open), x, k)
     /\ Behind(text, tok, Rest(w, x, k) \o t)

\* The parser is reading the document, and what is left of the text is what was written
\* behind the part it has read.
Progress(doc, G, w) ==
  /\ pc = "value" => AtValue(doc, file.text, G, w, states, token)
  /\ pc = "evaluate" => IF states = <<>> THEN root = doc /\ Behind(file.text, token, <<>>)
                        ELSE BehindElement(doc, file.text, G, w, states, token)
  /\ pc \notin {"value", "evaluate"} => root = doc

\* The next element is a value that is due.
LEMMA ElementDue ==
  ASSUME NEW S, NEW r, NEW w, NEW G, Writing(S, r, w, G), NEW doc, NEW T, NEW open \in Seq(T),
         NEW x \in G, NEW t \in Texts, Due(doc, G, w, open, x, t),
         NEW c, NEW k \in Nat, Awaits(G, c, x, k), NEW text \in Texts, NEW tok,
         ElementNext(w, x, k, text, tok, t),
         Rest(w, x, k + 1) \in Texts, Elems(x)[k + 1] \in G
  PROVE  AtValue(doc, text, G, w, Append(open, c), scan(text, tok.next))
<1>1. PICK y \in G : y = Elems(x)[k + 1]
  OBVIOUS
<1>2. PICK u \in Texts : u = Rest(w, x, k + 1) \o t
  BY Joined
<1>3. PICK q \in Nat : tok.next = q + 1 /\ Left(text, q, w[y] \o u)
  BY <1>1, <1>2 DEF ElementNext, Behind
<1>4. PICK U : U = T \cup {c}
  OBVIOUS
<1>5. open \in Seq(U) /\ c \in U
  <2>1. T \subseteq U
    BY <1>4
  <2> QED BY <1>4, <2>1, ObjectsGrow
<1>6. PICK open2 : open2 = Append(open, c) /\ open2 \in Seq(U)
  BY <1>5, AppendProperties
<1>7. Due(doc, G, w, Append(open, c), y, u)
  BY <1>1, <1>2, <1>5, DuePush
<1>8. get(u, 1) \in Follow
  BY <1>6, <1>7, DueFollow
<1>9. PICK next : next = scan(text, q + 1)
  OBVIOUS
<1>10. IsScalar(y, text, next, u) \/ IsOpening(y, G, w, text, next, u)
  BY <1>3, <1>8, <1>9, ScanValue
<1>11. Due(doc, G, w, open2, y, u)
  BY <1>6, <1>7
<1>12. AtValue(doc, text, G, w, open2, next)
  BY <1>10, <1>11 DEF AtValue
<1> QED BY <1>3, <1>6, <1>9, <1>12

\* Putting a container in the place of the innermost one.
LEMMA FrontLastJoined ==
  ASSUME NEW T, NEW a \in Seq(T), NEW c
  PROVE  a \o <<c>> # <<>> /\ Front(a \o <<c>>) = a /\ Last(a \o <<c>>) = c
<1>1. PICK U : U = T \cup {c}
  OBVIOUS
<1>2. a \in Seq(U)
  <2>1. T \subseteq U
    BY <1>1
  <2> QED BY <2>1, ObjectsGrow
<1>3. PICK b \in Seq(U) : b = <<c>> /\ Len(b) = 1 /\ b[1] = c
  <2>1. c \in U
    BY <1>1
  <2> QED BY <2>1, Single
<1>4. PICK z \in Seq(U) : z = a \o b
  BY <1>2, ConcatProperties
<1>5. PICK n \in Nat : n = Len(a)
  BY LenProperties
<1>6. /\ Len(z) = Len(a) + Len(b)
      /\ \A j \in 1..(Len(a) + Len(b)) : z[j] = IF j <= Len(a) THEN a[j] ELSE b[j - Len(a)]
  BY <1>2, <1>4, ConcatProperties
<1>7. Len(z) = n + 1 /\ z[n + 1] = c
  <2>1. n + 1 \in 1..(n + 1) /\ ~(n + 1 <= n) /\ (n + 1) - n = 1
    OBVIOUS
  <2> QED BY <1>3, <1>5, <1>6, <2>1
<1>8. \A j \in 1..n : z[j] = a[j]
  BY <1>3, <1>5, <1>6
<1>9. z # <<>>
  BY <1>7
<1>10. Last(z) = c
  BY <1>7 DEF Last
<1>11. Front(z) = a
  <2>1. (n + 1) - 1 = n
    OBVIOUS
  <2>2. Front(z) = SubSeq(z, 1, n)
    BY <1>7, <2>1 DEF Front
  <2>3. \A j \in 1..n : z[j] \in U
    BY <1>7, ElementOfSeq
  <2>4. /\ SubSeq(z, 1, n) \in Seq(U) /\ Len(SubSeq(z, 1, n)) = n
        /\ \A j \in 1..n : SubSeq(z, 1, n)[j] = z[j]
    BY <2>3, SubSeqProperties
  <2> QED BY <1>2, <1>5, <1>8, <2>2, <2>4, SeqEqual
<1> QED BY <1>3, <1>4, <1>9, <1>10, <1>11

\* A value that was due has been read.
LEMMA ValueRead ==
  ASSUME NEW S, NEW r, NEW w, NEW G, Writing(S, r, w, G), NEW doc, NEW T, NEW open \in Seq(T),
         NEW y, NEW t, Due(doc, G, w, open, y, t), handle_value(open, y), file' = file,
         Behind(file.text, token', t)
  PROVE  Progress(doc, G, w)'
<1>1. pc' = "evaluate"
  BY DEF handle_value
<1>2. CASE open = <<>>
  <2>1. states' = <<>> /\ root' = y
    BY <1>2 DEF handle_value
  <2>2. y = doc /\ t = <<>>
    BY <1>2, DueOutermost
  <2>3. Behind(file'.text, token', <<>>)
    BY <2>2
  <2>4. pc' # "value"
    BY <1>1
  <2> QED BY <1>1, <2>1, <2>2, <2>3, <2>4 DEF Progress
<1>3. CASE open # <<>>
  <2>1. PICK x, k, u : Above(doc, G, w, Front(open), Last(open), y, t, x, k, u)
    BY <1>3, DuePop
  <2>2. /\ x \in G /\ k \in Nat /\ u \in Texts
        /\ Due(doc, G, w, Front(open), x, u) /\ Awaits(G, Last(open), x, k)
        /\ y = Elems(x)[k + 1] /\ t = Rest(w, x, k + 1) \o u
    BY <2>1 DEF Above
  <2>3. PICK c : c = Into(Last(open), y)
    OBVIOUS
  <2>4. PICK front \in Seq(T) : front = Front(open)
    BY <1>3, FrontLast
  <2>5. states' = front \o <<c>>
    BY <1>3, <2>3, <2>4 DEF handle_value
  <2>6. states' # <<>> /\ Front(states') = front /\ Last(states') = c
    BY <2>5, FrontLastJoined
  <2>7. PICK m \in Nat \ {0} : m = k + 1
    BY <2>2
  <2>8. Holds(G, c, x, m)
    BY <2>2, <2>3, <2>7, IntoHolds
  <2>9. BehindElement(doc, file'.text, G, w, states', token')
    <3>1. Behind(file.text, token', Rest(w, x, m) \o u)
      BY <2>2, <2>7
    <3>2. /\ Due(doc, G, w, Front(states'), x, u) /\ Holds(G, Last(states'), x, m)
          /\ Behind(file'.text, token', Rest(w, x, m) \o u)
      BY <2>2, <2>4, <2>6, <2>8, <3>1
    <3> QED BY <2>2, <3>2 DEF BehindElement
  <2> QED BY <1>1, <2>6, <2>9 DEF Progress
<1> QED BY <1>2, <1>3

\* A container that is opened holds no elements yet.
LEMMA FreshHolds ==
  ASSUME NEW G, NEW x, Readable(x, G), NEW key
  PROVE  Holds(G, Frame(x[1] = "arr", <<>>, key), x, 0)
<1>1. 0 \in 0..Len(Elems(x))
  <2>1. Len(Elems(x)) \in Nat
    BY ReadableComposed, CompositeFacts
  <2> QED BY <2>1
<1>2. Partial(x, 0) = <<>>
  <2>1. CASE x[1] = "arr"
    <3>1. PICK s \in Seq(G) : x = <<"arr", s>>
      BY <2>1 DEF Readable
    <3>2. SubSeq(s, 1, 0) = <<>>
      BY SubSeqEmpty
    <3> QED BY <2>1, <3>1, <3>2 DEF Partial
  <2>2. CASE x[1] # "arr"
    <3>1. {KeysOf(x[2])[j] : j \in 1..0} = {}
      OBVIOUS
    <3>2. Partial(x, 0) = [y \in {} |-> x[2][y]]
      BY <2>2, <3>1 DEF Partial
    <3> QED BY <3>2
  <2> QED BY <2>1, <2>2
<1> QED BY <1>1, <1>2 DEF Holds

\* So it is the value if there are none.
LEMMA EmptyIs ==
  ASSUME NEW G, NEW x, Readable(x, G), Len(Elems(x)) = 0
  PROVE  x = IF x[1] = "arr" THEN <<"arr", <<>>>> ELSE <<"obj", <<>>>>
<1>1. PICK array : array = (x[1] = "arr")
  OBVIOUS
<1>2. PICK c : c = Frame(array, <<>>, 0)
  OBVIOUS
<1>3. Holds(G, c, x, Len(Elems(x)))
  BY <1>1, <1>2, FreshHolds
<1>4. Finished(c) = x
  BY <1>3, FinishedIs
<1>5. c.array = array /\ c.content = <<>>
  BY <1>2 DEF Frame
<1> QED BY <1>1, <1>4, <1>5 DEF Finished

\* Else it awaits the first one.
LEMMA FreshAwaits ==
  ASSUME NEW G, NEW x, Readable(x, G), 0 # Len(Elems(x)), NEW key,
         x[1] # "arr" => key = KeysOf(x[2])[1]
  PROVE  Awaits(G, Frame(x[1] = "arr", <<>>, key), x, 0)
<1>1. Holds(G, Frame(x[1] = "arr", <<>>, key), x, 0)
  BY FreshHolds
<1>2. Frame(x[1] = "arr", <<>>, key).key = key
  BY DEF Frame
<1>3. 0 + 1 = 1
  OBVIOUS
<1> QED BY <1>1, <1>2, <1>3 DEF Awaits

\* The token of a value tells which it is.
LEMMA KindOfToken ==
  ASSUME NEW doc, NEW text, NEW G, NEW w, NEW open, NEW tok, AtValue(doc, text, G, w, open, tok)
  PROVE  tok.t \in {"value", "[", "{"}
  BY DEF AtValue, IsScalar, IsOpening, Opens

\* Each step of the parser keeps to that.
LEMMA BeginArrayProgress ==
  ASSUME NEW S, NEW r, NEW w, NEW G, Writing(S, r, w, G), NEW doc, Progress(doc, G, w),
         file.text \in Texts, NEW T, states \in Seq(T), BeginArray
  PROVE  Progress(doc, G, w)'
<1>1. /\ pc = "value" /\ token.t = "[" /\ token' = get_token(token)
      /\ token'.t = "]" => handle_value(states, <<"arr", <<>>>>)
      /\ token'.t # "]" => /\ states' = Append(states, [array |-> TRUE, content |-> <<>>, key |-> <<>>])
                           /\ UNCHANGED <<pc, root>>
      /\ file' = file
  BY DEF BeginArray
<1>2. PICK y, t : /\ Due(doc, G, w, states, y, t)
                  /\ IsScalar(y, file.text, token, t) \/ IsOpening(y, G, w, file.text, token, t)
  BY <1>1 DEF Progress, AtValue
<1>3. y \in G /\ t \in Texts
  BY <1>2, DueType
<1>4. /\ Readable(y, G) /\ y[1] = "arr" /\ Behind(file.text, token, Rest(w, y, 0) \o t)
  BY <1>1, <1>2 DEF IsScalar, IsOpening, Opens
<1>5. PICK text \in Texts : text = file.text
  OBVIOUS
<1>6. token' = scan(text, token.next)
  BY <1>1, <1>5 DEF get_token
<1>7. CASE Len(Elems(y)) = 0
  <2>1. token'.t = "]" /\ Behind(text, token', t)
    <3>1. scan(text, token.next).t = Closes(y) /\ Behind(text, scan(text, token.next), t)
      BY <1>3, <1>4, <1>5, <1>7, ClosingToken
    <3> QED BY <1>4, <1>6, <3>1 DEF Closes
  <2>2. y = <<"arr", <<>>>>
    BY <1>4, <1>7, EmptyIs
  <2>3. handle_value(states, y)
    BY <1>1, <2>1, <2>2
  <2> QED BY <1>1, <1>2, <1>5, <2>1, <2>3, ValueRead
<1>8. CASE Len(Elems(y)) # 0
  <2>1. /\ CommaNext(w, y, 0, text, token, t)
        /\ Rest(w, y, 0 + 1) \in Texts /\ Elems(y)[0 + 1] \in G
    <3>1. 0 \in Nat /\ 0 < Len(Elems(y))
      <4>1. Len(Elems(y)) \in Nat
        BY <1>3, <1>4, ReadableIn
      <4> QED BY <1>8, <4>1
    <3> QED BY <1>3, <1>4, <1>5, <3>1, NextToken
  <2>2. ElementNext(w, y, 0, text, token, t)
    BY <1>4, <2>1 DEF CommaNext, KeyNext
  <2>3. PICK c : c = Frame(TRUE, <<>>, <<>>)
    OBVIOUS
  <2>4. Awaits(G, c, y, 0)
    BY <1>4, <1>8, <2>3, FreshAwaits
  <2>5. AtValue(doc, text, G, w, Append(states, c), scan(text, token.next))
    <3>1. 0 \in Nat
      OBVIOUS
    <3> QED BY <1>2, <1>3, <2>1, <2>2, <2>4, <3>1, ElementDue
  <2>6. token'.t # "]"
    BY <1>6, <2>5, KindOfToken
  <2>7. states' = Append(states, c) /\ pc' = "value"
    BY <1>1, <2>3, <2>6 DEF Frame
  <2>8. AtValue(doc, file'.text, G, w, states', token')
    BY <1>1, <1>5, <1>6, <2>5, <2>7
  <2> QED BY <2>7, <2>8 DEF Progress
<1> QED BY <1>7, <1>8

\* ParseKey reads the key, the colon and the first token of the value.
LEMMA ParseKeyProgress ==
  ASSUME NEW S, NEW r, NEW w, NEW G, Writing(S, r, w, G), NEW doc,
         file.text \in Texts, NEW T, NEW open \in Seq(T), NEW x \in G, NEW u \in Texts,
         Due(doc, G, w, open, x, u), x[1] # "arr", NEW k \in Nat, NEW tok,
         KeyNext(w, x, k, file.text, tok, u),
         Rest(w, x, k + 1) \in Texts, Elems(x)[k + 1] \in G, NEW content,
         \A key : key = KeysOf(x[2])[k + 1] => Awaits(G, Frame(FALSE, content, key), x, k),
         ParseKey(scan(file.text, tok.next), open, content)
  PROVE  Progress(doc, G, w)'
<1>1. PICK text \in Texts : text = file.text
  OBVIOUS
<1>2. PICK key, colon : /\ key = scan(text, tok.next) /\ colon = scan(text, key.next)
                        /\ key.t = "value" /\ key.v = <<"str", KeysOf(x[2])[k + 1]>>
                        /\ colon.t = ":" /\ ElementNext(w, x, k, text, colon, u)
  BY <1>1 DEF KeyNext
<1>3. PICK name : name = KeysOf(x[2])[k + 1]
  OBVIOUS
<1>4. key.v[1] = "str" /\ key.v[2] = name /\ IsKey(key)
  BY <1>2, <1>3 DEF IsKey
<1>5. PICK c : c = Frame(FALSE, content, name)
  OBVIOUS
<1>6. ParseKey(key, open, content)
  BY <1>1, <1>2
<1>7. get_token(key) = colon /\ get_token(colon) = scan(text, colon.next)
  BY <1>1, <1>2 DEF get_token
<1>8. /\ states' = Append(open, c) /\ token' = scan(text, colon.next) /\ pc' = "value" /\ file' = file
  <2>1. /\ states' = Append(open, [array |-> FALSE, content |-> content, key |-> key.v[2]])
        /\ token' = get_token(colon) /\ pc' = "value" /\ file' = file
    BY <1>2, <1>4, <1>6, <1>7 DEF ParseKey
  <2> QED BY <1>4, <1>5, <1>7, <2>1 DEF Frame
<1>9. Awaits(G, c, x, k)
  BY <1>3, <1>5
<1>10. AtValue(doc, text, G, w, Append(open, c), scan(text, colon.next))
  BY <1>2, <1>9, ElementDue
<1>11. AtValue(doc, file'.text, G, w, states', token')
  BY <1>1, <1>8, <1>10
<1> QED BY <1>8, <1>11 DEF Progress

LEMMA BeginObjectProgress ==
  ASSUME NEW S, NEW r, NEW w, NEW G, Writing(S, r, w, G), NEW doc, Progress(doc, G, w),
         file.text \in Texts, NEW T, states \in Seq(T), BeginObject
  PROVE  Progress(doc, G, w)'
<1>1. PICK text \in Texts : text = file.text
  OBVIOUS
<1>2. PICK tok : tok = scan(text, token.next)
  OBVIOUS
<1>3. /\ pc = "value" /\ token.t = "{"
      /\ tok.t = "}" => handle_value(states, <<"obj", <<>>>>) /\ token' = tok /\ file' = file
      /\ tok.t # "}" => ParseKey(tok, states, <<>>)
  BY <1>1, <1>2 DEF BeginObject, get_token
<1>4. PICK y, t : /\ Due(doc, G, w, states, y, t)
                  /\ IsScalar(y, text, token, t) \/ IsOpening(y, G, w, text, token, t)
  BY <1>1, <1>3 DEF Progress, AtValue
<1>5. y \in G /\ t \in Texts
  BY <1>4, DueType
<1>6. /\ Readable(y, G) /\ y[1] # "arr" /\ Behind(text, token, Rest(w, y, 0) \o t)
  BY <1>3, <1>4 DEF IsScalar, IsOpening, Opens
<1>7. CASE Len(Elems(y)) = 0
  <2>1. tok.t = "}" /\ Behind(text, tok, t)
    <3>1. scan(text, token.next).t = Closes(y) /\ Behind(text, scan(text, token.next), t)
      BY <1>5, <1>6, <1>7, ClosingToken
    <3> QED BY <1>2, <1>6, <3>1 DEF Closes
  <2>2. y = <<"obj", <<>>>>
    BY <1>6, <1>7, EmptyIs
  <2>3. handle_value(states, y) /\ token' = tok /\ file' = file
    BY <1>3, <2>1, <2>2
  <2>4. Behind(file.text, token', t)
    BY <1>1, <2>1, <2>3
  <2> QED BY <1>4, <2>3, <2>4, ValueRead
<1>8. CASE Len(Elems(y)) # 0
  <2>1. 0 \in Nat /\ 0 < Len(Elems(y)) /\ 0 # Len(Elems(y))
    <3>1. Len(Elems(y)) \in Nat
      BY <1>5, <1>6, ReadableIn
    <3> QED BY <1>8, <3>1
  <2>2. /\ CommaNext(w, y, 0, text, token, t)
        /\ Rest(w, y, 0 + 1) \in Texts /\ Elems(y)[0 + 1] \in G
    BY <1>5, <1>6, <2>1, NextToken
  <2>3. KeyNext(w, y, 0, text, token, t)
    BY <2>2 DEF CommaNext
  <2>4. tok.t = "value"
    BY <1>2, <1>6, <2>3 DEF KeyNext
  <2>5. ParseKey(scan(file.text, token.next), states, <<>>)
    BY <1>1, <1>2, <1>3, <2>4
  <2>6. \A key : key = KeysOf(y[2])[0 + 1] => Awaits(G, Frame(FALSE, <<>>, key), y, 0)
    <3> TAKE key
    <3> HAVE key = KeysOf(y[2])[0 + 1]
    <3>1. key = KeysOf(y[2])[1]
      OBVIOUS
    <3>2. Awaits(G, Frame(y[1] = "arr", <<>>, key), y, 0)
      BY <1>6, <2>1, <3>1, FreshAwaits
    <3>3. (y[1] = "arr") = FALSE
      BY <1>6
    <3> QED BY <3>2, <3>3
  <2>7. KeyNext(w, y, 0, file.text, token, t)
    BY <1>1, <2>3
  <2> QED BY <1>4, <1>5, <1>6, <2>1, <2>2, <2>5, <2>6, <2>7, ParseKeyProgress
<1> QED BY <1>7, <1>8

\* A sequence is its front and its last element.
LEMMA FrontAndLast ==
  ASSUME NEW T, NEW s \in Seq(T), s # <<>>
  PROVE  Front(s) \o <<Last(s)>> = s
<1>1. PICK n \in Nat : n = Len(s)
  BY LenProperties
<1>2. PICK m \in Nat : m + 1 = n /\ m = n - 1
  <2>1. n # 0
    BY <1>1, EmptySeq
  <2>2. n - 1 \in Nat /\ (n - 1) + 1 = n
    BY <2>1
  <2> QED BY <2>2
<1>3. Front(s) = SubSeq(s, 1, m) /\ Last(s) = s[m + 1]
  BY <1>1, <1>2 DEF Front, Last
<1>4. m < Len(s)
  BY <1>1, <1>2
<1>5. SubSeq(s, 1, m + 1) = SubSeq(s, 1, m) \o <<s[m + 1]>>
  BY <1>4, Prefix
<1>6. SubSeq(s, 1, m + 1) = s
  BY <1>1, <1>2, SubSeqFull
<1> QED BY <1>3, <1>5, <1>6

LEMMA ScalarProgress ==
  ASSUME NEW S, NEW r, NEW w, NEW G, Writing(S, r, w, G), NEW doc, Progress(doc, G, w),
         NEW T, states \in Seq(T), Scalar
  PROVE  Progress(doc, G, w)'
<1>1. /\ pc = "value" /\ token.t = "value" /\ handle_value(states, token.v)
      /\ file' = file /\ token' = token
  BY DEF Scalar
<1>2. PICK y, t : /\ Due(doc, G, w, states, y, t)
                  /\ IsScalar(y, file.text, token, t) \/ IsOpening(y, G, w, file.text, token, t)
  BY <1>1 DEF Progress, AtValue
<1>3. token.v = y /\ Behind(file.text, token, t)
  BY <1>1, <1>2 DEF IsScalar, IsOpening, Opens
<1>4. handle_value(states, y) /\ Behind(file.text, token', t)
  BY <1>1, <1>3
<1> QED BY <1>1, <1>2, <1>4, ValueRead

\* A value that was written begins as one.
LEMMA NoBadValue ==
  ASSUME NEW doc, NEW G, NEW w, Progress(doc, G, w)
  PROVE  ~BadValue
<1> SUFFICES ASSUME BadValue PROVE FALSE
  OBVIOUS
<1>1. pc = "value" /\ token.t \notin {"{", "[", "value"}
  BY DEF BadValue
<1>2. AtValue(doc, file.text, G, w, states, token)
  BY <1>1 DEF Progress
<1> QED BY <1>1, <1>2, KindOfToken

\* Inside an array or an object: what is due, and what the next token is.
Inside(doc, text, S, G, w, T, next, x, k, t) ==
  /\ x \in G /\ k \in Nat \ {0} /\ t \in Texts /\ Readable(x, G)
  /\ Front(states) \in Seq(T)
  /\ Due(doc, G, w, Front(states), x, t) /\ Holds(G, Last(states), x, k)
  /\ Behind(text, token, Rest(w, x, k) \o t)
  /\ k <= Len(Elems(x)) /\ Len(Elems(x)) \in Nat
  /\ Last(states).array = (x[1] = "arr")
  /\ k = Len(Elems(x)) => next.t = Closes(x) /\ Behind(text, next, t)
  /\ k # Len(Elems(x)) => /\ next.t = "," /\ KeyNext(w, x, k, text, next, t)
                          /\ Rest(w, x, k + 1) \in Texts /\ Elems(x)[k + 1] \in G

\* Where the parser is between two elements.
LEMMA InsideFacts ==
  ASSUME NEW S, NEW r, NEW w, NEW G, Writing(S, r, w, G), NEW doc, Progress(doc, G, w),
         NEW text \in Texts, text = file.text, NEW T, states \in Seq(T), pc = "evaluate", states # <<>>,
         NEW next, next = scan(text, token.next)
  PROVE  \E x, k, t : Inside(doc, text, S, G, w, T, next, x, k, t)
<1>1. PICK x \in G, k \in Nat, t \in Texts :
         /\ k # 0 /\ Due(doc, G, w, Front(states), x, t) /\ Holds(G, Last(states), x, k)
         /\ Behind(text, token, Rest(w, x, k) \o t)
  BY DEF Progress, BehindElement
<1>2. Readable(x, G) /\ k \in 0..Len(Elems(x))
  BY <1>1 DEF Holds
<1>3. PICK key : Last(states) = Frame(x[1] = "arr", Partial(x, k), key)
  BY <1>1 DEF Holds
<1>4. Last(states).array = (x[1] = "arr")
  BY <1>3 DEF Frame
<1>5. Front(states) \in Seq(T)
  BY FrontLast
<1>6. Len(Elems(x)) \in Nat
  BY <1>2, ReadableIn
<1>7. k = Len(Elems(x)) => next.t = Closes(x) /\ Behind(text, next, t)
  BY <1>1, <1>2, ClosingToken
<1>8. ASSUME k # Len(Elems(x))
      PROVE  /\ next.t = "," /\ KeyNext(w, x, k, text, next, t)
             /\ Rest(w, x, k + 1) \in Texts /\ Elems(x)[k + 1] \in G
  <2>1. k < Len(Elems(x))
    BY <1>2, <1>6, <1>8
  <2>2. CommaNext(w, x, k, text, token, t) /\ Rest(w, x, k + 1) \in Texts /\ Elems(x)[k + 1] \in G
    BY <1>1, <1>2, <2>1, NextToken
  <2> QED BY <1>1, <2>2 DEF CommaNext
<1>9. k \in Nat \ {0} /\ k <= Len(Elems(x))
  BY <1>1, <1>2, <1>6
<1>10. Inside(doc, text, S, G, w, T, next, x, k, t)
  BY <1>1, <1>2, <1>4, <1>5, <1>6, <1>7, <1>8, <1>9 DEF Inside
<1> QED BY <1>10

\* The token of a separator tells which it is.
Separates(next, x, k) == /\ next.t \in {",", IF Last(states).array THEN "]" ELSE "}"}
                         /\ next.t = "," <=> k # Len(Elems(x))

\* The separator there is a comma or the bracket that closes.
LEMMA SeparatorToken ==
  ASSUME NEW doc, NEW text, NEW S, NEW G, NEW w, NEW T, NEW next, NEW x, NEW k, NEW t,
         Inside(doc, text, S, G, w, T, next, x, k, t)
  PROVE  Separates(next, x, k)
  BY DEF Separates, Inside, Closes

\* So BadSeparator is not taken.
LEMMA NoBadSeparator ==
  ASSUME NEW S, NEW r, NEW w, NEW G, Writing(S, r, w, G), NEW doc, Progress(doc, G, w),
         file.text \in Texts, NEW T, states \in Seq(T)
  PROVE  ~BadSeparator
<1> SUFFICES ASSUME BadSeparator PROVE FALSE
  OBVIOUS
<1>1. PICK text \in Texts : text = file.text
  OBVIOUS
<1>2. PICK next : text = file.text /\ next = scan(text, token.next)
  BY <1>1
<1>3. /\ pc = "evaluate" /\ states # <<>>
      /\ next.t \notin {",", IF Last(states).array THEN "]" ELSE "}"}
  BY <1>2 DEF BadSeparator, get_token
<1>4. PICK x, k, t : Inside(doc, text, S, G, w, T, next, x, k, t)
  BY <1>2, <1>3, InsideFacts
<1>5. Separates(next, x, k)
  BY <1>4, SeparatorToken
<1> QED BY <1>3, <1>5 DEF Separates

LEMMA NextElementProgress ==
  ASSUME NEW S, NEW r, NEW w, NEW G, Writing(S, r, w, G), NEW doc, Progress(doc, G, w),
         file.text \in Texts, NEW T, states \in Seq(T), NextElement
  PROVE  Progress(doc, G, w)'
<1>1. PICK text \in Texts : text = file.text
  OBVIOUS
<1>2. PICK next : text = file.text /\ next = scan(text, token.next)
  BY <1>1
<1>3. /\ pc = "evaluate" /\ states # <<>> /\ Last(states).array
      /\ next.t = "," /\ token' = scan(text, next.next)
      /\ pc' = "value" /\ file' = file /\ states' = states
  BY <1>2 DEF NextElement, get_token
<1>4. PICK x, k, t : Inside(doc, text, S, G, w, T, next, x, k, t)
  BY <1>2, <1>3, InsideFacts
<1>5. k # Len(Elems(x))
  <2>1. Separates(next, x, k)
    BY <1>4, SeparatorToken
  <2> QED BY <1>3, <2>1 DEF Separates
<1>6. /\ x \in G /\ k \in Nat /\ t \in Texts /\ x[1] = "arr"
      /\ Front(states) \in Seq(T)
      /\ Due(doc, G, w, Front(states), x, t) /\ Holds(G, Last(states), x, k)
      /\ KeyNext(w, x, k, text, next, t)
      /\ Rest(w, x, k + 1) \in Texts /\ Elems(x)[k + 1] \in G
  BY <1>3, <1>4, <1>5 DEF Inside
<1>7. ElementNext(w, x, k, text, next, t)
  BY <1>6 DEF KeyNext
<1>8. Awaits(G, Last(states), x, k)
  BY <1>5, <1>6 DEF Awaits
<1>9. PICK front, c : front \in Seq(T) /\ front = Front(states) /\ c = Last(states)
  BY <1>6
<1>10. AtValue(doc, text, G, w, Append(front, c), scan(text, next.next))
  BY <1>6, <1>7, <1>8, <1>9, ElementDue
<1>11. Append(front, c) = states
  <2>1. c \in T
    BY <1>3, <1>9, FrontLast
  <2>2. Append(front, c) = front \o <<c>>
    BY <2>1, AppendIsConcat
  <2>3. front \o <<c>> = states
    BY <1>3, <1>9, FrontAndLast
  <2> QED BY <2>2, <2>3
<1>12. AtValue(doc, file'.text, G, w, states', token')
  BY <1>2, <1>3, <1>10, <1>11
<1> QED BY <1>3, <1>12 DEF Progress

LEMMA NextMemberProgress ==
  ASSUME NEW S, NEW r, NEW w, NEW G, Writing(S, r, w, G), NEW doc, Progress(doc, G, w),
         file.text \in Texts, NEW T, states \in Seq(T), NextMember
  PROVE  Progress(doc, G, w)'
<1>1. PICK text \in Texts : text = file.text
  OBVIOUS
<1>2. PICK next : text = file.text /\ next = scan(text, token.next)
  BY <1>1
<1>3. /\ pc = "evaluate" /\ states # <<>> /\ ~Last(states).array
      /\ next.t = "," /\ ParseKey(scan(text, next.next), Front(states), Last(states).content)
  BY <1>2 DEF NextMember, get_token
<1>4. PICK x, k, t : Inside(doc, text, S, G, w, T, next, x, k, t)
  BY <1>2, <1>3, InsideFacts
<1>5. k # Len(Elems(x))
  <2>1. Separates(next, x, k)
    BY <1>4, SeparatorToken
  <2> QED BY <1>3, <2>1 DEF Separates
<1>6. /\ x \in G /\ k \in Nat /\ t \in Texts /\ x[1] # "arr"
      /\ Front(states) \in Seq(T)
      /\ Due(doc, G, w, Front(states), x, t) /\ Holds(G, Last(states), x, k)
      /\ KeyNext(w, x, k, text, next, t)
      /\ Rest(w, x, k + 1) \in Texts /\ Elems(x)[k + 1] \in G
  BY <1>3, <1>4, <1>5 DEF Inside
<1>7. PICK content : content = Last(states).content
  OBVIOUS
<1>8. content = Partial(x, k) /\ Readable(x, G) /\ k \in 0..Len(Elems(x))
  <2>1. PICK key : Last(states) = Frame(x[1] = "arr", Partial(x, k), key)
    BY <1>6 DEF Holds
  <2>2. Last(states).content = Partial(x, k)
    BY <2>1 DEF Frame
  <2> QED BY <1>6, <1>7, <2>2 DEF Holds
<1>9. \A key : key = KeysOf(x[2])[k + 1] => Awaits(G, Frame(FALSE, content, key), x, k)
  <2> TAKE key
  <2> HAVE key = KeysOf(x[2])[k + 1]
  <2>1. PICK c : c = Frame(FALSE, content, key)
    OBVIOUS
  <2>2. c.key = key
    BY <2>1 DEF Frame
  <2>3. (x[1] = "arr") = FALSE
    BY <1>6
  <2>4. c = Frame(x[1] = "arr", Partial(x, k), key)
    BY <1>8, <2>1, <2>3
  <2>5. Holds(G, c, x, k)
    BY <1>8, <2>4 DEF Holds
  <2>6. Awaits(G, c, x, k)
    BY <1>5, <2>2, <2>5 DEF Awaits
  <2> QED BY <2>1, <2>6
<1>10. /\ KeyNext(w, x, k, file.text, next, t)
      /\ ParseKey(scan(file.text, next.next), Front(states), content)
  BY <1>2, <1>3, <1>6, <1>7
<1> QED BY <1>6, <1>9, <1>10, ParseKeyProgress

\* A closed value goes into the frame that waited for it.
LEMMA EndContainerProgress ==
  ASSUME NEW S, NEW r, NEW w, NEW G, Writing(S, r, w, G), NEW doc, Progress(doc, G, w),
         file.text \in Texts, NEW T, states \in Seq(T), EndContainer
  PROVE  Progress(doc, G, w)'
<1>1. PICK text \in Texts : text = file.text
  OBVIOUS
<1>2. PICK next : text = file.text /\ next = scan(text, token.next)
  BY <1>1
<1>3. /\ pc = "evaluate" /\ states # <<>> /\ token' = next
      /\ next.t = IF Last(states).array THEN "]" ELSE "}"
      /\ handle_value(Front(states), Finished(Last(states))) /\ file' = file
  BY <1>2 DEF EndContainer, get_token
<1>4. PICK x, k, t : Inside(doc, text, S, G, w, T, next, x, k, t)
  BY <1>2, <1>3, InsideFacts
<1>5. k = Len(Elems(x))
  <2>1. next.t # ","
    BY <1>3
  <2>2. Separates(next, x, k)
    BY <1>4, SeparatorToken
  <2> QED BY <2>1, <2>2 DEF Separates
<1>6. /\ Front(states) \in Seq(T) /\ Due(doc, G, w, Front(states), x, t)
      /\ Holds(G, Last(states), x, k) /\ Behind(text, next, t)
  BY <1>4, <1>5 DEF Inside
<1>7. Finished(Last(states)) = x
  BY <1>5, <1>6, FinishedIs
<1>8. handle_value(Front(states), x) /\ Behind(file.text, token', t)
  BY <1>2, <1>3, <1>6, <1>7
<1> QED BY <1>3, <1>6, <1>8, ValueRead

\* The end of the input is where the document ends.
LEMMA EndOfInputProgress ==
  ASSUME NEW doc, NEW G, NEW w, Progress(doc, G, w), file.text \in Texts, EndOfInput
  PROVE  Progress(doc, G, w)'
<1>1. PICK text \in Texts : text = file.text
  OBVIOUS
<1>2. pc = "evaluate" /\ states = <<>>
  BY DEF EndOfInput
<1>3. root = doc /\ Behind(text, token, <<>>)
  BY <1>1, <1>2 DEF Progress
<1>4. PICK p \in Nat : token.next = p + 1 /\ Left(text, p, <<>>)
  BY <1>3 DEF Behind
<1>5. get(text, p + 1) = EOF
  <2>1. get(text, p + 1) = get(<<>>, 1)
    BY <1>4, NoText, LeftGet
  <2>2. Len(<<>>) = 0
    OBVIOUS
  <2> QED BY <2>1, <2>2 DEF get
<1>6. EOF \notin Blank /\ EOF # "BOM"
  BY DEF EOF, Blank
<1>7. scan(text, p + 1).t = "end_of_input"
  BY <1>5, <1>6, ScanCases
<1>8. pc' = "rows" /\ root' = root
  BY <1>1, <1>4, <1>7 DEF EndOfInput, get_token, parsing
<1> QED BY <1>3, <1>8 DEF Progress

\* Outside the parser of nlohmann::json the parsed value stays as it is.
LEMMA RootStays ==
  ASSUME NEW doc, NEW G, NEW w, Progress(doc, G, w), root' = root,
         pc \notin {"value", "evaluate"}, pc' \notin {"value", "evaluate"}
  PROVE  Progress(doc, G, w)'
  BY DEF Progress

\* Every step takes the parser on in what was written.
LEMMA NextProgress ==
  ASSUME NEW S, NEW r, NEW w, NEW G, Writing(S, r, w, G), NEW doc, Progress(doc, G, w), IInv,
         [Next]_vars
  PROVE  Progress(doc, G, w)'
<1>1. file.text \in Texts
  <2>1. file \in Files
    BY DEF IInv, ParsingInv
  <2> QED BY <2>1, FileText
<1>2. PICK T : states \in Seq(T)
  <2>1. PICK S0, r0 : Held(S0, r0)
    BY DEF IInv, ParsingInv
  <2> QED BY <2>1 DEF Held
<1>3. CASE Parse
  <2>1. CASE BeginObject
    BY <1>1, <1>2, <2>1, BeginObjectProgress
  <2>2. CASE BeginArray
    BY <1>1, <1>2, <2>2, BeginArrayProgress
  <2>3. CASE Scalar
    BY <1>2, <2>3, ScalarProgress
  <2>4. CASE BadValue
    BY <2>4, NoBadValue
  <2>5. CASE NextElement
    BY <1>1, <1>2, <2>5, NextElementProgress
  <2>6. CASE NextMember
    BY <1>1, <1>2, <2>6, NextMemberProgress
  <2>7. CASE EndContainer
    BY <1>1, <1>2, <2>7, EndContainerProgress
  <2>8. CASE BadSeparator
    BY <1>1, <1>2, <2>8, NoBadSeparator
  <2>9. CASE EndOfInput
    BY <1>1, <2>9, EndOfInputProgress
  <2> QED BY <1>3, <2>1, <2>2, <2>3, <2>4, <2>5, <2>6, <2>7, <2>8, <2>9 DEF Parse
<1>4. CASE Load
  <2>1. /\ pc = "rows" /\ pc' \notin {"value", "evaluate"} /\ root' = root
    BY <1>4 DEF Load, SkipRow, MapRow, BadID, Loaded, Fail, parsing
  <2>2. pc \notin {"value", "evaluate"}
    BY <2>1
  <2> QED BY <2>1, <2>2, RootStays
<1>5. CASE Map
  <2>1. /\ pc = "map" /\ pc' \notin {"value", "evaluate"} /\ root' = root
    <3>1. CASE MapMember \/ MapElement
      <4>1. pc = "map" /\ \E name, i : Scan(name, i)
        BY <3>1 DEF MapMember, MapElement
      <4>2. PICK name, i : Scan(name, i)
        BY <4>1
      <4>3. pc' \in {pc, "failed", "undefined"} /\ root' = root
        BY <4>2 DEF Scan, Fail, parsing
      <4> QED BY <4>1, <4>3
    <3>2. CASE MapComma
      BY <3>2 DEF MapComma, parsing
    <3>3. CASE MapEnd
      BY <3>3 DEF MapEnd, parsing
    <3>4. CASE BadCharacter
      BY <3>4 DEF BadCharacter, Fail, parsing
    <3> QED BY <1>5, <3>1, <3>2, <3>3, <3>4 DEF Map
  <2>2. pc \notin {"value", "evaluate"}
    BY <2>1
  <2> QED BY <2>1, <2>2, RootStays
<1>6. CASE Terminated \/ UNCHANGED vars
  <2>1. file' = file /\ pc' = pc /\ token' = token /\ states' = states /\ root' = root
    BY <1>6 DEF Terminated, vars
  <2> QED BY <2>1 DEF Progress
<1> QED BY <1>3, <1>4, <1>5, <1>6 DEF Next

\* The first token is that of the document.
LEMMA InitProgress ==
  ASSUME NEW S, NEW r, NEW w, NEW G, Writing(S, r, w, G), NEW doc \in G,
         file.text \in Texts, file.text = w[doc], Init
  PROVE  Progress(doc, G, w)
<1>1. pc = "value" /\ token = scan(file.text, 1) /\ states = <<>>
  BY DEF Init
<1>2. PICK text \in Texts : text = file.text
  OBVIOUS
<1>3. Due(doc, G, w, <<>>, doc, <<>>)
  BY DueNil
<1>4. get(<<>>, 1) \in Follow
  <2>1. Len(<<>>) = 0
    OBVIOUS
  <2> QED BY <2>1 DEF get, Follow
<1>5. Left(text, 0, w[doc] \o <<>>)
  <2>1. text \o <<>> = text
    BY ConcatEmptySeq DEF Texts
  <2>2. Len(text) \in Nat
    BY LenProperties DEF Texts
  <2>3. Left(text, 0, text)
    BY <2>2 DEF Left
  <2> QED BY <1>2, <2>1, <2>3
<1>6. PICK zero \in Nat : zero = 0
  OBVIOUS
<1>7. PICK tok : tok = scan(text, zero + 1)
  OBVIOUS
<1>8. IsScalar(doc, text, tok, <<>>) \/ IsOpening(doc, G, w, text, tok, <<>>)
  BY <1>4, <1>5, <1>6, <1>7, NoText, ScanValue
<1>9. tok = token
  BY <1>1, <1>2, <1>6, <1>7
<1>10. AtValue(doc, text, G, w, <<>>, tok)
  BY <1>3, <1>8 DEF AtValue
<1>11. AtValue(doc, file.text, G, w, states, token)
  BY <1>1, <1>2, <1>9, <1>10
<1> QED BY <1>1, <1>11 DEF Progress

\* A document is a value whose parts, to whatever depth, can be written and read
\* back; f is a file that dump wrote.
Document(S, r, G, doc) ==
  /\ Nested(S, r) /\ G \subseteq S /\ doc \in G
  /\ \A x \in G : Writable(x) \/ Readable(x, G)
Dumped(f) == \E S, r, G, depth :
  /\ Document(S, r, G, f.doc)
  /\ depth \in Nat /\ r[f.doc] < depth /\ f.text = dump(f.doc, depth)

\* Values that were built from scalars and from each other, at most n deep.
Built(G, n) == \E S, r : /\ Nested(S, r) /\ RanksBelow(S, r, n) /\ G \subseteq S
                         /\ \A x \in G : Writable(x) \/ Readable(x, G)

\* The scalars that can be written and read back are such documents.
LEMMA ScalarsBuilt == Built({x \in Scalars : Writable(x)}, 2)
<1>1. Nested(Scalars, [x \in Scalars |-> 0]) /\ RanksBelow(Scalars, [x \in Scalars |-> 0], 2)
  BY NestedStart
<1> QED BY <1>1 DEF Built

\* More values make more values readable.
LEMMA ReadableGrows ==
  ASSUME NEW G, NEW H, G \subseteq H, NEW x, Readable(x, G)
  PROVE  Readable(x, H)
<1>1. Seq(G) \subseteq Seq(H)
  OBVIOUS
<1>2. ASSUME NEW D \in SUBSET Keys, NEW f \in [D -> G] PROVE f \in [D -> H]
  OBVIOUS
<1> QED BY <1>1, <1>2 DEF Readable

\* An array or object of such documents is one more.
LEMMA ValuesBuilt ==
  ASSUME NEW G, NEW n \in Nat, n >= 2, Built(G, n), NEW x, Readable(x, G)
  PROVE  Built(G \cup {x}, n + 1)
<1>1. PICK S, r : /\ Nested(S, r) /\ RanksBelow(S, r, n) /\ G \subseteq S
                  /\ \A y \in G : Writable(y) \/ Readable(y, G)
  BY DEF Built
<1>2. Composed(x, S)
  <2>1. Composed(x, G)
    BY ReadableComposed
  <2>2. Seq(G) \subseteq Seq(S) /\ Objects(G) \subseteq Objects(S)
    BY <1>1, ObjectsGrow
  <2> QED BY <2>1, <2>2 DEF Composed
<1>3. n + 1 \in Nat /\ n + 1 > n
  OBVIOUS
<1>4. PICK S2, r2 : Grown(S2, r2, S, n + 1, x)
  BY <1>1, <1>2, <1>3, Compose
<1>5. Nested(S2, r2) /\ RanksBelow(S2, r2, n + 1) /\ G \cup {x} \subseteq S2
  BY <1>1, <1>4 DEF Grown
<1>6. \A y \in G \cup {x} : Writable(y) \/ Readable(y, G \cup {x})
  <2>1. \A y : Readable(y, G) => Readable(y, G \cup {x})
    BY ReadableGrows
  <2> QED BY <1>1, <2>1
<1> QED BY <1>5, <1>6 DEF Built

\* dump makes a file of each of them that meets the hypothesis of RoundTrip.
THEOREM BuiltDumped ==
  ASSUME NEW G, NEW n \in Nat, Built(G, n), NEW doc \in G
  PROVE  Dumped([text |-> dump(doc, n), doc |-> doc])
<1>1. PICK S, r : /\ Nested(S, r) /\ RanksBelow(S, r, n) /\ G \subseteq S
                  /\ \A y \in G : Writable(y) \/ Readable(y, G)
  BY DEF Built
<1>2. Document(S, r, G, doc)
  BY <1>1 DEF Document
<1>3. r[doc] < n
  <2>1. doc \in S /\ r[doc] \in Nat
    BY <1>1 DEF Nested
  <2> QED BY <1>1, <2>1 DEF RanksBelow
<1>4. PICK f : f = [text |-> dump(doc, n), doc |-> doc]
  OBVIOUS
<1>5. f.doc = doc /\ f.text = dump(doc, n)
  BY <1>4
<1> QED BY <1>2, <1>3, <1>4, <1>5 DEF Dumped

\* The parser reads a document that was written: with NextProgress, an inductive
\* invariant on top of IInv.
WrittenInv == file.doc # Discarded =>
  \E S, r, w, G : Writing(S, r, w, G) /\ Progress(file.doc, G, w)

\* It holds of a dumped file at the start, every step keeps it, and it gives the
\* property.
LEMMA InitWrittenInv ==
  ASSUME \A f \in Files : f.doc # Discarded => Dumped(f), Init
  PROVE  WrittenInv
<1> SUFFICES ASSUME file.doc # Discarded
             PROVE  \E S, r, w, G : Writing(S, r, w, G) /\ Progress(file.doc, G, w)
  BY DEF WrittenInv
<1>1. file \in Files
  BY DEF Init
<1>2. PICK S, r, G, depth : /\ Document(S, r, G, file.doc)
                            /\ depth \in Nat /\ r[file.doc] < depth /\ file.text = dump(file.doc, depth)
  BY <1>1 DEF Dumped
<1>3. /\ Nested(S, r) /\ G \subseteq S /\ file.doc \in G
      /\ \A x \in G : Writable(x) \/ Readable(x, G)
  BY <1>2 DEF Document
<1>4. PICK w : Writes(S, w)
  BY <1>3, WritesExists
<1>5. PICK doc \in G : doc = file.doc
  BY <1>3
<1>6. dump(doc, depth) = w[doc]
  BY <1>2, <1>3, <1>4, <1>5, DumpWrites
<1>7. Writing(S, r, w, G)
  BY <1>3, <1>4 DEF Writing
<1>8. file.text = w[doc]
  BY <1>2, <1>5, <1>6
<1>9. Progress(doc, G, w)
  BY <1>1, <1>7, <1>8, FileText, InitProgress
<1> QED BY <1>5, <1>7, <1>9

LEMMA NextWrittenInv ==
  ASSUME WrittenInv, IInv, [Next]_vars
  PROVE  WrittenInv'
<1>1. file' = file
  BY DEF Next, Parse, Load, Map, Terminated, vars, BeginObject, BeginArray, Scalar, BadValue,
         NextElement, NextMember, EndContainer, BadSeparator, EndOfInput, SkipRow, MapRow, BadID,
         Loaded, MapMember, MapElement, MapComma, MapEnd, BadCharacter, Fail, Scan, ParseKey
<1> SUFFICES ASSUME file.doc # Discarded
             PROVE  \E S, r, w, G : Writing(S, r, w, G) /\ Progress(file.doc, G, w)'
  BY <1>1 DEF WrittenInv
<1>2. PICK S, r, w, G : Writing(S, r, w, G) /\ Progress(file.doc, G, w)
  BY DEF WrittenInv
<1>3. PICK doc : doc = file.doc
  OBVIOUS
<1>4. Progress(doc, G, w)'
  BY <1>2, <1>3, NextProgress
<1>5. doc = file'.doc
  BY <1>1, <1>3
<1> QED BY <1>2, <1>4, <1>5

LEMMA WrittenInvParsed ==
  ASSUME WrittenInv
  PROVE  ParsedIsWritten
<1> SUFFICES ASSUME Parsed, file.doc # Discarded PROVE root = file.doc
  BY DEF ParsedIsWritten
<1>1. PICK S, r, w, G : Progress(file.doc, G, w)
  BY DEF WrittenInv
<1>2. pc \notin {"value", "evaluate"}
  BY DEF Parsed
<1> QED BY <1>1, <1>2 DEF Progress

\* A table file that dump (json.hpp) wrote is parsed by sax_parse_internal as the
\* value it was written for, whatever its length and nesting: if each file with a
\* document was dumped from a value of null, booleans, 64-bit integers, floats,
\* strings, arrays and objects, then the root the parser ends with is that value.
THEOREM RoundTrip ==
  ASSUME \A f \in Files : f.doc # Discarded => Dumped(f)
  PROVE  Spec => []ParsedIsWritten
<1>1. Init => WrittenInv
  BY InitWrittenInv
<1>2. WrittenInv /\ IInv /\ [Next]_vars => WrittenInv'
  BY NextWrittenInv
<1>3. WrittenInv => ParsedIsWritten
  BY WrittenInvParsed
<1>4. Spec => []IInv
  BY Invariant
<1> QED BY <1>1, <1>2, <1>3, <1>4, PTL DEF Spec
=============================================================================
